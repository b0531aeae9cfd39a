------------------------------- MODULE Runtime --------------------------------
(***************************************************************************)
(* Transactions of one block after the other, over one book of balances:   *)
(* EVM transactions that call the ERC-20 precompile, and extrinsics, which *)
(* pay a fee that DealWithFees splits.  An extrinsic transfers balances,   *)
(* or is a sudo call to the transaction pauser.  The runtimes do not ask   *)
(* FerrumCallFilter (BaseCallFilter = ()): pausing refuses nothing here.   *)
(***************************************************************************)
EXTENDS Erc20Precompile, TransactionPauser, Functions

CONSTANTS
    Authors,      \* accounts that author blocks
    NoAuthor,     \* a block whose author is not known
    SudoKey,      \* the user that may send sudo calls
    Fees,         \* [max, fee, tip]: what is withdrawn, and what it comes to
    Supply,       \* the issuance of the genesis block, as a book
    MaxMoment     \* bound on the clock

\* What is withdrawn covers fee and tip; the genesis block issues what its
\* accounts hold, none of them less than the existential deposit.
ASSUME RuntimeAssumption ==
    /\ Authors \subseteq Accounts
    /\ NoAuthor \notin Accounts
    /\ SudoKey \in Users
    /\ \A f \in Fees : {f.max, f.fee, f.tip} \subseteq Nat /\ f.max - f.tip >= f.fee
    /\ Supply \in Book /\ NoDust(Supply)
    /\ Supply.issuance = SumFunction(Supply.free)

VARIABLES
    author,       \* pallet_authorship
    payment       \* the fee that is withdrawn and not yet dealt with

runtimeVars == <<author, payment>>
vars == <<precompileVars, paused, runtimeVars>>

NoPayment == [payer |-> NoAuthor, held |-> 0, fee |-> 0, tip |-> 0, done |-> TRUE]

Init ==
    /\ PrecompileInit(Supply)
    /\ PauserInit
    /\ author = NoAuthor
    /\ payment = NoPayment
-----------------------------------------------------------------------------
NewBlock ==
    /\ evm = NoCall /\ payment = NoPayment
    /\ moment < MaxMoment
    /\ moment' = moment + 1
    /\ author' \in Authors \cup {NoAuthor}
    /\ UNCHANGED <<book, approves, nonces, evm, paused, payment>>

\* pallet_transaction_payment withdraws the most the extrinsic may cost.
WithdrawFee(payer, f) ==
    /\ evm = NoCall /\ payment = NoPayment
    /\ CanWithdraw(book, payer, f.max)
    /\ book' = Withdrawn(book, payer, f.max)
    /\ payment' = [payer |-> payer, held |-> f.max, fee |-> f.fee, tip |-> f.tip,
                   done |-> FALSE]
    /\ UNCHANGED <<approves, nonces, moment, evm, paused, author>>

ExtrinsicDone(fee) ==
    /\ payment # NoPayment /\ ~payment.done
    /\ payment' = [payment EXCEPT !.done = TRUE, !.fee = fee]
    /\ UNCHANGED <<approves, nonces, moment, evm, author>>

\* An extrinsic that fails is paid for as well.
ExtrinsicFails == ExtrinsicDone(payment.fee) /\ UNCHANGED <<book, paused>>

BalancesTransfer(to, v) ==
    /\ ExtrinsicDone(payment.fee)
    /\ CanTransfer(book, payment.payer, to, v)
    /\ book' = Transferred(book, payment.payer, to, v)
    /\ UNCHANGED paused

\* UpdateOrigin is EnsureRoot.  A sudo call costs nothing but its tip; one that
\* the pauser refuses has the effect of unpausing what is not paused.
Sudo(c) ==
    /\ ExtrinsicDone(0)
    /\ payment.payer = SudoKey
    /\ PauseTransaction(c) \/ UnpauseTransaction(c)
    /\ UNCHANGED book

\* Half of the fee, rounded down, is split off for a treasury and dropped.
Ration(fee) == (fee * 50) \div 100

\* ToAuthor: without an author the imbalance is dropped.
ToAuthor(b, v) == IF author = NoAuthor THEN 0 ELSE Creating(b, author, v)

\* Mutant of DealWithFees: the dropped half is not taken out of the issuance.
DealWithFeesMinting(b, fee, tip) ==
    LET reward == ToAuthor(b, fee - Ration(fee) + tip)
    IN IF reward = 0 THEN b ELSE Credited(b, author, reward)

DealWithFees(b, fee, tip) ==
    LET reward == ToAuthor(b, fee - Ration(fee) + tip)
        burned == Dropped(b, fee + tip - reward)
    IN IF reward = 0 THEN burned ELSE Credited(burned, author, reward)

(***************************************************************************)
(* correct_and_deposit_fee: what was withdrawn too much goes back, unless  *)
(* the payer has no account any more; then it is a fee.  The tip is split  *)
(* off what remains.                                                       *)
(***************************************************************************)
DepositFee ==
    LET p      == payment
        refund == IntoExisting(book, p.payer, p.held - p.fee - p.tip)
        paid   == p.held - refund
    IN /\ p # NoPayment /\ p.done
       /\ book' = DealWithFees(Credited(book, p.payer, refund), paid - p.tip, p.tip)
       /\ payment' = NoPayment
       /\ UNCHANGED <<approves, nonces, moment, evm, paused, author>>

\* EVM transactions have a fee of their own, which pallet_evm burns; it is left
\* out, as is the gas of the calls.
EvmStep ==
    /\ payment = NoPayment
    /\ PrecompileNext
    /\ UNCHANGED <<paused, runtimeVars>>

Next ==
    \/ NewBlock
    \/ EvmStep
    \/ \E u \in Users, f \in Fees : WithdrawFee(u, f)
    \/ \E to \in Accounts, v \in Values : BalancesTransfer(to, v)
    \/ \E c \in CallNames : Sudo(c)
    \/ ExtrinsicFails
    \/ DepositFee

Spec == Init /\ [][Next]_vars
-----------------------------------------------------------------------------
RuntimeTypeOK ==
    /\ PrecompileTypeOK
    /\ paused \subseteq CallNames
    /\ author \in Authors \cup {NoAuthor}
    /\ payment # NoPayment => payment.payer \in Users /\ payment.held \in Nat

(***************************************************************************)
(* totalSupply counts every unit once: the issuance is the sum of the free *)
(* balances and of the fee that is withdrawn and not yet dealt with,       *)
(* through dust, refunds, dropped halves, authors that are missing or too  *)
(* poor, and calls that are half done or reverted.                         *)
(***************************************************************************)
SupplyIsBalances ==
    book.issuance = SumFunction(book.free) + payment.held

(***************************************************************************)
(* The precompile, its permits, extrinsics and fees implement the token:   *)
(* see Erc20.  A call counts when it returns.                              *)
(***************************************************************************)
Token == INSTANCE Erc20 WITH
    Signed <- {p \in Permits : p.domain = Domain},
    balance <- Storage.book.free,
    supply <- Storage.book.issuance,
    allowance <- Storage.approves,
    nonce <- Storage.nonces,
    time <- Timestamp,
    fees <- payment.held,
    actor <- IF evm # NoCall THEN evm.caller ELSE payment.payer

ImplementsErc20 == Token!Spec
=============================================================================
