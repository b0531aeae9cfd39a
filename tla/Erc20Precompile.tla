--------------------------- MODULE Erc20Precompile ----------------------------
(***************************************************************************)
(* The precompile that shows the native currency as an ERC-20 token, with  *)
(* allowances and permits of its own.  A call runs alone; the EVM opens a  *)
(* storage transaction for it, and every ? of the code may leave it half   *)
(* done (out of gas, a log that is not allowed, a transfer that fails),    *)
(* which puts storage back.  So a call is several steps here, one for each *)
(* write.  Calls that end before their first write change nothing and are  *)
(* left out.                                                               *)
(***************************************************************************)
EXTENDS Balances

CONSTANTS
    Users,           \* accounts that send transactions
    Precompile,      \* the account of the precompile's own address
    Values,          \* U256 arguments
    MaxBalance,      \* the largest u128
    NoEntry,         \* no entry in ApprovesStorage
    TicksPerSecond,  \* pallet_timestamp counts 1000 of them
    Domain,          \* name, version, chain id and address of this token
    Permits          \* the permits that were signed, by their owners

ASSUME PrecompileAssumption ==
    /\ Users \subseteq Accounts
    /\ Precompile \in Accounts
    /\ Values \subseteq Nat
    /\ MaxBalance \in Nat
    /\ NoEntry \notin Nat
    /\ TicksPerSecond \in Nat \ {0}
    /\ \A p \in Permits :
         /\ {p.owner, p.spender} \subseteq Users
         /\ {p.value, p.nonce, p.deadline} \subseteq Nat

VARIABLES
    book,       \* pallet_balances
    approves,   \* ApprovesStorage: owner, spender, amount
    nonces,     \* NoncesStorage
    moment,     \* pallet_timestamp
    evm         \* the call being executed

precompileVars == <<book, approves, nonces, moment, evm>>

NoCall == [at |-> "none"]

\* What the call is, where it stands and what storage was when it started.
Running(at, caller, from, to, v) ==
    [at |-> at, caller |-> caller, from |-> from, to |-> to, value |-> v,
     saved |-> [book |-> book, approves |-> approves, nonces |-> nonces]]

\* All writes are done; what is logged and returned is left out.
Written(caller) == Running("log", caller, caller, caller, 0)

PrecompileInit(b) ==
    /\ book = b
    /\ approves = [o \in Accounts |-> [s \in Accounts |-> NoEntry]]
    /\ nonces = [o \in Accounts |-> 0]
    /\ moment = 0
    /\ evm = NoCall
-----------------------------------------------------------------------------
U256ToAmountFits(v) == v <= MaxBalance

\* Mutant of Saturated: the amount is taken as it is.
Unsaturated(v) == v

Saturated(v) == IF U256ToAmountFits(v) THEN v ELSE MaxBalance

Approve(caller, spender, v) ==
    /\ evm = NoCall
    /\ approves' = [approves EXCEPT ![caller][spender] = Saturated(v)]
    /\ evm' = Written(caller)
    /\ UNCHANGED <<book, nonces, moment>>

Transfer(caller, to, v) ==
    /\ evm = NoCall
    /\ U256ToAmountFits(v)
    /\ CanTransfer(book, caller, to, v)
    /\ book' = Transferred(book, caller, to, v)
    /\ evm' = Written(caller)
    /\ UNCHANGED <<approves, nonces, moment>>

\* The allowance goes down first; "from" itself needs none.
TransferFrom(caller, from, to, v) ==
    /\ evm = NoCall
    /\ U256ToAmountFits(v)
    /\ \/ caller = from /\ UNCHANGED approves
       \/ /\ caller # from
          /\ approves[from][caller] # NoEntry
          /\ approves[from][caller] >= v
          /\ approves' = [approves EXCEPT ![from][caller] = @ - v]
    /\ evm' = Running("dispatch", caller, from, to, v)
    /\ UNCHANGED <<book, nonces, moment>>

\* The EVM has moved the value to the precompile before deposit runs, which
\* sends it back.
Deposit(caller, v) ==
    /\ evm = NoCall
    /\ v # 0 /\ U256ToAmountFits(v)
    /\ CanTransfer(book, caller, Precompile, v)
    /\ book' = Transferred(book, caller, Precompile, v)
    /\ evm' = Running("dispatch", caller, Precompile, caller, v)
    /\ UNCHANGED <<approves, nonces, moment>>

\* The transfer that transferFrom and deposit dispatch as "from".
Dispatch ==
    /\ evm.at = "dispatch"
    /\ CanTransfer(book, evm.from, evm.to, evm.value)
    /\ book' = Transferred(book, evm.from, evm.to, evm.value)
    /\ evm' = [Written(evm.caller) EXCEPT !.saved = evm.saved]
    /\ UNCHANGED <<approves, nonces, moment>>

\* Tokens are not wrapped: there is nothing to take out.
Withdraw(caller, v) ==
    /\ evm = NoCall
    /\ v <= book.free[caller]
    /\ evm' = Written(caller)
    /\ UNCHANGED <<book, approves, nonces, moment>>
-----------------------------------------------------------------------------
(***************************************************************************)
(* EIP-2612.  The signature recovers to the owner if and only if the owner *)
(* signed this very permit, with the nonce that storage holds.             *)
(***************************************************************************)
Timestamp == moment \div TicksPerSecond

GeneratePermit(owner, spender, v, deadline) ==
    [domain |-> Domain, owner |-> owner, spender |-> spender, value |-> v,
     nonce |-> nonces[owner], deadline |-> deadline]

\* Mutant of Permit: the nonce is not counted up.
PermitKeepsNonce(caller, owner, spender, v, deadline, signature) ==
    /\ evm = NoCall
    /\ deadline >= Timestamp
    /\ signature = GeneratePermit(owner, spender, v, deadline)
    /\ evm' = Running("permit", caller, owner, spender, v)
    /\ UNCHANGED <<book, approves, nonces, moment>>

Permit(caller, owner, spender, v, deadline, signature) ==
    /\ evm = NoCall
    /\ deadline >= Timestamp
    /\ signature = GeneratePermit(owner, spender, v, deadline)
    /\ nonces' = [nonces EXCEPT ![owner] = @ + 1]
    /\ evm' = Running("permit", caller, owner, spender, v)
    /\ UNCHANGED <<book, approves, moment>>

PermitApproves ==
    /\ evm.at = "permit"
    /\ approves' = [approves EXCEPT ![evm.from][evm.to] = Saturated(evm.value)]
    /\ evm' = [Written(evm.caller) EXCEPT !.saved = evm.saved]
    /\ UNCHANGED <<book, nonces, moment>>
-----------------------------------------------------------------------------
\* The event is recorded and the call returns.
Return ==
    /\ evm.at = "log"
    /\ evm' = NoCall
    /\ UNCHANGED <<book, approves, nonces, moment>>

Revert ==
    /\ evm # NoCall
    /\ book' = evm.saved.book
    /\ approves' = evm.saved.approves
    /\ nonces' = evm.saved.nonces
    /\ evm' = NoCall
    /\ UNCHANGED moment

\* An allowance for oneself is never read, and left out.
Call(caller) ==
    \/ \E u \in Users \ {caller}, v \in Values : Approve(caller, u, v)
    \/ \E to \in Accounts, v \in Values : Transfer(caller, to, v)
    \/ \E from \in Users, to \in Accounts, v \in Values :
         TransferFrom(caller, from, to, v)
    \/ \E v \in Values : Deposit(caller, v) \/ Withdraw(caller, v)
    \/ \E p, s \in Permits : Permit(caller, p.owner, p.spender, p.value, p.deadline, s)

PrecompileNext ==
    \/ \E u \in Users : Call(u)
    \/ Dispatch \/ PermitApproves \/ Return \/ Revert
-----------------------------------------------------------------------------
PrecompileTypeOK ==
    /\ book \in Book
    /\ approves \in [Accounts -> [Accounts -> (0 .. MaxBalance) \cup {NoEntry}]]
    /\ nonces \in [Accounts -> Nat]
    /\ moment \in Nat
    /\ evm # NoCall =>
         /\ evm.at \in {"dispatch", "permit", "log"}
         /\ evm.caller \in Users
         /\ {evm.from, evm.to} \subseteq Accounts
         /\ evm.saved.book \in Book

\* Storage as it is between calls: what a call did before it returns does not
\* count yet.
Storage ==
    IF evm = NoCall THEN [book |-> book, approves |-> approves, nonces |-> nonces]
                    ELSE evm.saved
=============================================================================
