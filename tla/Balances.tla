------------------------------- MODULE Balances -------------------------------
(***************************************************************************)
(* pallet_balances as the precompile and the fee handling use it: external *)
(* code.  A book holds the free balance of every account and the total     *)
(* issuance.  An account with less than the existential deposit does not   *)
(* exist; what it has left is dust, and burned (DustRemoval = ()).         *)
(***************************************************************************)
EXTENDS Integers, FiniteSets

CONSTANTS
    Accounts,
    ExistentialDeposit

ASSUME BalancesAssumption ==
    /\ IsFiniteSet(Accounts)
    /\ ExistentialDeposit \in Nat \ {0}

Book == [free : [Accounts -> Nat], issuance : Nat]

\* No account has less than it may keep.
NoDust(book) ==
    \A a \in Accounts : book.free[a] # 0 => book.free[a] >= ExistentialDeposit

\* transfer_allow_death and the value transfer of an EVM call.
CanTransfer(book, from, to, v) ==
    \/ v = 0
    \/ /\ book.free[from] >= v
       /\ from # to => book.free[to] + v >= ExistentialDeposit

Kept(rest) == IF rest >= ExistentialDeposit THEN rest ELSE 0

Transferred(book, from, to, v) ==
    LET rest == book.free[from] - v IN
    IF from = to THEN book
    ELSE [free |-> [book.free EXCEPT ![from] = Kept(rest), ![to] = book.free[to] + v],
          issuance |-> book.issuance - (rest - Kept(rest))]

\* Currency::withdraw with KeepAlive: an imbalance is taken out of the account
\* and still counts as issued.
CanWithdraw(book, who, v) ==
    v = 0 \/ book.free[who] - v >= ExistentialDeposit

Withdrawn(book, who, v) == [book EXCEPT !.free[who] = @ - v]

\* deposit_into_existing takes nothing to an account that is gone, and
\* resolve_creating none too small to create one.  What is left is dropped.
IntoExisting(book, who, v) == IF book.free[who] > 0 THEN v ELSE 0

Creating(book, who, v) ==
    IF book.free[who] > 0 \/ v >= ExistentialDeposit THEN v ELSE 0

Credited(book, who, v) == [book EXCEPT !.free[who] = @ + v]

\* An imbalance that is dropped is no longer issued.
Dropped(book, v) == [book EXCEPT !.issuance = @ - v]
=============================================================================
