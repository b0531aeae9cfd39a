-------------------------------- MODULE Erc20 ---------------------------------
(***************************************************************************)
(* What the native token promises its holders, call by call: a call takes  *)
(* effect as a whole or not at all.  Nobody but the owner moves a balance, *)
(* unless within an allowance, and the allowance goes down by what is      *)
(* moved.  Only the owner sets an allowance, by a call of its own or by a  *)
(* permit it signed, each used once, in the order of its nonces and not    *)
(* after its deadline.  Nothing is ever created: what leaves the balances  *)
(* is dust, or a fee, that is paid to an author, refunded or burned.       *)
(***************************************************************************)
EXTENDS Integers

CONSTANTS
    Accounts,
    ExistentialDeposit,
    MaxBalance,      \* the most an allowance can hold
    NoEntry,         \* no allowance was ever set
    Signed           \* the permits that owners signed for this token

VARIABLES
    balance, supply, allowance, nonce, time,
    fees,            \* charged and not yet settled
    actor            \* who signed the transaction that is being executed

vars == <<balance, supply, allowance, nonce, time, fees, actor>>

Init ==
    /\ allowance = [a \in Accounts |-> [b \in Accounts |-> NoEntry]]
    /\ nonce = [a \in Accounts |-> 0]
    /\ fees = 0

Capped(v) == IF v > MaxBalance THEN MaxBalance ELSE v

\* An account is left with less than it may keep: that is burned.
Dust == 0 .. ExistentialDeposit - 1

Moves(from, to, v, dust) ==
    /\ balance[from] >= v + dust
    /\ dust > 0 => balance[from] = v + dust
    /\ balance' = [a \in Accounts |->
         balance[a] - (IF a = from THEN v + dust ELSE 0) + (IF a = to THEN v ELSE 0)]
    /\ supply' = supply - dust

Transfer(from, to, v, dust) ==
    /\ Moves(from, to, v, dust)
    /\ UNCHANGED <<allowance, nonce, fees, time>>

TransferFrom(spender, from, to, v, dust) ==
    /\ allowance[from][spender] # NoEntry
    /\ allowance[from][spender] >= v
    /\ Moves(from, to, v, dust)
    /\ allowance' = [allowance EXCEPT ![from][spender] = @ - v]
    /\ UNCHANGED <<nonce, fees, time>>

\* Depositing all but dust comes back without the dust.
Deposit(who, dust) ==
    /\ balance[who] > dust
    /\ balance' = [balance EXCEPT ![who] = @ - dust]
    /\ supply' = supply - dust
    /\ UNCHANGED <<allowance, nonce, fees, time>>

Approve(owner, spender) ==
    /\ \E v \in 0 .. MaxBalance : allowance' = [allowance EXCEPT ![owner][spender] = v]
    /\ UNCHANGED <<balance, supply, nonce, fees, time>>

Permit(p) ==
    /\ p.nonce = nonce[p.owner]
    /\ time <= p.deadline
    /\ nonce' = [nonce EXCEPT ![p.owner] = @ + 1]
    /\ allowance' = [allowance EXCEPT ![p.owner][p.spender] = Capped(p.value)]
    /\ UNCHANGED <<balance, supply, fees, time>>

ChargeFee(who) ==
    /\ fees = 0
    /\ \E v \in 0 .. balance[who] :
         /\ balance' = [balance EXCEPT ![who] = @ - v]
         /\ fees' = v
    /\ actor' = who
    /\ UNCHANGED <<supply, allowance, nonce, time>>

SettleFee(who, author) ==
    /\ \E refund \in 0 .. fees : \E reward \in 0 .. fees - refund :
         /\ balance' = [a \in Accounts |->
              balance[a] + (IF a = who THEN refund ELSE 0)
                         + (IF a = author THEN reward ELSE 0)]
         /\ supply' = supply - (fees - refund - reward)
    /\ fees' = 0
    /\ UNCHANGED <<allowance, nonce, time>>

Pass ==
    /\ time' >= time
    /\ UNCHANGED <<balance, supply, allowance, nonce, fees>>

\* What the account that signed the transaction may do.
Act(who) ==
    \/ \E to \in Accounts, v \in 0 .. supply, dust \in Dust : Transfer(who, to, v, dust)
    \/ \E from, to \in Accounts, v \in 0 .. supply, dust \in Dust :
         TransferFrom(who, from, to, v, dust)
    \/ \E dust \in Dust : Deposit(who, dust)
    \/ \E b \in Accounts : Approve(who, b) \/ SettleFee(who, b)

Next ==
    \/ \E who \in Accounts : actor = who /\ Act(who)
    \/ \E p \in Signed : Permit(p)
    \/ \E a \in Accounts : ChargeFee(a)
    \/ Pass

Spec == Init /\ [][Next]_vars
=============================================================================
