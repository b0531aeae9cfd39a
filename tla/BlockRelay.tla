----------------------------- MODULE BlockRelay ------------------------------
(***************************************************************************)
(* What the quantum portal promises of one direction between two chains:   *)
(* the blocks of the source chain are mined on the destination one after   *)
(* the other, none skipped, none twice, each with transactions that the    *)
(* source block starts with; and mined blocks are finalized in order.      *)
(***************************************************************************)
EXTENDS Integers, Sequences

CONSTANT Routes   \* directions <<source chain, destination chain>>

VARIABLES
    source,      \* by route: the blocks of the source, sequences of transactions
    mined,       \* by route: the blocks mined on the destination
    finalized    \* by route: how many of those are finalized

vars == <<source, mined, finalized>>

Init ==
    /\ source = [r \in Routes |-> <<>>]
    /\ mined = [r \in Routes |-> <<>>]
    /\ finalized = [r \in Routes |-> 0]

\* The sequence t starts with s.
StartsWith(t, s) == Len(s) <= Len(t) /\ \A i \in 1 .. Len(s) : t[i] = s[i]

Elsewhere(r, old, new) == \A q \in Routes \ {r} : new[q] = old[q]

\* A transaction joins the last block or starts a new one.
Grow(r) ==
    LET n == Len(source[r]) IN
    /\ Elsewhere(r, source, source')
    /\ Len(source'[r]) \in {n, n + 1}
    /\ \A i \in 1 .. n - 1 : source'[r][i] = source[r][i]
    /\ n > 0 => StartsWith(source'[r][n], source[r][n])
    /\ UNCHANGED <<mined, finalized>>

\* The next block is mined, with transactions the source block starts with.
Mine(r) ==
    LET n == Len(mined[r]) + 1 IN
    /\ n \in DOMAIN source[r]
    /\ Elsewhere(r, mined, mined')
    /\ Len(mined'[r]) = n
    /\ StartsWith(mined'[r], mined[r])
    /\ StartsWith(source[r][n], mined'[r][n])
    /\ UNCHANGED <<source, finalized>>

Finalize(r) ==
    /\ Elsewhere(r, finalized, finalized')
    /\ finalized'[r] \in finalized[r] + 1 .. Len(mined[r])
    /\ UNCHANGED <<source, mined>>

Next == \E r \in Routes : Grow(r) \/ Mine(r) \/ Finalize(r)

Spec == Init /\ [][Next]_vars
=============================================================================
