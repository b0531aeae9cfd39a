---------------------------- MODULE SingleFlight -----------------------------
(***************************************************************************)
(* What process_pair promises: towards each chain the node has at most one *)
(* transaction in flight, and it launches the next one only after that one *)
(* is completed, dropped or timed out.                                     *)
(***************************************************************************)

CONSTANTS Chains, Hashes

VARIABLE flight   \* the transactions in flight to each chain

Init == flight = [c \in Chains |-> {}]

\* A new transaction goes out to a chain that has none in flight.
Launch(c, h) ==
    /\ flight[c] = {}
    /\ \A d \in Chains : h \notin flight[d]
    /\ flight' = [flight EXCEPT ![c] = {h}]

\* The transactions to the chains D are through: one tick of the clock may time
\* out several.
Land(D) ==
    flight' = [c \in Chains |-> IF c \in D THEN {} ELSE flight[c]]

Next ==
    \/ \E c \in Chains, h \in Hashes : Launch(c, h)
    \/ \E D \in SUBSET Chains : Land(D)

Spec == Init /\ [][Next]_flight
=============================================================================
