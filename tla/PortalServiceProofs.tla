------------------------ MODULE PortalServiceProofs --------------------------
(***************************************************************************)
(* Proofs about PortalService, for any number of workers, chains, pairs    *)
(* and transactions, any timeout and any lease.                            *)
(***************************************************************************)
EXTENDS PortalService, TLAPS

\* First-order leaves go to Zenon; those that need arithmetic, sequences or records
\* cite SMT, with a limit that leaves room for a slow machine.
USE Zenon

\* Steps of process_pair that have a pair to work on.
Processing == {"is_open", "lock"} \cup Critical

\* Local(w) is defined where worker w uses it, and w asks for a status only of a
\* stored transaction.
PlaceOK(w) ==
    /\ pc[w] \in Processing => pair[w] \in 1..Len(Pairs)
    /\ pc[w] \in {"idle", "configure"} => pair[w] = 1
    /\ pc[w] \in {"status", "remove"} => live[w] # NoTx

\* The type invariant, strengthened to be inductive.
TypeInv == TypeOK /\ \A w \in Workers : PlaceOK(w)

\* The lease: one worker runs at a time, and never past its deadline.
LeaseInv ==
    /\ \A v, w \in Workers : Running(v) /\ Running(w) => v = w
    /\ \A w \in Workers : Running(w) => clock <= lease

\* What worker w knows of the storage at each of its steps.
Knows(w) ==
    /\ pc[w] \in Critical \ {"unlock"} => store[LockKey] # NoTx
    /\ pc[w] \in {"client", "save"} => store[Local(w)] = NoTx
    /\ pc[w] \in {"status", "remove"} => live[w] = store[Local(w)]
    /\ pc[w] = "remove" => HasReceipt(live[w].hash) \/ TimedOut(live[w], now[w])

\* A slot holds a record of its own chain, no worker is ahead of the clock, and
\* every worker is right about the storage.
StoreInv ==
    /\ \A c \in Chains : store[c] # NoTx => store[c].chain = c
    /\ \A w \in Workers : now[w] <= clock
    /\ \A w \in Workers : Knows(w)

\* The process lock was left behind: no worker gets to a chain any more.
Stuck ==
    /\ store[LockKey] # NoTx
    /\ \A w \in Workers : pc[w] \notin Critical \cup {"lock"}

\* The slot of its chain records h.
Recorded(h) ==
    LET p == store[txs[h].chain]
    IN  p # NoTx /\ p.at = txs[h].at /\ p.hash \in {h, ZeroHash}

\* Worker w sent h and is about to record it.
InHand(w, h) ==
    /\ pc[w] = "save"
    /\ Local(w) = txs[h].chain
    /\ now[w] = txs[h].at
    /\ hash[w] \in {h, ZeroHash}

\* Every outstanding transaction is recorded, or about to be, unless the process
\* lock was left behind.
Tracked ==
    \A c \in Chains : \A h \in Outstanding(c) :
        Recorded(h) \/ \E w \in Workers : InHand(w, h)

Covered == Stuck \/ Tracked

SafetyInv == TypeInv /\ LeaseInv /\ StoreInv
IInv == SafetyInv /\ Covered /\ OneOutstanding

-----------------------------------------------------------------------------
(***************************************************************************)
(* Type correctness.                                                       *)
(***************************************************************************)

\* The chains of the pair a worker processes are configured chains.
LEMMA PairChains ==
    ASSUME TypeInv, NEW w \in Workers, pc[w] \in Processing
    PROVE  Local(w) \in Chains /\ Remote(w) \in Chains
<1>1. pair[w] \in 1..Len(Pairs)
  BY DEF TypeInv, PlaceOK
<1>2. Pairs[pair[w]] \in Chains \X Chains
  BY <1>1, ConstantsAssumption, SMTT(30)
<1> QED
  BY <1>2 DEF Local, Remote

\* Going on to the next pair keeps the index in range while there is one.
LEMMA NextPairType ==
    ASSUME TypeInv, NEW w \in Workers, pc[w] \in Processing, NextPair(w)
    PROVE  /\ pc' \in [Workers -> PCs]
           /\ pair' \in [Workers -> 1..Len(Pairs) + 1]
           /\ pc'[w] \in {"is_open", "release"}
           /\ pc'[w] = "is_open" => pair'[w] \in 1..Len(Pairs)
           /\ \A v \in Workers \ {w} : pc'[v] = pc[v] /\ pair'[v] = pair[v]
<1>1. pair[w] \in 1..Len(Pairs) /\ Len(Pairs) \in Nat
  BY ConstantsAssumption, SMTT(30) DEF TypeInv, PlaceOK
<1> QED
  BY <1>1, SMTT(30) DEF NextPair, Goto, TypeInv, TypeOK, PCs

\* A configuration that is accepted has a first pair.
LEMMA FirstPair ==
    ASSUME Len(Pairs) \in 1..MAX_PAIRS_TO_MINE
    PROVE  1 \in 1..Len(Pairs)
BY ConstantsAssumption, SMTT(30) DEF MAX_PAIRS_TO_MINE

\* The steps of a worker that has the lease preserve the type invariant.
LEMMA ProceedType ==
    ASSUME TypeInv, NEW w \in Workers, Proceed(w)
    PROVE  TypeInv'
<1>1. TypeOK /\ PlaceOK(w) /\ pc \in [Workers -> PCs]
  BY DEF TypeInv, TypeOK
<1>2. ASSUME \A v \in Workers \ {w} :
                /\ pc'[v] = pc[v] /\ pair'[v] = pair[v]
                /\ live'[v] = live[v] \/ pc'[v] = "idle",
             TypeOK', PlaceOK(w)'
      PROVE  TypeInv'
  <2>1. \A v \in Workers \ {w} : PlaceOK(v)'
    BY <1>2 DEF TypeInv, PlaceOK, Processing, Critical
  <2> QED
    BY <1>2, <2>1 DEF TypeInv
<1>3. CASE Configure(w)
  <2>1. pair[w] = 1 /\ UNCHANGED <<pair, live>>
    BY <1>1, <1>3 DEF Configure, PlaceOK
  <2>2. TypeOK'
    BY <1>1, <1>3, ZenonT(30) DEF Configure, Goto, TypeOK, PCs, nodeVars
  <2>3. CASE role # "None" /\ Len(Pairs) \in 1..MAX_PAIRS_TO_MINE
    <3>1. pc' = [pc EXCEPT ![w] = "is_open"]
      BY <1>3, <2>3 DEF Configure, Goto
    <3>2. pair'[w] \in 1..Len(Pairs)
      BY <2>1, <2>3, FirstPair
    <3> QED
      BY <1>1, <1>2, <2>1, <2>2, <3>1, <3>2 DEF PlaceOK
  <2>4. CASE ~(role # "None" /\ Len(Pairs) \in 1..MAX_PAIRS_TO_MINE)
    <3>1. pc' = [pc EXCEPT ![w] = "release"]
      BY <1>3, <2>4 DEF Configure, Goto
    <3> QED
      BY <1>1, <1>2, <2>1, <2>2, <3>1 DEF PlaceOK, Processing, Critical
  <2> QED
    BY <2>3, <2>4
<1>4. ASSUME pc[w] \in Processing, NextPair(w),
             UNCHANGED live \/ live' = [live EXCEPT ![w] = NoTx],
             /\ clock' \in Nat /\ role' \in Roles /\ lease' \in Nat \cup {NoLease}
             /\ store' \in [Keys -> PendingTransaction \cup {NoTx}]
             /\ txs' \in [Hashes -> TxRecord \cup {NoTx}]
             /\ now' \in [Workers -> Nat]
             /\ live' \in [Workers -> PendingTransaction \cup {NoTx}]
             /\ hash' \in [Workers -> Hashes \cup {ZeroHash}]
      PROVE  TypeInv'
  <2>1. /\ pc' \in [Workers -> PCs]
        /\ pair' \in [Workers -> 1..Len(Pairs) + 1]
        /\ pc'[w] \in {"is_open", "release"}
        /\ pc'[w] = "is_open" => pair'[w] \in 1..Len(Pairs)
        /\ \A v \in Workers \ {w} : pc'[v] = pc[v] /\ pair'[v] = pair[v]
    BY <1>4, NextPairType
  <2>2. TypeOK'
    BY <1>4, <2>1 DEF TypeOK
  <2>3. PlaceOK(w)'
    BY <2>1 DEF PlaceOK, Processing, Critical
  <2>4. \A v \in Workers \ {w} : live'[v] = live[v]
    BY <1>1, <1>4 DEF TypeOK
  <2> QED
    BY <1>2, <2>1, <2>2, <2>3, <2>4
<1>5. ASSUME NEW l \in Processing, pc' = [pc EXCEPT ![w] = l],
             pc[w] \in Processing, UNCHANGED pair,
             \A v \in Workers \ {w} : live'[v] = live[v],
             l \in {"status", "remove"} => live'[w] # NoTx,
             TypeOK'
      PROVE  TypeInv'
  BY <1>1, <1>2, <1>5 DEF PlaceOK, Processing, Critical
<1>6. CASE LockIsOpen(w)
  <2>1. CASE store[LockKey] = NoTx
    <3>1. TypeOK'
      BY <1>1, <1>6, <2>1, ZenonT(30) DEF LockIsOpen, Goto, TypeOK, PCs, nodeVars
    <3> QED
      BY <1>5, <1>6, <2>1, <3>1 DEF LockIsOpen, Goto, Processing
  <2>2. CASE store[LockKey] # NoTx
    <3>1. NextPair(w) /\ pc[w] \in Processing /\ UNCHANGED <<clock, nodeVars, txs, now, live, hash>>
      BY <1>6, <2>2 DEF LockIsOpen, Processing
    <3> QED
      BY <1>1, <1>4, <3>1 DEF TypeOK, nodeVars
  <2> QED
    BY <2>1, <2>2
<1>7. CASE Lock(w)
  <2>1. [chain |-> LockKey, remote |-> ZeroHash, at |-> 0, hash |-> ZeroHash]
           \in PendingTransaction
    BY DEF PendingTransaction, Keys
  <2>2. TypeOK'
    BY <1>1, <1>7, <2>1, ZenonT(30) DEF Lock, Goto, TypeOK, PCs
  <2> QED
    BY <1>5, <1>7, <2>2 DEF Lock, Goto, Processing, Critical
<1>8. CASE StoredPendingTransactions(w)
  <2>1. Local(w) \in Keys
    BY <1>8, PairChains DEF StoredPendingTransactions, Processing, Critical, Keys
  <2>2. TypeOK'
    BY <1>1, <1>8, <2>1 DEF StoredPendingTransactions, Goto, TypeOK, PCs, nodeVars
  <2>3. /\ live'[w] = store[Local(w)]
        /\ \A v \in Workers \ {w} : live'[v] = live[v]
    BY <1>1, <1>8 DEF StoredPendingTransactions, TypeOK
  <2> QED
    BY <1>5, <1>8, <2>2, <2>3, ZenonT(30) DEF StoredPendingTransactions, Goto, Processing, Critical
<1>9. CASE CheckPending(w)
  <2>1. TypeOK'
    BY <1>1, <1>9 DEF CheckPending, Goto, TypeOK, PCs, nodeVars
  <2>2. live[w] # NoTx
    BY <1>1, <1>9 DEF CheckPending, PlaceOK
  <2> QED
    BY <1>5, <1>9, <2>1, <2>2, ZenonT(30) DEF CheckPending, Goto, Processing, Critical
<1>10. CASE RemoveTransaction(w)
  <2>1. TypeOK'
    BY <1>1, <1>10, ZenonT(30) DEF RemoveTransaction, Goto, TypeOK, PCs
  <2>2. \A v \in Workers \ {w} : live'[v] = live[v]
    BY <1>1, <1>10 DEF RemoveTransaction, TypeOK
  <2> QED
    BY <1>5, <1>10, <2>1, <2>2 DEF RemoveTransaction, Goto, Processing, Critical
<1>11. CASE Client(w)
  <2>1. ASSUME NEW h \in Hashes, pc[w] = "client", Send(w, h)
        PROVE  txs' \in [Hashes -> TxRecord \cup {NoTx}]
    <3>1. Local(w) \in Chains
      BY <2>1, PairChains DEF Processing, Critical
    <3>2. [chain |-> Local(w), at |-> now[w], status |-> "mempool"] \in TxRecord
      BY <1>1, <3>1 DEF TxRecord, TypeOK
    <3> QED
      BY <1>1, <2>1, <3>2 DEF Send, TypeOK
  <2>2. txs' \in [Hashes -> TxRecord \cup {NoTx}] /\ pc[w] = "client"
    BY <1>1, <1>11, <2>1 DEF Client, ClientErr, ClientNone, ClientMined,
                             ClientFinalized, ClientReplyLost, TypeOK
  <2>3. /\ UNCHANGED <<clock, nodeVars, pair, now, live>>
        /\ hash' \in [Workers -> Hashes \cup {ZeroHash}]
        /\ \E l \in {"unlock", "unlock_inner", "save"} : pc' = [pc EXCEPT ![w] = l]
    BY <1>1, <1>11, SMTT(30) DEF Client, ClientErr, ClientNone, ClientMined,
                       ClientFinalized, ClientReplyLost, Goto, TypeOK
  <2>4. TypeOK'
    BY <1>1, <2>2, <2>3 DEF TypeOK, PCs, nodeVars
  <2> QED
    BY <1>5, <2>2, <2>3, <2>4, ZenonT(30) DEF Processing, Critical
<1>12. CASE SaveTx(w)
  <2>1. Local(w) \in Chains /\ Remote(w) \in Chains
    BY <1>12, PairChains DEF SaveTx, Processing, Critical
  <2>2. [chain |-> Local(w),
         remote |-> IF role = "QP_MINER" THEN Remote(w) ELSE ZeroHash,
         at |-> now[w], hash |-> hash[w]] \in PendingTransaction
    BY <1>1, <2>1 DEF PendingTransaction, TypeOK, Keys
  <2>3. TypeOK'
    BY <1>1, <1>12, <2>1, <2>2, ZenonT(30) DEF SaveTx, Goto, TypeOK, PCs
  <2> QED
    BY <1>5, <1>12, <2>3 DEF SaveTx, Goto, Processing, Critical
<1>13. CASE RemoveLockInner(w)
  <2>1. TypeOK'
    BY <1>1, <1>13, ZenonT(30) DEF RemoveLockInner, Goto, TypeOK, PCs
  <2> QED
    BY <1>5, <1>13, <2>1 DEF RemoveLockInner, Goto, Processing, Critical
<1>14. CASE RemoveLock(w)
  <2>1. NextPair(w) /\ pc[w] \in Processing
    BY <1>14 DEF RemoveLock, Processing, Critical
  <2>2. /\ UNCHANGED <<clock, role, lease, txs, now, hash>>
        /\ live' = [live EXCEPT ![w] = NoTx]
        /\ store' = [store EXCEPT ![LockKey] = NoTx]
    BY <1>14 DEF RemoveLock
  <2> QED
    BY <1>1, <1>4, <2>1, <2>2, ZenonT(30) DEF TypeOK
<1>15. CASE Release(w)
  <2>1. TypeOK'
    BY <1>1, <1>15, ConstantsAssumption, SMTT(30) DEF Release, Forget, TypeOK, PCs, NoLease
  <2>2. PlaceOK(w)'
    BY <1>1, <1>15 DEF Release, Forget, PlaceOK, Processing, Critical, TypeOK
  <2>3. \A v \in Workers \ {w} :
           pc'[v] = pc[v] /\ pair'[v] = pair[v] /\ live'[v] = live[v]
    BY <1>1, <1>15 DEF Release, Forget, TypeOK
  <2> QED
    BY <1>2, <2>1, <2>2, <2>3
<1> QED
  BY <1>3, <1>6, <1>7, <1>8, <1>9, <1>10, <1>11, <1>12, <1>13, <1>14, <1>15
  DEF Proceed

\* The initial state is well typed.
LEMMA InitType == Init => TypeInv
BY ConstantsAssumption, SMTT(30)
   DEF Init, TypeInv, TypeOK, PlaceOK, PCs, Processing, Critical, NoLease, Keys

\* Every step preserves the type invariant.
LEMMA NextType == TypeInv /\ [Next]_vars => TypeInv'
<1> SUFFICES ASSUME TypeInv, [Next]_vars PROVE TypeInv'
  OBVIOUS
<1> USE DEF TypeInv, TypeOK, PlaceOK, PCs, Processing, Critical, nodeVars, workerVars
<1>1. ASSUME NEW w \in Workers, TryLock(w) PROVE TypeInv'
  BY <1>1, ConstantsAssumption, SMTT(30) DEF TryLock, Goto
<1>2. ASSUME NEW w \in Workers, TryLockRefused(w) PROVE TypeInv'
  BY <1>2 DEF TryLockRefused, vars
<1>3. ASSUME NEW w \in Workers, Panic(w) PROVE TypeInv'
  BY <1>3, ConstantsAssumption, SMTT(30) DEF Panic, Forget
<1>4. CASE Restart
  BY <1>4, ConstantsAssumption, SMTT(30) DEF Restart
<1>5. ASSUME NEW h \in Hashes, Execute(h) \/ DropTx(h) PROVE TypeInv'
  <2>1. txs[h] \in TxRecord
    BY <1>5 DEF Execute, DropTx
  <2>2. PICK s \in {"confirmed", "failed", "dropped"} :
           txs' = [txs EXCEPT ![h].status = s]
    BY <1>5 DEF Execute, DropTx
  <2>3. [txs[h] EXCEPT !.status = s] \in TxRecord
    BY <2>1, ZenonT(30) DEF TxRecord
  <2>4. txs' \in [Hashes -> TxRecord \cup {NoTx}]
    BY <2>2, <2>3
  <2> QED
    BY <1>5, <2>4 DEF Execute, DropTx
<1>6. CASE Tick
  BY <1>6, SMTT(30) DEF Tick
<1>7. CASE UNCHANGED vars
  BY <1>7 DEF vars
<1> QED
  BY <1>1, <1>2, <1>3, <1>4, <1>5, <1>6, <1>7, ProceedType, SMTT(30) DEF Next

\* Every reachable state is well typed: the index of the pair never runs past
\* pair_vec while a pair is processed, and the slots, the lock and the workers
\* hold what the code puts there.
THEOREM TypeCorrect == Spec => []TypeOK
<1>1. Init => TypeInv
  BY InitType
<1>2. TypeInv /\ [Next]_vars => TypeInv'
  BY NextType
<1>3. TypeInv => TypeOK
  BY DEF TypeInv
<1> QED
  BY <1>1, <1>2, <1>3, PTL DEF Spec

-----------------------------------------------------------------------------
(***************************************************************************)
(* Mutual exclusion, from the lease.                                       *)
(***************************************************************************)

\* Nobody holds the lease at the start.
LEMMA InitLease == Init => LeaseInv
BY DEF Init, LeaseInv, Running

\* A worker that proceeds keeps the lease until it is through.
LEMMA ProceedLease ==
    ASSUME NEW w \in Workers, Proceed(w)
    PROVE  /\ Running(w)
           /\ \A v \in Workers \ {w} : TypeOK => pc'[v] = pc[v]
           /\ UNCHANGED clock
           /\ UNCHANGED lease \/ (TypeOK => ~Running(w)')
<1> USE DEF Running, Goto, NextPair, Forget, nodeVars, TypeOK
<1>1. CASE Configure(w) \/ LockIsOpen(w) \/ Lock(w)
  BY <1>1 DEF Configure, LockIsOpen, Lock
<1>2. CASE StoredPendingTransactions(w) \/ CheckPending(w) \/ RemoveTransaction(w)
  BY <1>2 DEF StoredPendingTransactions, CheckPending, RemoveTransaction
<1>3. CASE Client(w)
  BY <1>3 DEF Client, ClientErr, ClientNone, ClientMined, ClientFinalized,
              ClientReplyLost
<1>4. CASE SaveTx(w) \/ RemoveLockInner(w) \/ RemoveLock(w)
  BY <1>4 DEF SaveTx, RemoveLockInner, RemoveLock
<1>5. CASE Release(w)
  BY <1>5 DEF Release
<1> QED
  BY <1>1, <1>2, <1>3, <1>4, <1>5, ZenonT(30) DEF Proceed

\* Every step preserves the lease invariant, when workers end in time.
LEMMA NextLease ==
    ASSUME "overlap" \notin Faults, TypeInv, LeaseInv, [Next]_vars
    PROVE  LeaseInv'
<1> USE DEF LeaseInv, Running
<1>0. TypeOK
  BY DEF TypeInv
<1>1. ASSUME NEW w \in Workers, TryLock(w) PROVE LeaseInv'
  <2>1. \A v \in Workers : ~Running(v)
    BY <1>0, <1>1, SMTT(30) DEF TryLock, TypeOK, NoLease
  <2>2. clock' <= lease'
    BY <1>0, <1>1, ConstantsAssumption, SMTT(30) DEF TryLock, TypeOK
  <2> QED
    BY <1>0, <1>1, <2>1, <2>2 DEF TryLock, Goto, TypeOK
<1>2. ASSUME NEW w \in Workers, TryLockRefused(w) PROVE LeaseInv'
  BY <1>2 DEF TryLockRefused, vars, nodeVars, workerVars
<1>3. ASSUME NEW w \in Workers, Proceed(w) PROVE LeaseInv'
  BY <1>0, <1>3, ProceedLease
<1>4. ASSUME NEW w \in Workers, Panic(w) PROVE LeaseInv'
  BY <1>0, <1>4 DEF Panic, Forget, nodeVars, TypeOK
<1>5. CASE Restart
  BY <1>5 DEF Restart
<1>6. ASSUME NEW h \in Hashes, Execute(h) \/ DropTx(h) PROVE LeaseInv'
  BY <1>6 DEF Execute, DropTx, nodeVars, workerVars
<1>7. CASE Tick
  BY <1>0, <1>7, SMTT(30) DEF Tick, nodeVars, workerVars, TypeOK, NoLease
<1>8. CASE UNCHANGED vars
  BY <1>8 DEF vars, nodeVars, workerVars
<1> QED
  BY <1>1, <1>2, <1>3, <1>4, <1>5, <1>6, <1>7, <1>8 DEF Next

\* Two workers are never inside process_pair at once, whatever panics and
\* restarts happen, provided every worker ends within its lease.
THEOREM MutualExclusionHolds ==
    ASSUME "overlap" \notin Faults
    PROVE  Spec => []MutualExclusion
<1>1. Init => TypeInv /\ LeaseInv
  BY InitType, InitLease
<1>2. TypeInv /\ LeaseInv /\ [Next]_vars => (TypeInv /\ LeaseInv)'
  BY NextType, NextLease
<1>3. LeaseInv => MutualExclusion
  BY DEF LeaseInv, MutualExclusion, InCritical, Critical, Running
<1> QED
  BY <1>1, <1>2, <1>3, PTL DEF Spec

-----------------------------------------------------------------------------
(***************************************************************************)
(* What a worker knows of the storage.                                     *)
(***************************************************************************)

\* The slots are empty at the start, and no worker knows of a transaction.
LEMMA InitStore == Init /\ TypeInv => StoreInv
BY ConstantsAssumption, SMTT(30) DEF Init, StoreInv, Knows, TypeInv, TypeOK, Critical, Keys

\* With one worker running, everybody else is idle.
LEMMA OthersIdle ==
    ASSUME SafetyInv, NEW w \in Workers, Running(w)
    PROVE  \A v \in Workers \ {w} : pc[v] = "idle"
BY DEF SafetyInv, LeaseInv, Running

\* The steps of a worker that has the lease preserve StoreInv.
LEMMA ProceedStore ==
    ASSUME SafetyInv, NEW w \in Workers, Proceed(w)
    PROVE  StoreInv'
<1>1. /\ \A v \in Workers \ {w} : pc[v] = "idle" /\ pc'[v] = "idle"
      /\ clock' = clock
  BY ProceedLease, OthersIdle DEF SafetyInv, TypeInv, Running
<1>2. TypeOK /\ StoreInv /\ Knows(w)
  BY DEF SafetyInv, TypeInv, StoreInv
<1>3. pc[w] \in Processing => Local(w) \in Chains
  BY PairChains DEF SafetyInv
<1>4. \A c \in Chains : c \in Keys /\ c # LockKey
  BY ConstantsAssumption DEF Keys
<1>5. LockKey \in Keys
  BY DEF Keys
<1>6. \A v \in Workers \ {w} : Knows(v)'
  BY <1>1 DEF Knows, Critical
<1>7. \A v \in Workers : now'[v] <= clock'
  <2>1. CASE UNCHANGED now
    BY <1>1, <1>2, <2>1 DEF StoreInv
  <2>2. CASE Configure(w)
    <3>1. now' = [now EXCEPT ![w] = clock] \/ UNCHANGED now
      BY <2>2 DEF Configure
    <3>2. now \in [Workers -> Nat] /\ clock \in Nat
      BY <1>2 DEF TypeOK
    <3>3. \A v \in Workers : now[v] <= clock
      BY <1>2 DEF StoreInv
    <3> QED
      BY <1>1, <3>1, <3>2, <3>3, SMTT(30)
  <2>3. CASE Release(w)
    <3>1. now' = [now EXCEPT ![w] = 0]
      BY <2>3 DEF Release, Forget
    <3>2. now \in [Workers -> Nat] /\ clock \in Nat
      BY <1>2 DEF TypeOK
    <3>3. \A v \in Workers : now[v] <= clock
      BY <1>2 DEF StoreInv
    <3> QED
      BY <1>1, <3>1, <3>2, <3>3, SMTT(30)
  <2> QED
    BY <2>1, <2>2, <2>3
      DEF Proceed, LockIsOpen, Lock, StoredPendingTransactions, CheckPending,
        RemoveTransaction, Client, ClientErr, ClientNone, ClientMined,
        ClientFinalized, ClientReplyLost, SaveTx, RemoveLockInner, RemoveLock
<1>8. SUFFICES /\ \A c \in Chains : store'[c] # NoTx => store'[c].chain = c
               /\ Knows(w)'
  BY <1>6, <1>7 DEF StoreInv
<1>9. ASSUME \A c \in Chains : store'[c] = store[c]
      PROVE  \A c \in Chains : store'[c] # NoTx => store'[c].chain = c
  BY <1>2, <1>9 DEF StoreInv
<1>10. ASSUME pc'[w] \in {"idle", "is_open", "lock", "unlock", "release"}
       PROVE  Knows(w)'
  BY <1>10 DEF Knows, Critical
<1>11. CASE Configure(w) \/ LockIsOpen(w) \/ Release(w)
  <2>1. UNCHANGED store
    BY <1>11 DEF Configure, LockIsOpen, Release, nodeVars
  <2>2. pc'[w] \in {"idle", "is_open", "lock", "release"}
    BY <1>2, <1>11 DEF Configure, LockIsOpen, NextPair, Release, Forget, Goto, TypeOK
  <2> QED
    BY <1>9, <1>10, <2>1, <2>2
<1>12. CASE Lock(w)
  <2>1. [chain |-> LockKey, remote |-> ZeroHash, at |-> 0, hash |-> ZeroHash] # NoTx
    BY <1>5, NoTxAssumption, SMTT(30) DEF PendingTransaction
  <2>2. store'[LockKey] # NoTx /\ \A c \in Chains : store'[c] = store[c]
    BY <1>2, <1>4, <1>5, <1>12, <2>1 DEF Lock, TypeOK
  <2>3. pc'[w] = "stored"
    BY <1>2, <1>12 DEF Lock, Goto, TypeOK
  <2> QED
    BY <1>9, <2>2, <2>3 DEF Knows
<1>13. CASE StoredPendingTransactions(w)
  <2>1. UNCHANGED <<store, pair>> /\ pc[w] = "stored"
    BY <1>13 DEF StoredPendingTransactions, nodeVars
  <2>2. live'[w] = store[Local(w)]
    BY <1>2, <1>13 DEF StoredPendingTransactions, TypeOK
  <2>3. \/ pc'[w] = "client" /\ store[Local(w)] = NoTx
        \/ pc'[w] = "status"
    BY <1>2, <1>13 DEF StoredPendingTransactions, Goto, TypeOK
  <2>4. store[LockKey] # NoTx
    BY <1>2, <2>1 DEF Knows, Critical
  <2> QED
    BY <1>9, <2>1, <2>2, <2>3, <2>4 DEF Knows, Local
<1>14. CASE CheckPending(w)
  <2>1. UNCHANGED <<store, pair, live, now, txs>> /\ pc[w] = "status"
    BY <1>14 DEF CheckPending, nodeVars
  <2>2. pc'[w] = IF IsTxPending(live[w], now[w]) THEN "unlock" ELSE "remove"
    BY <1>2, <1>14 DEF CheckPending, Goto, TypeOK
  <2>3. CASE IsTxPending(live[w], now[w])
    BY <1>9, <1>10, <2>1, <2>2, <2>3
  <2>4. CASE ~IsTxPending(live[w], now[w])
    <3>1. (HasReceipt(live[w].hash) \/ TimedOut(live[w], now[w]))'
      BY <2>1, <2>4 DEF IsTxPending, HasReceipt, TimedOut
    <3>2. live'[w] = store'[Local(w)] /\ Local(w)' = Local(w) /\ store'[LockKey] # NoTx
      BY <1>2, <2>1 DEF Knows, Critical, Local
    <3> QED
      BY <1>9, <2>1, <2>2, <2>4, <3>1, <3>2 DEF Knows
  <2> QED
    BY <2>3, <2>4
<1>15. CASE RemoveTransaction(w)
  <2>1. pc[w] = "remove" /\ UNCHANGED pair
    BY <1>15 DEF RemoveTransaction
  <2>2. Local(w) \in Chains /\ live[w] = store[Local(w)] /\ live[w] # NoTx
    BY <1>2, <1>3, <2>1 DEF Knows, Processing, Critical, SafetyInv, TypeInv, PlaceOK
  <2>3. live[w].chain = Local(w)
    BY <1>2, <2>2 DEF StoreInv
  <2>4. /\ store'[Local(w)] = NoTx
        /\ \A k \in Keys \ {Local(w)} : store'[k] = store[k]
    BY <1>2, <1>4, <1>15, <2>2, <2>3 DEF RemoveTransaction, TypeOK
  <2>5. store'[LockKey] # NoTx
    BY <1>2, <1>4, <1>5, <2>1, <2>2, <2>4 DEF Knows, Critical
  <2>6. pc'[w] = "client" /\ Local(w)' = Local(w)
    BY <1>2, <1>15, <2>1 DEF RemoveTransaction, Goto, TypeOK, Local
  <2>7. \A c \in Chains : store'[c] # NoTx => store'[c].chain = c
    BY <1>2, <1>4, <2>4 DEF StoreInv
  <2> QED
    BY <2>4, <2>5, <2>6, <2>7 DEF Knows
<1>16. CASE Client(w)
  <2>1. pc[w] = "client" /\ UNCHANGED <<store, pair>>
    BY <1>16 DEF Client, ClientErr, ClientNone, ClientMined, ClientFinalized,
                 ClientReplyLost, nodeVars
  <2>2. pc'[w] \in {"unlock", "unlock_inner", "save"}
    BY <1>2, <1>16 DEF Client, ClientErr, ClientNone, ClientMined, ClientFinalized,
                       ClientReplyLost, Goto, TypeOK
  <2>3. store[LockKey] # NoTx /\ store[Local(w)] = NoTx
    BY <1>2, <2>1 DEF Knows, Critical
  <2> QED
    BY <1>9, <2>1, <2>2, <2>3 DEF Knows, Local
<1>17. CASE SaveTx(w)
  <2>1. pc[w] = "save" /\ Local(w) \in Chains
    BY <1>3, <1>17 DEF SaveTx, Processing, Critical
  <2>2. /\ store'[Local(w)].chain = Local(w)
        /\ \A k \in Keys \ {Local(w)} : store'[k] = store[k]
    BY <1>2, <1>4, <1>17, <2>1 DEF SaveTx, TypeOK
  <2>3. store'[LockKey] # NoTx
    BY <1>2, <1>4, <1>5, <2>1, <2>2 DEF Knows, Critical
  <2>4. pc'[w] = "unlock_inner"
    BY <1>2, <1>17 DEF SaveTx, Goto, TypeOK
  <2>5. \A c \in Chains : store'[c] # NoTx => store'[c].chain = c
    BY <1>2, <1>4, <2>2 DEF StoreInv
  <2> QED
    BY <2>3, <2>4, <2>5 DEF Knows
<1>18. CASE RemoveLockInner(w) \/ RemoveLock(w)
  <2>1. \A c \in Chains : store'[c] = store[c]
    BY <1>2, <1>4, <1>18 DEF RemoveLockInner, RemoveLock, TypeOK
  <2>2. pc'[w] \in {"unlock", "is_open", "release"}
    BY <1>2, <1>18 DEF RemoveLockInner, RemoveLock, NextPair, Goto, TypeOK
  <2> QED
    BY <1>9, <1>10, <2>1, <2>2
<1> QED
  BY <1>11, <1>12, <1>13, <1>14, <1>15, <1>16, <1>17, <1>18 DEF Proceed

\* Every step preserves StoreInv.
LEMMA NextStore ==
    ASSUME SafetyInv, [Next]_vars
    PROVE  StoreInv'
<1>1. StoreInv /\ TypeOK /\ TypeOK'
  BY NextType DEF SafetyInv, TypeInv
<1> USE <1>1 DEF StoreInv, Knows, nodeVars, workerVars, Critical, Local
<1>2. ASSUME NEW w \in Workers, TryLock(w) PROVE StoreInv'
  BY <1>2 DEF TryLock, Goto, TypeOK, HasReceipt, TimedOut
<1>3. ASSUME NEW w \in Workers, TryLockRefused(w) PROVE StoreInv'
  BY <1>3 DEF TryLockRefused, vars, HasReceipt, TimedOut
<1>4. ASSUME NEW w \in Workers, Panic(w) PROVE StoreInv'
  BY <1>4, SMTT(30) DEF Panic, Forget, TypeOK, HasReceipt, TimedOut
<1>5. CASE Restart
  <2> HIDE <1>1 DEF StoreInv, Knows, Local
  <2>1. \A w \in Workers : pc'[w] = "idle" /\ now'[w] = 0
    BY <1>5 DEF Restart
  <2>2. clock' \in Nat /\ UNCHANGED store
    BY <1>1, <1>5 DEF Restart, TypeOK
  <2>3. \A w \in Workers : Knows(w)'
    BY <2>1 DEF Knows
  <2> QED
    BY <1>1, <2>1, <2>2, <2>3, SMTT(30) DEF StoreInv
<1>6. ASSUME NEW h \in Hashes, Execute(h) \/ DropTx(h) PROVE StoreInv'
  <2>1. \A g : HasReceipt(g) => HasReceipt(g)'
    BY <1>6, ZenonT(30) DEF Execute, DropTx, HasReceipt, TypeOK
  <2> QED
    BY <1>6, <2>1 DEF Execute, DropTx, TimedOut
<1>7. CASE Tick
  <2> HIDE <1>1 DEF StoreInv, Knows, Local
  <2>1. clock' = clock + 1 /\ UNCHANGED <<store, txs, pc, pair, now, live>>
    BY <1>7 DEF Tick
  <2>2. \A w \in Workers : Knows(w)'
    BY <1>1, <2>1 DEF StoreInv, Knows, Local, HasReceipt, TimedOut
  <2>3. \A w \in Workers : now'[w] <= clock'
    BY <1>1, <2>1, SMTT(30) DEF StoreInv, TypeOK
  <2> QED
    BY <1>1, <2>1, <2>2, <2>3 DEF StoreInv
<1>8. CASE UNCHANGED vars
  BY <1>8 DEF vars, HasReceipt, TimedOut
<1> QED
  BY <1>2, <1>3, <1>4, <1>5, <1>6, <1>7, <1>8, ProceedStore, ZenonT(30) DEF Next

\* The invariants so far, as one.
LEMMA NextSafety ==
    ASSUME "overlap" \notin Faults, SafetyInv, [Next]_vars
    PROVE  SafetyInv'
BY NextType, NextLease, NextStore DEF SafetyInv

\* Only two steps touch the slot of a chain: the removal of a transaction that
\* is completed or timed out, and the recording of one in an empty slot.
LEMMA SlotChange ==
    ASSUME SafetyInv, [Next]_vars, NEW c \in Chains,
           store[c] # NoTx, store'[c] # store[c]
    PROVE  ~IsTxPending(store[c], clock)
<1> USE DEF nodeVars, workerVars, vars
<1>1. PICK w \in Workers : Proceed(w)
  BY DEF Next, TryLock, TryLockRefused, Panic, Restart, Execute, DropTx, Tick
<1>2. /\ TypeOK
      /\ StoreInv
      /\ pc[w] \in Processing => Local(w) \in Chains
      /\ c \in Keys /\ c # LockKey
  BY PairChains, ConstantsAssumption DEF SafetyInv, TypeInv, Keys
<1>3. CASE RemoveTransaction(w)
  <2>1. /\ live[w] = store[Local(w)]
        /\ Local(w) \in Chains
        /\ live[w] # NoTx
        /\ HasReceipt(live[w].hash) \/ TimedOut(live[w], now[w])
        /\ now[w] <= clock
    BY <1>2, <1>3 DEF RemoveTransaction, StoreInv, Knows, Processing, Critical,
                      SafetyInv, TypeInv, PlaceOK
  <2>2. live[w].chain = Local(w)
    BY <1>2, <2>1 DEF StoreInv
  <2>3. c = Local(w)
    BY <1>2, <1>3, <2>2 DEF RemoveTransaction, TypeOK
  <2>4. live[w].at \in Nat /\ now[w] \in Nat /\ clock \in Nat
    BY <1>2, <2>1 DEF TypeOK, PendingTransaction
  <2> QED
    BY <2>1, <2>3, <2>4, ConstantsAssumption, SMTT(30) DEF IsTxPending, TimedOut
<1>4. CASE SaveTx(w)
  <2>1. store[Local(w)] = NoTx
    BY <1>2, <1>4 DEF SaveTx, StoreInv, Knows
  <2> QED
    BY <1>2, <1>4, <2>1 DEF SaveTx, TypeOK
<1>5. CASE ~RemoveTransaction(w) /\ ~SaveTx(w)
  BY <1>1, <1>2, <1>5
      DEF Proceed, Configure, LockIsOpen, Lock, StoredPendingTransactions,
      CheckPending, Client, ClientErr, ClientNone, ClientMined, ClientFinalized,
      ClientReplyLost, RemoveLockInner, RemoveLock, Release, TypeOK
<1> QED
  BY <1>3, <1>4, <1>5

\* No record of a pending transaction is lost, also when answers get lost,
\* workers panic and the node restarts, provided workers end within their lease.
THEOREM RecordKept ==
    ASSUME "overlap" \notin Faults
    PROVE  Spec => RecordKeptWhilePending
<1>1. Init => SafetyInv
  BY InitType, InitLease, InitStore DEF SafetyInv
<1>2. SafetyInv /\ [Next]_vars => SafetyInv'
  BY NextSafety
<1>3. SafetyInv /\ [Next]_vars =>
        [\A c \in Chains :
            store[c] # NoTx /\ store'[c] # store[c] => ~IsTxPending(store[c], clock)]_vars
  BY SlotChange
<1> QED
  BY <1>1, <1>2, <1>3, PTL DEF Spec, RecordKeptWhilePending

\* No round's process lock is taken away by the remove_lock of another, across
\* panics and restarts, provided workers end within their lease.
THEOREM ProcessLockKeptHolds ==
    ASSUME "overlap" \notin Faults
    PROVE  Spec => []ProcessLockKept
<1>1. Init => SafetyInv
  BY InitType, InitLease, InitStore DEF SafetyInv
<1>2. SafetyInv /\ [Next]_vars => SafetyInv'
  BY NextSafety
<1>3. SafetyInv => ProcessLockKept
  BY DEF SafetyInv, StoreInv, Knows, ProcessLockKept
<1> QED
  BY <1>1, <1>2, <1>3, PTL DEF Spec

-----------------------------------------------------------------------------
(***************************************************************************)
(* At most one outstanding transaction per chain.                          *)
(***************************************************************************)

\* The initial state satisfies the inductive invariant.
LEMMA InitIInv == Init => IInv
<1> SUFFICES ASSUME Init PROVE IInv
  OBVIOUS
<1>1. SafetyInv
  BY InitType, InitLease, InitStore DEF SafetyInv
<1>2. \A c \in Chains : Outstanding(c) = {}
  BY DEF Init, Outstanding
<1> QED
  BY <1>1, <1>2 DEF IInv, Covered, Tracked, OneOutstanding

\* Before mine and finalize, the worker has made sure that nothing is
\* outstanding on its local chain.
LEMMA NothingOutstanding ==
    ASSUME SafetyInv, Covered, NEW w \in Workers, pc[w] = "client"
    PROVE  Outstanding(Local(w)) = {}
<1>1. Local(w) \in Chains /\ store[Local(w)] = NoTx
  BY PairChains DEF SafetyInv, StoreInv, Knows, Processing, Critical
<1>2. Tracked
  BY DEF Covered, Stuck, Critical
<1>3. \A v \in Workers : pc[v] # "save"
  BY OthersIdle DEF Running
<1> QED
  BY <1>1, <1>2, <1>3 DEF Tracked, Recorded, InHand, Outstanding

\* Sending a transaction makes it, at most, the one outstanding on its chain.
LEMMA SendOutstanding ==
    ASSUME SafetyInv, Covered, NEW w \in Workers, pc[w] = "client",
           NEW h \in Hashes, Send(w, h), UNCHANGED clock
    PROVE  /\ \A c \in Chains : c = Local(w) =>
                 Outstanding(c) = {} /\ Outstanding(c)' \subseteq {h}
           /\ \A c \in Chains \ {Local(w)} : Outstanding(c)' = Outstanding(c)
           /\ \A c \in Chains : h \notin Outstanding(c)
           /\ txs'[h].chain = Local(w) /\ txs'[h].at = now[w]
           /\ \A g \in Hashes \ {h} : txs'[g] = txs[g]
<1>1. TypeOK
  BY DEF SafetyInv, TypeInv
<1>2. Outstanding(Local(w)) = {}
  BY NothingOutstanding
<1>3. /\ txs'[h] = [chain |-> Local(w), at |-> now[w], status |-> "mempool"]
      /\ \A g \in Hashes \ {h} : txs'[g] = txs[g]
      /\ txs[h] = NoTx
  BY <1>1 DEF Send, TypeOK
<1>4. \A c \in Chains : h \notin Outstanding(c)
  BY <1>3 DEF Outstanding
<1>5. ASSUME NEW c, NEW g \in Hashes \ {h}
      PROVE  g \in Outstanding(c)' <=> g \in Outstanding(c)
  BY <1>3 DEF Outstanding, TimedOut
<1>6. ASSUME NEW c \in Chains \ {Local(w)}
      PROVE  h \notin Outstanding(c)'
  BY <1>3, SMTT(30) DEF Outstanding
<1>7. \A c : Outstanding(c) \subseteq Hashes /\ Outstanding(c)' \subseteq Hashes
  BY DEF Outstanding
<1>8. ASSUME NEW c \in Chains, c = Local(w)
      PROVE  Outstanding(c)' \subseteq {h}
  BY <1>2, <1>5, <1>7, <1>8
<1>9. \A c \in Chains \ {Local(w)} : Outstanding(c)' = Outstanding(c)
  BY <1>4, <1>5, <1>6, <1>7, SMTT(30)
<1> QED
  BY <1>2, <1>3, <1>4, <1>8, <1>9, SMTT(30)

\* Steps of the chains and of the clock only take transactions out.
LEMMA OutstandingShrinks ==
    ASSUME TypeOK,
           Tick \/ (\E h \in Hashes : Execute(h) \/ DropTx(h)) \/ UNCHANGED <<clock, txs>>
    PROVE  /\ \A c : Outstanding(c)' \subseteq Outstanding(c)
           /\ \A h \in Hashes : txs[h] # NoTx =>
                 txs'[h].chain = txs[h].chain /\ txs'[h].at = txs[h].at
<1>1. CASE Tick
  <2>1. txs' = txs /\ clock' = clock + 1
    BY <1>1 DEF Tick
  <2>2. \A h \in Hashes : txs[h] # NoTx => txs[h].at \in Nat
    BY DEF TypeOK, TxRecord
  <2> QED
    BY <2>1, <2>2, ConstantsAssumption, SMTT(30) DEF Outstanding, TimedOut, TypeOK
<1>2. ASSUME NEW h \in Hashes, Execute(h) \/ DropTx(h)
      PROVE  /\ \A c : Outstanding(c)' \subseteq Outstanding(c)
             /\ \A g \in Hashes : txs[g] # NoTx =>
                   txs'[g].chain = txs[g].chain /\ txs'[g].at = txs[g].at
  <2>1. PICK s \in {"confirmed", "failed", "dropped"} :
           txs' = [txs EXCEPT ![h].status = s]
    BY <1>2 DEF Execute, DropTx
  <2>2. txs[h] \in TxRecord /\ clock' = clock /\ txs[h] # NoTx
    BY <1>2 DEF Execute, DropTx, TypeOK
  <2>3. /\ txs'[h].chain = txs[h].chain /\ txs'[h].at = txs[h].at
        /\ txs'[h].status # "mempool"
        /\ \A g \in Hashes \ {h} : txs'[g] = txs[g]
    BY <2>1, <2>2 DEF TypeOK, TxRecord
  <2> QED
    BY <2>2, <2>3 DEF Outstanding, TimedOut
<1>3. CASE UNCHANGED <<clock, txs>>
  BY <1>3 DEF Outstanding, TimedOut
<1> QED
  BY <1>1, <1>2, <1>3

\* A lock that was left behind stays behind.
LEMMA StuckStays ==
    ASSUME TypeInv, Stuck, [Next]_vars
    PROVE  Stuck'
<1> USE DEF Stuck, TypeInv, TypeOK, Critical, nodeVars, workerVars, Goto
<1>1. ASSUME NEW w \in Workers, TryLock(w) \/ TryLockRefused(w) PROVE Stuck'
  BY <1>1 DEF TryLock, TryLockRefused, vars
<1>2. ASSUME NEW w \in Workers, Proceed(w) PROVE Stuck'
  <2>1. Configure(w) \/ LockIsOpen(w) \/ Release(w)
    BY <1>2 DEF Proceed, Lock, StoredPendingTransactions, CheckPending,
                RemoveTransaction, Client, ClientErr, ClientNone, ClientMined,
                ClientFinalized, ClientReplyLost, SaveTx, RemoveLockInner, RemoveLock
  <2> QED
    BY <2>1, SMTT(30) DEF Configure, LockIsOpen, NextPair, Release, Forget
<1>3. ASSUME NEW w \in Workers, Panic(w) PROVE Stuck'
  BY <1>3 DEF Panic, Forget
<1>4. CASE Restart
  BY <1>4 DEF Restart
<1>5. CASE Tick \/ \E h \in Hashes : Execute(h) \/ DropTx(h)
  BY <1>5 DEF Tick, Execute, DropTx
<1>6. CASE UNCHANGED vars
  BY <1>6 DEF vars
<1> QED
  BY <1>1, <1>2, <1>3, <1>4, <1>5, <1>6 DEF Next

\* A step that sends nothing, keeps the slots and takes no transaction out of a
\* worker's hand keeps every outstanding transaction tracked.
LEMMA QuietStep ==
    ASSUME Tracked,
           \A c : Outstanding(c)' \subseteq Outstanding(c),
           \A h \in Hashes : txs[h] # NoTx =>
               txs'[h].chain = txs[h].chain /\ txs'[h].at = txs[h].at,
           \A c \in Chains : store'[c] = store[c],
           \A w \in Workers : pc[w] = "save" =>
               /\ pc'[w] = "save" /\ pair'[w] = pair[w]
               /\ now'[w] = now[w] /\ hash'[w] = hash[w]
    PROVE  Tracked'
<1> SUFFICES ASSUME NEW c \in Chains, NEW h \in Outstanding(c)'
             PROVE  Recorded(h)' \/ \E w \in Workers : InHand(w, h)'
  BY DEF Tracked
<1>1. h \in Outstanding(c) /\ h \in Hashes /\ txs[h] # NoTx /\ txs[h].chain = c
  BY SMTT(30) DEF Outstanding
<1>2. CASE Recorded(h)
  BY <1>1, <1>2 DEF Recorded
<1>3. ASSUME NEW w \in Workers, InHand(w, h) PROVE InHand(w, h)'
  BY <1>1, <1>3 DEF InHand, Local
<1> QED
  BY <1>1, <1>2, <1>3 DEF Tracked

\* The steps of a worker keep every outstanding transaction tracked, when no
\* answer to eth_sendRawTransaction gets lost.
LEMMA ProceedTracked ==
    ASSUME "lostReply" \notin Faults, SafetyInv, Tracked,
           NEW w \in Workers, Proceed(w)
    PROVE  Tracked'
<1>1. /\ \A v \in Workers \ {w} : pc[v] = "idle" /\ pc'[v] = "idle"
      /\ UNCHANGED clock
  BY ProceedLease, OthersIdle DEF SafetyInv, TypeInv, Running
<1>2. TypeOK /\ TypeOK' /\ StoreInv
  BY ProceedType DEF SafetyInv, TypeInv
<1>3. pc[w] \in Processing => Local(w) \in Chains
  BY PairChains DEF SafetyInv
<1>4. \A c \in Chains : c \in Keys /\ c # LockKey
  BY ConstantsAssumption DEF Keys
<1>5. Covered
  BY DEF Covered
<1> USE DEF nodeVars, Goto
<1>6. CASE /\ pc[w] # "save"
           /\ UNCHANGED txs
           /\ \A c \in Chains : store'[c] = store[c]
  <2>1. /\ \A c : Outstanding(c)' \subseteq Outstanding(c)
        /\ \A h \in Hashes : txs[h] # NoTx =>
              txs'[h].chain = txs[h].chain /\ txs'[h].at = txs[h].at
    BY <1>1, <1>2, <1>6, OutstandingShrinks
  <2> QED
    BY <1>1, <1>6, <2>1, QuietStep
<1>7. CASE Configure(w) \/ LockIsOpen(w) \/ StoredPendingTransactions(w)
             \/ CheckPending(w) \/ ClientErr(w) \/ ClientNone(w) \/ Release(w)
  <2>1. pc[w] # "save" /\ UNCHANGED <<txs, store>>
    BY <1>7 DEF Configure, LockIsOpen, StoredPendingTransactions, CheckPending,
                ClientErr, ClientNone, Release
  <2> QED
    BY <1>6, <2>1
<1>8. CASE Lock(w) \/ RemoveLockInner(w) \/ RemoveLock(w)
  <2>1. pc[w] # "save" /\ UNCHANGED txs
    BY <1>8 DEF Lock, RemoveLockInner, RemoveLock
  <2>2. \A c \in Chains : store'[c] = store[c]
    BY <1>2, <1>4, <1>8 DEF Lock, RemoveLockInner, RemoveLock, TypeOK
  <2> QED
    BY <1>6, <2>1, <2>2
<1>9. CASE RemoveTransaction(w)
  <2>1. /\ Local(w) \in Chains /\ live[w] = store[Local(w)] /\ live[w] # NoTx
        /\ live[w].chain = Local(w)
        /\ HasReceipt(live[w].hash) \/ TimedOut(live[w], now[w])
        /\ now[w] <= clock
    BY <1>2, <1>3, <1>9 DEF RemoveTransaction, StoreInv, Knows, Processing, Critical,
                            SafetyInv, TypeInv, PlaceOK
  <2>2. /\ \A c \in Chains \ {Local(w)} : store'[c] = store[c]
        /\ UNCHANGED txs /\ pc[w] = "remove"
    BY <1>2, <1>4, <1>9, <2>1 DEF RemoveTransaction, TypeOK
  <2>3. \A h \in Outstanding(Local(w)) : ~Recorded(h)
    <3> SUFFICES ASSUME NEW h \in Outstanding(Local(w)), Recorded(h) PROVE FALSE
      OBVIOUS
    <3>1. /\ h \in Hashes /\ txs[h] # NoTx /\ txs[h].chain = Local(w)
          /\ txs[h].status = "mempool" /\ ~TimedOut(txs[h], clock)
      BY DEF Outstanding
    <3>2. live[w].at = txs[h].at /\ live[w].hash \in {h, ZeroHash}
      BY <2>1, <3>1 DEF Recorded
    <3>3. ~HasReceipt(live[w].hash)
      BY <3>1, <3>2, ConstantsAssumption DEF HasReceipt
    <3>4. txs[h].at \in Nat /\ now[w] \in Nat /\ clock \in Nat
      BY <1>2, <3>1 DEF TypeOK, TxRecord
    <3> QED
      BY <2>1, <3>1, <3>2, <3>3, <3>4, ConstantsAssumption, SMTT(30) DEF TimedOut
  <2>4. \A v \in Workers : \A h : ~InHand(v, h)
    BY <1>1, <2>2 DEF InHand
  <2>5. \A c : Outstanding(c)' = Outstanding(c)
    BY <1>1, <2>2 DEF Outstanding, TimedOut
  <2>6. ASSUME NEW c \in Chains, NEW h \in Outstanding(c)
        PROVE  Recorded(h)'
    <3>1. Recorded(h)
      BY <2>4 DEF Tracked
    <3>2. c # Local(w) /\ txs[h].chain = c
      BY <2>3, <3>1 DEF Outstanding
    <3> QED
      BY <2>2, <3>1, <3>2 DEF Recorded
  <2> QED
    BY <2>5, <2>6 DEF Tracked
<1>10. ASSUME NEW h \in Hashes, Send(w, h), pc[w] = "client",
              pc'[w] = "save", hash'[w] \in {h, ZeroHash},
              UNCHANGED <<store, pair, now>>
       PROVE  Tracked'
  <2> SUFFICES ASSUME NEW c \in Chains, NEW g \in Outstanding(c)'
               PROVE  Recorded(g)' \/ \E v \in Workers : InHand(v, g)'
    BY DEF Tracked
  <2>1. g \in Hashes /\ txs'[g].chain = c
    BY DEF Outstanding
  <2>2. CASE g = h
    BY <1>1, <1>5, <1>10, <2>2, SendOutstanding DEF InHand, Local
  <2>3. CASE g # h
    <3>1. g \in Outstanding(c) /\ txs'[g] = txs[g]
      <4>1. /\ \A d \in Chains : d = Local(w) => Outstanding(d)' \subseteq {h}
            /\ \A d \in Chains \ {Local(w)} : Outstanding(d)' = Outstanding(d)
            /\ \A f \in Hashes \ {h} : txs'[f] = txs[f]
        BY <1>1, <1>5, <1>10, SendOutstanding
      <4> HIDE DEF Outstanding
      <4> QED
        BY <2>1, <2>3, <4>1, SMTT(30)
    <3>2. Recorded(g)
      BY <1>1, <1>10, <3>1 DEF Tracked, InHand
    <3> QED
      BY <1>10, <3>1, <3>2 DEF Recorded
  <2> QED
    BY <2>2, <2>3
<1>11. CASE ClientMined(w)
  <2>1. PICK h \in Hashes : Send(w, h) /\ hash' = [hash EXCEPT ![w] = h]
    BY <1>11, ZenonT(30) DEF ClientMined
  <2> QED
    BY <1>2, <1>10, <1>11, <2>1 DEF ClientMined, TypeOK
<1>12. CASE ClientFinalized(w)
  <2>1. pc[w] = "client" /\ pc'[w] = "save" /\ hash'[w] = ZeroHash
        /\ UNCHANGED <<store, pair, now>>
    BY <1>2, <1>12 DEF ClientFinalized, TypeOK
  <2>2. CASE UNCHANGED txs
    BY <1>6, <2>1, <2>2
  <2> QED
    BY <1>10, <1>12, <2>1, <2>2 DEF ClientFinalized
<1>13. CASE SaveTx(w)
  <2>1. /\ pc[w] = "save" /\ Local(w) \in Chains /\ store[Local(w)] = NoTx
        /\ UNCHANGED txs
    BY <1>2, <1>3, <1>13 DEF SaveTx, StoreInv, Knows, Processing, Critical
  <2>2. /\ store'[Local(w)] # NoTx
        /\ store'[Local(w)].at = now[w] /\ store'[Local(w)].hash = hash[w]
        /\ \A c \in Chains \ {Local(w)} : store'[c] = store[c]
    <3> DEFINE rec == [chain |-> Local(w),
                       remote |-> IF role = "QP_MINER" THEN Remote(w) ELSE ZeroHash,
                       at |-> now[w], hash |-> hash[w]]
    <3>1. store' = [store EXCEPT ![Local(w)] = rec]
      BY <1>13 DEF SaveTx
    <3>2. rec \in PendingTransaction
      <4>1. Remote(w) \in Chains
        BY <2>1, PairChains DEF SafetyInv, Processing, Critical
      <4> QED
        BY <1>2, <1>4, <2>1, <4>1 DEF PendingTransaction, TypeOK
    <3>3. rec # NoTx /\ rec.at = now[w] /\ rec.hash = hash[w]
      BY <3>2, NoTxAssumption
    <3> HIDE DEF rec
    <3> QED
      BY <1>2, <1>4, <2>1, <3>1, <3>3 DEF TypeOK
  <2>3. \A c : Outstanding(c)' = Outstanding(c)
    BY <1>1, <2>1 DEF Outstanding, TimedOut
  <2>4. ASSUME NEW c \in Chains, NEW h \in Outstanding(c)
        PROVE  Recorded(h)'
    <3>1. txs[h].chain = c
      BY DEF Outstanding
    <3>2. CASE Recorded(h)
      BY <2>1, <2>2, <3>1, <3>2 DEF Recorded
    <3>3. CASE \E v \in Workers : InHand(v, h)
      <4>1. InHand(w, h)
        BY <1>1, <3>3 DEF InHand
      <4> QED
        BY <2>1, <2>2, <3>1, <4>1 DEF InHand, Recorded
    <3> QED
      BY <3>2, <3>3 DEF Tracked
  <2> QED
    BY <2>3, <2>4 DEF Tracked
<1> QED
  BY <1>7, <1>8, <1>9, <1>11, <1>12, <1>13 DEF Proceed, Client, ClientReplyLost

\* Every step keeps the outstanding transactions covered.
LEMMA NextCovered ==
    ASSUME "lostReply" \notin Faults, SafetyInv, Covered, [Next]_vars
    PROVE  Covered'
<1>1. TypeInv /\ TypeOK /\ StoreInv
  BY DEF SafetyInv, TypeInv
<1>2. CASE Stuck
  BY <1>1, <1>2, StuckStays DEF Covered
<1>3. CASE Tracked
  <2> USE DEF nodeVars, workerVars
  <2>1. ASSUME \A c \in Chains : store'[c] = store[c],
               Tick \/ (\E h \in Hashes : Execute(h) \/ DropTx(h))
                 \/ UNCHANGED <<clock, txs>>,
               \A w \in Workers : pc[w] = "save" =>
                   /\ pc'[w] = "save" /\ pair'[w] = pair[w]
                   /\ now'[w] = now[w] /\ hash'[w] = hash[w]
        PROVE  Tracked'
    <3>1. /\ \A c : Outstanding(c)' \subseteq Outstanding(c)
          /\ \A h \in Hashes : txs[h] # NoTx =>
                txs'[h].chain = txs[h].chain /\ txs'[h].at = txs[h].at
      BY <1>1, <2>1, OutstandingShrinks
    <3> QED
      BY <1>3, <2>1, <3>1, QuietStep
  <2>2. ASSUME NEW w \in Workers, TryLock(w) PROVE Tracked'
    BY <1>1, <2>1, <2>2 DEF TryLock, Goto, TypeOK
  <2>3. ASSUME NEW w \in Workers, TryLockRefused(w) PROVE Tracked'
    BY <2>1, <2>3 DEF TryLockRefused, vars
  <2>4. ASSUME NEW w \in Workers, Proceed(w) PROVE Tracked'
    BY <1>3, <2>4, ProceedTracked
  <2>5. ASSUME NEW w \in Workers, Panic(w) PROVE Tracked'
    BY <1>1, <2>1, <2>5 DEF Panic, Forget, TypeOK
  <2>6. CASE Restart
    <3>1. CASE \E w \in Workers : pc[w] = "save"
      <4>1. store[LockKey] # NoTx
        BY <1>1, <3>1 DEF StoreInv, Knows, Critical
      <4> QED
        BY <2>6, <4>1 DEF Restart, Covered, Stuck, Critical
    <3>2. CASE ~\E w \in Workers : pc[w] = "save"
      BY <2>1, <2>6, <3>2 DEF Restart, Covered
    <3> QED
      BY <3>1, <3>2
  <2>7. ASSUME NEW h \in Hashes, Execute(h) \/ DropTx(h) PROVE Tracked'
    BY <2>1, <2>7 DEF Execute, DropTx
  <2>8. CASE Tick
    BY <2>1, <2>8 DEF Tick, Covered
  <2>9. CASE UNCHANGED vars
    BY <2>1, <2>9 DEF vars, Covered
  <2> QED
    BY <2>2, <2>3, <2>4, <2>5, <2>6, <2>7, <2>8, <2>9 DEF Next, Covered
<1> QED
  BY <1>2, <1>3 DEF Covered

\* A step either sends one transaction, or only takes transactions out.
LEMMA StepOutstanding ==
    ASSUME "lostReply" \notin Faults, SafetyInv, [Next]_vars
    PROVE  \/ \E w \in Workers, h \in Hashes :
                pc[w] = "client" /\ Send(w, h) /\ UNCHANGED clock
           \/ \A c : Outstanding(c)' \subseteq Outstanding(c)
<1>1. TypeOK
  BY DEF SafetyInv, TypeInv
<1>2. CASE Tick \/ (\E h \in Hashes : Execute(h) \/ DropTx(h))
             \/ UNCHANGED <<clock, txs>>
  BY <1>1, <1>2, OutstandingShrinks
<1>3. ASSUME NEW w \in Workers, Proceed(w)
      PROVE  \/ \E h \in Hashes :
                   pc[w] = "client" /\ Send(w, h) /\ UNCHANGED clock
             \/ UNCHANGED <<clock, txs>>
  BY <1>3 DEF Proceed, Configure, LockIsOpen, Lock, StoredPendingTransactions,
              CheckPending, RemoveTransaction, Client, ClientErr, ClientNone,
              ClientMined, ClientFinalized, ClientReplyLost, SaveTx,
              RemoveLockInner, RemoveLock, Release
<1>4. CASE \E w \in Workers : Proceed(w)
  BY <1>2, <1>3, <1>4
<1>5. CASE Restart \/ UNCHANGED vars
             \/ \E w \in Workers : TryLock(w) \/ TryLockRefused(w) \/ Panic(w)
  BY <1>2, <1>5 DEF Restart, TryLock, TryLockRefused, Panic, vars
<1> QED
  BY <1>2, <1>4, <1>5 DEF Next

\* No step puts a second transaction on a chain.
LEMMA NextOneOutstanding ==
    ASSUME "lostReply" \notin Faults, SafetyInv, Covered, OneOutstanding, [Next]_vars
    PROVE  OneOutstanding'
<1>1. CASE \E w \in Workers, h \in Hashes :
              pc[w] = "client" /\ Send(w, h) /\ UNCHANGED clock
  <2>1. PICK w \in Workers, h \in Hashes :
           pc[w] = "client" /\ Send(w, h) /\ UNCHANGED clock
    BY <1>1
  <2>2. \A c \in Chains : \/ Outstanding(c)' \subseteq {h}
                          \/ Outstanding(c)' = Outstanding(c)
    BY <2>1, SendOutstanding
  <2> QED
    BY <2>2 DEF OneOutstanding
<1>2. CASE \A c : Outstanding(c)' \subseteq Outstanding(c)
  BY <1>2 DEF OneOutstanding
<1> QED
  BY <1>1, <1>2, StepOutstanding

\* The inductive invariant.
LEMMA NextIInv ==
    ASSUME "overlap" \notin Faults, "lostReply" \notin Faults
    PROVE  IInv /\ [Next]_vars => IInv'
BY NextSafety, NextCovered, NextOneOutstanding DEF IInv

\* The node never has two transactions outstanding on one chain, for any pairs,
\* roles, panics and restarts, provided workers end within their lease and no
\* answer to eth_sendRawTransaction gets lost.
THEOREM OneOutstandingHolds ==
    ASSUME "overlap" \notin Faults, "lostReply" \notin Faults
    PROVE  Spec => []OneOutstanding
<1>1. IInv => OneOutstanding
  BY DEF IInv
<1> QED
  BY <1>1, InitIInv, NextIInv, PTL DEF Spec

-----------------------------------------------------------------------------
(***************************************************************************)
(* Refinement of SingleFlight.                                             *)
(***************************************************************************)

\* The initial state maps to one of SingleFlight.
LEMMA InitFlight == Init => SF!Init
<1> SUFFICES ASSUME Init PROVE \A c \in Chains : Outstanding(c) = {}
  BY DEF SF!Init
<1> QED
  BY DEF Init, Outstanding

\* Every step launches one transaction to a chain with none in flight, lands
\* the transactions of some chains, or leaves the flights alone.
LEMMA NextFlight ==
    ASSUME "lostReply" \notin Faults, IInv, [Next]_vars
    PROVE  SF!Next \/ UNCHANGED [c \in Chains |-> Outstanding(c)]
<1> DEFINE flight == [c \in Chains |-> Outstanding(c)]
<1>1. SafetyInv /\ Covered /\ OneOutstanding
  BY DEF IInv
<1>2. CASE \E w \in Workers, h \in Hashes :
              pc[w] = "client" /\ Send(w, h) /\ UNCHANGED clock
  <2>1. PICK w \in Workers, h \in Hashes :
           pc[w] = "client" /\ Send(w, h) /\ UNCHANGED clock
    BY <1>2
  <2>2. PICK d \in Chains : d = Local(w)
    BY <1>1, <2>1, PairChains DEF SafetyInv, Processing, Critical
  <2>3. /\ Outstanding(d) = {} /\ Outstanding(d)' \subseteq {h}
        /\ \A c \in Chains \ {d} : Outstanding(c)' = Outstanding(c)
        /\ \A c \in Chains : h \notin Outstanding(c)
    BY <1>1, <2>1, <2>2, SendOutstanding
  <2>4. CASE Outstanding(d)' = {}
    <3>1. \A c \in Chains : Outstanding(c)' = Outstanding(c)
      BY <2>3, <2>4
    <3> QED
      BY <3>1
  <2>5. CASE Outstanding(d)' = {h}
    <3>1. flight' = [flight EXCEPT ![d] = {h}]
      BY <2>3, <2>5, ZenonT(30)
    <3>2. SF!Launch(d, h)
      BY <2>3, <3>1 DEF SF!Launch
    <3> QED
      BY <3>2 DEF SF!Next
  <2> QED
    BY <2>3, <2>4, <2>5
<1>3. CASE \A c : Outstanding(c)' \subseteq Outstanding(c)
  <2> DEFINE D == {c \in Chains : Outstanding(c)' = {}}
  <2>1. ASSUME NEW c \in Chains \ D PROVE Outstanding(c)' = Outstanding(c)
    BY <1>1, <1>3, SMTT(30) DEF OneOutstanding
  <2>2. flight' = [c \in Chains |-> IF c \in D THEN {} ELSE flight[c]]
    BY <2>1
  <2>3. SF!Land(D)
    BY <2>2 DEF SF!Land
  <2>4. D \in SUBSET Chains
    OBVIOUS
  <2> QED
    BY <2>3, <2>4 DEF SF!Next
<1> QED
  BY <1>1, <1>2, <1>3, StepOutstanding

\* The service implements the single-flight discipline, under the same
\* provisos.
THEOREM SingleFlightRefinement ==
    ASSUME "overlap" \notin Faults, "lostReply" \notin Faults
    PROVE  Spec => ImplementsSingleFlight
<1>1. Init => SF!Init
  BY InitFlight
<1>2. IInv /\ [Next]_vars => [SF!Next]_([c \in Chains |-> Outstanding(c)])
  BY NextFlight
<1> QED
  BY <1>1, <1>2, InitIInv, NextIInv, PTL DEF Spec, ImplementsSingleFlight, SF!Spec
=============================================================================
