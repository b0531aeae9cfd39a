------------------------- MODULE PortalRecordProofs --------------------------
(***************************************************************************)
(* Proofs about what PortalService leaves in the offchain storage: who     *)
(* holds the process lock, what a slot records, and what a round waits     *)
(* for.  None of them needs the lease: they hold when workers overlap.     *)
(***************************************************************************)
EXTENDS PortalServiceProofs

\* First-order leaves go to Zenon; those that need arithmetic, sequences or records
\* cite SMT, with a limit that leaves room for a slow machine.
USE Zenon

\* Transaction h was sent to chain c at time t.
Sent(h, c, t) == txs[h] # NoTx /\ txs[h].chain = c /\ txs[h].at = t

\* What the slot of chain c records was sent to c.
SlotSent(c) ==
    /\ store[c].chain = c
    /\ store[c].hash # ZeroHash => Sent(store[c].hash, c, store[c].at)

\* What worker w is about to record was sent to its local chain, and so was what
\* it asks for the status of.
CarriesSent(w) ==
    /\ pc[w] = "save" /\ hash[w] # ZeroHash => Sent(hash[w], Local(w), now[w])
    /\ pc[w] = "status" /\ live[w].hash # ZeroHash =>
          Sent(live[w].hash, Local(w), live[w].at)

\* The slots, and the workers on their way to and from them, are right about
\* the chains.
SentInv == RecordMatchesSent /\ \A w \in Workers : CarriesSent(w)

\* A miner never records the zero hash.
HashInv ==
    /\ \A c \in Chains : store[c] # NoTx => store[c].hash # ZeroHash
    /\ \A w \in Workers : /\ pc[w] = "save" => hash[w] # ZeroHash
                          /\ pc[w] = "status" => live[w].hash # ZeroHash

-----------------------------------------------------------------------------
(***************************************************************************)
(* Frame conditions.                                                       *)
(***************************************************************************)

\* A worker that proceeds changes its own local state only.
LEMMA OthersKeep ==
    ASSUME TypeOK, NEW w \in Workers, Proceed(w), NEW v \in Workers \ {w}
    PROVE  /\ pc'[v] = pc[v] /\ pair'[v] = pair[v] /\ now'[v] = now[v]
           /\ live'[v] = live[v] /\ hash'[v] = hash[v] /\ Local(v)' = Local(v)
<1> SUFFICES /\ pc'[v] = pc[v] /\ pair'[v] = pair[v] /\ now'[v] = now[v]
             /\ live'[v] = live[v] /\ hash'[v] = hash[v]
  BY DEF Local
<1> USE DEF Goto, NextPair, Forget, nodeVars, TypeOK
<1>1. CASE Configure(w) \/ LockIsOpen(w) \/ Lock(w)
  BY <1>1 DEF Configure, LockIsOpen, Lock
<1>2. CASE StoredPendingTransactions(w) \/ CheckPending(w) \/ RemoveTransaction(w)
  BY <1>2 DEF StoredPendingTransactions, CheckPending, RemoveTransaction
<1>3. CASE Client(w)
  BY <1>3 DEF Client, ClientErr, ClientNone, ClientMined, ClientFinalized,
              ClientReplyLost
<1>4. CASE SaveTx(w) \/ RemoveLockInner(w) \/ RemoveLock(w)
  BY <1>4 DEF SaveTx, RemoveLockInner, RemoveLock
<1>5. CASE Release(w)
  BY <1>5 DEF Release
<1> QED
  BY <1>1, <1>2, <1>3, <1>4, <1>5, ZenonT(30) DEF Proceed

\* The steps of a worker send at most one transaction, with a new hash.
LEMMA ProceedTxs ==
    ASSUME NEW w \in Workers, Proceed(w)
    PROVE  UNCHANGED txs \/ \E h \in Hashes : Send(w, h)
BY ZenonT(30)
DEF Proceed, Configure, LockIsOpen, Lock, StoredPendingTransactions, CheckPending,
    RemoveTransaction, Client, ClientErr, ClientNone, ClientMined, ClientFinalized,
    ClientReplyLost, SaveTx, RemoveLockInner, RemoveLock, Release

\* A transaction that was sent stays sent: chains forget neither where it went
\* nor when.
LEMMA SentStays ==
    ASSUME TypeOK, [Next]_vars, NEW h \in Hashes, NEW c, NEW t, Sent(h, c, t)
    PROVE  Sent(h, c, t)'
<1> USE DEF Sent
<1>1. ASSUME NEW w \in Workers, NEW g \in Hashes, Send(w, g)
      PROVE  Sent(h, c, t)'
  BY <1>1 DEF Send, TypeOK
<1>2. ASSUME NEW g \in Hashes, Execute(g) \/ DropTx(g)
      PROVE  Sent(h, c, t)'
  <2>1. PICK s \in {"confirmed", "failed", "dropped"} :
           txs' = [txs EXCEPT ![g].status = s]
    BY <1>2 DEF Execute, DropTx
  <2>2. txs[h] \in TxRecord /\ NoTx \notin TxRecord
    BY NoTxAssumption DEF TypeOK
  <2>3. CASE g = h
    <3>1. txs'[h] = [txs[h] EXCEPT !.status = s]
      BY <2>1, <2>3 DEF TypeOK
    <3>2. txs'[h] \in TxRecord /\ txs'[h].chain = txs[h].chain /\ txs'[h].at = txs[h].at
      BY <2>2, <3>1 DEF TxRecord
    <3> QED
      BY <2>2, <3>2
  <2>4. CASE g # h
    BY <2>1, <2>4 DEF TypeOK
  <2> QED
    BY <2>3, <2>4
<1>3. CASE UNCHANGED txs
  BY <1>3
<1>4. ASSUME NEW w \in Workers, Proceed(w) PROVE Sent(h, c, t)'
  BY <1>1, <1>3, <1>4, ProceedTxs
<1> QED
  BY <1>2, <1>3, <1>4
  DEF Next, TryLock, TryLockRefused, Panic, Restart, Tick, vars

-----------------------------------------------------------------------------
(***************************************************************************)
(* The process lock.                                                       *)
(***************************************************************************)

\* A worker keeps the lock owned: it enters with lock() and leaves with
\* remove_lock().
LEMMA ProceedOwner ==
    ASSUME TypeInv, LockHasOwner, NEW w \in Workers, Proceed(w)
    PROVE  LockHasOwner'
<1>1. TypeOK
  BY DEF TypeInv
<1>2. \A v \in Workers \ {w} : InCritical(v)' <=> InCritical(v)
  BY <1>1, OthersKeep DEF InCritical
<1> USE DEF LockHasOwner, InCritical, Critical, Goto, TypeOK
<1>3. CASE Configure(w) \/ LockIsOpen(w) \/ Release(w)
  <2>1. UNCHANGED store /\ ~InCritical(w)
    BY <1>3 DEF Configure, LockIsOpen, Release, nodeVars
  <2> QED
    BY <1>2, <2>1
<1>4. CASE RemoveLockInner(w) \/ RemoveLock(w)
  BY <1>1, <1>4 DEF RemoveLockInner, RemoveLock, Keys
<1>5. ASSUME InCritical(w)' PROVE LockHasOwner'
  BY <1>5
<1>6. CASE Lock(w) \/ StoredPendingTransactions(w) \/ CheckPending(w) \/ RemoveTransaction(w)
  BY <1>1, <1>5, <1>6 DEF Lock, StoredPendingTransactions, CheckPending, RemoveTransaction
<1>7. CASE Client(w) \/ SaveTx(w)
  BY <1>1, <1>5, <1>7 DEF Client, ClientErr, ClientNone, ClientMined, ClientFinalized,
                   ClientReplyLost, SaveTx
<1> QED
  BY <1>3, <1>4, <1>6, <1>7 DEF Proceed

\* As long as no worker traps and the node does not stop, the process lock is
\* set only while some worker is between lock() and remove_lock(), even if
\* workers overlap, answers are lost or transactions are dropped.
THEOREM LockHasOwnerHolds ==
    ASSUME "panic" \notin Faults, "crash" \notin Faults
    PROVE  Spec => []LockHasOwner
<1>1. Init => TypeInv /\ LockHasOwner
  <2>1. Init => LockHasOwner
    BY DEF Init, LockHasOwner, Keys
  <2> QED
    BY <2>1, InitType
<1>2. TypeInv /\ LockHasOwner /\ [Next]_vars => (TypeInv /\ LockHasOwner)'
  <2> SUFFICES ASSUME TypeInv, LockHasOwner, [Next]_vars PROVE LockHasOwner'
    BY NextType
  <2>1. ASSUME NEW w \in Workers, TryLock(w) PROVE LockHasOwner'
    BY <2>1 DEF TryLock, Goto, LockHasOwner, InCritical, Critical, TypeInv, TypeOK
  <2>2. ASSUME UNCHANGED <<store, pc>> PROVE LockHasOwner'
    BY <2>2 DEF LockHasOwner, InCritical
  <2> QED
    BY <2>1, <2>2, ProceedOwner
    DEF Next, TryLockRefused, Panic, Restart, Execute, DropTx, Tick, vars,
        nodeVars, workerVars
<1> QED
  BY <1>1, <1>2, PTL DEF Spec

-----------------------------------------------------------------------------
(***************************************************************************)
(* What a slot records.                                                    *)
(***************************************************************************)

\* The record of a slot is one that SaveTx wrote.
LEMMA SlotWritten ==
    ASSUME TypeInv, NEW w \in Workers, Proceed(w),
           NEW c \in Chains, store'[c] # NoTx, store'[c] # store[c]
    PROVE  /\ pc[w] = "save" /\ c = Local(w) /\ store'[c].chain = c
           /\ store'[c].at = now[w] /\ store'[c].hash = hash[w]
<1>1. TypeOK /\ c # LockKey /\ c \in Keys
  BY ConstantsAssumption DEF TypeInv, Keys
<1>2. CASE SaveTx(w)
  BY <1>1, <1>2 DEF SaveTx, TypeOK
<1>3. CASE Lock(w) \/ RemoveTransaction(w) \/ RemoveLockInner(w) \/ RemoveLock(w)
  BY <1>1, <1>3 DEF Lock, RemoveTransaction, RemoveLockInner, RemoveLock, TypeOK
<1>4. CASE Client(w)
  BY <1>4 DEF Client, ClientErr, ClientNone, ClientMined, ClientFinalized,
              ClientReplyLost, nodeVars
<1>5. CASE \/ Configure(w) \/ LockIsOpen(w) \/ StoredPendingTransactions(w)
           \/ CheckPending(w) \/ Release(w)
  BY <1>5 DEF Configure, LockIsOpen, StoredPendingTransactions, CheckPending,
              Release, nodeVars
<1> QED
  BY <1>2, <1>3, <1>4, <1>5 DEF Proceed

\* A worker asks for a status right after it read the slot, and records a hash
\* right after it sent.
LEMMA CarriesFrom ==
    ASSUME TypeInv, NEW w \in Workers, Proceed(w)
    PROVE  /\ pc'[w] = "status" =>
                 /\ pc[w] = "stored" /\ live'[w] = store[Local(w)]
                 /\ store[Local(w)] # NoTx /\ UNCHANGED txs
           /\ pc'[w] = "save" =>
                 /\ pc[w] = "client"
                 /\ \/ hash'[w] = ZeroHash /\ role = "QP_FINALIZER"
                    \/ hash'[w] \in Hashes /\ Send(w, hash'[w])
           /\ pc'[w] \in {"status", "save"} =>
                 Local(w)' = Local(w) /\ now'[w] = now[w]
<1>1. TypeOK
  BY DEF TypeInv
<1> USE DEF Goto, TypeOK, Local
<1>2. CASE StoredPendingTransactions(w)
  BY <1>1, <1>2 DEF StoredPendingTransactions
<1>3. CASE ClientMined(w) \/ ClientFinalized(w)
  BY <1>1, <1>3 DEF ClientMined, ClientFinalized
<1>4. CASE ClientErr(w) \/ ClientNone(w) \/ ClientReplyLost(w)
  BY <1>1, <1>4 DEF ClientErr, ClientNone, ClientReplyLost
<1>5. CASE Configure(w) \/ Lock(w) \/ CheckPending(w) \/ RemoveTransaction(w) \/ SaveTx(w)
  BY <1>1, <1>5 DEF Configure, Lock, CheckPending, RemoveTransaction, SaveTx
<1>6. CASE RemoveLockInner(w) \/ RemoveLock(w) \/ LockIsOpen(w) \/ Release(w)
  BY <1>1, <1>6 DEF RemoveLockInner, RemoveLock, LockIsOpen, Release, NextPair, Forget
<1> QED
  BY <1>2, <1>3, <1>4, <1>5, <1>6 DEF Proceed, Client

\* What is carried or recorded stays so while worker and slot do not change.
LEMMA CarriesStays ==
    ASSUME TypeInv, [Next]_vars, NEW v \in Workers, CarriesSent(v),
           pc'[v] \in {"save", "status"} =>
              /\ pc'[v] = pc[v] /\ pair'[v] = pair[v] /\ now'[v] = now[v]
              /\ live'[v] = live[v] /\ hash'[v] = hash[v]
    PROVE  CarriesSent(v)'
<1>1. TypeOK
  BY DEF TypeInv
<1>2. hash[v] # ZeroHash => hash[v] \in Hashes
  BY <1>1 DEF TypeOK
<1>3. pc[v] = "status" /\ live[v].hash # ZeroHash => live[v].hash \in Hashes
  BY <1>1 DEF TypeInv, PlaceOK, TypeOK, PendingTransaction
<1>4. CASE pc'[v] = "save"
  <2>1. pc[v] = "save" /\ hash'[v] = hash[v] /\ Local(v)' = Local(v) /\ now'[v] = now[v]
    BY <1>4 DEF Local
  <2>2. hash[v] # ZeroHash => Sent(hash[v], Local(v), now[v])
    BY <2>1 DEF CarriesSent
  <2>3. ASSUME hash[v] # ZeroHash
        PROVE  \A h, c, t : h = hash[v] /\ c = Local(v) /\ t = now[v] => Sent(h, c, t)'
    BY <1>1, <1>2, <2>2, <2>3, SentStays
  <2>4. hash'[v] # ZeroHash => Sent(hash[v], Local(v), now[v])'
    BY <2>1, <2>3, SMTT(30) DEF Sent
  <2> QED
    BY <1>4, <2>4 DEF CarriesSent
<1>5. CASE pc'[v] = "status"
  <2>1. pc[v] = "status" /\ live'[v] = live[v] /\ Local(v)' = Local(v)
    BY <1>5 DEF Local
  <2>2. live[v].hash # ZeroHash => Sent(live[v].hash, Local(v), live[v].at)
    BY <2>1 DEF CarriesSent
  <2>3. ASSUME live[v].hash # ZeroHash
        PROVE  \A h, c, t : h = live[v].hash /\ c = Local(v) /\ t = live[v].at => Sent(h, c, t)'
    BY <1>1, <1>3, <2>1, <2>2, <2>3, SentStays
  <2>4. live'[v].hash # ZeroHash => Sent(live[v].hash, Local(v), live[v].at)'
    BY <2>1, <2>3, SMTT(30) DEF Sent
  <2> QED
    BY <1>5, <2>4 DEF CarriesSent
<1> QED
  BY <1>4, <1>5 DEF CarriesSent

\* A record that is already in its slot stays right.
LEMMA SlotStays ==
    ASSUME TypeInv, RecordMatchesSent, [Next]_vars,
           NEW c \in Chains, store'[c] # NoTx, store'[c] = store[c]
    PROVE  SlotSent(c)'
<1>1. TypeOK /\ store[c] \in PendingTransaction
  BY DEF TypeInv, TypeOK, Keys
<1>2. /\ store[c].chain = c
      /\ store[c].hash # ZeroHash =>
            store[c].hash \in Hashes /\ Sent(store[c].hash, c, store[c].at)
  BY <1>1 DEF RecordMatchesSent, Sent, PendingTransaction
<1>3. ASSUME store[c].hash # ZeroHash
      PROVE  \A h, t : h = store[c].hash /\ t = store[c].at => Sent(h, c, t)'
  BY <1>1, <1>2, <1>3, SentStays
<1> QED
  BY <1>2, <1>3 DEF SlotSent, Sent

\* Every step keeps the slots and the workers right about what was sent.
LEMMA NextSent ==
    ASSUME TypeInv, SentInv, [Next]_vars
    PROVE  SentInv'
<1>1. TypeOK /\ RecordMatchesSent /\ \A v \in Workers : CarriesSent(v)
  BY DEF TypeInv, SentInv
<1>2. ASSUME UNCHANGED store PROVE RecordMatchesSent'
  BY <1>1, <1>2, SlotStays DEF RecordMatchesSent, SlotSent, Sent
<1>3. ASSUME NEW w \in Workers, Proceed(w) PROVE SentInv'
  <2>1. ASSUME NEW c \in Chains, store'[c] # NoTx, store'[c] # store[c]
        PROVE  SlotSent(c)'
    <3>1. /\ pc[w] = "save" /\ c = Local(w) /\ store'[c].chain = c
          /\ store'[c].at = now[w] /\ store'[c].hash = hash[w]
      BY <1>3, <2>1, SlotWritten
    <3>2. hash[w] # ZeroHash => hash[w] \in Hashes /\ Sent(hash[w], c, now[w])
      BY <1>1, <3>1 DEF CarriesSent, TypeOK
    <3>3. ASSUME hash[w] # ZeroHash
          PROVE  \A h, t : h = hash[w] /\ t = now[w] => Sent(h, c, t)'
      BY <1>1, <3>2, <3>3, SentStays
    <3> QED
      BY <3>1, <3>3 DEF SlotSent, Sent
  <2>2. RecordMatchesSent'
    BY <1>1, <2>1, SlotStays DEF RecordMatchesSent, SlotSent, Sent
  <2>3. ASSUME NEW v \in Workers \ {w} PROVE CarriesSent(v)'
    BY <1>1, <1>3, OthersKeep, CarriesStays
  <2>4. ASSUME pc'[w] = "status" PROVE CarriesSent(w)'
    <3>1. /\ pc[w] = "stored" /\ live'[w] = store[Local(w)] /\ Local(w)' = Local(w)
          /\ store[Local(w)] # NoTx /\ UNCHANGED txs
      BY <1>3, <2>4, CarriesFrom
    <3>2. Local(w) \in Chains
      BY <3>1, PairChains DEF Processing, Critical
    <3>3. live'[w].hash # ZeroHash => Sent(live'[w].hash, Local(w), live'[w].at)
      BY <1>1, <3>1, <3>2 DEF RecordMatchesSent, Sent
    <3> QED
      BY <2>4, <3>1, <3>3 DEF CarriesSent, Sent, Local
  <2>5. ASSUME pc'[w] = "save" PROVE CarriesSent(w)'
    <3>1. /\ Local(w)' = Local(w) /\ now'[w] = now[w]
          /\ hash'[w] # ZeroHash => hash'[w] \in Hashes /\ Send(w, hash'[w])
      BY <1>3, <2>5, CarriesFrom
    <3>2. NoTx # [chain |-> Local(w), at |-> now[w], status |-> "mempool"]
      <4>1. pc[w] = "client"
        BY <1>3, <2>5, CarriesFrom
      <4>2. Local(w) \in Chains
        BY <4>1, PairChains DEF Processing, Critical
      <4>3. [chain |-> Local(w), at |-> now[w], status |-> "mempool"] \in TxRecord
        BY <1>1, <4>2 DEF TxRecord, TypeOK
      <4> QED
        BY <4>3, NoTxAssumption
    <3>3. hash'[w] # ZeroHash =>
             txs'[hash'[w]] = [chain |-> Local(w), at |-> now[w], status |-> "mempool"]
      BY <1>1, <3>1 DEF Send, TypeOK
    <3> QED
      BY <2>5, <3>1, <3>2, <3>3, SMTT(30) DEF CarriesSent, Sent, Local
  <2>6. ASSUME pc'[w] \notin {"status", "save"} PROVE CarriesSent(w)'
    BY <2>6 DEF CarriesSent
  <2> QED
    BY <2>2, <2>3, <2>4, <2>5, <2>6 DEF SentInv
<1>4. ASSUME UNCHANGED <<store, workerVars>> PROVE SentInv'
  BY <1>1, <1>2, <1>4, CarriesStays DEF SentInv, workerVars
<1>5. ASSUME NEW w \in Workers, TryLock(w) PROVE SentInv'
  <2>1. UNCHANGED <<store, pair, now, live, hash>> /\ pc' = [pc EXCEPT ![w] = "configure"]
    BY <1>5 DEF TryLock, Goto
  <2>2. ASSUME NEW v \in Workers PROVE CarriesSent(v)'
    BY <1>1, <2>1, CarriesStays DEF TypeOK
  <2> QED
    BY <1>2, <2>1, <2>2 DEF SentInv
<1>6. ASSUME NEW w \in Workers, Panic(w) PROVE SentInv'
  <2>1. ASSUME NEW v \in Workers PROVE CarriesSent(v)'
    BY <1>1, <1>6, CarriesStays DEF Panic, Forget, TypeOK
  <2> QED
    BY <1>2, <1>6, <2>1 DEF SentInv, Panic, nodeVars
<1>7. CASE Restart
  BY <1>2, <1>7 DEF SentInv, CarriesSent, Restart
<1> QED
  BY <1>3, <1>4, <1>5, <1>6, <1>7
  DEF Next, TryLockRefused, Execute, DropTx, Tick, vars, nodeVars, workerVars

\* What a slot records was sent to the chain of the slot at the time recorded,
\* whatever faults occur.
THEOREM RecordMatchesSentHolds == Spec => []RecordMatchesSent
<1>1. Init => TypeInv /\ SentInv
  <2>1. Init => SentInv
    BY SMTT(30) DEF Init, SentInv, RecordMatchesSent, CarriesSent, Keys
  <2> QED
    BY <2>1, InitType
<1>2. TypeInv /\ SentInv /\ [Next]_vars => (TypeInv /\ SentInv)'
  BY NextType, NextSent
<1>3. SentInv => RecordMatchesSent
  BY DEF SentInv
<1> QED
  BY <1>1, <1>2, <1>3, PTL DEF Spec

-----------------------------------------------------------------------------
(***************************************************************************)
(* What a round waits for.                                                 *)
(***************************************************************************)

\* Without finalizers, no slot and no worker carries the zero hash.
LEMMA NextHash ==
    ASSUME TypeInv, HashInv, [Next]_vars, role # "QP_FINALIZER"
    PROVE  HashInv'
<1>1. TypeOK
  BY DEF TypeInv
<1> USE DEF HashInv
<1>2. ASSUME NEW w \in Workers, Proceed(w) PROVE HashInv'
  <2>1. ASSUME NEW c \in Chains, store'[c] # NoTx PROVE store'[c].hash # ZeroHash
    BY <1>2, <2>1, SlotWritten, SMTT(30)
  <2>2. pc'[w] = "save" => hash'[w] # ZeroHash
    BY <1>2, CarriesFrom, ConstantsAssumption
  <2>3. pc'[w] = "status" => live'[w].hash # ZeroHash
    <3>1. pc[w] = "stored" => Local(w) \in Chains
      BY PairChains DEF Processing, Critical
    <3> QED
      BY <1>2, <3>1, CarriesFrom
  <2> QED
    BY <1>1, <1>2, <2>1, <2>2, <2>3, OthersKeep, SMTT(30)
<1>3. ASSUME UNCHANGED <<store, workerVars>> PROVE HashInv'
  BY <1>3 DEF workerVars
<1>4. ASSUME NEW w \in Workers, TryLock(w) \/ Panic(w) PROVE HashInv'
  BY <1>1, <1>4 DEF TryLock, Panic, Goto, Forget, nodeVars, TypeOK
<1>5. CASE Restart
  BY <1>5 DEF Restart
<1> QED
  BY <1>2, <1>3, <1>4, <1>5
  DEF Next, TryLockRefused, Execute, DropTx, Tick, vars, nodeVars, workerVars

\* A round is given up only by is_tx_pending's answer.
LEMMA GivesUpPending ==
    ASSUME TypeInv, [Next]_vars, NEW w \in Workers, GivesUp(w)
    PROVE  IsTxPending(live[w], now[w])
<1>1. TypeOK
  BY DEF TypeInv
<1>2. ASSUME NEW v \in Workers, Proceed(v) PROVE v = w
  BY <1>1, <1>2, OthersKeep DEF GivesUp
<1>3. ASSUME Proceed(w) PROVE CheckPending(w)
  BY <1>3
  DEF Proceed, GivesUp, Configure, LockIsOpen, Lock, StoredPendingTransactions,
      RemoveTransaction, Client, ClientErr, ClientNone, ClientMined,
      ClientFinalized, ClientReplyLost, SaveTx, RemoveLockInner, RemoveLock, Release
<1>4. ASSUME CheckPending(w) PROVE IsTxPending(live[w], now[w])
  BY <1>1, <1>4 DEF CheckPending, GivesUp, Goto, TypeOK
<1>5. ASSUME NEW v \in Workers, TryLock(v) \/ Panic(v) PROVE FALSE
  BY <1>1, <1>5 DEF TryLock, Panic, Forget, Goto, GivesUp, TypeOK
<1>6. ASSUME Restart PROVE FALSE
  BY <1>6 DEF Restart, GivesUp
<1>7. ASSUME UNCHANGED workerVars PROVE FALSE
  BY <1>7 DEF workerVars, GivesUp
<1> QED
  BY <1>2, <1>3, <1>4, <1>5, <1>6, <1>7
  DEF Next, TryLockRefused, Execute, DropTx, Tick, vars

\* A miner gives a round up only while a transaction it sent to the local chain
\* has neither a receipt nor timed out, even if workers overlap, trap or are
\* stopped.  A node that is not configured as a finalizer is meant: a finalizer
\* records the zero hash.
THEOREM WaitsOnlyWhilePendingHolds ==
    ASSUME "QP_FINALIZER" \notin Roles
    PROVE  Spec => WaitsOnlyWhilePending
<1> DEFINE Inv == TypeInv /\ SentInv /\ HashInv
<1>1. Init => Inv
  <2>1. Init => SentInv /\ HashInv
    BY SMTT(30) DEF Init, SentInv, HashInv, RecordMatchesSent, CarriesSent, Keys
  <2> QED
    BY <2>1, InitType
<1>2. TypeInv => role # "QP_FINALIZER"
  BY DEF TypeInv, TypeOK
<1>3. Inv /\ [Next]_vars => Inv'
  BY <1>2, NextType, NextSent, NextHash
<1>4. ASSUME Inv, [Next]_vars, NEW w \in Workers, GivesUp(w)
      PROVE  \E h \in Hashes : /\ txs[h] # NoTx
                               /\ txs[h].chain = Local(w)
                               /\ ~HasReceipt(h)
                               /\ ~TimedOut(txs[h], now[w])
  <2>1. IsTxPending(live[w], now[w])
    BY <1>4, GivesUpPending
  <2>2. live[w].hash # ZeroHash /\ Sent(live[w].hash, Local(w), live[w].at)
    BY <1>4 DEF HashInv, SentInv, CarriesSent, GivesUp
  <2>3. live[w].hash \in Hashes
    BY <1>4, <2>2 DEF TypeInv, TypeOK, PlaceOK, GivesUp, PendingTransaction
  <2> QED
    BY <2>1, <2>2, <2>3 DEF IsTxPending, TimedOut, Sent
<1>5. Inv /\ [Next]_vars =>
        [\A w \in Workers : GivesUp(w) =>
          \E h \in Hashes : /\ txs[h] # NoTx
                            /\ txs[h].chain = Local(w)
                            /\ ~HasReceipt(h)
                            /\ ~TimedOut(txs[h], now[w])]_vars
  BY <1>4
<1> QED
  BY <1>1, <1>3, <1>5, PTL DEF Spec, WaitsOnlyWhilePending
=============================================================================
