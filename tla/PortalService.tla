---------------------------- MODULE PortalService ----------------------------
(***************************************************************************)
(* The quantum-portal offchain worker of one node: the hook that starts at *)
(* every imported block (lib.rs), the lease on the offchain-worker lock,   *)
(* the process lock and the one pending-transaction slot per local chain   *)
(* that QuantumPortalService keeps in persistent offchain storage.         *)
(*                                                                         *)
(* Several invocations of the hook may be alive at once; they share the    *)
(* storage and nothing else.  Every storage access and every RPC round     *)
(* trip is one step.  What QuantumPortalClient::mine and ::finalize decide *)
(* is left open here: they return Err, None or a hash, and PortalService   *)
(* is correct for every such answer.                                       *)
(***************************************************************************)
EXTENDS Integers, Sequences, FiniteSets

CONSTANTS
    Workers,     \* invocations of the offchain worker that may be alive at once
    Chains,      \* chain ids of the configured networks
    Pairs,       \* config.pair_vec: a sequence of <<remote, local>>
    Roles,       \* roles the operator may configure
    Hashes,      \* hashes of transactions the node can send (bounds their number)
    ZeroHash,    \* H256::zero(), the hash of no transaction
    LockKey,     \* 9999, the slot that serves as the process lock
    NoTx,        \* an empty slot
    Timeout,     \* TIMEOUT
    LeaseTime,   \* how long the offchain-worker lock is leased for
    MaxTime,     \* bound on the clock
    Faults       \* which of AllFaults the environment may produce

AllFaults == {"overlap", "crash", "panic", "lostReply", "drop"}

\* pair_vec may name at most this many pairs.
MAX_PAIRS_TO_MINE == 6

AllRoles == {"QP_MINER", "QP_FINALIZER", "None"}

ASSUME ConstantsAssumption ==
    /\ Pairs \in Seq(Chains \X Chains)
    /\ Roles \subseteq AllRoles
    /\ ZeroHash \notin Hashes
    /\ LockKey \notin Chains
    /\ Timeout \in Nat
    /\ LeaseTime \in Nat
    /\ MaxTime \in Nat
    /\ Faults \subseteq AllFaults

Keys == Chains \cup {LockKey}

(***************************************************************************)
(* PendingTransaction, less the enum's tag, which is never read back.  The *)
(* remote of a FinalizeTransaction is not recorded (is_tx_pending fills in *)
(* a 0): it is ZeroHash here.                                              *)
(***************************************************************************)
PendingTransaction ==
    [chain : Keys, remote : Chains \cup {ZeroHash}, at : Nat,
     hash : Hashes \cup {ZeroHash}]

\* A transaction the node sent: its chain, the recorded time, where it stands.
TxRecord ==
    [chain : Chains, at : Nat,
     status : {"mempool", "confirmed", "failed", "dropped"}]

ASSUME NoTxAssumption == NoTx \notin PendingTransaction /\ NoTx \notin TxRecord

VARIABLES
    clock,   \* the node's clock
    role,    \* config.role, read from storage when the node starts
    lease,   \* deadline of the offchain-worker lock, NoLease when cleared
    store,   \* persistent offchain storage: the slots, the process lock
    txs,     \* what became of each transaction the node sent, NoTx if none
    pc,      \* the next step of each worker
    pair,    \* index in Pairs of the pair a worker is processing
    now,     \* client.now: the time the worker configured its clients at
    live,    \* the stored transaction whose status the worker asks for
    hash     \* the hash mine or finalize returned

nodeVars == <<role, lease, store>>
workerVars == <<pc, pair, now, live, hash>>
vars == <<clock, nodeVars, txs, workerVars>>

\* A cleared lock is one whose deadline has always passed.
NoLease == -1

PCs == {"idle", "configure", "is_open", "lock", "stored", "status", "remove",
        "client", "save", "unlock_inner", "unlock", "release"}

TypeOK ==
    /\ clock \in Nat
    /\ role \in Roles
    /\ lease \in Nat \cup {NoLease}
    /\ store \in [Keys -> PendingTransaction \cup {NoTx}]
    /\ txs \in [Hashes -> TxRecord \cup {NoTx}]
    /\ pc \in [Workers -> PCs]
    /\ pair \in [Workers -> 1..Len(Pairs) + 1]
    /\ now \in [Workers -> Nat]
    /\ live \in [Workers -> PendingTransaction \cup {NoTx}]
    /\ hash \in [Workers -> Hashes \cup {ZeroHash}]

Init ==
    /\ clock = 0
    /\ role \in Roles
    /\ lease = NoLease
    /\ store = [k \in Keys |-> NoTx]
    /\ txs = [h \in Hashes |-> NoTx]
    /\ pc = [w \in Workers |-> "idle"]
    /\ pair = [w \in Workers |-> 1]
    /\ now = [w \in Workers |-> 0]
    /\ live = [w \in Workers |-> NoTx]
    /\ hash = [w \in Workers |-> ZeroHash]

-----------------------------------------------------------------------------
(***************************************************************************)
(* Helpers of the worker's steps.                                          *)
(***************************************************************************)

Remote(w) == Pairs[pair[w]][1]
Local(w) == Pairs[pair[w]][2]

Goto(w, label) == pc' = [pc EXCEPT ![w] = label]

\* test_qp goes on to the next pair of pair_vec, or is through.
NextPair(w) ==
    /\ pair' = [pair EXCEPT ![w] = @ + 1]
    /\ Goto(w, IF pair[w] < Len(Pairs) THEN "is_open" ELSE "release")

\* A worker that is gone keeps no local state.
Forget(w) ==
    /\ pc' = [pc EXCEPT ![w] = "idle"]
    /\ pair' = [pair EXCEPT ![w] = 1]
    /\ now' = [now EXCEPT ![w] = 0]
    /\ live' = [live EXCEPT ![w] = NoTx]
    /\ hash' = [hash EXCEPT ![w] = ZeroHash]

\* ChainQueries::get_transaction_status: Confirmed or Failed if there is a
\* receipt, else NotFound, whether the transaction is in a mempool, was dropped
\* or never existed.
HasReceipt(h) ==
    /\ h \in Hashes
    /\ txs[h] # NoTx
    /\ txs[h].status \in {"confirmed", "failed"}

\* The answer is_tx_pending gives at time t for a stored transaction.
TimedOut(p, t) == p.at + Timeout < t

\* Mutant: the timeout is reached one tick early.
IsTxPendingEarly(p, t) == ~HasReceipt(p.hash) /\ ~(p.at + Timeout <= t)

\* Mutant: without a receipt a transaction is pending for ever.
IsTxPendingForever(p, t) == ~HasReceipt(p.hash)

IsTxPending(p, t) == ~HasReceipt(p.hash) /\ ~TimedOut(p, t)

-----------------------------------------------------------------------------
(***************************************************************************)
(* The offchain_worker hook.                                               *)
(***************************************************************************)

\* Mutant: the lease counts as expired at its deadline, not after it.
TryLockAtDeadline(w) ==
    /\ pc[w] = "idle"
    /\ clock >= lease
    /\ lease' = clock + LeaseTime
    /\ Goto(w, "configure")
    /\ UNCHANGED <<clock, role, store, txs, pair, now, live, hash>>

\* try_lock on the StorageLock: succeeds when it is cleared or has expired.
TryLock(w) ==
    /\ pc[w] = "idle"
    /\ clock > lease
    /\ lease' = clock + LeaseTime
    /\ Goto(w, "configure")
    /\ UNCHANGED <<clock, role, store, txs, pair, now, live, hash>>

\* try_lock fails: the hook returns at once.
TryLockRefused(w) ==
    /\ pc[w] = "idle"
    /\ clock <= lease
    /\ UNCHANGED vars

\* Mutant: the clients get the time of the tick before.
ConfigureEarlier(w) ==
    /\ pc[w] = "configure"
    /\ now' = [now EXCEPT ![w] = clock - 1]
    /\ Goto(w, "is_open")
    /\ UNCHANGED <<clock, nodeVars, txs, pair, live, hash>>

\* Read the configuration; without a role, or with too many pairs, return.
\* Otherwise configure_network gives every client the current time.
Configure(w) ==
    /\ pc[w] = "configure"
    /\ IF role # "None" /\ Len(Pairs) \in 1..MAX_PAIRS_TO_MINE
       THEN /\ now' = [now EXCEPT ![w] = clock]
            /\ Goto(w, "is_open")
       ELSE /\ Goto(w, "release")
            /\ UNCHANGED now
    /\ UNCHANGED <<clock, nodeVars, txs, pair, live, hash>>

\* The guard is dropped: the StorageLock is cleared, whoever holds it now.
Release(w) ==
    /\ pc[w] = "release"
    /\ lease' = NoLease
    /\ Forget(w)
    /\ UNCHANGED <<clock, role, store, txs>>

(***************************************************************************)
(* process_pair_with_lock and process_pair.                                *)
(***************************************************************************)

\* lock_is_open: with the process lock set, the pair is skipped.
LockIsOpen(w) ==
    /\ pc[w] = "is_open"
    /\ IF store[LockKey] = NoTx
       THEN Goto(w, "lock") /\ UNCHANGED pair
       ELSE NextPair(w)
    /\ UNCHANGED <<clock, nodeVars, txs, now, live, hash>>

\* lock: save_tx of FinalizeTransaction(9999, 0, zero).
Lock(w) ==
    /\ pc[w] = "lock"
    /\ store' = [store EXCEPT ![LockKey] =
                    [chain |-> LockKey, remote |-> ZeroHash, at |-> 0,
                     hash |-> ZeroHash]]
    /\ Goto(w, "stored")
    /\ UNCHANGED <<clock, role, lease, txs, pair, now, live, hash>>

\* stored_pending_transactions(local_chain).
StoredPendingTransactions(w) ==
    /\ pc[w] = "stored"
    /\ live' = [live EXCEPT ![w] = store[Local(w)]]
    /\ Goto(w, IF store[Local(w)] = NoTx THEN "client" ELSE "status")
    /\ UNCHANGED <<clock, nodeVars, txs, pair, now, hash>>

\* Mutant: a transaction without a receipt is treated like a failed one.
CheckPendingNotFoundIsDone(w) ==
    /\ pc[w] = "status"
    /\ Goto(w, "remove")
    /\ UNCHANGED <<clock, nodeVars, txs, pair, now, live, hash>>

\* is_tx_pending: one RPC.  A transaction still pending ends this round
\* (return at process_pair:162), any other is to be removed from the store.
CheckPending(w) ==
    /\ pc[w] = "status"
    /\ Goto(w, IF IsTxPending(live[w], now[w]) THEN "unlock" ELSE "remove")
    /\ UNCHANGED <<clock, nodeVars, txs, pair, now, live, hash>>

\* remove_transaction_from_db, keyed by the chain of the stored transaction.
RemoveTransaction(w) ==
    /\ pc[w] = "remove"
    /\ store' = [store EXCEPT ![live[w].chain] = NoTx]
    /\ live' = [live EXCEPT ![w] = NoTx]
    /\ Goto(w, "client")
    /\ UNCHANGED <<clock, role, lease, txs, pair, now, hash>>

\* Mutant: the error leaves process_pair_with_lock too, past its remove_lock.
ClientErrKeepsLock(w) ==
    /\ pc[w] = "client"
    /\ NextPair(w)
    /\ UNCHANGED <<clock, nodeVars, txs, now, live, hash>>

\* mine or finalize fails: `?' leaves process_pair before its remove_lock.
ClientErr(w) ==
    /\ pc[w] = "client"
    /\ Goto(w, "unlock")
    /\ UNCHANGED <<clock, nodeVars, txs, pair, now, live, hash>>

\* mine or finalize has nothing to do.
ClientNone(w) ==
    /\ pc[w] = "client"
    /\ Goto(w, "unlock_inner")
    /\ UNCHANGED <<clock, nodeVars, txs, pair, now, live, hash>>

\* eth_sendRawTransaction: the transaction h reaches the local chain.
Send(w, h) ==
    /\ txs[h] = NoTx
    /\ txs' = [txs EXCEPT ![h] =
                  [chain |-> Local(w), at |-> now[w], status |-> "mempool"]]

\* mine returns the hash of the transaction it sent.
ClientMined(w) ==
    /\ pc[w] = "client"
    /\ role = "QP_MINER"
    /\ \E h \in Hashes : Send(w, h) /\ hash' = [hash EXCEPT ![w] = h]
    /\ Goto(w, "save")
    /\ UNCHANGED <<clock, nodeVars, pair, now, live>>

\* finalize sent a transaction (post_finalize_transaction), or submitted a
\* signature to its own chain (create_finalize_transaction): it returns the
\* default hash either way.
ClientFinalized(w) ==
    /\ pc[w] = "client"
    /\ role = "QP_FINALIZER"
    /\ \/ \E h \in Hashes : Send(w, h)
       \/ UNCHANGED txs
    /\ hash' = [hash EXCEPT ![w] = ZeroHash]
    /\ Goto(w, "save")
    /\ UNCHANGED <<clock, nodeVars, pair, now, live>>

\* The chain took the transaction and its answer was lost: send returns Err.
ClientReplyLost(w) ==
    /\ "lostReply" \in Faults
    /\ pc[w] = "client"
    /\ \E h \in Hashes : Send(w, h)
    /\ Goto(w, "unlock")
    /\ UNCHANGED <<clock, nodeVars, pair, now, live, hash>>

\* Mutant: the hash that was sent is not the one recorded.
SaveTxWithoutHash(w) ==
    /\ pc[w] = "save"
    /\ store' = [store EXCEPT ![Local(w)] =
                    [chain |-> Local(w),
                     remote |-> IF role = "QP_MINER" THEN Remote(w) ELSE ZeroHash,
                     at |-> now[w], hash |-> ZeroHash]]
    /\ hash' = [hash EXCEPT ![w] = ZeroHash]
    /\ Goto(w, "unlock_inner")
    /\ UNCHANGED <<clock, role, lease, txs, pair, now, live>>

\* Mutant: the transaction is recorded for the chain its block comes from.
SaveTxUnderRemote(w) ==
    /\ pc[w] = "save"
    /\ store' = [store EXCEPT ![Remote(w)] =
                    [chain |-> Remote(w),
                     remote |-> IF role = "QP_MINER" THEN Local(w) ELSE ZeroHash,
                     at |-> now[w], hash |-> hash[w]]]
    /\ hash' = [hash EXCEPT ![w] = ZeroHash]
    /\ Goto(w, "unlock_inner")
    /\ UNCHANGED <<clock, role, lease, txs, pair, now, live>>

\* save_tx of the Mine- or FinalizeTransaction.
SaveTx(w) ==
    /\ pc[w] = "save"
    /\ store' = [store EXCEPT ![Local(w)] =
                    [chain |-> Local(w),
                     remote |-> IF role = "QP_MINER" THEN Remote(w) ELSE ZeroHash,
                     at |-> now[w], hash |-> hash[w]]]
    /\ hash' = [hash EXCEPT ![w] = ZeroHash]
    /\ Goto(w, "unlock_inner")
    /\ UNCHANGED <<clock, role, lease, txs, pair, now, live>>

\* remove_lock at the end of process_pair.
RemoveLockInner(w) ==
    /\ pc[w] = "unlock_inner"
    /\ store' = [store EXCEPT ![LockKey] = NoTx]
    /\ Goto(w, "unlock")
    /\ UNCHANGED <<clock, role, lease, txs, pair, now, live, hash>>

\* remove_lock in process_pair_with_lock; then the next pair.
RemoveLock(w) ==
    /\ pc[w] = "unlock"
    /\ store' = [store EXCEPT ![LockKey] = NoTx]
    /\ live' = [live EXCEPT ![w] = NoTx]
    /\ NextPair(w)
    /\ UNCHANGED <<clock, role, lease, txs, now, hash>>

-----------------------------------------------------------------------------
(***************************************************************************)
(* What happens around the workers.                                        *)
(***************************************************************************)

\* A worker traps: the unwrap of is_tx_pending on an RPC error, or an unwrap,
\* expect or slice in the client's decoders.  A trap does not unwind: neither
\* the process lock nor the lease is given back.
Panic(w) ==
    /\ "panic" \in Faults
    /\ pc[w] \in {"status", "client"}
    /\ Forget(w)
    /\ UNCHANGED <<clock, nodeVars, txs>>

\* The node stops and starts again, perhaps with another role configured.  The
\* offchain storage persists; the workers are gone.
Restart ==
    /\ "crash" \in Faults
    /\ role' \in Roles
    /\ pc' = [w \in Workers |-> "idle"]
    /\ pair' = [w \in Workers |-> 1]
    /\ now' = [w \in Workers |-> 0]
    /\ live' = [w \in Workers |-> NoTx]
    /\ hash' = [w \in Workers |-> ZeroHash]
    /\ UNCHANGED <<clock, lease, store, txs>>

\* The chain executes a transaction, which succeeds or fails.
Execute(h) ==
    /\ txs[h] # NoTx
    /\ txs[h].status = "mempool"
    /\ \E s \in {"confirmed", "failed"} : txs' = [txs EXCEPT ![h].status = s]
    /\ UNCHANGED <<clock, nodeVars, workerVars>>

\* The chain's nodes forget a transaction that was never executed.
DropTx(h) ==
    /\ "drop" \in Faults
    /\ txs[h] # NoTx
    /\ txs[h].status = "mempool"
    /\ txs' = [txs EXCEPT ![h].status = "dropped"]
    /\ UNCHANGED <<clock, nodeVars, workerVars>>

Running(w) == pc[w] # "idle"

\* Time passes.  Unless workers may overlap, a worker ends within its lease:
\* nothing in the code makes sure of that (an RPC alone may take longer).
Tick ==
    /\ clock < MaxTime
    /\ "overlap" \in Faults \/ \A w \in Workers : Running(w) => clock < lease
    /\ clock' = clock + 1
    /\ UNCHANGED <<nodeVars, txs, workerVars>>

Client(w) ==
    \/ ClientErr(w)
    \/ ClientNone(w)
    \/ ClientMined(w)
    \/ ClientFinalized(w)
    \/ ClientReplyLost(w)

\* A worker that has the lease goes on to its next step.
Proceed(w) ==
    \/ Configure(w)
    \/ LockIsOpen(w)
    \/ Lock(w)
    \/ StoredPendingTransactions(w)
    \/ CheckPending(w)
    \/ RemoveTransaction(w)
    \/ Client(w)
    \/ SaveTx(w)
    \/ RemoveLockInner(w)
    \/ RemoveLock(w)
    \/ Release(w)

Next ==
    \/ \E w \in Workers :
          TryLock(w) \/ TryLockRefused(w) \/ Proceed(w) \/ Panic(w)
    \/ Restart
    \/ \E h \in Hashes : Execute(h) \/ DropTx(h)
    \/ Tick

Spec == Init /\ [][Next]_vars

(***************************************************************************)
(* Fairness.  Blocks keep being imported, and each starts the hook; a      *)
(* worker that runs keeps running; a chain deals with every transaction in *)
(* its mempool; time goes on.                                              *)
(***************************************************************************)
Fairness ==
    /\ WF_vars(\E w \in Workers : TryLock(w))
    /\ \A w \in Workers : WF_vars(Proceed(w))
    /\ \A h \in Hashes : WF_vars(Execute(h) \/ DropTx(h))
    /\ WF_vars(Tick)

FairSpec == Spec /\ Fairness

-----------------------------------------------------------------------------
(***************************************************************************)
(* Properties.                                                             *)
(***************************************************************************)

\* Between lock() and the last remove_lock().
Critical == {"stored", "status", "remove", "client", "save", "unlock_inner",
             "unlock"}

InCritical(w) == pc[w] \in Critical

\* A transaction to chain c that is neither executed nor dropped, and which the
\* node's record does not yet call timed out.
Outstanding(c) ==
    {h \in Hashes : /\ txs[h] # NoTx
                    /\ txs[h].chain = c
                    /\ txs[h].status = "mempool"
                    /\ ~TimedOut(txs[h], clock)}

\* Two workers are never inside process_pair at once: the lease and the process
\* lock together exclude it, across panics and restarts, as long as a worker
\* ends within its lease.
MutualExclusion ==
    \A v, w \in Workers : InCritical(v) /\ InCritical(w) => v = w

\* From lock to its own remove_lock the process lock of a round stays set: the
\* second remove_lock of an earlier round (process_pair_with_lock, after the one
\* in process_pair) does not take it away, as long as a worker ends within its
\* lease.
ProcessLockKept ==
    \A w \in Workers : pc[w] \in Critical \ {"unlock"} => store[LockKey] # NoTx

\* The node never has two transactions outstanding on one chain: process_pair
\* waits until the pending one is completed or timed out, whichever pair, role
\* or restart came in between.
OneOutstanding ==
    \A c \in Chains : \A g, h \in Outstanding(c) : g = h

\* The node as the single-flight discipline sees it.
SF == INSTANCE SingleFlight WITH flight <- [c \in Chains |-> Outstanding(c)]

\* process_pair implements the single-flight discipline: towards each chain it
\* sends only when nothing is outstanding, and what is outstanding is never
\* replaced, only completed, dropped or timed out.
ImplementsSingleFlight == SF!Spec

\* The slot of a chain is cleared or overwritten only when the transaction it
\* records has a receipt or has timed out: no record of a pending transaction
\* is lost.
RecordKeptWhilePending ==
    [][\A c \in Chains :
          store[c] # NoTx /\ store'[c] # store[c] => ~IsTxPending(store[c], clock)]_vars

\* The process lock is set only while a worker is inside process_pair: nobody
\* leaves it behind (when no worker panics and the node does not stop).
LockHasOwner ==
    store[LockKey] # NoTx => \E w \in Workers : InCritical(w)

\* What a slot records was really sent to the chain the slot belongs to, at the
\* time recorded (unless finalize gave the zero hash).  This needs neither lock:
\* it survives overlapping workers and lost answers.
RecordMatchesSent ==
    \A c \in Chains : store[c] # NoTx =>
        /\ store[c].chain = c
        /\ store[c].hash # ZeroHash =>
              /\ txs[store[c].hash] # NoTx
              /\ txs[store[c].hash].chain = c
              /\ txs[store[c].hash].at = store[c].at

\* A round that process_pair gives up because of a pending transaction.
GivesUp(w) == pc[w] = "status" /\ pc'[w] = "unlock"

\* process_pair gives up a round only while a transaction it sent to the local
\* chain has no receipt and has not timed out: it waits `until the pending is
\* completed or timed out' and no longer.  This is so for miners; a finalizer
\* records the zero hash and waits for it until the timeout.
WaitsOnlyWhilePending ==
    [][\A w \in Workers : GivesUp(w) =>
          \E h \in Hashes : /\ txs[h] # NoTx
                            /\ txs[h].chain = Local(w)
                            /\ ~HasReceipt(h)
                            /\ ~TimedOut(txs[h], now[w])]_vars

\* A recorded transaction does not block its chain for ever: a later round finds
\* the receipt or the timeout, and removes it (if the clock still has room for
\* the timeout within its bound).
RecordIsCleared ==
    \A c \in Chains :
        store[c] # NoTx /\ store[c].at + Timeout < MaxTime ~> store[c] = NoTx

\* Every configured pair keeps being processed: the worker gets past both locks
\* for it again and again.
PairsKeepBeingProcessed ==
    \A i \in 1..Len(Pairs) :
        []<>(\E w \in Workers : InCritical(w) /\ pair[w] = i)
=============================================================================
