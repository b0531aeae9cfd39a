----------------------------- MODULE PortalRelay -----------------------------
(***************************************************************************)
(* QuantumPortalClient::mine and ::finalize, one RPC at a time, run by     *)
(* several miners and finalizers against the ledger contracts of the       *)
(* chains, and composed with the pallet's registry.                        *)
(*                                                                         *)
(* The ledger contract is external and modelled from the calls made to it. *)
(* A route <<r, l>> leads from chain r to chain l.  On r its blocks        *)
(* collect transactions; only the last one may still be open.  On l they   *)
(* are mined in order and finalized.                                       *)
(*                                                                         *)
(* The service in front of the client (PortalService) is abstracted to     *)
(* what SingleFlight says: a miner starts no round towards a chain while a *)
(* transaction it sent there is outstanding.  A finalizer's record holds   *)
(* the zero hash and holds it up until the timeout, whatever became of the *)
(* transaction: here it may start a round at any time.                     *)
(***************************************************************************)
EXTENDS FinalizerRegistry

CONSTANTS
    Chains,         \* chains with a ledger contract
    Pairs,          \* configured pairs <<remote, local>>
    Miners,         \* nodes with role QP_MINER
    Finalizers,     \* nodes with role QP_FINALIZER
    Layout,         \* "shipped" or "repaired", see MinedBlockDecodes
    NoSignature,    \* a submitted signature without any bytes
    RelayFaults,    \* which of "rpcError", "drop" may happen
    MaxTxs          \* bound on the transactions of one route

Nodes == Miners \cup Finalizers

Routes == {r \in Chains \X Chains : r[1] # r[2]}

ASSUME RelayAssumption ==
    /\ Pairs \subseteq Routes
    /\ Miners \cap Finalizers = {}
    /\ Layout \in {"shipped", "repaired"}
    /\ RelayFaults \subseteq {"rpcError", "drop"}
    /\ MaxTxs \in Nat
    /\ {r[1] : r \in Pairs} \subseteq ChainIds
    /\ BlockNumbers = 1 .. MaxTxs
    /\ NoSignature \notin Chains
    /\ Signatures \subseteq Chains \cup {NoSignature}

VARIABLES
    source,      \* localBlockByNonce on r, by route
    open,        \* whether the last of those is still open, by route
    mined,       \* minedBlockByNonce on l, by route
    finalized,   \* getLastFinalizedBlock on l, by route
    invalid,     \* blocks finalized as invalid on l, by route
    pool,        \* transactions sent to the chains and not yet executed
    node         \* where each node stands in mine or finalize

ledgerVars == <<source, open, mined, finalized, invalid>>
relayVars == <<source, open, mined, finalized, invalid, pool, node>>
vars == <<registryVars, relayVars>>

WayBack(route) == <<route[2], route[1]>>

\* The k-th transaction of a route; no two transactions are equal.
Tx == [route : Routes, k : 1 .. MaxTxs]

TxCount(blocks) == SumFunction([i \in DOMAIN blocks |-> Len(blocks[i])])

\* A block that does not exist is read as one without transactions.
BlockAt(blocks, n) == IF n \in DOMAIN blocks THEN blocks[n] ELSE <<>>

MineMessage ==
    [kind : {"mine"}, from : Miners, route : Pairs, nonce : Nat, txs : Seq(Tx)]

\* The signature that is cut out of the joined ones says for which chain it is.
FinalizeMessage ==
    [kind : {"finalize"}, from : Finalizers, route : Pairs, nonce : Nat,
     invalid : SUBSET Nat, signers : SUBSET Accounts, signature : Signatures]

\* What a finalizer reads of the pallet: the state of the block it runs at.
Snapshot ==
    [signatures : [BlockNumbers -> Seq(Signed)], threshold : Nat]

NoSnapshot == [signatures |-> [b \in BlockNumbers |-> <<>>], threshold |-> 0]

Idle ==
    [pc |-> "idle", route |-> <<>>, last |-> 0, done |-> 0, txs |-> <<>>,
     valid |-> TRUE, at |-> NoSnapshot]

RelayInit ==
    /\ source = [r \in Routes |-> <<>>]
    /\ open = [r \in Routes |-> FALSE]
    /\ mined = [r \in Routes |-> <<>>]
    /\ finalized = [r \in Routes |-> 0]
    /\ invalid = [r \in Routes |-> {}]
    /\ pool = {}
    /\ node = [n \in Nodes |-> Idle]

Init == RegistryInit /\ RelayInit
-----------------------------------------------------------------------------
(***************************************************************************)
(* The chains.                                                             *)
(***************************************************************************)
NewTransaction(r) ==
    LET blocks == source[r]
        n  == Len(blocks)
        tx == [route |-> r, k |-> TxCount(blocks) + 1]
    IN /\ TxCount(blocks) < MaxTxs
       /\ source' = [source EXCEPT ![r] =
            IF open[r] THEN [blocks EXCEPT ![n] = Append(blocks[n], tx)]
                       ELSE Append(blocks, <<tx>>)]
       /\ open' = [open EXCEPT ![r] = TRUE]
       /\ UNCHANGED <<registryVars, mined, finalized, invalid, pool, node>>

\* The block period is over.
CloseBlock(r) ==
    /\ open[r]
    /\ open' = [open EXCEPT ![r] = FALSE]
    /\ UNCHANGED <<registryVars, source, mined, finalized, invalid, pool, node>>

\* mineRemoteBlock takes the next block only.
ExecuteMine(m) ==
    /\ m.kind = "mine"
    /\ mined' = [mined EXCEPT ![m.route] =
         IF m.nonce = Len(@) + 1 THEN Append(@, m.txs) ELSE @]
    /\ pool' = pool \ {m}
    /\ UNCHANGED <<registryVars, source, open, finalized, invalid, node>>

\* finalizeSingleSigner takes a mined block that is not finalized yet, and a
\* signature made for its chain: the chain id is part of what is signed.
ExecuteFinalize(m) ==
    LET accepted ==
          /\ m.nonce \in finalized[m.route] + 1 .. Len(mined[m.route])
          /\ m.signature = m.route[2]
    IN /\ m.kind = "finalize"
       /\ finalized' = [finalized EXCEPT ![m.route] = IF accepted THEN m.nonce ELSE @]
       /\ invalid' = [invalid EXCEPT
            ![m.route] = IF accepted THEN @ \cup m.invalid ELSE @]
       /\ pool' = pool \ {m}
       /\ UNCHANGED <<registryVars, source, open, mined, node>>

DropMessage(m) ==
    /\ "drop" \in RelayFaults
    /\ pool' = pool \ {m}
    /\ UNCHANGED <<registryVars, ledgerVars, node>>
-----------------------------------------------------------------------------
(***************************************************************************)
(* Rounds.                                                                 *)
(***************************************************************************)
At(n, place) == node[n].pc = place

Goto(n, place) == node' = [node EXCEPT ![n].pc = place]

Return(n) == node' = [node EXCEPT ![n] = Idle]

Outstanding(n, chain) == \E m \in pool : m.from = n /\ m.route[2] = chain

StartMine(n, r) ==
    /\ n \in Miners
    /\ At(n, "idle")
    /\ ~Outstanding(n, r[2])
    /\ node' = [node EXCEPT ![n].pc = "isLocalBlockReady", ![n].route = r]
    /\ UNCHANGED <<registryVars, ledgerVars, pool>>

StartFinalize(n, r) ==
    /\ n \in Finalizers
    /\ At(n, "idle")
    /\ node' = [node EXCEPT
         ![n].pc = "lastRemoteMinedBlock", ![n].route = r,
         ![n].at = [signatures |-> signatures[r[1]], threshold |-> threshold[r[1]]]]
    /\ UNCHANGED <<registryVars, ledgerVars, pool>>

(***************************************************************************)
(* mined_block_by_nonce asks for a tuple of six fields and                 *)
(* decode_mined_block_from_tuple takes five: it returns Err for every      *)
(* answer, and the rest of mine and of finalize is never reached.  That is *)
(* the "shipped" program.                                                  *)
(*                                                                         *)
(* In the "repaired" one the layouts agree: five fields are asked for, and *)
(* the method of a transaction is bytes where it is asked for (bytes[] in  *)
(* the code, taken apart as bytes) and where it is sent (bytes[] of one,   *)
(* under a signature that says bytes).  Where an RPC may fail it does all  *)
(* that the shipped program does, and more: what is safe in it is safe in  *)
(* the shipped one.  No liveness follows.                                  *)
(***************************************************************************)
MinedBlockDecodes == Layout = "repaired"

ReadsMinedBlock == {"minedBlock", "sign", "post"}

\* The signatures finalize has found for the block it works on.
MultiSigs(n) == node[n].at.signatures[node[n].last]

\* The i-th signature is the first to have bytes.  A signature has 96 or none:
\* the first 64 of all of them joined are its own.
FirstWithBytes(sigs, i) ==
    /\ sigs[i].signature # NoSignature
    /\ \A j \in 1 .. i - 1 : sigs[j].signature = NoSignature

\* The slice [0..64] of the joined signatures panics.
SliceTraps(n) ==
    At(n, "post") /\ ~ \E i \in DOMAIN MultiSigs(n) : FirstWithBytes(MultiSigs(n), i)

\* An RPC fails or an answer does not decode: Err.  Or the worker traps, after
\* which it would not start again (see PortalService); here it may.
Err(n) ==
    /\ ~At(n, "idle")
    /\ \/ "rpcError" \in RelayFaults
       \/ node[n].pc \in ReadsMinedBlock /\ ~MinedBlockDecodes
       \/ SliceTraps(n)
    /\ Return(n)
    /\ UNCHANGED <<registryVars, ledgerVars, pool>>

IsLocalBlockReady(n) ==
    LET r == node[n].route IN
    /\ At(n, "isLocalBlockReady")
    /\ IF source[r] # <<>> /\ ~open[r] THEN Goto(n, "lastLocalBlock") ELSE Return(n)
    /\ UNCHANGED <<registryVars, ledgerVars, pool>>

LastLocalBlock(n) ==
    /\ At(n, "lastLocalBlock")
    /\ node' = [node EXCEPT ![n].pc = "lastRemoteMinedBlock",
                            ![n].last = Len(source[node[n].route])]
    /\ UNCHANGED <<registryVars, ledgerVars, pool>>

MineLastRemoteMinedBlock(n) ==
    LET done == Len(mined[node[n].route]) IN
    /\ n \in Miners
    /\ At(n, "lastRemoteMinedBlock")
    /\ IF done >= node[n].last
         THEN Return(n)
         ELSE node' = [node EXCEPT ![n].pc = "minedBlock", ![n].done = done]
    /\ UNCHANGED <<registryVars, ledgerVars, pool>>

\* It is the newest source block that is asked for, not the one to be mined.
MineMinedBlockByNonce(n) ==
    /\ n \in Miners
    /\ At(n, "minedBlock")
    /\ MinedBlockDecodes
    /\ IF node[n].last \in DOMAIN mined[node[n].route]
         THEN Return(n)
         ELSE Goto(n, "localBlock")
    /\ UNCHANGED <<registryVars, ledgerVars, pool>>

\* Mutant of MineLocalBlockByNonce: the newest block is read.
MineLocalBlockByNonceNewest(n) ==
    /\ n \in Miners
    /\ At(n, "localBlock")
    /\ node' = [node EXCEPT ![n].pc = "send",
         ![n].txs = BlockAt(source[node[n].route], node[n].last)]
    /\ UNCHANGED <<registryVars, ledgerVars, pool>>

MineLocalBlockByNonce(n) ==
    /\ n \in Miners
    /\ At(n, "localBlock")
    /\ node' = [node EXCEPT ![n].pc = "send",
         ![n].txs = BlockAt(source[node[n].route], node[n].done + 1)]
    /\ UNCHANGED <<registryVars, ledgerVars, pool>>

\* Mutant of CreateMineTransaction: sent under the nonce of the newest block.
CreateMineTransactionNewest(n) ==
    /\ At(n, "send")
    /\ pool' = pool \cup {[kind |-> "mine", from |-> n, route |-> node[n].route,
                           nonce |-> node[n].last, txs |-> node[n].txs]}
    /\ Return(n)
    /\ UNCHANGED <<registryVars, ledgerVars>>

\* The answer of get_miner_for_block is not used.
CreateMineTransaction(n) ==
    /\ At(n, "send")
    /\ pool' = pool \cup {[kind |-> "mine", from |-> n, route |-> node[n].route,
                           nonce |-> node[n].done + 1, txs |-> node[n].txs]}
    /\ Return(n)
    /\ UNCHANGED <<registryVars, ledgerVars>>

\* Mutant of FinalizeLastRemoteMinedBlock: the source's last block is taken.
FinalizeLastLocalBlock(n) ==
    /\ n \in Finalizers
    /\ At(n, "lastRemoteMinedBlock")
    /\ node' = [node EXCEPT ![n].pc = "lastFinalizedBlock",
                            ![n].last = Len(source[node[n].route])]
    /\ UNCHANGED <<registryVars, ledgerVars, pool>>

FinalizeLastRemoteMinedBlock(n) ==
    /\ n \in Finalizers
    /\ At(n, "lastRemoteMinedBlock")
    /\ node' = [node EXCEPT ![n].pc = "lastFinalizedBlock",
                            ![n].last = Len(mined[node[n].route])]
    /\ UNCHANGED <<registryVars, ledgerVars, pool>>

LastFinalizedBlock(n) ==
    /\ At(n, "lastFinalizedBlock")
    /\ IF node[n].last > finalized[node[n].route]
         THEN Goto(n, "minedBlock") ELSE Return(n)
    /\ UNCHANGED <<registryVars, ledgerVars, pool>>

FinalizeMinedBlockByNonce(n) ==
    /\ n \in Finalizers
    /\ At(n, "minedBlock")
    /\ MinedBlockDecodes
    /\ node' = [node EXCEPT ![n].pc = "localBlock",
         ![n].txs = BlockAt(mined[node[n].route], node[n].last)]
    /\ UNCHANGED <<registryVars, ledgerVars, pool>>

\* As many transactions, and each of the source's among the mined ones.
CompareAndVerify(sourceTxs, minedTxs) ==
    /\ Len(sourceTxs) = Len(minedTxs)
    /\ Range(sourceTxs) \subseteq Range(minedTxs)

\* Both blocks are read from self, the chain of the mined block: what is
\* compared with is the block that chain sends the other way.
FinalizeLocalBlockByNonce(n) ==
    LET r   == node[n].route
        own == BlockAt(source[WayBack(r)], node[n].last)
    IN /\ n \in Finalizers
       /\ At(n, "localBlock")
       /\ node' = [node EXCEPT
            ![n].valid = CompareAndVerify(own, node[n].txs),
            ![n].pc = IF Len(MultiSigs(n)) > node[n].at.threshold THEN "post" ELSE "sign"]
       /\ UNCHANGED <<registryVars, ledgerVars, pool>>

\* The signature goes out as an unsigned extrinsic: the runtime has no
\* ValidateUnsigned for the pallet and refuses it, and the refusal is ignored.
CreateFinalizeTransaction(n) ==
    /\ At(n, "sign")
    /\ MinedBlockDecodes
    /\ Return(n)
    /\ UNCHANGED <<registryVars, ledgerVars, pool>>

\* Mutant of PostFinalizeTransaction: the block after it is called invalid.
PostFinalizeTransactionNextInvalid(n) ==
    LET last == node[n].last
        sigs == MultiSigs(n)
    IN /\ At(n, "post")
       /\ MinedBlockDecodes
       /\ \E i \in DOMAIN sigs :
            /\ FirstWithBytes(sigs, i)
            /\ pool' = pool \cup
                 {[kind |-> "finalize", from |-> n, route |-> node[n].route,
                   nonce |-> last, invalid |-> IF node[n].valid THEN {} ELSE {last + 1},
                   signers |-> {s.signer : s \in Range(sigs)},
                   signature |-> sigs[i].signature]}
       /\ Return(n)
       /\ UNCHANGED <<registryVars, ledgerVars>>

PostFinalizeTransaction(n) ==
    LET last == node[n].last
        sigs == MultiSigs(n)
    IN /\ At(n, "post")
       /\ MinedBlockDecodes
       /\ \E i \in DOMAIN sigs :
            /\ FirstWithBytes(sigs, i)
            /\ pool' = pool \cup
                 {[kind |-> "finalize", from |-> n, route |-> node[n].route,
                   nonce |-> last, invalid |-> IF node[n].valid THEN {} ELSE {last},
                   signers |-> {s.signer : s \in Range(sigs)},
                   signature |-> sigs[i].signature]}
       /\ Return(n)
       /\ UNCHANGED <<registryVars, ledgerVars>>
-----------------------------------------------------------------------------
Step(n) ==
    \/ IsLocalBlockReady(n) \/ LastLocalBlock(n) \/ MineLastRemoteMinedBlock(n)
    \/ MineMinedBlockByNonce(n) \/ MineLocalBlockByNonce(n)
    \/ CreateMineTransaction(n)
    \/ FinalizeLastRemoteMinedBlock(n) \/ LastFinalizedBlock(n)
    \/ FinalizeMinedBlockByNonce(n) \/ FinalizeLocalBlockByNonce(n)
    \/ CreateFinalizeTransaction(n) \/ PostFinalizeTransaction(n)

RelayNext ==
    \/ \E r \in Pairs : NewTransaction(r) \/ CloseBlock(r)
    \/ \E m \in pool : ExecuteMine(m) \/ ExecuteFinalize(m) \/ DropMessage(m)
    \/ \E n \in Nodes, r \in Pairs : StartMine(n, r) \/ StartFinalize(n, r)
    \/ \E n \in Nodes : Step(n) \/ Err(n)

Registry == RegistryNext /\ UNCHANGED relayVars

Next == RelayNext \/ Registry

Spec == Init /\ [][Next]_vars

(***************************************************************************)
(* Fairness: blocks keep being imported and the pairs are taken in turn, a *)
(* node goes on with a round, block periods end, a chain executes what     *)
(* each node sent, no node's transactions being passed over for ever.      *)
(***************************************************************************)
Fairness ==
    /\ \A r \in Pairs : WF_vars(CloseBlock(r))
    /\ \A n \in Nodes, r \in Pairs : SF_vars(StartMine(n, r) \/ StartFinalize(n, r))
    /\ \A n \in Nodes : WF_vars(Step(n) \/ Err(n))
    /\ \A n \in Nodes :
         WF_vars(\E m \in pool : m.from = n /\ (ExecuteMine(m) \/ ExecuteFinalize(m)))

FairSpec == Spec /\ Fairness
-----------------------------------------------------------------------------
RelayTypeOK ==
    /\ RegistryTypeOK
    /\ source \in [Routes -> Seq(Seq(Tx))]
    /\ open \in [Routes -> BOOLEAN]
    /\ mined \in [Routes -> Seq(Seq(Tx))]
    /\ finalized \in [Routes -> Nat]
    /\ invalid \in [Routes -> SUBSET (1 .. MaxTxs)]
    /\ pool \subseteq MineMessage \cup FinalizeMessage
    /\ \A n \in Nodes :
         /\ node[n].last \in 0 .. MaxTxs
         /\ node[n].done \in 0 .. MaxTxs
         /\ node[n].at \in Snapshot
         /\ At(n, "idle") <=> node[n].route \notin Pairs

(***************************************************************************)
(* mine and finalize, run by any number of nodes over stale answers, relay *)
(* each route in order: see BlockRelay.                                    *)
(***************************************************************************)
BR == INSTANCE BlockRelay

ImplementsBlockRelay == BR!Spec

(***************************************************************************)
(* No mineRemoteBlock skips a block or comes with transactions the block   *)
(* does not start with, from the moment it is sent (create_mine_           *)
(* transaction) until it is executed, whatever is mined meanwhile.         *)
(***************************************************************************)
MinesInOrder ==
    \A m \in pool : m.kind = "mine" =>
      /\ m.nonce \in 1 .. Len(mined[m.route]) + 1
      /\ m.nonce \in DOMAIN source[m.route]
      /\ BR!StartsWith(source[m.route][m.nonce], m.txs)

(***************************************************************************)
(* A finalize transaction is for a block that is mined, and a finalizer    *)
(* registered for its remote chain signed that block number (finalize,     *)
(* post_finalize_transaction, submit_signature); so was the last block     *)
(* that is finalized.                                                      *)
(***************************************************************************)
SignedBy(c, b) == {s.signer : s \in Range(signatures[c][b])} \cap ever[c]

FinalizesOnlySigned ==
    /\ \A m \in pool : m.kind = "finalize" =>
         /\ m.nonce \in DOMAIN mined[m.route]
         /\ m.signers # {}
         /\ m.signers \subseteq SignedBy(m.route[1], m.nonce)
    /\ \A r \in Pairs : finalized[r] > 0 => SignedBy(r[1], finalized[r]) # {}

(***************************************************************************)
(* quantum-portal.md: "After creating a block, the QP Node calls the       *)
(* mineRemoteBlock on the destinationChain".  Every block of the source    *)
(* chain is mined on the destination.                                      *)
(***************************************************************************)
BlockIsMined ==
    \A r \in Pairs, b \in BlockNumbers :
      (b \in DOMAIN source[r]) ~> (b \in DOMAIN mined[r])
=============================================================================
