-------------------------- MODULE PortalRelayProofs --------------------------
(***************************************************************************)
(* Proofs about PortalRelay, for any number of chains, pairs, miners,      *)
(* finalizers, transactions and signatures.                                *)
(***************************************************************************)
EXTENDS PortalRelay, FinalizerRegistryProofs, DataLemmas

\* First-order leaves go to Zenon; those that need arithmetic, sequences or records
\* cite SMT, with a limit that leaves room for a slow machine.
USE Zenon

IsPrefix(s, t) == BR!StartsWith(t, s)

\* The steps of mine and of finalize that have read the answers they hold.
MineCarries == {"minedBlock", "localBlock", "send"}
FinalizeCarries == {"minedBlock", "localBlock", "sign", "post"}

MinePlaces ==
    {"isLocalBlockReady", "lastLocalBlock", "lastRemoteMinedBlock"} \cup MineCarries
FinalizePlaces == {"lastRemoteMinedBlock", "lastFinalizedBlock"} \cup FinalizeCarries

NodeRecord ==
    [pc : {"idle"} \cup MinePlaces \cup FinalizePlaces, route : Pairs \cup {<<>>},
     last : 0 .. MaxTxs, done : 0 .. MaxTxs, txs : Seq(Tx), valid : BOOLEAN,
     at : Snapshot]

\* The ledgers.  Every block has a transaction, so that there are no more
\* blocks than transactions.
LedgerInv ==
    /\ source \in [Routes -> Seq(Seq(Tx))]
    /\ open \in [Routes -> BOOLEAN]
    /\ mined \in [Routes -> Seq(Seq(Tx))]
    /\ finalized \in [Routes -> Nat]
    /\ invalid \in [Routes -> SUBSET (1 .. MaxTxs)]
    /\ \A r \in Routes :
         /\ \A i \in DOMAIN source[r] : source[r][i] # <<>>
         /\ open[r] => source[r] # <<>>
         /\ Len(source[r]) <= MaxTxs
         /\ Len(mined[r]) <= Len(source[r])

\* What a miner has read is still right, if perhaps old.
MinerInv(n) ==
    LET r == node[n].route IN
    /\ node[n].pc \in {"idle"} \cup MinePlaces
    /\ node[n].pc = "lastRemoteMinedBlock" => node[n].last <= Len(source[r])
    /\ node[n].pc \in MineCarries =>
         /\ node[n].done < node[n].last
         /\ node[n].last <= Len(source[r])
         /\ node[n].done <= Len(mined[r])
    /\ node[n].pc = "send" => IsPrefix(node[n].txs, source[r][node[n].done + 1])

\* A finalizer works on a mined block, and what it has seen of the registry is
\* still there.
FinalizerInv(n) ==
    LET r == node[n].route IN
    /\ node[n].pc \in {"idle"} \cup FinalizePlaces
    /\ node[n].pc \in FinalizeCarries \cup {"lastFinalizedBlock"} =>
         node[n].last <= Len(mined[r])
    /\ node[n].pc \in FinalizeCarries => node[n].last > 0
    /\ node[n].pc # "idle" =>
         \A b \in BlockNumbers :
           Range(node[n].at.signatures[b]) \subseteq Range(signatures[r[1]][b])
    /\ node[n].pc = "post" => node[n].at.signatures[node[n].last] # <<>>

NodeInv ==
    /\ node \in [Nodes -> NodeRecord]
    /\ \A n \in Nodes : node[n].pc = "idle" <=> node[n].route = <<>>
    /\ \A n \in Miners : MinerInv(n)
    /\ \A n \in Finalizers : FinalizerInv(n)

\* A transaction on its way to a chain says what MinesInOrder and
\* FinalizesOnlySigned ask of it, and calls no other block invalid.
MineInOrder(m) ==
    /\ m.nonce \in 1 .. Len(mined[m.route]) + 1
    /\ m.nonce \in DOMAIN source[m.route]
    /\ IsPrefix(m.txs, source[m.route][m.nonce])

FinalizeSigned(m) ==
    /\ m.nonce \in DOMAIN mined[m.route]
    /\ m.invalid \subseteq {m.nonce}
    /\ m.signers # {}
    /\ m.signers \subseteq SignedBy(m.route[1], m.nonce)

PoolInv ==
    /\ pool \subseteq MineMessage \cup FinalizeMessage
    /\ \A m \in pool : m.kind = "mine" => MineInOrder(m)
    /\ \A m \in pool : m.kind = "finalize" => FinalizeSigned(m)

LastSigned ==
    \A r \in Pairs : finalized[r] > 0 =>
      finalized[r] <= MaxTxs /\ SignedBy(r[1], finalized[r]) # {}

RelayInv ==
    /\ RegistryInv
    /\ LedgerInv
    /\ NodeInv
    /\ PoolInv
    /\ LastSigned

-----------------------------------------------------------------------------
(***************************************************************************)
(* Sequences and records.                                                  *)
(***************************************************************************)

\* A prefix, position by position.
LEMMA PrefixIsElementwise ==
    ASSUME NEW S, NEW s \in Seq(S), NEW t \in Seq(S)
    PROVE  IsPrefix(s, t) <=> Len(s) <= Len(t) /\ \A i \in 1 .. Len(s) : s[i] = t[i]
BY DEF IsPrefix, BR!StartsWith

\* Prefixes of prefixes.
LEMMA PrefixTransitive ==
    ASSUME NEW S, NEW s \in Seq(S), NEW t \in Seq(S), NEW u \in Seq(S),
           IsPrefix(s, t), IsPrefix(t, u)
    PROVE  IsPrefix(s, u)
<1>1. Len(s) <= Len(t) /\ \A i \in 1 .. Len(s) : s[i] = t[i]
  BY PrefixIsElementwise, SMTT(30)
<1>2. Len(t) <= Len(u) /\ \A i \in 1 .. Len(t) : t[i] = u[i]
  BY PrefixIsElementwise, SMTT(30)
<1>3. Len(s) <= Len(u) /\ \A i \in 1 .. Len(s) : s[i] = u[i]
  BY <1>1, <1>2, SMTT(30)
<1> QED
  BY <1>3, PrefixIsElementwise

\* A sequence is its own prefix.
LEMMA PrefixReflexive ==
    ASSUME NEW S, NEW s \in Seq(S)
    PROVE  IsPrefix(s, s)
BY PrefixIsElementwise, SMTT(30)

\* The blocks of a route are counted from 1.
LEMMA Blocks ==
    ASSUME NEW blocks \in Seq(Seq(Tx))
    PROVE  /\ Len(blocks) \in Nat
           /\ DOMAIN blocks = 1 .. Len(blocks)
           /\ \A i \in DOMAIN blocks : blocks[i] \in Seq(Tx)
BY SMTT(30)

\* A pair is a route, and its remote chain has an entry in the registry.
LEMMA PairRoutes ==
    ASSUME NEW r \in Pairs
    PROVE  /\ r \in Routes /\ r # <<>> /\ r[1] \in ChainIds
           /\ r[1] \in Chains /\ r[2] \in Chains
<1>1. r \in Routes
  BY RelayAssumption
<1>2. r[1] \in ChainIds
  BY RelayAssumption
<1> QED
  BY <1>1, <1>2, SMTT(30) DEF Routes

-----------------------------------------------------------------------------
(***************************************************************************)
(* Nothing that a node has read or sent is taken back: blocks and what is  *)
(* in them, mined blocks, signatures and registrations only grow.          *)
(***************************************************************************)
Grows ==
    /\ \A r \in Routes : \A i \in DOMAIN source[r] :
         i \in DOMAIN source'[r] /\ IsPrefix(source[r][i], source'[r][i])
    /\ \A r \in Routes : /\ Len(source[r]) <= Len(source'[r])
                         /\ Len(mined[r]) <= Len(mined'[r])
    /\ \A c \in ChainIds : ever[c] \subseteq ever'[c]
    /\ \A c \in ChainIds, b \in BlockNumbers :
         Range(signatures[c][b]) \subseteq Range(signatures'[c][b])

\* Signatures that were there stay there.
LEMMA RegistryGrows ==
    ASSUME RegistryInv, [RegistryNext]_registryVars
    PROVE  /\ \A c \in ChainIds : ever[c] \subseteq ever'[c]
           /\ \A c \in ChainIds, b \in BlockNumbers :
                Range(signatures[c][b]) \subseteq Range(signatures'[c][b])
<1>1. ASSUME NEW c \in ChainIds, NEW a \in Accounts, RegisterFinalizer(c, a)
      PROVE  UNCHANGED signatures /\ \A d \in ChainIds : ever[d] \subseteq ever'[d]
  BY <1>1 DEF RegisterFinalizer, RegistryInv, RegistryTypeOK
<1>2. ASSUME NEW c \in ChainIds, NEW a \in Accounts, NEW b \in BlockNumbers,
             NEW s \in Signatures, SubmitSignature(a, c, b, s)
      PROVE  /\ UNCHANGED ever
             /\ \A d \in ChainIds, e \in BlockNumbers :
                  Range(signatures[d][e]) \subseteq Range(signatures'[d][e])
  <2> DEFINE new == [signer |-> a, signature |-> s]
  <2>1. /\ signatures' = [signatures EXCEPT ![c][b] = Append(@, new)]
        /\ UNCHANGED ever
    BY <1>2 DEF SubmitSignature
  <2>2. new \in Signed
    BY DEF Signed
  <2> HIDE DEF new
  <2>3. \A d \in ChainIds, e \in BlockNumbers :
          signatures'[d][e] = IF d = c /\ e = b THEN Append(signatures[c][b], new)
                                                ELSE signatures[d][e]
    BY <2>1 DEF RegistryInv, RegistryTypeOK
  <2>4. Range(signatures[c][b]) \subseteq Range(Append(signatures[c][b], new))
    <3>1. signatures[c][b] \in Seq(Signed)
      BY DEF RegistryInv, RegistryTypeOK
    <3> QED
      BY <2>2, <3>1, SMTT(30) DEF Range
  <2>5. ASSUME NEW d \in ChainIds, NEW e \in BlockNumbers
        PROVE  Range(signatures[d][e]) \subseteq Range(signatures'[d][e])
    <3>1. CASE d = c /\ e = b
      <4>1. signatures'[d][e] = Append(signatures[c][b], new)
        BY <2>3, <3>1
      <4> QED
        BY <2>4, <3>1, <4>1
    <3>2. CASE ~(d = c /\ e = b)
      BY <2>3, <3>2
    <3> QED
      BY <3>1, <3>2
  <2> QED
    BY <2>1, <2>5
<1>3. ASSUME UNCHANGED <<signatures, ever>>
      PROVE  /\ \A c \in ChainIds : ever[c] \subseteq ever'[c]
             /\ \A c \in ChainIds, b \in BlockNumbers :
                  Range(signatures[c][b]) \subseteq Range(signatures'[c][b])
  BY <1>3
<1> QED
  BY <1>1, <1>2, <1>3, ZenonT(30)
  DEF RegistryNext, PrecompileRegister, PrecompileRemove, RemoveFinalizer,
      SetFinalizerThreshold, registryVars

\* Ledgers that do not change keep every block.
LEMMA LedgerKept ==
    ASSUME LedgerInv, UNCHANGED <<source, mined>>
    PROVE  /\ \A r \in Routes : \A i \in DOMAIN source[r] :
                i \in DOMAIN source'[r] /\ IsPrefix(source[r][i], source'[r][i])
           /\ \A r \in Routes : /\ Len(source[r]) <= Len(source'[r])
                                /\ Len(mined[r]) <= Len(mined'[r])
<1>1. ASSUME NEW r \in Routes, NEW i \in DOMAIN source[r]
      PROVE  IsPrefix(source[r][i], source[r][i])
  <2>1. source[r] \in Seq(Seq(Tx))
    BY DEF LedgerInv
  <2>2. source[r][i] \in Seq(Tx)
    BY <2>1, Blocks
  <2> QED
    BY <2>2, PrefixReflexive
<1>2. \A r \in Routes : /\ Len(source[r]) <= Len(source'[r])
                      /\ Len(mined[r]) <= Len(mined'[r])
  BY SMTT(30) DEF LedgerInv
<1> QED
  BY <1>1, <1>2

\* Who signed stays signed.
LEMMA SignedStays ==
    ASSUME Grows, NEW c \in ChainIds, NEW b \in BlockNumbers
    PROVE  SignedBy(c, b) \subseteq SignedBy(c, b)'
BY DEF Grows, SignedBy

\* What a node holds stays right while it does nothing.
LEMMA MinerStays ==
    ASSUME LedgerInv, LedgerInv', Grows, node \in [Nodes -> NodeRecord],
           NEW n \in Miners, MinerInv(n), node'[n] = node[n],
           node[n].pc # "idle" => node[n].route \in Pairs
    PROVE  MinerInv(n)'
<1>1. CASE node[n].pc = "idle"
  BY <1>1 DEF MinerInv, MinePlaces, MineCarries
<1>2. CASE node[n].pc # "idle"
  <2>1. PICK r \in Routes : r = node[n].route
    BY <1>2, PairRoutes
  <2>2. PICK k \in Nat, l \in Nat, t \in Seq(Tx) :
          k = node[n].done /\ l = node[n].last /\ t = node[n].txs
    BY SMTT(30) DEF NodeRecord, Nodes
  <2>3. /\ source[r] \in Seq(Seq(Tx)) /\ source'[r] \in Seq(Seq(Tx))
        /\ Len(mined[r]) \in Nat /\ Len(mined'[r]) \in Nat
    BY SMTT(30) DEF LedgerInv
  <2>4. Len(source[r]) <= Len(source'[r]) /\ Len(mined[r]) <= Len(mined'[r])
    BY DEF Grows
  <2>5. ASSUME node[n].pc = "send"
        PROVE  IsPrefix(t, source'[r][k + 1])
    <3>1. k < l /\ l <= Len(source[r]) /\ IsPrefix(t, source[r][k + 1])
      BY <2>1, <2>2, <2>5 DEF MinerInv, MineCarries
    <3>2. k + 1 \in DOMAIN source[r]
      BY <2>3, <3>1, SMTT(30)
    <3>3. k + 1 \in DOMAIN source'[r] /\ IsPrefix(source[r][k + 1], source'[r][k + 1])
      BY <3>2 DEF Grows
    <3>4. source[r][k + 1] \in Seq(Tx) /\ source'[r][k + 1] \in Seq(Tx)
      BY <2>3, <3>2, <3>3, Blocks
    <3> QED
      BY <3>1, <3>3, <3>4, PrefixTransitive
  <2>6. l <= Len(source[r]) => l <= Len(source'[r])
    BY <2>3, <2>4, SMTT(30)
  <2>7. k <= Len(mined[r]) => k <= Len(mined'[r])
    BY <2>3, <2>4, SMTT(30)
  <2> QED
    BY <2>1, <2>2, <2>5, <2>6, <2>7 DEF MinerInv
<1> QED
  BY <1>1, <1>2

\* What a finalizer knows stays true while it does nothing.
LEMMA FinalizerStays ==
    ASSUME LedgerInv, LedgerInv', Grows, node \in [Nodes -> NodeRecord],
           NEW n \in Finalizers, FinalizerInv(n), node'[n] = node[n],
           node[n].pc # "idle" => node[n].route \in Pairs
    PROVE  FinalizerInv(n)'
<1>1. CASE node[n].pc = "idle"
  BY <1>1 DEF FinalizerInv, FinalizePlaces, FinalizeCarries
<1>2. CASE node[n].pc # "idle"
  <2>1. PICK r \in Routes : r = node[n].route /\ r[1] \in ChainIds
    BY <1>2, PairRoutes
  <2>2. PICK l \in Nat : l = node[n].last
    BY SMTT(30) DEF NodeRecord, Nodes
  <2>3. /\ Len(mined[r]) \in Nat /\ Len(mined'[r]) \in Nat
        /\ Len(mined[r]) <= Len(mined'[r])
    BY SMTT(30) DEF LedgerInv, Grows
  <2>4. l <= Len(mined[r]) => l <= Len(mined'[r])
    BY <2>3, SMTT(30)
  <2>5. \A b \in BlockNumbers :
          Range(node[n].at.signatures[b]) \subseteq Range(signatures'[r[1]][b])
    <3>1. \A b \in BlockNumbers :
            Range(node[n].at.signatures[b]) \subseteq Range(signatures[r[1]][b])
      BY <1>2, <2>1 DEF FinalizerInv
    <3>2. \A b \in BlockNumbers :
            Range(signatures[r[1]][b]) \subseteq Range(signatures'[r[1]][b])
      BY <2>1 DEF Grows
    <3> QED
      BY <3>1, <3>2
  <2> QED
    BY <2>1, <2>2, <2>4, <2>5 DEF FinalizerInv
<1> QED
  BY <1>1, <1>2

\* What is on its way stays right while the chains go on.
LEMMA MineStays ==
    ASSUME LedgerInv, LedgerInv', Grows, NEW m \in MineMessage, MineInOrder(m)
    PROVE  MineInOrder(m)'
<1>1. PICK r \in Routes, k \in Nat, t \in Seq(Tx) :
        r = m.route /\ k = m.nonce /\ t = m.txs
  BY PairRoutes DEF MineMessage
<1>2. /\ k \in 1 .. Len(mined[r]) + 1 /\ k \in DOMAIN source[r]
      /\ IsPrefix(t, source[r][k])
  BY <1>1 DEF MineInOrder
<1>3. k \in DOMAIN source'[r] /\ IsPrefix(source[r][k], source'[r][k])
  BY <1>1, <1>2 DEF Grows
<1>4. /\ source[r] \in Seq(Seq(Tx)) /\ source'[r] \in Seq(Seq(Tx))
      /\ Len(mined[r]) \in Nat /\ Len(mined'[r]) \in Nat
      /\ Len(mined[r]) <= Len(mined'[r])
  BY SMTT(30) DEF LedgerInv, Grows
<1>5. source[r][k] \in Seq(Tx) /\ source'[r][k] \in Seq(Tx)
  BY <1>2, <1>3, <1>4, Blocks
<1>6. IsPrefix(t, source'[r][k])
  BY <1>2, <1>3, <1>5, PrefixTransitive
<1>7. k \in 1 .. Len(mined'[r]) + 1
  BY <1>2, <1>4, SMTT(30)
<1> QED
  BY <1>1, <1>3, <1>6, <1>7 DEF MineInOrder

\* What a finalize on its way says stays true.
LEMMA FinalizeStays ==
    ASSUME LedgerInv, LedgerInv', Grows, NEW m \in FinalizeMessage, FinalizeSigned(m)
    PROVE  FinalizeSigned(m)'
<1>1. PICK r \in Routes, k \in Nat :
        r = m.route /\ k = m.nonce /\ r[1] \in ChainIds
  BY PairRoutes DEF FinalizeMessage
<1>2. k \in DOMAIN mined[r]
  BY <1>1 DEF FinalizeSigned
<1>3. /\ mined[r] \in Seq(Seq(Tx)) /\ mined'[r] \in Seq(Seq(Tx))
      /\ Len(mined[r]) <= Len(mined'[r])
  BY DEF LedgerInv, Grows
<1>4. k \in DOMAIN mined'[r]
  BY <1>2, <1>3, SMTT(30)
<1>5. k \in BlockNumbers
  <2>1. /\ Len(mined[r]) <= Len(source[r]) /\ Len(source[r]) <= MaxTxs
        /\ Len(source[r]) \in Nat
    BY SMTT(30) DEF LedgerInv
  <2> QED
    BY <1>2, <1>3, <2>1, RelayAssumption, SMTT(30)
<1>6. SignedBy(r[1], k) \subseteq SignedBy(r[1], k)'
  BY <1>1, <1>5, SignedStays
<1> QED
  BY <1>1, <1>4, <1>6 DEF FinalizeSigned

-----------------------------------------------------------------------------
(***************************************************************************)
(* The chains and the registry keep the invariant.                         *)
(***************************************************************************)

\* The nodes and the pool, while only chains and registry go on.
LEMMA OthersStay ==
    ASSUME RelayInv, RegistryInv', LedgerInv', Grows,
           UNCHANGED node, pool' \subseteq pool
    PROVE  NodeInv' /\ PoolInv'
<1>1. LedgerInv /\ NodeInv /\ PoolInv
  BY DEF RelayInv
<1>2. ASSUME NEW n \in Nodes, node[n].pc # "idle" PROVE node[n].route \in Pairs
  BY <1>1, <1>2 DEF NodeInv, NodeRecord
<1>3. ASSUME NEW n \in Miners PROVE MinerInv(n)'
  BY <1>1, <1>2, MinerStays DEF NodeInv, Nodes
<1>4. ASSUME NEW n \in Finalizers PROVE FinalizerInv(n)'
  BY <1>1, <1>2, FinalizerStays DEF NodeInv, Nodes
<1>5. NodeInv'
  BY <1>1, <1>3, <1>4 DEF NodeInv
<1>6. ASSUME NEW m \in pool', m.kind = "mine" PROVE MineInOrder(m)'
  <2>1. m \in MineMessage /\ MineInOrder(m)
    BY <1>1, <1>6 DEF PoolInv, FinalizeMessage
  <2> QED
    BY <1>1, <2>1, MineStays
<1>7. ASSUME NEW m \in pool', m.kind = "finalize" PROVE FinalizeSigned(m)'
  <2>1. m \in FinalizeMessage /\ FinalizeSigned(m)
    BY <1>1, <1>7 DEF PoolInv, MineMessage
  <2> QED
    BY <1>1, <2>1, FinalizeStays
<1>8. PoolInv'
  BY <1>1, <1>6, <1>7 DEF PoolInv
<1> QED
  BY <1>5, <1>8

\* The last finalized block stays signed.
LEMMA LastSignedStays ==
    ASSUME LastSigned, Grows, UNCHANGED finalized, finalized \in [Routes -> Nat]
    PROVE  LastSigned'
<1> SUFFICES ASSUME NEW r \in Pairs, finalized[r] > 0
             PROVE  finalized[r] <= MaxTxs /\ SignedBy(r[1], finalized[r])' # {}
  BY DEF LastSigned
<1>1. finalized[r] <= MaxTxs /\ SignedBy(r[1], finalized[r]) # {}
  BY DEF LastSigned
<1>2. r[1] \in ChainIds /\ r \in Routes
  BY PairRoutes
<1>3. finalized[r] \in BlockNumbers
  BY <1>1, <1>2, RelayAssumption, SMTT(30)
<1>4. SignedBy(r[1], finalized[r]) \subseteq SignedBy(r[1], finalized[r])'
  <2> DEFINE b == finalized[r]
  <2>1. SignedBy(r[1], b) \subseteq {s.signer : s \in Range(signatures'[r[1]][b])} \cap ever'[r[1]]
    BY <1>2, <1>3 DEF SignedBy, Grows
  <2> QED
    BY <2>1 DEF SignedBy
<1> QED
  BY <1>1, <1>4

\* The extrinsics and the precompile keep the invariant.
LEMMA RegistryStep ==
    ASSUME RelayInv, Registry \/ UNCHANGED vars
    PROVE  RelayInv'
<1>1. [RegistryNext]_registryVars /\ UNCHANGED relayVars
  BY DEF Registry, vars, registryVars, relayVars
<1>2. RegistryInv /\ LedgerInv /\ LastSigned
  BY DEF RelayInv
<1>3. RegistryInv'
  BY <1>1, <1>2, RegistryStepInv
<1>4. LedgerInv'
  BY <1>1, <1>2 DEF LedgerInv, relayVars
<1>5. Grows
  <2>1. UNCHANGED <<source, mined>>
    BY <1>1 DEF relayVars
  <2>2. /\ \A c \in ChainIds : ever[c] \subseteq ever'[c]
        /\ \A c \in ChainIds, b \in BlockNumbers :
             Range(signatures[c][b]) \subseteq Range(signatures'[c][b])
    BY <1>1, <1>2, RegistryGrows
  <2> QED
    BY <1>2, <2>1, <2>2, LedgerKept DEF Grows
<1>6. NodeInv' /\ PoolInv'
  BY <1>1, <1>3, <1>4, <1>5, OthersStay DEF relayVars
<1>7. LastSigned'
  BY <1>1, <1>2, <1>5, LastSignedStays DEF relayVars, LedgerInv
<1> QED
  BY <1>3, <1>4, <1>6, <1>7 DEF RelayInv

\* How a route's blocks change when a transaction arrives.
GrownBy(blocks, new) ==
    /\ new \in Seq(Seq(Tx))
    /\ new # <<>>
    /\ \A i \in DOMAIN new : new[i] # <<>>
    /\ Len(new) \in {Len(blocks), Len(blocks) + 1}
    /\ \A i \in DOMAIN blocks : i \in DOMAIN new /\ IsPrefix(blocks[i], new[i])
    /\ \A i \in 1 .. Len(blocks) - 1 : new[i] = blocks[i]

\* The transaction starts a block.
LEMMA NewBlock ==
    ASSUME NEW blocks \in Seq(Seq(Tx)), NEW tx \in Tx,
           \A i \in DOMAIN blocks : blocks[i] # <<>>
    PROVE  GrownBy(blocks, Append(blocks, <<tx>>))
<1>1. <<tx>> \in Seq(Tx) /\ <<tx>> # <<>>
  BY SMTT(30)
<1> DEFINE b == <<tx>>
           new == Append(blocks, b)
<1> HIDE DEF b
<1>2. new \in Seq(Seq(Tx)) /\ b \in Seq(Tx) /\ b # <<>>
  BY <1>1, SMTT(30) DEF b
<1>3. /\ Len(new) = Len(blocks) + 1 /\ new[Len(blocks) + 1] = b
      /\ \A i \in DOMAIN blocks : i \in DOMAIN new /\ new[i] = blocks[i]
      /\ \A i \in DOMAIN new : i \in DOMAIN blocks \/ i = Len(blocks) + 1
      /\ \A i \in 1 .. Len(blocks) - 1 : i \in DOMAIN blocks
  BY <1>2, SMTT(30)
<1> HIDE DEF new
<1>4. \A i \in DOMAIN blocks : IsPrefix(blocks[i], new[i])
  BY <1>3, Blocks, PrefixReflexive
<1>5. new # <<>> /\ \A i \in DOMAIN new : new[i] # <<>>
  BY <1>2, <1>3, SMTT(30)
<1>6. GrownBy(blocks, new)
  BY <1>2, <1>3, <1>4, <1>5 DEF GrownBy
<1> QED
  BY <1>6 DEF b, new

\* The transaction joins the last block.
LEMMA LongerBlock ==
    ASSUME NEW blocks \in Seq(Seq(Tx)), NEW tx \in Tx, blocks # <<>>,
           \A i \in DOMAIN blocks : blocks[i] # <<>>
    PROVE  GrownBy(blocks,
                   [blocks EXCEPT ![Len(blocks)] = Append(blocks[Len(blocks)], tx)])
<1>1. PICK n \in DOMAIN blocks : n = Len(blocks)
  BY SMTT(30)
<1>2. blocks[n] \in Seq(Tx)
  BY Blocks
<1> DEFINE b == Append(blocks[n], tx)
           new == [blocks EXCEPT ![n] = b]
<1>3. b \in Seq(Tx)
  BY <1>2, SMTT(30)
<1>4. b # <<>> /\ IsPrefix(blocks[n], b)
  <2>1. Len(blocks[n]) <= Len(b) /\ \A i \in 1 .. Len(blocks[n]) : blocks[n][i] = b[i]
    BY <1>2, <1>3, SMTT(30)
  <2>2. b # <<>>
    BY <1>2, <1>3, SMTT(30)
  <2> QED
    BY <1>2, <1>3, <2>1, <2>2, PrefixIsElementwise
<1> HIDE DEF b
<1>5. new \in Seq(Seq(Tx))
  BY <1>1, <1>3, SMTT(30)
<1>6. /\ Len(new) = Len(blocks) /\ DOMAIN new = DOMAIN blocks /\ new[n] = b
      /\ \A i \in DOMAIN blocks : i # n => new[i] = blocks[i]
      /\ \A i \in 1 .. Len(blocks) - 1 : i \in DOMAIN blocks /\ i # n
  BY <1>1, <1>3, SMTT(30)
<1> HIDE DEF new
<1>7. \A i \in DOMAIN blocks : IsPrefix(blocks[i], new[i])
  BY <1>4, <1>6, Blocks, PrefixReflexive
<1>8. new # <<>> /\ \A i \in DOMAIN new : new[i] # <<>>
  BY <1>1, <1>4, <1>6, SMTT(30)
<1>9. [blocks EXCEPT ![Len(blocks)] = Append(blocks[Len(blocks)], tx)] = new
  BY <1>1 DEF new, b
<1>10. GrownBy(blocks, new)
  BY <1>5, <1>6, <1>7, <1>8 DEF GrownBy
<1> QED
  BY <1>9, <1>10

\* The number of blocks of a route stays within the number of transactions.
LEMMA NewTransactionGrows ==
    ASSUME LedgerInv, NEW r \in Pairs, NewTransaction(r)
    PROVE  /\ source' = [source EXCEPT ![r] = source'[r]]
           /\ GrownBy(source[r], source'[r])
           /\ Len(source'[r]) <= MaxTxs
<1>1. r \in Routes
  BY PairRoutes
<1> DEFINE blocks == source[r]
           tx == [route |-> r, k |-> TxCount(blocks) + 1]
           new == IF open[r]
                    THEN [blocks EXCEPT ![Len(blocks)] = Append(blocks[Len(blocks)], tx)]
                    ELSE Append(blocks, <<tx>>)
<1>0. source' = [source EXCEPT ![r] = new]
  BY DEF NewTransaction
<1>2. blocks \in Seq(Seq(Tx)) /\ TxCount(blocks) < MaxTxs
  BY <1>1 DEF LedgerInv, NewTransaction
<1>3. \A i \in DOMAIN blocks : blocks[i] # <<>>
  BY <1>1 DEF LedgerInv
<1>4. open[r] => blocks # <<>>
  BY <1>1 DEF LedgerInv
<1> HIDE DEF blocks
<1>5. TxCount(blocks) \in Nat /\ Len(blocks) <= TxCount(blocks) /\ TxCount(blocks) < MaxTxs
  <2> DEFINE lens == [i \in DOMAIN blocks |-> Len(blocks[i])]
  <2>1. DOMAIN blocks = 1 .. Len(blocks) /\ Len(blocks) \in Nat
    BY <1>2, SMTT(30)
  <2>2. IsFiniteSet(DOMAIN blocks) /\ Cardinality(DOMAIN blocks) = Len(blocks)
    <3>1. /\ IsFiniteSet(1 .. Len(blocks))
          /\ Cardinality(1 .. Len(blocks)) =
               IF 1 > Len(blocks) THEN 0 ELSE Len(blocks) - 1 + 1
      BY <2>1, FS_Interval, SMTT(30)
    <3> QED
      BY <2>1, <3>1, SMTT(30)
  <2>3. lens \in [DOMAIN blocks -> Nat] /\ \A i \in DOMAIN blocks : lens[i] # 0
    BY <1>2, <1>3, SMTT(30)
  <2> HIDE DEF lens
  <2>4. SumFunction(lens) \in Nat /\ Len(blocks) <= SumFunction(lens)
    BY <2>2, <2>3, SumCounts
  <2> QED
    BY <1>2, <2>4 DEF TxCount, lens
<1>6. tx \in Tx
  <2>1. TxCount(blocks) + 1 \in 1 .. MaxTxs
    BY <1>5, RelayAssumption, SMTT(30)
  <2> QED
    BY <1>1, <2>1 DEF Tx
<1> HIDE DEF tx
<1>7. GrownBy(blocks, new)
  <2>1. CASE open[r]
    BY <1>2, <1>3, <1>4, <1>6, <2>1, LongerBlock
  <2>2. CASE ~open[r]
    BY <1>2, <1>3, <1>6, <2>2, NewBlock
  <2> QED
    BY <2>1, <2>2
<1> HIDE DEF new
<1>8. source'[r] = new
  BY <1>0, <1>1 DEF LedgerInv
<1>9. Len(new) <= MaxTxs
  <2>1. Len(new) \in {Len(blocks), Len(blocks) + 1}
    BY <1>7 DEF GrownBy
  <2> QED
    BY <1>2, <1>5, <2>1, RelayAssumption, SMTT(30)
<1> QED
  BY <1>0, <1>7, <1>8, <1>9 DEF blocks

\* A new transaction only adds to the end of a source chain.
LEMMA NewTransactionStep ==
    ASSUME RelayInv, NEW r \in Pairs, NewTransaction(r)
    PROVE  RelayInv'
<1>1. RegistryInv /\ LedgerInv /\ LastSigned /\ r \in Routes
  BY PairRoutes DEF RelayInv
<1>2. /\ open' = [open EXCEPT ![r] = TRUE]
      /\ UNCHANGED <<registryVars, mined, finalized, invalid, pool, node>>
  BY DEF NewTransaction
<1> DEFINE old == source[r]
           new == source'[r]
<1>3. /\ source' = [source EXCEPT ![r] = new]
      /\ GrownBy(old, new)
      /\ Len(new) <= MaxTxs
  BY <1>1, NewTransactionGrows
<1>4. /\ new \in Seq(Seq(Tx)) /\ new # <<>> /\ Len(new) \in {Len(old), Len(old) + 1}
      /\ \A i \in DOMAIN new : new[i] # <<>>
      /\ \A i \in DOMAIN old : i \in DOMAIN new /\ IsPrefix(old[i], new[i])
  BY <1>3 DEF GrownBy
<1>5. source' \in [Routes -> Seq(Seq(Tx))] /\ \A q \in Routes \ {r} : source'[q] = source[q]
  <2>1. source \in [Routes -> Seq(Seq(Tx))]
    BY <1>1 DEF LedgerInv
  <2> HIDE DEF new
  <2> QED
    BY <1>3, <1>4, <2>1
<1>6. Len(old) \in Nat /\ Len(mined[r]) \in Nat /\ Len(old) <= Len(new) /\ Len(new) \in Nat
  BY <1>1, <1>4, SMTT(30) DEF LedgerInv
<1>7. RegistryInv'
  BY <1>1, <1>2 DEF RegistryInv, RegistryTypeOK, SignersWereRegistered, registryVars
<1>8. LedgerInv'
  <2>1. open' \in [Routes -> BOOLEAN] /\ \A q \in Routes \ {r} : open'[q] = open[q]
    BY <1>1, <1>2 DEF LedgerInv
  <2>2. /\ mined' \in [Routes -> Seq(Seq(Tx))]
        /\ finalized' \in [Routes -> Nat]
        /\ invalid' \in [Routes -> SUBSET (1 .. MaxTxs)]
    BY <1>1, <1>2 DEF LedgerInv
  <2>3. ASSUME NEW q \in Routes
        PROVE  /\ \A i \in DOMAIN source'[q] : source'[q][i] # <<>>
               /\ open'[q] => source'[q] # <<>>
               /\ Len(source'[q]) <= MaxTxs
               /\ Len(mined'[q]) <= Len(source'[q])
    <3>1. CASE q = r
      <4>1. Len(mined[r]) <= Len(old)
        BY <1>1 DEF LedgerInv
      <4>2. Len(mined[r]) <= Len(new)
        BY <1>6, <4>1, SMTT(30)
      <4> QED
        BY <1>2, <1>3, <1>4, <3>1, <4>2
    <3>2. CASE q # r
      <4>1. source'[q] = source[q] /\ open'[q] = open[q] /\ mined'[q] = mined[q]
        BY <1>2, <1>5, <2>1, <3>2
      <4>2. /\ \A i \in DOMAIN source[q] : source[q][i] # <<>>
            /\ open[q] => source[q] # <<>>
            /\ Len(source[q]) <= MaxTxs /\ Len(mined[q]) <= Len(source[q])
        BY <1>1 DEF LedgerInv
      <4> QED
        BY <4>1, <4>2
    <3> QED
      BY <3>1, <3>2
  <2> QED
    BY <1>5, <2>1, <2>2, <2>3 DEF LedgerInv
<1>9. Grows
  <2>1. ASSUME NEW q \in Routes, NEW i \in DOMAIN source[q]
        PROVE  i \in DOMAIN source'[q] /\ IsPrefix(source[q][i], source'[q][i])
    <3>1. CASE q = r
      BY <1>4, <3>1
    <3>2. CASE q # r
      <4>1. source[q] \in Seq(Seq(Tx))
        BY <1>1 DEF LedgerInv
      <4>2. source[q][i] \in Seq(Tx)
        BY <4>1, Blocks
      <4> QED
        BY <1>5, <3>2, <4>2, PrefixReflexive
    <3> QED
      BY <3>1, <3>2
  <2>2. ASSUME NEW q \in Routes
        PROVE  Len(source[q]) <= Len(source'[q]) /\ Len(mined[q]) <= Len(mined'[q])
    <3>1. Len(source[q]) \in Nat /\ Len(mined[q]) \in Nat /\ mined'[q] = mined[q]
      BY <1>1, <1>2, SMTT(30) DEF LedgerInv
    <3>2. source'[q] = source[q] \/ q = r
      BY <1>5
    <3> QED
      BY <1>6, <3>1, <3>2, SMTT(30)
  <2> QED
    BY <1>2, <2>1, <2>2 DEF Grows, registryVars
<1>10. NodeInv' /\ PoolInv'
  BY <1>2, <1>7, <1>8, <1>9, OthersStay
<1>11. LastSigned'
  BY <1>1, <1>2, <1>9, LastSignedStays DEF LedgerInv
<1> QED
  BY <1>7, <1>8, <1>10, <1>11 DEF RelayInv

\* Closing a block keeps the invariant.
LEMMA CloseBlockStep ==
    ASSUME RelayInv, NEW r \in Pairs, CloseBlock(r)
    PROVE  RelayInv'
<1>1. RegistryInv /\ LedgerInv /\ LastSigned /\ r \in Routes
  BY PairRoutes DEF RelayInv
<1>2. /\ open' = [open EXCEPT ![r] = FALSE]
      /\ UNCHANGED <<registryVars, source, mined, finalized, invalid, pool, node>>
  BY DEF CloseBlock
<1>3. RegistryInv'
  BY <1>1, <1>2 DEF RegistryInv, RegistryTypeOK, SignersWereRegistered, registryVars
<1>4. LedgerInv'
  <2>1. open' \in [Routes -> BOOLEAN] /\ \A q \in Routes : open'[q] => open[q]
    BY <1>1, <1>2 DEF LedgerInv
  <2> QED
    BY <1>1, <1>2, <2>1 DEF LedgerInv
<1>5. Grows
  BY <1>1, <1>2, LedgerKept DEF Grows, registryVars
<1>6. NodeInv' /\ PoolInv'
  BY <1>2, <1>3, <1>4, <1>5, OthersStay
<1>7. LastSigned'
  BY <1>1, <1>2, <1>5, LastSignedStays DEF LedgerInv
<1> QED
  BY <1>3, <1>4, <1>6, <1>7 DEF RelayInv

\* The next block is mined: there is one on the source chain.
LEMMA ExecuteMineStep ==
    ASSUME RelayInv, NEW m \in pool, ExecuteMine(m)
    PROVE  RelayInv'
<1>1. RegistryInv /\ LedgerInv /\ LastSigned /\ PoolInv
  BY DEF RelayInv
<1>2. m \in MineMessage /\ MineInOrder(m)
  BY <1>1 DEF PoolInv, ExecuteMine, FinalizeMessage
<1>3. PICK r \in Routes, k \in Nat, t \in Seq(Tx) :
        r = m.route /\ k = m.nonce /\ t = m.txs
  BY <1>2, PairRoutes DEF MineMessage
<1>4. /\ mined' = [mined EXCEPT ![r] =
            IF k = Len(mined[r]) + 1 THEN Append(mined[r], t) ELSE mined[r]]
      /\ pool' \subseteq pool
      /\ UNCHANGED <<registryVars, source, open, finalized, invalid, node>>
  BY <1>3 DEF ExecuteMine
<1>5. k \in DOMAIN source[r]
  BY <1>2, <1>3 DEF MineInOrder
<1> DEFINE old == mined[r]
           new == IF k = Len(mined[r]) + 1 THEN Append(mined[r], t) ELSE mined[r]
<1>6. /\ source[r] \in Seq(Seq(Tx)) /\ old \in Seq(Seq(Tx)) /\ Len(old) <= Len(source[r])
      /\ mined \in [Routes -> Seq(Seq(Tx))]
  BY <1>1 DEF LedgerInv
<1>7. new \in Seq(Seq(Tx)) /\ Len(old) <= Len(new) /\ Len(new) <= Len(source[r])
  <2>1. CASE k = Len(old) + 1
    BY <1>5, <1>6, <2>1, SMTT(30)
  <2>2. CASE k # Len(old) + 1
    BY <1>6, <2>2, SMTT(30)
  <2> QED
    BY <2>1, <2>2
<1> HIDE DEF new
<1>8. /\ mined' \in [Routes -> Seq(Seq(Tx))] /\ mined'[r] = new
      /\ \A q \in Routes \ {r} : mined'[q] = mined[q]
  <2>1. mined' = [mined EXCEPT ![r] = new]
    BY <1>4 DEF new
  <2> QED
    BY <1>6, <1>7, <2>1
<1>9. RegistryInv'
  BY <1>1, <1>4 DEF RegistryInv, RegistryTypeOK, SignersWereRegistered, registryVars
<1>10. LedgerInv'
  <2>1. ASSUME NEW q \in Routes PROVE Len(mined'[q]) <= Len(source[q])
    <3>1. Len(mined[q]) <= Len(source[q])
      BY <1>1 DEF LedgerInv
    <3> QED
      BY <1>7, <1>8, <3>1
  <2> QED
    BY <1>1, <1>4, <1>8, <2>1 DEF LedgerInv
<1>11. Grows
  <2>1. ASSUME NEW q \in Routes PROVE Len(mined[q]) <= Len(mined'[q])
    <3>1. Len(mined[q]) \in Nat
      BY <1>6, SMTT(30)
    <3> QED
      BY <1>7, <1>8, <3>1, SMTT(30)
  <2>2. ASSUME NEW q \in Routes, NEW i \in DOMAIN source[q]
        PROVE  IsPrefix(source[q][i], source[q][i])
    <3>1. source[q] \in Seq(Seq(Tx))
      BY <1>1 DEF LedgerInv
    <3>2. source[q][i] \in Seq(Tx)
      BY <3>1, Blocks
    <3> QED
      BY <3>2, PrefixReflexive
  <2>3. \A q \in Routes : Len(source[q]) <= Len(source[q])
    BY <1>1, SMTT(30) DEF LedgerInv
  <2> QED
    BY <1>4, <2>1, <2>2, <2>3 DEF Grows, registryVars
<1>12. NodeInv' /\ PoolInv'
  BY <1>4, <1>9, <1>10, <1>11, OthersStay
<1>13. LastSigned'
  BY <1>1, <1>4, <1>11, LastSignedStays DEF LedgerInv
<1> QED
  BY <1>9, <1>10, <1>12, <1>13 DEF RelayInv

\* A block is finalized: its number is one that somebody signed.
LEMMA ExecuteFinalizeStep ==
    ASSUME RelayInv, NEW m \in pool, ExecuteFinalize(m)
    PROVE  RelayInv'
<1>1. RegistryInv /\ LedgerInv /\ LastSigned /\ PoolInv
  BY DEF RelayInv
<1>2. m \in FinalizeMessage /\ FinalizeSigned(m)
  BY <1>1 DEF PoolInv, ExecuteFinalize, MineMessage
<1>3. PICK r \in Pairs, k \in Nat : r = m.route /\ k = m.nonce
  BY <1>2 DEF FinalizeMessage
<1>4. r \in Routes
  BY PairRoutes
<1> DEFINE accepted == /\ m.nonce \in finalized[m.route] + 1 .. Len(mined[m.route])
                       /\ m.signature = m.route[2]
<1>5. /\ finalized' = [finalized EXCEPT ![r] = IF accepted THEN k ELSE finalized[r]]
      /\ invalid' = [invalid EXCEPT ![r] =
                       IF accepted THEN invalid[r] \cup m.invalid ELSE invalid[r]]
      /\ pool' \subseteq pool
      /\ UNCHANGED <<registryVars, source, open, mined, node>>
  BY <1>3 DEF ExecuteFinalize
<1> HIDE DEF accepted
<1>6. /\ k \in DOMAIN mined[r] /\ m.invalid \subseteq {k}
      /\ SignedBy(r[1], k) # {}
  BY <1>2, <1>3 DEF FinalizeSigned
<1>7. k \in 1 .. MaxTxs
  <2>1. /\ mined[r] \in Seq(Seq(Tx)) /\ Len(mined[r]) <= Len(source[r])
        /\ Len(source[r]) <= MaxTxs /\ Len(source[r]) \in Nat
    BY <1>1, <1>4, SMTT(30) DEF LedgerInv
  <2> QED
    BY <1>6, <2>1, RelayAssumption, SMTT(30)
<1>8. RegistryInv'
  BY <1>1, <1>5 DEF RegistryInv, RegistryTypeOK, SignersWereRegistered, registryVars
<1>9. LedgerInv'
  <2>1. finalized' \in [Routes -> Nat]
    BY <1>1, <1>4, <1>5 DEF LedgerInv
  <2>2. invalid' \in [Routes -> SUBSET (1 .. MaxTxs)]
    <3>1. invalid[r] \cup m.invalid \in SUBSET (1 .. MaxTxs)
      BY <1>1, <1>4, <1>6, <1>7 DEF LedgerInv
    <3>2. invalid \in [Routes -> SUBSET (1 .. MaxTxs)]
      BY <1>1 DEF LedgerInv
    <3> QED
      BY <1>4, <1>5, <3>1, <3>2
  <2> QED
    BY <1>1, <1>5, <2>1, <2>2 DEF LedgerInv
<1>10. Grows
  BY <1>1, <1>5, LedgerKept DEF Grows, registryVars
<1>11. NodeInv' /\ PoolInv'
  BY <1>5, <1>8, <1>9, <1>10, OthersStay
<1>12. LastSigned'
  <2>1. UNCHANGED <<signatures, ever>>
    BY <1>5 DEF registryVars
  <2>2. ASSUME NEW q \in Pairs, finalized'[q] > 0
        PROVE  finalized'[q] <= MaxTxs /\ SignedBy(q[1], finalized'[q]) # {}
    <3>1. CASE q = r /\ accepted
      <4>1. finalized'[q] = k
        BY <1>1, <1>4, <1>5, <3>1 DEF LedgerInv
      <4> QED
        BY <1>6, <1>7, <3>1, <4>1, RelayAssumption, SMTT(30)
    <3>2. CASE ~(q = r /\ accepted)
      <4>1. finalized'[q] = finalized[q]
        BY <1>1, <1>4, <1>5, <3>2, PairRoutes DEF LedgerInv
      <4> QED
        BY <1>1, <2>2, <4>1 DEF LastSigned
    <3> QED
      BY <3>1, <3>2
  <2> QED
    BY <2>1, <2>2 DEF LastSigned, SignedBy
<1> QED
  BY <1>8, <1>9, <1>11, <1>12 DEF RelayInv

\* A dropped message keeps the invariant.
LEMMA DropMessageStep ==
    ASSUME RelayInv, NEW m \in pool, DropMessage(m)
    PROVE  RelayInv'
<1>1. RegistryInv /\ LedgerInv /\ LastSigned
  BY DEF RelayInv
<1>2. pool' \subseteq pool /\ UNCHANGED <<registryVars, ledgerVars, node>>
  BY DEF DropMessage
<1>3. RegistryInv'
  BY <1>1, <1>2 DEF RegistryInv, RegistryTypeOK, SignersWereRegistered, registryVars
<1>4. LedgerInv'
  BY <1>1, <1>2 DEF LedgerInv, ledgerVars
<1>5. Grows
  BY <1>1, <1>2, LedgerKept DEF Grows, registryVars, ledgerVars
<1>6. NodeInv' /\ PoolInv'
  BY <1>2, <1>3, <1>4, <1>5, OthersStay
<1>7. LastSigned'
  BY <1>1, <1>2, <1>5, LastSignedStays DEF LedgerInv, ledgerVars
<1> QED
  BY <1>3, <1>4, <1>6, <1>7 DEF RelayInv

-----------------------------------------------------------------------------
(***************************************************************************)
(* The nodes keep the invariant.                                           *)
(***************************************************************************)

\* A step of node n leaves chains, registry and other nodes alone.
LEMMA NodeStep ==
    ASSUME RelayInv, UNCHANGED <<registryVars, ledgerVars>>, NEW n \in Nodes,
           node' \in [Nodes -> NodeRecord], \A k \in Nodes \ {n} : node'[k] = node[k],
           node'[n].pc = "idle" <=> node'[n].route = <<>>,
           n \in Miners => MinerInv(n)', n \in Finalizers => FinalizerInv(n)',
           UNCHANGED pool \/ PoolInv'
    PROVE  RelayInv'
<1>1. RegistryInv /\ LedgerInv /\ NodeInv /\ PoolInv /\ LastSigned
  BY DEF RelayInv
<1>2. RegistryInv'
  BY <1>1 DEF RegistryInv, RegistryTypeOK, SignersWereRegistered, registryVars
<1>3. LedgerInv'
  BY <1>1 DEF LedgerInv, ledgerVars
<1>4. ASSUME NEW k \in Miners PROVE MinerInv(k)'
  BY <1>1 DEF NodeInv, MinerInv, Nodes, ledgerVars
<1>5. ASSUME NEW k \in Finalizers PROVE FinalizerInv(k)'
  BY <1>1 DEF NodeInv, FinalizerInv, Nodes, ledgerVars, registryVars
<1>6. NodeInv'
  BY <1>1, <1>4, <1>5 DEF NodeInv
<1>7. PoolInv'
  BY <1>1 DEF PoolInv, MineInOrder, FinalizeSigned, SignedBy, ledgerVars,
                     registryVars
<1>8. LastSigned'
  BY <1>1 DEF LastSigned, SignedBy, ledgerVars, registryVars
<1> QED
  BY <1>2, <1>3, <1>6, <1>7, <1>8 DEF RelayInv

\* mine or finalize returns.
LEMMA ReturnStep ==
    ASSUME RelayInv, UNCHANGED <<registryVars, ledgerVars>>, NEW n \in Nodes,
           Return(n), UNCHANGED pool \/ PoolInv'
    PROVE  RelayInv'
<1>1. NoSnapshot \in Snapshot
  BY SMTT(30) DEF NoSnapshot, Snapshot
<1>2. 0 \in 0 .. MaxTxs /\ <<>> \in Seq(Tx)
  BY RelayAssumption, SMTT(30)
<1>3. Idle \in NodeRecord /\ Idle.pc = "idle" /\ Idle.route = <<>>
  BY <1>1, <1>2 DEF Idle, NodeRecord
<1>4. /\ node' \in [Nodes -> NodeRecord] /\ \A k \in Nodes \ {n} : node'[k] = node[k]
      /\ node'[n] = Idle
  BY <1>3 DEF RelayInv, NodeInv, Return
<1>5. MinerInv(n)'
  BY <1>3, <1>4 DEF MinerInv, MineCarries
<1>6. FinalizerInv(n)'
  BY <1>3, <1>4 DEF FinalizerInv, FinalizeCarries
<1> QED
  BY <1>3, <1>4, <1>5, <1>6, NodeStep

\* The type of a node, and where it is.
LEMMA NodeType ==
    ASSUME RelayInv, NEW n \in Nodes
    PROVE  /\ node \in [Nodes -> NodeRecord] /\ node[n] \in NodeRecord
           /\ node[n].pc # "idle" => node[n].route \in Pairs /\ node[n].route # <<>>
           /\ n \in Miners => MinerInv(n)
           /\ n \in Finalizers => FinalizerInv(n)
BY DEF RelayInv, NodeInv, NodeRecord

\* A miner starts a round knowing nothing.
LEMMA StartMineStep ==
    ASSUME RelayInv, NEW n \in Nodes, NEW r \in Pairs, StartMine(n, r)
    PROVE  RelayInv'
<1>1. /\ n \in Miners /\ UNCHANGED <<registryVars, ledgerVars, pool>>
      /\ node' = [node EXCEPT ![n].pc = "isLocalBlockReady", ![n].route = r]
  BY DEF StartMine
<1>2. /\ node' \in [Nodes -> NodeRecord] /\ \A k \in Nodes \ {n} : node'[k] = node[k]
      /\ node'[n].pc = "isLocalBlockReady" /\ node'[n].route = r
  <2>1. node \in [Nodes -> NodeRecord] /\ node[n] \in NodeRecord
    BY NodeType
  <2>2. [node[n] EXCEPT !.pc = "isLocalBlockReady", !.route = r] \in NodeRecord
    BY <2>1 DEF NodeRecord, MinePlaces
  <2> QED
    BY <1>1, <2>1, <2>2, SMTT(30) DEF NodeRecord
<1>3. MinerInv(n)'
  BY <1>2 DEF MinerInv, MinePlaces, MineCarries
<1>4. n \notin Finalizers /\ r # <<>>
  BY <1>1, RelayAssumption, PairRoutes
<1> QED
  BY <1>1, <1>2, <1>3, <1>4, NodeStep

\* A finalizer starts a round with the signatures of the block it runs at.
LEMMA StartFinalizeStep ==
    ASSUME RelayInv, NEW n \in Nodes, NEW r \in Pairs, StartFinalize(n, r)
    PROVE  RelayInv'
<1> DEFINE seen == [signatures |-> signatures[r[1]], threshold |-> threshold[r[1]]]
<1>1. /\ n \in Finalizers /\ UNCHANGED <<registryVars, ledgerVars, pool>>
      /\ node' = [node EXCEPT ![n].pc = "lastRemoteMinedBlock", ![n].route = r,
                              ![n].at = seen]
  BY DEF StartFinalize
<1>2. seen \in Snapshot /\ seen.signatures = signatures[r[1]]
  BY PairRoutes DEF RelayInv, RegistryInv, RegistryTypeOK, Snapshot
<1> HIDE DEF seen
<1>3. /\ node' \in [Nodes -> NodeRecord] /\ \A k \in Nodes \ {n} : node'[k] = node[k]
      /\ node'[n].pc = "lastRemoteMinedBlock" /\ node'[n].route = r /\ node'[n].at = seen
  <2>1. node'[n] = [node[n] EXCEPT !.pc = "lastRemoteMinedBlock", !.route = r, !.at = seen]
    BY <1>1, NodeType
  <2>2. node'[n] \in NodeRecord
    BY <1>2, <2>1, NodeType DEF NodeRecord, MinePlaces
  <2>3. node'[n].pc = "lastRemoteMinedBlock" /\ node'[n].route = r /\ node'[n].at = seen
    BY <2>1, NodeType DEF NodeRecord
  <2> QED
    BY <1>1, <2>2, <2>3, NodeType
<1>4. FinalizerInv(n)'
  BY <1>1, <1>2, <1>3
  DEF FinalizerInv, FinalizePlaces, FinalizeCarries, registryVars
<1>5. n \notin Miners /\ r # <<>>
  BY <1>1, RelayAssumption, PairRoutes
<1> QED
  BY <1>1, <1>3, <1>4, <1>5, NodeStep

\* Only miners run mine and only finalizers run finalize.
LEMMA WhoseStep ==
    ASSUME RelayInv, NEW n \in Nodes
    PROVE  /\ n \in Miners <=> n \notin Finalizers
           /\ node[n].pc \in {"isLocalBlockReady", "lastLocalBlock", "send"} => n \in Miners
           /\ node[n].pc \in {"lastFinalizedBlock", "sign", "post"} => n \in Finalizers
<1>1. n \in Miners <=> n \notin Finalizers
  BY RelayAssumption DEF Nodes
<1>2. n \in Finalizers => node[n].pc \in {"idle"} \cup FinalizePlaces
  BY NodeType DEF FinalizerInv
<1>3. n \in Miners => node[n].pc \in {"idle"} \cup MinePlaces
  BY NodeType DEF MinerInv
<1> QED
  BY <1>1, <1>2, <1>3 DEF FinalizePlaces, FinalizeCarries, MinePlaces, MineCarries

\* What a node knows of the lengths of its route's ledgers.
LEMMA RouteLengths ==
    ASSUME RelayInv, NEW n \in Nodes, node[n].pc # "idle", NEW r, r = node[n].route
    PROVE  /\ r \in Pairs /\ r \in Routes /\ r # <<>>
           /\ source[r] \in Seq(Seq(Tx)) /\ mined[r] \in Seq(Seq(Tx))
           /\ Len(source[r]) \in Nat /\ Len(mined[r]) \in Nat
           /\ Len(mined[r]) <= Len(source[r]) /\ Len(source[r]) <= MaxTxs
           /\ Len(source[r]) \in 0 .. MaxTxs /\ Len(mined[r]) \in 0 .. MaxTxs
<1>1. r \in Pairs
  BY NodeType
<1>2. r \in Routes /\ r # <<>>
  BY <1>1, PairRoutes
<1>3. /\ source[r] \in Seq(Seq(Tx)) /\ mined[r] \in Seq(Seq(Tx))
      /\ Len(mined[r]) <= Len(source[r]) /\ Len(source[r]) <= MaxTxs
  BY <1>2 DEF RelayInv, LedgerInv
<1>4. Len(source[r]) \in Nat /\ Len(mined[r]) \in Nat
  BY <1>3, SMTT(30)
<1>5. Len(source[r]) \in 0 .. MaxTxs /\ Len(mined[r]) \in 0 .. MaxTxs
  BY <1>3, <1>4, RelayAssumption, SMTT(30)
<1> QED
  BY <1>1, <1>2, <1>3, <1>4, <1>5

\* A node goes on with nothing new.
LEMMA GotoType ==
    ASSUME RelayInv, NEW n \in Nodes, NEW p \in MinePlaces \cup FinalizePlaces,
           node[n].pc # "idle", Goto(n, p)
    PROVE  /\ node' \in [Nodes -> NodeRecord] /\ \A k \in Nodes \ {n} : node'[k] = node[k]
           /\ node'[n].pc = p /\ p # "idle"
           /\ node'[n].route = node[n].route /\ node'[n].route # <<>>
           /\ node'[n].last = node[n].last /\ node'[n].done = node[n].done
           /\ node'[n].txs = node[n].txs /\ node'[n].at = node[n].at
<1>1. node' = [node EXCEPT ![n].pc = p]
  BY DEF Goto
<1>2. node'[n] = [node[n] EXCEPT !.pc = p]
  BY <1>1, NodeType
<1>3. node'[n] \in NodeRecord
  BY <1>2, NodeType DEF NodeRecord
<1>4. /\ node'[n].pc = p /\ node'[n].route = node[n].route
      /\ node'[n].last = node[n].last /\ node'[n].done = node[n].done
      /\ node'[n].txs = node[n].txs /\ node'[n].at = node[n].at
  BY <1>2, NodeType DEF NodeRecord
<1>5. node[n].route # <<>>
  BY NodeType
<1>6. p # "idle"
  BY DEF MinePlaces, MineCarries, FinalizePlaces, FinalizeCarries
<1> QED
  BY <1>1, <1>3, <1>4, <1>5, <1>6, NodeType

\* mine asks whether a block is ready.
LEMMA IsLocalBlockReadyStep ==
    ASSUME RelayInv, NEW n \in Nodes, IsLocalBlockReady(n)
    PROVE  RelayInv'
<1>1. /\ node[n].pc = "isLocalBlockReady" /\ UNCHANGED <<registryVars, ledgerVars, pool>>
      /\ Goto(n, "lastLocalBlock") \/ Return(n)
  BY DEF IsLocalBlockReady, At
<1>2. CASE Return(n)
  BY <1>1, <1>2, ReturnStep
<1>3. CASE Goto(n, "lastLocalBlock")
  <2>1. "lastLocalBlock" \in MinePlaces \cup FinalizePlaces
    BY DEF MinePlaces
  <2>2. /\ node' \in [Nodes -> NodeRecord] /\ \A k \in Nodes \ {n} : node'[k] = node[k]
        /\ node'[n].pc = "lastLocalBlock" /\ node'[n].route # <<>>
    BY <1>1, <1>3, <2>1, GotoType
  <2>3. n \in Miners /\ n \notin Finalizers
    BY <1>1, WhoseStep
  <2>4. MinerInv(n)'
    BY <2>2 DEF MinerInv, MinePlaces, MineCarries
  <2> QED
    BY <1>1, <2>2, <2>3, <2>4, NodeStep
<1> QED
  BY <1>1, <1>2, <1>3

\* mine reads the newest source block.
LEMMA LastLocalBlockStep ==
    ASSUME RelayInv, NEW n \in Nodes, LastLocalBlock(n)
    PROVE  RelayInv'
<1> DEFINE r == node[n].route
<1>1. /\ node[n].pc = "lastLocalBlock" /\ UNCHANGED <<registryVars, ledgerVars, pool>>
      /\ node' = [node EXCEPT ![n].pc = "lastRemoteMinedBlock", ![n].last = Len(source[r])]
  BY DEF LastLocalBlock, At
<1>2. Len(source[r]) \in 0 .. MaxTxs /\ Len(source[r]) \in Nat /\ r # <<>>
  BY <1>1, RouteLengths
<1>3. /\ node' \in [Nodes -> NodeRecord] /\ \A k \in Nodes \ {n} : node'[k] = node[k]
      /\ node'[n].pc = "lastRemoteMinedBlock" /\ node'[n].route = r
      /\ node'[n].last = Len(source[r])
  <2>1. node'[n] = [node[n] EXCEPT !.pc = "lastRemoteMinedBlock", !.last = Len(source[r])]
    BY <1>1, NodeType
  <2>2. node'[n] \in NodeRecord
    BY <1>2, <2>1, NodeType DEF NodeRecord, MinePlaces
  <2>3. /\ node'[n].pc = "lastRemoteMinedBlock" /\ node'[n].route = r
        /\ node'[n].last = Len(source[r])
    BY <2>1, NodeType DEF NodeRecord
  <2> QED
    BY <1>1, <2>2, <2>3, NodeType
<1>4. n \in Miners /\ n \notin Finalizers
  BY <1>1, WhoseStep
<1>5. MinerInv(n)'
  <2>1. Len(source[r]) <= Len(source[r])
    BY <1>2, SMTT(30)
  <2> QED
    BY <1>1, <1>3, <2>1 DEF MinerInv, MinePlaces, MineCarries, ledgerVars
<1> QED
  BY <1>1, <1>2, <1>3, <1>4, <1>5, NodeStep

\* mine reads the newest mined block, and goes on only if it is behind.
LEMMA MineLastRemoteMinedBlockStep ==
    ASSUME RelayInv, NEW n \in Nodes, MineLastRemoteMinedBlock(n)
    PROVE  RelayInv'
<1> DEFINE r == node[n].route
           d == Len(mined[r])
<1>1. /\ n \in Miners /\ node[n].pc = "lastRemoteMinedBlock"
      /\ UNCHANGED <<registryVars, ledgerVars, pool>>
      /\ \/ Return(n)
         \/ /\ ~(d >= node[n].last)
            /\ node' = [node EXCEPT ![n].pc = "minedBlock", ![n].done = d]
  BY DEF MineLastRemoteMinedBlock, At
<1>2. CASE Return(n)
  BY <1>1, <1>2, ReturnStep
<1>3. CASE ~(d >= node[n].last) /\ node' = [node EXCEPT ![n].pc = "minedBlock", ![n].done = d]
  <2>1. d \in 0 .. MaxTxs /\ d \in Nat /\ r # <<>>
    BY <1>1, RouteLengths
  <2>2. /\ node' \in [Nodes -> NodeRecord] /\ \A k \in Nodes \ {n} : node'[k] = node[k]
        /\ node'[n].pc = "minedBlock" /\ node'[n].route = r
        /\ node'[n].done = d /\ node'[n].last = node[n].last
    <3>1. node'[n] = [node[n] EXCEPT !.pc = "minedBlock", !.done = d]
      BY <1>3, NodeType
    <3>2. node'[n] \in NodeRecord
      BY <2>1, <3>1, NodeType DEF NodeRecord, MinePlaces, MineCarries
    <3>3. /\ node'[n].pc = "minedBlock" /\ node'[n].route = r
          /\ node'[n].done = d /\ node'[n].last = node[n].last
      BY <3>1, NodeType DEF NodeRecord
    <3> QED
      BY <1>3, <3>2, <3>3, NodeType
  <2>3. node[n].last <= Len(source[r])
    BY <1>1, NodeType DEF MinerInv
  <2>4. d < node[n].last /\ d <= d
    <3>1. node[n].last \in Nat
      BY NodeType, SMTT(30) DEF NodeRecord
    <3> QED
      BY <1>3, <2>1, <3>1, SMTT(30)
  <2>5. MinerInv(n)'
    BY <1>1, <2>2, <2>3, <2>4 DEF MinerInv, MinePlaces, MineCarries, ledgerVars
  <2>6. n \notin Finalizers
    BY <1>1, WhoseStep
  <2> QED
    BY <1>1, <2>1, <2>2, <2>5, <2>6, NodeStep
<1> QED
  BY <1>1, <1>2, <1>3

\* mine looks whether the newest source block is mined already.
LEMMA MineMinedBlockByNonceStep ==
    ASSUME RelayInv, NEW n \in Nodes, MineMinedBlockByNonce(n)
    PROVE  RelayInv'
<1>1. /\ n \in Miners /\ node[n].pc = "minedBlock"
      /\ UNCHANGED <<registryVars, ledgerVars, pool>>
      /\ Goto(n, "localBlock") \/ Return(n)
  BY DEF MineMinedBlockByNonce, At
<1>2. CASE Return(n)
  BY <1>1, <1>2, ReturnStep
<1>3. CASE Goto(n, "localBlock")
  <2>1. "localBlock" \in MinePlaces \cup FinalizePlaces
    BY DEF MinePlaces, MineCarries
  <2>2. /\ node' \in [Nodes -> NodeRecord] /\ \A k \in Nodes \ {n} : node'[k] = node[k]
        /\ node'[n].pc = "localBlock" /\ node'[n].route # <<>>
        /\ node'[n].route = node[n].route
        /\ node'[n].last = node[n].last /\ node'[n].done = node[n].done
    BY <1>1, <1>3, <2>1, GotoType
  <2>3. n \notin Finalizers
    BY <1>1, WhoseStep
  <2>4. MinerInv(n)
    BY <1>1, NodeType
  <2>5. MinerInv(n)'
    BY <1>1, <2>2, <2>4 DEF MinerInv, MinePlaces, MineCarries, ledgerVars
  <2> QED
    BY <1>1, <2>2, <2>3, <2>5, NodeStep
<1> QED
  BY <1>1, <1>2, <1>3

\* The block that a node reads replaces the transactions it holds.
Reads(n, p, txs) == node' = [node EXCEPT ![n].pc = p, ![n].txs = txs]

\* Which leaves the rest of the node's round as it was.
LEMMA ReadType ==
    ASSUME RelayInv, NEW n \in Nodes, NEW p \in MinePlaces \cup FinalizePlaces,
           NEW txs \in Seq(Tx), node[n].pc # "idle", Reads(n, p, txs)
    PROVE  /\ node' \in [Nodes -> NodeRecord] /\ \A k \in Nodes \ {n} : node'[k] = node[k]
           /\ node'[n].pc = p /\ p # "idle" /\ node'[n].txs = txs
           /\ node'[n].route = node[n].route /\ node'[n].route # <<>>
           /\ node'[n].last = node[n].last /\ node'[n].done = node[n].done
           /\ node'[n].at = node[n].at
<1>0. node' = [node EXCEPT ![n].pc = p, ![n].txs = txs]
  BY DEF Reads
<1>1. node'[n] = [node[n] EXCEPT !.pc = p, !.txs = txs]
  BY <1>0, NodeType
<1>2. node'[n] \in NodeRecord
  BY <1>1, NodeType DEF NodeRecord
<1>3. /\ node'[n].pc = p /\ node'[n].txs = txs /\ node'[n].route = node[n].route
      /\ node'[n].last = node[n].last /\ node'[n].done = node[n].done
      /\ node'[n].at = node[n].at
  BY <1>1, NodeType DEF NodeRecord
<1>4. node[n].route # <<>>
  BY NodeType
<1>5. p # "idle"
  BY DEF MinePlaces, MineCarries, FinalizePlaces, FinalizeCarries
<1> QED
  BY <1>0, <1>2, <1>3, <1>4, <1>5, NodeType

\* mine reads the transactions of the next block.
LEMMA MineLocalBlockByNonceStep ==
    ASSUME RelayInv, NEW n \in Nodes, MineLocalBlockByNonce(n)
    PROVE  RelayInv'
<1> DEFINE r == node[n].route
           txs == BlockAt(source[r], node[n].done + 1)
<1>1. /\ n \in Miners /\ node[n].pc = "localBlock"
      /\ UNCHANGED <<registryVars, ledgerVars, pool>>
      /\ Reads(n, "send", txs) /\ node[n].pc # "idle"
  BY DEF MineLocalBlockByNonce, At, Reads
<1>2. MinerInv(n) /\ n \notin Finalizers
  BY <1>1, NodeType, WhoseStep
<1>3. /\ node[n].done < node[n].last /\ node[n].last <= Len(source[r])
      /\ node[n].done <= Len(mined[r])
  BY <1>1, <1>2 DEF MinerInv, MineCarries
<1>4. source[r] \in Seq(Seq(Tx))
  BY <1>1, RouteLengths
<1>5. node[n].done \in Nat /\ node[n].last \in Nat
  BY NodeType, SMTT(30) DEF NodeRecord
<1>6. txs \in Seq(Tx) /\ txs = source[r][node[n].done + 1]
  <2>1. node[n].done + 1 \in DOMAIN source[r]
    BY <1>3, <1>4, <1>5, SMTT(30)
  <2> QED
    BY <1>4, <2>1, SMTT(30) DEF BlockAt
<1>7. "send" \in MinePlaces \cup FinalizePlaces
  BY DEF MinePlaces, MineCarries
<1> HIDE DEF txs
<1>8. /\ node' \in [Nodes -> NodeRecord] /\ \A k \in Nodes \ {n} : node'[k] = node[k]
      /\ node'[n].pc = "send" /\ node'[n].route # <<>> /\ node'[n].route = r
      /\ node'[n].last = node[n].last /\ node'[n].done = node[n].done
      /\ node'[n].txs = txs
  BY <1>1, <1>6, <1>7, ReadType, SMTT(30)
<1>9. IsPrefix(txs, source[r][node[n].done + 1])
  BY <1>6, PrefixReflexive
<1>10. MinerInv(n)'
  BY <1>1, <1>3, <1>8, <1>9 DEF MinerInv, MinePlaces, MineCarries, ledgerVars
<1> QED
  BY <1>1, <1>2, <1>8, <1>10, NodeStep

\* What mine sends is in order.
LEMMA CreateMineTransactionStep ==
    ASSUME RelayInv, NEW n \in Nodes, CreateMineTransaction(n)
    PROVE  RelayInv'
<1> DEFINE r == node[n].route
           m == [kind |-> "mine", from |-> n, route |-> r, nonce |-> node[n].done + 1,
                 txs |-> node[n].txs]
<1>1. /\ node[n].pc = "send" /\ pool' = pool \cup {m} /\ Return(n)
      /\ UNCHANGED <<registryVars, ledgerVars>>
  BY DEF CreateMineTransaction, At
<1>2. n \in Miners /\ MinerInv(n)
  BY <1>1, NodeType, WhoseStep
<1>3. /\ node[n].done < node[n].last /\ node[n].last <= Len(source[r])
      /\ node[n].done <= Len(mined[r])
      /\ IsPrefix(node[n].txs, source[r][node[n].done + 1])
  BY <1>1, <1>2 DEF MinerInv, MineCarries
<1>4. /\ node[n].done \in Nat /\ node[n].last \in Nat /\ node[n].txs \in Seq(Tx)
  BY NodeType, SMTT(30) DEF NodeRecord
<1>5. /\ r \in Pairs /\ source[r] \in Seq(Seq(Tx))
      /\ Len(mined[r]) \in Nat /\ Len(source[r]) \in Nat
  BY <1>1, RouteLengths
<1>6. node[n].done + 1 \in 1 .. Len(mined[r]) + 1
  <2>1. /\ node[n].done <= Len(mined[r]) /\ node[n].done \in Nat
        /\ Len(mined[r]) \in Nat
    BY <1>3, <1>4, <1>5
  <2> QED
    BY <2>1, SMTT(30)
<1>7. node[n].done + 1 \in DOMAIN source[r]
  BY <1>3, <1>4, <1>5, SMTT(30)
<1>8. m \in MineMessage /\ m.kind = "mine"
  BY <1>2, <1>4, <1>5, SMTT(30) DEF MineMessage
<1>9. m.route = r /\ m.nonce = node[n].done + 1 /\ m.txs = node[n].txs
  OBVIOUS
<1> HIDE DEF m
<1>10. MineInOrder(m)
  BY <1>3, <1>6, <1>7, <1>9 DEF MineInOrder
<1>11. PoolInv
  BY DEF RelayInv
<1>12. UNCHANGED <<mined, source, signatures, ever>>
  BY <1>1 DEF ledgerVars, registryVars
<1>13. PoolInv'
  <2>1. pool' \subseteq MineMessage \cup FinalizeMessage
    BY <1>1, <1>8, <1>11 DEF PoolInv
  <2>2. ASSUME NEW k \in pool', k.kind = "mine" PROVE MineInOrder(k)'
    BY <1>1, <1>10, <1>11, <1>12, <2>2 DEF PoolInv, MineInOrder
  <2>3. ASSUME NEW k \in pool', k.kind = "finalize" PROVE FinalizeSigned(k)'
    <3>1. k \in pool
      BY <1>1, <1>8, <2>3
    <3> QED
      BY <1>11, <1>12, <2>3, <3>1 DEF PoolInv, FinalizeSigned, SignedBy
  <2> QED
    BY <2>1, <2>2, <2>3 DEF PoolInv
<1> QED
  BY <1>1, <1>13, ReturnStep

\* finalize reads the newest mined block.
LEMMA FinalizeLastRemoteMinedBlockStep ==
    ASSUME RelayInv, NEW n \in Nodes, FinalizeLastRemoteMinedBlock(n)
    PROVE  RelayInv'
<1> DEFINE r == node[n].route
           d == Len(mined[r])
<1>1. /\ n \in Finalizers /\ node[n].pc = "lastRemoteMinedBlock"
      /\ UNCHANGED <<registryVars, ledgerVars, pool>>
      /\ node' = [node EXCEPT ![n].pc = "lastFinalizedBlock", ![n].last = d]
  BY DEF FinalizeLastRemoteMinedBlock, At
<1>2. d \in 0 .. MaxTxs /\ d \in Nat /\ r # <<>>
  BY <1>1, RouteLengths
<1>3. /\ node' \in [Nodes -> NodeRecord] /\ \A k \in Nodes \ {n} : node'[k] = node[k]
      /\ node'[n].pc = "lastFinalizedBlock" /\ node'[n].route = r
      /\ node'[n].last = d /\ node'[n].at = node[n].at
  <2>1. node'[n] = [node[n] EXCEPT !.pc = "lastFinalizedBlock", !.last = d]
    BY <1>1, NodeType
  <2>2. node'[n] \in NodeRecord
    BY <1>2, <2>1, NodeType DEF NodeRecord, FinalizePlaces
  <2>3. /\ node'[n].pc = "lastFinalizedBlock" /\ node'[n].route = r
        /\ node'[n].last = d /\ node'[n].at = node[n].at
    BY <2>1, NodeType DEF NodeRecord
  <2> QED
    BY <1>1, <2>2, <2>3, NodeType
<1>4. n \notin Miners /\ FinalizerInv(n)
  BY <1>1, WhoseStep, NodeType
<1>5. "lastFinalizedBlock" \notin FinalizeCarries \cup {"idle", "post"} /\ d <= d
  BY <1>2, SMTT(30) DEF FinalizeCarries
<1>6. FinalizerInv(n)'
  BY <1>1, <1>3, <1>4, <1>5
     DEF FinalizerInv, FinalizePlaces, ledgerVars, registryVars
<1> QED
  BY <1>1, <1>2, <1>3, <1>4, <1>6, NodeStep

\* finalize goes on only with a block that is not finalized yet.
LEMMA LastFinalizedBlockStep ==
    ASSUME RelayInv, NEW n \in Nodes, LastFinalizedBlock(n)
    PROVE  RelayInv'
<1> DEFINE r == node[n].route
<1>1. /\ node[n].pc = "lastFinalizedBlock" /\ UNCHANGED <<registryVars, ledgerVars, pool>>
      /\ \/ Return(n)
         \/ node[n].last > finalized[r] /\ Goto(n, "minedBlock")
  BY DEF LastFinalizedBlock, At
<1>2. CASE Return(n)
  BY <1>1, <1>2, ReturnStep
<1>3. CASE node[n].last > finalized[r] /\ Goto(n, "minedBlock")
  <2>1. "minedBlock" \in MinePlaces \cup FinalizePlaces
    BY DEF MinePlaces, MineCarries
  <2>2. /\ node' \in [Nodes -> NodeRecord] /\ \A k \in Nodes \ {n} : node'[k] = node[k]
        /\ node'[n].pc = "minedBlock" /\ node'[n].route # <<>> /\ node'[n].route = r
        /\ node'[n].last = node[n].last /\ node'[n].at = node[n].at
    BY <1>1, <1>3, <2>1, GotoType
  <2>3. n \in Finalizers /\ n \notin Miners /\ FinalizerInv(n)
    BY <1>1, WhoseStep, NodeType
  <2>4. node[n].last > 0
    <3>1. node[n].last \in Nat
      BY NodeType, SMTT(30) DEF NodeRecord
    <3>2. finalized[r] \in Nat
      BY <1>1, RouteLengths DEF RelayInv, LedgerInv
    <3> QED
      BY <1>3, <3>1, <3>2, SMTT(30)
  <2>5. FinalizerInv(n)'
    BY <1>1, <2>2, <2>3, <2>4
       DEF FinalizerInv, FinalizePlaces, FinalizeCarries, ledgerVars, registryVars
  <2> QED
    BY <1>1, <2>2, <2>3, <2>5, NodeStep
<1> QED
  BY <1>1, <1>2, <1>3

\* finalize reads the mined block.
LEMMA FinalizeMinedBlockByNonceStep ==
    ASSUME RelayInv, NEW n \in Nodes, FinalizeMinedBlockByNonce(n)
    PROVE  RelayInv'
<1> DEFINE r == node[n].route
           txs == BlockAt(mined[r], node[n].last)
<1>1. /\ n \in Finalizers /\ node[n].pc = "minedBlock"
      /\ UNCHANGED <<registryVars, ledgerVars, pool>>
      /\ Reads(n, "localBlock", txs) /\ node[n].pc # "idle"
  BY DEF FinalizeMinedBlockByNonce, At, Reads
<1>2. txs \in Seq(Tx)
  <2>1. mined[r] \in Seq(Seq(Tx))
    BY <1>1, RouteLengths
  <2> QED
    BY <2>1, SMTT(30) DEF BlockAt
<1>3. "localBlock" \in MinePlaces \cup FinalizePlaces
  BY DEF MinePlaces, MineCarries
<1> HIDE DEF txs
<1>4. /\ node' \in [Nodes -> NodeRecord] /\ \A k \in Nodes \ {n} : node'[k] = node[k]
      /\ node'[n].pc = "localBlock" /\ node'[n].route # <<>> /\ node'[n].route = r
      /\ node'[n].last = node[n].last /\ node'[n].at = node[n].at
  BY <1>1, <1>2, <1>3, ReadType
<1>5. n \notin Miners /\ FinalizerInv(n)
  BY <1>1, WhoseStep, NodeType
<1>6. FinalizerInv(n)'
  BY <1>1, <1>4, <1>5
     DEF FinalizerInv, FinalizePlaces, FinalizeCarries, ledgerVars, registryVars
<1> QED
  BY <1>1, <1>4, <1>5, <1>6, NodeStep

\* finalize compares, and goes on to post only with more than enough signatures.
LEMMA FinalizeLocalBlockByNonceStep ==
    ASSUME RelayInv, NEW n \in Nodes, FinalizeLocalBlockByNonce(n)
    PROVE  RelayInv'
<1> DEFINE r == node[n].route
           sigs == node[n].at.signatures[node[n].last]
           valid == CompareAndVerify(BlockAt(source[WayBack(r)], node[n].last), node[n].txs)
           p == IF Len(sigs) > node[n].at.threshold THEN "post" ELSE "sign"
<1>1. /\ n \in Finalizers /\ node[n].pc = "localBlock"
      /\ UNCHANGED <<registryVars, ledgerVars, pool>>
      /\ node' = [node EXCEPT ![n].valid = valid, ![n].pc = p]
  BY DEF FinalizeLocalBlockByNonce, MultiSigs, At
<1>2. n \notin Miners /\ FinalizerInv(n) /\ r # <<>>
  BY <1>1, WhoseStep, NodeType
<1>3. node[n].at \in Snapshot
  BY NodeType DEF NodeRecord
<1>4. p = "post" => sigs # <<>>
  BY <1>3, SMTT(30) DEF Snapshot
<1>5. p \in {"post", "sign"} /\ valid \in BOOLEAN
  BY DEF CompareAndVerify
<1> HIDE DEF valid, p
<1>6. /\ node' \in [Nodes -> NodeRecord] /\ \A k \in Nodes \ {n} : node'[k] = node[k]
      /\ node'[n].pc = p /\ node'[n].route = r
      /\ node'[n].last = node[n].last /\ node'[n].at = node[n].at
  <2>1. node'[n] = [node[n] EXCEPT !.valid = valid, !.pc = p]
    BY <1>1, NodeType
  <2>2. p \in {"idle"} \cup MinePlaces \cup FinalizePlaces
    BY <1>5 DEF FinalizePlaces, FinalizeCarries
  <2>3. node'[n] \in NodeRecord
    BY <1>5, <2>1, <2>2, NodeType DEF NodeRecord
  <2>4. /\ node'[n].pc = p /\ node'[n].route = r
        /\ node'[n].last = node[n].last /\ node'[n].at = node[n].at
    BY <2>1, NodeType DEF NodeRecord
  <2> QED
    BY <1>1, <2>3, <2>4, NodeType
<1>7. p \in FinalizeCarries /\ p \in FinalizePlaces /\ p # "idle"
  BY <1>5 DEF FinalizePlaces, FinalizeCarries
<1>8. node[n].pc \in FinalizeCarries /\ node[n].pc # "idle"
  BY <1>1 DEF FinalizeCarries
<1>9. FinalizerInv(n)'
  BY <1>1, <1>2, <1>4, <1>6, <1>7, <1>8 DEF FinalizerInv, ledgerVars, registryVars
<1> QED
  BY <1>1, <1>2, <1>6, <1>7, <1>9, NodeStep

\* What finalize posts is signed.
LEMMA PostFinalizeTransactionStep ==
    ASSUME RelayInv, NEW n \in Nodes, PostFinalizeTransaction(n)
    PROVE  RelayInv'
<1> DEFINE r == node[n].route
           last == node[n].last
           sigs == node[n].at.signatures[last]
           bad == IF node[n].valid THEN {} ELSE {last}
           signers == {s.signer : s \in Range(sigs)}
           message(i) == [kind |-> "finalize", from |-> n, route |-> r, nonce |-> last,
                          invalid |-> bad, signers |-> signers,
                          signature |-> sigs[i].signature]
<1>0. PICK i \in DOMAIN sigs : pool' = pool \cup {message(i)}
  BY DEF PostFinalizeTransaction, MultiSigs
<1> DEFINE m == message(i)
<1>1. /\ node[n].pc = "post" /\ pool' = pool \cup {m} /\ Return(n)
      /\ UNCHANGED <<registryVars, ledgerVars>>
  BY <1>0 DEF PostFinalizeTransaction, At
<1>2. n \in Finalizers /\ FinalizerInv(n) /\ r \in Pairs
  BY <1>1, NodeType, WhoseStep
<1>3. /\ last <= Len(mined[r]) /\ last > 0 /\ sigs # <<>>
      /\ \A b \in BlockNumbers :
           Range(node[n].at.signatures[b]) \subseteq Range(signatures[r[1]][b])
  BY <1>1, <1>2 DEF FinalizerInv, FinalizeCarries
<1>4. last \in 0 .. MaxTxs /\ last \in Nat /\ last \in BlockNumbers
  BY <1>3, NodeType, RelayAssumption, SMTT(30) DEF NodeRecord
<1>5. last \in DOMAIN mined[r]
  <2>1. mined[r] \in Seq(Seq(Tx)) /\ Len(mined[r]) \in Nat
    BY <1>1, RouteLengths
  <2> QED
    BY <1>3, <1>4, <2>1, SMTT(30)
<1>6. sigs \in Seq(Signed)
  <2>1. node[n].at \in Snapshot
    BY NodeType DEF NodeRecord
  <2> QED
    BY <1>4, <2>1 DEF Snapshot
<1>7. /\ sigs[i] \in Signed /\ sigs[i] \in Range(sigs)
      /\ \A s \in Range(sigs) : s \in Signed
  <2> HIDE DEF sigs
  <2>1. \A j \in DOMAIN sigs : sigs[j] \in Signed
    BY <1>6, SMTT(30)
  <2> QED
    BY <1>0, <2>1 DEF Range
<1>8. Range(sigs) \subseteq Range(signatures[r[1]][last])
  BY <1>3, <1>4
<1>9. \A s \in Range(signatures[r[1]][last]) : s.signer \in ever[r[1]]
  <2>1. r[1] \in ChainIds
    BY <1>2, RelayAssumption
  <2>2. \A k \in DOMAIN signatures[r[1]][last] :
          signatures[r[1]][last][k].signer \in ever[r[1]]
    BY <1>4, <2>1 DEF RelayInv, RegistryInv, SignersWereRegistered
  <2> QED
    BY <2>2 DEF Range
<1> HIDE DEF sigs
<1>10. signers # {} /\ signers \subseteq SignedBy(r[1], last) /\ signers \subseteq Accounts
  BY <1>7, <1>8, <1>9 DEF SignedBy, Signed
<1>11. bad \subseteq Nat /\ bad \subseteq {last}
  BY <1>4
<1>12. sigs[i].signature \in Signatures
  BY <1>7 DEF Signed
<1> HIDE DEF signers, bad
<1>13. m \in FinalizeMessage /\ m.kind = "finalize"
  BY <1>2, <1>4, <1>10, <1>11, <1>12 DEF FinalizeMessage
<1>14. m.route = r /\ m.nonce = last /\ m.invalid = bad /\ m.signers = signers
  OBVIOUS
<1> HIDE DEF m
<1>15. FinalizeSigned(m)
  BY <1>5, <1>10, <1>11, <1>14 DEF FinalizeSigned
<1>16. PoolInv
  BY DEF RelayInv
<1>17. UNCHANGED <<mined, source, signatures, ever>>
  BY <1>1 DEF ledgerVars, registryVars
<1>18. PoolInv'
  <2>1. pool' \subseteq MineMessage \cup FinalizeMessage
    BY <1>1, <1>13, <1>16 DEF PoolInv
  <2>2. ASSUME NEW k \in pool', k.kind = "mine" PROVE MineInOrder(k)'
    <3>1. k \in pool
      BY <1>1, <1>13, <2>2
    <3> QED
      BY <1>16, <1>17, <2>2, <3>1 DEF PoolInv, MineInOrder
  <2>3. ASSUME NEW k \in pool', k.kind = "finalize" PROVE FinalizeSigned(k)'
    BY <1>1, <1>15, <1>16, <1>17, <2>3 DEF PoolInv, FinalizeSigned, SignedBy
  <2> QED
    BY <2>1, <2>2, <2>3 DEF PoolInv
<1> QED
  BY <1>1, <1>18, ReturnStep

\* The initial state satisfies the invariant.
LEMMA RelayInitInv == Init => RelayInv
<1> SUFFICES ASSUME Init PROVE RelayInv
  OBVIOUS
<1>1. RegistryInv
  BY RegistryInitInv DEF Init
<1>2. LedgerInv
  BY RelayAssumption, SMTT(30) DEF Init, RelayInit, LedgerInv
<1>3. Idle \in NodeRecord /\ Idle.pc = "idle" /\ Idle.route = <<>>
  <2>1. NoSnapshot \in Snapshot
    BY SMTT(30) DEF NoSnapshot, Snapshot
  <2> QED
    BY <2>1, RelayAssumption, SMTT(30) DEF Idle, NodeRecord
<1>4. NodeInv
  <2>1. \A n \in Nodes : node[n] = Idle
    BY DEF Init, RelayInit
  <2>2. node \in [Nodes -> NodeRecord]
    BY <1>3 DEF Init, RelayInit
  <2>3. \A n \in Miners : MinerInv(n)
    BY <1>3, <2>1 DEF MinerInv, Nodes, MineCarries
  <2>4. \A n \in Finalizers : FinalizerInv(n)
    BY <1>3, <2>1 DEF FinalizerInv, Nodes, FinalizeCarries
  <2> QED
    BY <1>3, <2>1, <2>2, <2>3, <2>4 DEF NodeInv
<1>5. PoolInv
  BY DEF Init, RelayInit, PoolInv
<1>6. LastSigned
  BY RelayAssumption, SMTT(30) DEF Init, RelayInit, LastSigned
<1> QED
  BY <1>1, <1>2, <1>4, <1>5, <1>6 DEF RelayInv

\* Every step of a node keeps the invariant.
LEMMA StepInv ==
    ASSUME RelayInv, NEW n \in Nodes, Step(n) \/ Err(n)
    PROVE  RelayInv'
<1>1. CASE CreateFinalizeTransaction(n)
  BY <1>1, ReturnStep DEF CreateFinalizeTransaction
<1>2. CASE Err(n)
  BY <1>2, ReturnStep DEF Err
<1> QED
  BY <1>1, <1>2, IsLocalBlockReadyStep, LastLocalBlockStep, MineLastRemoteMinedBlockStep,
     MineMinedBlockByNonceStep, MineLocalBlockByNonceStep, CreateMineTransactionStep,
     FinalizeLastRemoteMinedBlockStep, LastFinalizedBlockStep,
     FinalizeMinedBlockByNonceStep, FinalizeLocalBlockByNonceStep,
     PostFinalizeTransactionStep DEF Step

\* Every step keeps the invariant.
LEMMA RelayNextInv == RelayInv /\ [Next]_vars => RelayInv'
<1> SUFFICES ASSUME RelayInv, Next \/ UNCHANGED vars PROVE RelayInv'
  OBVIOUS
<1>1. CASE Registry \/ UNCHANGED vars
  BY <1>1, RegistryStep
<1>2. CASE \E r \in Pairs : NewTransaction(r) \/ CloseBlock(r)
  BY <1>2, NewTransactionStep, CloseBlockStep
<1>3. CASE \E m \in pool : ExecuteMine(m) \/ ExecuteFinalize(m) \/ DropMessage(m)
  BY <1>3, ExecuteMineStep, ExecuteFinalizeStep, DropMessageStep
<1>4. CASE \E n \in Nodes, r \in Pairs : StartMine(n, r) \/ StartFinalize(n, r)
  BY <1>4, StartMineStep, StartFinalizeStep
<1>5. CASE \E n \in Nodes : Step(n) \/ Err(n)
  BY <1>5, StepInv
<1> QED
  BY <1>1, <1>2, <1>3, <1>4, <1>5 DEF Next, RelayNext

\* RelayInv is an invariant of the relay.
LEMMA RelayInvariant == Spec => []RelayInv
BY RelayInitInv, RelayNextInv, PTL DEF Spec

-----------------------------------------------------------------------------
(***************************************************************************)
(* What mine, finalize, the chains and the pallet's registry keep, however *)
(* many nodes run and whatever fails, stale answers included: the ledgers, *)
(* the registry, the transactions under way and the rounds of the nodes    *)
(* have their types, only blocks that exist are called invalid, and a node *)
(* holds a pair exactly while it is in a round.                            *)
(***************************************************************************)
THEOREM RelayTypeCorrect == Spec => []RelayTypeOK
<1>1. RelayInv => RelayTypeOK
  <2> SUFFICES ASSUME RelayInv PROVE RelayTypeOK
    OBVIOUS
  <2>1. ASSUME NEW n \in Nodes
        PROVE  /\ node[n].last \in 0 .. MaxTxs
               /\ node[n].done \in 0 .. MaxTxs
               /\ node[n].at \in Snapshot
               /\ At(n, "idle") <=> node[n].route \notin Pairs
    <3>1. node[n] \in NodeRecord /\ (node[n].pc = "idle" <=> node[n].route = <<>>)
      BY DEF RelayInv, NodeInv
    <3>2. node[n].route = <<>> <=> node[n].route \notin Pairs
      BY <3>1, PairRoutes DEF NodeRecord
    <3> QED
      BY <3>1, <3>2 DEF NodeRecord, At
  <2> QED
    BY <2>1 DEF RelayInv, RegistryInv, LedgerInv, PoolInv, RelayTypeOK
<1> QED
  BY <1>1, RelayInvariant, PTL

(***************************************************************************)
(* No mineRemoteBlock under way skips a block of its route, and each comes *)
(* with transactions the source block starts with (mine and                *)
(* create_mine_transaction), for any number of miners.                     *)
(***************************************************************************)
THEOREM MinesInOrderHolds == Spec => []MinesInOrder
<1>1. RelayInv => MinesInOrder
  BY DEF RelayInv, PoolInv, MineInOrder, MinesInOrder, IsPrefix
<1> QED
  BY <1>1, RelayInvariant, PTL

(***************************************************************************)
(* Every finalize transaction under way is for a mined block that          *)
(* registered finalizers of its remote chain signed (finalize,             *)
(* post_finalize_transaction, submit_signature), and so is the last        *)
(* finalized block of every pair.                                          *)
(***************************************************************************)
THEOREM FinalizesOnlySignedHolds == Spec => []FinalizesOnlySigned
<1>1. RelayInv => FinalizesOnlySigned
  BY DEF RelayInv, PoolInv, FinalizeSigned, LastSigned, FinalizesOnlySigned
<1> QED
  BY <1>1, RelayInvariant, PTL
-----------------------------------------------------------------------------
(***************************************************************************)
(* The refinement of BlockRelay.                                           *)
(***************************************************************************)

\* A new transaction grows the last block of its route or adds one.
LEMMA NewTransactionRefines ==
    ASSUME RelayInv, NEW r \in Pairs, NewTransaction(r)
    PROVE  BR!Grow(r)
<1>1. r \in Routes /\ LedgerInv
  BY PairRoutes DEF RelayInv
<1>2. UNCHANGED <<mined, finalized>>
  BY DEF NewTransaction
<1> DEFINE old == source[r]
           new == source'[r]
<1>3. source' = [source EXCEPT ![r] = new] /\ GrownBy(old, new)
  BY <1>1, NewTransactionGrows
<1>4. old \in Seq(Seq(Tx)) /\ Len(old) \in Nat /\ DOMAIN old = 1 .. Len(old)
  BY <1>1, SMTT(30) DEF LedgerInv
<1>5. \A q \in Routes \ {r} : source'[q] = source[q]
  <2>1. source \in [Routes -> Seq(Seq(Tx))]
    BY <1>1 DEF LedgerInv
  <2> HIDE DEF new
  <2> QED
    BY <1>3, <2>1
<1>6. /\ new \in Seq(Seq(Tx)) /\ Len(new) \in {Len(old), Len(old) + 1}
      /\ \A i \in DOMAIN old : i \in DOMAIN new /\ IsPrefix(old[i], new[i])
      /\ \A i \in 1 .. Len(old) - 1 : new[i] = old[i]
  BY <1>3 DEF GrownBy
<1>7. Len(old) > 0 => BR!StartsWith(new[Len(old)], old[Len(old)])
  <2> SUFFICES ASSUME Len(old) > 0 PROVE BR!StartsWith(new[Len(old)], old[Len(old)])
    OBVIOUS
  <2>1. PICK n \in DOMAIN old : n = Len(old)
    BY <1>4, SMTT(30)
  <2>2. n \in DOMAIN new /\ IsPrefix(old[n], new[n])
    BY <1>6
  <2>3. old[n] \in Seq(Tx) /\ new[n] \in Seq(Tx)
    BY <1>4, <1>6, <2>2, Blocks
  <2>4. Len(old[n]) <= Len(new[n]) /\ \A i \in 1 .. Len(old[n]) : old[n][i] = new[n][i]
    BY <2>2, <2>3, PrefixIsElementwise, SMTT(30)
  <2> QED
    BY <2>1, <2>4 DEF BR!StartsWith
<1> QED
  BY <1>2, <1>5, <1>6, <1>7 DEF BR!Grow, BR!Elsewhere

\* mineRemoteBlock mines the next block of its route or changes nothing.
LEMMA ExecuteMineRefines ==
    ASSUME RelayInv, NEW m \in pool, ExecuteMine(m)
    PROVE  UNCHANGED BR!vars \/ \E r \in Routes : BR!Mine(r)
<1>1. LedgerInv /\ PoolInv
  BY DEF RelayInv
<1>2. m \in MineMessage /\ MineInOrder(m)
  BY <1>1 DEF PoolInv, ExecuteMine, FinalizeMessage
<1>3. PICK r \in Routes, k \in Nat, t \in Seq(Tx) :
        r = m.route /\ k = m.nonce /\ t = m.txs
  BY <1>2, PairRoutes DEF MineMessage
<1> DEFINE old == mined[r]
<1>4. /\ mined' = [mined EXCEPT ![r] = IF k = Len(old) + 1 THEN Append(old, t) ELSE old]
      /\ UNCHANGED <<source, finalized>>
  BY <1>3 DEF ExecuteMine
<1>5. k \in DOMAIN source[r] /\ IsPrefix(t, source[r][k])
  BY <1>2, <1>3 DEF MineInOrder
<1>6. source[r] \in Seq(Seq(Tx)) /\ mined \in [Routes -> Seq(Seq(Tx))]
  BY <1>1 DEF LedgerInv
<1>7. old \in Seq(Seq(Tx)) /\ Len(old) \in Nat
  BY <1>6, SMTT(30)
<1>8. CASE k # Len(old) + 1
  <2>1. mined' = mined
    BY <1>4, <1>6, <1>8
  <2> QED
    BY <1>4, <2>1 DEF BR!vars
<1>9. CASE k = Len(old) + 1
  <2> DEFINE new == Append(old, t)
  <2>1. /\ new \in Seq(Seq(Tx)) /\ Len(new) = k /\ new[k] = t /\ Len(old) <= k
        /\ \A i \in 1 .. Len(old) : new[i] = old[i]
    BY <1>7, <1>9, SMTT(30)
  <2> HIDE DEF new
  <2>2. mined' = [mined EXCEPT ![r] = new]
    BY <1>4, <1>9 DEF new
  <2>3. mined'[r] = new /\ \A q \in Routes \ {r} : mined'[q] = mined[q]
    BY <1>6, <2>2
  <2>4. BR!StartsWith(new, old)
    BY <2>1 DEF BR!StartsWith
  <2>5. source[r][k] \in Seq(Tx)
    BY <1>5, <1>6, Blocks
  <2>6. Len(t) <= Len(source[r][k]) /\ \A i \in 1 .. Len(t) : t[i] = source[r][k][i]
    BY <1>5, <2>5, PrefixIsElementwise, SMTT(30)
  <2>7. BR!StartsWith(source[r][k], new[k])
    BY <2>1, <2>6 DEF BR!StartsWith
  <2>8. BR!Mine(r)
    BY <1>4, <1>5, <1>9, <2>1, <2>3, <2>4, <2>7 DEF BR!Mine, BR!Elsewhere
  <2> QED
    BY <2>8
<1> QED
  BY <1>8, <1>9

\* finalizeSingleSigner finalizes up to a mined block or changes nothing.
LEMMA ExecuteFinalizeRefines ==
    ASSUME RelayInv, NEW m \in pool, ExecuteFinalize(m)
    PROVE  UNCHANGED BR!vars \/ \E r \in Routes : BR!Finalize(r)
<1>1. LedgerInv /\ PoolInv
  BY DEF RelayInv
<1>2. m \in FinalizeMessage
  BY <1>1 DEF PoolInv, ExecuteFinalize, MineMessage
<1>3. PICK r \in Routes : r = m.route
  BY <1>2, PairRoutes DEF FinalizeMessage
<1> DEFINE accepted == /\ m.nonce \in finalized[m.route] + 1 .. Len(mined[m.route])
                       /\ m.signature = m.route[2]
<1>4. /\ finalized' = [finalized EXCEPT ![r] = IF accepted THEN m.nonce ELSE finalized[r]]
      /\ UNCHANGED <<source, mined>>
  BY <1>3 DEF ExecuteFinalize
<1>5. finalized \in [Routes -> Nat]
  BY <1>1 DEF LedgerInv
<1>6. accepted => m.nonce \in finalized[r] + 1 .. Len(mined[r])
  BY <1>3
<1> HIDE DEF accepted
<1>7. CASE ~accepted
  <2>1. finalized' = finalized
    BY <1>4, <1>5, <1>7
  <2> QED
    BY <1>4, <2>1 DEF BR!vars
<1>8. CASE accepted
  <2>1. finalized'[r] = m.nonce /\ \A q \in Routes \ {r} : finalized'[q] = finalized[q]
    BY <1>4, <1>5, <1>8
  <2>2. BR!Finalize(r)
    BY <1>4, <1>6, <1>8, <2>1 DEF BR!Finalize, BR!Elsewhere
  <2> QED
    BY <2>2
<1> QED
  BY <1>7, <1>8

\* Everything else leaves the blocks of the routes alone.
LEMMA StepRefines ==
    ASSUME NEW n \in Nodes, Step(n) \/ Err(n)
    PROVE  UNCHANGED <<source, mined, finalized>>
<1>1. UNCHANGED ledgerVars
  BY DEF Step, Err, IsLocalBlockReady, LastLocalBlock, MineLastRemoteMinedBlock,
     MineMinedBlockByNonce, MineLocalBlockByNonce, CreateMineTransaction,
     FinalizeLastRemoteMinedBlock, LastFinalizedBlock, FinalizeMinedBlockByNonce,
     FinalizeLocalBlockByNonce, CreateFinalizeTransaction, PostFinalizeTransaction
<1> QED
  BY <1>1 DEF ledgerVars

\* Every step is a step of BlockRelay or a stutter.
LEMMA NextRefines == RelayInv /\ [Next]_vars => [BR!Next]_(BR!vars)
<1> SUFFICES ASSUME RelayInv, Next \/ UNCHANGED vars PROVE BR!Next \/ UNCHANGED BR!vars
  OBVIOUS
<1>1. CASE Registry \/ UNCHANGED vars
  BY <1>1 DEF Registry, vars, relayVars, BR!vars
<1>2. ASSUME NEW r \in Pairs, NewTransaction(r) \/ CloseBlock(r)
      PROVE  BR!Next \/ UNCHANGED BR!vars
  <2>1. CASE NewTransaction(r)
    BY <2>1, NewTransactionRefines, PairRoutes DEF BR!Next
  <2>2. CASE CloseBlock(r)
    BY <2>2 DEF CloseBlock, BR!vars
  <2> QED
    BY <1>2, <2>1, <2>2
<1>3. ASSUME NEW m \in pool, ExecuteMine(m) \/ ExecuteFinalize(m) \/ DropMessage(m)
      PROVE  BR!Next \/ UNCHANGED BR!vars
  <2>1. CASE ExecuteMine(m)
    BY <2>1, ExecuteMineRefines DEF BR!Next
  <2>2. CASE ExecuteFinalize(m)
    BY <2>2, ExecuteFinalizeRefines DEF BR!Next
  <2>3. CASE DropMessage(m)
    BY <2>3 DEF DropMessage, ledgerVars, BR!vars
  <2> QED
    BY <1>3, <2>1, <2>2, <2>3
<1>4. ASSUME NEW n \in Nodes, NEW r \in Pairs, StartMine(n, r) \/ StartFinalize(n, r)
      PROVE  UNCHANGED BR!vars
  BY <1>4 DEF StartMine, StartFinalize, ledgerVars, BR!vars
<1>5. ASSUME NEW n \in Nodes, Step(n) \/ Err(n) PROVE UNCHANGED BR!vars
  BY <1>5, StepRefines DEF BR!vars
<1> QED
  BY <1>1, <1>2, <1>3, <1>4, <1>5 DEF Next, RelayNext

(***************************************************************************)
(* mine and finalize, run by any number of nodes over stale answers, keep  *)
(* what BlockRelay promises of every route: blocks are mined one after the *)
(* other, none skipped, none twice, with transactions the source block     *)
(* starts with, and finalized in order.                                    *)
(***************************************************************************)
THEOREM RelayImplementsBlockRelay == Spec => ImplementsBlockRelay
<1>1. Init => BR!Init
  BY DEF Init, RelayInit, BR!Init
<1> QED
  BY <1>1, NextRefines, RelayInvariant, PTL DEF Spec, ImplementsBlockRelay, BR!Spec
=============================================================================
