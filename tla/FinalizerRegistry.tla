-------------------------- MODULE FinalizerRegistry --------------------------
(***************************************************************************)
(* The storage of pallet-quantum-portal and the extrinsics that change it: *)
(* the registered finalizers of each chain, the signatures submitted for   *)
(* each block, the number of signatures a block needs.  The precompile of  *)
(* the same name reaches the first two extrinsics from the EVM.            *)
(*                                                                         *)
(* An absent map entry and an empty list are told apart by no reader of    *)
(* this storage; both are the empty sequence.  An absent threshold is read *)
(* with unwrap_or_default: it is 0.                                        *)
(***************************************************************************)
EXTENDS Integers, Sequences, FiniteSets, Functions

CONSTANTS
    Accounts,       \* accounts that may be finalizers
    ChainIds,       \* chain ids that appear as keys
    BlockNumbers,   \* block nonces that appear as keys
    Signatures,     \* what a submitted signature signs
    MaxFinalizers,  \* bound on the entries registered for one chain
    MaxSignatures,  \* bound on the signatures submitted for one block
    Thresholds      \* thresholds that may be set

ASSUME RegistryAssumption ==
    /\ MaxFinalizers \in Nat
    /\ MaxSignatures \in Nat
    /\ Thresholds \subseteq Nat

VARIABLES
    registered,   \* RegisteredFinalizers, by chain
    signatures,   \* PendingFinalizeSignatures, by chain and block
    threshold,    \* FinalizerThreshold, by chain
    ever          \* history: who has been registered for a chain at some time

registryVars == <<registered, signatures, threshold, ever>>

Signed == [signer : Accounts, signature : Signatures]

RegistryInit ==
    /\ registered = [c \in ChainIds |-> <<>>]
    /\ signatures = [c \in ChainIds |-> [b \in BlockNumbers |-> <<>>]]
    /\ threshold = [c \in ChainIds |-> 0]
    /\ ever = [c \in ChainIds |-> {}]

IsFinalizer(a, c) == a \in Range(registered[c])

\* The result of ensure_signed is not looked at: the origin does not matter.
\* Nothing keeps the same finalizer from being pushed again.
RegisterFinalizer(c, finalizer) ==
    /\ Len(registered[c]) < MaxFinalizers
    /\ registered' = [registered EXCEPT ![c] = Append(@, finalizer)]
    /\ ever' = [ever EXCEPT ![c] = @ \cup {finalizer}]
    /\ UNCHANGED <<signatures, threshold>>

\* Vec::remove.
RemoveAt(s, i) == SubSeq(s, 1, i - 1) \o SubSeq(s, i + 1, Len(s))

\* The first entry goes; without one, FinalizerNotFound and nothing is written.
RemoveFinalizer(c, finalizer) ==
    /\ \E index \in DOMAIN registered[c] :
         /\ registered[c][index] = finalizer
         /\ \A i \in 1 .. index - 1 : registered[c][i] # finalizer
         /\ registered' = [registered EXCEPT ![c] = RemoveAt(@, index)]
    /\ UNCHANGED <<signatures, threshold, ever>>

\* Mutant of SubmitSignature: the caller is not looked up.
SubmitSignatureUnchecked(caller, c, b, signature) ==
    /\ Len(signatures[c][b]) < MaxSignatures
    /\ signatures' = [signatures EXCEPT
         ![c][b] = Append(@, [signer |-> caller, signature |-> signature])]
    /\ UNCHANGED <<registered, threshold, ever>>

\* Only a registered caller may submit; what is signed is not looked at.
SubmitSignature(caller, c, b, signature) ==
    /\ Len(signatures[c][b]) < MaxSignatures
    /\ IsFinalizer(caller, c)
    /\ signatures' = [signatures EXCEPT
         ![c][b] = Append(@, [signer |-> caller, signature |-> signature])]
    /\ UNCHANGED <<registered, threshold, ever>>

SetFinalizerThreshold(c, t) ==
    /\ threshold' = [threshold EXCEPT ![c] = t]
    /\ UNCHANGED <<registered, signatures, ever>>

\* registerFinalizer and removeFinalizer of the precompile dispatch with the
\* caller in the place of the finalizer that is named.
PrecompileRegister(caller, c, finalizer) == RegisterFinalizer(c, caller)

PrecompileRemove(caller, c, finalizer) == RemoveFinalizer(c, caller)

RegistryNext ==
    \E c \in ChainIds :
      \/ \E a \in Accounts : RegisterFinalizer(c, a)
      \/ \E a \in Accounts : RemoveFinalizer(c, a)
      \/ \E a, f \in Accounts : PrecompileRegister(a, c, f)
      \/ \E a, f \in Accounts : PrecompileRemove(a, c, f)
      \/ \E a \in Accounts, b \in BlockNumbers, s \in Signatures :
           SubmitSignature(a, c, b, s)
      \/ \E t \in Thresholds : SetFinalizerThreshold(c, t)

RegistrySpec == RegistryInit /\ [][RegistryNext]_registryVars
-----------------------------------------------------------------------------
RegistryTypeOK ==
    /\ registered \in [ChainIds -> Seq(Accounts)]
    /\ signatures \in [ChainIds -> [BlockNumbers -> Seq(Signed)]]
    /\ threshold \in [ChainIds -> Nat]
    /\ ever \in [ChainIds -> SUBSET Accounts]

(***************************************************************************)
(* Nobody who was never a finalizer of a chain is among those who signed   *)
(* one of its blocks (submit_signature), whoever is removed meanwhile.     *)
(***************************************************************************)
SignersWereRegistered ==
    \A c \in ChainIds, b \in BlockNumbers :
      \A i \in DOMAIN signatures[c][b] : signatures[c][b][i].signer \in ever[c]

(***************************************************************************)
(* finalize: "if we have enough signers for finalize".  When the number of *)
(* signatures, which is what it compares with the threshold, is enough, so *)
(* is the number of those who signed.                                      *)
(***************************************************************************)
EnoughSigners ==
    \A c \in ChainIds, b \in BlockNumbers :
      LET signers == {s.signer : s \in Range(signatures[c][b])}
      IN Len(signatures[c][b]) > threshold[c] => Cardinality(signers) > threshold[c]

(***************************************************************************)
(* QuantumPortalPrecompile.sol: removeFinalizer "Removes a registered      *)
(* finalizer".  Who has been removed, by remove_finalizer or through the   *)
(* precompile, is no finalizer of the chain any more.                      *)
(***************************************************************************)
RemovedIsNoFinalizer ==
    [][\A c \in ChainIds, a \in Accounts :
         RemoveFinalizer(c, a) => a \notin Range(registered'[c])]_registryVars
=============================================================================
