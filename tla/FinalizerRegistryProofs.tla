----------------------- MODULE FinalizerRegistryProofs -----------------------
(***************************************************************************)
(* Type correctness of the registry, and that only finalizers signed, for  *)
(* any accounts, chains, blocks and bounds.                                *)
(***************************************************************************)
EXTENDS FinalizerRegistry, TLAPS

\* First-order leaves go to Zenon; those that need arithmetic, sequences or records
\* cite SMT, with a limit that leaves room for a slow machine.
USE Zenon

(***************************************************************************)
(* What remove_finalizer leaves of a list has no new elements.             *)
(***************************************************************************)
LEMMA RemoveAtType ==
    ASSUME NEW S, NEW s \in Seq(S), NEW i \in DOMAIN s
    PROVE  RemoveAt(s, i) \in Seq(S)
BY SMTT(30) DEF RemoveAt

\* register_finalizer and submit_signature add one element.
LEMMA AppendType ==
    ASSUME NEW S, NEW s \in Seq(S), NEW e \in S
    PROVE  Append(s, e) \in Seq(S)
BY SMTT(30)

(***************************************************************************)
(* A signer may have been removed since, so SignersWereRegistered needs to *)
(* know that who is a finalizer now has been registered.                   *)
(***************************************************************************)
RegistryInv ==
    /\ RegistryTypeOK
    /\ \A c \in ChainIds : registered[c] \in Seq(ever[c])
    /\ SignersWereRegistered

\* The empty registry satisfies the invariant.
LEMMA RegistryInitInv == RegistryInit => RegistryInv
BY SMTT(30) DEF RegistryInit, RegistryInv, RegistryTypeOK, SignersWereRegistered

(***************************************************************************)
(* register_finalizer, called directly or through the precompile.          *)
(***************************************************************************)
LEMMA RegisterInv ==
    ASSUME RegistryInv, NEW c \in ChainIds, NEW a \in Accounts,
           RegisterFinalizer(c, a)
    PROVE  RegistryInv'
<1> USE DEF RegistryInv
<1>1. /\ registered' = [registered EXCEPT ![c] = Append(@, a)]
      /\ ever' = [ever EXCEPT ![c] = @ \cup {a}]
      /\ UNCHANGED <<signatures, threshold>>
  BY DEF RegisterFinalizer
<1>2. Append(registered[c], a) \in Seq(Accounts)
  BY AppendType DEF RegistryTypeOK
<1>3. RegistryTypeOK'
  BY <1>1, <1>2 DEF RegistryTypeOK
<1>4. \A d \in ChainIds : ever[d] \subseteq ever'[d]
  BY <1>1 DEF RegistryTypeOK
<1>5. \A d \in ChainIds : registered'[d] \in Seq(ever'[d])
  <2> TAKE d \in ChainIds
  <2>1. registered[d] \in Seq(ever'[d])
    BY <1>4, SMTT(30)
  <2>2. CASE d = c
    <3>1. a \in ever'[c]
      BY <1>1 DEF RegistryTypeOK
    <3>2. registered'[c] = Append(registered[c], a)
      BY <1>1 DEF RegistryTypeOK
    <3>3. Append(registered[c], a) \in Seq(ever'[c])
      BY <2>1, <2>2, <3>1, AppendType, ZenonT(30)
    <3> QED  BY <2>2, <3>2, <3>3
  <2>3. CASE d # c
    BY <1>1, <2>1, <2>3 DEF RegistryTypeOK
  <2> QED  BY <2>2, <2>3
<1>6. SignersWereRegistered'
  BY <1>1, <1>4 DEF SignersWereRegistered
<1> QED  BY <1>3, <1>5, <1>6

\* remove_finalizer only takes from a list.
LEMMA RemoveInv ==
    ASSUME RegistryInv, NEW c \in ChainIds, NEW a \in Accounts, RemoveFinalizer(c, a)
    PROVE  RegistryInv'
<1> USE DEF RegistryInv
<1>0. PICK i \in DOMAIN registered[c] :
        registered' = [registered EXCEPT ![c] = RemoveAt(@, i)]
  BY DEF RemoveFinalizer
<1>1. RemoveAt(registered[c], i) \in Seq(Accounts)
  BY RemoveAtType DEF RegistryTypeOK
<1>2. RemoveAt(registered[c], i) \in Seq(ever[c])
  BY RemoveAtType
<1>3. RegistryTypeOK'
  BY <1>0, <1>1 DEF RegistryTypeOK, RemoveFinalizer
<1>4. \A d \in ChainIds : registered'[d] \in Seq(ever'[d])
  BY <1>0, <1>2 DEF RegistryTypeOK, RemoveFinalizer
<1>5. SignersWereRegistered'
  BY DEF SignersWereRegistered, RemoveFinalizer
<1> QED  BY <1>3, <1>4, <1>5

\* submit_signature adds the signature of a caller it has found in the list.
LEMMA SubmitInv ==
    ASSUME RegistryInv, NEW c \in ChainIds, NEW a \in Accounts,
           NEW b \in BlockNumbers, NEW s \in Signatures, SubmitSignature(a, c, b, s)
    PROVE  RegistryInv'
<1> USE DEF RegistryInv
<1> DEFINE new == [signer |-> a, signature |-> s]
<1>1. new \in Signed
  BY DEF Signed
<1>2. signatures' = [signatures EXCEPT ![c][b] = Append(@, new)]
  BY DEF SubmitSignature
<1>3. UNCHANGED <<registered, threshold, ever>>
  BY DEF SubmitSignature
<1>4. a \in ever[c]
  <2>1. PICK i \in DOMAIN registered[c] : registered[c][i] = a
    BY DEF SubmitSignature, IsFinalizer, Range
  <2> QED  BY <2>1, SMTT(30)
<1> HIDE DEF new
<1>5. \A d \in ChainIds, e \in BlockNumbers :
        signatures'[d][e] = IF d = c /\ e = b THEN Append(signatures[c][b], new)
                                              ELSE signatures[d][e]
  BY <1>2 DEF RegistryTypeOK
<1>6. RegistryTypeOK'
  BY <1>1, <1>2, <1>3, SMTT(30) DEF RegistryTypeOK
<1>7. SignersWereRegistered'
  <2> SUFFICES ASSUME NEW d \in ChainIds, NEW e \in BlockNumbers,
                      NEW i \in DOMAIN signatures'[d][e]
               PROVE  signatures'[d][e][i].signer \in ever[d]
    BY <1>3 DEF SignersWereRegistered
  <2>1. new.signer = a
    BY DEF new
  <2>2. signatures[d][e] \in Seq(Signed)
    BY DEF RegistryTypeOK
  <2>3. CASE d = c /\ e = b
    <3>1. signatures'[d][e] = Append(signatures[c][b], new)
      BY <1>5, <2>3
    <3>2. CASE i = Len(signatures[c][b]) + 1
      BY <1>1, <1>4, <2>1, <2>2, <2>3, <3>1, <3>2, SMTT(30)
    <3>3. CASE i \in DOMAIN signatures[c][b]
      BY <1>1, <2>2, <2>3, <3>1, <3>3, SMTT(30) DEF SignersWereRegistered
    <3> QED  BY <1>1, <2>2, <2>3, <3>1, <3>2, <3>3, SMTT(30)
  <2>4. CASE ~(d = c /\ e = b)
    BY <1>5, <2>4 DEF SignersWereRegistered
  <2> QED  BY <2>3, <2>4
<1> QED  BY <1>3, <1>6, <1>7

\* set_finalizer_threshold changes a threshold only.
LEMMA ThresholdInv ==
    ASSUME RegistryInv, NEW c \in ChainIds, NEW t \in Thresholds,
           SetFinalizerThreshold(c, t)
    PROVE  RegistryInv'
BY RegistryAssumption
   DEF RegistryInv, RegistryTypeOK, SignersWereRegistered, SetFinalizerThreshold

\* Every extrinsic and precompile call keeps the invariant.
LEMMA RegistryStepInv ==
    ASSUME RegistryInv, [RegistryNext]_registryVars
    PROVE  RegistryInv'
<1>1. CASE UNCHANGED registryVars
  BY <1>1 DEF registryVars, RegistryInv, RegistryTypeOK, SignersWereRegistered
<1> QED
  BY <1>1, RegisterInv, RemoveInv, SubmitInv, ThresholdInv
     DEF RegistryNext, PrecompileRegister, PrecompileRemove

(***************************************************************************)
(* The extrinsics and the precompile keep the registry well typed.         *)
(***************************************************************************)
THEOREM RegistryTypeCorrect == RegistrySpec => []RegistryTypeOK
<1>1. RegistryInv => RegistryTypeOK
  BY DEF RegistryInv
<1> QED  BY <1>1, RegistryInitInv, RegistryStepInv, PTL DEF RegistrySpec

(***************************************************************************)
(* submit_signature: whoever signed a block of a chain has been one of its *)
(* registered finalizers, for any number of accounts, chains and blocks    *)
(* and however registrations, removals and signatures interleave.          *)
(***************************************************************************)
THEOREM OnlyFinalizersSign == RegistrySpec => []SignersWereRegistered
<1>1. RegistryInv => SignersWereRegistered
  BY DEF RegistryInv
<1> QED  BY <1>1, RegistryInitInv, RegistryStepInv, PTL DEF RegistrySpec
=============================================================================
