--------------------------- MODULE OperatorProofs ---------------------------
(* Theorems about Operator, for any number of keys and any messages. *)
EXTENDS Operator, FiniteSetTheorems, TLAPS

\* The registry maps indices in range to key records.
KeymapOK(km) ==
    /\ DOMAIN km \subseteq Index
    /\ km \in [DOMAIN km -> KeyRecord]

\* verifyPair accepts exactly what the rules of SPEC 11.0 accept.
LEMMA PairVerified ==
    ASSUME NEW km, KeymapOK(km), NEW m, NEW msg, KnownAlgo(m.Algo)
    PROVE  verifyPair(km, m, msg) = Nil <=> PairRules(km, m, msg)
<1> USE DEF KeymapOK, Nil, ErrSameIndex, ErrAlgoMismatch, ErrKeyMissing,
            ErrBadSignature, ErrBadSigLength, ErrIndexRange,
            ErrDuplicateSigningKey
<1>1. ASSUME NEW idx, NEW sig
      PROVE  verifyAt(km, idx, m.Algo, msg, sig) = Nil
               <=> /\ idx \in DOMAIN km
                   /\ sig # OddSig
                   /\ \E k \in Ed25519Key :
                        /\ km[idx] = [PublicKey |-> k, Algo |-> m.Algo]
                        /\ sig = Signed(k, msg)
  <2>1. CASE idx \notin DOMAIN km
    BY <2>1 DEF verifyAt
  <2>2. CASE idx \in DOMAIN km
    <3>1. idx \in Index /\ km[idx] \in KeyRecord
      BY <2>2
    <3>2. km[idx] = [PublicKey |-> km[idx].PublicKey, Algo |-> km[idx].Algo]
      BY <3>1 DEF KeyRecord
    <3>3. verifyAt(km, idx, m.Algo, msg, sig) = Nil
            <=> /\ km[idx].Algo = m.Algo
                /\ sig # OddSig
                /\ km[idx].PublicKey \in Ed25519Key
                /\ sig = Signed(km[idx].PublicKey, msg)
      BY <2>2, <3>1 DEF verifyAt, SigLenFits, PubLenFits, SigVerifies
    <3>4. ASSUME NEW k \in Ed25519Key,
                 km[idx] = [PublicKey |-> k, Algo |-> m.Algo]
          PROVE  km[idx].PublicKey = k /\ km[idx].Algo = m.Algo
      BY <3>4
    <3> QED
      BY <2>2, <3>2, <3>3, <3>4
  <2> QED
    BY <2>1, <2>2
<1>2. distinctKeysAt(km, m.Idx0, m.Idx1) = Nil
        <=> /\ {m.Idx0, m.Idx1} \subseteq Index
            /\ {m.Idx0, m.Idx1} \subseteq DOMAIN km
                 => km[m.Idx0].PublicKey # km[m.Idx1].PublicKey
  BY DEF distinctKeysAt
<1> DEFINE At(idx, sig) == verifyAt(km, idx, m.Algo, msg, sig) = Nil
<1>3. verifyPair(km, m, msg) = Nil
        <=> /\ m.Idx0 # m.Idx1
            /\ distinctKeysAt(km, m.Idx0, m.Idx1) = Nil
            /\ At(m.Idx0, m.Sig0)
            /\ At(m.Idx1, m.Sig1)
  BY DEF verifyPair
<1>4. m.Algo = AlgoEd25519
  BY DEF KnownAlgo
<1>5. ASSUME verifyPair(km, m, msg) = Nil PROVE PairRules(km, m, msg)
  <2>1. PICK k0 \in Ed25519Key :
            /\ km[m.Idx0] = [PublicKey |-> k0, Algo |-> m.Algo]
            /\ m.Sig0 = Signed(k0, msg)
    BY <1>5, <1>3, <1>1
  <2>2. PICK k1 \in Ed25519Key :
            /\ km[m.Idx1] = [PublicKey |-> k1, Algo |-> m.Algo]
            /\ m.Sig1 = Signed(k1, msg)
    BY <1>5, <1>3, <1>1
  <2>3. {m.Idx0, m.Idx1} \subseteq DOMAIN km /\ OddSig \notin {m.Sig0, m.Sig1}
    BY <1>5, <1>3, <1>1
  <2>4. k0 # k1
    BY <1>5, <1>3, <1>2, <2>1, <2>2, <2>3
  <2> QED
    BY <1>5, <1>3, <1>4, <2>1, <2>2, <2>3, <2>4 DEF PairRules
<1>6. ASSUME PairRules(km, m, msg) PROVE verifyPair(km, m, msg) = Nil
  <2>1. At(m.Idx0, m.Sig0) /\ At(m.Idx1, m.Sig1)
    BY <1>6, <1>1 DEF PairRules
  <2>2. distinctKeysAt(km, m.Idx0, m.Idx1) = Nil
    BY <1>6, <1>2 DEF PairRules
  <2> QED
    BY <1>6, <1>3, <2>1, <2>2 DEF PairRules
<1> QED
  BY <1>5, <1>6

\* A rotation passes Verify exactly when no field is wrong, no other index
\* holds the new key or another algorithm, and the pair of signatures passes.
LEMMA RotationVerified ==
    ASSUME NEW km, NEW r
    PROVE  Nil \in VerifyRotation(km, r)
             <=> /\ r.Nonce \in Nonce
                 /\ KnownAlgo(r.Algo)
                 /\ r.KeyIndex \in Index
                 /\ r.NewPublicKey \in Ed25519Key
                 /\ \A i \in DOMAIN km \ {r.KeyIndex} :
                      /\ km[i].PublicKey # r.NewPublicKey
                      /\ km[i].Algo = r.Algo
                 /\ verifyPair(km, r, RotationBytes(r)) = Nil
<1> USE DEF Nil, ErrNonceTooShort, ErrUnknownAlgo, ErrIndexRange,
            ErrDuplicateSigningKey, ErrAlgoMismatch
<1>1. /\ FieldErrors(r) = {} <=> /\ r.Nonce \in Nonce
                                 /\ KnownAlgo(r.Algo)
                                 /\ r.KeyIndex \in Index
                                 /\ r.NewPublicKey \in Ed25519Key
      /\ Nil \notin FieldErrors(r)
  BY DEF FieldErrors, PubLenFits
<1>2. /\ DuplicatePass(km, r) = {} <=>
           \A i \in DOMAIN km \ {r.KeyIndex} : km[i].PublicKey # r.NewPublicKey
      /\ Nil \notin DuplicatePass(km, r)
  BY DEF DuplicatePass, Others
<1>3. /\ MixedPass(km, r) = {} <=>
           \A i \in DOMAIN km \ {r.KeyIndex} : km[i].Algo = r.Algo
      /\ Nil \notin MixedPass(km, r)
  BY DEF MixedPass, Others
<1> QED
  BY <1>1, <1>2, <1>3 DEF VerifyRotation

\* What an accepted rotation asks for, and that the registry stays typed.
LEMMA SwapTyped ==
    ASSUME NEW km, KeymapOK(km), NEW r, Nil \in VerifyRotation(km, r)
    PROVE  SwapOf(r) \in [index : Index, key : Ed25519Key, algo : {AlgoEd25519}]
  BY RotationVerified DEF SwapOf, KnownAlgo

LEMMA InstallTyped ==
    ASSUME NEW km, KeymapOK(km),
           NEW s \in [index : Index, key : Ed25519Key, algo : {AlgoEd25519}]
    PROVE  KeymapOK(Install(km, s))
<1>1. [PublicKey |-> s.key, Algo |-> s.algo] \in KeyRecord
  BY DEF KeyRecord, Key, Algo
<1>2. DOMAIN Install(km, s) = DOMAIN km \cup {s.index}
  BY DEF Install
<1>3. \A i \in DOMAIN km \cup {s.index} : Install(km, s)[i] \in KeyRecord
  BY <1>1 DEF Install, KeymapOK
<1>4. Install(km, s) \in [DOMAIN km \cup {s.index} -> KeyRecord]
  BY <1>3 DEF Install
<1> QED
  BY <1>2, <1>4 DEF KeymapOK

LEMMA InitTyped == Init => TypeOK
<1> SUFFICES ASSUME Init PROVE TypeOK
  OBVIOUS
<1>1. PICK D \in SUBSET Index : keymap \in [D -> KeyRecord]
  BY DEF Init
<1> QED
  BY <1>1 DEF Init, TypeOK

LEMMA StepTyped == TypeOK /\ [Next]_vars => TypeOK'
<1> SUFFICES ASSUME TypeOK, [Next]_vars PROVE TypeOK'
  OBVIOUS
<1> USE DEF TypeOK
<1>0. KeymapOK(keymap)
  BY DEF KeymapOK
<1>1. CASE Receive
  BY <1>1 DEF Receive, ReceiveTransmission, ReceiveConformance
<1>2. ASSUME NEW r \in Rotations, AuthorizeRotation(r) PROVE TypeOK'
  <2>1. SwapOf(r) \in [index : Index, key : Ed25519Key, algo : {AlgoEd25519}]
    BY <1>0, <1>2, SwapTyped DEF AuthorizeRotation
  <2> QED
    BY <1>2, <2>1 DEF AuthorizeRotation
<1>3. ASSUME NEW s \in pending, ApplySwap(s) PROVE TypeOK'
  <2>1. KeymapOK(keymap')
    BY <1>0, <1>3, InstallTyped DEF ApplySwap
  <2> QED
    BY <1>3, <2>1 DEF ApplySwap, KeymapOK
<1>4. CASE UNCHANGED vars
  BY <1>4 DEF vars
<1> QED
  BY <1>1, <1>2, <1>3, <1>4 DEF Next

LEMMA SerialStepTyped == TypeOK /\ [SerialNext]_vars => TypeOK'
<1> SUFFICES ASSUME TypeOK, [SerialNext]_vars PROVE TypeOK'
  OBVIOUS
<1> USE DEF TypeOK
<1>0. KeymapOK(keymap)
  BY DEF KeymapOK
<1>1. CASE Receive
  BY <1>1 DEF Receive, ReceiveTransmission, ReceiveConformance
<1>2. ASSUME NEW r \in Rotations, Rotate(r) PROVE TypeOK'
  <2>1. SwapOf(r) \in [index : Index, key : Ed25519Key, algo : {AlgoEd25519}]
    BY <1>0, <1>2, SwapTyped DEF Rotate
  <2>2. KeymapOK(keymap')
    BY <1>0, <1>2, <2>1, InstallTyped DEF Rotate
  <2> QED
    BY <1>2, <2>2 DEF Rotate, KeymapOK
<1>3. CASE UNCHANGED vars
  BY <1>3 DEF vars
<1> QED
  BY <1>1, <1>2, <1>3 DEF SerialNext

-----------------------------------------------------------------------------
(* Type correctness *)

\* The registry and the swaps waiting for it are well typed, however the
\* handlers of rotations interleave.
THEOREM TypeCorrect == Spec => []TypeOK
  BY InitTyped, StepTyped, PTL DEF Spec

\* The same when rotations are handled one at a time.
THEOREM SerialTypeCorrect == SerialSpec => []TypeOK
  BY InitTyped, SerialStepTyped, PTL DEF SerialSpec

-----------------------------------------------------------------------------
(* Two distinct signers *)

\* A message that passes verifyPair was signed by two keys of the registry.
LEMMA PairSigners ==
    ASSUME NEW km, KeymapOK(km), NEW m, NEW msg, KnownAlgo(m.Algo),
           verifyPair(km, m, msg) = Nil
    PROVE  /\ Cardinality({m.Sig0.by, m.Sig1.by}) = 2
           /\ {m.Sig0.by, m.Sig1.by} \subseteq {km[i].PublicKey : i \in DOMAIN km}
<1>1. PairRules(km, m, msg)
  BY PairVerified
<1>2. PICK k0, k1 \in Ed25519Key :
        /\ k0 # k1
        /\ km[m.Idx0] = [PublicKey |-> k0, Algo |-> m.Algo]
        /\ km[m.Idx1] = [PublicKey |-> k1, Algo |-> m.Algo]
        /\ m.Sig0 = Signed(k0, msg)
        /\ m.Sig1 = Signed(k1, msg)
  BY <1>1 DEF PairRules
<1>3. m.Sig0.by = k0 /\ m.Sig1.by = k1
  BY <1>2 DEF Signed
<1>4. Cardinality({k0, k1}) = 2
  <2>1. IsFiniteSet({k0}) /\ Cardinality({k0}) = 1
    BY FS_Singleton
  <2>2. Cardinality({k0} \cup {k1}) = 2
    BY <1>2, <2>1, FS_AddElement
  <2>3. {k0} \cup {k1} = {k0, k1}
    OBVIOUS
  <2> QED
    BY <2>2, <2>3
<1>5. k0 = km[m.Idx0].PublicKey /\ k1 = km[m.Idx1].PublicKey
  BY <1>2
<1>6. m.Idx0 \in DOMAIN km /\ m.Idx1 \in DOMAIN km
  BY <1>1 DEF PairRules
<1> QED
  BY <1>3, <1>4, <1>5, <1>6

\* A message accepted for a transmission or a response has two signers.
LEMMA ReceiveSigners ==
    ASSUME TypeOK, Receive
    PROVE  Cardinality(accepted'.signers) = 2
<1>0. KeymapOK(keymap)
  BY DEF KeymapOK, TypeOK
<1> USE DEF Nil, ErrNonceTooShort, ErrUnknownAlgo
<1>1. ASSUME NEW t \in Transmissions, ReceiveTransmission(t)
      PROVE  Cardinality(accepted'.signers) = 2
  <2>1. KnownAlgo(t.Algo) /\ verifyPair(keymap, t, TransmissionBytes(t)) = Nil
    BY <1>1 DEF ReceiveTransmission, VerifyTransmission
  <2>2. Cardinality({t.Sig0.by, t.Sig1.by}) = 2
    BY <1>0, <2>1, PairSigners
  <2> QED
    BY <1>1, <2>2 DEF ReceiveTransmission, Accept
<1>2. ASSUME NEW c \in Responses, ReceiveConformance(c)
      PROVE  Cardinality(accepted'.signers) = 2
  <2>1. KnownAlgo(c.Algo) /\ verifyPair(keymap, c, ConformanceBytes(c)) = Nil
    BY <1>2 DEF ReceiveConformance, VerifyConformance
  <2>2. Cardinality({c.Sig0.by, c.Sig1.by}) = 2
    BY <1>0, <2>1, PairSigners
  <2> QED
    BY <1>2, <2>2 DEF ReceiveConformance, Accept
<1> QED
  BY <1>1, <1>2 DEF Receive

\* Whatever was registered and however swaps interleave, every accepted
\* message carries the signatures of two distinct keys.
THEOREM DistinctSigners == Spec => []TwoDistinctSigners
<1>1. Init => TwoDistinctSigners
  BY DEF Init, TwoDistinctSigners
<1>2. TypeOK /\ TwoDistinctSigners /\ [Next]_vars => TwoDistinctSigners'
  <2> SUFFICES ASSUME TypeOK, TwoDistinctSigners, [Next]_vars
               PROVE  TwoDistinctSigners'
    OBVIOUS
  <2> USE DEF TwoDistinctSigners
  <2>1. CASE Receive
    BY <2>1, ReceiveSigners
  <2>2. ASSUME NEW r \in Rotations, AuthorizeRotation(r)
        PROVE  TwoDistinctSigners'
    <3>1. KeymapOK(keymap)
      BY DEF KeymapOK, TypeOK
    <3>2. KnownAlgo(r.Algo) /\ verifyPair(keymap, r, RotationBytes(r)) = Nil
      BY <2>2, RotationVerified DEF AuthorizeRotation
    <3>3. Cardinality({r.Sig0.by, r.Sig1.by}) = 2
      BY <3>1, <3>2, PairSigners
    <3> QED
      BY <2>2, <3>3 DEF AuthorizeRotation, Accept
  <2>3. CASE \E s \in pending : ApplySwap(s)
    BY <2>3 DEF ApplySwap, NothingAccepted
  <2>4. CASE UNCHANGED vars
    BY <2>4 DEF vars, NothingAccepted
  <2> QED
    BY <2>1, <2>2, <2>3, <2>4 DEF Next
<1> QED
  BY <1>1, <1>2, TypeCorrect, PTL DEF Spec

-----------------------------------------------------------------------------
(* The rules decide *)

\* Every rejection and every acceptance of a transmission or a response is
\* the one the rules of SPEC 11.0 call for, in every registry reached.
THEOREM RulesDecideAlways == Spec => []RulesDecide
<1>1. TypeOK => RulesDecide
  <2> SUFFICES ASSUME TypeOK PROVE RulesDecide
    OBVIOUS
  <2>0. KeymapOK(keymap)
    BY DEF KeymapOK, TypeOK
  <2> USE DEF Nil, ErrNonceTooShort, ErrUnknownAlgo
  <2>1. ASSUME NEW t \in Transmissions
        PROVE  VerifyTransmission(keymap, t) = Nil
                 <=> /\ t.Nonce \in Nonce
                     /\ PairRules(keymap, t, TransmissionBytes(t))
    <3>1. PairRules(keymap, t, TransmissionBytes(t)) => KnownAlgo(t.Algo)
      BY DEF PairRules, KnownAlgo
    <3>2. KnownAlgo(t.Algo) =>
            (verifyPair(keymap, t, TransmissionBytes(t)) = Nil
               <=> PairRules(keymap, t, TransmissionBytes(t)))
      BY <2>0, PairVerified
    <3> QED
      BY <3>1, <3>2 DEF VerifyTransmission
  <2>2. ASSUME NEW c \in Responses
        PROVE  VerifyConformance(keymap, c) = Nil
                 <=> PairRules(keymap, c, ConformanceBytes(c))
    <3>1. PairRules(keymap, c, ConformanceBytes(c)) => KnownAlgo(c.Algo)
      BY DEF PairRules, KnownAlgo
    <3>2. KnownAlgo(c.Algo) =>
            (verifyPair(keymap, c, ConformanceBytes(c)) = Nil
               <=> PairRules(keymap, c, ConformanceBytes(c)))
      BY <2>0, PairVerified
    <3> QED
      BY <3>1, <3>2 DEF VerifyConformance
  <2> QED
    BY <2>1, <2>2 DEF RulesDecide
<1> QED
  BY <1>1, TypeCorrect, PTL

\* The same for rotations, with the rules of SPEC 11.2.
THEOREM RotationRulesDecideAlways == Spec => []RotationRulesDecide
<1>1. TypeOK => RotationRulesDecide
  <2> SUFFICES ASSUME TypeOK, NEW r \in Rotations
               PROVE  Nil \in VerifyRotation(keymap, r) <=>
                        /\ r.Nonce \in Nonce
                        /\ r.KeyIndex \in Index
                        /\ r.NewPublicKey \in Ed25519Key
                        /\ \A i \in DOMAIN keymap \ {r.KeyIndex} :
                             /\ keymap[i].PublicKey # r.NewPublicKey
                             /\ keymap[i].Algo = r.Algo
                        /\ PairRules(keymap, r, RotationBytes(r))
    BY DEF RotationRulesDecide
  <2>1. PairRules(keymap, r, RotationBytes(r)) => KnownAlgo(r.Algo)
    BY DEF PairRules, KnownAlgo
  <2>2. KnownAlgo(r.Algo) =>
          (verifyPair(keymap, r, RotationBytes(r)) = Nil
             <=> PairRules(keymap, r, RotationBytes(r)))
    BY PairVerified DEF KeymapOK, TypeOK
  <2> QED
    BY <2>1, <2>2, RotationVerified
<1> QED
  BY <1>1, TypeCorrect, PTL

-----------------------------------------------------------------------------
(* Rotations handled one at a time *)

\* What is known of the registry after a rotation.
LEMMA RotateEffect ==
    ASSUME TypeOK, NEW r \in Rotations, Rotate(r)
    PROVE  /\ DOMAIN keymap' = DOMAIN keymap \cup {r.KeyIndex}
           /\ keymap'[r.KeyIndex] = [PublicKey |-> r.NewPublicKey,
                                     Algo |-> AlgoEd25519]
           /\ keymap'[r.KeyIndex].PublicKey = r.NewPublicKey
           /\ keymap'[r.KeyIndex].Algo = AlgoEd25519
           /\ r.NewPublicKey \in Ed25519Key
           /\ \A i \in DOMAIN keymap \ {r.KeyIndex} :
                /\ keymap'[i] = keymap[i]
                /\ keymap[i].PublicKey # r.NewPublicKey
                /\ keymap[i].Algo = AlgoEd25519
<1>1. /\ r.NewPublicKey \in Ed25519Key
      /\ r.Algo = AlgoEd25519
      /\ \A i \in DOMAIN keymap \ {r.KeyIndex} :
           keymap[i].PublicKey # r.NewPublicKey /\ keymap[i].Algo = r.Algo
  BY RotationVerified DEF Rotate, KnownAlgo
<1>2. keymap' = [i \in DOMAIN keymap \cup {r.KeyIndex} |->
                   IF i = r.KeyIndex
                   THEN [PublicKey |-> r.NewPublicKey, Algo |-> r.Algo]
                   ELSE keymap[i]]
  BY DEF Rotate, Install, SwapOf
<1>3. keymap'[r.KeyIndex] = [PublicKey |-> r.NewPublicKey, Algo |-> AlgoEd25519]
  BY <1>1, <1>2
<1> QED
  BY <1>1, <1>2, <1>3

\* Steps of the serial coordinator either leave the registry or rotate it.
LEMMA SerialStep ==
    ASSUME [SerialNext]_vars
    PROVE  keymap' = keymap \/ \E r \in Rotations : Rotate(r)
  BY DEF SerialNext, Receive, ReceiveTransmission, ReceiveConformance, vars

\* No rotation makes two indices hold one key, be they among the signing
\* indices or not.
THEOREM DistinctnessKept == SerialSpec => DistinctKept
<1>1. ASSUME TypeOK, [SerialNext]_vars, KeysDistinct(keymap)
      PROVE  KeysDistinct(keymap')
  <2>1. ASSUME NEW r \in Rotations, Rotate(r) PROVE KeysDistinct(keymap')
    <3> SUFFICES ASSUME NEW i \in DOMAIN keymap', NEW j \in DOMAIN keymap',
                        keymap'[i].PublicKey = keymap'[j].PublicKey, i # j
                 PROVE  FALSE
      BY DEF KeysDistinct
    <3>1. /\ DOMAIN keymap' = DOMAIN keymap \cup {r.KeyIndex}
          /\ keymap'[r.KeyIndex].PublicKey = r.NewPublicKey
          /\ \A x \in DOMAIN keymap \ {r.KeyIndex} :
               /\ keymap'[x] = keymap[x]
               /\ keymap[x].PublicKey # r.NewPublicKey
      BY <1>1, <2>1, RotateEffect
    <3>2. CASE i = r.KeyIndex
      BY <3>1, <3>2
    <3>3. CASE j = r.KeyIndex
      BY <3>1, <3>3
    <3>4. CASE i # r.KeyIndex /\ j # r.KeyIndex
      BY <1>1, <3>1, <3>4 DEF KeysDistinct
    <3> QED
      BY <3>2, <3>3, <3>4
  <2> QED
    BY <1>1, <2>1, SerialStep DEF KeysDistinct
<1>2. TypeOK /\ [SerialNext]_vars
        => [KeysDistinct(keymap) => KeysDistinct(keymap')]_vars
  BY <1>1
<1> QED
  BY <1>2, SerialTypeCorrect, PTL DEF SerialSpec, DistinctKept

\* After a rotation every registered key has the one supported algorithm.
THEOREM UniformityReached == SerialSpec => UniformAfterRotation
<1>1. ASSUME TypeOK, [SerialNext]_vars, keymap' # keymap,
             NEW i \in DOMAIN keymap'
      PROVE  keymap'[i].Algo = AlgoEd25519
  <2>1. PICK r \in Rotations : Rotate(r)
    BY <1>1, SerialStep
  <2>0. /\ DOMAIN keymap' = DOMAIN keymap \cup {r.KeyIndex}
        /\ keymap'[r.KeyIndex].Algo = AlgoEd25519
        /\ \A x \in DOMAIN keymap \ {r.KeyIndex} :
             keymap'[x] = keymap[x] /\ keymap[x].Algo = AlgoEd25519
    BY <1>1, <2>1, RotateEffect
  <2>2. CASE i = r.KeyIndex
    BY <2>0, <2>2
  <2>3. CASE i # r.KeyIndex
    BY <2>0, <2>3
  <2> QED
    BY <2>2, <2>3
<1>2. TypeOK /\ [SerialNext]_vars
        => [keymap' # keymap =>
              \A i \in DOMAIN keymap' : keymap'[i].Algo = AlgoEd25519]_vars
  BY <1>1
<1> QED
  BY <1>2, SerialTypeCorrect, PTL DEF SerialSpec, UniformAfterRotation

\* A registry that follows the registration rules follows them for ever.
THEOREM ProperForEver == SerialSpec => ProperKept
<1>1. ASSUME TypeOK, [SerialNext]_vars, Proper(keymap),
             KeysDistinct(keymap) => KeysDistinct(keymap')
      PROVE  Proper(keymap')
  <2>1. ASSUME NEW r \in Rotations, Rotate(r) PROVE Proper(keymap')
    <3> DEFINE Rec == [PublicKey : Ed25519Key, Algo : {AlgoEd25519}]
    <3>0. /\ keymap'[r.KeyIndex] = [PublicKey |-> r.NewPublicKey,
                                    Algo |-> AlgoEd25519]
          /\ r.NewPublicKey \in Ed25519Key
      BY <1>1, <2>1, RotateEffect
    <3>1. keymap'[r.KeyIndex] \in Rec
      BY <3>0
    <3>2. \A i \in DOMAIN keymap \ {r.KeyIndex} : keymap'[i] \in Rec
      BY <1>1, <2>1, RotateEffect DEF Proper
    <3>3. keymap' = [i \in DOMAIN keymap' |-> keymap'[i]]
      BY <2>1 DEF Rotate, Install
    <3>4. keymap' \in [DOMAIN keymap' -> Rec]
      BY <1>1, <2>1, <3>1, <3>2, <3>3, RotateEffect
    <3> QED
      BY <1>1, <3>4 DEF Proper
  <2> QED
    BY <1>1, <2>1, SerialStep DEF Proper, KeysDistinct
<1>2. TypeOK /\ [SerialNext]_vars
        /\ [KeysDistinct(keymap) => KeysDistinct(keymap')]_vars
        => [Proper(keymap) => Proper(keymap')]_vars
  BY <1>1
<1> QED
  BY <1>2, SerialTypeCorrect, DistinctnessKept, PTL
     DEF SerialSpec, ProperKept, DistinctKept

-----------------------------------------------------------------------------
(* One verdict *)

\* Each of the checks of a rotation leaves at most one error to return.
LEMMA VerdictIsOne ==
    ASSUME NEW km, NEW r
    PROVE  \E e : VerifyRotation(km, r) = {e}
<1>1. FieldErrors(r) # {} => \E e : FieldErrors(r) = {e}
  BY DEF FieldErrors
<1>2. DuplicatePass(km, r) # {} => DuplicatePass(km, r) = {ErrDuplicateSigningKey}
  BY DEF DuplicatePass
<1>3. MixedPass(km, r) # {} => MixedPass(km, r) = {ErrAlgoMismatch}
  BY DEF MixedPass
<1> QED
  BY <1>1, <1>2, <1>3 DEF VerifyRotation

\* The order in which Go iterates over the registry never shows in the result
\* of OperatorRotation.Verify.
THEOREM OneVerdictAlways == Spec => []OneVerdict
<1>1. OneVerdict
  <2> SUFFICES ASSUME NEW r \in Rotations
               PROVE  Cardinality(VerifyRotation(keymap, r)) = 1
    BY DEF OneVerdict
  <2>1. PICK e : VerifyRotation(keymap, r) = {e}
    BY VerdictIsOne
  <2> QED
    BY <2>1, FS_Singleton
<1> QED
  BY <1>1, PTL

-----------------------------------------------------------------------------
(* What is asked is what is made *)

\* The bytes of a rotation say what swap it asks for.
LEMMA BytesBindSwap ==
    ASSUME NEW q, NEW r, RotationBytes(q) = RotationBytes(r)
    PROVE  SwapOf(q) = SwapOf(r)
<1>1. /\ RotationBytes(q).index = RotationBytes(r).index
      /\ RotationBytes(q).key = RotationBytes(r).key
      /\ RotationBytes(q).algo = RotationBytes(r).algo
  OBVIOUS
<1> QED
  BY <1>1 DEF RotationBytes, SwapOf

LEMMA VerifiedAsAsked ==
    ASSUME TypeOK, NEW r \in Rotations, Nil \in VerifyRotation(keymap, r)
    PROVE  r.asked = SwapOf(r)
<1>1. KnownAlgo(r.Algo) /\ verifyPair(keymap, r, RotationBytes(r)) = Nil
  BY RotationVerified
<1>2. PairRules(keymap, r, RotationBytes(r))
  BY <1>1, PairVerified DEF TypeOK, KeymapOK
<1>3. r.Sig0 # OddSig /\ r.Sig0.over = RotationBytes(r)
  BY <1>2 DEF PairRules, Signed
<1>4. <<RotationBytes(r), r.asked>> \in AskedBytes
  BY <1>3, SignedAssumption
<1>5. PICK q \in Rotations : RotationBytes(r) = RotationBytes(q) /\ r.asked = SwapOf(q)
  BY <1>4 DEF AskedBytes
<1> QED
  BY <1>5, BytesBindSwap

\* No rotation that was altered after it was signed makes a swap
\* (OperatorRotation.CanonicalBytes).
THEOREM MadeAsAskedAlways == Spec => []MadeAsAsked
<1>1. Init => MadeAsAsked
  BY DEF Init, MadeAsAsked, NothingAccepted
<1>2. TypeOK /\ MadeAsAsked /\ [Next]_vars => MadeAsAsked'
  <2> SUFFICES ASSUME TypeOK, MadeAsAsked, [Next]_vars PROVE MadeAsAsked'
    OBVIOUS
  <2> USE DEF MadeAsAsked
  <2>1. CASE Receive
    BY <2>1 DEF Receive, ReceiveTransmission, ReceiveConformance, Accept
  <2>2. ASSUME NEW r \in Rotations, AuthorizeRotation(r) PROVE MadeAsAsked'
    BY <2>2, VerifiedAsAsked DEF AuthorizeRotation, Accept
  <2>3. CASE \E s \in pending : ApplySwap(s)
    BY <2>3 DEF ApplySwap
  <2>4. CASE UNCHANGED vars
    BY <2>4 DEF vars
  <2> QED
    BY <2>1, <2>2, <2>3, <2>4 DEF Next
<1> QED
  BY <1>1, <1>2, TypeCorrect, PTL DEF Spec

\* Every change of the registry was signed, as made, by two distinct keys
\* registered at that moment (OperatorRotation.Verify under one lock).
THEOREM ChangesAuthorized == SerialSpec => SwapsAuthorized
<1> DEFINE Authorized ==
      /\ \E s \in accepted'.asked : keymap' = Install(keymap, s)
      /\ Cardinality(accepted'.signers) = 2
      /\ accepted'.signers \subseteq {keymap[i].PublicKey : i \in DOMAIN keymap}
<1>1. ASSUME TypeOK, NEW r \in Rotations, Rotate(r) PROVE Authorized
  <2>1. r.asked = SwapOf(r)
    BY <1>1, VerifiedAsAsked DEF Rotate
  <2>2. KnownAlgo(r.Algo) /\ verifyPair(keymap, r, RotationBytes(r)) = Nil
    BY <1>1, RotationVerified DEF Rotate
  <2>3. /\ Cardinality({r.Sig0.by, r.Sig1.by}) = 2
        /\ {r.Sig0.by, r.Sig1.by} \subseteq {keymap[i].PublicKey : i \in DOMAIN keymap}
    BY <1>1, <2>2, PairSigners DEF TypeOK, KeymapOK
  <2>4. accepted'.asked = {r.asked} /\ accepted'.signers = {r.Sig0.by, r.Sig1.by}
    BY <1>1 DEF Rotate, Accept
  <2>5. keymap' = Install(keymap, r.asked)
    BY <1>1, <2>1 DEF Rotate
  <2> QED
    BY <2>3, <2>4, <2>5
<1>2. TypeOK /\ [SerialNext]_vars => [keymap' # keymap => Authorized]_vars
  BY <1>1, SerialStep
<1> QED
  BY <1>2, SerialTypeCorrect, PTL DEF SerialSpec, SwapsAuthorized

-----------------------------------------------------------------------------
(* Never locked out *)

\* Two registered keys make a pair of signatures that follows the rules.
LEMMA OwnPair ==
    ASSUME NEW km, KeymapOK(km), Proper(km), NEW i \in DOMAIN km,
           NEW j \in DOMAIN km, i # j, NEW msg \in OwnBytes, NEW m,
           m.Algo = AlgoEd25519, m.Idx0 = i, m.Idx1 = j,
           m.Sig0 = Signed(km[i].PublicKey, msg),
           m.Sig1 = Signed(km[j].PublicKey, msg)
    PROVE  verifyPair(km, m, msg) = Nil
<1> DEFINE k0 == km[i].PublicKey
           k1 == km[j].PublicKey
<1>1. km[i] \in [PublicKey : Ed25519Key, Algo : {AlgoEd25519}]
      /\ km[j] \in [PublicKey : Ed25519Key, Algo : {AlgoEd25519}]
  BY DEF Proper
<1>2. /\ k0 \in Ed25519Key /\ k1 \in Ed25519Key
      /\ km[i] = [PublicKey |-> k0, Algo |-> AlgoEd25519]
      /\ km[j] = [PublicKey |-> k1, Algo |-> AlgoEd25519]
  BY <1>1
<1>3. k0 # k1
  BY DEF Proper, KeysDistinct
<1>4. OddSig \notin {m.Sig0, m.Sig1}
  BY <1>2, OddSigAssumption
<1>5. PairRules(km, m, msg)
  BY <1>2, <1>3, <1>4 DEF PairRules
<1> QED
  BY <1>5, PairVerified DEF KnownAlgo

\* What is signed is what the rules are about: filling in the signatures
\* changes no field of the bytes.
LEMMA SignedFields ==
    ASSUME NEW i, NEW j, NEW k0, NEW k1
    PROVE  LET t == SignTransmission(Template, k0, k1, i, j)
               c == SignConformance(Template, k0, k1, i, j)
           IN  /\ t.Nonce \in Nonce /\ t.Algo = AlgoEd25519
               /\ t.Idx0 = i /\ t.Idx1 = j
               /\ TransmissionBytes(t) = TransmissionBytes(Prepared(Template, i, j))
               /\ t.Sig0 = Signed(k0, TransmissionBytes(t))
               /\ t.Sig1 = Signed(k1, TransmissionBytes(t))
               /\ c.Algo = AlgoEd25519 /\ c.Idx0 = i /\ c.Idx1 = j
               /\ ConformanceBytes(c) = ConformanceBytes(Prepared(Template, i, j))
               /\ c.Sig0 = Signed(k0, ConformanceBytes(c))
               /\ c.Sig1 = Signed(k1, ConformanceBytes(c))
<1>1. (CHOOSE n \in Nonce : TRUE) \in Nonce
  BY KeyAssumption
<1> QED
  BY <1>1 DEF SignTransmission, SignConformance, Prepared, Template, DefaultAlgo,
              TransmissionBytes, ConformanceBytes

LEMMA SignedRotationFields ==
    ASSUME NEW i, NEW j, NEW k0, NEW k1, NEW x, NEW new
    PROVE  LET r == SignRotation(Refresh(x, new), k0, k1, i, j)
           IN  /\ r.Nonce \in Nonce /\ r.Algo = AlgoEd25519
               /\ r.Idx0 = i /\ r.Idx1 = j
               /\ r.KeyIndex = x /\ r.NewPublicKey = new
               /\ RotationBytes(r) = RotationBytes(Prepared(Refresh(x, new), i, j))
               /\ r.Sig0 = Signed(k0, RotationBytes(r))
               /\ r.Sig1 = Signed(k1, RotationBytes(r))
<1>1. (CHOOSE n \in Nonce : TRUE) \in Nonce
  BY KeyAssumption
<1> QED
  BY <1>1 DEF SignRotation, Prepared, Refresh, Template, DefaultAlgo, RotationBytes

\* The rotations of a proper registry that NeverLockedOut is about pass.
LEMMA RefreshAccepted ==
    ASSUME NEW km, KeymapOK(km), Proper(km), NEW i \in DOMAIN km,
           NEW j \in DOMAIN km, i # j, NEW x \in Index, NEW new \in Ed25519Key,
           KeysDistinct(Install(km, [index |-> x, key |-> new,
                                     algo |-> AlgoEd25519]))
    PROVE  VerifyRotation(km, SignRotation(Refresh(x, new), km[i].PublicKey,
                                           km[j].PublicKey, i, j)) = {Nil}
<1> DEFINE r == SignRotation(Refresh(x, new), km[i].PublicKey,
                             km[j].PublicKey, i, j)
           next == Install(km, [index |-> x, key |-> new, algo |-> AlgoEd25519])
<1>1. /\ r.Nonce \in Nonce /\ r.Algo = AlgoEd25519 /\ r.Idx0 = i /\ r.Idx1 = j
      /\ r.KeyIndex = x /\ r.NewPublicKey = new
      /\ RotationBytes(r) = RotationBytes(Prepared(Refresh(x, new), i, j))
      /\ r.Sig0 = Signed(km[i].PublicKey, RotationBytes(r))
      /\ r.Sig1 = Signed(km[j].PublicKey, RotationBytes(r))
  BY SignedRotationFields
<1> HIDE DEF r
<1>2. \A y \in DOMAIN km \ {x} : km[y].PublicKey # new /\ km[y].Algo = AlgoEd25519
  <2> TAKE y \in DOMAIN km \ {x}
  <2>1. /\ DOMAIN next = DOMAIN km \cup {x}
        /\ next[y] = km[y] /\ next[x].PublicKey = new
    BY DEF Install
  <2>2. next[y].PublicKey # next[x].PublicKey
    BY <2>1 DEF KeysDistinct
  <2>3. km[y] \in [PublicKey : Ed25519Key, Algo : {AlgoEd25519}]
    BY DEF Proper
  <2> QED
    BY <2>1, <2>2, <2>3
<1>3. verifyPair(km, r, RotationBytes(r)) = Nil
  <2>1. i \in Index /\ j \in Index
    BY DEF KeymapOK
  <2>2. RotationBytes(r) \in OwnBytes
    BY <1>1, <2>1 DEF OwnBytes
  <2> QED
    BY <1>1, <2>2, OwnPair
<1>4. Nil \in VerifyRotation(km, r)
  BY <1>1, <1>2, <1>3, RotationVerified DEF KnownAlgo
<1> QED
  BY <1>4, VerdictIsOne DEF r

\* An operator with a proper registry can always transmit, answer a challenge
\* and rotate with any two of its keys (the Verify methods).
THEOREM NeverLockedOutAlways == SerialSpec => []NeverLockedOut
<1>1. TypeOK => NeverLockedOut
  <2> SUFFICES ASSUME TypeOK, Proper(keymap), NEW i \in DOMAIN keymap,
                      NEW j \in DOMAIN keymap, i # j
               PROVE  /\ VerifyTransmission(keymap,
                             SignTransmission(Template, keymap[i].PublicKey,
                                 keymap[j].PublicKey, i, j)) = Nil
                      /\ VerifyConformance(keymap,
                             SignConformance(Template, keymap[i].PublicKey,
                                 keymap[j].PublicKey, i, j)) = Nil
                      /\ \A x \in Index, new \in Ed25519Key :
                          KeysDistinct(Install(keymap,
                              [index |-> x, key |-> new, algo |-> AlgoEd25519]))
                          => VerifyRotation(keymap,
                                 SignRotation(Refresh(x, new), keymap[i].PublicKey,
                                     keymap[j].PublicKey, i, j)) = {Nil}
    BY DEF NeverLockedOut
  <2> DEFINE t == SignTransmission(Template, keymap[i].PublicKey,
                                   keymap[j].PublicKey, i, j)
             c == SignConformance(Template, keymap[i].PublicKey,
                                  keymap[j].PublicKey, i, j)
  <2>1. KeymapOK(keymap) /\ i \in Index /\ j \in Index
    BY DEF TypeOK, KeymapOK
  <2>2. TransmissionBytes(t) \in OwnBytes /\ ConformanceBytes(c) \in OwnBytes
    <3>1. TransmissionBytes(Prepared(Template, i, j)) \in OwnBytes
          /\ ConformanceBytes(Prepared(Template, i, j)) \in OwnBytes
      BY <2>1 DEF OwnBytes
    <3> QED
      BY <3>1, SignedFields
  <2>3. /\ t.Nonce \in Nonce /\ t.Algo = AlgoEd25519 /\ t.Idx0 = i /\ t.Idx1 = j
        /\ t.Sig0 = Signed(keymap[i].PublicKey, TransmissionBytes(t))
        /\ t.Sig1 = Signed(keymap[j].PublicKey, TransmissionBytes(t))
        /\ c.Algo = AlgoEd25519 /\ c.Idx0 = i /\ c.Idx1 = j
        /\ c.Sig0 = Signed(keymap[i].PublicKey, ConformanceBytes(c))
        /\ c.Sig1 = Signed(keymap[j].PublicKey, ConformanceBytes(c))
    BY SignedFields
  <2> HIDE DEF t, c
  <2>4. verifyPair(keymap, t, TransmissionBytes(t)) = Nil
        /\ verifyPair(keymap, c, ConformanceBytes(c)) = Nil
    BY <2>1, <2>2, <2>3, OwnPair
  <2>5. VerifyTransmission(keymap, t) = Nil /\ VerifyConformance(keymap, c) = Nil
    BY <2>3, <2>4 DEF VerifyTransmission, VerifyConformance, KnownAlgo
  <2> QED
    BY <2>1, <2>5, RefreshAccepted DEF t, c
<1> QED
  BY <1>1, SerialTypeCorrect, PTL

=============================================================================
