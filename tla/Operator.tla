------------------------------ MODULE Operator ------------------------------
(***************************************************************************)
(* The operator identity layer (package operator): seven registered        *)
(* public keys per operator, every message signed with two of them, and    *)
(* rotations that replace one registered key.  The Verify methods are      *)
(* operators that return the error the code returns; the registry they     *)
(* read is the coordinator's, changed only by the rotations it accepts.    *)
(*                                                                         *)
(* Abstractions.  A public key is a model value and stands for its key     *)
(* pair; a signature is the pair of the key that made it and the bytes it  *)
(* covers; canonical bytes are the record of the fields in them (that the  *)
(* encoding loses nothing is the subject of module Canon).  OperatorID,    *)
(* TsUnixNano and Seq are not represented: no check in this package reads  *)
(* them, and the registry is that of one operator.                         *)
(***************************************************************************)
EXTENDS Integers, FiniteSets

CONSTANTS
    KeyIndexCount,  \* how many keys an operator registers (7 in the source)
    Ed25519Key,     \* public keys of ed25519.PublicKeySize bytes
    OddKey,         \* byte strings of another length, in a key's place
    AlgoEd25519,    \* the algorithm name v0 supports
    OtherAlgo,      \* algorithm names it does not support
    NoAlgo,         \* the empty algorithm name
    Nonce,          \* nonces of at least MinNonceLen bytes
    OddSig,         \* a signature of the wrong length
    Transmissions,  \* the transmissions that may reach the coordinator,
    Rotations,      \* the rotations,
    Responses,      \* and the conformance responses: each any number of
                    \* times and in any order
    MaxPending      \* bound: rotations verified and not yet applied

Index == 0 .. KeyIndexCount - 1
Key   == Ed25519Key \cup OddKey
Algo  == {AlgoEd25519} \cup OtherAlgo
KeyRecord == [PublicKey : Key, Algo : Algo]

ASSUME KeyAssumption == /\ KeyIndexCount \in Nat
                        /\ Ed25519Key \cap OddKey = {}
                        /\ Nonce # {}
ASSUME AlgoAssumption == /\ AlgoEd25519 \notin OtherAlgo
                         /\ NoAlgo \notin Algo
ASSUME WireAssumption ==
    \A r \in Rotations : r.KeyIndex \in Int /\ r.NewPublicKey \in Key

VARIABLES
    keymap,    \* the registered keys: a partial function from Index
    pending,   \* key swaps authorised by a Verify and not yet applied
    accepted   \* history: who signed the message accepted last and, when it
               \* was a rotation, the swap asked for and the swap made

vars == <<keymap, pending, accepted>>

-----------------------------------------------------------------------------
(* Results of Verify *)

Nil                    == "nil"
ErrSameIndex           == "ErrSameIndex"
ErrNonceTooShort       == "ErrNonceTooShort"
ErrUnknownAlgo         == "ErrUnknownAlgo"
ErrAlgoMismatch        == "ErrAlgoMismatch"
ErrKeyMissing          == "ErrKeyMissing"
ErrBadSignature        == "ErrBadSignature"
ErrBadSigLength        == "ErrBadSigLength"
ErrIndexRange          == "ErrIndexRange"
ErrDuplicateSigningKey == "ErrDuplicateSigningKey"

-----------------------------------------------------------------------------
(* Keys, algorithms and signatures *)

\* A nonzero expectedSigLen.
KnownAlgo(algo) == algo = AlgoEd25519

SigLenFits(sig, algo) == KnownAlgo(algo) /\ sig # OddSig

PubLenFits(key, algo) == KnownAlgo(algo) /\ key \in Ed25519Key

\* The signature of key's private half over msg.
Signed(key, msg) == [by |-> key, over |-> msg]

\* Ed25519Verifier.Verify.
SigVerifies(pub, msg, sig) ==
    /\ pub \in Ed25519Key
    /\ sig # OddSig
    /\ sig = Signed(pub, msg)

\* The algorithm Sign fills in when the caller left it empty.
DefaultAlgo(algo) == IF algo = NoAlgo THEN AlgoEd25519 ELSE algo

-----------------------------------------------------------------------------
(* Canonical bytes and Sign *)

TransmissionBytes(t) ==
    [domain |-> "operator", nonce |-> t.Nonce, algo |-> t.Algo,
     idx |-> <<t.Idx0, t.Idx1>>]

\* Faulty variant of RotationBytes: the replacement key is left out.
RotationBytesWithoutKey(r) ==
    [domain |-> "operator-rotate", index |-> r.KeyIndex, algo |-> r.Algo,
     nonce |-> r.Nonce, idx |-> <<r.Idx0, r.Idx1>>]

RotationBytes(r) ==
    [domain |-> "operator-rotate", index |-> r.KeyIndex,
     key |-> r.NewPublicKey, algo |-> r.Algo, nonce |-> r.Nonce,
     idx |-> <<r.Idx0, r.Idx1>>]

ConformanceBytes(c) ==
    [domain |-> "operator-conformance", challenge |-> c.Challenge,
     algo |-> c.Algo, idx |-> <<c.Idx0, c.Idx1>>]

\* The three Sign methods: the indices and the algorithm are recorded in the
\* message, then both signatures are taken over the bytes of the result.
Prepared(m, idx0, idx1) ==
    [m EXCEPT !.Algo = DefaultAlgo(@), !.Idx0 = idx0, !.Idx1 = idx1]

SignTransmission(m, key0, key1, idx0, idx1) ==
    LET t == Prepared(m, idx0, idx1)
    IN  [t EXCEPT !.Sig0 = Signed(key0, TransmissionBytes(t)),
                  !.Sig1 = Signed(key1, TransmissionBytes(t))]

\* What a rotation asks of the registry.
SwapOf(r) == [index |-> r.KeyIndex, key |-> r.NewPublicKey, algo |-> r.Algo]

\* asked is history: the swap the signers had before them.
SignRotation(m, key0, key1, idx0, idx1) ==
    LET r == Prepared(m, idx0, idx1)
    IN  [r EXCEPT !.Sig0 = Signed(key0, RotationBytes(r)),
                  !.Sig1 = Signed(key1, RotationBytes(r)),
                  !.asked = SwapOf(r)]

SignConformance(m, key0, key1, idx0, idx1) ==
    LET c == Prepared(m, idx0, idx1)
    IN  [c EXCEPT !.Sig0 = Signed(key0, ConformanceBytes(c)),
                  !.Sig1 = Signed(key1, ConformanceBytes(c))]

\* What was signed came from Sign: a rotation may be altered on the way, but
\* asked is what the bytes under its signature were made from.
AskedBytes == {<<RotationBytes(r), SwapOf(r)>> : r \in Rotations}

ASSUME SignedAssumption ==
    \A r \in Rotations : r.Sig0 = OddSig \/ <<r.Sig0.over, r.asked>> \in AskedBytes

-----------------------------------------------------------------------------
(* Verify: the result for the registry km *)

\* Faulty variant of distinctKeysAt: distinct indices are taken for
\* distinct keys.
distinctIndicesOnly(km, idx0, idx1) ==
    IF idx0 \notin Index \/ idx1 \notin Index THEN ErrIndexRange ELSE Nil

distinctKeysAt(km, idx0, idx1) ==
    IF idx0 \notin Index \/ idx1 \notin Index
    THEN ErrIndexRange
    ELSE IF /\ {idx0, idx1} \subseteq DOMAIN km
            /\ km[idx0].PublicKey = km[idx1].PublicKey
         THEN ErrDuplicateSigningKey
         ELSE Nil

\* Faulty variant of verifyAt: the algorithm bound to the key is not read.
verifyAtAnyAlgo(km, idx, algo, msg, sig) ==
    IF idx \notin Index THEN ErrIndexRange
    ELSE IF idx \notin DOMAIN km THEN ErrKeyMissing
    ELSE IF ~SigLenFits(sig, algo) THEN ErrBadSigLength
    ELSE IF ~PubLenFits(km[idx].PublicKey, algo) THEN ErrKeyMissing
    ELSE IF ~SigVerifies(km[idx].PublicKey, msg, sig) THEN ErrBadSignature
    ELSE Nil

verifyAt(km, idx, algo, msg, sig) ==
    IF idx \notin Index THEN ErrIndexRange
    ELSE IF idx \notin DOMAIN km THEN ErrKeyMissing
    ELSE IF km[idx].Algo # algo THEN ErrAlgoMismatch
    ELSE IF ~SigLenFits(sig, algo) THEN ErrBadSigLength
    ELSE IF ~PubLenFits(km[idx].PublicKey, algo) THEN ErrKeyMissing
    ELSE IF ~SigVerifies(km[idx].PublicKey, msg, sig) THEN ErrBadSignature
    ELSE Nil

\* verifyPair on the message m with canonical bytes msg.
verifyPair(km, m, msg) ==
    IF m.Idx0 = m.Idx1 THEN ErrSameIndex
    ELSE IF distinctKeysAt(km, m.Idx0, m.Idx1) # Nil
         THEN distinctKeysAt(km, m.Idx0, m.Idx1)
    ELSE IF verifyAt(km, m.Idx0, m.Algo, msg, m.Sig0) # Nil
         THEN verifyAt(km, m.Idx0, m.Algo, msg, m.Sig0)
    ELSE verifyAt(km, m.Idx1, m.Algo, msg, m.Sig1)

VerifyTransmission(km, t) ==
    IF t.Nonce \notin Nonce THEN ErrNonceTooShort
    ELSE IF ~KnownAlgo(t.Algo) THEN ErrUnknownAlgo
    ELSE verifyPair(km, t, TransmissionBytes(t))

VerifyConformance(km, c) ==
    IF ~KnownAlgo(c.Algo) THEN ErrUnknownAlgo
    ELSE verifyPair(km, c, ConformanceBytes(c))

\* Faulty variant of FieldErrors: KeyIndex is not range-checked.
FieldErrorsAnyIndex(r) ==
    IF r.Nonce \notin Nonce THEN {ErrNonceTooShort}
    ELSE IF ~KnownAlgo(r.Algo) THEN {ErrUnknownAlgo}
    ELSE IF ~PubLenFits(r.NewPublicKey, r.Algo) THEN {ErrUnknownAlgo}
    ELSE {}

\* The checks of a rotation that do not read the registry.
FieldErrors(r) ==
    IF r.Nonce \notin Nonce THEN {ErrNonceTooShort}
    ELSE IF ~KnownAlgo(r.Algo) THEN {ErrUnknownAlgo}
    ELSE IF r.KeyIndex \notin Index THEN {ErrIndexRange}
    ELSE IF ~PubLenFits(r.NewPublicKey, r.Algo) THEN {ErrUnknownAlgo}
    ELSE {}

\* Faulty variant of Others: the index being replaced is not exempt.
AllIndices(km, r) == DOMAIN km

\* The indices a rotation's two loops over the registry look at.
Others(km, r) == DOMAIN km \ {r.KeyIndex}

\* Faulty variant of DuplicatePass: both checks in one loop.
OnePass(km, r) ==
    {IF km[i].PublicKey = r.NewPublicKey
     THEN ErrDuplicateSigningKey ELSE ErrAlgoMismatch :
        i \in {j \in Others(km, r) : \/ km[j].PublicKey = r.NewPublicKey
                                     \/ km[j].Algo # r.Algo}}

\* Faulty variant of DuplicatePass: only the signing indices are looked at.
SignersPass(km, r) ==
    {ErrDuplicateSigningKey : i \in {j \in Others(km, r) \cap {r.Idx0, r.Idx1} :
                                       km[j].PublicKey = r.NewPublicKey}}

\* What a loop over the registry may return.  Go leaves the order of the
\* iteration open, so the first entry to fail may be any that fails.
DuplicatePass(km, r) ==
    {ErrDuplicateSigningKey :
        i \in {j \in Others(km, r) : km[j].PublicKey = r.NewPublicKey}}

\* Faulty variant of MixedPass: the loop is missing.
NoMixedPass(km, r) == {}

MixedPass(km, r) ==
    {ErrAlgoMismatch : i \in {j \in Others(km, r) : km[j].Algo # r.Algo}}

\* OperatorRotation.Verify: the results it may return.
VerifyRotation(km, r) ==
    IF FieldErrors(r) # {} THEN FieldErrors(r)
    ELSE IF DuplicatePass(km, r) # {} THEN DuplicatePass(km, r)
    ELSE IF MixedPass(km, r) # {} THEN MixedPass(km, r)
    ELSE {verifyPair(km, r, RotationBytes(r))}

-----------------------------------------------------------------------------
(* The registry and the coordinator that keeps it *)

\* The registry with the swap s made.
Install(km, s) ==
    [i \in DOMAIN km \cup {s.index} |->
        IF i = s.index THEN [PublicKey |-> s.key, Algo |-> s.algo] ELSE km[i]]

Swap == [index : Index, key : Key, algo : Algo]

Accept(m, asked, made) ==
    accepted' = [signers |-> {m.Sig0.by, m.Sig1.by},
                 asked |-> asked, made |-> made]

NothingAccepted == [signers |-> {}, asked |-> {}, made |-> {}]

\* Registration is out of band, so nothing here says what it put in place:
\* indices may be empty, keys repeated or malformed, algorithms mixed.
Init ==
    /\ keymap \in UNION {[D -> KeyRecord] : D \in SUBSET Index}
    /\ pending = {}
    /\ accepted = NothingAccepted

ReceiveTransmission(t) ==
    /\ VerifyTransmission(keymap, t) = Nil
    /\ Accept(t, {}, {})
    /\ UNCHANGED <<keymap, pending>>

ReceiveConformance(c) ==
    /\ VerifyConformance(keymap, c) = Nil
    /\ Accept(c, {}, {})
    /\ UNCHANGED <<keymap, pending>>

\* A request handler that has its nil and has not applied the swap yet.
AuthorizeRotation(r) ==
    /\ Cardinality(pending) < MaxPending
    /\ Nil \in VerifyRotation(keymap, r)
    /\ pending' = pending \cup {SwapOf(r)}
    /\ Accept(r, {r.asked}, {SwapOf(r)})
    /\ UNCHANGED keymap

ApplySwap(s) ==
    /\ keymap' = Install(keymap, s)
    /\ pending' = pending \ {s}
    /\ UNCHANGED accepted

\* A coordinator that verifies and applies a rotation under one lock.
Rotate(r) ==
    /\ Nil \in VerifyRotation(keymap, r)
    /\ keymap' = Install(keymap, SwapOf(r))
    /\ Accept(r, {r.asked}, {SwapOf(r)})
    /\ UNCHANGED pending

Receive ==
    \/ \E t \in Transmissions : ReceiveTransmission(t)
    \/ \E c \in Responses : ReceiveConformance(c)

\* Handlers run concurrently: others may act between a Verify and its swap.
Next ==
    \/ Receive
    \/ \E r \in Rotations : AuthorizeRotation(r)
    \/ \E s \in pending : ApplySwap(s)

\* Rotations are handled one at a time.
SerialNext ==
    \/ Receive
    \/ \E r \in Rotations : Rotate(r)

Spec       == Init /\ [][Next]_vars
SerialSpec == Init /\ [][SerialNext]_vars

-----------------------------------------------------------------------------
(* Properties *)

\* The registry maps indices in range to key records, and the swaps waiting
\* to be applied keep it so (verifyAt and OperatorRotation.Verify).
TypeOK ==
    /\ DOMAIN keymap \subseteq Index
    /\ keymap \in [DOMAIN keymap -> KeyRecord]
    /\ pending \subseteq [index : Index, key : Ed25519Key, algo : {AlgoEd25519}]

\* Whatever was registered and however rotations interleave, no message is
\* accepted on the signatures of one private key: 2-of-7 does not collapse
\* to 1-of-1 (ErrDuplicateSigningKey).
TwoDistinctSigners ==
    accepted = NothingAccepted \/ Cardinality(accepted.signers) = 2

\* The swap a rotation makes is the one its two signers had before them: the
\* new key cannot be replaced on the way (OperatorRotation.CanonicalBytes).
MadeAsAsked == accepted.asked = accepted.made

\* Verify of a rotation returns one and the same error in whatever order Go
\* iterates over the registry (the two passes of OperatorRotation.Verify).
OneVerdict == \A r \in Rotations : Cardinality(VerifyRotation(keymap, r)) = 1

KeysDistinct(km) ==
    \A i, j \in DOMAIN km : km[i].PublicKey = km[j].PublicKey => i = j

\* A rotation applied as soon as it is verified never makes two indices hold
\* one key, be the signing indices among them or not (SPEC 11.0 rule 5a).
DistinctKept == [][KeysDistinct(keymap) => KeysDistinct(keymap')]_vars

\* Once a rotation has been applied the whole set has one algorithm: no
\* rotation leaves a mixed set behind (the second pass).
UniformAfterRotation ==
    [][keymap' # keymap =>
        \A i \in DOMAIN keymap' : keymap'[i].Algo = AlgoEd25519]_vars

\* Every change of the registry was signed, as made, by two distinct keys
\* that were registered when it was made.
SwapsAuthorized ==
    [][keymap' # keymap =>
        /\ \E s \in accepted'.asked : keymap' = Install(keymap, s)
        /\ Cardinality(accepted'.signers) = 2
        /\ accepted'.signers \subseteq {keymap[i].PublicKey : i \in DOMAIN keymap}]_vars

\* A registry as the registration rules want it.
Proper(km) ==
    /\ km \in [DOMAIN km -> [PublicKey : Ed25519Key, Algo : {AlgoEd25519}]]
    /\ KeysDistinct(km)

\* What an operator holding the keys of indices i and j can send.
Template == [KeyIndex |-> 0, NewPublicKey |-> {}, Challenge |-> {},
             Nonce |-> CHOOSE n \in Nonce : TRUE, Algo |-> NoAlgo, Idx0 |-> 0,
             Idx1 |-> 0, Sig0 |-> OddSig, Sig1 |-> OddSig, asked |-> {}]

Refresh(x, new) == [Template EXCEPT !.KeyIndex = x, !.NewPublicKey = new]

\* The bytes an operator signs in what follows; a signature over them has the
\* right length.
OwnBytes ==
    {TransmissionBytes(Prepared(Template, i, j)) : i, j \in Index}
    \cup {ConformanceBytes(Prepared(Template, i, j)) : i, j \in Index}
    \cup {RotationBytes(Prepared(Refresh(x, new), i, j)) :
             x, i, j \in Index, new \in Ed25519Key}

ASSUME OddSigAssumption ==
    \A k \in Ed25519Key : \A msg \in OwnBytes : Signed(k, msg) # OddSig

\* A proper registry never locks its operator out: with any two of its keys
\* a transmission, a response and a rotation of any index to any key that no
\* other index holds are accepted (refreshing a key in place included).
NeverLockedOut ==
    Proper(keymap) =>
        \A i, j \in DOMAIN keymap : i # j =>
            LET k0 == keymap[i].PublicKey
                k1 == keymap[j].PublicKey
            IN  /\ VerifyTransmission(keymap,
                       SignTransmission(Template, k0, k1, i, j)) = Nil
                /\ VerifyConformance(keymap,
                       SignConformance(Template, k0, k1, i, j)) = Nil
                /\ \A x \in Index, new \in Ed25519Key :
                    KeysDistinct(Install(keymap, [index |-> x, key |-> new,
                                                  algo |-> AlgoEd25519]))
                    => VerifyRotation(keymap,
                           SignRotation(Refresh(x, new), k0, k1, i, j)) = {Nil}

\* A registry that is proper stays so under rotations applied as verified.
ProperKept == [][Proper(keymap) => Proper(keymap')]_vars

-----------------------------------------------------------------------------
(* The verification rules as SPEC 11.0 states them, free of their order *)

\* Rules 2 to 7 for a message m with canonical bytes msg.
PairRules(km, m, msg) ==
    /\ m.Algo = AlgoEd25519
    /\ m.Idx0 # m.Idx1
    /\ {m.Idx0, m.Idx1} \subseteq DOMAIN km
    /\ OddSig \notin {m.Sig0, m.Sig1}
    /\ \E k0, k1 \in Ed25519Key :
        /\ k0 # k1
        /\ km[m.Idx0] = [PublicKey |-> k0, Algo |-> m.Algo]
        /\ km[m.Idx1] = [PublicKey |-> k1, Algo |-> m.Algo]
        /\ m.Sig0 = Signed(k0, msg)
        /\ m.Sig1 = Signed(k1, msg)

\* Transmissions and responses are accepted exactly when the rules hold.
RulesDecide ==
    /\ \A t \in Transmissions :
        VerifyTransmission(keymap, t) = Nil
            <=> t.Nonce \in Nonce /\ PairRules(keymap, t, TransmissionBytes(t))
    /\ \A c \in Responses :
        VerifyConformance(keymap, c) = Nil
            <=> PairRules(keymap, c, ConformanceBytes(c))

\* A rotation is accepted exactly when the rules of 11.0 and 11.2 hold.
RotationRulesDecide ==
    \A r \in Rotations :
        Nil \in VerifyRotation(keymap, r) <=>
            /\ r.Nonce \in Nonce
            /\ r.KeyIndex \in Index
            /\ r.NewPublicKey \in Ed25519Key
            /\ \A i \in DOMAIN keymap \ {r.KeyIndex} :
                /\ keymap[i].PublicKey # r.NewPublicKey
                /\ keymap[i].Algo = r.Algo
            /\ PairRules(keymap, r, RotationBytes(r))

\* The order the comment on Verify gives: a key at each index with the signed
\* algorithm, then both signature lengths, then both signatures.
DocumentedOrder ==
    \A t \in Transmissions :
        /\ t.Nonce \in Nonce
        /\ KnownAlgo(t.Algo)
        /\ t.Idx0 # t.Idx1
        /\ {t.Idx0, t.Idx1} \subseteq Index
        /\ ~({t.Idx0, t.Idx1} \subseteq DOMAIN keymap)
        => VerifyTransmission(keymap, t) = ErrKeyMissing

=============================================================================
