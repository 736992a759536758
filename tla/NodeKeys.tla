------------------------------ MODULE NodeKeys ------------------------------
(***************************************************************************)
(* The life of one node's key (package identity): rotations signed by the  *)
(* outgoing key, revocations signed by the key they kill, and a            *)
(* KeyLifecycleCoordinator that verifies them and keeps the trusted key.   *)
(* Messages are lost, repeated and reordered: what a node has sent stays   *)
(* on the wire, and any of it may be delivered at any time, or never.      *)
(*                                                                         *)
(* Abstractions.  A public key stands for its key pair; the signature of a *)
(* message is the key that made it, module Messages being about what bytes *)
(* it covers.  There is one node, so NodeID is left out; the instants and  *)
(* the Seq of a revocation are read by no check.                           *)
(***************************************************************************)
EXTENDS Naturals, Sequences, FiniteSets

CONSTANTS
    Key,          \* public keys of ed25519.PublicKeySize bytes
    OddKey,       \* byte strings of another length, in a key's place
    AlgoEd25519,  \* the algorithm name v0 supports
    OtherAlgo,    \* algorithm names it does not support
    NoKey,        \* the coordinator trusts no key
    MaxChain,     \* bound: keys the node names
    MaxSeq,       \* bound: rotations the node signs
    MaxRevoked    \* bound: revocations it signs

Algo == {AlgoEd25519} \cup OtherAlgo

ASSUME KeyAssumption == Key \cap OddKey = {} /\ NoKey \notin Key \cup OddKey
ASSUME AlgoAssumption == AlgoEd25519 \notin OtherAlgo

VARIABLES
    chain,       \* the keys the node has named, in order; it signs with the last
    nodeSeq,     \* the Seq of the node's last rotation
    rotations,   \* the rotations the node has sent,
    revocations, \* and the revocations
    trusted,     \* the key the coordinator trusts, or NoKey
    lastSeq,     \* the Seq of the last rotation it accepted
    at           \* history: the place in chain where trusted was named

nodeVars  == <<chain, nodeSeq, rotations, revocations>>
coordVars == <<trusted, lastSeq, at>>
vars      == <<nodeVars, coordVars>>

Keys == {chain[i] : i \in DOMAIN chain}

-----------------------------------------------------------------------------
(* Verify *)

VerifySig(pub, by) == pub \in Key /\ by = pub

\* Faulty variant of RotationVerify: the successor's length is not checked.
RotationVerifyAnyLength(r, currentPub) ==
    /\ r.Algo = AlgoEd25519
    /\ VerifySig(currentPub, r.by)

\* KeyRotation.Verify.
RotationVerify(r, currentPub) ==
    /\ r.Algo = AlgoEd25519
    /\ r.NewPublicKey \in Key
    /\ VerifySig(currentPub, r.by)

\* Faulty variant of RevocationVerify: the key it names is not compared with
\* the trusted one.
RevocationVerifySelf(v, trustedPub) == VerifySig(v.RevokedPublicKey, v.by)

\* KeyRevocation.Verify.
RevocationVerify(v, trustedPub) ==
    /\ v.RevokedPublicKey \in Key
    /\ v.RevokedPublicKey = trustedPub
    /\ VerifySig(v.RevokedPublicKey, v.by)

\* Faulty variants of Newer: no gate, and a gate that is one too high.
NewerOrNot(r) == TRUE
NewerByTwo(r) == r.Seq > lastSeq + 1

\* The coordinator's gate on the Seq of rotations.
Newer(r) == r.Seq > lastSeq

-----------------------------------------------------------------------------
(* The node *)

Init ==
    /\ \E k \in Key : chain = <<k>> /\ trusted = k
    /\ nodeSeq = 0 /\ lastSeq = 0
    /\ rotations = {} /\ revocations = {}
    /\ at = 1

\* The rotation the node signs next, place being where it names new.
NextRotation(new, algo, place) ==
    [NewPublicKey |-> new, Algo |-> algo, Seq |-> nodeSeq + 1,
     by |-> chain[Len(chain)], place |-> place]

Send(r) ==
    /\ nodeSeq < MaxSeq
    /\ nodeSeq' = nodeSeq + 1
    /\ rotations' = rotations \cup {r}
    /\ UNCHANGED <<revocations, coordVars>>

\* The node names a successor, a key it used before included, and signs with
\* it from then on.
SignRotation(new) ==
    /\ Len(chain) < MaxChain
    /\ Send(NextRotation(new, AlgoEd25519, Len(chain) + 1))
    /\ chain' = Append(chain, new)

\* Sign does not look at the successor: a malformed one is signed and sent,
\* and the node stays with its key.
SignMalformed(new, algo) ==
    /\ new \in OddKey \/ algo \in OtherAlgo
    /\ Send(NextRotation(new, algo, 0))
    /\ UNCHANGED chain

\* A revocation of any of its keys; Sign signs with whatever key it is given.
SignRevocation(k, by) ==
    /\ Cardinality(revocations) < MaxRevoked
    /\ revocations' = revocations \cup {[RevokedPublicKey |-> k, by |-> by]}
    /\ UNCHANGED <<chain, nodeSeq, rotations, coordVars>>

-----------------------------------------------------------------------------
(* The coordinator: verification and its effect are one step *)

Accepts(r) == RotationVerify(r, trusted) /\ Newer(r)

RotateKey(r) ==
    /\ Accepts(r)
    /\ trusted' = r.NewPublicKey
    /\ lastSeq' = r.Seq
    /\ at' = r.place
    /\ UNCHANGED nodeVars

RevokeKey(v) ==
    /\ RevocationVerify(v, trusted)
    /\ trusted' = NoKey
    /\ UNCHANGED <<nodeVars, lastSeq, at>>

\* Enrolment after a revocation is out of band, with a new key pair.
Enrol(k) ==
    /\ trusted = NoKey
    /\ Len(chain) < MaxChain
    /\ k \notin Keys
    /\ chain' = Append(chain, k)
    /\ trusted' = k
    /\ at' = Len(chain')
    /\ UNCHANGED <<nodeSeq, rotations, revocations, lastSeq>>

Next ==
    \/ \E k \in Key : SignRotation(k)
    \/ \E k \in Key \cup OddKey, a \in Algo : SignMalformed(k, a)
    \/ \E k, by \in Keys : SignRevocation(k, by)
    \/ \E r \in rotations : RotateKey(r)
    \/ \E v \in revocations : RevokeKey(v)
    \/ \E k \in Key : Enrol(k)

Spec == Init /\ [][Next]_vars

-----------------------------------------------------------------------------
(* Properties *)

Rotation == [NewPublicKey : Key \cup OddKey, Algo : Algo, Seq : Nat,
             by : Key, place : Nat]
Revocation == [RevokedPublicKey : Keys, by : Keys]

\* Whatever successor a rotation names, the coordinator never trusts a
\* malformed key, and the key it trusts is the one named where it stands in
\* the node's list (KeyRotation.Verify).
TypeOK ==
    /\ chain \in Seq(Key)
    /\ nodeSeq \in Nat /\ lastSeq \in Nat
    /\ rotations \subseteq Rotation
    /\ revocations \subseteq Revocation
    /\ at \in DOMAIN chain
    /\ trusted \in {chain[at], NoKey}

\* Trust moves forward along the keys the node named, in spite of lost,
\* repeated and reordered rotations and of keys that are named again; it is
\* lost only to a revocation of the very key, and regained by enrolment only.
SelfSigned(v) == v.by = v.RevokedPublicKey

Trust == INSTANCE KeyTrust WITH
            at      <- IF trusted = NoKey THEN 0 ELSE at,
            revoked <- {v.RevokedPublicKey : v \in {w \in revocations : SelfSigned(w)}}
ForwardTrust == Trust!Spec

\* The coordinator never strands a node it trusts: if it is behind, one of
\* the rotations already sent will be accepted when it is sent again.
CanCatchUp ==
    trusted # NoKey =>
        \/ at = Len(chain)
        \/ \E r \in rotations : Accepts(r)

\* The comment on RevokeKey: a validly signed revocation is honoured
\* unconditionally, so whenever it arrives.
HonouredUnconditionally ==
    trusted # NoKey =>
        \A v \in revocations : SelfSigned(v) => RevocationVerify(v, trusted)

=============================================================================
