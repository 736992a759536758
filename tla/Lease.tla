-------------------------------- MODULE Lease --------------------------------
(***************************************************************************)
(* Storage leases (package lease): offers and renewals, exits, and the     *)
(* challenges by which a node proves that it still holds the sealed shard, *)
(* between one node and a StorageCoordinator.  What either has sent stays  *)
(* on the wire: it arrives at any time, late, repeatedly, or never.        *)
(*                                                                         *)
(* Abstractions.  SHA-256 is injective: a digest is the tuple of what was  *)
(* hashed.  A signed message is a record of what its receiver looks at,    *)
(* module Messages being about its bytes.  A lease that the node has left  *)
(* is not offered again: declines and releases carry no Seq, so a late one *)
(* would end the new offer.  Expiry is left out, being read by no code.    *)
(***************************************************************************)
EXTENDS Integers, Sequences

CONSTANTS
    LeaseID,
    Nonce,     \* the nonces a coordinator draws, each once
    Sealed,    \* the bytes of the shard under each lease
    MaxInt,    \* the largest int64
    Window,    \* the offsets and lengths tried, as pairs
    MaxSeq     \* bound: renewals of a lease

MinInt == -MaxInt - 1
Int64  == MinInt .. MaxInt

ASSUME IntAssumption   == MaxInt \in Nat /\ MaxSeq \in Nat
ASSUME ShardAssumption ==
    /\ DOMAIN Sealed = LeaseID
    /\ \A l \in LeaseID :
        Sealed[l] \in Seq(Nat) /\ Len(Sealed[l]) <= MaxInt
ASSUME WindowAssumption == Window \subseteq Int64 \X Int64

VARIABLES
    offered,     \* per lease, the leases signed so far: Seq 1, ..., offered
    challenges,  \* the challenges made
    used,        \* the (LeaseID, Nonce) of the responses accepted
    credits,     \* per lease, the responses metered
    ended,       \* leases whose decline or release is recorded
    held,        \* per lease, the Seq of the lease the node holds, or 0
    shard,       \* leases whose sealed bytes the node has
    left,        \* leases it has signed a decline or a release of
    responses,   \* the responses it has signed
    read         \* history: the challenges whose range it read

coordVars == <<offered, challenges, used, credits, ended>>
nodeVars  == <<held, shard, left, responses, read>>
vars      == <<coordVars, nodeVars>>

-----------------------------------------------------------------------------
(* Answering a challenge *)

Challenge == [LeaseID : LeaseID, Nonce : Nonce, Offset : Int64, Length : Int64]

\* Go's + and - of int64.
Wrap(n) == IF n > MaxInt THEN n - 2 * (MaxInt + 1)
           ELSE IF n < MinInt THEN n + 2 * (MaxInt + 1) ELSE n

\* The conversion to uint64.
Unsigned(n) == IF n < 0 THEN n + 2 * (MaxInt + 1) ELSE n

\* Faulty variant of ProofDigest: the answer does not depend on the nonce.
ProofDigestUnsalted(nonce, offset, length, bytes) ==
    <<Unsigned(offset), Unsigned(length), bytes>>

ProofDigest(nonce, offset, length, bytes) ==
    <<nonce, Unsigned(offset), Unsigned(length), bytes>>

\* Faulty variants of OutOfRange: the sum overflows; the last byte is out of
\* reach.
OutOfRangeBySum(l, offset, length) ==
    \/ offset < 0
    \/ length < 1
    \/ Wrap(offset + length) > Len(Sealed[l])
OutOfRangeAtEnd(l, offset, length) ==
    \/ offset < 0
    \/ length < 1
    \/ offset >= Wrap(Len(Sealed[l]) - length)

\* The guard of ProofOverShard.
OutOfRange(l, offset, length) ==
    \/ offset < 0
    \/ length < 1
    \/ offset > Wrap(Len(Sealed[l]) - length)

\* The digest ProofOverShard returns once the guard has passed.
ProofOverShard(c) ==
    ProofDigest(c.Nonce, c.Offset, c.Length,
                SubSeq(Sealed[c.LeaseID], c.Offset + 1, c.Offset + c.Length))

\* What a challenge asks for, in integers without a bound: one byte or more,
\* all of them in the shard.
InShard(c) ==
    /\ c.Length >= 1
    /\ c.Offset + 1 .. c.Offset + c.Length \subseteq DOMAIN Sealed[c.LeaseID]

-----------------------------------------------------------------------------
(* The coordinator *)

Init ==
    /\ offered = [l \in LeaseID |-> 0]
    /\ challenges = {}
    /\ used = {}
    /\ credits = [l \in LeaseID |-> 0]
    /\ ended = {}
    /\ held = [l \in LeaseID |-> 0]
    /\ shard = {}
    /\ left = {}
    /\ responses = {}
    /\ read = {}

\* A new lease, or a renewal with the next Seq.
OfferLease(l) ==
    /\ l \notin ended
    /\ offered[l] < MaxSeq
    /\ offered' = [offered EXCEPT ![l] = @ + 1]
    /\ UNCHANGED <<challenges, used, credits, ended, nodeVars>>

\* A challenge against a lease, of any range, with a nonce of its own.
MakeChallenge(l, n, w) ==
    /\ offered[l] > 0
    /\ l \notin ended
    /\ \A c \in challenges : c.Nonce # n
    /\ challenges' = challenges \cup
        {[LeaseID |-> l, Nonce |-> n, Offset |-> w[1], Length |-> w[2]]}
    /\ UNCHANGED <<offered, used, credits, ended, nodeVars>>

\* The digest that is expected of a challenge was computed from the shard.
Expected(r) == InShard(r.challenge) /\ r.Digest = ProofOverShard(r.challenge)

\* Faulty variant of Unused: nonces are not remembered.
UnusedOrNot(c) == TRUE

Unused(c) == <<c.LeaseID, c.Nonce>> \notin used

\* SubmitProof: a response that is not accepted changes nothing.
SubmitProof(r) ==
    /\ r.challenge \in challenges
    /\ Expected(r)
    /\ Unused(r.challenge)
    /\ r.challenge.LeaseID \notin ended
    /\ used' = used \cup {<<r.challenge.LeaseID, r.challenge.Nonce>>}
    /\ credits' = [credits EXCEPT ![r.challenge.LeaseID] = @ + 1]
    /\ UNCHANGED <<offered, challenges, ended, nodeVars>>

\* DeclineLease and ReleaseLease.
RecordExit(l) ==
    /\ ended' = ended \cup {l}
    /\ UNCHANGED <<offered, challenges, used, credits, nodeVars>>

-----------------------------------------------------------------------------
(* The node *)

\* Faulty variants of NewerLease: no gate, and a gate that is one too high.
NewerLeaseOrNot(l, seq) == TRUE
NewerLeaseByTwo(l, seq) == seq > held[l] + 1

\* A renewal has a strictly higher Seq.
NewerLease(l, seq) == seq > held[l]

\* One of the leases signed so far arrives; with the first that it takes the
\* node stores the shard.
TakeLease(l, seq) ==
    /\ l \notin left
    /\ NewerLease(l, seq)
    /\ held' = [held EXCEPT ![l] = seq]
    /\ shard' = IF held[l] = 0 THEN shard \cup {l} ELSE shard
    /\ UNCHANGED <<left, responses, read, coordVars>>

\* LeaseDecline of an offer, LeaseRelease of a lease that was taken.
Decline(l) ==
    /\ offered[l] > 0 /\ held[l] = 0 /\ l \notin left
    /\ left' = left \cup {l}
    /\ UNCHANGED <<held, shard, responses, read, coordVars>>

\* Faulty variant of Release: the node goes on holding what it has left.
ReleaseHolding(l) ==
    /\ held[l] > 0 /\ l \notin left
    /\ left' = left \cup {l}
    /\ UNCHANGED <<held, shard, responses, read, coordVars>>

Release(l) ==
    /\ held[l] > 0 /\ l \notin left
    /\ left' = left \cup {l}
    /\ shard' = shard \ {l}
    /\ UNCHANGED <<held, responses, read, coordVars>>

\* The bytes are lost; the lease goes on.
LoseShard(l) ==
    /\ shard' = shard \ {l}
    /\ UNCHANGED <<held, left, responses, read, coordVars>>

Respond(c, digest) ==
    responses' = responses \cup {[challenge |-> c, Digest |-> digest]}

\* A response over the range that ProofOverShard has checked and read.
Answer(c) ==
    /\ c.LeaseID \in shard
    /\ c \notin read
    /\ ~OutOfRange(c.LeaseID, c.Offset, c.Length)
    /\ Respond(c, ProofOverShard(c))
    /\ read' = read \cup {c}
    /\ UNCHANGED <<held, shard, left, coordVars>>

\* A node that has lost the shard answers with a digest it has on record.
AnswerFromRecord(c, r) ==
    /\ held[c.LeaseID] > 0
    /\ c.LeaseID \notin shard \cup left
    /\ Respond(c, r.Digest)
    /\ UNCHANGED <<held, shard, left, read, coordVars>>

-----------------------------------------------------------------------------

Next ==
    \/ \E l \in LeaseID : OfferLease(l)
    \/ \E l \in LeaseID, n \in Nonce, w \in Window : MakeChallenge(l, n, w)
    \/ \E r \in responses : SubmitProof(r)
    \/ \E l \in left : RecordExit(l)
    \/ \E l \in LeaseID : \E seq \in 1 .. offered[l] : TakeLease(l, seq)
    \/ \E l \in LeaseID : Decline(l)
    \/ \E l \in LeaseID : Release(l)
    \/ \E l \in shard : LoseShard(l)
    \/ \E c \in challenges : Answer(c)
    \/ \E c \in challenges, r \in responses : AnswerFromRecord(c, r)

Spec == Init /\ [][Next]_vars

\* A node goes on polling, answers what it finds, and submits its responses
\* until they are recorded.
FairSpec ==
    /\ Spec
    /\ WF_vars(\E l \in LeaseID : \E seq \in 1 .. offered[l] : TakeLease(l, seq))
    /\ WF_vars(\E c \in challenges : Answer(c))
    /\ WF_vars(\E r \in responses : SubmitProof(r))

-----------------------------------------------------------------------------
(* Properties *)

Response == [challenge : challenges, Digest : {ProofOverShard(c) : c \in read}]

\* What there is has its type and is of what was there before: responses of
\* challenges, ends of leases that were left, and a shard only of a lease that
\* was taken and not left.
TypeOK ==
    /\ offered \in [LeaseID -> 0 .. MaxSeq]
    /\ held \in [LeaseID -> Nat] /\ \A l \in LeaseID : held[l] <= offered[l]
    /\ challenges \subseteq Challenge
    /\ read \subseteq {c \in challenges : InShard(c)}
    /\ responses \subseteq Response
    /\ used \subseteq LeaseID \X Nonce
    /\ credits \in [LeaseID -> Nat]
    /\ shard \subseteq {l \in LeaseID \ left : held[l] > 0}
    /\ ended \subseteq left /\ left \subseteq LeaseID

\* A node answers a challenge exactly when all of the range is in the shard,
\* and a range outside it never reaches the slice (ProofOverShard: the bound
\* is checked without an overflow for any offset and length).
RangeExact ==
    \A c \in challenges : ~OutOfRange(c.LeaseID, c.Offset, c.Length) <=> InShard(c)

Nonces(cs) == {<<c.LeaseID, c.Nonce>> : c \in cs}

\* Metering keeps the promise of module Meter: once per challenge, for bytes
\* that were read for that very challenge, and not after the end of a lease
\* (ProofDigest, SubmitProof, LeaseRelease); renewals are not undone.
M == INSTANCE Meter WITH term <- held, asked <- Nonces(challenges),
                         proved <- Nonces(read), metered <- used
KeepsMeter == M!Spec

\* A challenge that asks for bytes of a shard is metered in the end, unless
\* the node loses the shard or leaves the lease (ProofOverShard: for any
\* range in the shard the guard adds nothing).
MeteredEventually ==
    \A l \in LeaseID, n \in Nonce :
        (l \in shard /\ \E c \in challenges :
                            c.LeaseID = l /\ c.Nonce = n /\ InShard(c))
        ~> (<<l, n>> \in used \/ l \notin shard)

\* A node comes to hold every renewal, or one after it, or leaves, in
\* whatever order and however often offers arrive (StorageLease.Seq).
RenewedEventually ==
    \A l \in LeaseID : \A seq \in 1 .. MaxSeq :
        (offered[l] >= seq) ~> (held[l] >= seq \/ l \in left)

=============================================================================
