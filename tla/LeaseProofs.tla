----------------------------- MODULE LeaseProofs -----------------------------
(***************************************************************************)
(* Proofs about storage leases, for every set of leases, shards, nonces,   *)
(* ranges and width of integers.  The inductive invariant is TypeOK with   *)
(* the uniqueness of nonces: a digest binds the nonce, so a response that  *)
(* has the digest expected of a challenge was computed for it, and the     *)
(* range was read for it.                                                  *)
(***************************************************************************)
EXTENDS Lease, TLAPS

NoncesOnce == \A c, d \in challenges : c.Nonce = d.Nonce => c = d

IInv == TypeOK /\ NoncesOnce

-----------------------------------------------------------------------------
(* The range check *)

\* The guard of ProofOverShard is exact although it computes with int64.
LEMMA GuardExact ==
    ASSUME NEW c \in Challenge
    PROVE  ~OutOfRange(c.LeaseID, c.Offset, c.Length) <=> InShard(c)
<1> DEFINE n == Len(Sealed[c.LeaseID])
<1>1. c.LeaseID \in LeaseID /\ c.Offset \in Int64 /\ c.Length \in Int64
  BY DEF Challenge
<1>2. MaxInt \in Nat /\ n \in 0 .. MaxInt
  BY <1>1, IntAssumption, ShardAssumption
<1>3. DOMAIN Sealed[c.LeaseID] = 1 .. n
  BY <1>1, ShardAssumption
<1>4. c.Offset \in Int /\ c.Length \in Int
      /\ c.Offset <= MaxInt /\ c.Length <= MaxInt
  BY <1>1, <1>2 DEF Int64, MinInt
<1>5. c.Length >= 1 => Wrap(n - c.Length) = n - c.Length
  BY <1>2, <1>4 DEF Wrap, MinInt
<1>6. InShard(c) <=> c.Length >= 1 /\ c.Offset >= 0 /\ c.Offset + c.Length <= n
  <2>1. ASSUME c.Length >= 1, (c.Offset + 1 .. c.Offset + c.Length) \subseteq 1 .. n
        PROVE  c.Offset >= 0 /\ c.Offset + c.Length <= n
    <3>1. c.Offset + 1 \in 1 .. n /\ c.Offset + c.Length \in 1 .. n
      BY <1>4, <2>1
    <3> QED
      BY <1>2, <1>4, <3>1
  <2>2. ASSUME c.Length >= 1, c.Offset >= 0, c.Offset + c.Length <= n
        PROVE  (c.Offset + 1 .. c.Offset + c.Length) \subseteq 1 .. n
    BY <1>2, <1>4, <2>2
  <2> QED
    BY <1>3, <2>1, <2>2 DEF InShard
<1> HIDE DEF n
<1>7. OutOfRange(c.LeaseID, c.Offset, c.Length)
        <=> c.Offset < 0 \/ c.Length < 1 \/ c.Offset > Wrap(n - c.Length)
  BY DEF OutOfRange, n
<1> QED
  BY <1>2, <1>4, <1>5, <1>6, <1>7

-----------------------------------------------------------------------------
(* The invariant *)

\* What a response holds, whenever it is looked at.
LEMMA ResponseHolds ==
    ASSUME TypeOK, NEW r \in responses
    PROVE  r.challenge \in challenges /\ \E d \in read : r.Digest = ProofOverShard(d)
BY DEF TypeOK, Response

\* The digest of one challenge is not that of another.
LEMMA DigestBindsNonce ==
    ASSUME NEW c, NEW d, ProofOverShard(c) = ProofOverShard(d)
    PROVE  c.Nonce = d.Nonce
BY DEF ProofOverShard, ProofDigest

LEMMA InitIInv == Init => IInv
BY IntAssumption DEF Init, IInv, TypeOK, NoncesOnce, Response

LEMMA OfferLeaseIInv ==
    ASSUME IInv, NEW l \in LeaseID, OfferLease(l)
    PROVE  IInv'
<1>1. offered' \in [LeaseID -> 0 .. MaxSeq] /\ \A k \in LeaseID : held[k] <= offered'[k]
  BY IntAssumption DEF IInv, TypeOK, OfferLease
<1> QED
  BY <1>1 DEF IInv, TypeOK, NoncesOnce, OfferLease, nodeVars, Response

LEMMA MakeChallengeIInv ==
    ASSUME IInv, NEW l \in LeaseID, NEW n \in Nonce, NEW w \in Window,
           MakeChallenge(l, n, w)
    PROVE  IInv'
<1> DEFINE c == [LeaseID |-> l, Nonce |-> n, Offset |-> w[1], Length |-> w[2]]
<1>1. c \in Challenge /\ c.Nonce = n
  BY WindowAssumption DEF Challenge
<1>2. challenges' = challenges \cup {c} /\ \A d \in challenges : d.Nonce # n
  BY DEF MakeChallenge
<1> HIDE DEF c
<1>3. UNCHANGED <<offered, used, credits, ended, held, shard, left, responses, read>>
  BY DEF MakeChallenge, nodeVars
<1>4. challenges' \subseteq Challenge /\ read \subseteq {d \in challenges' : InShard(d)}
  BY <1>1, <1>2 DEF IInv, TypeOK
<1>5. responses \subseteq [challenge : challenges', Digest : {ProofOverShard(d) : d \in read}]
  BY <1>2 DEF IInv, TypeOK, Response
<1>6. TypeOK'
  BY <1>3, <1>4, <1>5 DEF IInv, TypeOK, Response
<1>7. NoncesOnce'
  BY <1>1, <1>2 DEF IInv, NoncesOnce
<1> QED
  BY <1>6, <1>7 DEF IInv

LEMMA SubmitProofIInv ==
    ASSUME IInv, NEW r \in responses, SubmitProof(r)
    PROVE  IInv'
<1> DEFINE c == r.challenge
<1>1. c \in challenges /\ c.LeaseID \in LeaseID /\ c.Nonce \in Nonce
  BY DEF IInv, TypeOK, SubmitProof, Challenge
<1>2. used' \subseteq LeaseID \X Nonce /\ credits' \in [LeaseID -> Nat]
  BY <1>1 DEF IInv, TypeOK, SubmitProof
<1> QED
  BY <1>2 DEF IInv, TypeOK, NoncesOnce, SubmitProof, nodeVars, Response

LEMMA RecordExitIInv ==
    ASSUME IInv, NEW l \in left, RecordExit(l)
    PROVE  IInv'
BY DEF IInv, TypeOK, NoncesOnce, RecordExit, nodeVars, Response

LEMMA TakeLeaseIInv ==
    ASSUME IInv, NEW l \in LeaseID, NEW seq \in 1 .. offered[l], TakeLease(l, seq)
    PROVE  IInv'
<1>1. seq \in Nat /\ seq <= offered[l] /\ l \notin left
  BY IntAssumption DEF IInv, TypeOK, TakeLease
<1>2. held' \in [LeaseID -> Nat] /\ \A k \in LeaseID : held'[k] <= offered[k]
  BY <1>1 DEF IInv, TypeOK, TakeLease
<1>3. shard' \subseteq {k \in LeaseID \ left : held'[k] > 0}
  BY <1>1 DEF IInv, TypeOK, TakeLease
<1> QED
  BY <1>2, <1>3 DEF IInv, TypeOK, NoncesOnce, TakeLease, coordVars, Response

LEMMA LeaveIInv ==
    ASSUME IInv, NEW l \in LeaseID, Decline(l) \/ Release(l)
    PROVE  IInv'
<1>1. left' = left \cup {l} /\ shard' \subseteq {k \in LeaseID \ left' : held[k] > 0}
  BY DEF IInv, TypeOK, Decline, Release
<1>2. UNCHANGED <<offered, challenges, used, credits, ended, held, responses, read>>
  BY DEF Decline, Release, coordVars
<1> QED
  BY <1>1, <1>2 DEF IInv, TypeOK, NoncesOnce, Response

LEMMA LoseShardIInv ==
    ASSUME IInv, NEW l \in shard, LoseShard(l)
    PROVE  IInv'
BY DEF IInv, TypeOK, NoncesOnce, LoseShard, coordVars, Response

LEMMA AnswerIInv ==
    ASSUME IInv, NEW c \in challenges, Answer(c)
    PROVE  IInv'
<1>1. InShard(c)
  BY GuardExact DEF IInv, TypeOK, Answer
<1>2. read' = read \cup {c}
      /\ responses' = responses \cup {[challenge |-> c, Digest |-> ProofOverShard(c)]}
  BY DEF Answer, Respond
<1>3. read' \subseteq {d \in challenges : InShard(d)}
  BY <1>1, <1>2 DEF IInv, TypeOK
<1>4. responses' \subseteq [challenge : challenges, Digest : {ProofOverShard(d) : d \in read'}]
  BY <1>2 DEF IInv, TypeOK, Response
<1>5. UNCHANGED <<offered, challenges, used, credits, ended, held, shard, left>>
  BY DEF Answer, coordVars
<1> QED
  BY <1>3, <1>4, <1>5 DEF IInv, TypeOK, NoncesOnce, Response

LEMMA AnswerFromRecordIInv ==
    ASSUME IInv, NEW c \in challenges, NEW r \in responses, AnswerFromRecord(c, r)
    PROVE  IInv'
<1>1. responses' = responses \cup {[challenge |-> c, Digest |-> r.Digest]}
  BY DEF AnswerFromRecord, Respond
<1>2. responses' \subseteq Response
  BY <1>1 DEF IInv, TypeOK, Response
<1>3. UNCHANGED <<offered, challenges, used, credits, ended, held, shard, left, read>>
  BY DEF AnswerFromRecord, coordVars
<1> QED
  BY <1>2, <1>3 DEF IInv, TypeOK, NoncesOnce, Response

LEMMA StepIInv == IInv /\ [Next]_vars => IInv'
<1> SUFFICES ASSUME IInv, [Next]_vars PROVE IInv'
  OBVIOUS
<1>1. CASE UNCHANGED vars
  BY <1>1 DEF vars, coordVars, nodeVars, IInv, TypeOK, NoncesOnce, Response
<1>2. CASE \E l \in LeaseID : OfferLease(l)
  BY <1>2, OfferLeaseIInv
<1>3. CASE \E l \in LeaseID, n \in Nonce, w \in Window : MakeChallenge(l, n, w)
  BY <1>3, MakeChallengeIInv
<1>4. CASE \E r \in responses : SubmitProof(r)
  BY <1>4, SubmitProofIInv
<1>5. CASE \E l \in left : RecordExit(l)
  BY <1>5, RecordExitIInv
<1>6. CASE \E l \in LeaseID : \E seq \in 1 .. offered[l] : TakeLease(l, seq)
  BY <1>6, TakeLeaseIInv
<1>7. CASE \E l \in LeaseID : Decline(l) \/ Release(l)
  BY <1>7, LeaveIInv
<1>8. CASE \E l \in shard : LoseShard(l)
  BY <1>8, LoseShardIInv
<1>9. CASE \E c \in challenges : Answer(c)
  BY <1>9, AnswerIInv
<1>10. CASE \E c \in challenges, r \in responses : AnswerFromRecord(c, r)
  BY <1>10, AnswerFromRecordIInv
<1> QED
  BY <1>1, <1>2, <1>3, <1>4, <1>5, <1>6, <1>7, <1>8, <1>9, <1>10 DEF Next

THEOREM Invariant == Spec => []IInv
<1> QED
  BY InitIInv, StepIInv, PTL DEF Spec

\* The types of Lease, and that responses, exits and shards come from where
\* they should (all operations of a lease).
THEOREM TypeCorrect == Spec => []TypeOK
<1>1. IInv => TypeOK
  BY DEF IInv
<1> QED
  BY <1>1, Invariant, PTL

\* The guard of ProofOverShard lets through exactly the ranges in the shard.
THEOREM RangesExact == Spec => []RangeExact
<1>1. IInv => RangeExact
  BY GuardExact DEF IInv, TypeOK, RangeExact
<1> QED
  BY <1>1, Invariant, PTL

-----------------------------------------------------------------------------
(* Metering *)

LEMMA NoncesOfOneMore ==
    ASSUME NEW cs, NEW c
    PROVE  Nonces(cs \cup {c}) = Nonces(cs) \cup {<<c.LeaseID, c.Nonce>>}
BY DEF Nonces

\* A challenge is known by its lease and nonce.
LEMMA KnownByNonce ==
    ASSUME IInv, NEW c \in challenges
    PROVE  <<c.LeaseID, c.Nonce>> \in Nonces(read) <=> c \in read
BY DEF IInv, NoncesOnce, TypeOK, Nonces

\* A response with the digest expected of its challenge was computed from the
\* bytes, for that challenge.
LEMMA ExpectedWasRead ==
    ASSUME IInv, NEW r \in responses, Expected(r)
    PROVE  r.challenge \in read
<1>1. PICK d \in read : r.Digest = ProofOverShard(d)
  BY ResponseHolds DEF IInv
<1>2. r.challenge.Nonce = d.Nonce
  BY <1>1, DigestBindsNonce DEF Expected
<1> QED
  BY <1>2, ResponseHolds DEF IInv, NoncesOnce, TypeOK

LEMMA StepMeter == IInv /\ [Next]_vars => [M!Next]_(M!vars)
<1> SUFFICES ASSUME IInv, [Next]_vars PROVE [M!Next]_(M!vars)
  OBVIOUS
<1> USE DEF Nonces
<1>1. CASE UNCHANGED vars
  BY <1>1 DEF vars, coordVars, nodeVars, M!vars
<1>2. ASSUME NEW l \in LeaseID, OfferLease(l)
      PROVE  UNCHANGED M!vars
  BY <1>2 DEF OfferLease, nodeVars, M!vars
<1>3. ASSUME NEW l \in LeaseID, NEW n \in Nonce, NEW w \in Window,
             MakeChallenge(l, n, w)
      PROVE  M!Ask
  <2> DEFINE c == [LeaseID |-> l, Nonce |-> n, Offset |-> w[1], Length |-> w[2]]
  <2>1. Nonces(challenges') = Nonces(challenges) \cup {<<l, n>>}
    <3>1. challenges' = challenges \cup {c}
      BY <1>3 DEF MakeChallenge
    <3>2. <<c.LeaseID, c.Nonce>> = <<l, n>>
      OBVIOUS
    <3> QED
      BY <3>1, <3>2, NoncesOfOneMore
  <2>2. <<l, n>> \in (LeaseID \X Nonce) \ Nonces(challenges)
    BY <1>3 DEF MakeChallenge
  <2>3. UNCHANGED <<used, credits, ended, held, left, read>>
    BY <1>3 DEF MakeChallenge, nodeVars
  <2> QED
    BY <2>1, <2>2, <2>3 DEF M!Ask
<1>4. ASSUME NEW r \in responses, SubmitProof(r)
      PROVE  M!Credit
  <2> DEFINE c == <<r.challenge.LeaseID, r.challenge.Nonce>>
  <2>1. c \in Nonces(read) \ used /\ c[1] = r.challenge.LeaseID
    BY <1>4, ExpectedWasRead DEF SubmitProof, Unused
  <2>2. c[1] \notin ended /\ used' = used \cup {c}
        /\ credits' = [credits EXCEPT ![c[1]] = @ + 1]
    BY <1>4 DEF SubmitProof
  <2>3. UNCHANGED <<challenges, ended, held, left, read>>
    BY <1>4 DEF SubmitProof, nodeVars
  <2> QED
    BY <2>1, <2>2, <2>3 DEF M!Credit
<1>5. ASSUME NEW l \in left, RecordExit(l)
      PROVE  M!End
  BY <1>5 DEF RecordExit, nodeVars, M!End
<1>6. ASSUME NEW l \in LeaseID, NEW seq \in 1 .. offered[l], TakeLease(l, seq)
      PROVE  M!Hold
  <2>1. held'[l] = seq /\ seq \in Nat /\ seq > held[l]
    BY <1>6, IntAssumption DEF IInv, TypeOK, TakeLease, NewerLease
  <2>2. held' = [held EXCEPT ![l] = held'[l]] /\ l \notin left
    BY <1>6, <2>1 DEF TakeLease
  <2>3. UNCHANGED <<challenges, used, credits, ended, left, read>>
    BY <1>6 DEF TakeLease, coordVars
  <2> QED
    BY <2>1, <2>2, <2>3 DEF M!Hold
<1>7. ASSUME NEW l \in LeaseID, Decline(l) \/ Release(l)
      PROVE  M!Leave
  BY <1>7 DEF Decline, Release, coordVars, M!Leave
<1>8. ASSUME NEW l \in shard, LoseShard(l)
      PROVE  UNCHANGED M!vars
  BY <1>8 DEF LoseShard, coordVars, M!vars
<1>9. ASSUME NEW c \in challenges, Answer(c)
      PROVE  M!Prove
  <2> DEFINE p == <<c.LeaseID, c.Nonce>>
  <2>1. p \in Nonces(challenges) \ Nonces(read)
    BY <1>9, KnownByNonce DEF Answer
  <2>2. p[1] \notin left
    BY <1>9 DEF IInv, TypeOK, Answer
  <2>3. Nonces(read') = Nonces(read) \cup {p}
    BY <1>9, NoncesOfOneMore DEF Answer
  <2>4. UNCHANGED <<challenges, used, credits, ended, held, left>>
    BY <1>9 DEF Answer, coordVars
  <2> QED
    BY <2>1, <2>2, <2>3, <2>4 DEF M!Prove
<1>10. ASSUME NEW c \in challenges, NEW r \in responses, AnswerFromRecord(c, r)
       PROVE  UNCHANGED M!vars
  BY <1>10 DEF AnswerFromRecord, coordVars, M!vars
<1> QED
  BY <1>1, <1>2, <1>3, <1>4, <1>5, <1>6, <1>7, <1>8, <1>9, <1>10 DEF Next, M!Next

\* Storage leases implement Meter: no response is metered twice, or for bytes
\* that were not read for its challenge, or after the end of its lease
\* (SubmitProof, ProofDigest, LeaseRelease).
THEOREM ImplementsMeter == Spec => KeepsMeter
<1>1. Init => M!Init
  BY DEF Init, M!Init, Nonces
<1> QED
  BY <1>1, StepMeter, Invariant, PTL DEF Spec, KeepsMeter, M!Spec

=============================================================================
