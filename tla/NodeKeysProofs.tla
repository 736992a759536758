--------------------------- MODULE NodeKeysProofs ---------------------------
(***************************************************************************)
(* The coordinator's trust implements module KeyTrust, and never strands   *)
(* the node, for any keys and any number of messages.                      *)
(***************************************************************************)
EXTENDS NodeKeys, SequenceTheorems, TLAPS

\* The rotations that name a key are those the node went on from.
WellFormed(r) == r.NewPublicKey \in Key /\ r.Algo = AlgoEd25519

\* A well formed rotation stands where the node named its key, signed with
\* the key before it; a malformed one stands nowhere.
Placed ==
    \A r \in rotations :
        /\ r.Seq <= nodeSeq
        /\ r.by \in Keys
        /\ r.place = 0 <=> ~WellFormed(r)
        /\ WellFormed(r) => /\ r.place \in 2 .. Len(chain)
                            /\ r.NewPublicKey = chain[r.place]
                            /\ r.by = chain[r.place - 1]

\* Seq counts rotations in the order in which their keys were named.
Ordered ==
    \A r, s \in rotations :
        WellFormed(r) /\ WellFormed(s) => (r.place < s.place <=> r.Seq < s.Seq)

\* What the Seq gate lets through leads forward, or was signed by a key that
\* enrolment has left behind.
GateForward ==
    \A r \in rotations :
        WellFormed(r) /\ r.Seq > lastSeq => r.place > at \/ r.by # trusted

\* Each key the coordinator has yet to reach has a rotation the gate lets
\* through.
WayOn ==
    /\ lastSeq <= nodeSeq
    /\ \A p \in DOMAIN chain :
        p > at => \E r \in rotations :
                    WellFormed(r) /\ r.place = p /\ r.Seq > lastSeq

IInv == TypeOK /\ Placed /\ Ordered /\ GateForward /\ WayOn

-----------------------------------------------------------------------------

\* What appending a key to the chain does (SignRotation and enrolment).
LEMMA ChainGrows ==
    ASSUME chain \in Seq(Key), NEW k \in Key, chain' = Append(chain, k)
    PROVE  /\ chain' \in Seq(Key)
           /\ Len(chain') = Len(chain) + 1
           /\ DOMAIN chain = 1 .. Len(chain)
           /\ DOMAIN chain' = 1 .. Len(chain')
           /\ \A i \in DOMAIN chain : chain'[i] = chain[i]
           /\ chain'[Len(chain) + 1] = k
           /\ Keys \subseteq Keys'
BY DEF Keys

LEMMA InitIInv == Init => IInv
<1> SUFFICES ASSUME Init PROVE IInv
  OBVIOUS
<1>1. PICK k \in Key : chain = <<k>> /\ trusted = k
  BY DEF Init
<1>2. chain \in Seq(Key) /\ Len(chain) = 1 /\ DOMAIN chain = {1} /\ chain[1] = k
  BY <1>1
<1>3. TypeOK
  BY <1>1, <1>2 DEF Init, TypeOK
<1>4. Placed /\ Ordered /\ GateForward
  BY DEF Init, Placed, Ordered, GateForward
<1>5. WayOn
  BY <1>2 DEF Init, WayOn
<1> QED
  BY <1>3, <1>4, <1>5 DEF IInv

LEMMA SignRotationIInv ==
    ASSUME IInv, NEW new \in Key, SignRotation(new)
    PROVE  IInv'
<1> DEFINE r == NextRotation(new, AlgoEd25519, Len(chain) + 1)
<1> USE DEF IInv
<1>1. /\ chain' = Append(chain, new) /\ nodeSeq' = nodeSeq + 1
      /\ rotations' = rotations \cup {r}
      /\ UNCHANGED <<revocations, trusted, lastSeq, at>>
  BY DEF SignRotation, Send, coordVars
<1>2. chain \in Seq(Key) /\ nodeSeq \in Nat /\ lastSeq \in Nat /\ at \in DOMAIN chain
  BY DEF TypeOK
<1>3. /\ chain' \in Seq(Key)
      /\ Len(chain) \in Nat
      /\ Len(chain') = Len(chain) + 1
      /\ DOMAIN chain = 1 .. Len(chain)
      /\ DOMAIN chain' = 1 .. Len(chain')
      /\ \A i \in DOMAIN chain : chain'[i] = chain[i]
      /\ chain'[Len(chain) + 1] = new
      /\ Keys \subseteq Keys'
  BY <1>1, <1>2, ChainGrows
<1>4. /\ r.NewPublicKey = new /\ r.Algo = AlgoEd25519 /\ r.Seq = nodeSeq + 1
      /\ r.by = chain[Len(chain)] /\ r.place = Len(chain) + 1
      /\ WellFormed(r)
  BY DEF NextRotation, WellFormed
<1>5. Len(chain) \in DOMAIN chain /\ Len(chain) >= 1
  BY <1>2, <1>3
<1>6. r.by \in Key /\ r.by \in Keys
  BY <1>2, <1>4, <1>5 DEF Keys
<1>7. r \in Rotation
  BY <1>2, <1>3, <1>6 DEF NextRotation, Rotation, Algo
<1>8. TypeOK'
  <2>1. rotations' \subseteq Rotation
    BY <1>1, <1>7 DEF TypeOK
  <2>2. revocations' \subseteq Revocation'
    BY <1>1, <1>3 DEF TypeOK, Revocation
  <2>3. at' \in DOMAIN chain' /\ trusted' \in {chain'[at'], NoKey}
    BY <1>1, <1>2, <1>3 DEF TypeOK
  <2> QED
    BY <1>1, <1>2, <1>3, <2>1, <2>2, <2>3 DEF TypeOK, Rotation
<1>9. \A s \in rotations : s.Seq \in Nat /\ s.Seq <= nodeSeq /\ s.place \in Nat
  BY DEF TypeOK, Rotation, Placed
<1>10. Placed'
  <2> SUFFICES ASSUME NEW s \in rotations'
               PROVE  /\ s.Seq <= nodeSeq'
                      /\ s.by \in Keys'
                      /\ s.place = 0 <=> ~WellFormed(s)
                      /\ WellFormed(s) => /\ s.place \in 2 .. Len(chain')
                                          /\ s.NewPublicKey = chain'[s.place]
                                          /\ s.by = chain'[s.place - 1]
    BY DEF Placed, WellFormed
  <2>1. CASE s = r
    BY <2>1, <1>1, <1>2, <1>3, <1>4, <1>5, <1>6
  <2>2. CASE s \in rotations
    <3>1. /\ s.Seq <= nodeSeq
          /\ s.by \in Keys
          /\ s.place = 0 <=> ~WellFormed(s)
          /\ WellFormed(s) => /\ s.place \in 2 .. Len(chain)
                              /\ s.NewPublicKey = chain[s.place]
                              /\ s.by = chain[s.place - 1]
      BY <2>2 DEF Placed
    <3>2. WellFormed(s) => s.place \in DOMAIN chain /\ s.place - 1 \in DOMAIN chain
      BY <3>1, <1>3
    <3> QED
      BY <3>1, <3>2, <2>2, <1>1, <1>2, <1>3, <1>9
  <2> QED
    BY <2>1, <2>2, <1>1
<1>11. \A s \in rotations : WellFormed(s) => s.place <= Len(chain)
  BY <1>3 DEF Placed
<1>12. Ordered'
  <2> SUFFICES ASSUME NEW s \in rotations', NEW t \in rotations',
                      WellFormed(s), WellFormed(t)
               PROVE  s.place < t.place <=> s.Seq < t.Seq
    BY DEF Ordered, WellFormed
  <2>1. CASE s \in rotations /\ t \in rotations
    BY <2>1 DEF Ordered
  <2>2. CASE s = r \/ t = r
    BY <2>2, <1>1, <1>2, <1>3, <1>4, <1>9, <1>11
  <2> QED
    BY <2>1, <2>2, <1>1
<1>13. GateForward'
  <2> SUFFICES ASSUME NEW s \in rotations', WellFormed(s), s.Seq > lastSeq
               PROVE  s.place > at \/ s.by # trusted
    BY <1>1 DEF GateForward, WellFormed
  <2>1. CASE s = r
    BY <2>1, <1>2, <1>3, <1>4
  <2>2. CASE s \in rotations
    BY <2>2 DEF GateForward
  <2> QED
    BY <2>1, <2>2, <1>1
<1>14. WayOn'
  <2>1. lastSeq' <= nodeSeq'
    BY <1>1, <1>2 DEF WayOn
  <2>2. ASSUME NEW p \in DOMAIN chain', p > at
        PROVE  \E s \in rotations' : WellFormed(s) /\ s.place = p /\ s.Seq > lastSeq
    <3>1. CASE p \in DOMAIN chain
      BY <3>1, <2>2, <1>1 DEF WayOn
    <3>2. CASE p = Len(chain) + 1
      BY <3>2, <1>1, <1>2, <1>4 DEF WayOn
    <3> QED
      BY <3>1, <3>2, <1>3
  <2> QED
    BY <2>1, <2>2, <1>1 DEF WayOn, WellFormed
<1> QED
  BY <1>8, <1>10, <1>12, <1>13, <1>14 DEF IInv

LEMMA SignMalformedIInv ==
    ASSUME IInv, NEW new \in Key \cup OddKey, NEW algo \in Algo,
           SignMalformed(new, algo)
    PROVE  IInv'
<1> DEFINE r == NextRotation(new, algo, 0)
<1> USE DEF IInv
<1>1. /\ nodeSeq' = nodeSeq + 1 /\ rotations' = rotations \cup {r}
      /\ UNCHANGED <<chain, revocations, trusted, lastSeq, at>>
  BY DEF SignMalformed, Send, coordVars
<1>2. chain \in Seq(Key) /\ nodeSeq \in Nat /\ lastSeq \in Nat /\ at \in DOMAIN chain
  BY DEF TypeOK
<1>3. Keys' = Keys
  BY <1>1 DEF Keys
<1>4. /\ r.NewPublicKey = new /\ r.Algo = algo /\ r.Seq = nodeSeq + 1
      /\ r.by = chain[Len(chain)] /\ r.place = 0
  BY DEF NextRotation
<1>5. ~WellFormed(r)
  BY <1>4, KeyAssumption, AlgoAssumption DEF SignMalformed, WellFormed
<1>6. r.by \in Key /\ r.by \in Keys
  BY <1>2, <1>4 DEF Keys
<1>7. r \in Rotation
  BY <1>2, <1>6 DEF NextRotation, Rotation, Algo
<1>8. TypeOK'
  BY <1>1, <1>2, <1>3, <1>7 DEF TypeOK, Revocation
<1>9. Placed'
  <2> SUFFICES ASSUME NEW s \in rotations'
               PROVE  /\ s.Seq <= nodeSeq'
                      /\ s.by \in Keys'
                      /\ s.place = 0 <=> ~WellFormed(s)
                      /\ WellFormed(s) => /\ s.place \in 2 .. Len(chain')
                                          /\ s.NewPublicKey = chain'[s.place]
                                          /\ s.by = chain'[s.place - 1]
    BY DEF Placed, WellFormed
  <2>1. CASE s = r
    BY <2>1, <1>1, <1>2, <1>3, <1>4, <1>5, <1>6
  <2>2. CASE s \in rotations
    <3>1. s.Seq \in Nat /\ s.Seq <= nodeSeq
      BY <2>2 DEF TypeOK, Rotation, Placed
    <3> QED
      BY <3>1, <2>2, <1>1, <1>2, <1>3 DEF Placed
  <2> QED
    BY <2>1, <2>2, <1>1
<1>10. Ordered' /\ GateForward'
  BY <1>1, <1>5 DEF Ordered, GateForward, WellFormed
<1>11. WayOn'
  BY <1>1, <1>2 DEF WayOn, WellFormed
<1> QED
  BY <1>8, <1>9, <1>10, <1>11 DEF IInv

LEMMA SignRevocationIInv ==
    ASSUME IInv, NEW k \in Keys, NEW by \in Keys, SignRevocation(k, by)
    PROVE  IInv'
<1> USE DEF IInv
<1>1. /\ UNCHANGED <<chain, nodeSeq, rotations, trusted, lastSeq, at>>
      /\ revocations' = revocations \cup {[RevokedPublicKey |-> k, by |-> by]}
  BY DEF SignRevocation, coordVars
<1>2. TypeOK'
  BY <1>1 DEF TypeOK, Revocation, Keys
<1>3. Placed' /\ Ordered' /\ GateForward' /\ WayOn'
  BY <1>1 DEF Placed, Ordered, GateForward, WayOn, WellFormed, Keys
<1> QED
  BY <1>2, <1>3 DEF IInv

\* What an accepted rotation is, and where it leads.
LEMMA Accepted ==
    ASSUME IInv, NEW r \in rotations, Accepts(r)
    PROVE  /\ WellFormed(r)
           /\ trusted \in Key
           /\ r.by = trusted
           /\ r.Seq \in Nat /\ r.Seq > lastSeq /\ r.Seq <= nodeSeq
           /\ r.place \in DOMAIN chain
           /\ r.NewPublicKey = chain[r.place]
           /\ r.place > at
<1> USE DEF IInv
<1>1. WellFormed(r) /\ trusted \in Key /\ r.by = trusted /\ r.Seq > lastSeq
  BY DEF Accepts, RotationVerify, VerifySig, Newer, WellFormed
<1>2. r.Seq \in Nat /\ r.Seq <= nodeSeq
  BY DEF TypeOK, Rotation, Placed
<1>3. r.place \in 2 .. Len(chain) /\ r.NewPublicKey = chain[r.place]
  BY <1>1 DEF Placed
<1>4. r.place > at
  BY <1>1 DEF GateForward
<1> QED
  BY <1>1, <1>2, <1>3, <1>4 DEF TypeOK

LEMMA RotateKeyIInv ==
    ASSUME IInv, NEW r \in rotations, RotateKey(r)
    PROVE  IInv'
<1> USE DEF IInv
<1>1. /\ trusted' = r.NewPublicKey /\ lastSeq' = r.Seq /\ at' = r.place
      /\ UNCHANGED <<chain, nodeSeq, rotations, revocations>>
  BY DEF RotateKey, nodeVars
<1>2. /\ WellFormed(r)
      /\ r.Seq \in Nat /\ r.Seq > lastSeq /\ r.Seq <= nodeSeq
      /\ r.place \in DOMAIN chain
      /\ r.NewPublicKey = chain[r.place]
      /\ r.place > at
  BY Accepted DEF RotateKey
<1>3. Keys' = Keys
  BY <1>1 DEF Keys
<1>4. TypeOK'
  BY <1>1, <1>2, <1>3 DEF TypeOK, Revocation
<1>5. Placed' /\ Ordered'
  BY <1>1, <1>3 DEF Placed, Ordered, WellFormed
<1>6. GateForward'
  BY <1>1, <1>2 DEF GateForward, Ordered, WellFormed
<1>7. WayOn'
  <2>1. lastSeq' <= nodeSeq'
    BY <1>1, <1>2
  <2>2. ASSUME NEW p \in DOMAIN chain, p > r.place
        PROVE  \E s \in rotations : WellFormed(s) /\ s.place = p /\ s.Seq > r.Seq
    <3>1. p > at
      BY <2>2, <1>2 DEF TypeOK
    <3>2. PICK s \in rotations : WellFormed(s) /\ s.place = p
      BY <3>1 DEF WayOn
    <3>3. r.Seq < s.Seq
      BY <3>2, <2>2, <1>2 DEF Ordered
    <3> QED
      BY <3>2, <3>3 DEF TypeOK, Rotation
  <2> QED
    BY <2>1, <2>2, <1>1 DEF WayOn, WellFormed
<1> QED
  BY <1>4, <1>5, <1>6, <1>7 DEF IInv

LEMMA RevokeKeyIInv ==
    ASSUME IInv, NEW v \in revocations, RevokeKey(v)
    PROVE  IInv'
<1> USE DEF IInv
<1>1. trusted' = NoKey /\ UNCHANGED <<chain, nodeSeq, rotations, revocations, lastSeq, at>>
  BY DEF RevokeKey, nodeVars
<1>2. TypeOK'
  BY <1>1 DEF TypeOK, Revocation, Keys
<1>3. Placed' /\ Ordered' /\ WayOn'
  BY <1>1 DEF Placed, Ordered, WayOn, WellFormed, Keys
<1>4. GateForward'
  BY <1>1, KeyAssumption DEF GateForward, WellFormed, TypeOK, Rotation
<1> QED
  BY <1>2, <1>3, <1>4 DEF IInv

LEMMA EnrolIInv ==
    ASSUME IInv, NEW k \in Key, Enrol(k)
    PROVE  IInv'
<1> USE DEF IInv
<1>1. /\ chain' = Append(chain, k) /\ trusted' = k /\ at' = Len(chain')
      /\ k \notin Keys
      /\ UNCHANGED <<nodeSeq, rotations, revocations, lastSeq>>
  BY DEF Enrol
<1>2. /\ chain' \in Seq(Key)
      /\ Len(chain) \in Nat
      /\ Len(chain') = Len(chain) + 1
      /\ DOMAIN chain = 1 .. Len(chain)
      /\ DOMAIN chain' = 1 .. Len(chain')
      /\ \A i \in DOMAIN chain : chain'[i] = chain[i]
      /\ chain'[Len(chain) + 1] = k
      /\ Keys \subseteq Keys'
  BY <1>1, ChainGrows DEF TypeOK
<1>3. TypeOK'
  BY <1>1, <1>2 DEF TypeOK, Revocation
<1>4. Placed'
  <2> SUFFICES ASSUME NEW s \in rotations
               PROVE  /\ s.Seq <= nodeSeq
                      /\ s.by \in Keys'
                      /\ s.place = 0 <=> ~WellFormed(s)
                      /\ WellFormed(s) => /\ s.place \in 2 .. Len(chain')
                                          /\ s.NewPublicKey = chain'[s.place]
                                          /\ s.by = chain'[s.place - 1]
    BY <1>1 DEF Placed, WellFormed
  <2>1. /\ s.Seq <= nodeSeq
        /\ s.by \in Keys
        /\ s.place = 0 <=> ~WellFormed(s)
        /\ WellFormed(s) => /\ s.place \in 2 .. Len(chain)
                            /\ s.NewPublicKey = chain[s.place]
                            /\ s.by = chain[s.place - 1]
    BY DEF Placed
  <2>2. WellFormed(s) => s.place \in DOMAIN chain /\ s.place - 1 \in DOMAIN chain
    BY <2>1, <1>2
  <2> QED
    BY <2>1, <2>2, <1>2
<1>5. Ordered'
  BY <1>1 DEF Ordered, WellFormed
<1>6. GateForward'
  BY <1>1 DEF GateForward, Placed, WellFormed
<1>7. WayOn'
  BY <1>1, <1>2 DEF WayOn
<1> QED
  BY <1>3, <1>4, <1>5, <1>6, <1>7 DEF IInv

\* IInv is inductive.
LEMMA StepIInv == IInv /\ [Next]_vars => IInv'
<1> SUFFICES ASSUME IInv, [Next]_vars PROVE IInv'
  OBVIOUS
<1>1. ASSUME NEW k \in Key, SignRotation(k) PROVE IInv'
  BY <1>1, SignRotationIInv
<1>2. ASSUME NEW k \in Key \cup OddKey, NEW a \in Algo, SignMalformed(k, a)
      PROVE  IInv'
  BY <1>2, SignMalformedIInv
<1>3. ASSUME NEW k \in Keys, NEW by \in Keys, SignRevocation(k, by) PROVE IInv'
  BY <1>3, SignRevocationIInv
<1>4. ASSUME NEW r \in rotations, RotateKey(r) PROVE IInv'
  BY <1>4, RotateKeyIInv
<1>5. ASSUME NEW v \in revocations, RevokeKey(v) PROVE IInv'
  BY <1>5, RevokeKeyIInv
<1>6. ASSUME NEW k \in Key, Enrol(k) PROVE IInv'
  BY <1>6, EnrolIInv
<1>7. CASE UNCHANGED vars
  BY <1>7 DEF vars, nodeVars, coordVars, IInv, TypeOK, Revocation, Keys, Placed,
              Ordered, GateForward, WayOn, WellFormed
<1> QED
  BY <1>1, <1>2, <1>3, <1>4, <1>5, <1>6, <1>7 DEF Next

\* The invariant of which the properties below are consequences.
THEOREM Invariant == Spec => []IInv
BY InitIInv, StepIInv, PTL DEF Spec

\* A key the coordinator trusts is well formed and one the node named.
THEOREM TypeCorrect == Spec => []TypeOK
<1>1. IInv => TypeOK
  BY DEF IInv
<1> QED
  BY <1>1, Invariant, PTL

\* A node that is trusted and ahead of the coordinator has already sent the
\* rotation that the coordinator accepts next.
THEOREM NeverStranded == Spec => []CanCatchUp
<1>1. IInv => CanCatchUp
  <2> SUFFICES ASSUME IInv, trusted # NoKey, at # Len(chain)
               PROVE  \E r \in rotations : Accepts(r)
    BY DEF CanCatchUp
  <2> USE DEF IInv
  <2>1. /\ DOMAIN chain = 1 .. Len(chain) /\ Len(chain) \in Nat
        /\ at \in DOMAIN chain /\ trusted = chain[at] /\ trusted \in Key
    BY DEF TypeOK
  <2>2. at + 1 \in DOMAIN chain
    BY <2>1
  <2>3. PICK r \in rotations :
             WellFormed(r) /\ r.place = at + 1 /\ r.Seq > lastSeq
    BY <2>1, <2>2 DEF WayOn
  <2>4. r.by = chain[at]
    BY <2>1, <2>3 DEF Placed
  <2> QED
    BY <2>1, <2>3, <2>4 DEF Accepts, RotationVerify, VerifySig, Newer, WellFormed
<1> QED
  BY <1>1, Invariant, PTL

-----------------------------------------------------------------------------
(* NodeKeys implements KeyTrust *)

LEMMA InitTrust == Init => Trust!Init
<1> SUFFICES ASSUME Init PROVE Trust!Init
  OBVIOUS
<1>1. PICK k \in Key : chain = <<k>> /\ trusted = k
  BY DEF Init
<1> QED
  BY <1>1, KeyAssumption DEF Init, Trust!Init, SelfSigned

\* Every step is a step of KeyTrust or leaves its variables alone.
LEMMA StepTrust ==
    ASSUME IInv, [Next]_vars
    PROVE  [Trust!Next]_Trust!vars
<1> DEFINE declared == {v.RevokedPublicKey : v \in {w \in revocations : SelfSigned(w)}}
<1> DEFINE where == IF trusted = NoKey THEN 0 ELSE at
<1> USE DEF Trust!vars
<1>1. Keys = Trust!Keys
  BY DEF Keys, Trust!Keys
<1>2. ASSUME NEW k \in Key, SignRotation(k) PROVE Trust!Next
  BY <1>2 DEF SignRotation, Send, coordVars, Trust!Next, Trust!Name, SelfSigned
<1>3. ASSUME NEW k \in Key \cup OddKey, NEW a \in Algo, SignMalformed(k, a)
      PROVE  UNCHANGED Trust!vars
  BY <1>3 DEF SignMalformed, Send, coordVars, SelfSigned
<1>4. ASSUME NEW k \in Keys, NEW by \in Keys, SignRevocation(k, by)
      PROVE  Trust!Next \/ UNCHANGED Trust!vars
  <2> DEFINE v == [RevokedPublicKey |-> k, by |-> by]
  <2>1. /\ revocations' = revocations \cup {v}
        /\ UNCHANGED <<chain, trusted, at>>
    BY <1>4 DEF SignRevocation, coordVars
  <2>2. CASE k = by
    <3>1. SelfSigned(v) /\ v.RevokedPublicKey = k
      BY <2>2 DEF SelfSigned
    <3>2. declared' = declared \cup {k}
      BY <2>1, <3>1 DEF SelfSigned
    <3> QED
      BY <2>1, <3>2, <1>1 DEF Trust!Next, Trust!Declare
  <2>3. CASE k # by
    <3>1. ~SelfSigned(v)
      BY <2>3 DEF SelfSigned
    <3>2. declared' = declared
      BY <2>1, <3>1 DEF SelfSigned
    <3> QED
      BY <2>1, <3>2
  <2> QED
    BY <2>2, <2>3
<1>5. ASSUME NEW r \in rotations, RotateKey(r) PROVE Trust!Next
  <2>1. /\ trusted' = r.NewPublicKey /\ at' = r.place
        /\ UNCHANGED <<chain, revocations>>
    BY <1>5 DEF RotateKey, nodeVars
  <2>2. /\ trusted \in Key /\ WellFormed(r) /\ r.place > at
        /\ r.place \in DOMAIN chain
    BY <1>5, Accepted DEF RotateKey
  <2>3. at \in DOMAIN chain /\ DOMAIN chain = 1 .. Len(chain)
    BY DEF IInv, TypeOK
  <2>4. where = at /\ where' = r.place /\ where # 0
    BY <2>1, <2>2, <2>3, KeyAssumption DEF WellFormed
  <2>5. UNCHANGED declared
    BY <2>1 DEF SelfSigned
  <2> QED
    BY <2>1, <2>2, <2>4, <2>5 DEF Trust!Next, Trust!Advance
<1>6. ASSUME NEW v \in revocations, RevokeKey(v) PROVE Trust!Next
  <2>1. trusted' = NoKey /\ UNCHANGED <<chain, revocations>>
    BY <1>6 DEF RevokeKey, nodeVars
  <2>2. /\ trusted \in Key
        /\ v.RevokedPublicKey = trusted
        /\ SelfSigned(v)
    BY <1>6 DEF RevokeKey, RevocationVerify, VerifySig, SelfSigned
  <2>3. at \in DOMAIN chain /\ DOMAIN chain = 1 .. Len(chain) /\ trusted = chain[at]
    BY <2>2, KeyAssumption DEF IInv, TypeOK
  <2>4. where = at /\ where # 0 /\ where' = 0
    BY <2>1, <2>2, <2>3, KeyAssumption
  <2>5. chain[where] \in declared
    BY <2>2, <2>3, <2>4
  <2>6. UNCHANGED declared
    BY <2>1 DEF SelfSigned
  <2> QED
    BY <2>1, <2>4, <2>5, <2>6 DEF Trust!Next, Trust!Kill
<1>7. ASSUME NEW k \in Key, Enrol(k) PROVE Trust!Next
  <2>1. /\ trusted = NoKey /\ trusted' = k /\ k \notin Keys
        /\ chain' = Append(chain, k) /\ at' = Len(chain')
        /\ UNCHANGED revocations
    BY <1>7 DEF Enrol
  <2>2. where = 0 /\ where' = Len(chain')
    BY <2>1, KeyAssumption
  <2>3. UNCHANGED declared
    BY <2>1 DEF SelfSigned
  <2> QED
    BY <2>1, <2>2, <2>3, <1>1 DEF Trust!Next, Trust!Enrol
<1>8. CASE UNCHANGED vars
  BY <1>8 DEF vars, nodeVars, coordVars, SelfSigned
<1> QED
  BY <1>2, <1>3, <1>4, <1>5, <1>6, <1>7, <1>8 DEF Next

\* Trust moves forward only, is lost to a revocation of the very key and is
\* regained by enrolment only.
THEOREM TrustMovesForward == Spec => ForwardTrust
<1>1. IInv /\ [Next]_vars => [Trust!Next]_Trust!vars
  BY StepTrust
<1> QED
  BY <1>1, InitTrust, Invariant, PTL DEF Spec, ForwardTrust, Trust!Spec

=============================================================================
