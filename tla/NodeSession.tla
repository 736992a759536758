----------------------------- MODULE NodeSession -----------------------------
(***************************************************************************)
(* A node that is heard while its key changes: the heartbeats of package   *)
(* liveness, signed with the key the node has named last and verified      *)
(* against the key the coordinator trusts on their arrival, while the      *)
(* rotations and revocations of module NodeKeys are on their way.  Like    *)
(* these, heartbeats stay on the wire and arrive at any time, or never.    *)
(***************************************************************************)
EXTENDS NodeKeys

CONSTANT MaxBeat  \* bound: the Seq of heartbeats

VARIABLES
    beatSeq,  \* the Seq of the newest heartbeat
    beats,    \* the heartbeats sent
    lastBeat  \* the Seq of the last one recorded

beatVars    == <<beatSeq, beats, lastBeat>>
sessionVars == <<vars, beatVars>>

SessionInit == Init /\ beatSeq = 0 /\ beats = {} /\ lastBeat = 0

\* Heartbeat.Sign with the key the node signs with by now.
SignBeat(seq) == beats' = beats \cup {[Seq |-> seq, by |-> chain[Len(chain)]]}

NewBeat ==
    /\ beatSeq < MaxBeat
    /\ beatSeq' = beatSeq + 1
    /\ SignBeat(beatSeq + 1)
    /\ UNCHANGED <<vars, lastBeat>>

\* Faulty variant of BeatAgain: what was signed once is sent again as it is.
BeatAgainAsSigned ==
    /\ beatSeq > 0
    /\ UNCHANGED <<vars, beatVars>>

\* The newest heartbeat is signed anew and sent again.
BeatAgain ==
    /\ beatSeq > 0
    /\ SignBeat(beatSeq)
    /\ UNCHANGED <<vars, beatSeq, lastBeat>>

\* The coordinator's Heartbeat: Heartbeat.Verify and the gate on Seq.
RecordBeat(b) ==
    /\ VerifySig(trusted, b.by)
    /\ b.Seq > lastBeat
    /\ lastBeat' = b.Seq
    /\ UNCHANGED <<vars, beatSeq, beats>>

SessionNext ==
    \/ Next /\ UNCHANGED beatVars
    \/ NewBeat
    \/ BeatAgain
    \/ \E b \in beats : RecordBeat(b)

SessionSpec == SessionInit /\ [][SessionNext]_sessionVars

\* A node goes on sending its newest heartbeat, signed anew, and the rotations
\* the coordinator does not have; something of what is sent arrives.
FairSession ==
    /\ SessionSpec
    /\ WF_sessionVars(BeatAgain)
    /\ WF_sessionVars((\E r \in rotations : RotateKey(r)) /\ UNCHANGED beatVars)
    /\ WF_sessionVars(\E b \in beats : RecordBeat(b))

-----------------------------------------------------------------------------
(* Properties *)

\* A coordinator that trusts the node comes to trust every key it names, or
\* one named later, whatever was lost or overtaken, unless trust ends by a
\* revocation (KeyRotation.Verify against the current key, and Seq).
CaughtUpEventually ==
    \A i \in 2 .. MaxChain :
        (Len(chain) >= i) ~> (at >= i \/ trusted = NoKey)

\* A node is heard in spite of its rotations: each heartbeat, or a later one,
\* is recorded in the end, unless trust ends by a revocation; copies signed
\* with keys that are no longer trusted, or not yet, do no harm
\* (Heartbeat.Verify against the key of the moment).
HeardEventually ==
    \A seq \in 1 .. MaxBeat :
        (beatSeq >= seq) ~> (lastBeat >= seq \/ trusted = NoKey)

=============================================================================
