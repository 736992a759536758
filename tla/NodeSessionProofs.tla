-------------------------- MODULE NodeSessionProofs --------------------------
(***************************************************************************)
(* A node that is heard meanwhile leads the same life of its key: sessions *)
(* implement NodeKeys, so what is proved of NodeKeys holds of them.        *)
(***************************************************************************)
EXTENDS NodeSession, NodeKeysProofs

\* Heartbeats leave rotations, revocations and trust alone (Heartbeat.Sign
\* and Heartbeat.Verify change no key).
THEOREM SessionKeepsKeys == SessionSpec => Spec
<1>1. SessionInit => Init
  BY DEF SessionInit
<1>2. [SessionNext]_sessionVars => [Next]_vars
  <2>1. ASSUME NewBeat \/ BeatAgain \/ \E b \in beats : RecordBeat(b)
        PROVE  UNCHANGED vars
    BY <2>1 DEF NewBeat, BeatAgain, RecordBeat
  <2>2. ASSUME UNCHANGED sessionVars
        PROVE  UNCHANGED vars
    BY <2>2 DEF sessionVars
  <2> QED
    BY <2>1, <2>2 DEF SessionNext
<1> QED
  BY <1>1, <1>2, PTL DEF SessionSpec, Spec

\* Trust moves forward only, whatever heartbeats are on their way.
THEOREM SessionTrust == SessionSpec => ForwardTrust
BY SessionKeepsKeys, TrustMovesForward

\* The trusted key is well formed and one the node named, in sessions too.
THEOREM SessionTyped == SessionSpec => []TypeOK
BY SessionKeepsKeys, TypeCorrect

\* No session is stranded: what was sent leads on from the trusted key.
THEOREM SessionNeverStranded == SessionSpec => []CanCatchUp
BY SessionKeepsKeys, NeverStranded

=============================================================================
