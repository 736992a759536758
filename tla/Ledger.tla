------------------------------- MODULE Ledger -------------------------------
(***************************************************************************)
(* What a node may rely on when it submits signed messages to a            *)
(* coordinator (SPEC 5.5 and 6): only messages that were submitted are     *)
(* recorded, those under a Seq gate in growing order of Seq, and a message *)
(* whose submission is confirmed has been recorded.  A submission that is  *)
(* not confirmed promises nothing either way.                              *)
(***************************************************************************)
EXTENDS Naturals

CONSTANTS
    Gated,    \* the paths of messages under a Seq gate
    Message   \* signed messages: [path, node, no]

VARIABLES sent, recorded, confirmed

vars == <<sent, recorded, confirmed>>

SameStream(m, r) == m.path = r.path /\ m.node = r.node

Init == sent = {} /\ recorded = {} /\ confirmed = {}

Submit ==
    /\ \E m \in Message : sent' = sent \cup {m}
    /\ UNCHANGED <<recorded, confirmed>>

Record ==
    /\ \E m \in sent :
        /\ m.path \in Gated =>
            \A r \in recorded : SameStream(m, r) => r.no < m.no
        /\ recorded' = recorded \cup {m}
    /\ UNCHANGED <<sent, confirmed>>

Confirm ==
    /\ \E m \in recorded : confirmed' = confirmed \cup {m}
    /\ UNCHANGED <<sent, recorded>>

Next == Submit \/ Record \/ Confirm

Spec == Init /\ [][Next]_vars

=============================================================================
