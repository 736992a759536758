-------------------------------- MODULE Meter --------------------------------
(***************************************************************************)
(* What both sides of a storage lease may rely on (SPEC 4.7 to 4.10): a    *)
(* challenge is metered at most once, only after the bytes it asks for     *)
(* were read for it, by a node that had not left the lease, and never      *)
(* once the end of the lease is recorded; renewals are never undone.       *)
(***************************************************************************)
EXTENDS Naturals

CONSTANTS
    LeaseID,
    Nonce

VARIABLES
    term,     \* the renewal each lease is held under, 0 before the first
    asked,    \* the challenges made, each a lease and a nonce,
    proved,   \* those whose bytes were read,
    metered,  \* and those that count for payout
    credits,  \* how often each lease was credited
    left,     \* leases the node has left,
    ended     \* and those whose end is recorded

vars == <<term, asked, proved, metered, credits, left, ended>>

Init ==
    /\ term = [l \in LeaseID |-> 0]
    /\ asked = {} /\ proved = {} /\ metered = {}
    /\ credits = [l \in LeaseID |-> 0]
    /\ left = {} /\ ended = {}

Hold ==
    /\ \E l \in LeaseID \ left :
        LET t == term'[l]
        IN  t \in Nat /\ t > term[l] /\ term' = [term EXCEPT ![l] = t]
    /\ UNCHANGED <<asked, proved, metered, credits, left, ended>>

Ask ==
    /\ \E c \in (LeaseID \X Nonce) \ asked : asked' = asked \cup {c}
    /\ UNCHANGED <<term, proved, metered, credits, left, ended>>

Prove ==
    /\ \E c \in asked \ proved :
        /\ c[1] \notin left
        /\ proved' = proved \cup {c}
    /\ UNCHANGED <<term, asked, metered, credits, left, ended>>

Credit ==
    /\ \E c \in proved \ metered :
        /\ c[1] \notin ended
        /\ metered' = metered \cup {c}
        /\ credits' = [credits EXCEPT ![c[1]] = @ + 1]
    /\ UNCHANGED <<term, asked, proved, left, ended>>

Leave ==
    /\ \E l \in LeaseID \ left : left' = left \cup {l}
    /\ UNCHANGED <<term, asked, proved, metered, credits, ended>>

End ==
    /\ \E l \in left : ended' = ended \cup {l}
    /\ UNCHANGED <<term, asked, proved, metered, credits, left>>

Next == Hold \/ Ask \/ Prove \/ Credit \/ Leave \/ End

Spec == Init /\ [][Next]_vars

=============================================================================
