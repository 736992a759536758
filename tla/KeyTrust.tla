------------------------------ MODULE KeyTrust ------------------------------
(***************************************************************************)
(* What the node key lifecycle promises (SPEC 4.11 and 4.12): the key a    *)
(* coordinator trusts for a node is one the node has named, trust moves    *)
(* only forward along the node's own list of keys, a key is killed only    *)
(* when the node has declared it dead, and after that nobody is trusted    *)
(* until the node is enrolled again, with a key it never used.             *)
(***************************************************************************)
EXTENDS Naturals, Sequences

CONSTANTS Key

VARIABLES
    chain,    \* the keys the node has named, in order
    revoked,  \* the keys it has declared dead
    at        \* the place in chain of the trusted key; 0: no key is trusted

vars == <<chain, revoked, at>>

Keys == {chain[i] : i \in DOMAIN chain}

Init ==
    /\ \E k \in Key : chain = <<k>>
    /\ revoked = {}
    /\ at = 1

Name ==
    /\ \E k \in Key : chain' = Append(chain, k)
    /\ UNCHANGED <<revoked, at>>

Declare ==
    /\ \E k \in Keys : revoked' = revoked \cup {k}
    /\ UNCHANGED <<chain, at>>

Advance ==
    /\ at # 0
    /\ \E p \in DOMAIN chain : p > at /\ at' = p
    /\ UNCHANGED <<chain, revoked>>

Kill ==
    /\ at # 0
    /\ chain[at] \in revoked
    /\ at' = 0
    /\ UNCHANGED <<chain, revoked>>

Enrol ==
    /\ at = 0
    /\ \E k \in Key \ Keys : chain' = Append(chain, k)
    /\ at' = Len(chain')
    /\ UNCHANGED revoked

Next == Name \/ Declare \/ Advance \/ Kill \/ Enrol

Spec == Init /\ [][Next]_vars

=============================================================================
