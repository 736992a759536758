---------------------------- MODULE MC_Transport ----------------------------
(* One node, a stranger, and two calls under way at a time.                *)
EXTENDS Transport, TLC

CallSymmetry == Permutations(Call)

=============================================================================
