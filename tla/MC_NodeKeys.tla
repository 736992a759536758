---------------------------- MODULE MC_NodeKeys ----------------------------
(* A node that names up to MaxChain keys in up to MaxSeq rotations.        *)
EXTENDS NodeKeys, TLC

KeySymmetry == Permutations(Key)

=============================================================================
