--------------------------- MODULE MC_NodeSession ---------------------------
(* A node that names up to MaxChain keys and sends MaxBeat heartbeats.     *)
EXTENDS NodeSession
=============================================================================
