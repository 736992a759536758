------------------------------ MODULE MC_Lease ------------------------------
(* One lease on a shard of two like bytes, of which every range an integer *)
(* can express is asked for.                                               *)
EXTENDS Lease

MCSealed == [l \in LeaseID |-> <<1, 1>>]
MCWindow == Int64 \X Int64

=============================================================================
