------------------------------ MODULE MCGroup -------------------------------
(***************************************************************************)
(* Small instances of Group: two processes, one of which may take over     *)
(* from the other in the middle of a message; for safety two partitions,   *)
(* so that a rebalance one partition calls for disturbs the other, for     *)
(* liveness one.                                                           *)
(***************************************************************************)
EXTENDS Group, TLC

CONSTANTS p1, p2

TwoPartitions == (p1 :> 2) @@ (p2 :> 1)
OnePartition == p1 :> 2

Symmetry == Permutations(Members)

=============================================================================
