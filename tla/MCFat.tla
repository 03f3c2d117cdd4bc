-------------------------------- MODULE MCFat --------------------------------
(***************************************************************************)
(* Fat for TLC: the two drives, two partitions, so that a mount can fail   *)
(* on one and go on to the next, and two files that outlive mounts.        *)
(***************************************************************************)

EXTENDS Fat, TLC

FatSymmetry == Permutations(Fil) \cup Permutations(Partition)

=============================================================================
