-------------------------------- MODULE MCFfs --------------------------------
(***************************************************************************)
(* Ffs for TLC: ES and a thread of the game as clients, a table with one   *)
(* place, so that it is full at the second file, and two descriptors.      *)
(***************************************************************************)

EXTENDS Ffs, TLC

MCPath == {"title", "system"}
FfsSymmetry == Permutations(Fd)

=============================================================================
