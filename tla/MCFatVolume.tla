----------------------------- MODULE MCFatVolume -----------------------------
(***************************************************************************)
(* FatVolume for TLC.  State leaves out what never decides a step: the     *)
(* result of the last call and the two histories, which are functions of   *)
(* the rest.                                                               *)
(***************************************************************************)

EXTENDS FatVolume, TLC

CONSTANTS a, b

NoPath == {}
Roots == {<<a>>, <<b>>}
Deep == {<<a>>, <<b>>, <<a, a>>}

State == <<vol, file, faults>>

=============================================================================
