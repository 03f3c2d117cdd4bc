------------------------------ MODULE MCFfsPaths ------------------------------
(***************************************************************************)
(* FfsPaths for TLC: two folders of the system, one that a title may have  *)
(* or may put a file at, and in each a name that FAT forbids.  Partial     *)
(* emulation leaves title itself on the real NAND.                         *)
(***************************************************************************)

EXTENDS FfsPaths, TLC

CONSTANT id, colon, escapedColon

MCPath == {<<title>>, <<tmp>>, <<title, id>>, <<tmp, id>>,
           <<title, id, colon>>, <<tmp, id, colon>>}
MCEscaped == [n \in {colon} |-> escapedColon]

\* The next steps and the verdicts depend on neither what was returned, nor on
\* a request that is done.
State == <<mode, emu, files, todo, IF todo = <<>> THEN <<>> ELSE asked, faults>>

=============================================================================
