------------------------------- MODULE MCReload -------------------------------
(***************************************************************************)
(* Reload for TLC, in two halves whose product is too large: a session     *)
(* that emulates discs on a real NAND (MCReloadDisc.cfg: both kinds of     *)
(* source, one of each), and a session that emulates the NAND with the     *)
(* disc in the drive (MCReloadNand.cfg: two games, so that another game    *)
(* can follow a stale file).                                               *)
(***************************************************************************)

EXTENDS Reload

MCDevice == {1}
MCFragSize == {7}
MCOffset == {0}
MCLoaderBit == {"CRYPT"}
MCDualLayer == MCFragSize \cup Disc
MCPartition == {0}

=============================================================================
