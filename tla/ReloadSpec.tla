------------------------------ MODULE ReloadSpec ------------------------------
(***************************************************************************)
(* What the IOS reload block promises.  A disc based game asks for another *)
(* IOS; the cIOS boots itself again instead, and the game must not notice: *)
(* its disc reads keep coming from the same source, and its NAND accesses  *)
(* keep going to the same place.                                           *)
(*                                                                         *)
(* A session is up between the moment the drive emulation is in place and  *)
(* the moment a program launches something.  The promise holds as long as  *)
(* nothing spoils the reload on its way; after that the next session may   *)
(* be anything.                                                            *)
(***************************************************************************)

VARIABLES
  up,     \* a session is running
  src,    \* where disc reads come from
  store,  \* where NAND accesses go
  kept    \* nothing has spoilt the reload under way

specVars == <<up, src, store, kept>>

SpecInit == ~up /\ ~kept

\* A loader sets the sources of the session.
Configure == up /\ up'

\* A launch begins; it may be spoilt from the start.
Suspend == up /\ ~up' /\ (kept' => UNCHANGED <<src, store>>)

\* A step of a reload that does not touch what is promised, or spoils it.
Spoil == ~up /\ ~up' /\ ~kept'

\* The next session starts.
Resume ==
  /\ ~up /\ up'
  /\ UNCHANGED kept
  /\ kept => UNCHANGED <<src, store>>

\* A reload that ends spoilt.
GiveUp == ~up /\ up' /\ ~kept'

SpecNext == Configure \/ Suspend \/ Spoil \/ Resume \/ GiveUp

ReloadPromise == SpecInit /\ [][SpecNext]_specVars

=============================================================================
