------------------------------- MODULE FatProofs -------------------------------
(***************************************************************************)
(* Theorems about the FAT module, for any drives, partitions, descriptors  *)
(* and number of mounts.                                                   *)
(*                                                                         *)
(* FileStaysPut is not inductive: after a mount that fails the object      *)
(* names the new drive under the old ID, and only because it is cleared    *)
(* does no file pass validate.  FatInv adds that no file has an ID the     *)
(* object has not reached, so that the next binding, with a greater ID,    *)
(* invalidates them all.                                                   *)
(***************************************************************************)

EXTENDS Fat, TLAPS

NoFileAhead == \A f \in Fil : files[f] # None => files[f].id <= fatFs.id

\* A bound object names a drive and a partition.
BoundSomewhere == fatFs.live => fatFs.drv \in Drive /\ fatFs.pt \in Partition

FatInv ==
  /\ FatTypeOK
  /\ NoFileAhead
  /\ BoundSomewhere
  /\ FileStaysPut
  /\ WindowGoesHome
  /\ VolumeHasPartition

-----------------------------------------------------------------------------
(* Lemmas *)

\* A FIL and a binding are records, the value of a free or clean one is not.
LEMMA FilType ==
  ASSUME FatTypeOK, NEW f \in Fil, files[f] # None
  PROVE  /\ files[f] \in FilRecord
         /\ files[f].id \in Nat
         /\ files[f].at \in Binding
         /\ files[f].path \in Drive
         /\ files[f].open \in BOOLEAN
BY DEF FatTypeOK, FilRecord

\* The last mount ID is a number, and no drive or partition is none.
LEMMA IdBound == MaxId \in Nat /\ None \notin Drive \cup Partition
BY FatAssumption

\* The fields of the file system object.
LEMMA ObjectType ==
  ASSUME FatTypeOK
  PROVE  /\ fatFs.live \in BOOLEAN
         /\ fatFs.drv \in Drive \cup {None}
         /\ fatFs.pt \in Partition \cup {None}
         /\ fatFs.id \in 0 .. MaxId
BY DEF FatTypeOK, FatFs

\* Nothing is mounted and nothing open.
THEOREM InitFatInv == FatInit => FatInv
<1> SUFFICES ASSUME FatInit PROVE FatInv
  OBVIOUS
<1>1. FatTypeOK
  <2>1. fatFs \in FatFs
    BY IdBound DEF FatInit, FatFs
  <2> QED
    BY <2>1 DEF FatInit, FatTypeOK
<1>2. \A f \in Fil : files[f] = None
  BY DEF FatInit
<1> QED BY <1>1, <1>2 DEF FatInit, FatInv, NoFileAhead, BoundSomewhere,
           FileStaysPut, WindowGoesHome, VolumeHasPartition

-----------------------------------------------------------------------------
(* What a step does to the object and its window *)

ObjectOK ==
  /\ fatFs \in FatFs
  /\ window \in Binding \cup {None}
  /\ BoundSomewhere
  /\ WindowGoesHome

\* Either the object is the same, or it is cleared, or it has a new ID.
Rebound ==
  \/ UNCHANGED fatFs
  \/ fatFs'.id >= fatFs.id /\ (fatFs'.live => fatFs'.id > fatFs.id)

\* chk_mounted binds the object: a new mount ID, and a window that is clean.
LEMMA BindEffect ==
  ASSUME FatInv, NEW d \in Drive, NEW p \in Partition, NEW ok \in BOOLEAN, Bind(d, p, ok),
         window' \in {WindowAfterBind(ok)} \cup (IF ok THEN {Here'} ELSE {})
  PROVE  ObjectOK' /\ Rebound
<1>1. FatTypeOK /\ fatFs.id \in Nat /\ fatFs.id \in 0 .. MaxId /\ MaxId \in Nat
  BY ObjectType, IdBound DEF FatInv
<1>2. fatFs' = [live |-> ok, drv |-> d, pt |-> p,
                id |-> IF ok THEN fatFs.id + 1 ELSE fatFs.id]
  BY DEF Bind
<1>3. (IF ok THEN fatFs.id + 1 ELSE fatFs.id) \in 0 .. MaxId
  BY <1>1 DEF Bind
<1>4. fatFs' \in FatFs /\ Here' \in Binding
  BY <1>2, <1>3 DEF FatFs, Binding, Here
<1>5. window' \in Binding \cup {None}
  BY <1>1, <1>4 DEF WindowAfterBind, FatTypeOK
<1>6. ok => window' = None \/ window' = Here'
  BY DEF WindowAfterBind
<1> QED BY <1>1, <1>2, <1>4, <1>5, <1>6 DEF ObjectOK, Rebound, BoundSomewhere, WindowGoesHome

\* A path either leaves the object alone or binds it anew.
LEMMA UsePathEffect ==
  ASSUME FatInv, NEW d \in Drive, NEW ok \in BOOLEAN, UsePath(d, ok)
  PROVE  /\ ObjectOK' /\ Rebound
         /\ ok => fatFs'.live
<1>1. FatTypeOK /\ ObjectOK
  BY DEF FatInv, FatTypeOK, ObjectOK
<1>2. CASE /\ d \in volumes /\ fatFs.live /\ ok
           /\ UNCHANGED fatFs
           /\ window' \in {window, None, Here}
  <2>1. Here \in Binding
    BY <1>1, <1>2, ObjectType DEF Here, Binding, ObjectOK, BoundSomewhere
  <2> QED BY <1>1, <1>2, <2>1 DEF ObjectOK, Rebound, BoundSomewhere, WindowGoesHome, Here
<1>3. CASE /\ d \in volumes /\ ~fatFs.live
           /\ Bind(d, VolToPart[d], ok)
           /\ window' \in {WindowAfterBind(ok)} \cup (IF ok THEN {Here'} ELSE {})
  <2>1. VolToPart[d] \in Partition
    BY <1>1, <1>3 DEF FatInv, VolumeHasPartition, FatTypeOK
  <2>2. ok => fatFs'.live
    BY <1>3 DEF Bind
  <2> QED BY <1>3, <2>1, <2>2, BindEffect
<1>4. CASE d \notin volumes /\ ~ok /\ UNCHANGED <<fatFs, window>>
  BY <1>1, <1>4 DEF ObjectOK, Rebound, BoundSomewhere, WindowGoesHome, Here
<1> QED BY <1>2, <1>3, <1>4 DEF UsePath

\* A file that is left alone stays where it was, and behind the object.
LEMMA FileKept ==
  ASSUME FatInv, ObjectOK', Rebound, NEW f \in Fil, files[f] # None,
         files'[f] # None, files'[f].id = files[f].id, files'[f].at = files[f].at
  PROVE  /\ files'[f].id <= fatFs'.id
         /\ Valid(f)' => files'[f].at = Here'
<1>1. /\ files[f].id \in Nat /\ fatFs.id \in Nat /\ fatFs'.id \in Nat
      /\ files[f].id <= fatFs.id
  BY FilType, ObjectType DEF FatInv, ObjectOK, FatFs, NoFileAhead
<1>2. CASE UNCHANGED fatFs
  BY <1>1, <1>2 DEF FatInv, FileStaysPut, Valid, Here
<1>3. CASE fatFs'.id >= fatFs.id /\ (fatFs'.live => fatFs'.id > fatFs.id)
  BY <1>1, <1>3 DEF Valid
<1> QED BY <1>2, <1>3 DEF Rebound

\* When no file changes, all stay at or below the mount ID and where they are.
LEMMA AllFilesKept ==
  ASSUME FatInv, ObjectOK', Rebound, UNCHANGED files
  PROVE  NoFileAhead' /\ FileStaysPut'
BY FileKept DEF NoFileAhead, FileStaysPut

-----------------------------------------------------------------------------
(* The steps *)

\* A mount keeps the invariant at each place it can fail.
LEMMA MountInv ==
  ASSUME FatInv, NEW d \in Drive, NEW last \in Partition, NEW ok \in BOOLEAN, Mount(d, last, ok)
  PROVE  FatInv'
<1>1. /\ Bind(d, last, ok) /\ window' = WindowAfterBind(ok)
      /\ volumes' = (IF ok THEN volumes \cup {d} ELSE volumes \ {d})
      /\ VolToPart' = [VolToPart EXCEPT ![d] = IF ok THEN last ELSE None]
      /\ UNCHANGED files
  BY DEF Mount, MountPartition
<1>2. ObjectOK' /\ Rebound
  BY <1>1, BindEffect
<1>3. NoFileAhead' /\ FileStaysPut'
  BY <1>1, <1>2, AllFilesKept
<1>4. last # None
  BY IdBound
<1>5. FatTypeOK'
  BY <1>1, <1>2 DEF FatInv, FatTypeOK, ObjectOK
<1>6. VolumeHasPartition'
  BY <1>1, <1>4 DEF FatInv, FatTypeOK, VolumeHasPartition
<1> QED BY <1>2, <1>3, <1>5, <1>6 DEF FatInv, ObjectOK

\* An unmount keeps the invariant: all open files stop being valid.
LEMMA UnmountInv ==
  ASSUME FatInv, NEW d \in Drive, Unmount(d)
  PROVE  FatInv'
<1>1. /\ fatFs' = (IF d \in volumes THEN [fatFs EXCEPT !.live = FALSE] ELSE fatFs)
      /\ volumes' = volumes \ {d}
      /\ VolToPart' = [VolToPart EXCEPT ![d] = None]
      /\ UNCHANGED <<window, files>>
  BY DEF Unmount
<1>2. FatTypeOK
  BY DEF FatInv
<1>3. /\ fatFs' \in FatFs /\ fatFs'.id = fatFs.id
      /\ fatFs' = fatFs \/ ~fatFs'.live
  BY <1>1, <1>2 DEF FatTypeOK, FatFs
<1>4. FatTypeOK' /\ VolumeHasPartition'
  BY <1>1, <1>2, <1>3 DEF FatInv, FatTypeOK, VolumeHasPartition
<1>5. NoFileAhead'
  BY <1>1, <1>3 DEF FatInv, NoFileAhead
<1>6. CASE fatFs' = fatFs
  BY <1>1, <1>4, <1>5, <1>6 DEF FatInv, BoundSomewhere, FileStaysPut, WindowGoesHome, Valid, Here
<1>7. CASE ~fatFs'.live
  BY <1>4, <1>5, <1>7 DEF FatInv, BoundSomewhere, FileStaysPut, WindowGoesHome, Valid
<1> QED BY <1>3, <1>6, <1>7

\* An open gives the new file the object's mount ID and place.
LEMMA OpenInv ==
  ASSUME FatInv, NEW f \in Fil, NEW d \in Drive, NEW ok \in BOOLEAN, NEW exists \in BOOLEAN,
         Open(f, d, ok, exists)
  PROVE  FatInv'
<1>1. /\ files[f] = None /\ UsePath(d, ok)
      /\ UNCHANGED <<volumes, VolToPart>>
  BY DEF Open
<1>2. ObjectOK' /\ Rebound /\ (ok => fatFs'.live)
  BY <1>1, UsePathEffect
<1>3. VolumeHasPartition'
  BY <1>1 DEF FatInv, VolumeHasPartition
<1>4. CASE ~(ok /\ exists)
  <2>1. UNCHANGED files
    BY <1>4 DEF Open
  <2>2. FatTypeOK'
    BY <1>1, <1>2, <2>1 DEF FatInv, FatTypeOK, ObjectOK
  <2> QED BY <1>2, <1>3, <2>1, <2>2, AllFilesKept DEF FatInv, ObjectOK
<1>5. CASE ok /\ exists
  <2> DEFINE new == [id |-> fatFs'.id, at |-> Here', path |-> d, open |-> TRUE]
  <2>1. files' = [files EXCEPT ![f] = new]
    BY <1>5 DEF Open
  <2>2. /\ Here' \in Binding /\ fatFs'.id \in 0 .. MaxId /\ fatFs'.id \in Nat
    BY SMTT(20), <1>2, <1>5, IdBound DEF ObjectOK, BoundSomewhere, Binding, FatFs, Here
  <2>3. new \in FilRecord
    BY <2>2 DEF FilRecord
  <2>4. FatTypeOK'
    BY <1>1, <1>2, <2>1, <2>3 DEF FatInv, FatTypeOK, ObjectOK
  <2>5. ASSUME NEW g \in Fil, files'[g] # None
        PROVE  files'[g].id <= fatFs'.id /\ (Valid(g)' => files'[g].at = Here')
    <3>1. CASE g = f
      <4>1. files'[g] = new
        BY <2>1, <3>1 DEF FatInv, FatTypeOK
      <4> QED BY <4>1, <2>2
    <3>2. CASE g # f
      <4>1. files'[g] = files[g]
        BY <2>1, <3>2 DEF FatInv, FatTypeOK
      <4> QED BY <1>2, <2>5, <4>1, FileKept
    <3> QED BY <3>1, <3>2
  <2>6. NoFileAhead' /\ FileStaysPut'
    BY <2>5 DEF NoFileAhead, FileStaysPut
  <2> QED BY <1>2, <1>3, <2>4, <2>6 DEF FatInv, ObjectOK
<1> QED BY <1>4, <1>5

\* Operations on paths keep the invariant.
LEMMA PathOpInv ==
  ASSUME FatInv, NEW d \in Drive, NEW ok \in BOOLEAN, PathOp(d, ok)
  PROVE  FatInv'
<1>1. UsePath(d, ok) /\ UNCHANGED <<volumes, VolToPart, files>>
  BY DEF PathOp
<1>2. ObjectOK' /\ Rebound
  BY <1>1, UsePathEffect
<1>3. NoFileAhead' /\ FileStaysPut'
  BY <1>1, <1>2, AllFilesKept
<1>4. FatTypeOK' /\ VolumeHasPartition'
  BY <1>1, <1>2 DEF FatInv, FatTypeOK, ObjectOK, VolumeHasPartition
<1> QED BY <1>2, <1>3, <1>4 DEF FatInv, ObjectOK

\* A window filled here, or a clean one, belongs to the object.
LEMMA WindowOK ==
  ASSUME FatInv, fatFs.live \/ window' \in {window, None},
         window' \in {window, None, Here}, UNCHANGED fatFs
  PROVE  ObjectOK' /\ Rebound
<1>1. fatFs.live => Here \in Binding
  BY ObjectType DEF FatInv, BoundSomewhere, Here, Binding
<1> QED BY <1>1 DEF FatInv, FatTypeOK, ObjectOK, Rebound, BoundSomewhere, WindowGoesHome, Here

\* A read, write or seek of a valid file moves the window only.
LEMMA AccessInv ==
  ASSUME FatInv, NEW f \in Fil, Access(f)
  PROVE  FatInv'
<1>1. /\ fatFs.live /\ window' \in {window, None, Here}
      /\ UNCHANGED <<fatFs, volumes, VolToPart, files>>
  BY DEF Access, Valid
<1>2. ObjectOK' /\ Rebound
  BY <1>1, WindowOK
<1>3. FatTypeOK' /\ VolumeHasPartition' /\ NoFileAhead' /\ FileStaysPut'
  BY <1>1, <1>2, AllFilesKept DEF FatInv, FatTypeOK, ObjectOK, VolumeHasPartition
<1> QED BY <1>2, <1>3 DEF FatInv, ObjectOK

\* A close frees the file or, when it fails, keeps it.
LEMMA CloseInv ==
  ASSUME FatInv, NEW f \in Fil, NEW synced \in BOOLEAN, Close(f, synced)
  PROVE  FatInv'
<1>1. /\ files[f] # None /\ window' \in {window, None}
      /\ UNCHANGED <<fatFs, volumes, VolToPart>>
  BY DEF Close
<1>2. ObjectOK' /\ Rebound
  BY <1>1, WindowOK
<1>3. files \in [Fil -> FilRecord \cup {None}]
  BY DEF FatInv, FatTypeOK
<1>4. \/ files' = [files EXCEPT ![f] = None]
      \/ files' = [files EXCEPT ![f].open = FALSE]
  BY DEF Close
<1>5. files' \in [Fil -> FilRecord \cup {None}]
  <2>1. [files[f] EXCEPT !.open = FALSE] \in FilRecord
    BY <1>1, <1>3 DEF FilRecord
  <2> QED BY <1>3, <1>4, <2>1
<1>6. ASSUME NEW g \in Fil, files'[g] # None
      PROVE  files[g] # None /\ files'[g].id = files[g].id /\ files'[g].at = files[g].at
  <2>1. files[g] # None
    BY <1>1, <1>3, <1>4, <1>6
  <2>2. files[g] \in FilRecord
    BY <1>3, <2>1
  <2> QED BY <1>3, <1>4, <1>6, <2>1, <2>2 DEF FilRecord
<1>7. NoFileAhead' /\ FileStaysPut'
  BY <1>2, <1>6, FileKept DEF NoFileAhead, FileStaysPut
<1>8. FatTypeOK' /\ VolumeHasPartition'
  BY <1>1, <1>2, <1>5 DEF FatInv, FatTypeOK, ObjectOK, VolumeHasPartition
<1> QED BY <1>2, <1>7, <1>8 DEF FatInv, ObjectOK

\* Every request keeps the invariant.
LEMMA FatStepInv == FatInv /\ [FatNext]_fatVars => FatInv'
<1> SUFFICES ASSUME FatInv, [FatNext]_fatVars PROVE FatInv'
  OBVIOUS
<1>1. CASE FatNext
  BY <1>1, MountInv, UnmountInv, OpenInv, PathOpInv, AccessInv, CloseInv DEF FatNext
<1>2. CASE UNCHANGED fatVars
  BY <1>2 DEF fatVars, FatInv, FatTypeOK, NoFileAhead, BoundSomewhere, FileStaysPut,
              WindowGoesHome, VolumeHasPartition, Valid, Here
<1> QED BY <1>1, <1>2

-----------------------------------------------------------------------------
(* Theorems *)

\* Every state of the FAT module has its type.
THEOREM FatTypeCorrect == FatSpec => []FatTypeOK
<1>1. FatInv => FatTypeOK
  BY DEF FatInv
<1> QED BY <1>1, InitFatInv, FatStepInv, PTL DEF FatSpec

\* A file that validate lets through is read and written on the partition it
\* was opened on, after any mounts, unmounts and failures.
THEOREM FileAlwaysStaysPut == FatSpec => []FileStaysPut
<1>1. FatInv => FileStaysPut
  BY DEF FatInv
<1> QED BY <1>1, InitFatInv, FatStepInv, PTL DEF FatSpec

\* A dirty window is never written back to another partition than its own.
THEOREM WindowAlwaysGoesHome == FatSpec => []WindowGoesHome
<1>1. FatInv => WindowGoesHome
  BY DEF FatInv
<1> QED BY <1>1, InitFatInv, FatStepInv, PTL DEF FatSpec

\* A volume that paths can use always has a partition of its own.
THEOREM VolumeAlwaysHasPartition == FatSpec => []VolumeHasPartition
<1>1. FatInv => VolumeHasPartition
  BY DEF FatInv
<1> QED BY <1>1, InitFatInv, FatStepInv, PTL DEF FatSpec

=============================================================================
