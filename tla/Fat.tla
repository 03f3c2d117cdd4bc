---------------------------------- MODULE Fat ----------------------------------
(***************************************************************************)
(* The FAT module: mounts and open files of the SD card and the USB        *)
(* device, over the FatFs library.                                         *)
(*                                                                         *)
(* FatFs knows two volumes, "0:" and "1:", but the module has one FATFS    *)
(* object and gives it to both.  The object is bound to a partition by a   *)
(* mount, or by the first path that is used after something has cleared    *)
(* it; each time it gets a new ID, and a file remembers the ID it was      *)
(* opened under.  One sector of the object, the window, is written back    *)
(* late.                                                                   *)
(*                                                                         *)
(* The module has one thread: an operation is atomic.  What the devices    *)
(* answer, whether a partition holds a file system and whether there is    *)
(* memory are chosen by \E.                                                *)
(***************************************************************************)

EXTENDS Naturals

CONSTANTS
  Drive,      \* the two volumes: SD card, USB
  Partition,  \* entries of a partition table
  Fil,        \* addresses the heap has for FIL objects, used as descriptors
  MaxId,      \* bound: mounts of a session
  None

\* The ID is a WORD: a session is followed up to the mount that wraps it.
ASSUME FatAssumption ==
  /\ MaxId \in 0 .. 65535
  /\ None \notin Drive \cup Partition

VARIABLES
  fatFs,      \* the FATFS object: bound or cleared, drive, partition, ID
  volumes,    \* FatFs[]: the volumes the object is registered for
  VolToPart,  \* partition of each volume, None for the value 4
  window,     \* what a dirty window was filled from, None when clean
  files       \* the FIL objects: None when free

fatVars == <<fatFs, volumes, VolToPart, window, files>>

Binding == [drv : Drive, pt : Partition, id : 0 .. MaxId]
FatFs == [live : BOOLEAN, drv : Drive \cup {None}, pt : Partition \cup {None},
          id : 0 .. MaxId]
\* `at` is what the file was opened on and `path` the drive its path named:
\* both are history, FIL itself has the ID only.  A FIL stays allocated when
\* its close fails; the descriptor is gone then.
FilRecord == [id : 0 .. MaxId, at : Binding, path : Drive, open : BOOLEAN]

FatTypeOK ==
  /\ fatFs \in FatFs
  /\ volumes \subseteq Drive
  /\ VolToPart \in [Drive -> Partition \cup {None}]
  /\ window \in Binding \cup {None}
  /\ files \in [Fil -> FilRecord \cup {None}]

FatInit ==
  /\ fatFs = [live |-> FALSE, drv |-> None, pt |-> None, id |-> 0]
  /\ volumes = {}
  /\ VolToPart = [d \in Drive |-> None]
  /\ window = None
  /\ files = [f \in Fil |-> None]

-----------------------------------------------------------------------------
(* FatFs *)

Here == [drv |-> fatFs.drv, pt |-> fatFs.pt, id |-> fatFs.id]

\* Faulty: the file system gets the ID of the one before.
BindSameId(d, p, ok) ==
  fatFs' = [live |-> ok, drv |-> d, pt |-> p, id |-> fatFs.id]

\* The second half of chk_mounted: the object is bound to partition p of drive
\* d.  Without a file system there it stays cleared, but names the new drive.
Bind(d, p, ok) ==
  /\ ok => fatFs.id < MaxId
  /\ fatFs' = [live |-> ok, drv |-> d, pt |-> p,
               id |-> IF ok THEN fatFs.id + 1 ELSE fatFs.id]

\* Faulty: a window that was dirty under the old binding stays dirty.
WindowKept(ok) == window

\* wflag after that: only a binding that succeeds resets it.  The window has
\* been read over in any case: what was dirty in it is lost.
WindowAfterBind(ok) == IF ok THEN None ELSE window

\* An operation on a path of drive d, chk_mounted first.  An object that is
\* bound is taken as it is: disk_status reports a missing disk, never the
\* STA_NOINIT that chk_mounted looks for.  The operation then reads other
\* sectors, so that a dirty window is written back, or it leaves a sector it
\* has changed in the window.
UsePath(d, ok) ==
  \/ /\ d \in volumes /\ fatFs.live /\ ok
     /\ UNCHANGED fatFs
     /\ window' \in {window, None, Here}
  \/ /\ d \in volumes /\ ~fatFs.live
     /\ Bind(d, VolToPart[d], ok)
     /\ window' \in {WindowAfterBind(ok)} \cup (IF ok THEN {Here'} ELSE {})
  \/ /\ d \notin volumes /\ ~ok
     /\ UNCHANGED <<fatFs, window>>

\* validate
Valid(f) == fatFs.live /\ files[f].id = fatFs.id

-----------------------------------------------------------------------------
(* Mounts: IOCTL_FAT_MOUNT_SD, _MOUNT_USB, _UMOUNT_SD, _UMOUNT_USB *)

\* Faulty: a failed mount leaves the volume registered.
MountPartitionKeepsVolume(d, last, ok) ==
  /\ Bind(d, last, ok)
  /\ window' = WindowAfterBind(ok)
  /\ volumes' = volumes \cup {d}
  /\ VolToPart' = [VolToPart EXCEPT ![d] = IF ok THEN last ELSE None]

\* __FAT_MountPartition on each partition up to `last`, the first that can be
\* mounted or the last one tried.
MountPartition(d, last, ok) ==
  /\ Bind(d, last, ok)
  /\ window' = WindowAfterBind(ok)
  /\ volumes' = IF ok THEN volumes \cup {d} ELSE volumes \ {d}
  /\ VolToPart' = [VolToPart EXCEPT ![d] = IF ok THEN last ELSE None]

\* FAT_Mount.  A device that does not start leaves everything as it was.
Mount(d, last, ok) ==
  /\ MountPartition(d, last, ok)
  /\ UNCHANGED files

\* FAT_Unmount
Unmount(d) ==
  /\ fatFs' = IF d \in volumes THEN [fatFs EXCEPT !.live = FALSE] ELSE fatFs
  /\ volumes' = volumes \ {d}
  /\ VolToPart' = [VolToPart EXCEPT ![d] = None]
  /\ UNCHANGED <<window, files>>

-----------------------------------------------------------------------------
(* Files *)

\* FAT_Open of a path on drive d: a new FIL, freed again when f_open fails.
Open(f, d, ok, exists) ==
  /\ files[f] = None
  /\ UsePath(d, ok)
  /\ files' = IF ok /\ exists
              THEN [files EXCEPT ![f] = [id |-> fatFs'.id, at |-> Here', path |-> d, open |-> TRUE]]
              ELSE files
  /\ UNCHANGED <<volumes, VolToPart>>

\* Every other operation that takes a path: create, delete, rename, stat, usage,
\* read a directory.
PathOp(d, ok) ==
  /\ UsePath(d, ok)
  /\ UNCHANGED <<volumes, VolToPart, files>>

\* FAT_Read, FAT_Write and FAT_Seek of an open file
Access(f) ==
  /\ files[f] # None /\ files[f].open
  /\ Valid(f)
  /\ window' \in {window, None, Here}
  /\ UNCHANGED <<fatFs, volumes, VolToPart, files>>

\* FAT_Close: the FIL is freed only when f_close, which writes back, succeeds.
Close(f, synced) ==
  /\ files[f] # None /\ files[f].open
  /\ IF Valid(f) /\ synced
     THEN /\ files' = [files EXCEPT ![f] = None]
          /\ window' \in {window, None}
     ELSE /\ files' = [files EXCEPT ![f].open = FALSE]
          /\ UNCHANGED window
  /\ UNCHANGED <<fatFs, volumes, VolToPart>>

-----------------------------------------------------------------------------

FatNext ==
  \/ \E d \in Drive, last \in Partition, ok \in BOOLEAN : Mount(d, last, ok)
  \/ \E d \in Drive : Unmount(d)
  \/ \E f \in Fil, d \in Drive, ok, exists \in BOOLEAN : Open(f, d, ok, exists)
  \/ \E d \in Drive, ok \in BOOLEAN : PathOp(d, ok)
  \/ \E f \in Fil : Access(f)
  \/ \E f \in Fil, synced \in BOOLEAN : Close(f, synced)

FatSpec == FatInit /\ [][FatNext]_fatVars

-----------------------------------------------------------------------------
(* Properties *)

\* A file that still passes validate is read and written where it was opened,
\* whatever was mounted, unmounted and bound again in between: the drive and
\* the partition of the object are those of the open.
FileStaysPut ==
  \A f \in Fil : files[f] # None /\ Valid(f) => files[f].at = Here

\* A dirty window is only ever written back to the partition it was read from.
\* Nobody writes it back before the object is cleared; so it must be clean by
\* the time the object is bound again.
WindowGoesHome == fatFs.live /\ window # None => window = Here

\* A volume is registered exactly when it has a partition: a path that binds
\* the object never looks beyond the partition table (VolToPart 4), and
\* GETPARTITION answers for the volumes that can be used.
VolumeHasPartition == \A d \in Drive : d \in volumes <=> VolToPart[d] # None

=============================================================================
