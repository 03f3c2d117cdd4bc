------------------------------- MODULE FatVolume -------------------------------
(***************************************************************************)
(* One mounted FAT32 volume as the FatFs library keeps it: the allocation  *)
(* table, directories, files and the one sector window of _FS_TINY that    *)
(* all of them share.                                                      *)
(*                                                                         *)
(* A call of the library is a sequence of disk accesses.  The operators of *)
(* the first sections are its functions: each takes the volume as a record *)
(* and returns it as the function leaves it, with the result in res, val,  *)
(* dj and fil.  A call is one action, the module has one thread.  The      *)
(* power may go before any write of a call (a cut): the disk keeps what    *)
(* was written before it and everything else is gone.  Or one access fails *)
(* (an error) and the call goes on with that.                              *)
(*                                                                         *)
(* A name is a model value; those in Long need an LFN entry before their   *)
(* short one and are found by it only.  The second copy of the FAT, which  *)
(* is written but never read, dates and attributes are left out.           *)
(***************************************************************************)

EXTENDS Integers, SequencesExt, Calls

CONSTANTS
  Name, Long,  \* names; those that are not 8.3
  Stamp,       \* values that are written to files
  Fil,         \* file objects
  NClust,      \* clusters of the volume, the first one is the root directory
  Csize,       \* sectors of a cluster
  PerFat,      \* entries of a FAT sector
  PerSect,     \* entries of a directory sector
  Unit,        \* units of data of a sector
  Path,        \* the paths in use: of one name in the root, or of two
  Folder,      \* those of them that directories are made at
  Modes,       \* how files are opened: "R" or "W" or both, "ALWAYS" to be emptied
  Lens,        \* bound: units of a read or write
  Offsets,     \* bound: where files are positioned
  MaxAccess,   \* bound: accesses of a call before its fault
  MaxFault,    \* bound: faults of a behaviour
  Faults,      \* "cut", "error"
  None

ASSUME FatVolumeAssumption ==
  /\ Long \subseteq Name
  /\ \A p \in Path : p \in Seq(Name) /\ Len(p) \in 1 .. 2
  /\ Folder \subseteq Path
  /\ {NClust, Csize, PerFat, PerSect, Unit} \subseteq Nat \ {0}
  /\ Lens \cup Offsets \subseteq Nat
  /\ PerSect >= 2
  /\ Faults \subseteq {"cut", "error"}

VARIABLES
  vol,      \* the disk and the FATFS object
  file,     \* the FIL of every open file, with the path it was opened by
  out,      \* what the last call has returned
  faults,   \* history: how often an access has failed or the power was cut
  stored, handle  \* history: Stored and Handles, what vol and file stand for

volVars == <<vol, file, out, faults, stored, handle>>

n_fatent == NClust + 2
Eoc == n_fatent           \* any "last link" value
Bad == n_fatent + 1       \* 0xFFFFFFFF
dirbase == 2
FatSect(c) == 1 + c \div PerFat
FsInfo == FatSect(n_fatent - 1) + 1
Database == FsInfo + 1

\* clust2sect: 0 for a number that is no cluster's
Clust2Sect(c) == IF c \in 2 .. n_fatent - 1 THEN Database + (c - 2) * Csize ELSE 0

Zero == [kind |-> "end", name |-> None, clust |-> 0, size |-> 0, dir |-> FALSE]
Slot(kind, n, c, size, dir) ==
  [kind |-> kind, name |-> n, clust |-> c, size |-> size, dir |-> dir]
Blank == [i \in 0 .. PerSect - 1 |-> Zero]
Junk == [i \in 0 .. Unit - 1 |-> None]
Dots(self, up) ==
  [Blank EXCEPT ![0] = Slot("sfn", ".", self, 0, TRUE),
                ![1] = Slot("sfn", "..", up, 0, TRUE)]

NoFil == [path |-> <<>>, flag |-> {}, fptr |-> 0, fsize |-> 0, sclust |-> 0,
          clust |-> 0, dsect |-> 0, dir_sect |-> 0, dir_ptr |-> 0]
NoFiles == [h \in Fil |-> NoFil]
NoDir == [sclust |-> 0, index |-> 0, clust |-> 0, sect |-> 0, dir |-> None, lfn_idx |-> None]

\* The FSInfo sector: the count of free clusters and the last one allocated
Info(free, last) == [i \in {0} |-> [free |-> free, last |-> last]]

\* A formatted disk
Formatted ==
  [s \in 1 .. Database + NClust * Csize - 1 |->
     IF s < FsInfo
     THEN [i \in 0 .. PerFat - 1 |->
             IF (s - 1) * PerFat + i = dirbase THEN Eoc ELSE 0]
     ELSE IF s = FsInfo THEN Info(NClust - 1, dirbase)
     ELSE IF s < Clust2Sect(dirbase) + Csize THEN Blank ELSE Junk]

Unmounted(disk) ==
  [disk |-> disk, live |-> FALSE, win |-> Junk, winsect |-> 0, wflag |-> FALSE,
   free |-> -1, last |-> 0, fsi_flag |-> FALSE,
   \* of the call under way
   fault |-> "none", left |-> 0, res |-> "OK", val |-> 0, dj |-> NoDir, fil |-> NoFil, data |-> <<>>]

-----------------------------------------------------------------------------
(* Sectors *)

\* disk_read and disk_write.  A cut counts the writes, an error all accesses; a
\* disk that is cut does not come back before the next mount.
DiskRead(v, s) ==
  CASE v.fault = "error" /\ v.left = 0 -> Fail([v EXCEPT !.fault = "none"], "DISK_ERR")
    [] v.fault = "error" /\ v.left > 0 -> [v EXCEPT !.left = @ - 1]
    [] v.fault \in {"off", "torn"} -> Fail(v, "DISK_ERR")
    [] OTHER -> v

DiskWrite(v, s, x) ==
  CASE v.fault = "error" /\ v.left = 0 -> Fail([v EXCEPT !.fault = "none"], "DISK_ERR")
    [] v.fault = "cut" /\ v.left = 0 -> Fail([v EXCEPT !.fault = "off"], "DISK_ERR")
    [] v.fault \in {"off", "torn"} -> Fail(v, "DISK_ERR")
    [] v.fault = "none" -> [v EXCEPT !.disk[s] = x]
    [] OTHER -> [v EXCEPT !.disk[s] = x, !.left = @ - 1]

\* move_window.  Sector 0 only writes back.
MoveWindow(v, s) ==
  IF v.winsect = s THEN v
  ELSE Then(IF ~v.wflag THEN v
            ELSE Then(DiskWrite(v, v.winsect, v.win), LAMBDA w : [w EXCEPT !.wflag = FALSE]),
            LAMBDA w : IF s = 0 THEN w
                       ELSE Then(DiskRead(w, s),
                                 LAMBDA r : [r EXCEPT !.win = r.disk[s], !.winsect = s]))

\* Faulty: the window stays marked with the sector it held before.
SyncUnmarked(v) ==
  Then(MoveWindow(v, 0),
       LAMBDA w : IF ~w.fsi_flag THEN w
                  ELSE LET info == Info(w.free, w.last)
                       IN  Go(DiskWrite([w EXCEPT !.win = info, !.fsi_flag = FALSE],
                                        FsInfo, info)))

\* sync.  The result of the write of the FSInfo sector is not looked at.
Sync(v) ==
  Then(MoveWindow(v, 0),
       LAMBDA w : IF ~w.fsi_flag THEN w
                  ELSE LET info == Info(w.free, w.last)
                       IN  Go(DiskWrite([w EXCEPT !.winsect = 0, !.win = info,
                                                  !.fsi_flag = FALSE], FsInfo, info)))

\* A change in the window
Put(v, i, x) == [v EXCEPT !.win[i] = x, !.wflag = TRUE]

-----------------------------------------------------------------------------
(* The allocation table *)

\* get_fat: the entry in val, 1 outside the table and Bad after a disk error
GetFat(v, c) ==
  IF c \notin 2 .. n_fatent - 1 THEN [v EXCEPT !.val = 1]
  ELSE With(MoveWindow(v, FatSect(c)),
            LAMBDA w : IF w.res = "OK" THEN [w EXCEPT !.val = w.win[c % PerFat]]
                       ELSE [Go(w) EXCEPT !.val = Bad])

\* put_fat.  The window counts as changed even when the sector was not read.
PutFat(v, c, x) ==
  IF c \notin 2 .. n_fatent - 1 THEN Fail(v, "INT_ERR")
  ELSE With(MoveWindow(v, FatSect(c)),
            LAMBDA w : IF w.res = "OK" THEN Put(w, c % PerFat, x) ELSE [w EXCEPT !.wflag = TRUE])

\* Faulty: a count that is not known is changed like any other.
CountFreeAlways(v, by) == [v EXCEPT !.free = @ + by, !.fsi_flag = TRUE]

\* The count of free clusters; -1 is 0xFFFFFFFF, not known
CountFree(v, by) ==
  IF v.free = -1 THEN v ELSE [v EXCEPT !.free = @ + by, !.fsi_flag = TRUE]

RECURSIVE RemoveFrom(_, _)
RemoveFrom(v, c) ==
  IF c >= n_fatent THEN v
  ELSE With(GetFat(v, c), LAMBDA w :
         CASE w.val = 0 -> w
           [] w.val = 1 -> Fail(w, "INT_ERR")
           [] w.val = Bad -> Fail(w, "DISK_ERR")
           [] OTHER -> Then(PutFat(w, c, 0), LAMBDA x : RemoveFrom(CountFree(x, 1), w.val)))

\* Faulty: only the first cluster is freed.
RemoveHead(v, c) == Then(PutFat(v, c, 0), LAMBDA w : CountFree(w, 1))

\* remove_chain
RemoveChain(v, c) ==
  IF c \notin 2 .. n_fatent - 1 THEN Fail(v, "INT_ERR") ELSE RemoveFrom(v, c)

\* The search of create_chain from ncl on, round to scl: the free cluster in
\* val, 0 when there is none, 1 or Bad when the table could not be read.
RECURSIVE FindFree(_, _, _)
FindFree(v, scl, ncl) ==
  LET n == IF ncl + 1 >= n_fatent THEN 2 ELSE ncl + 1
  IN  IF ncl + 1 >= n_fatent /\ 2 > scl THEN [v EXCEPT !.val = 0]
      ELSE With(GetFat(v, n), LAMBDA w :
             CASE w.val = 0 -> [w EXCEPT !.val = n]
               [] w.val \in {1, Bad} -> w
               [] n = scl -> [w EXCEPT !.val = 0]
               [] OTHER -> FindFree(w, scl, n))

\* The free cluster becomes the last of the chain that ended with c.
Link(v, c) ==
  LET ncl == v.val
  IN  With(Then(PutFat(v, ncl, Eoc), LAMBDA x : IF c = 0 THEN x ELSE PutFat(x, c, ncl)),
        LAMBDA w :
          CASE w.res = "OK" -> [CountFree([w EXCEPT !.last = ncl], -1) EXCEPT !.val = ncl]
            [] w.res = "DISK_ERR" -> [Go(w) EXCEPT !.val = Bad]
            [] OTHER -> [Go(w) EXCEPT !.val = 1])

\* create_chain: a new chain for c = 0, else the cluster that follows c, a new
\* one when c is the last.  A FAT entry that could not be read passes for a
\* last link.
CreateChain(v, c) ==
  LET scl == IF c # 0 THEN c
             ELSE IF v.last \in 1 .. n_fatent - 1 THEN v.last ELSE 1
  IN  With(IF c = 0 THEN v ELSE GetFat(v, c), LAMBDA w :
        CASE c # 0 /\ w.val < 2 -> [w EXCEPT !.val = 1]
          [] c # 0 /\ w.val \in 2 .. n_fatent - 1 -> w
          [] OTHER -> With(FindFree(w, scl, scl), LAMBDA x :
                        IF x.val \in {0, 1, Bad} THEN x ELSE Link(x, c)))

\* How the callers read a cluster number they cannot use
AsError(v) ==
  CASE v.val = 0 -> Fail(v, "DENIED")
    [] v.val = 1 -> Fail(v, "INT_ERR")
    [] v.val = Bad -> Fail(v, "DISK_ERR")
    [] OTHER -> v

-----------------------------------------------------------------------------
(* Directories.  dj is the directory object of the call. *)

PerClust == PerSect * Csize

RECURSIVE FollowTable(_, _, _)
FollowTable(v, c, idx) ==
  IF idx < PerClust
  THEN [v EXCEPT !.dj.clust = c, !.dj.sect = Clust2Sect(c) + idx \div PerSect,
                 !.dj.dir = idx % PerSect]
  ELSE With(GetFat(v, c), LAMBDA w :
         CASE w.val = Bad -> Fail(w, "DISK_ERR")
           [] w.val \notin 2 .. n_fatent - 1 -> Fail(w, "INT_ERR")
           [] OTHER -> FollowTable(w, w.val, idx - PerClust))

\* dir_sdi
DirSdi(v, idx) ==
  LET w == [v EXCEPT !.dj.index = idx]
      c == IF v.dj.sclust = 0 THEN dirbase ELSE v.dj.sclust
  IN  IF v.dj.sclust = 1 \/ v.dj.sclust >= n_fatent THEN Fail(w, "INT_ERR")
      ELSE FollowTable(w, c, idx)

\* The sectors from s on, n of them, are written empty; the window is on s after.
RECURSIVE Clear(_, _, _)
Clear(v, s, n) ==
  IF n = 0 THEN v
  ELSE Then(Then(MoveWindow([v EXCEPT !.win = Blank, !.winsect = s, !.wflag = TRUE], 0),
                 LAMBDA w : Clear(w, s + 1, n - 1)),
            LAMBDA w : [w EXCEPT !.winsect = s])

\* The table is full: dir_next gives it another, empty cluster.  A cut between the
\* link and the clearing leaves a directory with a cluster of old data.
Stretch(v) ==
  Then(AsError(CreateChain(v, v.dj.clust)),
       LAMBDA w : Then(MoveWindow(w, 0),
         LAMBDA x : With(Clear(x, Clust2Sect(w.val), Csize),
           LAMBDA y : IF y.fault = "off" THEN [y EXCEPT !.fault = "torn"] ELSE y)))

\* dir_next
DirNext(v, stretch) ==
  LET i == v.dj.index + 1
      At(w, c, s) == [w EXCEPT !.dj.clust = c, !.dj.sect = s, !.dj.index = i,
                               !.dj.dir = i % PerSect]
      Cluster(w) ==
        CASE w.val <= 1 -> Fail(w, "INT_ERR")
          [] w.val = Bad -> Fail(w, "DISK_ERR")
          [] w.val < n_fatent -> At(w, w.val, Clust2Sect(w.val))
          [] ~stretch -> Fail(w, "NO_FILE")
          [] OTHER -> Then(Stretch(w), LAMBDA x : At(x, x.val, Clust2Sect(x.val)))
  IN  CASE v.dj.sect = 0 -> Fail(v, "NO_FILE")
        [] i % PerSect # 0 -> At(v, v.dj.clust, v.dj.sect)
        [] i % PerClust # 0 -> At(v, v.dj.clust, v.dj.sect + 1)
        [] OTHER -> Cluster(GetFat([v EXCEPT !.dj.sect = @ + 1], v.dj.clust))

Cell(v) == v.win[v.dj.dir]

\* dir_find from the current entry on.  pend is the name of the LFN entry just
\* passed.  A name in Long matches by its LFN entry only.
RECURSIVE FindFrom(_, _, _)
FindFrom(v, n, pend) ==
  Then(MoveWindow(v, v.dj.sect),
    LAMBDA w :
      LET cell == Cell(w)
          On(x, p) == Then(DirNext(x, FALSE), LAMBDA y : FindFrom(y, n, p))
      IN  CASE cell.kind = "end" -> Fail(w, "NO_FILE")
            [] cell.kind = "del" -> On(w, None)
            [] cell.kind = "lfn" -> On([w EXCEPT !.dj.lfn_idx = w.dj.index], cell.name)
            [] cell.kind = "sfn" /\ cell.name = n /\ pend = n -> w
            [] cell.kind = "sfn" /\ cell.name = n /\ n \notin Long ->
                 [w EXCEPT !.dj.lfn_idx = None]
            [] OTHER -> On([w EXCEPT !.dj.lfn_idx = None], None))

DirFind(v, n) == Then(DirSdi(v, 0), LAMBDA w : FindFrom(w, n, None))

\* dir_read: the next object from the current entry on, dot entries skipped
RECURSIVE DirRead(_)
DirRead(v) ==
  IF v.dj.sect = 0 THEN Fail(v, "NO_FILE")
  ELSE With(MoveWindow(v, v.dj.sect), LAMBDA w :
         CASE w.res # "OK" -> [w EXCEPT !.dj.sect = 0]
           [] Cell(w).kind = "end" -> [Fail(w, "NO_FILE") EXCEPT !.dj.sect = 0]
           [] Cell(w).kind = "sfn" /\ Cell(w).name \in Name -> w
           [] OTHER -> With(DirNext(w, FALSE), LAMBDA x :
                         IF x.res = "OK" THEN DirRead(x) ELSE [x EXCEPT !.dj.sect = 0]))

NSlots(n) == IF n \in Long THEN 2 ELSE 1

\* dir_register, first part: `need` blank entries in a row, the last of them
\* current; `got` are found, the first of them at entry `first`.
RECURSIVE Reserve(_, _, _, _)
Reserve(v, need, got, first) ==
  Then(MoveWindow(v, v.dj.sect),
    LAMBDA w :
      LET blank == Cell(w).kind \in {"end", "del"}
          start == IF got = 0 THEN w.dj.index ELSE first
      IN  IF blank /\ got + 1 = need THEN [w EXCEPT !.val = start]
          ELSE Then(DirNext(w, TRUE),
                    LAMBDA x : IF blank THEN Reserve(x, need, got + 1, start)
                               ELSE Reserve(x, need, 0, first)))

\* dir_register.  For a long name the table is first searched for a short name
\* that would collide.
DirRegister(v, n) ==
  LET Lfn(w) == Then(DirSdi(w, w.val),
                  LAMBDA x : Then(MoveWindow(x, x.dj.sect),
                    LAMBDA y : DirNext(Put(y, y.dj.dir, Slot("lfn", n, 0, 0, FALSE)), FALSE)))
  IN  With(IF n \in Long THEN DirFind(v, None) ELSE Fail(v, "NO_FILE"), LAMBDA probe :
      IF probe.res # "NO_FILE" THEN probe
      ELSE Then(DirSdi(Go(probe), 0),
             LAMBDA w0 : Then(Reserve(w0, NSlots(n), 0, 0),
               LAMBDA w : Then(IF n \in Long THEN Lfn(w) ELSE w,
                 LAMBDA x : Then(MoveWindow(x, x.dj.sect),
                   LAMBDA y : Put(y, y.dj.dir, Slot("sfn", n, 0, 0, FALSE)))))))

Deleted == [Zero EXCEPT !.kind = "del"]

\* dir_remove: from the LFN entry, if there is one, to the short one.  What is
\* left of a removed entry is never looked at.
RECURSIVE RemoveUpTo(_, _)
RemoveUpTo(v, last) ==
  Then(MoveWindow(v, v.dj.sect),
    LAMBDA w : LET x == Put(w, w.dj.dir, Deleted)
               IN  IF x.dj.index >= last THEN x
                   ELSE Then(DirNext(x, FALSE), LAMBDA y : RemoveUpTo(y, last)))

DirRemove(v) ==
  LET i == v.dj.index
  IN  With(Then(DirSdi(v, IF v.dj.lfn_idx = None THEN i ELSE v.dj.lfn_idx),
                LAMBDA x : RemoveUpTo(x, i)),
           LAMBDA w : IF w.res = "NO_FILE" THEN Fail(w, "INT_ERR") ELSE w)

\* follow_path.  The empty path is the root directory, dir is None then.
RECURSIVE FollowFrom(_, _)
FollowFrom(v, path) ==
  With(DirFind(v, Head(path)), LAMBDA w :
    CASE w.res = "NO_FILE" /\ Len(path) > 1 -> Fail(w, "NO_PATH")
      [] w.res # "OK" \/ Len(path) = 1 -> w
      [] ~Cell(w).dir -> Fail(w, "NO_PATH")
      [] OTHER -> FollowFrom([w EXCEPT !.dj.sclust = Cell(w).clust], Tail(path)))

FollowPath(v, path) ==
  LET w == [v EXCEPT !.dj = NoDir]
  IN  IF path = <<>> THEN [DirSdi(w, 0) EXCEPT !.dj.dir = None] ELSE FollowFrom(w, path)

-----------------------------------------------------------------------------
(* Calls on files.  fil is the file object of the call. *)

\* chk_mounted.  A volume that is not mounted is mounted by the first path.
ChkMounted(v) ==
  IF v.live THEN v
  ELSE Then(DiskRead(v, 0),
         LAMBDA w : With(DiskRead(w, FsInfo), LAMBDA info :
                    LET ok == info.res = "OK"
                    IN  [Go(info) EXCEPT !.live = TRUE, !.winsect = 0, !.wflag = FALSE,
                           !.fsi_flag = FALSE,
                           !.free = IF ok THEN w.disk[FsInfo][0].free ELSE -1,
                           !.last = IF ok THEN w.disk[FsInfo][0].last ELSE 0]))

\* The start of a call on an object that is not the root
Follow(v, path) ==
  Then(Then(ChkMounted(v), LAMBDA w : FollowPath(w, path)),
       LAMBDA w : IF w.dj.dir = None THEN Fail(w, "INVALID_NAME") ELSE w)

\* f_open of a file that is there or has just been registered, to be emptied
Overwrite(v) ==
  LET cl == Cell(v).clust
      w == Put(v, v.dj.dir, Slot("sfn", Cell(v).name, 0, 0, FALSE))
  IN  IF cl = 0 THEN w
      ELSE Then(RemoveChain(w, cl), LAMBDA x : MoveWindow([x EXCEPT !.last = cl - 1], w.winsect))

\* f_open; mode is a subset of "R", "W", "NEW", "ALWAYS" (create always) and
\* "OPEN_ALWAYS".
FOpen(v, path, mode) ==
  LET create == mode \cap {"NEW", "ALWAYS", "OPEN_ALWAYS"} # {}
      Entry(w) ==
        CASE ~create -> Then(w, LAMBDA x : IF Cell(x).dir THEN Fail(x, "NO_FILE") ELSE x)
          [] create /\ w.res = "OK" /\ Cell(w).dir -> Fail(w, "DENIED")
          [] create /\ w.res = "OK" /\ "NEW" \in mode -> Fail(w, "EXIST")
          [] create /\ w.res = "NO_FILE" -> DirRegister(Go(w), path[Len(path)])
          [] OTHER -> w
      Object(w, written) ==
        [w EXCEPT !.fil =
           [NoFil EXCEPT !.path = path,
                         !.flag = (mode \cap {"R", "W"}) \cup IF written THEN {"WRITTEN"} ELSE {},
                         !.sclust = Cell(w).clust, !.fsize = Cell(w).size,
                         !.dir_sect = w.winsect, !.dir_ptr = w.dj.dir]]
  IN  With(Follow(v, path), LAMBDA found :
        With(create /\ ("ALWAYS" \in mode \/ found.res # "OK"), LAMBDA written :
          Then(Then(Entry(found), LAMBDA w : IF written THEN Overwrite(w) ELSE w),
               LAMBDA w : Object(w, written))))

Abort(v, r) == Fail([v EXCEPT !.fil.flag = @ \cup {"ERROR"}], r)

\* A step of a loop that aborts the file when it fails
Step(v, Op(_)) == IF v.res = "OK" THEN Op(v) ELSE Abort(v, v.res)

\* A cluster number where a cluster is needed
AsCluster(v) ==
  CASE v.val < 2 -> Abort(v, "INT_ERR")
    [] v.val = Bad -> Abort(v, "DISK_ERR")
    [] OTHER -> [v EXCEPT !.fil.clust = v.val]

Boundary(v) == v.fil.fptr % Unit = 0
CSect(v) == (v.fil.fptr \div Unit) % Csize
Clip(v, n) == Min({n \div Unit, Csize - CSect(v)})

\* The sector at the file pointer, in val
DataSector(v) ==
  IF Clust2Sect(v.fil.clust) = 0 THEN Abort(v, "INT_ERR")
  ELSE [v EXCEPT !.val = Clust2Sect(v.fil.clust) + CSect(v)]

\* A sector as units of data: the window may hold what it was filled with for
\* another purpose.
AsData(x) == IF DOMAIN x = DOMAIN Junk /\ \A i \in DOMAIN x : x[i] \in Stamp \cup {None}
             THEN x ELSE Junk

\* The cluster for the next unit of a read, and for that of a write
ReadCluster(v) ==
  IF CSect(v) # 0 THEN v
  ELSE AsCluster(IF v.fil.fptr = 0 THEN [v EXCEPT !.val = v.fil.sclust]
                 ELSE GetFat(v, v.fil.clust))

WriteCluster(v) ==
  CASE v.fil.fptr # 0 -> CreateChain(v, v.fil.clust)
    [] v.fil.sclust # 0 -> [v EXCEPT !.val = v.fil.sclust]
    [] OTHER -> With(CreateChain(v, 0), LAMBDA w : [w EXCEPT !.fil.sclust = w.val])

Advance(v, n) == [v EXCEPT !.fil.fptr = @ + n]

\* f_read, the loop: whole sectors go round the window, except that a dirty
\* window holds the newer copy of its own.
RECURSIVE ReadLoop(_, _)
ReadLoop(v, n) ==
  LET Part(w) == Step(MoveWindow(w, w.fil.dsect),
        LAMBDA x : LET at == x.fil.fptr % Unit
                       k == Min({Unit - at, n})
                   IN  ReadLoop(Advance([x EXCEPT !.data = @ \o
                                           [i \in 1 .. k |-> AsData(x.win)[at + i - 1]]], k), n - k))
      Whole(w) == Step(DiskRead(w, w.val),
        LAMBDA x : LET cc == Clip(x, n)
                       Sect(s) == AsData(IF x.wflag /\ x.winsect = s THEN x.win ELSE x.disk[s])
                   IN  ReadLoop(Advance([x EXCEPT !.data = @ \o
                                  [i \in 1 .. cc * Unit |->
                                     Sect(x.val + ((i - 1) \div Unit))[(i - 1) % Unit]]],
                                        cc * Unit), n - cc * Unit))
  IN  CASE n = 0 -> v
        [] ~Boundary(v) -> Part(v)
        [] OTHER -> Then(Then(ReadCluster(v), DataSector),
                         LAMBDA w : IF n >= Unit THEN Whole(w)
                                    ELSE Part([w EXCEPT !.fil.dsect = w.val]))

\* f_read
FRead(v, n) ==
  CASE "ERROR" \in v.fil.flag -> Fail(v, "INT_ERR")
    [] "R" \notin v.fil.flag -> Fail(v, "DENIED")
    [] OTHER -> ReadLoop([v EXCEPT !.data = <<>>], Min({n, v.fil.fsize - v.fil.fptr}))

\* f_write: whole sectors go round the window, which is refilled if it holds one
\* of them.
WriteSectors(v, n, x) ==
  LET cc == Clip(v, n)
      full == [i \in DOMAIN Junk |-> x]
      these == v.val .. v.val + cc - 1
      More(y) == [y EXCEPT !.disk = [s \in DOMAIN @ |-> IF s \in these THEN full ELSE @[s]]]
  IN  Step(DiskWrite(v, v.val, full), LAMBDA y :
        IF y.winsect \in these THEN [More(y) EXCEPT !.win = full, !.wflag = FALSE]
        ELSE More(y))

\* f_write, the loop over n units of x.  A full disk ends it.
RECURSIVE WriteLoop(_, _, _)
WriteLoop(v, n, x) ==
  LET Part(w) == Step(MoveWindow(w, w.fil.dsect),
        LAMBDA y : LET at == y.fil.fptr % Unit
                       k == Min({Unit - at, n})
                       new == [i \in DOMAIN Junk |->
                                 IF i \in at .. at + k - 1 THEN x ELSE AsData(y.win)[i]]
                   IN  WriteLoop(Advance([y EXCEPT !.win = new, !.wflag = TRUE], k), n - k, x))
      \* a sector the file grows into is not read
      Edge(w) == IF w.fil.fptr < w.fil.fsize THEN w
                 ELSE Step(MoveWindow(w, 0), LAMBDA y : [y EXCEPT !.winsect = w.val])
      Flush(w) == IF w.winsect # w.fil.dsect THEN w ELSE Step(MoveWindow(w, 0), LAMBDA y : y)
      Next(w) ==
        IF w.val = 0 THEN w
        ELSE Then(Then(Then(AsCluster(w), Flush), DataSector),
               LAMBDA s : IF n >= Unit
                          THEN Then(WriteSectors(s, n, x),
                                    LAMBDA y : WriteLoop(Advance(y, Clip(s, n) * Unit),
                                                         n - Clip(s, n) * Unit, x))
                          ELSE Then(Edge(s), LAMBDA y : Part([y EXCEPT !.fil.dsect = s.val])))
  IN  CASE n = 0 -> v
        [] ~Boundary(v) -> Part(v)
        [] OTHER -> Next(IF CSect(v) = 0 THEN WriteCluster(v) ELSE [v EXCEPT !.val = v.fil.clust])

\* f_write
FWrite(v, n, x) ==
  CASE "ERROR" \in v.fil.flag -> Fail(v, "INT_ERR")
    [] "W" \notin v.fil.flag -> Fail(v, "DENIED")
    [] OTHER -> Then(WriteLoop(v, n, x),
                     LAMBDA w : [w EXCEPT !.fil.fsize = Max({@, w.fil.fptr}),
                                          !.fil.flag = @ \cup {"WRITTEN"}])

\* f_lseek, the clusters between: `rest` units from the start of cluster c on
RECURSIVE SeekFrom(_, _, _)
SeekFrom(v, c, rest) ==
  IF rest <= Csize * Unit
  THEN LET sect == Clust2Sect(c)
           w == Advance([v EXCEPT !.fil.clust = c], rest)
       IN  CASE rest % Unit = 0 -> w
             [] sect = 0 -> Abort(w, "INT_ERR")
             [] OTHER -> [w EXCEPT !.fil.dsect = sect + rest \div Unit]
  ELSE With(GetFat(v, c), LAMBDA w :
         CASE w.val = Bad -> Abort(w, "DISK_ERR")
           [] w.val \notin 2 .. n_fatent - 1 -> Abort(w, "INT_ERR")
           [] OTHER -> SeekFrom(Advance([w EXCEPT !.fil.clust = w.val], Csize * Unit),
                                w.val, rest - Csize * Unit))

\* f_lseek.  From the current cluster when the target is there or after it,
\* else from the first.
FLseek(v, ofs) ==
  LET bcs == Csize * Unit
      at == v.fil.fptr
      on == at > 0 /\ (ofs - 1) \div bcs >= (at - 1) \div bcs
      base == IF on THEN ((at - 1) \div bcs) * bcs ELSE 0
      c == IF on THEN v.fil.clust ELSE v.fil.sclust
      w == [v EXCEPT !.fil.fptr = base, !.fil.clust = c]
  IN  CASE "ERROR" \in v.fil.flag -> Fail(v, "INT_ERR")
        [] ofs = 0 -> [v EXCEPT !.fil.fptr = 0]
        [] c = 0 -> w
        [] OTHER -> SeekFrom(w, c, ofs - base)

\* Faulty: the entry is left in the window.
FSyncLazy(v) ==
  IF "WRITTEN" \notin v.fil.flag THEN v
  ELSE Then(MoveWindow(v, v.fil.dir_sect),
         LAMBDA w : LET i == w.fil.dir_ptr
                    IN  Put([w EXCEPT !.fil.flag = @ \ {"WRITTEN"}], i,
                            [w.win[i] EXCEPT !.size = w.fil.fsize, !.clust = w.fil.sclust]))

\* f_sync.  What lies at dir_ptr by now is not checked, and neither is the
\* error flag.
FSync(v) ==
  IF "WRITTEN" \notin v.fil.flag THEN v
  ELSE Then(MoveWindow(v, v.fil.dir_sect),
         LAMBDA w : LET i == w.fil.dir_ptr
                    IN  Sync(Put([w EXCEPT !.fil.flag = @ \ {"WRITTEN"}], i,
                                 [w.win[i] EXCEPT !.size = w.fil.fsize, !.clust = w.fil.sclust])))

-----------------------------------------------------------------------------
(* Calls on paths *)

\* f_opendir
FOpenDir(v, path) ==
  With(Then(Then(ChkMounted(v), LAMBDA x : FollowPath(x, path)),
         LAMBDA x : CASE x.dj.dir = None -> DirSdi(x, 0)
                      [] Cell(x).dir -> DirSdi([x EXCEPT !.dj.sclust = Cell(x).clust], 0)
                      [] OTHER -> Fail(x, "NO_PATH")),
       LAMBDA w : IF w.res = "NO_FILE" THEN Fail(w, "NO_PATH") ELSE w)

\* Faulty: the first entry after the dot entries is passed over.
EmptyOffByOne(v) ==
  IF ~Cell(v).dir THEN v
  ELSE With(Then(DirSdi([v EXCEPT !.dj.sclust = Cell(v).clust], 3), DirRead), LAMBDA seen :
         CASE seen.res = "NO_FILE" -> [Go(seen) EXCEPT !.dj = v.dj]
           [] seen.res = "OK" -> Fail(seen, "DENIED")
           [] OTHER -> seen)

\* f_unlink, the check of a directory: no object after the dot entries
Empty(v) ==
  CASE ~Cell(v).dir -> v
    [] Cell(v).dir /\ Cell(v).clust < 2 -> Fail(v, "INT_ERR")
    [] OTHER -> With(Then(DirSdi([v EXCEPT !.dj.sclust = Cell(v).clust], 2), DirRead), LAMBDA seen :
         CASE seen.res = "NO_FILE" -> [Go(seen) EXCEPT !.dj = v.dj]
           [] seen.res = "OK" -> Fail(seen, "DENIED")
           [] OTHER -> seen)

\* Faulty: the clusters are freed before the entry is removed.
FUnlinkEarly(v, path) ==
  Then(Follow(v, path), LAMBDA found :
    LET dclst == Cell(found).clust
    IN  Then(Empty(found), LAMBDA w :
          Then(IF dclst = 0 THEN w ELSE RemoveChain(w, dclst),
               LAMBDA x : Then(DirRemove(x), Sync))))

\* f_unlink
FUnlink(v, path) ==
  Then(Follow(v, path), LAMBDA found :
    LET dclst == Cell(found).clust
    IN  Then(Empty(found), LAMBDA w :
          Then(DirRemove(w),
               LAMBDA x : Then(IF dclst = 0 THEN x ELSE RemoveChain(x, dclst), Sync))))

\* f_mkdir, the table of the new directory: dot entries, then empty sectors.  The
\* window is cleared once more after the last one is written.
DirTable(v, dcl, up) ==
  LET first == [v EXCEPT !.win = Dots(dcl, up), !.winsect = Clust2Sect(dcl), !.wflag = TRUE]
  IN  Then(MoveWindow(first, 0),
        LAMBDA w : IF Csize = 1 THEN [w EXCEPT !.win = Blank]
                   ELSE Then(Clear(w, w.winsect + 1, Csize - 1),
                             LAMBDA x : [x EXCEPT !.winsect = Clust2Sect(dcl) + Csize - 1]))

\* f_mkdir
FMkdir(v, path) ==
  LET Entry(chain) ==
        Then(Then(Then(AsError(chain), LAMBDA w : MoveWindow(w, 0)),
               LAMBDA w : DirTable(w, chain.val, IF w.dj.sclust = dirbase THEN 0 ELSE w.dj.sclust)),
             LAMBDA w : DirRegister(w, path[Len(path)]))
      Ends(w, dcl) ==
        IF w.res # "OK" THEN Fail(RemoveChain(Go(w), dcl), w.res)
        ELSE Sync(Put(w, w.dj.dir, Slot("sfn", path[Len(path)], dcl, 0, TRUE)))
  IN  With(Then(ChkMounted(v), LAMBDA w : FollowPath(w, path)), LAMBDA found :
        CASE found.res = "OK" -> Fail(found, "EXIST")
          [] found.res # "NO_FILE" -> found
          [] OTHER -> With(CreateChain(Go(found), 0), LAMBDA w : Ends(Entry(w), w.val)))

\* f_rename, a directory that goes to another one: its ".." entry follows
DotDot(v, old) ==
  LET cell == Cell(v)
      dw == Clust2Sect(cell.clust)
  IN  CASE old.sclust = v.dj.sclust \/ ~cell.dir -> v
        [] dw = 0 -> Fail(v, "INT_ERR")
        [] OTHER -> Then(MoveWindow(v, dw),
             LAMBDA w : IF w.win[1].name # ".." THEN w
                        ELSE Put(w, 1, [w.win[1] EXCEPT !.clust = IF v.dj.sclust = dirbase THEN 0
                                                                  ELSE v.dj.sclust]))

\* f_rename: the new entry is registered before the old one is removed.
FRename(v, path, new) ==
  LET Move(w, old, buf) ==
        Then(DirRegister(Go(w), new[Len(new)]),
          LAMBDA x : Then(DotDot(Put(x, x.dj.dir, [buf EXCEPT !.name = new[Len(new)]]), old),
            LAMBDA y : Then(DirRemove([y EXCEPT !.dj = old]), Sync)))
      To(found) ==
        IF found.dj.dir = None THEN Fail(found, "NO_FILE")
        ELSE With(FollowPath(found, new), LAMBDA target :
               CASE target.res = "OK" -> Fail(target, "EXIST")
                 [] target.res # "NO_FILE" -> target
                 [] OTHER -> Move(target, found.dj, Cell(found)))
  IN  Then(Then(ChkMounted(v), LAMBDA w : FollowPath(w, path)), To)

-----------------------------------------------------------------------------
(* fat_wrapper.c: directories *)

\* f_readdir and __FAT_ReadDirEntry: the entry is the last of data, the
\* directory object has gone on to the next.  At the end res is NO_FILE.
FReadDir(v) ==
  Then(DirRead(v),
    LAMBDA w : With(DirNext([w EXCEPT !.data = Append(@, Cell(w))], FALSE), LAMBDA x :
                 IF x.res = "NO_FILE" THEN [Go(x) EXCEPT !.dj.sect = 0] ELSE x))

\* The entries of an open directory, in data
RECURSIVE ReadAll(_)
ReadAll(v) ==
  With(FReadDir(v), LAMBDA w : IF w.res = "NO_FILE" THEN Go(w) ELSE Then(w, ReadAll))

\* FAT_ReadDir.  A path that can be opened as a file is refused; every other
\* error of the open is passed over.
FatReadDir(v, path) ==
  With(FOpen(v, path, {}), LAMBDA probe :
    IF probe.res = "OK" THEN Fail(probe, "FATAL")
    ELSE Then(FOpenDir(Go(probe), path), LAMBDA w : ReadAll([w EXCEPT !.data = <<>>])))

\* FAT_GetUsage: files, directories and units under path, added to those in acc.
\* Names are taken to be no longer than the 12 characters of the NAND's, and
\* without characters that FAT_Unescape changes.
RECURSIVE Usage(_, _, _)
Usage(v, path, acc) ==
  LET Sum(w) == [w EXCEPT !.data =
        <<acc[1] + Len(SelectSeq(w.data, LAMBDA c : ~c.dir)),
          acc[2] + Len(SelectSeq(w.data, LAMBDA c : c.dir)),
          acc[3] + FoldSeq(LAMBDA c, n : c.size + n, 0, w.data)>>]
      Sub(w, c) == IF ~c.dir THEN w
                   ELSE Then(w, LAMBDA x : Usage(x, Append(path, c.name), x.data))
  IN  Then(Then(FOpenDir(v, path), LAMBDA w : ReadAll([w EXCEPT !.data = <<>>])),
           LAMBDA w : FoldLeft(Sub, Sum(w), w.data))

\* FAT_DeleteDir: what is in a directory, each entry after what is in it.  The
\* directory object stays open while entries are removed.  The result of the
\* recursive call is not looked at.
RECURSIVE DeleteAll(_, _)
DeleteAll(v, path) ==
  LET Emptied(w, sub) == Go(Then(FOpenDir(w, sub), LAMBDA x : DeleteAll(x, sub)))
      Entry(w, c) ==
        LET sub == Append(path, c.name)
        IN  Then(FUnlink(IF c.dir THEN Emptied(w, sub) ELSE w, sub),
                 LAMBDA x : DeleteAll([x EXCEPT !.dj = w.dj], path))
  IN  With(FReadDir(v), LAMBDA w :
        IF w.res = "NO_FILE" THEN Go(w) ELSE Then(w, LAMBDA x : Entry(x, Last(x.data))))

FatDeleteDir(v, path) == Then(FOpenDir(v, path), LAMBDA w : DeleteAll(w, path))

-----------------------------------------------------------------------------
(* The volume as the next call sees it: the disk under a dirty window *)

View(v, s) == IF v.wflag /\ v.winsect = s THEN v.win ELSE v.disk[s]
FatEntry(v, c) == View(v, FatSect(c))[c % PerFat]

\* The clusters from c on; longer than the volume when the chain does not end
RECURSIVE ChainFrom(_, _, _)
ChainFrom(v, c, n) ==
  IF n = 0 \/ c \notin 2 .. n_fatent - 1 THEN <<>>
  ELSE <<c>> \o ChainFrom(v, FatEntry(v, c), n - 1)
Chain(v, c) == ChainFrom(v, c, NClust + 1)

\* Every sector of a chain is seen as one table of entries, or of units.
SectorOf(v, chain, i, per) == View(v, Clust2Sect(chain[(i \div (per * Csize)) + 1])
                                     + (i % (per * Csize)) \div per)

\* The cells of a directory up to its end
Cells(v, c) ==
  LET Table(chain) == [i \in 1 .. Len(chain) * PerClust |->
                         SectorOf(v, chain, i - 1, PerSect)[(i - 1) % PerSect]]
      Used(cells) == SubSeq(cells, 1, SelectInSeq(Append(cells, Zero),
                                                  LAMBDA cell : cell.kind = "end") - 1)
  IN  Used(Table(Chain(v, c)))

\* The objects among cells: each with a short entry, after its LFN entry
IsObject(cells, i) ==
  /\ cells[i].kind = "sfn" /\ cells[i].name \in Name
  /\ cells[i].name \in Long =>
       i > 1 /\ cells[i - 1].kind = "lfn" /\ cells[i - 1].name = cells[i].name
ObjectsIn(cells) == {cells[i] : i \in {j \in DOMAIN cells : IsObject(cells, j)}}

\* The objects of the volume, each with its path
Under(v, path, c) == {[path |-> Append(path, o.name), entry |-> o] : o \in ObjectsIn(Cells(v, c))}
Tree(v) ==
  With(Under(v, <<>>, dirbase), LAMBDA top :
    top \cup UNION {Under(v, x.path, x.entry.clust) : x \in {y \in top : y.entry.dir}})

\* A short entry of a long name whose LFN entry is gone: dir_remove was cut
\* between two sectors.  It is an object by its short name.
Orphaned(v) ==
  \E c \in {dirbase} \cup {x.entry.clust : x \in {y \in Tree(v) : y.entry.dir}} :
    With(Cells(v, c), LAMBDA cells :
      \E i \in DOMAIN cells : cells[i].kind = "sfn" /\ cells[i].name \in Long
                               /\ ~IsObject(cells, i))

\* The data of a chain
Data(v, c, size) ==
  LET Units(chain) == [i \in 1 .. Min({size, Len(chain) * Csize * Unit}) |->
                         AsData(SectorOf(v, chain, i - 1, Unit))[(i - 1) % Unit]]
  IN  Units(Chain(v, c))

\* The map from paths to objects, and the open files as their readers see them
Writers(files) == {h \in Fil : "W" \in files[h].flag}

Stored(v, files) ==
  LET What(p, objs) ==
        CASE \E h \in Writers(files) : files[h].path = p -> [kind |-> "busy", data |-> <<>>]
          [] objs = {} -> [kind |-> "absent", data |-> <<>>]
          [] OTHER -> With((CHOOSE x \in objs : TRUE).entry, LAMBDA o :
                        IF o.dir THEN [kind |-> "dir", data |-> <<>>]
                        ELSE [kind |-> "file", data |-> Data(v, o.clust, o.size)])
  IN  With(Tree(v), LAMBDA tree : [p \in Path |-> What(p, {x \in tree : x.path = p})])

Handles(v, files) ==
  [h \in Fil |->
     [path |-> files[h].path, data |-> Data(v, files[h].sclust, files[h].fsize),
      pos |-> files[h].fptr, mode |-> files[h].flag \cap {"R", "W"}]]

-----------------------------------------------------------------------------
(* Actions *)

Fault == {[kind |-> "none", left |-> 0]}
           \cup {[kind |-> k, left |-> n] : k \in Faults, n \in 0 .. MaxAccess}

\* Between calls
Quiet(v) == [v EXCEPT !.fault = "none", !.left = 0, !.res = "OK", !.val = 0, !.dj = NoDir,
                      !.fil = NoFil, !.data = <<>>]

\* A call ends with the volume v and the files f.
Ends(v, f, o) ==
  /\ vol' = v
  /\ file' = f
  /\ out' = o
  /\ stored' = Stored(v, f)
  /\ handle' = Handles(v, f)

\* A call runs Op, with at most one fault: Files is the file objects after it and
\* Out what it returns.  After a cut only the disk is left; one that tears a
\* directory or leaves half of a long name is not followed.
Call(Op(_), Files(_), Out(_)) ==
  \E f \in Fault :
    /\ f.kind # "none" => faults < MaxFault
    /\ faults' = faults + IF f.kind = "none" THEN 0 ELSE 1
    /\ \E w \in {Op([vol EXCEPT !.fault = f.kind, !.left = f.left])} :
         /\ f.kind # "none" => w.fault \notin {f.kind, "torn"}
         /\ w.fault = "off" => ~Orphaned(Unmounted(w.disk))
         /\ IF w.fault = "off" THEN Ends(Unmounted(w.disk), NoFiles, <<>>)
            ELSE Ends(Quiet(w), Files(w), Out(w))

Same(w) == file
Nothing(w) == <<>>
IsOpen(h) == file[h] # NoFil

\* Nothing in or under path is open.  FatFs has no file locks (_FS_SHARE 0): the
\* titles must not write, remove or rename a file that is open elsewhere.
Unused(path) == \A h \in Fil : IsOpen(h) => ~IsPrefix(path, file[h].path)
Unwritten(path) == \A h \in Fil : IsOpen(h) /\ "W" \in file[h].flag => file[h].path # path

\* FAT_Open.  NoMoreHeroes2 has a file created that it opens for writing.
Open(h, path, mode, isNMH2) ==
  /\ ~IsOpen(h)
  /\ IF mode = {"R"} THEN Unwritten(path) ELSE Unused(path)
  /\ Call(LAMBDA v : With(FOpen(v, path, mode), LAMBDA w :
                       IF w.res = "NO_FILE" /\ "W" \in mode /\ isNMH2
                       THEN FOpen(Go(w), path, mode \cup {"ALWAYS"}) ELSE w),
          LAMBDA w : IF w.res = "OK" THEN [file EXCEPT ![h] = w.fil] ELSE file,
          Nothing)

\* FAT_CreateFile
CreateFile(path) ==
  /\ Unused(path)
  /\ Call(LAMBDA v : Then(FOpen(v, path, {"NEW"}), FSync), Same, Nothing)

\* FAT_Read
Read(h, n) ==
  /\ IsOpen(h)
  /\ Call(LAMBDA v : FRead([v EXCEPT !.fil = file[h]], n),
          LAMBDA w : [file EXCEPT ![h] = w.fil],
          LAMBDA w : IF w.res = "OK" THEN w.data ELSE <<>>)

\* FAT_Write
Write(h, n, x) ==
  /\ IsOpen(h)
  /\ Call(LAMBDA v : FWrite([v EXCEPT !.fil = file[h]], n, x),
          LAMBDA w : [file EXCEPT ![h] = w.fil],
          Nothing)

\* FAT_Seek, never beyond the end
Seek(h, ofs) ==
  /\ IsOpen(h)
  /\ ofs <= file[h].fsize
  /\ Call(LAMBDA v : FLseek([v EXCEPT !.fil = file[h]], ofs),
          LAMBDA w : [file EXCEPT ![h] = w.fil],
          Nothing)

\* FAT_Close.  The descriptor is gone whether f_close succeeds or not.
Close(h) ==
  /\ IsOpen(h)
  /\ Call(LAMBDA v : FSync([v EXCEPT !.fil = file[h]]),
          LAMBDA w : [file EXCEPT ![h] = NoFil],
          Nothing)

\* FAT_CreateDir
CreateDir(path) == Call(LAMBDA v : FMkdir(v, path), Same, Nothing)

\* FAT_Delete
Delete(path) == Unused(path) /\ Call(LAMBDA v : FUnlink(v, path), Same, Nothing)

\* FAT_DeleteDir
DeleteDir(path) == Unused(path) /\ Call(LAMBDA v : FatDeleteDir(v, path), Same, Nothing)

\* FAT_Rename.  A fault between the two entries leaves both, in a section the
\* code marks as critical: no fault happens here.  A directory is not renamed
\* into itself, and not to where its contents would be no Path any more.
Rename(path, new) ==
  /\ Unused(path)
  /\ ~IsPrefix(path, new)
  /\ path \in Folder =>
       \A q \in Path : IsPrefix(path, q) => new \o SubSeq(q, Len(path) + 1, Len(q)) \in Path
  /\ Call(LAMBDA v : FRename(v, path, new), Same, Nothing)
  /\ UNCHANGED faults

Names(cells) == [i \in DOMAIN cells |-> cells[i].name]

\* FAT_ReadDir, FAT_GetUsage and FAT_GetStats
ReadDir(path) ==
  Call(LAMBDA v : FatReadDir(v, path), Same,
       LAMBDA w : IF w.res = "OK" THEN Names(w.data) ELSE <<>>)

GetUsage(path) ==
  Call(LAMBDA v : Usage(v, path, <<0, 0, 0>>), Same,
       LAMBDA w : IF w.res = "OK" THEN w.data ELSE <<>>)

GetStats(path) ==
  Call(LAMBDA v : Then(ChkMounted(v), LAMBDA w : FollowPath(w, path)), Same,
       LAMBDA w : IF w.res = "OK" THEN <<Cell(w).size>> ELSE <<>>)

\* The power goes between two calls.
PowerCut ==
  /\ "cut" \in Faults /\ faults < MaxFault
  /\ Ends(Unmounted(vol.disk), NoFiles, <<>>)
  /\ faults' = faults + 1

VolInit ==
  /\ vol = Unmounted(Formatted)
  /\ file = NoFiles
  /\ out = <<>>
  /\ faults = 0
  /\ stored = Stored(vol, file)
  /\ handle = Handles(vol, file)

VolNext ==
  \/ \E h \in Fil, p \in Path, m \in Modes, nmh \in BOOLEAN : Open(h, p, m, nmh)
  \/ \E p \in Path : CreateFile(p)
  \/ \E h \in Fil, n \in Lens : Read(h, n)
  \/ \E h \in Fil, n \in Lens, x \in Stamp : Write(h, n, x)
  \/ \E h \in Fil, ofs \in Offsets : Seek(h, ofs)
  \/ \E h \in Fil : Close(h)
  \/ \E p \in Folder : CreateDir(p)
  \/ \E p \in Path : Delete(p)
  \/ \E p \in Path : DeleteDir(p)
  \/ \E p, q \in Path : Rename(p, q)
  \/ \E p \in Path \cup {<<>>} : ReadDir(p)
  \/ \E p \in Path \cup {<<>>} : GetUsage(p)
  \/ \E p \in Path : GetStats(p)
  \/ PowerCut

VolSpec == VolInit /\ [][VolNext]_volVars

-----------------------------------------------------------------------------
(* Properties *)

FatVolTypeOK ==
  /\ DOMAIN vol.disk = DOMAIN Formatted
  /\ vol.winsect \in {0} \cup DOMAIN Formatted
  /\ vol.free \in Int /\ vol.free >= -1
  /\ vol.last \in 0 .. n_fatent - 1
  /\ vol.live \in BOOLEAN /\ vol.wflag \in BOOLEAN /\ faults \in 0 .. MaxFault
  /\ \A h \in Fil : file[h] # NoFil =>
       /\ vol.live
       /\ file[h].path \in Path /\ file[h].flag \subseteq {"R", "W", "WRITTEN", "ERROR"}
       /\ file[h].fptr \in 0 .. file[h].fsize

\* Who has clusters: the root, every other object by its entry, and the open
\* files that are written, by their FIL instead.
Owners ==
  LET busy == {file[h].path : h \in Writers(file)}
  IN  {[path |-> <<>>, clust |-> dirbase, size |-> 0]}
        \cup {[path |-> file[h].path, clust |-> file[h].sclust, size |-> file[h].fsize]
                : h \in Writers(file)}
        \cup {[path |-> x.path, clust |-> x.entry.clust, size |-> x.entry.size]
                : x \in {y \in Tree(vol) : y.path \notin busy}}
ClustersOf(o) == Range(Chain(vol, o.clust))

\* No two objects share a cluster, every chain ends, and is long enough for the
\* size its entry or FIL gives: in the view of the next call, and so after a cut
\* on the disk alone.
NoCrossLink ==
  /\ \A o \in Owners :
       LET chain == Chain(vol, o.clust)
       IN  /\ Len(chain) <= NClust
           /\ IF chain = <<>> THEN o.clust = 0 ELSE FatEntry(vol, Last(chain)) = Eoc
           /\ o.size <= Len(chain) * Csize * Unit
  /\ \A o, p \in Owners : o # p => ClustersOf(o) \cap ClustersOf(p) = {}

\* As long as nothing has failed no cluster is lost: every one that is not free
\* belongs to an object, on a full volume and in a full directory too; and
\* the count that goes to the FSInfo sector is that of the table.
NoLostCluster ==
  faults = 0 /\ vol.live =>
    LET free == {c \in 2 .. n_fatent - 1 : FatEntry(vol, c) = 0}
    IN  /\ 2 .. n_fatent - 1 = free \cup UNION {ClustersOf(o) : o \in Owners}
        /\ vol.free = Cardinality(free)

\* A window that is not dirty is a copy of the sector it is marked with, whatever
\* went round it: nothing is ever read that is older than the disk.
WindowIsCopy ==
  vol.live /\ ~vol.wflag /\ vol.winsect # 0 => vol.win = vol.disk[vol.winsect]

Promise == INSTANCE FatPromise WITH MaxLen <- Max(Lens \cup {0})

\* The volume keeps its promise: a read returns what was written, whichever way
\* it went, through the window or round it; a call changes the path it is about
\* and no other; and after a power cut, between two calls or before any write
\* of one, every file that was closed is there with its data.
KeepsPromise == Promise!Spec

=============================================================================
