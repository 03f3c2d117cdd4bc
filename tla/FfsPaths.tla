-------------------------------- MODULE FfsPaths --------------------------------
(***************************************************************************)
(* The FFS plugin: operations on paths under NAND emulation.  Nintendo's   *)
(* file system thread takes one request at a time and turns it into calls  *)
(* to the FAT module, one for most requests, up to four for a rename, two  *)
(* per folder when emulation is switched on.  A loader may use the FAT     *)
(* module itself between two calls, and the power may fail.                *)
(*                                                                         *)
(* Of the FAT module only its promise is used (FatPromise, which FatVolume *)
(* keeps): any call may also be refused.  A game sees names as the NAND    *)
(* has them, the volume has them without the characters that FAT forbids.  *)
(* The emulated NAND is here the root of the volume.                       *)
(*                                                                         *)
(* Requests that go to the original handler are not modelled, and a title  *)
(* is taken not to delete, move or switch away what it has open: FatFs has *)
(* no locks (_FS_SHARE 0).                                                 *)
(***************************************************************************)

EXTENDS Naturals, SequencesExt, FiniteSetsExt, Functions

CONSTANTS
  title, ticket, meta, import, sys, tmp, dev, launch_sys, uid_sys, disc_sys,
              \* the names the plugin knows
  Titles, Tickets, \* "00010001" and the others it emulates always
  Path,       \* what titles name, as sequences of names
  Escaped,    \* the names FAT forbids, and what FAT_Escape makes of them
  Stamp,      \* what is written
  Fil,        \* descriptors
  MaxLen,     \* bound on the units of a file
  UnitBlocks, \* a unit of data in blocks of 16 KB
  MaxFault,   \* bound on power cuts
  Off

\* A name that already looks escaped would be another name's: none is used.  Every
\* folder of a path is a path too.
ASSUME PathsAssumption ==
  /\ Path # {} /\ IsFiniteSet(Path)
  /\ \A p \in Path : Len(p) > 1 => SubSeq(p, 1, Len(p) - 1) \in Path
  /\ \A p \in Path : p \in Seq(Range(p)) /\ p # <<>>
  /\ \A p \in Path : \A i \in DOMAIN p : p[i] \notin Range(Escaped)
  /\ \A m, n \in DOMAIN Escaped : Escaped[m] = Escaped[n] => m = n
  /\ UnitBlocks \in Nat /\ MaxLen \in Nat
  /\ Off \notin BOOLEAN

VARIABLES
  mode,     \* config.mode: full emulation or not, Off without emulation
  emu,      \* the volume
  files,    \* the FAT files that are open and in the table of the plugin
  todo,     \* the calls to the FAT module that the request still makes
  asked,    \* history: the request that is or was under way
  answer,   \* blocks and inodes of the last GETUSAGE
  out,      \* what the last call has returned
  faults    \* history: how often the power was cut

vars == <<mode, emu, files, todo, asked, answer, out, faults>>

-----------------------------------------------------------------------------
(* Paths *)

FAT_Escape(p) ==
  [i \in DOMAIN p |-> IF p[i] \in DOMAIN Escaped THEN Escaped[p[i]] ELSE p[i]]

FAT_Unescape(n) ==
  IF n \in Range(Escaped) THEN CHOOSE m \in DOMAIN Escaped : Escaped[m] = n ELSE n

VolPath == {FAT_Escape(p) : p \in Path}

\* FS_CheckRealPath under emulation: which paths stay on the real NAND.
RealByFull(p) == p[1] = dev

RealByPart(p) ==
  ~ \/ p[1] = tmp /\ p # <<tmp, uid_sys>>
    \/ p[1] = import
    \/ p = <<sys, disc_sys>>
    \/ Len(p) > 1 /\ p[1] = title /\ p[2] \in Titles
    \/ Len(p) > 1 /\ p[1] = ticket /\ p[2] \in Tickets

FS_CheckRealPath(p) ==
  p = <<tmp, launch_sys>> \/ (IF mode THEN RealByFull(p) ELSE RealByPart(p))

Emulated(p) == mode # Off /\ ~FS_CheckRealPath(p)

-----------------------------------------------------------------------------
(* The FAT module as this plugin uses it, and what a title sees. *)

Fat == INSTANCE FatPromise WITH Path <- VolPath, stored <- emu, handle <- files

Visible == [p \in Path |-> emu[FAT_Escape(p)]]
VisibleFiles ==
  [h \in Fil |-> [files[h] EXCEPT !.path = [i \in DOMAIN @ |-> FAT_Unescape(@[i])]]]

Nand == INSTANCE FatPromise WITH stored <- Visible, handle <- VisibleFiles

Objects == {Fat!Absent, Fat!Directory, Fat!Busy} \cup {Fat!AFile(d) : d \in BoundedSeq(Stamp, MaxLen)}

CallOf(op, path, to) == [op |-> op, path |-> path, to |-> to]
CallSet ==
  [op : {"mkdir", "mkfile", "list", "rm", "rmdir", "mv", "probe", "stat", "usage"},
   path : VolPath, to : VolPath \cup {<<>>}]

Requests ==
  [op : {"none", "open", "create", "delete", "rename", "look", "setmode"},
   path : Path \cup {<<>>}, to : Path \cup {<<>>}]

PathsTypeOK ==
  /\ mode \in BOOLEAN \cup {Off}
  /\ emu \in [VolPath -> Objects]
  /\ \A h \in Fil : files[h] = Fat!Closed \/
       (files[h].path \in VolPath /\ files[h].pos <= Len(files[h].data))
  /\ \A i \in DOMAIN todo : todo[i] \in CallSet
  /\ asked \in Requests
  /\ answer \in [blocks : Nat, inodes : Nat]
  /\ faults \in 0 .. MaxFault
  \* A NAND that is not emulated has no request under way.
  /\ mode = Off => todo = <<>>

PathsInit ==
  /\ Fat!Init
  /\ mode = Off
  /\ todo = <<>>
  /\ asked = [op |-> "none", path |-> <<>>, to |-> <<>>]
  /\ answer = [blocks |-> 0, inodes |-> 0]

\* Nothing is open at or below p.
Unused(p) == \A h \in Fil : files[h] # Fat!Closed => ~IsPrefix(FAT_Escape(p), files[h].path)

-----------------------------------------------------------------------------
(* Calls of the FAT module *)

\* FAT_GetUsage: no more than 128 MB are told.
Blocks(units) ==
  LET blocks == units * UnitBlocks
  IN  IF blocks > 8192 THEN 4096 + (blocks % 4096) ELSE blocks

\* FAT_Rename moves only what the instance has names for.
Fits(p, q) ==
  \A r \in VolPath : IsPrefix(p, r) /\ emu[r] # Fat!Absent
                     => q \o SubSeq(r, Len(p) + 1, Len(r)) \in VolPath

\* Faulty: the names are told as the volume has them.
NamesRaw(p) == SetToSeq({Last(q) : q \in Fat!Children(p)})

\* FAT_ReadDir for the file system
Names(p) == SetToSeq({FAT_Unescape(Last(q)) : q \in Fat!Children(p)})

Under(p) == {q \in VolPath : q # p /\ IsPrefix(p, q)}
FilesUnder(p) == {q \in Under(p) : emu[q].kind \in {"file", "busy"}}
UnitsUnder(p) == MapThenSumSet(LAMBDA q : Len(emu[q].data), FilesUnder(p))

\* FAT_GetUsage of the FAT module goes on below a folder by the name a title
\* gives it, which is no path of the volume if the name was escaped.
Countable(p) == \A q \in Under(p) : emu[q].kind = "dir" => FAT_Unescape(Last(q)) = Last(q)

\* What the FAT module does.
Work(c) ==
  \/ c.op = "mkdir" /\ Fat!Create(c.path, Fat!Directory)
  \/ c.op = "mkfile" /\ Fat!Create(c.path, Fat!AFile(<<>>))
  \/ c.op = "rm" /\ Fat!Delete(c.path)
  \/ c.op = "rmdir" /\ Fat!DeleteDir(c.path)
  \/ c.op = "mv" /\ Fits(c.path, c.to) /\ Fat!Rename(c.path, c.to)
  \/ c.op \in {"stat", "probe"} /\ out' = <<Len(emu[c.path].data)>> /\ Fat!Size(c.path)
  \/ c.op = "list" /\ Fat!IsDir(c.path) /\ out' = Names(c.path) /\ UNCHANGED <<emu, files>>
  \/ /\ c.op = "usage" /\ Countable(c.path)
     /\ out' = <<Cardinality(FilesUnder(c.path)),
                 Cardinality({q \in Under(c.path) : emu[q].kind = "dir"}), UnitsUnder(c.path)>>
     /\ Fat!Usage(c.path)

\* The rename: what is at the new path makes room, whether it does or not.
AfterProbe(c, found) ==
  (IF found /\ emu[c.path] = Fat!Directory THEN <<CallOf("rmdir", c.path, <<>>)>> ELSE <<>>)
  \o (IF found THEN <<CallOf("rm", c.path, <<>>)>> ELSE <<>>)
  \o <<CallOf("mv", c.to, c.path)>>

\* The first of the calls that are left, and how the request goes on after it.
Perform(calls) ==
  LET c == Head(calls)
  IN  \E accepted \in BOOLEAN :
        /\ IF accepted THEN Work(c) ELSE Fat!Refuse
        /\ todo' = IF c.op = "probe" THEN AfterProbe(c, accepted) ELSE Tail(calls)
        /\ answer' = IF accepted /\ c.op = "usage"
                     THEN [blocks |-> Blocks(UnitsUnder(c.path)),
                           inodes |-> Cardinality(FilesUnder(c.path)) + 1]
                     ELSE answer

Step ==
  /\ todo # <<>>
  /\ Perform(todo)
  /\ UNCHANGED <<mode, asked, faults>>

-----------------------------------------------------------------------------
(* Requests *)

\* A request is taken, and its first call made.
Receive(op, p, q, calls) ==
  /\ Emulated(p)
  /\ todo = <<>>
  /\ asked' = [op |-> op, path |-> p, to |-> q]
  /\ Perform(calls)
  /\ UNCHANGED <<mode, faults>>

\* FS_GenerateAbsolutePath
Absolute(p) == FAT_Escape(p)

One(op, p) == <<CallOf(op, Absolute(p), <<>>)>>

CreateDir(p) == Receive("create", p, <<>>, One("mkdir", p))
CreateFile(p) == Receive("create", p, <<>>, One("mkfile", p))
Delete(p) == Unused(p) /\ Receive("delete", p, <<>>, One("rm", p))
ReadDir(p) == Receive("look", p, <<>>, One("list", p))

\* GETATTR and SETATTR look whether the object is there.
GetAttr(p) == Receive("look", p, <<>>, One("stat", p))

\* Faulty: the paths are not compared.
RenameCallsAlways(p, q) == <<CallOf("probe", Absolute(q), Absolute(p))>>

RenameCalls(p, q) ==
  IF Absolute(p) # Absolute(q) THEN <<CallOf("probe", Absolute(q), Absolute(p))>>
  ELSE One("stat", p)

\* Both paths are emulated; nothing is moved into itself, which FatFs does not
\* refuse.
Rename(p, q) ==
  /\ Emulated(q)
  /\ Unused(p) /\ Unused(q)
  /\ p # q => ~IsPrefix(p, q)
  /\ Receive("rename", p, q, RenameCalls(p, q))

\* __FS_FakeUsage
FakeUsage ==
  (<<ticket>> :> [blocks |-> 71, inodes |-> 77]) @@ (<<meta>> :> [blocks |-> 3, inodes |-> 8])
  @@ [p \in {<<title, t>> : t \in Titles} |-> [blocks |-> 1505, inodes |-> 74]]

\* IOCTL_ISFS_GETUSAGE.  What is not on a disc is told a constant; for some
\* folders so is a game.
GetUsage(p, onDisc) ==
  IF onDisc /\ p \notin DOMAIN FakeUsage THEN Receive("look", p, <<>>, One("usage", p))
  ELSE /\ Emulated(p)
       /\ todo = <<>>
       /\ asked' = [op |-> "look", path |-> p, to |-> <<>>]
       /\ answer' = IF onDisc THEN FakeUsage[p] ELSE [blocks |-> 1, inodes |-> 1]
       /\ IF onDisc /\ emu[FAT_Escape(p)] # Fat!Absent
          THEN out' = <<Len(emu[FAT_Escape(p)].data)>> /\ Fat!Size(FAT_Escape(p))
          ELSE Fat!Refuse
       /\ UNCHANGED <<mode, todo, faults>>

\* __FS_PrepareFolders
PrepareFolders ==
  LET Make(n) == IF <<n>> \notin Path THEN <<>>
                 ELSE (IF n = tmp THEN One("rmdir", <<n>>) ELSE <<>>) \o One("mkdir", <<n>>)
  IN  Make(import) \o Make(sys) \o Make(ticket) \o Make(title) \o Make(tmp)

\* __FS_SetMode; FAT_Init may fail.
SetMode(full) ==
  /\ todo = <<>>
  /\ \A h \in Fil : files[h] = Fat!Closed
  /\ \/ mode' = full /\ todo' = PrepareFolders
     \/ mode' = Off /\ todo' = <<>>
  /\ asked' = [op |-> "setmode", path |-> <<>>, to |-> <<>>]
  /\ UNCHANGED <<emu, files, answer, out, faults>>

-----------------------------------------------------------------------------
(* Files: one call each, through the table of the plugin. *)

\* FS_Open and the FAT module's open of a relative path, which FAT_Open creates
\* for one game.
Open(h, p, access, isNMH2) ==
  /\ Emulated(p)
  /\ IF "W" \in access THEN Unused(p)
     ELSE \A g \in Fil : files[g].path = FAT_Escape(p) => "W" \notin files[g].mode
  /\ todo = <<>>
  /\ asked' = [op |-> "open", path |-> p, to |-> <<>>]
  /\ LET q == FAT_Escape(p)
     IN  \/ /\ emu[q].kind = "absent" => isNMH2
            /\ Fat!Open(h, q, access, emu[q].data)
         \/ Fat!Refuse
  /\ UNCHANGED <<mode, todo, answer, faults>>

\* FS_Read, FS_Write, FS_Seek and FS_Close
FileCall(h, x) ==
  /\ todo = <<>>
  /\ mode # Off
  /\ files[h] # Fat!Closed
  /\ \/ \E n \in 1 .. MaxLen : Fat!Read(h, n)
     \/ \E k \in 0 .. MaxLen - files[h].pos : Fat!Write(h, k, x)
     \/ Fat!Seek(h, 0)
     \/ Fat!Close(h)
     \/ Fat!Refuse
  /\ asked' = [op |-> "look", path |-> <<>>, to |-> <<>>]
  /\ UNCHANGED <<mode, todo, answer, faults>>

-----------------------------------------------------------------------------
(* Around the plugin *)

\* A loader makes folders and files on the volume, at any moment.
LoaderCreates(p, x) ==
  /\ Fat!Create(FAT_Escape(p), x)
  /\ UNCHANGED <<mode, todo, asked, answer, faults>>

\* The power fails: the plugin forgets everything, what was open for writing is
\* on the volume with or without its data, and a folder may be partly deleted.
PowerCut ==
  /\ faults < MaxFault
  /\ faults' = faults + 1
  /\ mode' = Off /\ todo' = <<>> /\ out' = <<>>
  /\ files' = [h \in Fil |-> Fat!Closed]
  /\ \E synced \in BOOLEAN :
     \E gone \in SUBSET (IF todo # <<>> /\ Head(todo).op = "rmdir" THEN Under(Head(todo).path) ELSE {}) :
       /\ \A q \in gone : Under(q) \subseteq gone
       /\ emu' = [q \in VolPath |->
            IF q \in gone THEN Fat!Absent
            ELSE IF emu[q] = Fat!Busy
            THEN Fat!AFile(IF synced THEN files[CHOOSE h \in Fil : files[h].path = q].data ELSE <<>>)
            ELSE emu[q]]
  /\ UNCHANGED <<asked, answer>>

Request ==
  \/ \E p \in Path :
       \/ CreateDir(p) \/ CreateFile(p) \/ Delete(p) \/ ReadDir(p) \/ GetAttr(p)
       \/ \E q \in Path : Rename(p, q)
       \/ \E onDisc \in BOOLEAN : GetUsage(p, onDisc)
       \/ \E h \in Fil, access \in {{"R"}, {"W"}}, isNMH2 \in BOOLEAN : Open(h, p, access, isNMH2)
  \/ \E h \in Fil, x \in Stamp : FileCall(h, x)
  \/ \E full \in BOOLEAN : SetMode(full)

PathsNext ==
  \/ Request
  \/ Step
  \/ \E p \in Path, x \in {Fat!Directory, Fat!AFile(<<>>)} : LoaderCreates(p, x)
  \/ PowerCut

PathsSpec == PathsInit /\ [][PathsNext]_vars

-----------------------------------------------------------------------------
(* Properties *)

\* The emulated NAND is a file system of its own, in the names of the titles:
\* listings, usage, files and folders agree with one tree, through every request
\* that is several calls, and through power cuts between them.  All requests go to one
\* folder here: when SETMODE moves it the opens of the FAT module still go to the
\* folder it was told first (fat-module/main.c:428), the rest to config.path.
NandKeepsPromise == Nand!Spec

\* What a file holds changes or vanishes only by a request that names it or a
\* folder it is in: a title loses nothing to the steps of a rename, of a SETMODE
\* or of a loader.  What is moved is found again at the place the request says,
\* and a rename of a path to itself loses nothing.
ContentKept ==
  [][\A p \in Path : Visible[p].kind = "file" /\ Visible'[p] # Visible[p] =>
       \/ asked'.op \in {"open", "delete"} /\ p = asked'.path
       \/ asked'.op = "setmode" /\ p[1] = tmp
       \/ /\ asked'.op = "rename" /\ asked'.path # asked'.to
          /\ \/ IsPrefix(asked'.to, p)
             \/ /\ IsPrefix(asked'.path, p)
                /\ Visible'[asked'.to \o SubSeq(p, Len(asked'.path) + 1, Len(p))] = Visible[p]]_vars

=============================================================================
