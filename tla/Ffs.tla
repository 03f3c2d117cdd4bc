---------------------------------- MODULE Ffs ----------------------------------
(***************************************************************************)
(* The FFS plugin: NAND emulation.  It runs in two places.  The hook in    *)
(* the kernel's open runs in the thread that opens, before the request is  *)
(* queued; the plugin proper runs in the thread of Nintendo's file system, *)
(* which takes the requests of all threads from one queue.  A path that    *)
(* starts with '#' is to reach the real NAND even under emulation: the     *)
(* hook tells the file system so by a global flag.                         *)
(*                                                                         *)
(* Emulated opens go to the FAT module by a relative path, below a folder  *)
(* that the FAT module is told once.  All other emulated operations use    *)
(* absolute paths below config.path and keep no state.                     *)
(*                                                                         *)
(* A thread waits for the answer to its request.  The handling of a        *)
(* request is atomic, since other threads can only queue meanwhile and set *)
(* the flag.  One moment is left out by that: a hook that runs while a     *)
(* SETMODE is failing sees a mode that is not to be; the flag it leaves    *)
(* without a mode is also left by a '#' request behind a SETMODE(OFF).     *)
(***************************************************************************)

EXTENDS Integers, Sequences, FiniteSets, Stealth

CONSTANTS
  Client,     \* threads that open files, one request at a time
  Es, Dip,    \* the threads that register rights for themselves
  Fs,         \* the file system's own thread
  Path,       \* what paths look like to FS_CheckRealPath
  Folder,     \* folders a loader names for an emulated NAND
  Root,       \* "/", the folder of the FAT module before it is told one
  Fd,         \* descriptors the kernel has for the file system's thread
  MaxFatFd,   \* MAX_FAT_FD
  MaxTids,    \* MAX_NUM_TIDS
  None

Thread == Client \cup {Es, Dip, Fs}

\* Three threads ever register.
ASSUME FfsAssumption ==
  /\ Path \subseteq {"title", "system", "launch.sys", "/dev"}
  /\ Root \in Folder
  /\ "real" \notin Folder
  /\ Fs \notin Client \cup {Es, Dip}
  /\ MaxFatFd \in Nat
  /\ MaxTids \in Nat /\ MaxTids >= 3
  /\ None \notin Folder \cup Fd

VARIABLES
  mode,           \* config: folder and extent of the emulation, None when off
  forceRealPath,  \* the hook's flag
  fat_fd,         \* table of the FAT files that clients have open
  rights,         \* thread rights that MLOAD keeps
  fatModule,      \* fatFd > 0: the plugin has opened the FAT module
  emuNandPath,    \* the FAT module's folder of relative paths
  fatFiles,       \* FAT files open for the file system's thread
  queue,          \* requests to the file system's thread
  handle,         \* the FAT file a client believes it has open
  served          \* history: where the open just answered was sent, else None

ffsVars == <<mode, forceRealPath, fat_fd, rights, fatModule, emuNandPath, fatFiles,
             queue, handle, served>>
vars == <<stealthVars, ffsVars>>

Target == [folder : Folder, full : BOOLEAN]
Right == {"OPEN_FAT", "FORCE_REAL_NAND"}

\* hash: the path began with '#'.  alone: history, nothing was queued before it.
OpenRequest == [op : {"open"}, from : Client, path : Path, hash : BOOLEAN, alone : BOOLEAN]
CloseRequest == [op : {"close"}, from : Client, fd : Fd]
ModeRequest == [op : {"setmode"}, from : Client, target : Target \cup {None}]
Request == OpenRequest \cup CloseRequest \cup ModeRequest

\* old: history, opened before the last SETMODE that enabled emulation.
FatFile == [folder : Folder, old : BOOLEAN]

FfsTypeOK ==
  /\ StealthTypeOK
  /\ mode \in Target \cup {None}
  /\ forceRealPath \in BOOLEAN
  /\ fat_fd \in [1 .. MaxFatFd -> Fd \cup {None}]
  /\ rights \in [Thread -> SUBSET Right]
  /\ fatModule \in BOOLEAN
  /\ emuNandPath \in Folder
  /\ fatFiles \in [Fd -> FatFile \cup {None}]
  /\ queue \in Seq(Request)
  /\ handle \in [Client -> Fd \cup {None}]
  /\ served \in Folder \cup {"real", None}

\* fat_fd starts with zeroes, which nobody looks at before SETMODE empties it.
FfsInit ==
  /\ StealthInit
  /\ mode = None
  /\ forceRealPath = FALSE
  /\ fat_fd = [i \in 1 .. MaxFatFd |-> None]
  /\ rights = [t \in Thread |-> {}]
  /\ fatModule = FALSE
  /\ emuNandPath = Root
  /\ fatFiles = [fd \in Fd |-> None]
  /\ queue = <<>>
  /\ handle = [c \in Client |-> None]
  /\ served = None

-----------------------------------------------------------------------------
(* Helpers *)

\* TID_CheckRights
CheckRights(t, right) == ~stealth_mode \/ right \in rights[t]

\* TID_AddRights; nobody looks at the error of a full table.
AddRights(t, right) ==
  rights' = IF rights[t] # {} \/ Cardinality({u \in Thread : rights[u] # {}}) < MaxTids
            THEN [rights EXCEPT ![t] = @ \cup {right}] ELSE rights

\* FS_CheckRealPath, emulation being on: a title's data are emulated always,
\* what belongs to the system only by a full emulation.
CheckRealPath(path) ==
  ~(path = "title" \/ (path = "system" /\ mode.full))

Registered(fd) == \E i \in DOMAIN fat_fd : fat_fd[i] = fd

\* __FS_RegisterFile; a file that finds no place is handed out all the same.
RegisterFile(fd) ==
  LET free == {i \in DOMAIN fat_fd : fat_fd[i] = None}
  IN  fat_fd' = IF free = {} THEN fat_fd
                ELSE [fat_fd EXCEPT ![CHOOSE i \in free : TRUE] = fd]

\* __FS_UnregisterFile of the entry __FS_GetFileIndex finds.
UnregisterFile(fd) ==
  fat_fd' = [fat_fd EXCEPT ![CHOOSE i \in DOMAIN fat_fd : fat_fd[i] = fd] = None]

\* The hook on the file system's own open of a FAT path.
FatAllowed(t) == GetRunningTitle => CheckRights(t, "OPEN_FAT")

Idle(c) == \A i \in DOMAIN queue : queue[i].from # c

-----------------------------------------------------------------------------
(* The hook and the clients *)

\* Faulty: the flag is set for every path, not only for those with '#'.
SendOpenSetsFlag(c, path, hash) ==
  /\ Idle(c)
  /\ hash => CheckRights(c, "FORCE_REAL_NAND")
  /\ forceRealPath' = (hash /\ mode # None)
  /\ queue' = Append(queue, [op |-> "open", from |-> c, path |-> path, hash |-> hash,
                             alone |-> queue = <<>>])
  /\ served' = None
  /\ UNCHANGED <<stealthVars, mode, fat_fd, rights, fatModule, emuNandPath, fatFiles, handle>>

\* __IOP_SyscallOpen of a path of the NAND, then the kernel's open.  A '#' of a
\* thread without the right leaves a path no device answers to.
SendOpen(c, path, hash) ==
  /\ Idle(c)
  /\ hash => CheckRights(c, "FORCE_REAL_NAND")
  /\ forceRealPath' = IF hash THEN mode # None ELSE forceRealPath
  /\ queue' = Append(queue, [op |-> "open", from |-> c, path |-> path, hash |-> hash,
                             alone |-> queue = <<>>])
  /\ served' = None
  /\ UNCHANGED <<stealthVars, mode, fat_fd, rights, fatModule, emuNandPath, fatFiles, handle>>

SendClose(c) ==
  /\ Idle(c)
  /\ handle[c] # None
  /\ queue' = Append(queue, [op |-> "close", from |-> c, fd |-> handle[c]])
  /\ served' = None
  /\ UNCHANGED <<stealthVars, mode, forceRealPath, fat_fd, rights, fatModule, emuNandPath,
                 fatFiles, handle>>

\* IOCTL_ISFS_SETMODE, with a folder or without.
SendSetMode(c, target) ==
  /\ Idle(c)
  /\ queue' = Append(queue, [op |-> "setmode", from |-> c, target |-> target])
  /\ served' = None
  /\ UNCHANGED <<stealthVars, mode, forceRealPath, fat_fd, rights, fatModule, emuNandPath,
                 fatFiles, handle>>

\* ES and DIP register their rights at their first message.
RegisterThread(t, right) ==
  /\ AddRights(t, right)
  /\ served' = None
  /\ UNCHANGED <<stealthVars, mode, forceRealPath, fat_fd, fatModule, emuNandPath,
                 fatFiles, queue, handle>>

\* What ES and MLOAD do to the stealth flags.
StealthStep ==
  /\ \E b \in BOOLEAN :
       SetRunningTitle(b) \/ SetEsRequest(b) \/ (~GetRunningTitle /\ SetStealthMode(b))
  /\ served' = None
  /\ UNCHANGED <<mode, forceRealPath, fat_fd, rights, fatModule, emuNandPath, fatFiles,
                 queue, handle>>

-----------------------------------------------------------------------------
(* The file system's thread *)

Take(op) ==
  /\ queue # <<>>
  /\ Head(queue).op = op
  /\ queue' = Tail(queue)

\* FS_Open.  The flag is looked at before the path, and only under emulation;
\* `opened` is the answer of the FAT module.
HandleOpen(opened) ==
  /\ Take("open")
  /\ LET m == Head(queue)
     IN  IF mode = None \/ forceRealPath \/ CheckRealPath(m.path)
         THEN /\ served' = "real"
              /\ forceRealPath' = (forceRealPath /\ mode = None)
              /\ UNCHANGED <<fat_fd, fatFiles, handle>>
         ELSE IF opened /\ FatAllowed(Fs)
         THEN \E fd \in Fd :
                /\ fatFiles[fd] = None
                /\ served' = emuNandPath
                /\ fatFiles' = [fatFiles EXCEPT ![fd] = [folder |-> emuNandPath, old |-> FALSE]]
                /\ handle' = [handle EXCEPT ![m.from] = fd]
                /\ RegisterFile(fd)
                /\ UNCHANGED forceRealPath
         ELSE /\ served' = None
              /\ UNCHANGED <<forceRealPath, fat_fd, fatFiles, handle>>
  /\ UNCHANGED <<stealthVars, mode, rights, fatModule, emuNandPath>>

\* FS_Close.  A close that the FAT module refuses keeps the entry; the kernel
\* may free the descriptor or not.  A file that is not in the table goes to the
\* original handler, and the FAT file stays open.
HandleClose(closed, freed) ==
  /\ Take("close")
  /\ LET m  == Head(queue)
         on == mode # None /\ Registered(m.fd)
     IN  /\ IF on /\ closed THEN UnregisterFile(m.fd) ELSE UNCHANGED fat_fd
         /\ fatFiles' = IF on /\ (closed \/ freed) THEN [fatFiles EXCEPT ![m.fd] = None]
                        ELSE fatFiles
         /\ handle' = [handle EXCEPT ![m.from] = None]
  /\ served' = None
  /\ UNCHANGED <<stealthVars, mode, forceRealPath, rights, fatModule, emuNandPath>>

\* FAT_Init: the folder is sent to the FAT module when that is opened, and
\* never again.
FatInit(folder, opens, takes) ==
  /\ fatModule' = (fatModule \/ opens)
  /\ emuNandPath' = IF ~fatModule /\ opens /\ takes THEN folder ELSE emuNandPath

\* Faulty: emulation stays on whatever FAT_Init answers.
FatInitAssumedOK(opens, takes) == TRUE

FatInitOK(opens, takes) == fatModule \/ (opens /\ takes)

\* Faulty: the table keeps the files of the emulation before.
SetModeOnKeepsTable(target, opens, takes) ==
  /\ ~GetRunningTitle
  /\ AddRights(Fs, "OPEN_FAT")
  /\ UNCHANGED fat_fd
  /\ fatFiles' = [fd \in Fd |-> IF fatFiles[fd] = None THEN None
                                ELSE [fatFiles[fd] EXCEPT !.old = TRUE]]
  /\ FatInit(target.folder, opens, takes)
  /\ mode' = IF FatInitOK(opens, takes) THEN target ELSE None

\* __FS_SetMode with a device.  The FAT module may not open, and it refuses a
\* folder that is too long: then emulation is off.
SetModeOn(target, opens, takes) ==
  /\ ~GetRunningTitle
  /\ AddRights(Fs, "OPEN_FAT")
  /\ fat_fd' = [i \in DOMAIN fat_fd |-> None]
  /\ fatFiles' = [fd \in Fd |-> IF fatFiles[fd] = None THEN None
                                ELSE [fatFiles[fd] EXCEPT !.old = TRUE]]
  /\ FatInit(target.folder, opens, takes)
  /\ mode' = IF FatInitOK(opens, takes) THEN target ELSE None

\* Faulty: a running title may switch the emulation off.
MayDisableAlways == TRUE

\* __FS_SetMode without a device: when a title is running, through ES only.
MayDisable == ~GetRunningTitle \/ GetEsRequest

HandleSetMode(opens, takes) ==
  /\ Take("setmode")
  /\ LET target == Head(queue).target
     IN  \/ /\ target # None
            /\ SetModeOn(target, opens, takes)
         \/ /\ target = None /\ MayDisable
            /\ mode' = None
            /\ UNCHANGED <<fat_fd, rights, fatModule, emuNandPath, fatFiles>>
         \/ /\ IF target = None THEN ~MayDisable ELSE GetRunningTitle
            /\ UNCHANGED <<mode, fat_fd, rights, fatModule, emuNandPath, fatFiles>>
  /\ served' = None
  /\ UNCHANGED <<stealthVars, forceRealPath, handle>>

-----------------------------------------------------------------------------

FsStep ==
  \/ \E opened \in BOOLEAN : HandleOpen(opened)
  \/ \E closed, freed \in BOOLEAN : HandleClose(closed, freed)
  \/ \E opens, takes \in BOOLEAN : HandleSetMode(opens, takes)

FfsNext ==
  \/ \E c \in Client, path \in Path, hash \in BOOLEAN : SendOpen(c, path, hash)
  \/ \E c \in Client : SendClose(c)
  \/ \E c \in Client, target \in Target \cup {None} : SendSetMode(c, target)
  \/ RegisterThread(Es, "FORCE_REAL_NAND")
  \/ RegisterThread(Dip, "OPEN_FAT")
  \/ StealthStep
  \/ FsStep

FfsSpec == FfsInit /\ [][FfsNext]_vars

-----------------------------------------------------------------------------
(* Properties *)

\* The file system answers an open.
OpenAnswered == queue # <<>> /\ queue' = Tail(queue) /\ Head(queue).op = "open"

\* A '#' path whose request nothing was queued before reaches the real NAND,
\* whatever other threads queue, set or switch while it waits.
HashAloneReal ==
  [][OpenAnswered /\ Head(queue).hash /\ Head(queue).alone => served' = "real"]_vars

\* A descriptor opened under one emulation is not served under the next: the
\* folder may be another one.
OldFilesForgotten ==
  \A fd \in Fd : fatFiles[fd] # None /\ Registered(fd) => ~fatFiles[fd].old

\* Emulation that is on can serve a running title: the plugin has the FAT
\* module open, and its own hook lets its thread open files there.  The table of
\* rights has room for the three entries that it is given (MAX_NUM_TIDS), so what
\* is left to go wrong is FAT_Init.
EmulationAuthorised == mode # None => fatModule /\ "OPEN_FAT" \in rights[Fs]

\* While a title runs no request, also none sent before it was identified,
\* turns emulation on or moves it, and only ES can have it turned off.
TitleCannotSwitchNand ==
  [][mode' # mode => ~GetRunningTitle \/ (mode' = None /\ GetEsRequest)]_vars

=============================================================================
