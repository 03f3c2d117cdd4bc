------------------------------- MODULE FfsProofs -------------------------------
(***************************************************************************)
(* Theorems about the FFS plugin, for any threads, folders, descriptors    *)
(* and tables.                                                             *)
(*                                                                         *)
(* HashAloneReal is about one step, and what makes it true happened at an  *)
(* earlier one: the hook set the flag on an empty queue.  FfsInv carries   *)
(* that over: such a request stays first, nothing is handled before it,    *)
(* and no thread can take the flag back.  EmulationAuthorised needs that   *)
(* the table of rights never refuses the file system's thread, hence that  *)
(* only three threads register.                                            *)
(***************************************************************************)

EXTENDS Ffs, FiniteSetTheorems, TLAPS

\* The flag stands for a '#' request that was sent alone.
HashReady ==
  queue # <<>> /\ Head(queue).op = "open" /\ Head(queue).hash /\ Head(queue).alone
    => mode = None \/ forceRealPath

\* A request sent alone stays first.
AloneFirst ==
  \A i \in 2 .. Len(queue) : queue[i].op = "open" => ~queue[i].alone

ThreeThreads == \A u \in Thread : rights[u] # {} => u \in {Es, Dip, Fs}

FfsInv ==
  /\ FfsTypeOK
  /\ HashReady
  /\ AloneFirst
  /\ ThreeThreads
  /\ OldFilesForgotten
  /\ EmulationAuthorised

-----------------------------------------------------------------------------
(* Lemmas *)

\* The first request and the rest of a queue that is not empty.
LEMMA HeadAndTail ==
  ASSUME FfsTypeOK, queue # <<>>
  PROVE  /\ Head(queue) \in Request
         /\ Head(queue) = queue[1]
         /\ Tail(queue) \in Seq(Request)
         /\ Len(queue) \in Nat /\ Len(queue) >= 1
         /\ Len(Tail(queue)) = Len(queue) - 1
         /\ \A i \in 1 .. Len(Tail(queue)) : Tail(queue)[i] = queue[i + 1]
BY DEF FfsTypeOK

\* Which request it is says which record.
LEMMA RequestKind ==
  ASSUME NEW m \in Request
  PROVE  /\ m.from \in Client
         /\ m.op = "open" => m.path \in Path /\ m.hash \in BOOLEAN /\ m.alone \in BOOLEAN
         /\ m.op = "close" => m.fd \in Fd
         /\ m.op = "setmode" => m.target \in Target \cup {None}
BY DEF Request, OpenRequest, CloseRequest, ModeRequest

\* The table of rights has room for the file system's thread.
LEMMA RoomForFs ==
  ASSUME ThreeThreads, rights[Fs] = {}
  PROVE  Cardinality({u \in Thread : rights[u] # {}}) < MaxTids
<1> DEFINE R == {u \in Thread : rights[u] # {}}
<1>1. R \subseteq {Es, Dip}
  BY DEF ThreeThreads
<1>2. IsFiniteSet({Es}) /\ Cardinality({Es}) = 1
  BY FS_Singleton
<1>3. {Es, Dip} = {Es} \cup {Dip}
  OBVIOUS
<1>4. IsFiniteSet({Es, Dip}) /\ Cardinality({Es, Dip}) <= 2 /\ Cardinality({Es, Dip}) \in Nat
  BY <1>2, <1>3, FS_AddElement
<1>5. IsFiniteSet(R) /\ Cardinality(R) <= Cardinality({Es, Dip})
  BY <1>1, <1>4, FS_Subset
<1>6. Cardinality(R) \in Nat
  BY <1>5, FS_CardinalityType
<1> QED
  BY <1>4, <1>5, <1>6, FfsAssumption

\* Adding a right keeps the table's type, who is in it, and what they have.
LEMMA AddRightsKeeps ==
  ASSUME FfsTypeOK, ThreeThreads, NEW t \in {Es, Dip, Fs}, NEW right \in Right,
         AddRights(t, right)
  PROVE  /\ rights' \in [Thread -> SUBSET Right]
         /\ ThreeThreads'
         /\ \A u \in Thread : rights[u] \subseteq rights'[u]
         /\ t = Fs => right \in rights'[Fs]
<1>1. t \in Thread /\ rights \in [Thread -> SUBSET Right]
  BY DEF Thread, FfsTypeOK
<1>2. t = Fs /\ rights[Fs] = {} => Cardinality({u \in Thread : rights[u] # {}}) < MaxTids
  BY RoomForFs
<1>3. CASE rights' = [rights EXCEPT ![t] = @ \cup {right}]
  BY <1>1, <1>3 DEF ThreeThreads
<1>4. CASE rights' = rights /\ ~(t = Fs)
  BY <1>1, <1>4 DEF ThreeThreads
<1> QED
  BY <1>2, <1>3, <1>4 DEF AddRights

\* The table after a file is registered: nothing but that file is new.
LEMMA RegisterFileKeeps ==
  ASSUME FfsTypeOK, NEW fd \in Fd, RegisterFile(fd)
  PROVE  /\ fat_fd' \in [1 .. MaxFatFd -> Fd \cup {None}]
         /\ \A d \in Fd : Registered(d)' => Registered(d) \/ d = fd
<1> DEFINE free == {i \in DOMAIN fat_fd : fat_fd[i] = None}
<1>1. CASE free = {}
  BY <1>1 DEF RegisterFile, FfsTypeOK, Registered
<1>2. CASE free # {}
  <2>1. PICK i \in free : fat_fd' = [fat_fd EXCEPT ![i] = fd]
    BY <1>2 DEF RegisterFile
  <2> QED
    BY <2>1 DEF FfsTypeOK, Registered
<1> QED
  BY <1>1, <1>2

\* The table after a file is taken out: nothing is new.
LEMMA UnregisterFileKeeps ==
  ASSUME FfsTypeOK, NEW fd \in Fd, Registered(fd), UnregisterFile(fd)
  PROVE  /\ fat_fd' \in [1 .. MaxFatFd -> Fd \cup {None}]
         /\ \A d \in Fd : Registered(d)' => Registered(d)
<1> DEFINE hit == {i \in DOMAIN fat_fd : fat_fd[i] = fd}
<1>1. PICK i \in DOMAIN fat_fd : fat_fd' = [fat_fd EXCEPT ![i] = None]
  BY DEF UnregisterFile, Registered
<1> QED
  BY <1>1, FfsAssumption DEF FfsTypeOK, Registered

-----------------------------------------------------------------------------
(* The invariant *)

\* At boot nothing is queued, open or emulated.
THEOREM InitFfsInv == FfsInit => FfsInv
<1> SUFFICES ASSUME FfsInit PROVE FfsInv
  OBVIOUS
<1>1. FfsTypeOK
  <2>1. StealthTypeOK
    BY DEF FfsInit, StealthInit, StealthTypeOK
  <2>2. queue \in Seq(Request)
    BY DEF FfsInit
  <2> QED
    BY <2>1, <2>2, FfsAssumption DEF FfsInit, FfsTypeOK
<1>2. queue = <<>> /\ Len(queue) = 0 /\ mode = None /\ \A u \in Thread : rights[u] = {}
  BY DEF FfsInit
<1>3. \A fd \in Fd : fatFiles[fd] = None
  BY DEF FfsInit
<1> QED
  BY <1>1, <1>2, <1>3 DEF FfsInv, HashReady, AloneFirst, ThreeThreads, OldFilesForgotten,
     EmulationAuthorised

\* A request that joins the queue: it is alone only when it comes first, and
\* then the flag has just been set for it.
LEMMA AppendKeeps ==
  ASSUME FfsInv, NEW m \in Request, queue' = Append(queue, m),
         m.op = "open" /\ m.alone => queue = <<>>,
         m.op = "open" /\ m.hash => mode' = None \/ forceRealPath',
         mode = None \/ forceRealPath => mode' = None \/ forceRealPath'
  PROVE  queue' \in Seq(Request) /\ HashReady' /\ AloneFirst'
<1>1. queue \in Seq(Request)
  BY DEF FfsInv, FfsTypeOK
<1>2. queue' \in Seq(Request) /\ Len(queue') = Len(queue) + 1 /\ Len(queue) \in Nat
  BY <1>1
<1>3. \A i \in 1 .. Len(queue) : queue'[i] = queue[i]
  BY <1>1
<1>4. queue'[Len(queue) + 1] = m
  BY <1>1
<1>5. AloneFirst'
  <2> SUFFICES ASSUME NEW i \in 2 .. Len(queue'), queue'[i].op = "open"
               PROVE  ~queue'[i].alone
    BY DEF AloneFirst
  <2>1. CASE i \in 2 .. Len(queue)
    BY <1>3, <2>1 DEF FfsInv, AloneFirst
  <2>2. CASE i = Len(queue) + 1
    BY <1>1, <1>2, <1>4, <2>2
  <2> QED
    BY <1>2, <2>1, <2>2
<1>6. HashReady'
  <2>1. CASE queue = <<>>
    <3>1. Head(queue') = m
      BY <1>4, <2>1, <1>2
    <3> QED
      BY <3>1 DEF HashReady
  <2>2. CASE queue # <<>>
    <3>1. Head(queue') = Head(queue)
      BY <1>1, <1>2, <1>3, <2>2
    <3> QED
      BY <2>2, <3>1 DEF FfsInv, HashReady
  <2> QED
    BY <2>1, <2>2
<1> QED
  BY <1>2, <1>5, <1>6

\* A request that is taken leaves a queue in which none is alone.
LEMMA TakeKeeps ==
  ASSUME FfsInv, NEW op, Take(op)
  PROVE  queue' \in Seq(Request) /\ HashReady' /\ AloneFirst'
<1>1. /\ queue # <<>> /\ queue' = Tail(queue)
      /\ Tail(queue) \in Seq(Request)
      /\ Len(queue) \in Nat /\ Len(queue') = Len(queue) - 1
      /\ \A i \in 1 .. Len(queue') : queue'[i] = queue[i + 1]
  BY HeadAndTail DEF Take, FfsInv
<1>2. \A i \in 1 .. Len(queue') : queue'[i].op = "open" => ~queue'[i].alone
  <2> SUFFICES ASSUME NEW i \in 1 .. Len(queue'), queue'[i].op = "open"
               PROVE  ~queue'[i].alone
    OBVIOUS
  <2>1. i + 1 \in 2 .. Len(queue) /\ queue'[i] = queue[i + 1]
    BY <1>1
  <2> QED
    BY <2>1 DEF FfsInv, AloneFirst
<1>3. AloneFirst'
  BY <1>1, <1>2 DEF AloneFirst
<1>4. HashReady'
  <2> SUFFICES ASSUME queue' # <<>>, Head(queue').op = "open", Head(queue').alone
               PROVE  FALSE
    BY DEF HashReady
  <2>1. 1 \in 1 .. Len(queue') /\ Head(queue') = queue'[1]
    BY <1>1
  <2> QED
    BY <1>2, <2>1
<1> QED
  BY <1>1, <1>3, <1>4

\* What the hook and the clients leave alone.
ThreadStateKept ==
  UNCHANGED <<stealthVars, mode, fat_fd, fatModule, emuNandPath, fatFiles, handle>>

\* A step that only queues a request keeps the invariant.
LEMMA QueueingKeeps ==
  ASSUME FfsInv, ThreadStateKept, UNCHANGED rights, served' = None,
         forceRealPath' \in BOOLEAN, queue' \in Seq(Request), HashReady', AloneFirst'
  PROVE  FfsInv'
<1>1. FfsTypeOK'
  BY DEF FfsInv, FfsTypeOK, ThreadStateKept, StealthTypeOK, stealthVars
<1>2. ThreeThreads' /\ OldFilesForgotten' /\ EmulationAuthorised'
  BY DEF FfsInv, ThreeThreads, OldFilesForgotten, EmulationAuthorised, ThreadStateKept,
     Registered
<1> QED
  BY <1>1, <1>2 DEF FfsInv

\* The hook raises the flag for the request it lets through.
LEMMA SendOpenKeeps ==
  ASSUME FfsInv, NEW c \in Client, NEW path \in Path, NEW hash \in BOOLEAN,
         SendOpen(c, path, hash)
  PROVE  FfsInv'
<1> DEFINE m == [op |-> "open", from |-> c, path |-> path, hash |-> hash,
                 alone |-> queue = <<>>]
<1>1. m \in Request /\ queue' = Append(queue, m)
  BY DEF SendOpen, Request, OpenRequest
<1>2. forceRealPath' \in BOOLEAN /\ mode' = mode
  BY DEF SendOpen, FfsInv, FfsTypeOK
<1>3. m.op = "open" /\ m.alone => queue = <<>>
  OBVIOUS
<1>4. m.op = "open" /\ m.hash => mode' = None \/ forceRealPath'
  BY DEF SendOpen
<1>5. mode = None \/ forceRealPath => mode' = None \/ forceRealPath'
  BY DEF SendOpen
<1> HIDE DEF m
<1>6. queue' \in Seq(Request) /\ HashReady' /\ AloneFirst'
  BY <1>1, <1>3, <1>4, <1>5, AppendKeeps
<1> QED
  BY <1>2, <1>6, QueueingKeeps DEF SendOpen, ThreadStateKept

\* A close that is queued disturbs nothing.
LEMMA SendCloseKeeps ==
  ASSUME FfsInv, NEW c \in Client, SendClose(c)
  PROVE  FfsInv'
<1> DEFINE m == [op |-> "close", from |-> c, fd |-> handle[c]]
<1>1. handle[c] \in Fd
  BY DEF SendClose, FfsInv, FfsTypeOK
<1>2. m \in Request /\ queue' = Append(queue, m) /\ m.op # "open"
  BY <1>1 DEF SendClose, Request, CloseRequest
<1>3. forceRealPath' \in BOOLEAN /\ mode' = mode /\ forceRealPath' = forceRealPath
  BY DEF SendClose, FfsInv, FfsTypeOK
<1> HIDE DEF m
<1>4. queue' \in Seq(Request) /\ HashReady' /\ AloneFirst'
  BY <1>2, <1>3, AppendKeeps
<1> QED
  BY <1>3, <1>4, QueueingKeeps DEF SendClose, ThreadStateKept

\* A SETMODE that is queued disturbs nothing yet.
LEMMA SendSetModeKeeps ==
  ASSUME FfsInv, NEW c \in Client, NEW target \in Target \cup {None}, SendSetMode(c, target)
  PROVE  FfsInv'
<1> DEFINE m == [op |-> "setmode", from |-> c, target |-> target]
<1>1. m \in Request /\ queue' = Append(queue, m) /\ m.op # "open"
  BY DEF SendSetMode, Request, ModeRequest
<1>2. forceRealPath' \in BOOLEAN /\ mode' = mode /\ forceRealPath' = forceRealPath
  BY DEF SendSetMode, FfsInv, FfsTypeOK
<1> HIDE DEF m
<1>3. queue' \in Seq(Request) /\ HashReady' /\ AloneFirst'
  BY <1>1, <1>2, AppendKeeps
<1> QED
  BY <1>2, <1>3, QueueingKeeps DEF SendSetMode, ThreadStateKept

\* ES and DIP are two of the three threads that register.
LEMMA RegisterThreadKeeps ==
  ASSUME FfsInv, NEW t \in {Es, Dip}, NEW right \in Right, RegisterThread(t, right)
  PROVE  FfsInv'
<1>1. /\ rights' \in [Thread -> SUBSET Right] /\ ThreeThreads'
      /\ \A u \in Thread : rights[u] \subseteq rights'[u]
  BY AddRightsKeeps DEF RegisterThread, FfsInv
<1>2. FfsTypeOK'
  BY <1>1 DEF RegisterThread, FfsInv, FfsTypeOK, StealthTypeOK, stealthVars
<1>3. EmulationAuthorised'
  BY <1>1 DEF RegisterThread, FfsInv, EmulationAuthorised, Thread
<1>4. HashReady' /\ AloneFirst' /\ OldFilesForgotten'
  BY DEF RegisterThread, FfsInv, HashReady, AloneFirst, OldFilesForgotten, Registered
<1> QED
  BY <1>1, <1>2, <1>3, <1>4 DEF FfsInv

\* The stealth flags are no part of the invariant but for their type.
LEMMA StealthStepKeeps ==
  ASSUME FfsInv, StealthStep
  PROVE  FfsInv'
<1>1. StealthTypeOK'
  BY DEF FfsInv, FfsTypeOK, StealthStep, StealthTypeOK, SetRunningTitle, SetEsRequest,
     SetStealthMode
<1>2. FfsTypeOK'
  BY <1>1 DEF StealthStep, FfsInv, FfsTypeOK
<1> QED
  BY <1>2 DEF StealthStep, FfsInv, HashReady, AloneFirst, ThreeThreads, OldFilesForgotten,
     Registered, EmulationAuthorised

\* An open takes the flag or registers a file of this emulation.
LEMMA HandleOpenKeeps ==
  ASSUME FfsInv, NEW opened \in BOOLEAN, HandleOpen(opened)
  PROVE  FfsInv'
<1> DEFINE m == Head(queue)
<1>1. m \in Request /\ m.op = "open" /\ m.from \in Client
  BY HeadAndTail, RequestKind DEF HandleOpen, Take, FfsInv
<1>2. queue' \in Seq(Request) /\ HashReady' /\ AloneFirst'
  BY TakeKeeps DEF HandleOpen
<1>3. UNCHANGED <<stealthVars, mode, rights, fatModule, emuNandPath>>
  BY DEF HandleOpen
<1>4. /\ forceRealPath' \in BOOLEAN /\ fat_fd' \in [1 .. MaxFatFd -> Fd \cup {None}]
      /\ fatFiles' \in [Fd -> FatFile \cup {None}]
      /\ handle' \in [Client -> Fd \cup {None}]
      /\ served' \in Folder \cup {"real", None}
      /\ OldFilesForgotten'
  <2>1. CASE mode = None \/ forceRealPath \/ CheckRealPath(m.path)
    BY <2>1 DEF HandleOpen, FfsInv, FfsTypeOK, OldFilesForgotten, Registered
  <2>2. CASE /\ ~(mode = None \/ forceRealPath \/ CheckRealPath(m.path))
             /\ opened /\ FatAllowed(Fs)
    <3>1. PICK fd \in Fd :
            /\ fatFiles[fd] = None
            /\ served' = emuNandPath
            /\ fatFiles' = [fatFiles EXCEPT ![fd] = [folder |-> emuNandPath, old |-> FALSE]]
            /\ handle' = [handle EXCEPT ![m.from] = fd]
            /\ RegisterFile(fd)
            /\ UNCHANGED forceRealPath
      BY <2>2 DEF HandleOpen
    <3>2. /\ fat_fd' \in [1 .. MaxFatFd -> Fd \cup {None}]
          /\ \A d \in Fd : Registered(d)' => Registered(d) \/ d = fd
      BY <3>1, RegisterFileKeeps DEF FfsInv
    <3>3. /\ fatFiles' \in [Fd -> FatFile \cup {None}]
          /\ fatFiles'[fd].old = FALSE
          /\ \A d \in Fd : d # fd => fatFiles'[d] = fatFiles[d]
      BY <3>1 DEF FfsInv, FfsTypeOK, FatFile
    <3>4. OldFilesForgotten'
      BY <3>2, <3>3 DEF FfsInv, OldFilesForgotten
    <3> QED
      BY <1>1, <3>1, <3>2, <3>3, <3>4 DEF FfsInv, FfsTypeOK
  <2>3. CASE /\ ~(mode = None \/ forceRealPath \/ CheckRealPath(m.path))
             /\ ~(opened /\ FatAllowed(Fs))
    BY <2>3 DEF HandleOpen, FfsInv, FfsTypeOK, OldFilesForgotten, Registered
  <2> QED
    BY <2>1, <2>2, <2>3
<1>5. FfsTypeOK'
  BY <1>2, <1>3, <1>4 DEF FfsInv, FfsTypeOK, StealthTypeOK, stealthVars
<1>6. ThreeThreads' /\ EmulationAuthorised'
  BY <1>3 DEF FfsInv, ThreeThreads, EmulationAuthorised
<1> QED
  BY <1>2, <1>4, <1>5, <1>6 DEF FfsInv

\* A close forgets its file or leaves the table as it is.
LEMMA HandleCloseKeeps ==
  ASSUME FfsInv, NEW closed \in BOOLEAN, NEW freed \in BOOLEAN, HandleClose(closed, freed)
  PROVE  FfsInv'
<1> DEFINE m == Head(queue)
           on == mode # None /\ Registered(m.fd)
<1>1. m \in Request /\ m.op = "close" /\ m.from \in Client /\ m.fd \in Fd
  BY HeadAndTail, RequestKind DEF HandleClose, Take, FfsInv
<1>2. queue' \in Seq(Request) /\ HashReady' /\ AloneFirst'
  BY TakeKeeps DEF HandleClose
<1>3. /\ served' = None
      /\ UNCHANGED <<stealthVars, mode, forceRealPath, rights, fatModule, emuNandPath>>
      /\ handle' = [handle EXCEPT ![m.from] = None]
      /\ fatFiles' = IF on /\ (closed \/ freed) THEN [fatFiles EXCEPT ![m.fd] = None]
                     ELSE fatFiles
      /\ IF on /\ closed THEN UnregisterFile(m.fd) ELSE UNCHANGED fat_fd
  BY DEF HandleClose
<1>4. /\ fat_fd' \in [1 .. MaxFatFd -> Fd \cup {None}]
      /\ \A d \in Fd : Registered(d)' => Registered(d)
  BY <1>1, <1>3, UnregisterFileKeeps DEF FfsInv, FfsTypeOK, Registered
<1>5. /\ fatFiles' \in [Fd -> FatFile \cup {None}]
      /\ \A d \in Fd : fatFiles'[d] # None => fatFiles'[d] = fatFiles[d]
  BY <1>1, <1>3 DEF FfsInv, FfsTypeOK
<1>6. OldFilesForgotten'
  BY <1>4, <1>5 DEF FfsInv, OldFilesForgotten
<1>7. FfsTypeOK'
  BY <1>1, <1>2, <1>3, <1>4, <1>5 DEF FfsInv, FfsTypeOK, StealthTypeOK, stealthVars
<1>8. ThreeThreads' /\ EmulationAuthorised'
  BY <1>3 DEF FfsInv, ThreeThreads, EmulationAuthorised
<1> QED
  BY <1>2, <1>6, <1>7, <1>8 DEF FfsInv

\* SETMODE empties the table, registers the thread and opens FAT before the mode stays on.
LEMMA HandleSetModeKeeps ==
  ASSUME FfsInv, NEW opens \in BOOLEAN, NEW takes \in BOOLEAN, HandleSetMode(opens, takes)
  PROVE  FfsInv'
<1> DEFINE target == Head(queue).target
<1>1. target \in Target \cup {None}
  BY HeadAndTail, RequestKind DEF HandleSetMode, Take, FfsInv
<1>2. queue' \in Seq(Request) /\ HashReady' /\ AloneFirst'
  BY TakeKeeps DEF HandleSetMode
<1>3. served' = None /\ UNCHANGED <<stealthVars, forceRealPath, handle>>
  BY DEF HandleSetMode
<1>4. /\ mode' \in Target \cup {None}
      /\ fat_fd' \in [1 .. MaxFatFd -> Fd \cup {None}]
      /\ rights' \in [Thread -> SUBSET Right]
      /\ fatModule' \in BOOLEAN /\ emuNandPath' \in Folder
      /\ fatFiles' \in [Fd -> FatFile \cup {None}]
      /\ ThreeThreads' /\ OldFilesForgotten' /\ EmulationAuthorised'
  <2>1. CASE target # None /\ SetModeOn(target, opens, takes)
    <3>1. /\ rights' \in [Thread -> SUBSET Right] /\ ThreeThreads'
          /\ "OPEN_FAT" \in rights'[Fs]
      BY <2>1, AddRightsKeeps DEF SetModeOn, FfsInv, Right
    <3>2. /\ fat_fd' \in [1 .. MaxFatFd -> Fd \cup {None}]
          /\ \A d \in Fd : ~Registered(d)'
      BY <2>1, FfsAssumption DEF SetModeOn, FfsInv, FfsTypeOK, Registered
    <3>3. fatFiles' \in [Fd -> FatFile \cup {None}]
      BY <2>1 DEF SetModeOn, FfsInv, FfsTypeOK, FatFile
    <3>4. /\ mode' \in Target \cup {None}
          /\ fatModule' \in BOOLEAN /\ emuNandPath' \in Folder
          /\ mode' # None => fatModule'
      BY <1>1, <2>1 DEF SetModeOn, FatInit, FatInitOK, FfsInv, FfsTypeOK, Target
    <3> QED
      BY <3>1, <3>2, <3>3, <3>4 DEF OldFilesForgotten, EmulationAuthorised
  <2>2. CASE /\ target = None /\ MayDisable /\ mode' = None
             /\ UNCHANGED <<fat_fd, rights, fatModule, emuNandPath, fatFiles>>
    BY <2>2 DEF FfsInv, FfsTypeOK, ThreeThreads, OldFilesForgotten, Registered,
       EmulationAuthorised
  <2>3. CASE UNCHANGED <<mode, fat_fd, rights, fatModule, emuNandPath, fatFiles>>
    BY <2>3 DEF FfsInv, FfsTypeOK, ThreeThreads, OldFilesForgotten, Registered,
       EmulationAuthorised
  <2> QED
    BY <2>1, <2>2, <2>3 DEF HandleSetMode
<1>5. FfsTypeOK'
  BY <1>2, <1>3, <1>4 DEF FfsInv, FfsTypeOK, StealthTypeOK, stealthVars
<1> QED
  BY <1>2, <1>4, <1>5 DEF FfsInv

\* Every step keeps the invariant.
THEOREM NextFfsInv == FfsInv /\ [FfsNext]_vars => FfsInv'
<1> SUFFICES ASSUME FfsInv, [FfsNext]_vars PROVE FfsInv'
  OBVIOUS
<1>1. ASSUME NEW c \in Client, NEW path \in Path, NEW hash \in BOOLEAN, SendOpen(c, path, hash)
      PROVE  FfsInv'
  BY <1>1, SendOpenKeeps
<1>2. ASSUME NEW c \in Client, SendClose(c) PROVE FfsInv'
  BY <1>2, SendCloseKeeps
<1>3. ASSUME NEW c \in Client, NEW target \in Target \cup {None}, SendSetMode(c, target)
      PROVE  FfsInv'
  BY <1>3, SendSetModeKeeps
<1>4. CASE RegisterThread(Es, "FORCE_REAL_NAND") \/ RegisterThread(Dip, "OPEN_FAT")
  BY <1>4, RegisterThreadKeeps DEF Right
<1>5. CASE StealthStep
  BY <1>5, StealthStepKeeps
<1>6. CASE FsStep
  BY <1>6, HandleOpenKeeps, HandleCloseKeeps, HandleSetModeKeeps DEF FsStep
<1>7. CASE UNCHANGED vars
  BY <1>7 DEF vars, ffsVars, stealthVars, FfsInv, FfsTypeOK, StealthTypeOK, HashReady,
     AloneFirst, ThreeThreads, OldFilesForgotten, Registered, EmulationAuthorised
<1> QED
  BY <1>1, <1>2, <1>3, <1>4, <1>5, <1>6, <1>7 DEF FfsNext

-----------------------------------------------------------------------------
(* Theorems *)

\* Every state of the plugin has its type.
THEOREM FfsTypeCorrect == FfsSpec => []FfsTypeOK
<1>1. FfsInv => FfsTypeOK
  BY DEF FfsInv
<1> QED
  BY <1>1, InitFfsInv, NextFfsInv, PTL DEF FfsSpec

\* No file opened under one emulation is served under another, however its
\* close and the opens after it went.
THEOREM OldFilesAlwaysForgotten == FfsSpec => []OldFilesForgotten
<1>1. FfsInv => OldFilesForgotten
  BY DEF FfsInv
<1> QED
  BY <1>1, InitFfsInv, NextFfsInv, PTL DEF FfsSpec

\* The plugin's own hook never stands in the way of an emulation that is on.
THEOREM EmulationAlwaysAuthorised == FfsSpec => []EmulationAuthorised
<1>1. FfsInv => EmulationAuthorised
  BY DEF FfsInv
<1> QED
  BY <1>1, InitFfsInv, NextFfsInv, PTL DEF FfsSpec

\* An open with '#' that found the queue empty reaches the real NAND.
THEOREM HashAloneAlwaysReal == FfsSpec => HashAloneReal
<1> DEFINE Rule == OpenAnswered /\ Head(queue).hash /\ Head(queue).alone => served' = "real"
<1>1. FfsInv /\ [FfsNext]_vars => [Rule]_vars
  <2> SUFFICES ASSUME FfsInv, FfsNext, OpenAnswered, Head(queue).hash, Head(queue).alone
               PROVE  served' = "real"
    OBVIOUS
  <2>1. /\ queue # <<>> /\ queue' = Tail(queue) /\ Head(queue).op = "open"
        /\ queue \in Seq(Request) /\ Len(queue) \in Nat /\ Len(queue') = Len(queue) - 1
    BY HeadAndTail DEF OpenAnswered, FfsInv, FfsTypeOK
  <2>2. mode = None \/ forceRealPath
    BY <2>1 DEF FfsInv, HashReady
  <2>3. CASE \E opened \in BOOLEAN : HandleOpen(opened)
    BY <2>2, <2>3 DEF HandleOpen
  <2>4. \A closed, freed \in BOOLEAN : ~HandleClose(closed, freed)
    BY <2>1 DEF HandleClose, Take
  <2>5. \A opens, takes \in BOOLEAN : ~HandleSetMode(opens, takes)
    BY <2>1 DEF HandleSetMode, Take
  <2> DEFINE k == Len(queue)
  <2>6. k \in Int /\ Len(queue') = k - 1
    <3>1. \A i \in Nat : i \in Int
      OBVIOUS
    <3> QED
      BY <2>1, <3>1, Zenon
  <2> HIDE DEF k
  <2>7. Len(queue') # k /\ Len(queue') # k + 1
    BY <2>6
  <2>8. queue' # queue
    BY <2>7 DEF k
  <2>9. \A n \in Request : queue' # Append(queue, n)
    <3> SUFFICES ASSUME NEW n \in Request PROVE Len(queue') # Len(Append(queue, n))
      OBVIOUS
    <3>1. Len(Append(queue, n)) = k + 1
      BY <2>1 DEF k
    <3> QED
      BY <2>7, <3>1
  <2>10. \A c \in Client, path \in Path, hash \in BOOLEAN : ~SendOpen(c, path, hash)
    BY <2>9 DEF SendOpen, Request, OpenRequest
  <2>11. \A c \in Client : ~SendClose(c)
    BY <2>9 DEF SendClose, Request, CloseRequest, FfsInv, FfsTypeOK
  <2>12. \A c \in Client, target \in Target \cup {None} : ~SendSetMode(c, target)
    BY <2>9 DEF SendSetMode, Request, ModeRequest
  <2> QED
    BY <2>3, <2>4, <2>5, <2>8, <2>10, <2>11, <2>12 DEF FfsNext, FsStep, RegisterThread,
       StealthStep
<1>2. HashAloneReal <=> [][Rule]_vars
  BY DEF HashAloneReal
<1> HIDE DEF Rule
<1> QED
  BY <1>1, <1>2, InitFfsInv, NextFfsInv, PTL DEF FfsSpec

\* A running title cannot move or start an emulation, nor end it without ES.
THEOREM TitleNeverSwitchesNand == FfsSpec => TitleCannotSwitchNand
<1> DEFINE Rule == mode' # mode => ~GetRunningTitle \/ (mode' = None /\ GetEsRequest)
<1>1. [FfsNext]_vars => [Rule]_vars
  <2> SUFFICES ASSUME FfsNext, mode' # mode PROVE Rule
    OBVIOUS
  <2>1. PICK opens \in BOOLEAN, takes \in BOOLEAN : HandleSetMode(opens, takes)
    BY DEF FfsNext, FsStep, SendOpen, SendClose, SendSetMode, RegisterThread, StealthStep,
       HandleOpen, HandleClose
  <2>2. \/ SetModeOn(Head(queue).target, opens, takes)
        \/ MayDisable /\ mode' = None
    BY <2>1 DEF HandleSetMode
  <2> QED
    BY <2>2 DEF SetModeOn, MayDisable
<1>2. TitleCannotSwitchNand <=> [][Rule]_vars
  BY DEF TitleCannotSwitchNand
<1> HIDE DEF Rule
<1> QED
  BY <1>1, <1>2, PTL DEF FfsSpec
=============================================================================
