------------------------------- MODULE UsbModule -------------------------------
(***************************************************************************)
(* The USB module for IOS with a USB 2.0 stack (/dev/usb2): one thread and *)
(* one message queue for the requests of its clients, for the answers of   *)
(* the kernel's stack (/dev/usb/ven) and for the mounts it asks of itself. *)
(*                                                                         *)
(* A device keeps the id that the kernel gives it when it is plugged in; a *)
(* device that is plugged in again is a new id of the same model.  A       *)
(* request occupies its client until it is answered.  A SCSI command       *)
(* succeeds or fails as a whole, the lists are shorter than the tables (8  *)
(* and 32 entries), and memory does not run out.                           *)
(***************************************************************************)

EXTENDS Integers, Sequences, FiniteSets, Functions

CONSTANTS
  Client,     \* threads that send requests
  Library,    \* those of the FAT and DIP modules; the others are the loader's
  Dev,        \* ids that the kernel gives to devices
  ModelOf,    \* vendor and product of each
  QueueSize,  \* entries of the message queue (32)
  None

Kind == {"init", "opendisc", "readdisc", "io", "capacity", "inserted", "unmount"}

ASSUME UsbModuleAssumption ==
  /\ IsFiniteSet(Client) /\ Library \subseteq Client
  /\ None \notin Client \cup Dev \cup {ModelOf[d] : d \in Dev} \cup Kind
  /\ QueueSize \in Nat
  /\ QueueSize > 2 * Cardinality(Client)

VARIABLES
  plugged,    \* devices at the ports
  used,       \* ids given so far
  moved,      \* devices came or went since the kernel last answered
  awake,      \* devices that were resumed
  forsaken,   \* those of them that the kernel refused to suspend
  waiting,    \* asynchronous request at the kernel: GETDEVICECHANGE, ATTACHFINISH
  attached,   \* host->attached_devices up to its first empty entry
  result,     \* usbCb: what the kernel answered last
  refused,    \* the kernel answered an error, or is of another version
  queue,      \* messages of the module's queue
  ask,        \* request of each client, None without one
  work,       \* what the thread does: where, its message, devices still to try
  inited,     \* __inited
  mounted,    \* __mounted
  vid,        \* __vid and __pid
  usbfd,      \* device of __usbfd
  hdd, disc,  \* WBFS: partition is open; state of the disc's handle
  due         \* clients whose INIT was answered and whose mount is not done

kernel == <<plugged, used, moved>>
power == <<awake, forsaken>>
host == <<waiting, attached, result, refused>>
wbfs == <<hdd, disc>>
vars == <<kernel, power, host, queue, ask, work, inited, mounted, vid, usbfd, wbfs, due>>

Message == ({"request", "mount"} \X Client) \cup ({"devchange", "attach"} \X {None})
Model == {ModelOf[d] : d \in Dev}
Idle == [at |-> "idle", msg |-> None, list |-> <<>>]

TypeOK ==
  /\ used \subseteq Dev /\ plugged \subseteq used
  /\ awake \subseteq plugged /\ forsaken \subseteq awake
  /\ moved \in BOOLEAN /\ refused \in BOOLEAN
  /\ waiting \in {"none", "change", "finish"}
  /\ attached \in Seq(Dev) /\ result \in Nat
  /\ queue \in Seq(Message)
  /\ ask \in [Client -> Kind \cup {None}]
  /\ work \in [at : {"idle", "got", "next", "lun", "stuck"}, msg : Message \cup {None},
              list : Seq(Dev)]
  /\ inited \in BOOLEAN /\ mounted \in BOOLEAN
  /\ vid \in Model \cup {None} /\ usbfd \in Dev \cup {None}
  /\ hdd \in BOOLEAN /\ disc \in {"none", "open", "freed"}
  /\ due \subseteq Client

Init ==
  /\ plugged = {} /\ used = {} /\ moved = TRUE /\ awake = {} /\ forsaken = {}
  /\ waiting = "none" /\ attached = <<>> /\ result = 0 /\ refused = FALSE
  /\ queue = <<>> /\ ask = [c \in Client |-> None] /\ work = Idle
  /\ inited = FALSE /\ mounted = FALSE /\ vid = None /\ usbfd = None
  /\ hdd = FALSE /\ disc = "none" /\ due = {}

-----------------------------------------------------------------------------
(* Devices, and the kernel's USB stack *)

Plug(d) ==
  /\ d \notin used
  /\ plugged' = plugged \cup {d} /\ used' = used \cup {d} /\ moved' = TRUE
  /\ UNCHANGED <<power, host, queue, ask, work, inited, mounted, vid, usbfd, wbfs, due>>

Unplug(d) ==
  /\ d \in plugged
  /\ plugged' = plugged \ {d} /\ moved' = TRUE
  /\ awake' = awake \ {d} /\ forsaken' = forsaken \ {d}
  /\ UNCHANGED <<used, host, queue, ask, work, inited, mounted, vid, usbfd, wbfs, due>>

\* The kernel writes the devices over the first entries of the table; what was
\* behind them stays until the module has seen the message.
Overwrite(new, old) ==
  [i \in 1 .. (IF Len(new) > Len(old) THEN Len(new) ELSE Len(old)) |->
     IF i <= Len(new) THEN new[i] ELSE old[i]]
Listings(S) == {list \in [1 .. Cardinality(S) -> S] : Range(list) = S}

KernelChange ==
  /\ waiting = "change" /\ moved /\ Len(queue) < QueueSize
  /\ \E list \in Listings(plugged) :
       attached' = Overwrite(list, attached) /\ result' = Len(list)
  /\ waiting' = "none" /\ moved' = FALSE
  /\ queue' = Append(queue, <<"devchange", None>>)
  /\ UNCHANGED <<plugged, used, power, refused, ask, work, inited, mounted, vid, usbfd, wbfs, due>>

KernelFinish ==
  /\ waiting = "finish" /\ Len(queue) < QueueSize
  /\ waiting' = "none" /\ queue' = Append(queue, <<"attach", None>>)
  /\ UNCHANGED <<kernel, power, attached, result, refused, ask, work, inited, mounted, vid, usbfd, wbfs, due>>

\* The kernel answers either request with an error.
KernelRefuses ==
  /\ waiting # "none" /\ Len(queue) < QueueSize
  /\ queue' = Append(queue, IF waiting = "change" THEN <<"devchange", None>> ELSE <<"attach", None>>)
  /\ waiting' = "none" /\ refused' = TRUE
  /\ UNCHANGED <<kernel, power, attached, result, ask, work, inited, mounted, vid, usbfd, wbfs, due>>

-----------------------------------------------------------------------------
(* Clients: the storage library of the FAT and DIP modules, and the loader *)

LibraryKind == {"init", "io", "capacity"}

Ask(c, kind) ==
  /\ ask[c] = None /\ Len(queue) < QueueSize
  /\ c \in Library => kind \in LibraryKind
  /\ ask' = [ask EXCEPT ![c] = kind]
  /\ queue' = Append(queue, <<"request", c>>)
  /\ UNCHANGED <<kernel, power, host, work, inited, mounted, vid, usbfd, wbfs, due>>

-----------------------------------------------------------------------------
(* The module's thread *)

Receive ==
  /\ work.at = "idle" /\ queue # <<>>
  /\ work' = [Idle EXCEPT !.at = "got", !.msg = Head(queue)]
  /\ queue' = Tail(queue)
  /\ UNCHANGED <<kernel, power, host, ask, inited, mounted, vid, usbfd, wbfs, due>>

Got(tag) == work.at = "got" /\ work.msg[1] = tag
Sender == work.msg[2]
Requested(kinds) == Got("request") /\ ask[Sender] \in kinds
Listed(d) == d \in Range(attached)

\* The thread is done with its message: the client is answered, or the mount
\* that it caused is done.
Finish ==
  /\ work' = Idle
  /\ ask' = IF work.msg[1] = "request" THEN [ask EXCEPT ![Sender] = None] ELSE ask
  /\ due' = IF work.msg[1] = "mount" THEN due \ {Sender} ELSE due

\* A message to an endpoint, and a SCSI command with the resets and the retries
\* of __cycle: either may fail with a device that is there, and fails with one
\* that is not.
Reachable(d) == d \in plugged
Command == usbfd # None /\ Reachable(usbfd)

\* USB_OpenDevice, USB_GetDescriptors: a device of the table is resumed and asked.
CanOpen(d) == Listed(d) /\ Reachable(d)
Resume(d) == awake' = awake \cup {d} /\ forsaken' = forsaken \ {d}

\* A device that was resumed is suspended, unless the kernel refuses.
Suspend(d) ==
  \/ awake' = awake \ {d} /\ forsaken' = forsaken \ {d}
  \/ Reachable(d) /\ awake' = awake \cup {d} /\ forsaken' = forsaken \cup {d}

\* USB_CloseDevice: the handle is cleared whatever comes of the suspend.  A
\* device that the table no longer holds is not suspended.
Close ==
  /\ usbfd' = None
  /\ IF usbfd # None /\ Listed(usbfd) THEN Suspend(usbfd) ELSE UNCHANGED power

\* Faulty: a second mount is asked for, to be safe.
SendMountTwice ==
  IF Len(queue) + 1 >= QueueSize
  THEN work' = [work EXCEPT !.at = "stuck"] /\ UNCHANGED <<queue, ask, due>>
  ELSE /\ work' = Idle /\ ask' = [ask EXCEPT ![Sender] = None]
       /\ queue' = queue \o [i \in 1 .. 2 |-> <<"mount", Sender>>]
       /\ due' = due \cup {Sender}

\* Faulty: the mount is asked for only when the stack is initialised.
SendMountOnce ==
  /\ work' = Idle /\ ask' = [ask EXCEPT ![Sender] = None] /\ due' = due \cup {Sender}
  /\ queue' = IF inited THEN queue ELSE Append(queue, <<"mount", Sender>>)

\* usbstorage_Startup sends a mount to the module's own queue, which only this
\* thread empties: it waits for ever when the queue is full.
SendMount ==
  IF Len(queue) = QueueSize
  THEN work' = [work EXCEPT !.at = "stuck"] /\ UNCHANGED <<queue, ask, due>>
  ELSE /\ work' = Idle /\ ask' = [ask EXCEPT ![Sender] = None]
       /\ queue' = Append(queue, <<"mount", Sender>>) /\ due' = due \cup {Sender}

\* USB_Init, the first time: the module waits for changes.  With a kernel of a
\* version that it does not know it frees host and succeeds all the same: it
\* never asks for anything, and its table stays empty.
Startup ==
  /\ SendMount
  /\ inited' = TRUE
  /\ \/ inited /\ UNCHANGED <<waiting, refused>>
     \/ ~inited /\ waiting' = "change" /\ UNCHANGED refused
     \/ ~inited /\ refused' = TRUE /\ UNCHANGED waiting

HandleInit ==
  /\ Requested({"init"})
  /\ Startup
  /\ UNCHANGED <<kernel, power, attached, result, mounted, vid, usbfd, wbfs>>

\* USB_Init fails: there is no /dev/usb/ven, or no answer about its version.
\* The client is told.
InitFails ==
  /\ Requested({"init", "opendisc"}) /\ ~inited
  /\ Finish
  /\ UNCHANGED <<kernel, power, host, queue, inited, mounted, vid, usbfd, wbfs>>

\* WBFS_OpenDisc reads the capacity of what was mounted before.  An open of the
\* partition that fails leaves the handle of the old disc, which was freed.
Reopened ==
  \/ hdd' = FALSE /\ disc' = IF disc = "none" THEN "none" ELSE "freed"
  \/ Command /\ hdd' = TRUE /\ disc' \in {"none", "open"}

HandleOpenDisc ==
  /\ Requested({"opendisc"})
  /\ Startup
  /\ \/ UNCHANGED wbfs
     \/ mounted /\ Command /\ work'.at # "stuck" /\ Reopened
  /\ UNCHANGED <<kernel, power, attached, result, mounted, vid, usbfd>>

\* Reads and writes of sectors and of the disc, and the capacity: they need the
\* device to be mounted and change nothing of the module.
HandleIo ==
  /\ Requested({"io", "capacity", "readdisc"})
  /\ Finish
  /\ UNCHANGED <<kernel, power, host, queue, inited, mounted, vid, usbfd, wbfs>>

\* usbstorage_Shutdown: the model of the device is kept, and so is __mounted.
HandleUnmount ==
  /\ Requested({"unmount"})
  /\ Finish
  /\ IF vid # None THEN Close ELSE UNCHANGED <<power, usbfd>>
  /\ UNCHANGED <<kernel, host, queue, inited, mounted, vid, wbfs>>

\* Faulty: the kernel is not told that the devices were seen.
ForgetSilently == attached' = SubSeq(attached, 1, result) /\ waiting' = waiting

\* USB_DeviceChange clears the entries behind those that the kernel reported.
Forget == attached' = SubSeq(attached, 1, result) /\ waiting' = "finish"
DeviceChange == IF refused THEN UNCHANGED <<attached, waiting>> ELSE Forget

HandleDevChange ==
  /\ Got("devchange")
  /\ Finish /\ DeviceChange
  /\ UNCHANGED <<kernel, power, result, refused, queue, inited, mounted, vid, usbfd, wbfs>>

\* USB_AttachFinish waits for the next change.
HandleAttach ==
  /\ Got("attach")
  /\ Finish
  /\ waiting' = IF refused THEN waiting ELSE "change"
  /\ UNCHANGED <<kernel, power, attached, result, refused, queue, inited, mounted, vid, usbfd, wbfs>>

(* usbstorage_IsInserted, for a client or for a mount message *)

NothingMounted ==
  /\ Close /\ mounted' = FALSE /\ vid' = None
  /\ Finish /\ queue' = queue

\* A model that was mounted before is mounted again when it is in the list; the
\* handle is not opened anew.
IsInserted ==
  /\ Got("mount") \/ Requested({"inserted"})
  /\ CASE ~inited ->
            Finish /\ UNCHANGED <<queue, power, mounted, vid, usbfd>>
       [] inited /\ vid = None ->
            /\ mounted' = FALSE
            /\ work' = [work EXCEPT !.at = "next", !.list = attached]
            /\ UNCHANGED <<queue, ask, due, power, vid, usbfd>>
       [] inited /\ vid # None /\ (\E d \in Range(attached) : ModelOf[d] = vid) ->
            mounted' = TRUE /\ Finish /\ UNCHANGED <<queue, power, vid, usbfd>>
       [] OTHER -> NothingMounted
  /\ UNCHANGED <<kernel, host, inited, wbfs>>

\* USBStorage_Open: whatever fails after the device was resumed, it is closed.
OpenNext ==
  /\ work.at = "next" /\ work.list # <<>>
  /\ LET d == Head(work.list) IN
       \/ /\ CanOpen(d)
          /\ usbfd' = d /\ Resume(d)
          /\ work' = [work EXCEPT !.at = "lun"]
       \/ /\ (CanOpen(d) /\ Suspend(d)) \/ UNCHANGED power
          /\ work' = [work EXCEPT !.list = Tail(@)]
          /\ usbfd' = usbfd
  /\ UNCHANGED <<kernel, host, queue, ask, inited, mounted, vid, wbfs, due>>

\* USBStorage_MountLUN: the first unit that answers is mounted.
MountLun ==
  /\ work.at = "lun" /\ Command
  /\ mounted' = TRUE /\ vid' = ModelOf[usbfd]
  /\ Finish
  /\ UNCHANGED <<kernel, power, host, queue, inited, usbfd, wbfs>>

\* Faulty: a device without a unit that answers is left open.
NextDeviceUnclosed ==
  /\ usbfd' = None /\ UNCHANGED power
  /\ work' = [work EXCEPT !.at = "next", !.list = Tail(@)]

\* None does: the device is closed, and the next one is tried.
NextDevice == Close /\ work' = [work EXCEPT !.at = "next", !.list = Tail(@)]
NoLun ==
  /\ work.at = "lun"
  /\ NextDevice
  /\ UNCHANGED <<kernel, host, queue, ask, inited, mounted, vid, wbfs, due>>

ListDone ==
  /\ work.at = "next" /\ work.list = <<>>
  /\ NothingMounted
  /\ UNCHANGED <<kernel, host, inited, wbfs>>

-----------------------------------------------------------------------------
(* Specification *)

Module ==
  \/ Receive
  \/ HandleInit \/ InitFails \/ HandleOpenDisc \/ HandleIo \/ HandleUnmount
  \/ HandleDevChange \/ HandleAttach
  \/ IsInserted \/ OpenNext \/ MountLun \/ NoLun \/ ListDone

Kernel == KernelChange \/ KernelFinish

Next ==
  \/ \E d \in Dev : Plug(d) \/ Unplug(d)
  \/ Kernel \/ KernelRefuses
  \/ \E c \in Client, kind \in Kind : Ask(c, kind)
  \/ Module

\* The module's thread never waits but for a message, and the kernel answers a
\* request that it can answer.  Nobody has to plug anything or to ask.
Fairness == WF_vars(Module) /\ WF_vars(Kernel)
Spec == Init /\ [][Next]_vars /\ Fairness

-----------------------------------------------------------------------------
(* Properties *)

\* The module never waits for room in the queue that it empties itself: of each
\* client at most one request and one mount are in the queue, and one message
\* of the kernel (usbstorage_Startup sends with a blocking call).
QueueHasRoom == work.at # "stuck"

\* A client whose INIT was answered finds the mount tried: its next request is
\* handled after the mount that the INIT asked for (the storage library asks for
\* the capacity right after INIT and takes the device for missing when it fails).
MountedBeforeAsked ==
  work.msg # None /\ work.msg[1] = "request" => Sender \notin due

\* No device stays awake without a handle that can put it to sleep but one that
\* the kernel refused to suspend: every open that does not end in a mount, and
\* every mount that is lost, is closed, while the table of devices is
\* overwritten and devices come and go.  After a refusal nothing tries again
\* (USBStorage_Close drops what USB_CloseDevice returns).
NoDeviceForgotten == awake \subseteq {usbfd} \cup forsaken

\* When devices stop coming and going, the table comes to hold exactly those
\* that are there, whatever order the messages of the kernel and the requests
\* are handled in; only an error of the kernel, or a version that the module does
\* not know, ends it.
ListSettles == <>[](inited /\ ~refused => Range(attached) = plugged)

=============================================================================
