--------------------------------- MODULE Ehci ---------------------------------
(***************************************************************************)
(* The EHCI module: one thread that takes messages from a queue (loop.c),  *)
(* the disk driver it calls (UsbStorage), the WBFS discs it reads through  *)
(* the driver (wbfs.c) and the timer that wakes it to keep the disk        *)
(* spinning.                                                               *)
(*                                                                         *)
(* The message under work is the head of the queue until it is answered.   *)
(* A read or a write of the disk is a loop without an end while the device *)
(* is away: each turn of it is a step, between two of them the device may  *)
(* be pulled out or plugged in.  Within a step one transfer may go wrong.  *)
(*                                                                         *)
(* Sector 0 of a disk stands for its WBFS head and the one disc it has,    *)
(* whose data is sector 1; clients do not write to the head.               *)
(***************************************************************************)

EXTENDS UsbStorage

CONSTANTS
  Uses,      \* bound: the messages of a client
  Client,    \* each has one descriptor and waits for its answer
  Wbfs,      \* the devices with a WBFS disc
  Span,      \* bound: first sector and number of sectors of a request
  Timer,     \* bound: whether the watchdog timer runs out
  MaxFault   \* bound: transfers that go wrong

ASSUME EhciAssumption ==
  /\ Wbfs \subseteq Device /\ NSect > 1 /\ MaxFault \in Nat /\ Timer \in BOOLEAN /\ DOMAIN Uses = Client
  /\ IsFiniteSet(Client) /\ None \notin Client
  /\ \A s \in Span : s[1] \in 1 .. NSect - 1 /\ s[2] \in Nat /\ s[1] + Cut(s[2]) <= NSect

VARIABLES
  usb,         \* the driver and the device
  queue,       \* messages; a Tick is the NULL message of the timer
  turn,        \* of the loop the head of the queue is in: 0 before it, then 1 and 2 by turns
  armed,       \* the watchdog timer runs
  discovered, ums_mode,  \* of loop.c; ums_mode is the client it was set by
  fd,          \* what the descriptor of a client was opened as
  owner,       \* dev->fd: who has opened the device itself
  disc,        \* of wbfs.c; what it points to is not live once it is freed
  waiting,     \* the clients that have sent a message
  faults,      \* history: how many transfers went wrong
  home,        \* history: the device USBStorage_Init has mounted
  answer       \* history: the last answer

ehciVars == <<usb, queue, turn, armed, discovered, ums_mode, fd, owner, disc,
              waiting, faults, home, answer>>
service == <<discovered, ums_mode, fd, owner, disc>>

Message(c, op, sector, n, val) ==
  [c |-> c, op |-> op, sector |-> sector, n |-> n, val |-> val]
Batches == 2   \* bound: of USBStorage_Read_Stress, 512 in the code
Tick == Message(None, "tick", 0, 1, None)
NoDisc == [open |-> FALSE, live |-> FALSE, of |-> None]
NoAnswer == [op |-> "none", sector |-> 0, n |-> 0, val |-> None, ok |-> FALSE, data |-> <<>>,
             refused |-> FALSE, live |-> FALSE]

EhciInit ==
  /\ \E port \in Device \cup {None} : usb = Start(port)
  /\ queue = <<>> /\ turn = 0 /\ armed = TRUE
  /\ discovered = FALSE /\ ums_mode = None
  /\ fd = [c \in Client |-> "none"] /\ owner = None
  /\ disc = NoDisc
  /\ waiting = {} /\ faults = 0 /\ home = None /\ answer = NoAnswer

-----------------------------------------------------------------------------
(* Around the module *)

Send(c, m) ==
  /\ c \notin waiting /\ ~usb.hung /\ m.op \in Uses[c]
  /\ waiting' = waiting \cup {c}
  /\ queue' = Append(queue, m)
  /\ UNCHANGED <<usb, turn, armed, service, faults, home, answer>>

SendOpen(c) ==
  /\ fd[c] = "none"
  /\ \E op \in {"open", "open_device"} : Send(c, Message(c, op, 0, 0, None))

SendPlain(c) ==
  /\ fd[c] # "none"
  /\ \E op \in {"close", "init", "umount", "control", "bulk", "hook", "plain",
                "wbfs_open", "wbfs_read"} : Send(c, Message(c, op, 0, 1, None))

SendSectors(c) ==
  /\ fd[c] # "none"
  /\ \E s \in Span, op \in {"read", "stress", "write"} :
       \E x \in IF op = "write" THEN Value ELSE {None} :
         /\ op = "stress" => s[1] + Batches * s[2] <= NSect
         /\ Send(c, Message(c, op, s[1], s[2], x))

\* Faulty: the timer is periodic.
FireAgain ==
  /\ Timer /\ armed /\ turn = 0 /\ ~usb.hung
  /\ queue' = Append(queue, Tick)
  /\ UNCHANGED <<usb, turn, armed, service, waiting, faults, home, answer>>

\* The timer sends its NULL message and is not set again before the next message
\* is done; it is stopped while one is under work.
Fire ==
  /\ Timer /\ armed /\ turn = 0 /\ ~usb.hung /\ Tick \notin {queue[i] : i \in DOMAIN queue}
  /\ queue' = Append(queue, Tick)
  /\ armed' = FALSE
  /\ UNCHANGED <<usb, turn, service, waiting, faults, home, answer>>

Pull ==
  /\ usb.port # None
  /\ usb' = Unplugged(usb)
  /\ UNCHANGED <<queue, turn, armed, service, waiting, faults, home, answer>>

\* A port that is handed over: the controller may take it back by itself.
Plug(d) ==
  /\ usb.port = None
  /\ \E kept \in BOOLEAN :
       usb' = [usb EXCEPT !.port = d, !.port_owner = @ /\ kept]
  /\ UNCHANGED <<queue, turn, armed, service, waiting, faults, home, answer>>

-----------------------------------------------------------------------------
(* The loop *)

Cur == Head(queue)
Working(op) == queue # <<>> /\ Cur.op = op /\ ~usb.hung

\* The timer is set again after a message.
Done(restart) == queue' = Tail(queue) /\ turn' = 0 /\ armed' = restart

Reply(ok, data, refused) ==
  /\ Done(TRUE)
  /\ waiting' = waiting \ {Cur.c}
  /\ answer' = [op |-> Cur.op, sector |-> Cur.sector, n |-> Cur.n, val |-> Cur.val,
                ok |-> ok, data |-> data, refused |-> refused, live |-> disc.live]
Ack(ok, data) == Reply(ok, data, FALSE)
\* What the driver has made of the request
AckOf(w) == Reply(w.res = "OK", w.data, w.refused)

-----------------------------------------------------------------------------
(* What the driver does for the message under work *)

LoopOp == {"read", "write", "tick", "wbfs_hd", "wbfs_disc", "wbfs_read"}
DriverOp == LoopOp \cup {"open", "control", "bulk", "init", "umount", "stress", "wbfs_open"}

\* The watchdog reads while a client uses a disk, WBFS while a disc is open.
Watched == turn # 0 \/ (ums_mode # None /\ USBStorage_Get_Capacity(usb) # 0)
Driving ==
  /\ queue # <<>> /\ ~usb.hung /\ Cur.op \in DriverOp
  /\ Cur.op = "tick" => Watched
  /\ Cur.op = "wbfs_read" => disc.open

\* The watchdog reads any sector.
Asked ==
  CASE Cur.op = "tick" -> {[Cur EXCEPT !.sector = s] : s \in 0 .. NSect - 1}
    [] Cur.op = "wbfs_read" -> {[Cur EXCEPT !.sector = 1]}
    [] OTHER -> {Cur}

\* Faulty: every open discovers the device anew.
DiscoverAgain(w) == Go(ehci_reset_port(w))
Discover(w) == IF discovered THEN w ELSE Go(ehci_reset_port(w))

\* __mounted is looked at before the first turn of a loop only.
Unmounted == Cur.op \in LoopOp /\ turn = 0 /\ ~usb.mounted

Perform(w, m) ==
  CASE m.op = "open" -> Discover(w)
    [] m.op \in {"control", "bulk"} ->
         IF owner # m.c THEN Fail(w, "ERR")
         ELSE IF m.op = "control" THEN GetDescriptor(w) ELSE ehci_bulk_message(w, "out", "any", None)
    [] m.op \in {"init", "wbfs_open"} -> USBStorage_Init(w)
    [] m.op = "umount" -> USBStorage_Umount(w)
    [] m.op = "stress" -> IF w.mounted THEN Stress(w, m.sector, m.n, Batches) ELSE Fail(w, "ERR")
    [] OTHER -> IF Unmounted THEN Fail(w, "ERR") ELSE Turn(w, m)

\* One of so many transfers is going to go wrong.
Doomed(count) ==
  {[usb EXCEPT !.fault = f[1], !.left = f[2]] :
     f \in (IF faults < MaxFault THEN Faults ELSE {}) \X (0 .. count - 1)}

\* None goes wrong, or one.
Outcomes(m, r) ==
  {[w |-> r, faults |-> faults]}
    \cup {[w |-> s, faults |-> faults + 1] : s \in
               {x \in {Perform(w, m) : w \in Doomed(r.left)} : x.fault = "none"}}

Results == UNION {Outcomes(m, Perform(usb, m)) : m \in Asked}

Idle(r) ==
  [r EXCEPT !.res = "OK", !.status = 0, !.data = <<>>, !.left = 0, !.refused = FALSE]
Returns(o) == ~o.w.hung /\ usb' = Idle(o.w) /\ faults' = o.faults
Ends(o) == Returns(o) /\ (o.w.res = "OK" \/ Unmounted)

\* A turn of a loop over the disk that does not end it
TurnAgain(o) ==
  /\ Cur.op \in LoopOp /\ ~Unmounted
  /\ Returns(o) /\ o.w.res # "OK"
  /\ turn' = IF turn = 1 THEN 2 ELSE 1
  /\ armed' = FALSE
  /\ UNCHANGED <<queue, service, waiting, home, answer>>

\* Nothing else happens here once the driver hangs.
Hang(o) ==
  /\ o.w.hung /\ faults' = o.faults
  /\ usb' = [Start(None) EXCEPT !.hung = TRUE, !.media = o.w.media]
  /\ UNCHANGED <<queue, turn, armed, service, waiting, home, answer>>

-----------------------------------------------------------------------------
(* The messages *)

Answer(op, ok) ==
  /\ Working(op)
  /\ Ack(ok, <<>>)
  /\ UNCHANGED <<usb, faults, home>>

\* IOS_OPEN while a title runs (Stealth), of the module, and of a device
OpenRefused == (Answer("open", FALSE) \/ Answer("open_device", FALSE)) /\ UNCHANGED service

OpenModule(o) ==
  /\ Working("open")
  /\ Returns(o)
  /\ Ack(TRUE, <<>>)
  /\ discovered' = TRUE
  /\ fd' = [fd EXCEPT ![Cur.c] = "module"]
  /\ UNCHANGED <<ums_mode, owner, disc, home>>

OpenDevice ==
  /\ ums_mode = None /\ owner = None /\ usb.known
  /\ Answer("open_device", TRUE)
  /\ fd' = [fd EXCEPT ![Cur.c] = "device"]
  /\ owner' = Cur.c
  /\ UNCHANGED <<discovered, ums_mode, disc>>

\* IOS_CLOSE.  A disk stays mounted.
Close ==
  /\ Answer("close", TRUE)
  /\ fd' = [fd EXCEPT ![Cur.c] = "none"]
  /\ ums_mode' = IF ums_mode = Cur.c THEN None ELSE ums_mode
  /\ owner' = IF ums_mode # Cur.c /\ owner = Cur.c THEN None ELSE owner
  /\ UNCHANGED <<discovered, disc>>

\* Messages that the driver works on in one step: for the device itself, and
\* many reads
Call(o) ==
  /\ Working("control") \/ Working("bulk") \/ Working("stress")
  /\ Returns(o) /\ AckOf(o.w)
  /\ UNCHANGED <<service, home>>

\* The insert and removal hooks are never answered.
Hook ==
  /\ Working("hook")
  /\ Done(TRUE)
  /\ UNCHANGED <<usb, service, waiting, faults, home, answer>>

\* Device list, capacity, verbosity, watchdog value, unknown commands
Plain == Answer("plain", TRUE) /\ UNCHANGED service

\* The device that USBStorage_Init has mounted
Home(w) == IF w.res = "OK" /\ ~usb.ums_init_done THEN w.port ELSE home

UmsInit(o) ==
  /\ Working("init")
  /\ Returns(o) /\ Ack(o.w.res = "OK", <<>>) /\ home' = Home(o.w)
  /\ ums_mode' = Cur.c
  /\ UNCHANGED <<discovered, fd, owner, disc>>

UmsUmount(o) ==
  /\ Working("umount")
  /\ Returns(o)
  /\ Ack(TRUE, <<>>) /\ home' = None /\ UNCHANGED service

ReadSectors(o) ==
  /\ Working("read")
  /\ Ends(o) /\ AckOf(o.w)
  /\ UNCHANGED <<service, home>>

WriteSectors(o) ==
  /\ Working("write")
  /\ Ends(o) /\ AckOf(o.w)
  /\ UNCHANGED <<service, home>>

\* Faulty: the timer is not set again.
WatchdogQuits(o) ==
  /\ Working("tick")
  /\ Ends(o) /\ Done(FALSE)
  /\ UNCHANGED <<service, waiting, home, answer>>

\* __EHCI_Watchdog.  The timer is set again if it has read.
Watchdog(o) ==
  /\ Working("tick")
  /\ Ends(o) /\ Done(TRUE)
  /\ UNCHANGED <<service, waiting, home, answer>>

WatchdogIdle ==
  /\ Working("tick") /\ ~Watched
  /\ Done(FALSE)
  /\ UNCHANGED <<usb, faults, service, waiting, home, answer>>

-----------------------------------------------------------------------------
(* WBFS *)

Goto(op) ==
  /\ queue' = <<[Cur EXCEPT !.op = op]>> \o Tail(queue)
  /\ turn' = IF turn = 1 THEN 2 ELSE 1
  /\ armed' = FALSE
  /\ UNCHANGED <<waiting, answer>>

\* WBFS_OpenDisc: mount, and close what was open before.  The pointer to a disc
\* that is closed stays.
WbfsMount(o) ==
  /\ Working("wbfs_open")
  /\ Returns(o) /\ home' = Home(o.w)
  /\ IF o.w.res # "OK" \/ USBStorage_Get_Capacity(o.w) = 0
     THEN Ack(FALSE, <<>>) /\ UNCHANGED disc
     ELSE Goto("wbfs_hd") /\ disc' = [disc EXCEPT !.live = FALSE]
  /\ UNCHANGED <<discovered, ums_mode, fd, owner>>

IsHead(data) == Len(data) = 1 /\ data[1] \in {<<d, 0>> : d \in Wbfs}

WbfsOpenHd(o) ==
  /\ Working("wbfs_hd")
  /\ Ends(o)
  /\ IF IsHead(o.w.data) THEN Goto("wbfs_disc") ELSE Ack(FALSE, <<>>)
  /\ UNCHANGED <<service, home>>

WbfsOpenDisc(o) ==
  /\ Working("wbfs_disc")
  /\ Ends(o) /\ Ack(IsHead(o.w.data), <<>>)
  /\ disc' = IF IsHead(o.w.data) THEN [open |-> TRUE, live |-> TRUE, of |-> home] ELSE NoDisc
  /\ UNCHANGED <<discovered, ums_mode, fd, owner, home>>

WbfsRead(o) ==
  /\ Working("wbfs_read")
  /\ Ends(o) /\ AckOf(o.w)
  /\ UNCHANGED <<service, home>>

NothingOpen == Answer("wbfs_read", FALSE) /\ ~disc.open /\ UNCHANGED service

-----------------------------------------------------------------------------

Driver(o) ==
  \/ OpenModule(o) \/ Call(o) \/ UmsInit(o) \/ UmsUmount(o)
  \/ ReadSectors(o) \/ WriteSectors(o) \/ Watchdog(o)
  \/ WbfsMount(o) \/ WbfsOpenHd(o) \/ WbfsOpenDisc(o) \/ WbfsRead(o)
  \/ TurnAgain(o) \/ Hang(o)

Work ==
  \/ OpenRefused \/ OpenDevice \/ Close \/ Hook \/ Plain \/ WatchdogIdle \/ NothingOpen
  \/ Driving /\ \E o \in Results : Driver(o)

EhciNext ==
  \/ \E c \in Client : SendOpen(c) \/ SendPlain(c) \/ SendSectors(c)
  \/ Fire \/ Pull \/ \E d \in Device : Plug(d)
  \/ Work

EhciSpec == EhciInit /\ [][EhciNext]_ehciVars

\* The thread runs while there is something for it to do: a step of Work ends a
\* message or makes one more turn, unless it hangs.
Step ==
  /\ queue # <<>> /\ ~usb.hung
  /\ \/ queue' = Tail(queue) /\ turn' = 0
     \/ turn' \in {1, 2} \ {turn}

EhciFairSpec == EhciSpec /\ WF_<<queue, turn>>(Step)

-----------------------------------------------------------------------------
(* Properties *)

Sectors(m, s, n) == SubSeq([i \in 1 .. NSect |-> m[i - 1]], s + 1, s + n)
Mounted == usb.mounted /\ ~usb.unplug_device
Answers(op) ==
  /\ waiting' # waiting /\ Len(queue') < Len(queue)
  /\ answer'.op = op /\ answer'.ok /\ ~answer'.refused /\ answer'.n < Wrap

EhciTypeOK ==
  /\ usb.port \in Device \cup {None} /\ usb.id \in 0 .. 2 /\ usb.handshake_mode \in 0 .. 1
  /\ usb.media \in [Device -> [0 .. NSect - 1 -> (Device \X (0 .. NSect - 1)) \cup Value]]
  /\ usb.usbfd.size \in {0, NSect} /\ usb.res = "OK" /\ usb.fault = "none"
  /\ waiting \subseteq Client /\ Len(queue) <= Cardinality(Client) + 1
  /\ armed \in BOOLEAN /\ discovered \in BOOLEAN
  /\ ums_mode \in Client \cup {None} /\ owner \in Client \cup {None}
  /\ fd \in [Client -> {"none", "module", "device"}]
  /\ home \in Device \cup {None} /\ disc.of \in Device \cup {None}

\* A read that is answered as done returns what the mounted device holds, and after
\* a write that is answered as done it holds what was written: no retry, reset,
\* replug or lost toggle (__cycle, unplug_procedure) makes a false success.  Two
\* things do, and are left out here: the device that says it has failed, which
\* __USBStorage_Read and _Write never find out (usbstorage.c:1032, 1056), and a number
\* of sectors of more than 16 bits, of which only what is left in 16 is moved.
AnswerIsTrue ==
  [][ /\ Answers("read") =>
           answer'.data = Sectors(usb'.media[home], answer'.sector, answer'.n)
      /\ Answers("stress") =>
           answer'.data = Sectors(usb'.media[home], answer'.sector + answer'.n, answer'.n)
      /\ Answers("write") =>
           Sectors(usb'.media[home], answer'.sector, answer'.n)
             = [i \in 1 .. answer'.n |-> answer'.val] ]_ehciVars

\* Only the device that was mounted is written to, whatever is plugged in before a
\* request is done (USBStorage_Open compares the descriptors for this).
NoStranger ==
  [][\A d \in Device : usb'.media[d] # usb.media[d] => d = home]_ehciVars

\* While the disk is mounted the driver and the device agree on its address, its
\* configuration and the toggles of both endpoints: USB_ClearHalt resets those of
\* the device only, and what follows from that ends in a new enumeration.
SessionAgrees ==
  Mounted /\ usb.port = home /\ usb.dev.enabled =>
    usb.id = usb.dev.addr /\ usb.dev.conf /\ usb.tog = usb.dev.tog

\* Of all the driver has allocated for transfers and for descriptors the buffer of the
\* open handle is left, until USB_GetDescriptors gives the descriptors of an earlier
\* call back a second time (usb.c:155-188).
BufferBalance == ~usb.refreed => usb.allocs = IF usb.usbfd.buffer THEN 1 ELSE 0

\* As long as a disk is in use by a client the watchdog will read from it again.
WatchdogArmed ==
  ums_mode # None /\ usb.mounted /\ USBStorage_Get_Capacity(usb) # 0 /\ ~usb.hung =>
    armed \/ queue # <<>>

\* A request for no sector, of a disk that was mounted when it came: the loop has no
\* end, with the device at the port too.
Endless ==
  queue # <<>> /\ turn # 0 /\ Cur.op \in {"read", "write"} /\ Cut(Cur.n) = 0

\* A message is taken care of if from some time on the device that is mounted stays
\* plugged in, its port is the driver's and not handed over, the driver has kept its
\* handle, and it is not caught in an endless request.
Healthy ==
  /\ ~usb.hung /\ ~Endless
  /\ usb.unplug_device => usb.port = home /\ ~usb.port_owner /\ usb.usbfd.usb_fd
Pending(c) == c \in {queue[i].c : i \in DOMAIN queue}
Served == <>[]Healthy => \A c \in Client : Pending(c) ~> ~Pending(c)

=============================================================================
