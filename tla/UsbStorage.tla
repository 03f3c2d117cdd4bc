------------------------------ MODULE UsbStorage ------------------------------
(***************************************************************************)
(* The USB mass storage driver of the EHCI module (tinyehci) and the       *)
(* device at its port: transfers, enumeration, SCSI commands in the        *)
(* Bulk-Only protocol with their retries, mounting, and the recovery of a  *)
(* device that was pulled out.                                             *)
(*                                                                         *)
(* An operator is a function of the code: it takes the driver and the      *)
(* device as one record and returns it as the function leaves it, the      *)
(* result in res ("NODEV" and "TIMEDOUT" are told apart by the code, "ERR" *)
(* is any other negative value).  A sector is one packet.  Once in a call  *)
(* something may go wrong with one transfer:                               *)
(*   gone    the device is pulled out before it                            *)
(*   lost    nothing answers                                               *)
(*   late    it is carried out and reported as timed out                   *)
(*   short   the device ends the data it sends early                       *)
(*   bad     the status block that ends a command is not one               *)
(*   failed  the device cannot do a read or a write: the data it sends is  *)
(*           junk, what it is sent is not stored, and its status says so   *)
(* A stalled endpoint and a transaction error take the path of a time-out. *)
(* The only port in use is port 0, a device has one configuration, one     *)
(* interface, which is a disk, and one unit, and memory does not run out.  *)
(* A command other than a read or a write never fails, but for the unit    *)
(* that is not ready yet.                                                  *)
(***************************************************************************)

EXTENDS Integers, SequencesExt, Calls

CONSTANTS
  Device,     \* devices that can be plugged in
  Model,      \* the model of each: devices of one model have one descriptor
  NSect,      \* sectors of a device
  Chunk,      \* sectors of one command
  Wrap,       \* 65536, where the 16 bits of a number of sectors end
  Value,      \* values that are written to sectors
  Faults,     \* what may go wrong with a transfer
  None

ASSUME UsbStorageAssumption ==
  /\ {NSect, Chunk, Wrap} \subseteq Nat \ {0}
  /\ Faults \subseteq {"gone", "lost", "late", "short", "bad", "failed"}

USBSTORAGE_CYCLE_RETRIES == 10
HardResets == 5

-----------------------------------------------------------------------------
(* The device *)

Dark == [enabled |-> FALSE, addr |-> 0, conf |-> FALSE, tog |-> [in |-> 0, out |-> 0],
         ph |-> "cbw", ua |-> TRUE]
\* After a port reset it answers to address 0.
Fresh == [Dark EXCEPT !.enabled = TRUE]
Unplugged(w) == [w EXCEPT !.port = None, !.dev = Dark]

NoHandle == [usb_fd |-> FALSE, buffer |-> FALSE, size |-> 0]

Start(port) ==
  [ \* struct ehci_device and the statics of the driver
   id |-> 0, known |-> FALSE, tog |-> [in |-> 0, out |-> 0],
   handshake_mode |-> 0, unplug_device |-> FALSE,
   usbfd |-> NoHandle, mounted |-> FALSE, ums_init_done |-> FALSE, old_udd |-> None,
   allocs |-> 0, hung |-> FALSE,
   \* whether the static udd has pointers; history: whether one was freed twice
   udd |-> FALSE, refreed |-> FALSE,
   \* the port, whether it is left to the other controller, and what the devices hold
   port |-> port, port_owner |-> port = None, dev |-> Dark,
   media |-> [d \in Device |-> [s \in 0 .. NSect - 1 |-> <<d, s>>]],
   \* of the call under way: left are the transfers before its fault, or made without
   fault |-> "none", left |-> 0, res |-> "OK", status |-> 0, data |-> <<>>,
   \* history: whether the device has failed in a command that passes for done
   refused |-> FALSE]

-----------------------------------------------------------------------------
(* SCSI commands at the device *)

Cmd(op, sector, data) == [op |-> op, sector |-> sector, n |-> Len(data), data |-> data]
ReadCmd(sector, n) == Cmd("read", sector, [i \in 1 .. n |-> None])
WriteCmd(sector, data) == Cmd("write", sector, data)
OtherCmd(op) == Cmd(op, 0, <<None>>)

Phase(cmd) ==
  CASE cmd.op = "tur" -> "csw" [] cmd.op = "write" -> "write" [] OTHER -> "read"

\* The device cannot do the command.
CannotDo(w, cmd) == w.fault = "failed" /\ w.left = 0 /\ cmd.op \in {"read", "write"}
Junk(n) == [i \in 1 .. n |-> <<None, NSect>>]
Refuse(w, cmd) ==
  [w EXCEPT !.fault = "none", !.dev.ph = "failed",
            !.data = IF cmd.op = "read" THEN Junk(cmd.n) ELSE @]

Store(w, cmd) ==
  IF w.dev.ph # "write" THEN [w EXCEPT !.dev.ph = "stall"]
  ELSE IF CannotDo(w, cmd) THEN Refuse(w, cmd)
  ELSE [w EXCEPT !.dev.ph = "csw",
          !.media[w.port] = [s \in DOMAIN @ |-> IF s - cmd.sector \in 0 .. cmd.n - 1
                                                THEN cmd.data[s - cmd.sector + 1] ELSE @[s]]]

Supply(w, cmd) ==
  CASE CannotDo(w, cmd) -> Refuse(w, cmd)
    [] cmd.op = "read" /\ ~CannotDo(w, cmd) ->
         [w EXCEPT !.data = [i \in 1 .. cmd.n |-> w.media[w.port][cmd.sector + i - 1]]]
    [] cmd.op = "capacity" -> [w EXCEPT !.data = <<<<None, NSect>>>>]
    [] cmd.op = "sense" -> [w EXCEPT !.dev.ua = FALSE]
    [] OTHER -> w

Accept(x, u) ==
  CASE u.req = "cbw" -> [x EXCEPT !.dev.ph = IF @ = "cbw" THEN Phase(u.val) ELSE "stall"]
    [] u.req = "data" -> Store(x, u.val)
    [] OTHER -> [x EXCEPT !.dev.ph = "stall"]

-----------------------------------------------------------------------------
(* Transfers: ehci_do_urb *)

Gone(w) == Fail([w EXCEPT !.unplug_device = TRUE], "NODEV")

\* handshake, when its time is over or the controller reports an error
Silent(w) == IF w.handshake_mode = 1 THEN Fail(w, "TIMEDOUT") ELSE Gone(w)

Flip(t, n) == (t + n) % 2

\* What is sent: a control message and its value, or n packets of a SCSI command
Urb(ep, req, val, n) == [ep |-> ep, req |-> req, val |-> val, n |-> n]

\* A control message at the device and, what it tells, in struct ehci_device
ControlStage(x, u) ==
  CASE u.req = "identify" -> [x EXCEPT !.known = TRUE]
    [] u.req = "address" -> [x EXCEPT !.dev.addr = u.val]
    [] u.req = "configuration" ->
         [x EXCEPT !.dev.conf = TRUE, !.dev.ph = "cbw", !.dev.tog = [in |-> 0, out |-> 0]]
    [] u.req = "halt" /\ u.val # "control" -> [x EXCEPT !.dev.tog[u.val] = 0]
    [] u.req = "storage_reset" -> [x EXCEPT !.dev.ph = "cbw"]
    [] OTHER -> x

\* A packet with the wrong toggle is acknowledged and dropped.  Only the block
\* that begins a command can meet one: after it host and device agree.
BulkOut(x, u) ==
  IF x.dev.ph \notin {"cbw", "write"} \/ ~x.dev.conf THEN Silent(x)
  ELSE IF x.tog.out # x.dev.tog.out THEN [x EXCEPT !.tog.out = Flip(@, u.n)]
  ELSE Accept([x EXCEPT !.tog.out = Flip(@, u.n), !.dev.tog.out = Flip(@, u.n)], u)

\* The host drops a first packet with the wrong toggle and takes the status
\* block for the last one; what is missing never comes.
BulkIn(x, u) ==
  IF x.dev.ph # "read" THEN Silent(x)
  ELSE IF x.fault = "short" /\ x.left = 0
  THEN Silent([x EXCEPT !.fault = "none", !.dev.ph = "cbw",
                        !.tog.in = Flip(@, 1), !.dev.tog.in = Flip(@, 1)])
  ELSE IF x.tog.in # x.dev.tog.in
  THEN Silent([x EXCEPT !.dev.ph = "cbw", !.tog.in = Flip(@, u.n), !.dev.tog.in = Flip(@, u.n + 1)])
  ELSE Supply([x EXCEPT !.dev.ph = "csw", !.tog.in = Flip(@, u.n), !.dev.tog.in = Flip(@, u.n)],
              u.val)

\* The status that says the device has failed is not looked at for a read or a
\* write: a result is never above 0 there.
StatusIn(x, u) ==
  IF x.dev.ph \notin {"csw", "failed"} THEN Silent(x)
  ELSE IF x.tog.in # x.dev.tog.in
  THEN Silent([x EXCEPT !.dev.ph = "cbw", !.dev.tog.in = Flip(@, 1)])
  ELSE With([x EXCEPT !.dev.ph = "cbw", !.tog.in = Flip(@, 1), !.dev.tog.in = Flip(@, 1)],
            LAMBDA y : IF y.fault = "bad" /\ y.left = 0
                       THEN Fail([y EXCEPT !.fault = "none"], "ERR")
                       ELSE [y EXCEPT !.refused = @ \/ x.dev.ph = "failed",
                                      !.status = IF u.val.op = "tur" /\ y.dev.ua THEN 1 ELSE 0])

Packets(x, u) ==
  CASE u.ep = "control" -> ControlStage(x, u)
    [] u.ep = "out" -> BulkOut(x, u)
    [] u.ep = "in" /\ u.req = "data" -> BulkIn(x, u)
    [] u.ep = "in" /\ u.req = "csw" -> StatusIn(x, u)

\* Whether this is the transfer that goes wrong, and how
Happens(w) == IF w.left = 0 THEN w.fault ELSE "none"
Counted(w) ==
  CASE w.fault = "none" -> [w EXCEPT !.left = @ + 1]
    [] w.fault # "none" /\ w.left > 0 -> [w EXCEPT !.left = @ - 1]
    [] w.left = 0 /\ w.fault = "gone" -> Unplugged([w EXCEPT !.fault = "none"])
    [] w.left = 0 /\ w.fault \in {"lost", "late"} -> [w EXCEPT !.fault = "none"]
    [] OTHER -> w

\* The port shows a device: there is one, and the port is not handed over.
Seen(w) == w.port # None /\ ~w.port_owner

Exchange(w, id, u, happened) ==
  IF ~Seen(w) THEN Gone(w)
  ELSE IF ~w.dev.enabled \/ w.dev.addr # id \/ happened = "lost" THEN Silent(w)
  ELSE With(Packets(w, u), LAMBDA p : IF happened = "late" THEN Silent(Go(p)) ELSE p)

ehci_do_urb(w, id, u) == Exchange(Counted(w), id, u, Happens(w))

ehci_control_message(w, req, val) == ehci_do_urb(w, w.id, Urb("control", req, val, 1))
ehci_bulk_message(w, ep, req, cmd) ==
  ehci_do_urb(w, w.id, Urb(ep, req, cmd, IF req = "data" THEN cmd.n ELSE 1))

GetDescriptor(w) == ehci_control_message(w, "descriptor", None)
\* The same into struct ehci_device, where ehci_open_device looks for it
Identify(w) == ehci_control_message(w, "identify", None)
SetAddress(w, a) == ehci_control_message(w, "address", a)
USB_GetConfiguration(w) == ehci_control_message(w, "get_configuration", None)
USB_SetConfiguration(w) == ehci_control_message(w, "configuration", None)
USB_ClearHalt(w, ep) == ehci_control_message(w, "halt", ep)

-----------------------------------------------------------------------------
(* The port *)

\* A port where no device is seen is left to the other controller, for a device
\* that is not USB 2.
HandOver(w) == Fail([w EXCEPT !.port_owner = TRUE], "NODEV")

\* ehci_reset_usb_port, and the enumeration of ehci_reset_port_old
PortReset(w) == IF Seen(w) THEN [w EXCEPT !.dev = Fresh] ELSE HandOver(w)

EnumerateOnce(w) ==
  IF ~Seen(w) THEN Fail(w, "ERR")
  ELSE Then(Identify([w EXCEPT !.dev = Fresh]), LAMBDA d : SetAddress(d, 1))
Enumerate(w) == Retry(4, w, LAMBDA a : EnumerateOnce(Go(a)))

ehci_reset_port_old(w) ==
  IF ~Seen(w) THEN HandOver([w EXCEPT !.id = 0])
  ELSE With(Enumerate([w EXCEPT !.id = 0, !.handshake_mode = 1]),
            LAMBDA a : Then([a EXCEPT !.handshake_mode = w.handshake_mode],
                            LAMBDA b : [b EXCEPT !.tog = [in |-> 0, out |-> 0], !.id = 1]))

\* The port is powered again, which leaves it disabled.
ehci_reset_port2(w) ==
  Else(ehci_reset_port_old(w), LAMBDA r : IF Seen(r) THEN [r EXCEPT !.dev = Dark] ELSE r)

\* ehci_init_port asks 3 times, then 3 times after a reset, then 3 times after it
\* has taken the port over and reset it.  The port was its own before, or the reset
\* that follows hands it over again: the taking changes nothing.
Ask(w) == Retry(3, w, LAMBDA d : Identify(Go(d)))
Describe(w) ==
  Else(Else(Ask(w), LAMBDA a : Retry(6, a, LAMBDA d : Identify(Go(PortReset(Go(d)))))),
       LAMBDA d : Fail(d, "ERR"))

\* The loop has no end while the device does not answer: cnt is never changed.  A
\* device that is there answers at the latest in the round after its fault.
SettleOnce(w) ==
  With(Go(SetAddress(w, 2)), LAMBDA a :
    With(Go(USB_ClearHalt([a EXCEPT !.tog = [in |-> 0, out |-> 0], !.id = 2], "control")),
         Identify))
Settle(w) ==
  Else(Retry(3, w, LAMBDA d :
         IF d.res = "OK" \/ d.dev.enabled THEN SettleOnce(Go([d EXCEPT !.id = 0])) ELSE d),
       LAMBDA d : [d EXCEPT !.id = 0, !.hung = TRUE])

ehci_init_port(w) == Then(Describe([w EXCEPT !.id = 0]), Settle)

ehci_reset_port(w) ==
  Then(With(PortReset([w EXCEPT !.handshake_mode = 1]),
            LAMBDA r : [r EXCEPT !.handshake_mode = w.handshake_mode]), ehci_init_port)

-----------------------------------------------------------------------------
(* SCSI commands *)

\* A hard reset.  When the device cannot be configured the result is the one of
\* the port reset: it passes for a success after the last try.  Once a unit is
\* chosen (__lun) the code would mount it again here, but then handshake_mode is
\* 0, a control message that fails finds no device, and no hard reset is made.
HardReset(w) ==
  Then(ehci_reset_port(w), LAMBDA p :
    Else(Then(USB_GetConfiguration(p), USB_SetConfiguration), LAMBDA c : Fail(c, "KEPT")))

SoftReset(w) ==
  Then(ehci_control_message(w, "storage_reset", None), LAMBDA r :
    Then(USB_ClearHalt(r, "in"), LAMBDA i : USB_ClearHalt(i, "out")))

USBStorage_Reset(w) ==
  With(Retry(HardResets + 1, w, LAMBDA r :
         IF r.res = "NODEV" THEN r
         ELSE Then(IF r.res = "OK" THEN r ELSE HardReset(Go(r)), SoftReset)),
       LAMBDA r : IF r.res = "KEPT" THEN Go(r) ELSE r)

send_cbw(w, cmd) ==
  IF ~w.usbfd.buffer THEN Fail(w, "ERR") ELSE ehci_bulk_message(w, "out", "cbw", cmd)
read_csw(w, cmd) == ehci_bulk_message(w, "in", "csw", cmd)

Attempt(w, cmd) ==
  Then(send_cbw(w, cmd), LAMBDA c :
    Then(CASE cmd.op = "tur" -> c
           [] cmd.op = "write" -> ehci_bulk_message(c, "out", "data", cmd)
           [] OTHER -> ehci_bulk_message(c, "in", "data", cmd),
         LAMBDA d : read_csw(d, cmd)))

\* One round of the loop: an error of the one before resets the device.
Again(a, cmd) ==
  IF a.res = "NODEV" THEN Gone(a)
  ELSE Then(IF a.res = "OK" THEN a ELSE USBStorage_Reset(Go(a)), LAMBDA r : Attempt(r, cmd))

\* The error of the last attempt decides what is done.  The reset that follows a
\* lost device is left out: it finds none either.
GiveUp(a) ==
  CASE a.handshake_mode = 0 -> Gone(a)
    [] a.handshake_mode = 1 /\ a.res \in {"TIMEDOUT", "NODEV"} -> a
    [] OTHER -> With(USBStorage_Reset(Go(a)), LAMBDA r :
                  Fail(r, IF r.res = "TIMEDOUT" THEN r.res ELSE a.res))

Cycle(w, cmd) ==
  Else(Retry(USBSTORAGE_CYCLE_RETRIES + 1, w, LAMBDA a : Again(a, cmd)), GiveUp)

-----------------------------------------------------------------------------
(* Mounting *)

Alloc(w) == [w EXCEPT !.allocs = @ + 1]
Free(w) == [w EXCEPT !.allocs = @ - 1]

TestUnit(w) ==
  Retry(5, w, LAMBDA t : IF t.res = "NODEV" THEN t ELSE Cycle(Go(t), OtherCmd("tur")))

clearerrors(w) ==
  Free(Then(TestUnit(Alloc(w)), LAMBDA t :
    IF t.status = 0 THEN t ELSE Cycle(t, OtherCmd("sense"))))

USBStorage_Inquiry(w) == Free(Cycle(Alloc(w), OtherCmd("inquiry")))

USBStorage_ReadCapacity(w) ==
  Then(Free(Cycle(Alloc(w), OtherCmd("capacity"))),
       LAMBDA c : [c EXCEPT !.usbfd.size = c.data[1][2]])

USBStorage_MountLUN(w) ==
  With(Then(clearerrors([w EXCEPT !.handshake_mode = 1]), LAMBDA e :
         Then(USBStorage_Inquiry(e), USBStorage_ReadCapacity)),
       LAMBDA m : [m EXCEPT !.handshake_mode = w.handshake_mode])

\* The blocks of the descriptors, counted as one, are given back.
USB_FreeDescriptors(w) == Free(w)

\* The result of the second of the three requests is not looked at.  After an error
\* of the first the blocks of an earlier call are given back a second time: the
\* record they hang from is static and keeps its pointers.
USB_GetDescriptors(w) ==
  With(GetDescriptor(w), LAMBDA d :
    IF d.res # "OK" THEN [d EXCEPT !.refreed = @ \/ d.udd]
    ELSE Else(GetDescriptor(Go(GetDescriptor(Alloc([d EXCEPT !.udd = TRUE])))),
              USB_FreeDescriptors))

\* Faulty: the buffer is not freed.
CloseKeepsBuffer(w) == [w EXCEPT !.usbfd = NoHandle]

USBStorage_Close(w) ==
  With(IF w.usbfd.buffer THEN Free(w) ELSE w, LAMBDA c : [c EXCEPT !.usbfd = NoHandle])

Configure(w) ==
  Then(Else(Then(USB_GetConfiguration(w), USB_SetConfiguration), LAMBDA c : Fail(c, "ERR")),
       LAMBDA c : Then(USBStorage_Reset(c), LAMBDA r : Alloc([r EXCEPT !.usbfd.buffer = TRUE])))

\* Faulty: the descriptors are not compared.
AnyModel(d) == TRUE
SameModel(d) == ~d.ums_init_done \/ d.old_udd = Model[d.port]

\* A device of another model than the mounted one is refused; the handle is kept.
USBStorage_Open(w) ==
  With(USB_GetDescriptors(Alloc([w EXCEPT !.usbfd = [NoHandle EXCEPT !.usb_fd = TRUE]])),
       LAMBDA d :
         IF d.res = "OK" /\ ~SameModel(d)
         THEN Fail(USB_FreeDescriptors(Free(d)), "NODEV")
         ELSE Else(Free(Then(d, LAMBDA e :
                     Configure(USB_FreeDescriptors([e EXCEPT !.old_udd = Model[e.port]])))),
                   USBStorage_Close))

\* After an error other than a time-out the number of units is asked for and the
\* unit is tried once more.
MountAny(w) ==
  Else(USBStorage_MountLUN(w), LAMBDA m :
    IF m.res = "TIMEDOUT" THEN m
    ELSE USBStorage_MountLUN(Go(ehci_control_message(Go(m), "max_lun", None))))

USBStorage_Try_Device(w) ==
  With(USBStorage_Open(w), LAMBDA o :
    IF o.res # "OK" THEN Fail(o, "ERR")
    ELSE With(MountAny(o), LAMBDA m :
           IF m.res = "OK" THEN [m EXCEPT !.mounted = TRUE]
           ELSE Fail(USBStorage_Close([m EXCEPT !.mounted = FALSE]), "ERR")))

USBStorage_Umount(w) ==
  IF ~w.ums_init_done THEN w
  ELSE [USBStorage_Close(w) EXCEPT !.mounted = FALSE, !.ums_init_done = FALSE,
                                   !.unplug_device = FALSE]

\* What is left to do when no device could be mounted: the next call finds it.
NotMounted(w) ==
  Fail(IF ~Seen(w) THEN w
       ELSE Else(ehci_reset_port2(w), LAMBDA r : ehci_reset_port(Go(r))), "ERR")

USBStorage_Init(w) ==
  IF w.ums_init_done THEN w
  ELSE With([w EXCEPT !.handshake_mode = 1], LAMBDA i :
         IF w.id = 0 THEN NotMounted(i)
         ELSE With(Then(ehci_reset_port(i), USBStorage_Try_Device), LAMBDA t :
                IF t.res = "OK"
                THEN [t EXCEPT !.handshake_mode = 0, !.ums_init_done = TRUE,
                               !.unplug_device = FALSE]
                ELSE NotMounted(Go(t))))

USBStorage_Get_Capacity(w) == IF w.mounted THEN w.usbfd.size ELSE 0

-----------------------------------------------------------------------------
(* Requests *)

\* USBStorage_Read and USBStorage_Write: their number of sectors has 16 bits, and of
\* none they return an error.  Commands are of at most Chunk sectors.
Cut(n) == n % Wrap
Chunks(n) == (n + Chunk - 1) \div Chunk
ChunkLen(n, i) == IF i * Chunk <= n THEN Chunk ELSE n - (i - 1) * Chunk

ReadSome(w, sector, n) ==
  Repeat(Chunks(n), [w EXCEPT !.data = <<>>], LAMBDA r, i :
    Then(Cycle(r, ReadCmd(sector + (i - 1) * Chunk, ChunkLen(n, i))),
         LAMBDA c : [c EXCEPT !.data = r.data \o c.data]))

WriteSome(w, sector, n, val) ==
  Repeat(Chunks(n), w, LAMBDA r, i :
    Cycle(r, WriteCmd(sector + (i - 1) * Chunk, [k \in 1 .. ChunkLen(n, i) |-> val])))

ReadChunks(w, sector, n) ==
  IF Cut(n) = 0 THEN Fail(w, "ERR") ELSE ReadSome(w, sector, Cut(n))
WriteChunks(w, sector, n, val) ==
  IF Cut(n) = 0 THEN Fail(w, "ERR") ELSE WriteSome(w, sector, Cut(n), val)

\* Of the sectors a message asks for
Transfer(w, m) ==
  IF m.op = "write" THEN WriteChunks(w, m.sector, m.n, m.val) ELSE ReadChunks(w, m.sector, m.n)

\* Faulty: unplug_device stays set after the device is back.
ReplugForgotten(t) == [t EXCEPT !.handshake_mode = 0]
Replugged(t) ==
  [t EXCEPT !.unplug_device = @ /\ t.res # "OK", !.handshake_mode = 0]

\* A handle that was closed is never opened again.
unplug_procedure(w) ==
  IF ~w.unplug_device THEN w
  ELSE IF ~w.usbfd.usb_fd THEN Fail(w, "ERR")
  ELSE Then(ehci_reset_port2(w), LAMBDA p :
         Then(ehci_reset_port([(IF p.usbfd.buffer THEN Free(p) ELSE p) EXCEPT
                                !.usbfd.buffer = FALSE]), LAMBDA r :
           With(USBStorage_Try_Device([r EXCEPT !.handshake_mode = 1]), Replugged)))

\* Faulty: unplug_device is not looked at after the transfer.
TurnTrusts(w, m) ==
  With(unplug_procedure(w), LAMBDA u :
    IF u.unplug_device THEN Fail(u, "ERR") ELSE Go(Transfer(Go(u), m)))

\* One turn of the endless loop of USBStorage_Read_Sectors or _Write_Sectors; it
\* is over when res is OK.  After an error without unplug_device the code turns and
\* does not read again; the number of sectors was none then, and to try again is to
\* fail again.
Turn(w, m) ==
  With(unplug_procedure(w), LAMBDA u :
    IF u.unplug_device THEN Fail(u, "ERR")
    ELSE With(Transfer(Go(u), m), LAMBDA t : IF t.unplug_device THEN Fail(t, "ERR") ELSE t))

\* USBStorage_Read_Stress: batches of n sectors, each into the same buffer
Stress(w, sector, n, times) ==
  Repeat(times, w, LAMBDA r, i : ReadChunks(r, sector + (i - 1) * n, n))

=============================================================================
