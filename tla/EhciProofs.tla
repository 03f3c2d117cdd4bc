------------------------------ MODULE EhciProofs ------------------------------
(***************************************************************************)
(* Proofs about the EHCI module and the disk driver it calls, for every    *)
(* set of devices, clients and messages, any size of a disk and of a       *)
(* command, and any number of transfers that go wrong.                     *)
(*                                                                         *)
(* A function of the driver takes the record of the driver and returns it. *)
(* Same(w) is what the functions below mounting make of w: whatever is     *)
(* retried and reset, the buffers, the handle and the mounted model stay.  *)
(* Moved(w) is what a request makes of it: only a device of the model that *)
(* is mounted is written to, and the model stays.                          *)
(* The loops are recursive functions over the number of attempts; each of  *)
(* these sets is closed under an attempt, and so under the loop.           *)
(*                                                                         *)
(* Between two messages, and between two turns of a loop over the disk,    *)
(* the driver is Ready and in Session, the model it has mounted is that of *)
(* home, and the queue holds at most one message of each client and of the *)
(* timer: this is EhciInv.  Kind and Told are about one message: what it   *)
(* may write to and mount, and what is true of a device once it is done.   *)
(* The theorems at the end follow from them.                               *)
(***************************************************************************)

EXTENDS Ehci, FiniteSetTheorems, SequenceTheorems, WellFoundedInduction, TLAPS

-----------------------------------------------------------------------------
(* Sets of numbers *)

\* A set of natural numbers has a least element: the intervals from 0 to its
\* elements are finite, and inclusion is well-founded among them.
LEMMA LeastOfSet ==
  ASSUME NEW T \in SUBSET Nat, T # {}
  PROVE  \E n \in T : \A m \in T : n <= m
<1> DEFINE F == {0 .. n : n \in T}
<1>1. IsWellFoundedOn(StrictSubsetOrdering(Nat), FiniteSubsetsOf(Nat))
  BY FS_StrictSubsetOrderingWellFounded
<1>2. F \subseteq FiniteSubsetsOf(Nat) /\ F # {}
  <2>1. ASSUME NEW n \in T
        PROVE  0 .. n \in FiniteSubsetsOf(Nat)
    <3>1. IsFiniteSet(0 .. n)
      BY FS_Interval
    <3>2. 0 .. n \in SUBSET Nat
      OBVIOUS
    <3> QED
      BY <3>1, <3>2 DEF FiniteSubsetsOf
  <2> QED
    BY <2>1
<1>3. PICK s \in F : \A t \in F : ~(<<t, s>> \in StrictSubsetOrdering(Nat))
  <2> HIDE DEF F
  <2> QED
    BY <1>1, <1>2, WFMin
<1>4. PICK n \in T : s = 0 .. n
  OBVIOUS
<1>5. ASSUME NEW m \in T, m < n
      PROVE  FALSE
  <2>1. 0 .. m \in F /\ 0 .. m \in SUBSET Nat /\ 0 .. n \in SUBSET Nat
    OBVIOUS
  <2>2. 0 .. m \subseteq 0 .. n /\ n \in 0 .. n /\ n \notin 0 .. m
    BY <1>5
  <2> QED
    BY <1>3, <1>4, <2>1, <2>2 DEF StrictSubsetOrdering
<1> QED
  BY <1>5

\* Induction: a set with 0 and every successor has all natural numbers.
LEMMA SetInduction ==
  ASSUME NEW S \in SUBSET Nat, 0 \in S, \A n \in S : n + 1 \in S
  PROVE  S = Nat
<1> SUFFICES ASSUME S # Nat
             PROVE  FALSE
  OBVIOUS
<1>1. Nat \ S \in SUBSET Nat /\ Nat \ S # {}
  OBVIOUS
<1>2. PICK n \in Nat \ S : \A m \in Nat \ S : n <= m
  BY <1>1, LeastOfSet
<1>3. n # 0 /\ n - 1 \in Nat /\ n = (n - 1) + 1
  BY <1>2
<1>4. n - 1 \in S
  BY <1>2, <1>3
<1> QED
  BY <1>2, <1>3, <1>4

-----------------------------------------------------------------------------
(* Loops *)

\* A loop of n turns T from v has a value after each of them.
Runs(W, n, v, T) ==
  \E f \in [0 .. n -> W] : f[0] = v /\ \A i \in 1 .. n : f[i] = T[i][f[i - 1]]

\* It does when its turns stay in W.
LEMMA LoopRuns ==
  ASSUME NEW W, NEW n \in Nat, NEW v \in W, NEW T, \A i \in 1 .. n, a \in W : T[i][a] \in W
  PROVE  Runs(W, n, v, T)
<1> DEFINE Is(f, m) == f[0] = v /\ \A i \in 1 .. m : f[i] = T[i][f[i - 1]]
           S == {m \in Nat : m <= n => \E f \in [0 .. m -> W] : Is(f, m)}
<1>1. 0 \in S
  <2> DEFINE f == [i \in 0 .. 0 |-> v]
  <2>1. f \in [0 .. 0 -> W] /\ Is(f, 0)
    OBVIOUS
  <2> QED
    BY <2>1
<1>2. ASSUME NEW m \in S
      PROVE  m + 1 \in S
  <2> SUFFICES ASSUME m + 1 <= n
               PROVE  \E h \in [0 .. m + 1 -> W] : Is(h, m + 1)
    <3> HIDE DEF Is
    <3> QED
      OBVIOUS
  <2>1. PICK f \in [0 .. m -> W] : Is(f, m)
    OBVIOUS
  <2> DEFINE g == [i \in 0 .. m + 1 |-> IF i = m + 1 THEN T[m + 1][f[m]] ELSE f[i]]
  <2>2. m \in 0 .. m /\ f[m] \in W /\ m + 1 \in 1 .. n
    OBVIOUS
  <2>3. T[m + 1][f[m]] \in W
    BY <2>2
  <2>4. g \in [0 .. m + 1 -> W]
    BY <2>3
  <2>5. g[0] = v
    BY <2>1
  <2>6. ASSUME NEW i \in 1 .. m + 1
        PROVE  g[i] = T[i][g[i - 1]]
    <3>1. i \in 0 .. m + 1 /\ i - 1 \in 0 .. m /\ g[i - 1] = f[i - 1]
      OBVIOUS
    <3>2. CASE i = m + 1
      BY <3>1, <3>2
    <3>3. CASE i # m + 1
      <4>1. i \in 1 .. m /\ g[i] = f[i]
        BY <3>3
      <4> QED
        BY <2>1, <3>1, <4>1
    <3> QED
      BY <3>2, <3>3
  <2> HIDE DEF g
  <2> QED
    BY <2>4, <2>5, <2>6
<1>3. S = Nat
  <2> HIDE DEF S
  <2>1. S \in SUBSET Nat
    BY DEF S
  <2> QED
    BY <1>1, <1>2, <2>1, SetInduction
<1> QED
  BY <1>3 DEF Runs

\* A loop whose turns stay in W ends in W.
LEMMA LoopStays ==
  ASSUME NEW W, NEW n \in Nat, NEW f, f[0] \in W,
         \A i \in 1 .. n : f[i - 1] \in W => f[i] \in W
  PROVE  f[n] \in W
<1> DEFINE S == {m \in Nat : m <= n => f[m] \in W}
<1>1. 0 \in S
  OBVIOUS
<1>2. ASSUME NEW m \in S
      PROVE  m + 1 \in S
  <2> SUFFICES ASSUME m + 1 <= n
               PROVE  f[m + 1] \in W
    OBVIOUS
  <2>1. f[m] \in W /\ m + 1 \in 1 .. n /\ (m + 1) - 1 = m
    OBVIOUS
  <2> QED
    BY <2>1
<1>3. S = Nat
  <2> HIDE DEF S
  <2>1. S \in SUBSET Nat
    BY DEF S
  <2> QED
    BY <1>1, <1>2, <2>1, SetInduction
<1> QED
  BY <1>3

\* A loop whose first turn ends in W, and whose others do not leave it, ends in W.
LEMMA LoopEnds ==
  ASSUME NEW W, NEW n \in Nat, n > 0, NEW f, f[1] \in W,
         \A i \in 2 .. n : f[i - 1] \in W => f[i] \in W
  PROVE  f[n] \in W
<1> DEFINE h == [i \in 0 .. n - 1 |-> f[i + 1]]
<1>1. n - 1 \in Nat /\ h[0] = f[1] /\ h[n - 1] = f[n]
  OBVIOUS
<1>2. ASSUME NEW i \in 1 .. n - 1, h[i - 1] \in W
      PROVE  h[i] \in W
  <2>1. i + 1 \in 2 .. n /\ h[i] = f[i + 1] /\ h[i - 1] = f[(i + 1) - 1]
    BY <1>1
  <2> HIDE DEF h
  <2> QED
    BY <1>2, <2>1
<1> HIDE DEF h
<1>3. h[n - 1] \in W
  BY <1>1, <1>2, LoopStays
<1> QED
  BY <1>1, <1>3

-----------------------------------------------------------------------------
(* The record of the driver *)

Toggles == [in : {0, 1}, out : {0, 1}]
Phases == {"cbw", "read", "write", "csw", "stall", "failed"}
Codes == {"OK", "NODEV", "TIMEDOUT", "ERR", "KEPT"}
Cell == (Device \X (0 .. NSect - 1)) \cup Value
Datum == Cell \cup {<<None, NSect>>}
Media == [Device -> [0 .. NSect - 1 -> Cell]]
Handles == [usb_fd : BOOLEAN, buffer : BOOLEAN, size : {0, NSect}]
DevSet == [enabled : BOOLEAN, addr : 0 .. 2, conf : BOOLEAN, tog : Toggles, ph : Phases,
           ua : BOOLEAN]
UsbSet ==
  [id : 0 .. 2, known : BOOLEAN, tog : Toggles, handshake_mode : {0, 1},
   unplug_device : BOOLEAN, usbfd : Handles, mounted : BOOLEAN, ums_init_done : BOOLEAN,
   old_udd : {Model[d] : d \in Device} \cup {None}, allocs : Int, hung : BOOLEAN,
   udd : BOOLEAN, refreed : BOOLEAN,
   port : Device \cup {None}, port_owner : BOOLEAN, dev : DevSet, media : Media,
   fault : {"none"} \cup Faults, left : Nat, res : Codes, status : {0, 1}, data : Seq(Datum),
   refused : BOOLEAN]

\* No device is at work at a port that shows none.
Out(w) == (w.port = None => ~w.dev.enabled) /\ (w.port_owner => ~w.dev.enabled)

\* What only mounting and unmounting change, and what a call never takes back.
Carried(w, x) ==
  /\ x.mounted = w.mounted /\ x.ums_init_done = w.ums_init_done
  /\ x.handshake_mode = w.handshake_mode
  /\ x.port \in {w.port, None}
  /\ w.unplug_device => x.unplug_device
  /\ w.hung => x.hung
  /\ w.refused => x.refused
  /\ w.fault = "none" => x.fault = "none"
  /\ Out(w) => Out(x)

\* A call that writes nothing to any device.
Kept(w, x) == Carried(w, x) /\ x.media = w.media

Drove(w) ==
  {x \in UsbSet : Carried(w, x) /\ x.allocs = w.allocs /\ x.usbfd = w.usbfd /\ x.old_udd = w.old_udd}
Same(w) == {x \in Drove(w) : x.media = w.media}

\* A SCSI command that stays on the disk.
CmdOK(cmd) ==
  /\ cmd.op \in {"tur", "sense", "inquiry", "capacity", "read", "write"}
  /\ cmd.n \in Nat
  /\ cmd.op = "read" => cmd.sector \in Nat /\ cmd.sector + cmd.n <= NSect
  /\ cmd.op = "write" => cmd.sector \in Nat /\ cmd.data \in Seq(Value) /\ Len(cmd.data) = cmd.n

\* A transfer of the driver.
UrbOK(u) ==
  \/ /\ u.ep = "control"
     /\ u.req = "address" => u.val \in 0 .. 2
     /\ u.req = "halt" => u.val \in {"control", "in", "out"}
  \/ /\ u.ep = "out" /\ u.n \in Nat
     /\ u.req \in {"cbw", "data"} => CmdOK(u.val)
     /\ u.req = "data" => u.val.op = "write"
  \/ u.ep = "in" /\ u.req \in {"data", "csw"} /\ u.n \in Nat /\ CmdOK(u.val)

\* Of itself a record is a result, and results compose.
LEMMA SameRefl ==
  ASSUME NEW w \in UsbSet
  PROVE  w \in Same(w)
BY DEF Same, Drove, Kept, Carried, Out, UsbSet

\* Functions of the driver that are called one after the other.
LEMMA SameTrans ==
  ASSUME NEW w, NEW x \in Same(w), NEW y \in Same(x)
  PROVE  y \in Same(w)
BY DEF Same, Drove, Kept, Carried

\* A call that may write to the device at the port.
LEMMA DroveTrans ==
  ASSUME NEW w, NEW x \in Drove(w), NEW y \in Drove(x)
  PROVE  y \in Drove(w)
BY DEF Drove, Carried

\* One that does not is one that may.
LEMMA SameDrove ==
  ASSUME NEW w, NEW x \in Same(w)
  PROVE  x \in Drove(w) /\ x.media = w.media
BY DEF Same

\* The result of a call is typed.
LEMMA SameTyped ==
  ASSUME NEW w, NEW x \in Same(w)
  PROVE  x \in UsbSet
BY DEF Same, Drove, Kept, Carried

\* A result that is set or cleared.
LEMMA FailSame ==
  ASSUME NEW w \in UsbSet, NEW r \in Codes
  PROVE  Fail(w, r) \in Same(w)
BY DEF Fail, Same, Drove, Kept, Carried, Out, UsbSet

\* An error that is passed over.
LEMMA GoSame ==
  ASSUME NEW w \in UsbSet
  PROVE  Go(w) \in Same(w)
BY DEF Go, Same, Drove, Kept, Carried, Out, UsbSet, Codes

\* No answer.
LEMMA SilentSame ==
  ASSUME NEW w \in UsbSet
  PROVE  Gone(w) \in Same(w) /\ Silent(w) \in Same(w)
<1>1. Gone(w) \in Same(w)
  <2> DEFINE x == [w EXCEPT !.unplug_device = TRUE]
  <2>1. x \in UsbSet
    BY DEF UsbSet
  <2>2. x \in Same(w)
    BY <2>1 DEF Same, Drove, Kept, Carried, Out, UsbSet
  <2> HIDE DEF x
  <2>3. Fail(x, "NODEV") \in Same(x)
    BY <2>1, FailSame DEF Codes
  <2> QED
    BY <2>2, <2>3, SameTrans DEF Gone, x
<1>2. Fail(w, "TIMEDOUT") \in Same(w)
  BY FailSame DEF Codes
<1> QED
  BY <1>1, <1>2 DEF Silent

\* Toggles stay toggles.
LEMMA FlipTyped ==
  ASSUME NEW t \in {0, 1}, NEW n \in Nat
  PROVE  Flip(t, n) \in {0, 1} /\ Flip(t, 1) \in {0, 1} \ {t}
BY DEF Flip

\* The transfer that goes wrong is counted.
LEMMA CountedSame ==
  ASSUME NEW w \in UsbSet
  PROVE  Counted(w) \in Same(w)
<1>1. w.left \in Nat /\ w.fault \in {"none"} \cup Faults
  BY DEF UsbSet
<1>0. ASSUME NEW n \in Nat
      PROVE  [w EXCEPT !.left = n] \in Same(w)
  BY DEF Same, Drove, Kept, Carried, Out, UsbSet
<1>6. [w EXCEPT !.fault = "none"] \in Same(w)
  BY DEF Same, Drove, Kept, Carried, Out, UsbSet
<1>2. CASE w.fault = "none"
  <2>1. Counted(w) = [w EXCEPT !.left = w.left + 1] /\ w.left + 1 \in Nat
    BY <1>1, <1>2 DEF Counted
  <2> QED
    BY <1>0, <2>1
<1>3. CASE w.fault # "none" /\ w.left > 0
  <2>1. Counted(w) = [w EXCEPT !.left = w.left - 1] /\ w.left - 1 \in Nat
    BY <1>1, <1>3 DEF Counted
  <2> QED
    BY <1>0, <2>1
<1>4. CASE w.fault # "none" /\ w.left = 0 /\ w.fault = "gone"
  <2> DEFINE x == [w EXCEPT !.fault = "none"]
             y == [x EXCEPT !.port = None, !.dev = Dark]
  <2>1. Counted(w) = y
    BY <1>4 DEF Counted, Unplugged
  <2>2. Dark \in DevSet /\ ~Dark.enabled
    BY DEF Dark, DevSet, Toggles, Phases
  <2>3. x \in Same(w) /\ x \in UsbSet
    BY <1>6, SameTyped
  <2> HIDE DEF Dark, x
  <2>4. y \in UsbSet
    BY <2>2, <2>3 DEF UsbSet
  <2>5. y \in Same(x)
    BY <2>2, <2>3, <2>4 DEF Same, Drove, Kept, Carried, Out, UsbSet
  <2> QED
    BY <2>1, <2>3, <2>5, SameTrans
<1>5. CASE w.fault # "none" /\ w.left = 0 /\ w.fault # "gone"
  <2>1. Counted(w) = [w EXCEPT !.fault = "none"] \/ Counted(w) = w
    BY <1>5 DEF Counted
  <2> QED
    BY <1>6, <2>1, SameRefl
<1> QED
  BY <1>1, <1>2, <1>3, <1>4, <1>5

-----------------------------------------------------------------------------
(* Transfers *)

\* Another state of the device at the port.
LEMMA DeviceSame ==
  ASSUME NEW x \in UsbSet, Seen(x), NEW d \in DevSet
  PROVE  /\ [x EXCEPT !.dev = d] \in Same(x) /\ [x EXCEPT !.dev = d] \in UsbSet
         /\ [x EXCEPT !.dev = d].dev = d /\ [x EXCEPT !.dev = d].data = x.data
         /\ [x EXCEPT !.dev = d].media = x.media /\ [x EXCEPT !.dev = d].port = x.port
<1> DEFINE y == [x EXCEPT !.dev = d]
<1>1. y \in UsbSet
  BY DEF UsbSet
<1>2. /\ y.dev = d /\ y.data = x.data /\ y.media = x.media /\ y.port = x.port
      /\ y.allocs = x.allocs /\ y.usbfd = x.usbfd /\ y.old_udd = x.old_udd
  BY DEF UsbSet
<1>3. Carried(x, y)
  BY DEF Carried, Out, Seen, UsbSet
<1> HIDE DEF y
<1>4. y \in Same(x)
  BY <1>1, <1>2, <1>3 DEF Same, Drove
<1> QED
  BY <1>1, <1>2, <1>4 DEF y

\* Other toggles of the driver.
LEMMA DriverTogglesSame ==
  ASSUME NEW x \in UsbSet, NEW t \in Toggles
  PROVE  [x EXCEPT !.tog = t] \in Same(x) /\ [x EXCEPT !.tog = t] \in UsbSet
<1> DEFINE y == [x EXCEPT !.tog = t]
<1>1. y \in UsbSet
  BY DEF UsbSet
<1>2. /\ y.media = x.media /\ y.allocs = x.allocs /\ y.usbfd = x.usbfd /\ y.old_udd = x.old_udd
  BY DEF UsbSet
<1>3. Carried(x, y)
  BY DEF Carried, Out, UsbSet
<1> HIDE DEF y
<1> QED
  BY <1>1, <1>2, <1>3 DEF Same, Drove, y

\* A control message.
LEMMA ControlSame ==
  ASSUME NEW x \in UsbSet, Seen(x), NEW u, u.ep = "control", UrbOK(u)
  PROVE  ControlStage(x, u) \in Same(x)
<1>1. u.req = "address" => u.val \in 0 .. 2
  BY DEF UrbOK
<1>2. u.req = "halt" => u.val \in {"control", "in", "out"}
  BY DEF UrbOK
<1>3. x.dev \in DevSet
  BY DEF UsbSet
<1>4. ASSUME NEW d \in DevSet
      PROVE  [x EXCEPT !.dev = d] \in Same(x)
  BY DeviceSame
<1>5. CASE u.req = "identify"
  <2>1. ControlStage(x, u) = [x EXCEPT !.known = TRUE]
    BY <1>5 DEF ControlStage
  <2> DEFINE y == [x EXCEPT !.known = TRUE]
  <2>2. y \in UsbSet
    BY DEF UsbSet
  <2>3. /\ y.media = x.media /\ y.allocs = x.allocs /\ y.usbfd = x.usbfd
        /\ y.old_udd = x.old_udd
    BY DEF UsbSet
  <2>4. Carried(x, y)
    BY DEF Carried, Out, UsbSet
  <2> HIDE DEF y
  <2> QED
    BY <2>1, <2>2, <2>3, <2>4 DEF Same, Drove, y
<1>6. CASE u.req = "address"
  <2>1. ControlStage(x, u) = [x EXCEPT !.dev = [x.dev EXCEPT !.addr = u.val]]
    BY <1>6 DEF ControlStage, UsbSet, DevSet
  <2>2. [x.dev EXCEPT !.addr = u.val] \in DevSet
    BY <1>1, <1>3, <1>6 DEF DevSet
  <2> QED
    BY <1>4, <2>1, <2>2
<1>7. CASE u.req = "configuration"
  <2> DEFINE d == [x.dev EXCEPT !.conf = TRUE, !.ph = "cbw", !.tog = [in |-> 0, out |-> 0]]
  <2>1. ControlStage(x, u) = [x EXCEPT !.dev = d]
    BY <1>7 DEF ControlStage, UsbSet, DevSet
  <2>2. d \in DevSet
    BY <1>3 DEF DevSet, Phases, Toggles
  <2> QED
    BY <1>4, <2>1, <2>2
<1>8. CASE u.req = "halt" /\ u.val # "control"
  <2> DEFINE d == [x.dev EXCEPT !.tog = [x.dev.tog EXCEPT ![u.val] = 0]]
  <2>1. ControlStage(x, u) = [x EXCEPT !.dev = d]
    BY <1>8 DEF ControlStage, UsbSet, DevSet
  <2>2. d \in DevSet
    BY <1>2, <1>3, <1>8 DEF DevSet, Toggles
  <2> QED
    BY <1>4, <2>1, <2>2
<1>9. CASE u.req = "storage_reset"
  <2>1. ControlStage(x, u) = [x EXCEPT !.dev = [x.dev EXCEPT !.ph = "cbw"]]
    BY <1>9 DEF ControlStage, UsbSet, DevSet
  <2>2. [x.dev EXCEPT !.ph = "cbw"] \in DevSet
    BY <1>3 DEF DevSet, Phases
  <2> QED
    BY <1>4, <2>1, <2>2
<1>10. CASE /\ u.req \notin {"identify", "address", "configuration", "storage_reset"}
            /\ ~(u.req = "halt" /\ u.val # "control")
  <2>1. ControlStage(x, u) = x
    BY <1>10 DEF ControlStage
  <2> QED
    BY <2>1, SameRefl
<1> QED
  BY <1>5, <1>6, <1>7, <1>8, <1>9, <1>10

\* Other toggles of the driver, and another state of the device.
LEMMA TogglesSame ==
  ASSUME NEW x \in UsbSet, Seen(x), NEW t \in Toggles, NEW d \in DevSet
  PROVE  [x EXCEPT !.tog = t, !.dev = d] \in Same(x)
<1> DEFINE y == [x EXCEPT !.tog = t]
<1>1. y \in Same(x) /\ y \in UsbSet
  BY DriverTogglesSame
<1>2. Seen(y)
  BY DEF Seen, UsbSet
<1>3. [x EXCEPT !.tog = t, !.dev = d] = [y EXCEPT !.dev = d]
  BY DEF UsbSet
<1> HIDE DEF y
<1>4. [y EXCEPT !.dev = d] \in Same(y)
  BY <1>1, <1>2, DeviceSame
<1> QED
  BY <1>1, <1>3, <1>4, SameTrans

\* The sectors from s on; what the device at the port holds after a command that writes.
Holds(m, s, n) == [i \in 1 .. n |-> m[s + i - 1]]
Overwritten(old, cmd) ==
  [s \in 0 .. NSect - 1 |-> IF s - cmd.sector \in 0 .. cmd.n - 1
                           THEN cmd.data[s - cmd.sector + 1] ELSE old[s]]
Stored(w, cmd) == [w.media EXCEPT ![w.port] = Overwritten(w.media[w.port], cmd)]

\* What a command tells when it succeeds.
Answered(w, cmd, data) ==
  /\ cmd.op = "capacity" => data = <<<<None, NSect>>>>
  /\ cmd.op = "read" => data = Holds(w.media[w.port], cmd.sector, cmd.n)

\* Of all transfers only the data of a command that writes changes what a device holds.
Stores(u) == u.ep = "out" /\ u.req = "data"
Wrote(w, u, x) == x.media = w.media \/ (Stores(u) /\ x.media = Stored(w, u.val))

\* A command that the device cannot do.
LEMMA RefuseSame ==
  ASSUME NEW x \in UsbSet, Seen(x), NEW cmd, CmdOK(cmd)
  PROVE  Refuse(x, cmd) \in Same(x) /\ Refuse(x, cmd).dev.ph = "failed"
<1> DEFINE d == [x.dev EXCEPT !.ph = "failed"]
           data == IF cmd.op = "read" THEN Junk(cmd.n) ELSE x.data
           y == [x EXCEPT !.dev = d]
           z == [y EXCEPT !.fault = "none", !.data = data]
<1>1. x.dev \in DevSet /\ x.data \in Seq(Datum)
  BY DEF UsbSet
<1>2. d \in DevSet /\ d.ph = "failed"
  BY <1>1 DEF DevSet, Phases
<1>3. data \in Seq(Datum)
  <2>1. cmd.n \in Nat /\ <<None, NSect>> \in Datum
    BY DEF CmdOK, Datum
  <2>2. Junk(cmd.n) \in Seq(Datum)
    BY <2>1 DEF Junk
  <2> QED
    BY <1>1, <2>2
<1>4. Refuse(x, cmd) = z
  BY <1>1 DEF Refuse, UsbSet, DevSet
<1> HIDE DEF d, data
<1>5. y \in Same(x) /\ y \in UsbSet /\ y.dev = d
  BY <1>2, DeviceSame
<1> HIDE DEF y
<1>6. z \in Same(y) /\ z.dev = y.dev
  <2>1. z \in UsbSet
    BY <1>3, <1>5 DEF UsbSet
  <2>2. /\ z.media = y.media /\ z.allocs = y.allocs /\ z.usbfd = y.usbfd
        /\ z.old_udd = y.old_udd /\ z.dev = y.dev
    BY <1>5 DEF UsbSet
  <2>3. Carried(y, z)
    BY <1>5 DEF Carried, Out, UsbSet
  <2> HIDE DEF z
  <2> QED
    BY <2>1, <2>2, <2>3 DEF Same, Drove
<1> HIDE DEF z
<1> QED
  BY <1>2, <1>4, <1>5, <1>6, SameTrans

\* What is written to the device at the port.
LEMMA StoreDrove ==
  ASSUME NEW x \in UsbSet, Seen(x), NEW cmd, CmdOK(cmd), cmd.op = "write"
  PROVE  /\ Store(x, cmd) \in Drove(x)
         /\ \/ Store(x, cmd).media = x.media /\ Store(x, cmd).dev.ph \in {"stall", "failed"}
            \/ Store(x, cmd).media = Stored(x, cmd)
<1>1. x.dev \in DevSet /\ x.port \in Device /\ x.media \in Media
  BY DEF Seen, UsbSet
<1>2. CASE x.dev.ph # "write"
  <2>1. Store(x, cmd) = [x EXCEPT !.dev = [x.dev EXCEPT !.ph = "stall"]]
    BY <1>2 DEF Store, UsbSet, DevSet
  <2>2. [x.dev EXCEPT !.ph = "stall"] \in DevSet
    BY <1>1 DEF DevSet, Phases
  <2> DEFINE d == [x.dev EXCEPT !.ph = "stall"]
             y == [x EXCEPT !.dev = d]
  <2>3. d.ph = "stall"
    BY <1>1 DEF DevSet
  <2> HIDE DEF d
  <2>4. y \in Same(x) /\ y.media = x.media /\ y.dev = d
    BY <2>2, DeviceSame DEF d
  <2>5. Store(x, cmd) = y
    BY <2>1 DEF d
  <2> HIDE DEF y
  <2> QED
    BY <2>3, <2>4, <2>5, SameDrove
<1>4. CASE x.dev.ph = "write" /\ CannotDo(x, cmd)
  <2>1. Store(x, cmd) = Refuse(x, cmd)
    BY <1>4 DEF Store
  <2>2. Refuse(x, cmd) \in Same(x) /\ Refuse(x, cmd).dev.ph = "failed"
    BY RefuseSame
  <2> QED
    BY <2>1, <2>2, SameDrove
<1>3. CASE x.dev.ph = "write" /\ ~CannotDo(x, cmd)
  <2> DEFINE old == x.media[x.port]
             new == [s \in DOMAIN old |-> IF s - cmd.sector \in 0 .. cmd.n - 1
                                          THEN cmd.data[s - cmd.sector + 1] ELSE old[s]]
             d == [x.dev EXCEPT !.ph = "csw"]
             m == [x.media EXCEPT ![x.port] = new]
  <2>1. Store(x, cmd) = [x EXCEPT !.dev = d, !.media = m]
    BY <1>3 DEF Store, UsbSet, DevSet
  <2>2. d \in DevSet
    BY <1>1 DEF DevSet, Phases
  <2>3. old \in [0 .. NSect - 1 -> Cell] /\ NSect \in Nat
    BY <1>1, UsbStorageAssumption DEF Media
  <2>4. ASSUME NEW s \in 0 .. NSect - 1, s - cmd.sector \in 0 .. cmd.n - 1
        PROVE  cmd.data[s - cmd.sector + 1] \in Cell
    <3>1. cmd.data \in Seq(Value) /\ Len(cmd.data) = cmd.n /\ cmd.sector \in Nat /\ cmd.n \in Nat
      BY DEF CmdOK
    <3>2. s - cmd.sector + 1 \in 1 .. Len(cmd.data)
      BY <2>3, <2>4, <3>1
    <3> QED
      BY <3>1, <3>2 DEF Cell
  <2>5. new \in [0 .. NSect - 1 -> Cell]
    BY <2>3, <2>4
  <2>6. m \in Media
    BY <1>1, <2>5 DEF Media
  <2>7. m = Stored(x, cmd)
    <3>1. DOMAIN old = 0 .. NSect - 1
      BY <2>3
    <3> QED
      BY <3>1 DEF Stored, Overwritten
  <2>8. d.enabled = x.dev.enabled
    BY <1>1 DEF DevSet
  <2> DEFINE y == [x EXCEPT !.dev = d, !.media = m]
  <2> HIDE DEF d, m
  <2>9. y \in UsbSet
    BY <2>2, <2>6 DEF UsbSet
  <2>10. /\ y.media = m /\ y.allocs = x.allocs /\ y.usbfd = x.usbfd
         /\ y.old_udd = x.old_udd
    BY DEF UsbSet
  <2>11. Carried(x, y)
    BY <2>8 DEF Carried, Out, UsbSet
  <2> HIDE DEF y
  <2> QED
    BY <2>1, <2>7, <2>9, <2>10, <2>11 DEF Drove, y
<1> QED
  BY <1>2, <1>3, <1>4

\* What is read from the device at the port.
LEMMA SupplySame ==
  ASSUME NEW x \in UsbSet, Seen(x), NEW cmd, CmdOK(cmd)
  PROVE  /\ Supply(x, cmd) \in Same(x)
         /\ \/ Answered(x, cmd, Supply(x, cmd).data)
            \/ cmd.op # "capacity" /\ Supply(x, cmd).dev.ph = "failed"
<1>1. x.dev \in DevSet /\ x.port \in Device /\ x.media \in Media /\ x.data \in Seq(Datum)
  BY DEF Seen, UsbSet
<1>2. ASSUME NEW data \in Seq(Datum)
      PROVE  [x EXCEPT !.data = data] \in Same(x)
  BY DEF Same, Drove, Kept, Carried, Out, UsbSet
<1>7. CASE CannotDo(x, cmd)
  <2>1. Supply(x, cmd) = Refuse(x, cmd) /\ cmd.op # "capacity"
    BY <1>7 DEF Supply, CannotDo
  <2>2. Refuse(x, cmd) \in Same(x) /\ Refuse(x, cmd).dev.ph = "failed"
    BY RefuseSame
  <2> QED
    BY <2>1, <2>2
<1>8. cmd.op \notin {"read", "write"} => ~CannotDo(x, cmd)
  BY DEF CannotDo
<1>3. CASE cmd.op = "read" /\ ~CannotDo(x, cmd)
  <2> DEFINE data == [i \in 1 .. cmd.n |-> x.media[x.port][cmd.sector + i - 1]]
  <2>1. Supply(x, cmd) = [x EXCEPT !.data = data]
    BY <1>3 DEF Supply
  <2>2. NSect \in Nat /\ cmd.n \in Nat /\ cmd.sector \in Nat /\ cmd.sector + cmd.n <= NSect
    BY <1>3, UsbStorageAssumption DEF CmdOK
  <2>3. ASSUME NEW i \in 1 .. cmd.n
        PROVE  x.media[x.port][cmd.sector + i - 1] \in Datum
    <3>1. cmd.sector + i - 1 \in 0 .. NSect - 1
      BY <2>2
    <3>2. x.media[x.port] \in [0 .. NSect - 1 -> Cell]
      BY <1>1 DEF Media
    <3> QED
      BY <3>1, <3>2 DEF Datum
  <2>4. data \in Seq(Datum)
    BY <2>2, <2>3
  <2>5. data = Holds(x.media[x.port], cmd.sector, cmd.n)
    BY DEF Holds
  <2>6. Supply(x, cmd).data = data
    BY <2>1 DEF UsbSet
  <2> HIDE DEF data
  <2> QED
    BY <1>2, <1>3, <2>1, <2>4, <2>5, <2>6 DEF Answered
<1>4. CASE cmd.op = "capacity"
  <2>1. Supply(x, cmd) = [x EXCEPT !.data = <<<<None, NSect>>>>]
    BY <1>4, <1>8 DEF Supply
  <2>2. <<<<None, NSect>>>> \in Seq(Datum)
    BY DEF Datum
  <2>3. Supply(x, cmd).data = <<<<None, NSect>>>>
    BY <2>1 DEF UsbSet
  <2> QED
    BY <1>2, <1>4, <2>1, <2>2, <2>3 DEF Answered
<1>5. CASE cmd.op = "sense"
  <2>1. Supply(x, cmd) = [x EXCEPT !.dev = [x.dev EXCEPT !.ua = FALSE]]
    BY <1>5, <1>8 DEF Supply, UsbSet, DevSet
  <2>2. [x.dev EXCEPT !.ua = FALSE] \in DevSet
    BY <1>1 DEF DevSet
  <2> QED
    BY ZenonT(40), <1>5, <2>1, <2>2, DeviceSame DEF Answered
<1>6. CASE cmd.op \notin {"read", "capacity", "sense"} /\ ~CannotDo(x, cmd)
  BY <1>6, SameRefl DEF Supply, Answered
<1> QED
  BY <1>3, <1>4, <1>5, <1>6, <1>7

\* The device takes a block.
LEMMA AcceptDrove ==
  ASSUME NEW x \in UsbSet, Seen(x), NEW u, u.ep = "out", UrbOK(u)
  PROVE  /\ Accept(x, u) \in Drove(x) /\ Wrote(x, u, Accept(x, u))
         /\ Stores(u) /\ Accept(x, u).dev.ph = "csw" => Accept(x, u).media = Stored(x, u.val)
<1>1. x.dev \in DevSet
  BY DEF UsbSet
<1>2. ASSUME NEW ph \in Phases
      PROVE  /\ [x EXCEPT !.dev = [x.dev EXCEPT !.ph = ph]] \in Drove(x)
             /\ [x EXCEPT !.dev = [x.dev EXCEPT !.ph = ph]].media = x.media
  <2>1. [x.dev EXCEPT !.ph = ph] \in DevSet
    BY <1>1 DEF DevSet
  <2> QED
    BY <1>1, <2>1 DEF Drove, Carried, Out, UsbSet, DevSet
<1>3. CASE u.req = "cbw"
  <2> DEFINE ph == IF x.dev.ph = "cbw" THEN Phase(u.val) ELSE "stall"
  <2>1. Accept(x, u) = [x EXCEPT !.dev = [x.dev EXCEPT !.ph = ph]]
    BY <1>3 DEF Accept, UsbSet, DevSet
  <2>2. ph \in Phases
    BY DEF Phase, Phases
  <2> HIDE DEF ph
  <2> QED
    BY <1>2, <1>3, <2>1, <2>2 DEF Wrote, Stores
<1>4. CASE u.req = "data"
  <2>1. CmdOK(u.val) /\ u.val.op = "write"
    BY <1>4 DEF UrbOK
  <2> QED
    BY <1>4, <2>1, StoreDrove DEF Accept, Wrote, Stores
<1>5. CASE u.req \notin {"cbw", "data"}
  <2>1. Accept(x, u) = [x EXCEPT !.dev = [x.dev EXCEPT !.ph = "stall"]]
    BY <1>5 DEF Accept, UsbSet, DevSet
  <2> QED
    BY <1>2, <1>5, <2>1 DEF Phases, Wrote, Stores
<1> QED
  BY <1>3, <1>4, <1>5

\* A transfer to the device.
LEMMA BulkOutDrove ==
  ASSUME NEW x \in UsbSet, Seen(x), NEW u, u.ep = "out", UrbOK(u)
  PROVE  /\ BulkOut(x, u) \in Drove(x) /\ Wrote(x, u, BulkOut(x, u))
         /\ Stores(u) /\ BulkOut(x, u).res = "OK" /\ BulkOut(x, u).dev.ph = "csw" =>
              BulkOut(x, u).media = Stored(x, u.val)
<1>1. x.dev \in DevSet /\ x.tog \in Toggles /\ u.n \in Nat
  BY DEF UsbSet, UrbOK
<1>2. x.tog.out \in {0, 1} /\ x.dev.tog \in Toggles /\ x.dev.tog.out \in {0, 1}
  BY <1>1 DEF DevSet, Toggles
<1> DEFINE t == [x.tog EXCEPT !.out = Flip(x.tog.out, u.n)]
           d == [x.dev EXCEPT !.tog = [x.dev.tog EXCEPT !.out = Flip(x.dev.tog.out, u.n)]]
<1>3. t \in Toggles
  BY <1>1, <1>2, FlipTyped DEF Toggles
<1>4. d \in DevSet
  <2>1. [x.dev.tog EXCEPT !.out = Flip(x.dev.tog.out, u.n)] \in Toggles
    BY <1>1, <1>2, FlipTyped DEF Toggles
  <2> QED
    BY <1>1, <2>1 DEF DevSet
<1>5. CASE x.dev.ph \notin {"cbw", "write"} \/ ~x.dev.conf
  <2>1. BulkOut(x, u) = Silent(x)
    BY <1>5 DEF BulkOut
  <2>2. Silent(x).res # "OK"
    BY DEF Silent, Gone, Fail, UsbSet
  <2> QED
    BY <2>1, <2>2, SilentSame, SameDrove DEF Wrote
<1>6. CASE ~(x.dev.ph \notin {"cbw", "write"} \/ ~x.dev.conf) /\ x.tog.out # x.dev.tog.out
  <2>1. BulkOut(x, u) = [x EXCEPT !.tog = t]
    BY <1>6 DEF BulkOut
  <2>2. BulkOut(x, u).dev = x.dev
    BY <2>1 DEF UsbSet
  <2> HIDE DEF t
  <2> QED
    BY <1>3, <1>6, <2>1, <2>2, DriverTogglesSame, SameDrove DEF Wrote
<1>7. CASE ~(x.dev.ph \notin {"cbw", "write"} \/ ~x.dev.conf) /\ x.tog.out = x.dev.tog.out
  <2> DEFINE y == [x EXCEPT !.tog = t, !.dev = d]
  <2>1. BulkOut(x, u) = Accept(y, u)
    BY <1>7 DEF BulkOut
  <2>2. y \in Drove(x) /\ y.media = x.media
    <3> HIDE DEF t, d
    <3>1. y \in Same(x)
      BY <1>3, <1>4, TogglesSame
    <3> HIDE DEF y
    <3> QED
      BY <3>1, SameDrove
  <2>3. y \in UsbSet /\ y.port = x.port /\ Seen(y)
    BY <2>2 DEF UsbSet, Drove, Seen
  <2> HIDE DEF y
  <2>4. Stored(y, u.val) = Stored(x, u.val)
    BY <2>2, <2>3 DEF Stored
  <2>5. /\ Accept(y, u) \in Drove(x) /\ Wrote(y, u, Accept(y, u))
        /\ Stores(u) /\ Accept(y, u).dev.ph = "csw" => Accept(y, u).media = Stored(y, u.val)
    BY <2>2, <2>3, AcceptDrove, DroveTrans
  <2> QED
    BY <1>7, <2>1, <2>2, <2>4, <2>5 DEF Wrote
<1> QED
  BY <1>5, <1>6, <1>7

\* A transfer from the device.  The capacity is what it tells when it succeeds.
LEMMA BulkInSame ==
  ASSUME NEW x \in UsbSet, Seen(x), NEW u, u.n \in Nat, CmdOK(u.val)
  PROVE  /\ BulkIn(x, u) \in Same(x)
         /\ BulkIn(x, u).res = "OK" =>
              \/ Answered(x, u.val, BulkIn(x, u).data)
              \/ u.val.op # "capacity" /\ BulkIn(x, u).dev.ph = "failed"
<1>1. x.dev \in DevSet /\ x.tog \in Toggles
  BY DEF UsbSet
<1>2. x.tog.in \in {0, 1} /\ x.dev.tog \in Toggles /\ x.dev.tog.in \in {0, 1}
  BY <1>1 DEF DevSet, Toggles
<1>3. ASSUME NEW ph \in Phases, NEW n \in Nat
      PROVE  [x.dev EXCEPT !.ph = ph, !.tog = [x.dev.tog EXCEPT !.in = Flip(x.dev.tog.in, n)]]
               \in DevSet
  <2>1. [x.dev.tog EXCEPT !.in = Flip(x.dev.tog.in, n)] \in Toggles
    BY <1>2, FlipTyped DEF Toggles
  <2> QED
    BY <1>1, <2>1 DEF DevSet
<1>4. ASSUME NEW n \in Nat
      PROVE  [x.tog EXCEPT !.in = Flip(x.tog.in, n)] \in Toggles
  BY <1>1, <1>2, FlipTyped DEF Toggles
<1>5. ASSUME NEW y \in Same(x)
      PROVE  Silent(y) \in Same(x) /\ Silent(y).res # "OK"
  <2>1. Silent(y) \in Same(x)
    BY SameTyped, SilentSame, SameTrans
  <2>2. Silent(y).res # "OK"
    BY DEF Silent, Gone, Fail, Same, Drove, Kept, UsbSet
  <2> QED
    BY <2>1, <2>2
<1>6. CASE x.dev.ph # "read"
  BY <1>5, <1>6, SameRefl DEF BulkIn
<1>7. CASE x.dev.ph = "read" /\ x.fault = "short" /\ x.left = 0
  <2> DEFINE t == [x.tog EXCEPT !.in = Flip(x.tog.in, 1)]
             d == [x.dev EXCEPT !.ph = "cbw", !.tog = [x.dev.tog EXCEPT !.in = Flip(x.dev.tog.in, 1)]]
             y == [x EXCEPT !.fault = "none", !.tog = t, !.dev = d]
  <2>1. BulkIn(x, u) = Silent(y)
    BY ZenonT(40), <1>7 DEF BulkIn, UsbSet, DevSet
  <2>2. t \in Toggles /\ d \in DevSet
    <3>1. "cbw" \in Phases /\ 1 \in Nat
      BY DEF Phases
    <3>2. t \in Toggles
      BY <1>4, <3>1
    <3>3. d \in DevSet
      BY <1>3, <3>1
    <3> QED
      BY <3>2, <3>3
  <2>3. y \in Same(x)
    <3> HIDE DEF t, d
    <3>1. y \in UsbSet
      BY <2>2 DEF UsbSet
    <3>2. /\ y.media = x.media /\ y.allocs = x.allocs /\ y.usbfd = x.usbfd
          /\ y.old_udd = x.old_udd
      BY DEF UsbSet
    <3>3. Carried(x, y)
      BY DEF Carried, Out, Seen, UsbSet
    <3> HIDE DEF y
    <3> QED
      BY <3>1, <3>2, <3>3 DEF Same, Drove
  <2> HIDE DEF y
  <2> QED
    BY <1>5, <2>1, <2>3
<1>8. CASE x.dev.ph = "read" /\ ~(x.fault = "short" /\ x.left = 0) /\ x.tog.in # x.dev.tog.in
  <2> DEFINE t == [x.tog EXCEPT !.in = Flip(x.tog.in, u.n)]
             d == [x.dev EXCEPT !.ph = "cbw",
                                !.tog = [x.dev.tog EXCEPT !.in = Flip(x.dev.tog.in, u.n + 1)]]
             y == [x EXCEPT !.tog = t, !.dev = d]
  <2>1. BulkIn(x, u) = Silent(y)
    BY <1>8 DEF BulkIn, UsbSet, DevSet
  <2>2. t \in Toggles /\ d \in DevSet
    <3>1. "cbw" \in Phases /\ u.n + 1 \in Nat
      BY DEF Phases
    <3>2. t \in Toggles
      BY <1>4
    <3>3. d \in DevSet
      BY <1>3, <3>1
    <3> QED
      BY <3>2, <3>3
  <2>3. y \in Same(x)
    BY <2>2, TogglesSame
  <2> HIDE DEF y
  <2> QED
    BY <1>5, <2>1, <2>3
<1>9. CASE x.dev.ph = "read" /\ ~(x.fault = "short" /\ x.left = 0) /\ x.tog.in = x.dev.tog.in
  <2> DEFINE t == [x.tog EXCEPT !.in = Flip(x.tog.in, u.n)]
             d == [x.dev EXCEPT !.ph = "csw",
                                !.tog = [x.dev.tog EXCEPT !.in = Flip(x.dev.tog.in, u.n)]]
             y == [x EXCEPT !.tog = t, !.dev = d]
  <2>1. BulkIn(x, u) = Supply(y, u.val)
    BY <1>9 DEF BulkIn, UsbSet, DevSet
  <2>2. t \in Toggles /\ d \in DevSet
    BY <1>3, <1>4 DEF Phases
  <2>3. y \in Same(x)
    BY <2>2, TogglesSame
  <2>4. y.port = x.port /\ y.media = x.media /\ Seen(y)
    BY DEF UsbSet, Seen
  <2> HIDE DEF y
  <2>5. /\ y \in UsbSet /\ Supply(y, u.val) \in Same(x)
        /\ \/ Answered(y, u.val, Supply(y, u.val).data)
           \/ u.val.op # "capacity" /\ Supply(y, u.val).dev.ph = "failed"
    BY <2>3, <2>4, SameTyped, SupplySame, SameTrans
  <2> QED
    BY <2>1, <2>4, <2>5 DEF Answered
<1> QED
  BY <1>6, <1>7, <1>8, <1>9

\* The status block that ends a command leaves what was read.
LEMMA StatusInSame ==
  ASSUME NEW x \in UsbSet, Seen(x), NEW u
  PROVE  /\ StatusIn(x, u) \in Same(x) /\ StatusIn(x, u).data = x.data
         /\ StatusIn(x, u).res = "OK" => x.dev.ph = "csw" \/ StatusIn(x, u).refused
<1>1. x.dev \in DevSet /\ x.tog \in Toggles
  BY DEF UsbSet
<1>2. x.tog.in \in {0, 1} /\ x.dev.tog \in Toggles /\ x.dev.tog.in \in {0, 1}
  BY <1>1 DEF DevSet, Toggles
<1> DEFINE t == [x.tog EXCEPT !.in = Flip(x.tog.in, 1)]
           d == [x.dev EXCEPT !.ph = "cbw", !.tog = [x.dev.tog EXCEPT !.in = Flip(x.dev.tog.in, 1)]]
<1>3. t \in Toggles /\ d \in DevSet
  <2>1. [x.dev.tog EXCEPT !.in = Flip(x.dev.tog.in, 1)] \in Toggles
    BY <1>2, FlipTyped DEF Toggles
  <2> QED
    BY <1>1, <1>2, <2>1, FlipTyped DEF Toggles, DevSet, Phases
<1>4. ASSUME NEW y \in Same(x), y.data = x.data
      PROVE  Silent(y) \in Same(x) /\ Silent(y).data = x.data
  <2>1. Silent(y) \in Same(x)
    BY SameTyped, SilentSame, SameTrans
  <2>2. Silent(y).data = y.data
    BY DEF Silent, Gone, Fail, Same, Drove, Kept, UsbSet
  <2> QED
    BY <1>4, <2>1, <2>2
<1>5. CASE x.dev.ph \notin {"csw", "failed"}
  <2>1. Silent(x).res # "OK"
    BY DEF Silent, Gone, Fail, UsbSet
  <2> QED
    BY <1>4, <1>5, <2>1, SameRefl DEF StatusIn
<1>6. CASE x.dev.ph \in {"csw", "failed"} /\ x.tog.in # x.dev.tog.in
  <2> DEFINE y == [x EXCEPT !.dev = d]
  <2>1. StatusIn(x, u) = Silent(y)
    BY <1>6 DEF StatusIn, UsbSet, DevSet
  <2>2. y \in Same(x) /\ y.data = x.data
    BY <1>3, DeviceSame
  <2> HIDE DEF y
  <2>3. Silent(y).res # "OK"
    BY <2>2 DEF Silent, Gone, Fail, UsbSet, Same, Drove
  <2> QED
    BY <1>4, <2>1, <2>2, <2>3
<1>7. CASE x.dev.ph \in {"csw", "failed"} /\ x.tog.in = x.dev.tog.in
  <2> DEFINE y == [x EXCEPT !.tog = t, !.dev = d]
             b == y.refused \/ x.dev.ph = "failed"
             s == IF u.val.op = "tur" /\ y.dev.ua THEN 1 ELSE 0
  <2>1. StatusIn(x, u) = IF y.fault = "bad" /\ y.left = 0
                         THEN Fail([y EXCEPT !.fault = "none"], "ERR")
                         ELSE [y EXCEPT !.refused = b, !.status = s]
    <3> DEFINE z == [x EXCEPT !.dev.ph = "cbw", !.tog.in = Flip(@, 1), !.dev.tog.in = Flip(@, 1)]
    <3>1. z = y
      BY DEF UsbSet, DevSet
    <3>2. StatusIn(x, u) = IF z.fault = "bad" /\ z.left = 0
                           THEN Fail([z EXCEPT !.fault = "none"], "ERR")
                           ELSE [z EXCEPT !.refused = z.refused \/ x.dev.ph = "failed",
                                          !.status = IF u.val.op = "tur" /\ z.dev.ua THEN 1 ELSE 0]
      BY <1>7 DEF StatusIn, With
    <3> HIDE DEF z
    <3> QED
      BY <3>1, <3>2
  <2>2. y \in Same(x)
    BY <1>3, TogglesSame
  <2>3. y.data = x.data
    BY DEF UsbSet
  <2>4. s \in {0, 1} /\ b \in BOOLEAN /\ (y.refused => b) /\ (x.dev.ph = "failed" => b)
    OBVIOUS
  <2> HIDE DEF y, s, b
  <2> DEFINE q == [y EXCEPT !.refused = b, !.status = s]
  <2>5. q \in Same(x) /\ q.data = x.data /\ q.refused = b
    <3>1. y \in UsbSet
      BY <2>2, SameTyped
    <3>2. q.refused = b /\ q.data = y.data
      BY <3>1 DEF UsbSet
    <3>3. q \in UsbSet
      BY <2>4, <3>1 DEF UsbSet
    <3>4. Carried(y, q)
      BY <2>4, <3>1 DEF Carried, Out, UsbSet
    <3>6. q.media = y.media /\ q.allocs = y.allocs /\ q.usbfd = y.usbfd /\ q.old_udd = y.old_udd
      BY <3>1 DEF UsbSet
    <3> HIDE DEF q
    <3>5. q \in Same(y)
      BY <3>3, <3>4, <3>6 DEF Same, Drove
    <3> QED
      BY <2>2, <2>3, <3>2, <3>5, SameTrans
  <2>6. [y EXCEPT !.fault = "none"] \in Same(x) /\ [y EXCEPT !.fault = "none"].data = x.data
    BY <2>2, <2>3 DEF Same, Drove, Kept, Carried, Out, UsbSet
  <2>7. ASSUME NEW z \in Same(x), z.data = x.data
        PROVE  Fail(z, "ERR") \in Same(x) /\ Fail(z, "ERR").data = x.data
    <3>1. Fail(z, "ERR") \in Same(x)
      BY SameTyped, FailSame, SameTrans DEF Codes
    <3>2. Fail(z, "ERR").data = z.data
      BY DEF Fail, Same, Drove, Kept, Carried, Out, UsbSet
    <3> QED
      BY <2>7, <3>1, <3>2
  <2>8. CASE y.fault = "bad" /\ y.left = 0
    <3>1. Fail([y EXCEPT !.fault = "none"], "ERR").res = "ERR"
      BY <2>2 DEF Fail, UsbSet, Same, Drove
    <3> QED
      BY <2>1, <2>6, <2>7, <2>8, <3>1
  <2>9. CASE ~(y.fault = "bad" /\ y.left = 0)
    BY <1>7, <2>1, <2>4, <2>5, <2>9
  <2> QED
    BY <2>8, <2>9
<1> QED
  BY <1>5, <1>6, <1>7

Capacity == <<<<None, NSect>>>>

\* Whatever a transfer is, the driver stays typed.  What it reads is what the device at
\* the port holds; the block that ends a command comes after all of its data.
Transferred(w, u, x) ==
  /\ x \in Drove(w) /\ Wrote(w, u, x) /\ (~Stores(u) => x \in Same(w))
  /\ Stores(u) /\ x.res = "OK" /\ x.dev.ph = "csw" => x.media = Stored(w, u.val)
  /\ u.ep = "in" /\ u.req = "data" /\ x.res = "OK" =>
       Answered(w, u.val, x.data) \/ (u.val.op # "capacity" /\ x.dev.ph = "failed")
  /\ u.ep = "in" /\ u.req = "csw" =>
       x.data = w.data /\ (x.res = "OK" => w.dev.ph = "csw" \/ x.refused)

\* The packets of a transfer.
LEMMA PacketsTransferred ==
  ASSUME NEW x \in UsbSet, Seen(x), NEW u, UrbOK(u)
  PROVE  Transferred(x, u, Packets(x, u))
<1>1. CASE u.ep = "control"
  BY <1>1, ControlSame, SameDrove DEF Packets, Transferred, Wrote, Stores
<1>2. CASE u.ep = "out"
  <2>1. Packets(x, u) = BulkOut(x, u)
    BY <1>2 DEF Packets
  <2>2. /\ BulkOut(x, u) \in Drove(x) /\ Wrote(x, u, BulkOut(x, u))
        /\ Stores(u) /\ BulkOut(x, u).res = "OK" /\ BulkOut(x, u).dev.ph = "csw" =>
             BulkOut(x, u).media = Stored(x, u.val)
    BY <1>2, BulkOutDrove
  <2> QED
    BY <1>2, <2>1, <2>2 DEF Transferred, Wrote, Same
<1>3. CASE u.ep = "in"
  <2>1. u.req \in {"data", "csw"} /\ u.n \in Nat /\ CmdOK(u.val)
    BY <1>3 DEF UrbOK
  <2>2. CASE u.req = "data"
    <3>1. Packets(x, u) = BulkIn(x, u)
      BY <1>3, <2>2 DEF Packets
    <3>2. /\ BulkIn(x, u) \in Same(x)
          /\ BulkIn(x, u).res = "OK" =>
               \/ Answered(x, u.val, BulkIn(x, u).data)
               \/ u.val.op # "capacity" /\ BulkIn(x, u).dev.ph = "failed"
      BY <2>1, BulkInSame
    <3> QED
      BY <1>3, <2>2, <3>1, <3>2, SameDrove DEF Transferred, Wrote, Stores
  <2>3. CASE u.req = "csw"
    <3>1. Packets(x, u) = StatusIn(x, u)
      BY <1>3, <2>3 DEF Packets
    <3>2. /\ StatusIn(x, u) \in Same(x) /\ StatusIn(x, u).data = x.data
          /\ StatusIn(x, u).res = "OK" => x.dev.ph = "csw" \/ StatusIn(x, u).refused
      BY StatusInSame
    <3> QED
      BY <1>3, <2>3, <3>1, <3>2, SameDrove DEF Transferred, Wrote, Stores
  <2> QED
    BY <2>1, <2>2, <2>3
<1> QED
  BY <1>1, <1>2, <1>3 DEF UrbOK

\* Before the transfer is counted and after it the device at the port is the same one, or
\* there is none.
LEMMA CountedThere ==
  ASSUME NEW w \in UsbSet, Counted(w).port # None
  PROVE  /\ Counted(w).port = w.port /\ Counted(w).dev = w.dev /\ Counted(w).tog = w.tog
         /\ Counted(w).id = w.id /\ Counted(w).media = w.media
BY DEF Counted, Unplugged, UsbSet

\* A transfer with what goes wrong in it.
LEMMA UrbTransferred ==
  ASSUME NEW w \in UsbSet, NEW id, NEW u, UrbOK(u)
  PROVE  Transferred(w, u, ehci_do_urb(w, id, u))
<1> DEFINE x == Counted(w)
           r == Exchange(x, id, u, Happens(w))
<1>1. x \in Same(w) /\ x \in UsbSet
  BY CountedSame, SameTyped
<1>2. x.data = w.data
  BY DEF Counted, Unplugged, UsbSet
<1>3. ASSUME NEW y \in UsbSet
      PROVE  /\ Silent(y) \in Same(y) /\ Silent(y).res # "OK" /\ Silent(y).data = y.data
             /\ Gone(y) \in Same(y) /\ Gone(y).res # "OK" /\ Gone(y).data = y.data
  <2>1. Silent(y) \in Same(y) /\ Gone(y) \in Same(y)
    BY SilentSame
  <2>2. Gone(y).res # "OK" /\ Gone(y).data = y.data
    BY DEF Gone, Fail, UsbSet
  <2>3. Silent(y).res # "OK" /\ Silent(y).data = y.data
    BY <2>2 DEF Silent, Fail, UsbSet
  <2> QED
    BY <2>1, <2>2, <2>3
<1>4. ehci_do_urb(w, id, u) = r
  BY DEF ehci_do_urb
<1>5. x.port # None => x.port = w.port /\ x.dev = w.dev /\ x.media = w.media
  BY CountedThere
<1> HIDE DEF x
<1>6. ASSUME NEW y \in Same(x), y.res # "OK", y.data = x.data
      PROVE  Transferred(w, u, y)
  <2>1. y \in Same(w)
    BY <1>1, <1>6, SameTrans
  <2> QED
    BY <1>2, <1>6, <2>1, SameDrove DEF Transferred, Wrote
<1>7. CASE ~Seen(x)
  BY <1>1, <1>3, <1>4, <1>6, <1>7 DEF Exchange
<1>10. Seen(x) => x.port # None
  BY DEF Seen
<1>8. CASE Seen(x) /\ (~x.dev.enabled \/ x.dev.addr # id \/ Happens(w) = "lost")
  BY <1>1, <1>3, <1>4, <1>6, <1>8 DEF Exchange
<1>9. CASE Seen(x) /\ ~(~x.dev.enabled \/ x.dev.addr # id \/ Happens(w) = "lost")
  <2> DEFINE p == Packets(x, u)
             q == Silent(Go(p))
  <2>1. r = IF Happens(w) = "late" THEN q ELSE p
    BY <1>9 DEF Exchange, With
  <2>2. Transferred(x, u, p)
    BY <1>1, <1>9, <1>10, PacketsTransferred
  <2> HIDE DEF p, r
  <2>3. Stored(x, u.val) = Stored(w, u.val)
        /\ \A data : Answered(x, u.val, data) => Answered(w, u.val, data)
    BY <1>5, <1>9, <1>10 DEF Stored, Answered
  <2>4. Transferred(w, u, p)
    BY <1>1, <1>2, <1>5, <1>9, <1>10, <2>2, <2>3, SameDrove, SameTrans, DroveTrans
       DEF Transferred, Wrote
  <2>5. p \in UsbSet
    BY <2>2 DEF Transferred, Drove
  <2>6. q \in Same(p) /\ q.res # "OK" /\ q.data = p.data
    <3>1. Go(p) \in Same(p) /\ Go(p) \in UsbSet /\ Go(p).data = p.data
      BY <2>5, GoSame, SameTyped DEF Go, UsbSet
    <3> QED
      BY <1>3, <3>1, SameTrans
  <2> HIDE DEF q
  <2>7. Transferred(w, u, q)
    BY <2>4, <2>6, SameDrove, SameTrans, DroveTrans DEF Transferred, Wrote
  <2> QED
    BY <1>4, <2>1, <2>4, <2>7
<1> QED
  BY <1>7, <1>8, <1>9

\* All transfers but one kind keep what the devices hold.
LEMMA UrbSame ==
  ASSUME NEW w \in UsbSet, NEW id, NEW u, UrbOK(u), ~Stores(u)
  PROVE  ehci_do_urb(w, id, u) \in Same(w)
BY UrbTransferred DEF Transferred

\* No transfer enables the port.
LEMMA UrbStaysDark ==
  ASSUME NEW w \in UsbSet, NEW id, NEW u, UrbOK(u)
  PROVE  ehci_do_urb(w, id, u).dev.enabled => w.dev.enabled
<1> DEFINE x == Counted(w)
           p == Packets(x, u)
<1>1. x \in UsbSet
  BY CountedSame, SameTyped
<1>2. x.dev.enabled => w.dev.enabled
  BY DEF Counted, Unplugged, UsbSet, Dark
<1>3. ehci_do_urb(w, id, u) = Exchange(x, id, u, Happens(w))
  BY DEF ehci_do_urb
<1> HIDE DEF x
<1>4. ASSUME NEW y \in UsbSet
      PROVE  Gone(y).dev = y.dev /\ Silent(y).dev = y.dev /\ Silent(Go(y)).dev = y.dev
  BY DEF Silent, Gone, Fail, Go, UsbSet
<1>5. CASE ~Seen(x) \/ ~x.dev.enabled \/ x.dev.addr # id \/ Happens(w) = "lost"
  BY <1>1, <1>2, <1>3, <1>4, <1>5 DEF Exchange
<1>6. CASE ~(~Seen(x) \/ ~x.dev.enabled \/ x.dev.addr # id \/ Happens(w) = "lost")
  BY <1>2, <1>6
<1> QED
  BY <1>5, <1>6

\* The requests to the device on its control endpoint.
LEMMA ControlMessageSame ==
  ASSUME NEW w \in UsbSet
  PROVE  /\ GetDescriptor(w) \in Same(w)
         /\ Identify(w) \in Same(w)
         /\ \A a \in 0 .. 2 : SetAddress(w, a) \in Same(w)
         /\ USB_GetConfiguration(w) \in Same(w)
         /\ USB_SetConfiguration(w) \in Same(w)
         /\ \A ep \in {"control", "in", "out"} : USB_ClearHalt(w, ep) \in Same(w)
         /\ ehci_control_message(w, "storage_reset", None) \in Same(w)
         /\ ehci_control_message(w, "max_lun", None) \in Same(w)
<1>1. ASSUME NEW req, NEW val,
             req = "address" => val \in 0 .. 2,
             req = "halt" => val \in {"control", "in", "out"}
      PROVE  ehci_control_message(w, req, val) \in Same(w)
  <2>1. UrbOK(Urb("control", req, val, 1)) /\ ~Stores(Urb("control", req, val, 1))
    BY <1>1 DEF UrbOK, Urb, Stores
  <2> QED
    BY <2>1, UrbSame DEF ehci_control_message
<1>2. ASSUME NEW a \in 0 .. 2
      PROVE  SetAddress(w, a) \in Same(w)
  BY <1>1 DEF SetAddress
<1>3. ASSUME NEW ep \in {"control", "in", "out"}
      PROVE  USB_ClearHalt(w, ep) \in Same(w)
  BY <1>1 DEF USB_ClearHalt
<1> QED
  BY <1>1, <1>2, <1>3 DEF GetDescriptor, Identify, USB_GetConfiguration, USB_SetConfiguration

\* A call that makes no port reset, and so does not enable the device.
Worked(w) == {x \in Drove(w) : x.dev.enabled => w.dev.enabled}

\* Calls that are made one after the other; typed; of calls that do nothing to the port.
LEMMA WorkedTrans ==
  ASSUME NEW w, NEW x \in Worked(w), NEW y \in Worked(x)
  PROVE  y \in Worked(w) /\ x \in UsbSet
BY DroveTrans DEF Worked, Drove

\* Nothing done, a result set, a device that does not answer.
LEMMA WorkedSimple ==
  ASSUME NEW w \in UsbSet
  PROVE  /\ w \in Worked(w) /\ Go(w) \in Worked(w) /\ Gone(w) \in Worked(w)
         /\ Go(w).media = w.media /\ Gone(w).media = w.media
         /\ \A r \in Codes : Fail(w, r) \in Worked(w) /\ Fail(w, r).media = w.media
<1>1. w \in Same(w) /\ Go(w) \in Same(w) /\ Gone(w) \in Same(w)
  BY SameRefl, GoSame, SilentSame
<1>2. \A r \in Codes : Fail(w, r) \in Same(w)
  BY FailSame
<1>3. \A r : Fail(w, r).dev = w.dev
  BY DEF Fail, UsbSet
<1>4. Go(w).dev = w.dev /\ Gone(w).dev = w.dev
  BY DEF Go, Gone, Fail, UsbSet
<1> QED
  BY <1>1, <1>2, <1>3, <1>4, SameDrove DEF Worked

\* The transfers of a SCSI command.
LEMMA BulkMessageTransferred ==
  ASSUME NEW w \in UsbSet, NEW cmd, CmdOK(cmd)
  PROVE  /\ LET x == ehci_bulk_message(w, "out", "cbw", cmd)
            IN  x \in Same(w) /\ x \in Worked(w)
         /\ cmd.op = "write" =>
              LET x == ehci_bulk_message(w, "out", "data", cmd)
              IN  /\ x \in Worked(w) /\ x.media \in {w.media, Stored(w, cmd)}
                  /\ x.res = "OK" /\ x.dev.ph = "csw" => x.media = Stored(w, cmd)
         /\ LET x == ehci_bulk_message(w, "in", "data", cmd)
            IN  /\ x \in Same(w) /\ x \in Worked(w)
                /\ x.res = "OK" =>
                     Answered(w, cmd, x.data) \/ (cmd.op # "capacity" /\ x.dev.ph = "failed")
         /\ LET x == ehci_bulk_message(w, "in", "csw", cmd)
            IN  /\ x \in Same(w) /\ x \in Worked(w) /\ x.data = w.data
                /\ x.res = "OK" => w.dev.ph = "csw" \/ x.refused
<1>1. \A ep, req : ehci_bulk_message(w, ep, req, cmd)
                     = ehci_do_urb(w, w.id, Urb(ep, req, cmd, IF req = "data" THEN cmd.n ELSE 1))
  BY DEF ehci_bulk_message
<1>2. ASSUME NEW ep, NEW req, NEW n, UrbOK(Urb(ep, req, cmd, n)),
             NEW x, x = ehci_do_urb(w, w.id, Urb(ep, req, cmd, n))
      PROVE  /\ x \in Worked(w)
             /\ ~(ep = "out" /\ req = "data") => x \in Same(w)
             /\ ep = "out" /\ req = "data" =>
                  /\ x.media \in {w.media, Stored(w, cmd)}
                  /\ x.res = "OK" /\ x.dev.ph = "csw" => x.media = Stored(w, cmd)
             /\ ep = "in" /\ req = "data" /\ x.res = "OK" =>
                  Answered(w, cmd, x.data) \/ (cmd.op # "capacity" /\ x.dev.ph = "failed")
             /\ ep = "in" /\ req = "csw" =>
                  x.data = w.data /\ (x.res = "OK" => w.dev.ph = "csw" \/ x.refused)
  <2> DEFINE u == Urb(ep, req, cmd, n)
  <2>1. u.ep = ep /\ u.req = req /\ u.val = cmd
    BY DEF Urb
  <2> HIDE DEF u
  <2>2. Transferred(w, u, x) /\ (x.dev.enabled => w.dev.enabled)
    BY <1>2, UrbTransferred, UrbStaysDark DEF u
  <2> QED
    BY <2>1, <2>2 DEF Transferred, Wrote, Stores, Worked
<1>3. UrbOK(Urb("out", "cbw", cmd, 1)) /\ UrbOK(Urb("in", "csw", cmd, 1))
  BY DEF UrbOK, Urb
<1>4. UrbOK(Urb("in", "data", cmd, cmd.n))
  BY DEF UrbOK, Urb, CmdOK
<1>5. cmd.op = "write" => UrbOK(Urb("out", "data", cmd, cmd.n))
  BY DEF UrbOK, Urb, CmdOK
<1>6. LET x == ehci_bulk_message(w, "out", "cbw", cmd)
      IN  x \in Same(w) /\ x \in Worked(w)
  BY <1>1, <1>2, <1>3
<1>7. cmd.op = "write" =>
        LET x == ehci_bulk_message(w, "out", "data", cmd)
        IN  /\ x \in Worked(w) /\ x.media \in {w.media, Stored(w, cmd)}
            /\ x.res = "OK" /\ x.dev.ph = "csw" => x.media = Stored(w, cmd)
  BY <1>1, <1>2, <1>5
<1>8. LET x == ehci_bulk_message(w, "in", "data", cmd)
      IN  /\ x \in Same(w) /\ x \in Worked(w)
          /\ x.res = "OK" =>
               Answered(w, cmd, x.data) \/ (cmd.op # "capacity" /\ x.dev.ph = "failed")
  BY <1>1, <1>2, <1>4
<1>9. LET x == ehci_bulk_message(w, "in", "csw", cmd)
      IN  /\ x \in Same(w) /\ x \in Worked(w) /\ x.data = w.data
          /\ x.res = "OK" => w.dev.ph = "csw" \/ x.refused
  BY <1>1, <1>2, <1>3
<1> QED
  BY <1>6, <1>7, <1>8, <1>9

\* The host and the device agree on its address and the toggle of the endpoint that
\* takes what is sent; on both toggles.
OutAgrees(w) ==
  w.dev.enabled /\ w.id = w.dev.addr /\ w.dev.conf /\ w.tog.out = w.dev.tog.out
Agrees(w) == OutAgrees(w) /\ w.tog.in = w.dev.tog.in

\* A packet that is dropped for its toggle leaves both sides with the same one.
LEMMA BulkOutAgrees ==
  ASSUME NEW x \in UsbSet, x.dev.enabled, x.id = x.dev.addr, NEW u, u.n \in Nat,
         u.n = 1 \/ x.tog.out = x.dev.tog.out, BulkOut(x, u).res = "OK"
  PROVE  OutAgrees(BulkOut(x, u))
<1>1. x.dev \in DevSet /\ x.tog \in Toggles
  BY DEF UsbSet
<1>2. x.tog.out \in {0, 1} /\ x.dev.tog \in Toggles /\ x.dev.tog.out \in {0, 1}
  BY <1>1 DEF DevSet, Toggles
<1>3. ~(x.dev.ph \notin {"cbw", "write"} \/ ~x.dev.conf)
  <2>1. Silent(x).res # "OK"
    BY DEF Silent, Gone, Fail, UsbSet
  <2> QED
    BY <2>1 DEF BulkOut
<1>5. CASE x.tog.out # x.dev.tog.out
  <2>1. BulkOut(x, u) = [x EXCEPT !.tog = [x.tog EXCEPT !.out = Flip(x.tog.out, u.n)]]
    BY <1>3, <1>5 DEF BulkOut
  <2>2. Flip(x.tog.out, u.n) = x.dev.tog.out
    <3>1. u.n = 1
      BY <1>5
    <3> QED
      BY <1>2, <1>5, <3>1, FlipTyped
  <2> QED
    BY <1>1, <1>3, <2>1, <2>2 DEF OutAgrees, UsbSet, Toggles
<1>6. CASE x.tog.out = x.dev.tog.out
  <2> DEFINE t == [x.tog EXCEPT !.out = Flip(x.tog.out, u.n)]
             d == [x.dev EXCEPT !.tog = [x.dev.tog EXCEPT !.out = Flip(x.dev.tog.out, u.n)]]
             y == [x EXCEPT !.tog = t, !.dev = d]
  <2>1. BulkOut(x, u) = Accept(y, u)
    BY <1>3, <1>6 DEF BulkOut
  <2>2. OutAgrees(y)
    BY <1>1, <1>2, <1>3, <1>6 DEF OutAgrees, UsbSet, DevSet, Toggles
  <2>3. y.dev \in DevSet
    <3>1. [x.dev.tog EXCEPT !.out = Flip(x.dev.tog.out, u.n)] \in Toggles
      BY <1>2, FlipTyped DEF Toggles
    <3>2. d \in DevSet
      BY <1>1, <3>1 DEF DevSet
    <3> QED
      BY <3>2 DEF UsbSet
  <2>4. DOMAIN y = DOMAIN x /\ y = [k \in DOMAIN y |-> y[k]]
    BY DEF UsbSet
  <2> HIDE DEF y
  <2>5. OutAgrees(Accept(y, u))
    BY <2>2, <2>3, <2>4 DEF OutAgrees, DevSet, UsbSet, Accept, Store, Refuse
  <2> QED
    BY <2>1, <2>5
<1> QED
  BY <1>5, <1>6

\* What comes from the device comes with the right toggle, or not at all.
LEMMA BulkInAgrees ==
  ASSUME NEW x \in UsbSet, OutAgrees(x), NEW u, BulkIn(x, u).res = "OK"
  PROVE  Agrees(BulkIn(x, u))
<1>1. x.dev \in DevSet /\ x.tog \in Toggles /\ x.dev.tog \in Toggles
  BY DEF UsbSet, DevSet
<1>2. x.dev.ph = "read"
  <2>1. Silent(x).res # "OK"
    BY DEF Silent, Gone, Fail, UsbSet
  <2> QED
    BY <2>1 DEF BulkIn
<1>3. ~(x.fault = "short" /\ x.left = 0)
  <2> DEFINE t == [x.tog EXCEPT !.in = Flip(x.tog.in, 1)]
             d == [x.dev EXCEPT !.ph = "cbw", !.tog = [x.dev.tog EXCEPT !.in = Flip(x.dev.tog.in, 1)]]
             z == [x EXCEPT !.fault = "none", !.tog = t, !.dev = d]
  <2>1. SUFFICES ASSUME x.fault = "short" /\ x.left = 0
                 PROVE  FALSE
    OBVIOUS
  <2>2. BulkIn(x, u) = Silent(z)
    BY ZenonT(40), <1>2, <2>1 DEF BulkIn, UsbSet, DevSet
  <2>3. Silent(z).res # "OK"
    BY DEF Silent, Gone, Fail, UsbSet
  <2> HIDE DEF z
  <2> QED
    BY <2>2, <2>3
<1>4. x.tog.in = x.dev.tog.in
  <2> DEFINE t == [x.tog EXCEPT !.in = Flip(x.tog.in, u.n)]
             d == [x.dev EXCEPT !.ph = "cbw",
                                !.tog = [x.dev.tog EXCEPT !.in = Flip(x.dev.tog.in, u.n + 1)]]
             z == [x EXCEPT !.tog = t, !.dev = d]
  <2>1. SUFFICES ASSUME x.tog.in # x.dev.tog.in
                 PROVE  FALSE
    OBVIOUS
  <2>2. BulkIn(x, u) = Silent(z)
    BY <1>2, <1>3, <2>1 DEF BulkIn, UsbSet, DevSet
  <2>3. Silent(z).res # "OK"
    BY DEF Silent, Gone, Fail, UsbSet
  <2> HIDE DEF z
  <2> QED
    BY <2>2, <2>3
<1> DEFINE y == [x EXCEPT !.dev.ph = "csw", !.tog.in = Flip(@, u.n), !.dev.tog.in = Flip(@, u.n)]
<1>5. BulkIn(x, u) = Supply(y, u.val)
  BY <1>2, <1>3, <1>4 DEF BulkIn
<1>6. Agrees(y)
  BY <1>1, <1>4 DEF OutAgrees, Agrees, UsbSet, DevSet, Toggles
<1>7. y = [k \in DOMAIN y |-> y[k]] /\ DOMAIN y = DOMAIN x
      /\ y.dev = [k \in DOMAIN x.dev |-> y.dev[k]]
  BY <1>1 DEF UsbSet, DevSet
<1> HIDE DEF y
<1>8. Agrees(Supply(y, u.val))
  BY <1>1, <1>6, <1>7 DEF OutAgrees, Agrees, UsbSet, DevSet, Supply, Refuse
<1> QED
  BY <1>5, <1>8

\* A status block that arrives leaves the host and the device with the same toggles,
\* when they agreed about what is sent.
LEMMA StatusInAgrees ==
  ASSUME NEW x \in UsbSet, OutAgrees(x), NEW u, StatusIn(x, u).res = "OK"
  PROVE  Agrees(StatusIn(x, u))
<1>1. x.dev \in DevSet /\ x.tog \in Toggles /\ x.dev.tog \in Toggles
  BY DEF UsbSet, DevSet
<1>2. x.dev.ph \in {"csw", "failed"}
  <2>1. Silent(x).res # "OK"
    BY DEF Silent, Gone, Fail, UsbSet
  <2> QED
    BY <2>1 DEF StatusIn
<1>3. x.tog.in = x.dev.tog.in
  <2>1. ASSUME NEW d
        PROVE  Silent([x EXCEPT !.dev = d]).res # "OK"
    BY DEF Silent, Gone, Fail, UsbSet
  <2>2. CASE x.tog.in # x.dev.tog.in
    <3>1. \E d : StatusIn(x, u) = Silent([x EXCEPT !.dev = d])
      BY ZenonT(40), <1>1, <1>2, <2>2 DEF StatusIn, UsbSet, DevSet
    <3> QED
      BY <2>1, <3>1
  <2> QED
    BY <2>2
<1> DEFINE y == [x EXCEPT !.dev.ph = "cbw", !.tog.in = Flip(@, 1), !.dev.tog.in = Flip(@, 1)]
           b == y.refused \/ x.dev.ph = "failed"
           s == IF u.val.op = "tur" /\ y.dev.ua THEN 1 ELSE 0
<1>4. StatusIn(x, u) = IF y.fault = "bad" /\ y.left = 0 THEN Fail([y EXCEPT !.fault = "none"], "ERR")
                       ELSE [y EXCEPT !.refused = b, !.status = s]
  BY <1>2, <1>3 DEF StatusIn, With
<1>5. Agrees(y) /\ DOMAIN y = DOMAIN x
  BY <1>1, <1>3 DEF OutAgrees, Agrees, UsbSet, DevSet, Toggles
<1>6. ~(y.fault = "bad" /\ y.left = 0)
  <2>1. Fail([y EXCEPT !.fault = "none"], "ERR").res = "ERR"
    BY DEF Fail, UsbSet
  <2> HIDE DEF y
  <2> QED
    BY <1>4, <2>1
<1> DEFINE z == [y EXCEPT !.refused = b, !.status = s]
<1>7. StatusIn(x, u) = z
  BY <1>4, <1>6
<1> HIDE DEF b, s
<1>8. z.dev = y.dev /\ z.id = y.id /\ z.tog = y.tog
  BY DEF UsbSet
<1> HIDE DEF y, z
<1> QED
  BY <1>5, <1>7, <1>8 DEF OutAgrees, Agrees

\* A transfer that succeeds was made with a device, and both sides agree after it.
LEMMA UrbAgrees ==
  ASSUME NEW w \in UsbSet, NEW u, UrbOK(u), ehci_do_urb(w, w.id, u).res = "OK"
  PROVE  /\ w.port # None /\ ehci_do_urb(w, w.id, u).port = w.port
         /\ u.ep = "out" /\ (u.n = 1 \/ w.tog.out = w.dev.tog.out) =>
              OutAgrees(ehci_do_urb(w, w.id, u))
         /\ u.ep = "in" /\ OutAgrees(w) => Agrees(ehci_do_urb(w, w.id, u))
         /\ u.ep = "control" /\ u.req = "descriptor" /\ Agrees(w) =>
              Agrees(ehci_do_urb(w, w.id, u))
<1> DEFINE x == Counted(w)
           p == Packets(x, u)
<1>1. x \in Same(w) /\ x \in UsbSet
  BY CountedSame, SameTyped
<1>2. x.port # None => x.dev = w.dev /\ x.tog = w.tog /\ x.id = w.id
  BY DEF Counted, Unplugged, UsbSet
<1>3. \A y \in UsbSet : Gone(y).res # "OK" /\ Silent(y).res # "OK"
  BY DEF Silent, Gone, Fail, UsbSet
<1>4. ehci_do_urb(w, w.id, u) = Exchange(x, w.id, u, Happens(w))
  BY DEF ehci_do_urb
<1> HIDE DEF x
<1>5. Seen(x) /\ x.port # None /\ x.dev.enabled /\ x.dev.addr = w.id
  BY <1>1, <1>3, <1>4 DEF Exchange, Seen
<1>6. p \in UsbSet /\ p.port \in {x.port, None}
  BY <1>1, <1>5, PacketsTransferred DEF Transferred, Drove, Carried
<1>7. ehci_do_urb(w, w.id, u) = p
  <2>1. Happens(w) # "lost"
    BY <1>1, <1>3, <1>4 DEF Exchange
  <2>2. Go(p) \in UsbSet
    BY <1>6, GoSame, SameTyped
  <2> HIDE DEF p
  <2>3. Exchange(x, w.id, u, Happens(w)) = IF Happens(w) = "late" THEN Silent(Go(p)) ELSE p
    BY <1>5, <2>1 DEF Exchange, With, p
  <2> QED
    BY <1>3, <1>4, <2>2, <2>3
<1>8. w.port # None /\ p.port = w.port
  <2>1. x.port = w.port
    BY <1>1, <1>5 DEF Same, Drove, Kept, Carried
  <2>2. p.port # None
    <3>1. p.port = x.port
      BY <1>5 DEF Packets, ControlStage, BulkOut, BulkIn, StatusIn, Silent, Gone, Fail, With,
                  Accept, Supply, Store, Refuse, UsbSet, UrbOK
    <3> QED
      BY <1>5, <3>1
  <2> QED
    BY <1>5, <1>6, <2>1, <2>2
<1>9. CASE u.ep = "out"
  <2>1. p = BulkOut(x, u) /\ u.n \in Nat
    BY <1>9 DEF Packets, UrbOK
  <2>2. u.n = 1 \/ w.tog.out = w.dev.tog.out => OutAgrees(p)
    BY <1>1, <1>2, <1>5, <1>7, <2>1, BulkOutAgrees
  <2> QED
    BY <1>7, <1>8, <1>9, <2>2
<1>10. CASE u.ep = "in"
  <2>1. OutAgrees(w) => OutAgrees(x)
    BY <1>2, <1>5 DEF OutAgrees
  <2>2. p = BulkIn(x, u) \/ p = StatusIn(x, u)
    BY <1>10 DEF Packets, UrbOK
  <2>3. OutAgrees(w) => Agrees(p)
    BY <1>1, <1>7, <2>1, <2>2, BulkInAgrees, StatusInAgrees
  <2> QED
    BY <1>7, <1>8, <1>10, <2>3
<1>11. CASE u.ep = "control"
  <2>1. u.req = "descriptor" => p = x
    BY <1>11 DEF Packets, ControlStage
  <2>2. Agrees(w) => Agrees(x)
    BY <1>2, <1>5 DEF OutAgrees, Agrees
  <2> QED
    BY <1>7, <1>8, <1>11, <2>1, <2>2
<1> QED
  BY <1>9, <1>10, <1>11 DEF UrbOK

\* A transfer of a SCSI command that succeeds: from its first block on the host and
\* the device agree about what is sent, and from the data on about what is read.
LEMMA BulkMessageAgrees ==
  ASSUME NEW w \in UsbSet, NEW cmd, CmdOK(cmd)
  PROVE  /\ ehci_bulk_message(w, "out", "cbw", cmd).res = "OK" =>
              OutAgrees(ehci_bulk_message(w, "out", "cbw", cmd))
         /\ cmd.op = "write" /\ OutAgrees(w)
              /\ ehci_bulk_message(w, "out", "data", cmd).res = "OK" =>
              OutAgrees(ehci_bulk_message(w, "out", "data", cmd))
         /\ \A req \in {"data", "csw"} :
              OutAgrees(w) /\ ehci_bulk_message(w, "in", req, cmd).res = "OK" =>
                Agrees(ehci_bulk_message(w, "in", req, cmd))
<1>1. UrbOK(Urb("out", "cbw", cmd, 1)) /\ UrbOK(Urb("in", "csw", cmd, 1))
  BY DEF UrbOK, Urb
<1>2. UrbOK(Urb("in", "data", cmd, cmd.n))
  BY DEF UrbOK, Urb, CmdOK
<1>3. cmd.op = "write" => UrbOK(Urb("out", "data", cmd, cmd.n))
  BY DEF UrbOK, Urb, CmdOK
<1>4. \A ep, req : ehci_bulk_message(w, ep, req, cmd)
                     = ehci_do_urb(w, w.id, Urb(ep, req, cmd, IF req = "data" THEN cmd.n ELSE 1))
  BY DEF ehci_bulk_message
<1>5. ASSUME NEW ep, NEW req, NEW n, UrbOK(Urb(ep, req, cmd, n)),
             ehci_do_urb(w, w.id, Urb(ep, req, cmd, n)).res = "OK"
      PROVE  /\ ep = "out" /\ (n = 1 \/ w.tog.out = w.dev.tog.out) =>
                  OutAgrees(ehci_do_urb(w, w.id, Urb(ep, req, cmd, n)))
             /\ ep = "in" /\ OutAgrees(w) =>
                  Agrees(ehci_do_urb(w, w.id, Urb(ep, req, cmd, n)))
  <2> DEFINE u == Urb(ep, req, cmd, n)
  <2>1. u.ep = ep /\ u.n = n
    BY DEF Urb
  <2> HIDE DEF u
  <2>2. /\ u.ep = "out" /\ (u.n = 1 \/ w.tog.out = w.dev.tog.out) => OutAgrees(ehci_do_urb(w, w.id, u))
        /\ u.ep = "in" /\ OutAgrees(w) => Agrees(ehci_do_urb(w, w.id, u))
    BY <1>5, UrbAgrees DEF u
  <2> QED
    BY <2>1, <2>2 DEF u
<1>6. ehci_bulk_message(w, "out", "cbw", cmd).res = "OK" =>
        OutAgrees(ehci_bulk_message(w, "out", "cbw", cmd))
  BY <1>1, <1>4, <1>5
<1>7. cmd.op = "write" /\ OutAgrees(w) /\ ehci_bulk_message(w, "out", "data", cmd).res = "OK" =>
        OutAgrees(ehci_bulk_message(w, "out", "data", cmd))
  BY <1>3, <1>4, <1>5 DEF OutAgrees
<1>8. ASSUME NEW req \in {"data", "csw"}, OutAgrees(w),
             ehci_bulk_message(w, "in", req, cmd).res = "OK"
      PROVE  Agrees(ehci_bulk_message(w, "in", req, cmd))
  BY <1>1, <1>2, <1>4, <1>5, <1>8
<1> QED
  BY <1>6, <1>7, <1>8

-----------------------------------------------------------------------------
(* The port *)

\* A port that is left to the other controller.
LEMMA HandOverSame ==
  ASSUME NEW w \in UsbSet, ~Seen(w)
  PROVE  HandOver(w) \in Same(w) /\ HandOver(w).res = "NODEV"
<1> DEFINE y == [w EXCEPT !.port_owner = TRUE]
<1>4. y \in UsbSet
  BY DEF UsbSet
<1>5. /\ y.media = w.media /\ y.allocs = w.allocs /\ y.usbfd = w.usbfd /\ y.old_udd = w.old_udd
      /\ Carried(w, y)
  BY DEF Carried, Out, Seen, UsbSet
<1>1. y \in Same(w) /\ y \in UsbSet
  <2> HIDE DEF y
  <2> QED
    BY <1>4, <1>5 DEF Same, Drove
<1>2. HandOver(w) = Fail(y, "NODEV")
  BY DEF HandOver
<1> HIDE DEF y
<1>3. Fail(y, "NODEV") \in Same(y) /\ Fail(y, "NODEV").res = "NODEV"
  BY <1>1, FailSame DEF Codes, Fail, UsbSet
<1> QED
  BY <1>1, <1>2, <1>3, SameTrans

\* A port reset, and what follows it.
LEMMA PortResetSame ==
  ASSUME NEW w \in UsbSet
  PROVE  PortReset(w) \in Same(w)
<1>1. ~Seen(w) => HandOver(w) \in Same(w)
  BY HandOverSame
<1>2. Fresh \in DevSet
  <2>1. Dark \in DevSet
    BY DEF Dark, DevSet, Toggles, Phases
  <2> QED
    BY <2>1 DEF Fresh, DevSet
<1>3. Seen(w) => [w EXCEPT !.dev = Fresh] \in Same(w)
  <2> HIDE DEF Fresh
  <2> QED
    BY <1>2, DeviceSame
<1> QED
  BY <1>1, <1>3 DEF PortReset

\* One attempt of ehci_reset_port_old.
LEMMA EnumerateOnceSame ==
  ASSUME NEW w \in UsbSet
  PROVE  EnumerateOnce(w) \in Same(w)
<1>1. CASE ~Seen(w)
  <2>1. Fail(w, "ERR") \in Same(w)
    BY FailSame DEF Codes
  <2> QED
    BY <1>1, <2>1 DEF EnumerateOnce
<1>2. CASE Seen(w)
  <2> DEFINE r == [w EXCEPT !.dev = Fresh]
             d == Identify(r)
  <2>1. r \in Same(w)
    BY <1>2, PortResetSame DEF PortReset
  <2>2. d \in Same(w)
    BY <2>1, SameTyped, ControlMessageSame, SameTrans
  <2>3. SetAddress(d, 1) \in Same(w)
    <3>1. 1 \in 0 .. 2
      OBVIOUS
    <3> QED
      BY <2>2, <3>1, SameTyped, ControlMessageSame, SameTrans
  <2>4. EnumerateOnce(w) = IF d.res = "OK" THEN SetAddress(d, 1) ELSE d
    BY <1>2 DEF EnumerateOnce, Then
  <2> HIDE DEF r, d
  <2> QED
    BY <2>2, <2>3, <2>4
<1> QED
  BY <1>1, <1>2

\* The enumeration is tried four times.
LEMMA EnumerateSame ==
  ASSUME NEW w \in UsbSet
  PROVE  Enumerate(w) \in Same(w)
<1> DEFINE Op(a) == EnumerateOnce(Go(a))
           Round(i, a) == IF i > 1 /\ a.res = "OK" THEN a ELSE Op(a)
           Is(f) == f = [i \in 0 .. 4 |-> IF i = 0 THEN w ELSE Round(i, f[i - 1])]
           g == CHOOSE f : Is(f)
           T == [i \in 1 .. 4 |-> [a \in Same(w) |-> Round(i, a)]]
<1>1. Enumerate(w) = g[4]
  BY Zenon DEF Enumerate, Retry, With
<1>2. w \in Same(w)
  BY SameRefl
<1>3. ASSUME NEW a \in Same(w)
      PROVE  Op(a) \in Same(w)
  <2>1. Go(a) \in Same(w)
    BY SameTyped, GoSame, SameTrans
  <2> QED
    BY <2>1, SameTyped, EnumerateOnceSame, SameTrans
<1> HIDE DEF Op
<1>4. \A i \in 1 .. 4, a \in Same(w) : T[i][a] \in Same(w)
  BY <1>3
<1>5. \E f : Is(f)
  <2>1. PICK f \in [0 .. 4 -> Same(w)] : f[0] = w /\ \A i \in 1 .. 4 : f[i] = T[i][f[i - 1]]
    <3> HIDE DEF T
    <3>1. Runs(Same(w), 4, w, T)
      BY <1>2, <1>4, LoopRuns
    <3> QED
      BY <3>1 DEF Runs
  <2>2. ASSUME NEW i \in 0 .. 4
        PROVE  f[i] = IF i = 0 THEN w ELSE Round(i, f[i - 1])
    <3>1. i # 0 => i \in 1 .. 4 /\ i - 1 \in 0 .. 4
      BY SMT
    <3>2. i # 0 => f[i - 1] \in Same(w)
      BY <3>1
    <3> HIDE DEF Round
    <3>3. i # 0 => T[i][f[i - 1]] = Round(i, f[i - 1])
      BY <3>1, <3>2
    <3> QED
      BY <2>1, <3>1, <3>3
  <2>3. f = [i \in 0 .. 4 |-> f[i]]
    OBVIOUS
  <2> QED
    BY <2>2, <2>3
<1>6. Is(g)
  BY <1>5
<1>7. g[1] \in Same(w) /\ \A i \in 2 .. 4 : g[i - 1] \in Same(w) => g[i] \in Same(w)
  <2>1. \A i \in 0 .. 4 : g[i] = IF i = 0 THEN w ELSE Round(i, g[i - 1])
    <3> HIDE DEF g, Round
    <3> QED
      BY <1>6
  <2> HIDE DEF g, Round
  <2>2. g[0] = w /\ g[1] = Round(1, g[0])
    BY <2>1, SMT
  <2>3. g[1] \in Same(w)
    BY <1>2, <1>3, <2>2 DEF Round
  <2>4. ASSUME NEW i \in 2 .. 4, g[i - 1] \in Same(w)
        PROVE  g[i] \in Same(w)
    <3>1. g[i] = Round(i, g[i - 1])
      BY <2>1, SMT
    <3>2. g[i - 1] \in Same(w)
      BY <2>4
    <3> QED
      BY <1>3, <2>4, <3>1, <3>2 DEF Round
  <2> QED
    BY <2>3, <2>4
<1> HIDE DEF g
<1>8. g[4] \in Same(w)
  BY <1>7, LoopEnds
<1> QED
  BY <1>1, <1>8

\* A call that sets handshake_mode and sets it back.
LEMMA HandshakeSame ==
  ASSUME NEW w \in UsbSet, NEW h \in {0, 1}, NEW x \in Same([w EXCEPT !.handshake_mode = h])
  PROVE  [x EXCEPT !.handshake_mode = w.handshake_mode] \in Same(w)
<1> DEFINE v == [w EXCEPT !.handshake_mode = h]
           y == [x EXCEPT !.handshake_mode = w.handshake_mode]
<1>1. Out(v) = Out(w) /\ Out(y) = Out(x)
  BY SameTyped DEF Out, UsbSet
<1>2. Out(w) => Out(y)
  BY <1>1 DEF Same, Drove, Kept, Carried
<1>3. y \in UsbSet
  <2>1. x \in UsbSet /\ w.handshake_mode \in {0, 1}
    BY SameTyped DEF UsbSet
  <2> QED
    BY <2>1 DEF UsbSet
<1> QED
  BY ZenonT(40), <1>2, <1>3 DEF Same, Drove, Kept, Carried, UsbSet

\* Any address of the driver, and any mode of the handshake, is one.
LEMMA DriverTyped ==
  ASSUME NEW w \in UsbSet
  PROVE  /\ \A h \in {0, 1} : [w EXCEPT !.handshake_mode = h] \in UsbSet
         /\ \A i \in 0 .. 2 : [w EXCEPT !.id = i] \in Same(w)
         /\ \A i \in 0 .. 2 : [w EXCEPT !.id = i, !.hung = TRUE] \in Same(w)
         /\ \A i \in 0 .. 2, t \in Toggles : [w EXCEPT !.tog = t, !.id = i] \in Same(w)
<1>1. \A h \in {0, 1} : [w EXCEPT !.handshake_mode = h] \in UsbSet
  BY DEF UsbSet
<1>2. \A i \in 0 .. 2 : [w EXCEPT !.id = i] \in Same(w)
  BY DEF Same, Drove, Carried, Out, UsbSet
<1>3. \A i \in 0 .. 2 : [w EXCEPT !.id = i, !.hung = TRUE] \in Same(w)
  BY DEF Same, Drove, Carried, Out, UsbSet
<1>4. \A i \in 0 .. 2, t \in Toggles : [w EXCEPT !.tog = t, !.id = i] \in Same(w)
  BY ZenonT(40) DEF Same, Drove, Carried, Out, UsbSet
<1> QED
  BY <1>1, <1>2, <1>3, <1>4

\* The old reset of a port.
LEMMA ResetPortOldSame ==
  ASSUME NEW w \in UsbSet
  PROVE  ehci_reset_port_old(w) \in Same(w)
<1>1. w.handshake_mode \in {0, 1}
  BY DEF UsbSet
<1>2. 0 \in 0 .. 2 /\ 1 \in 0 .. 2 /\ [in |-> 0, out |-> 0] \in Toggles
  BY DEF Toggles
<1>3. CASE ~Seen(w)
  <2> DEFINE y == [w EXCEPT !.id = 0]
  <2>1. y \in Same(w) /\ ~Seen(y)
    BY <1>2, <1>3, DriverTyped DEF Seen, UsbSet
  <2> HIDE DEF y
  <2>2. HandOver(y) \in Same(w)
    BY <2>1, SameTyped, HandOverSame, SameTrans
  <2> QED
    BY <1>3, <2>2 DEF ehci_reset_port_old, y
<1>4. CASE Seen(w)
  <2> DEFINE y == [w EXCEPT !.id = 0, !.handshake_mode = 1]
             z == [w EXCEPT !.id = 0]
             a == Enumerate(y)
             b == [a EXCEPT !.handshake_mode = w.handshake_mode]
             c == [b EXCEPT !.tog = [in |-> 0, out |-> 0], !.id = 1]
  <2>1. ehci_reset_port_old(w) = IF b.res = "OK" THEN c ELSE b
    BY <1>4 DEF ehci_reset_port_old, With, Then
  <2>2. z \in Same(w) /\ z \in UsbSet /\ z.handshake_mode = w.handshake_mode
    <3>1. z \in Same(w)
      BY Zenon, <1>2, DriverTyped
    <3>2. z.handshake_mode = w.handshake_mode
      BY DEF UsbSet
    <3> QED
      BY <3>1, <3>2, SameTyped
  <2>3. y = [z EXCEPT !.handshake_mode = 1] /\ y \in UsbSet
    <3>1. y = [z EXCEPT !.handshake_mode = 1]
      BY DEF UsbSet
    <3> QED
      BY <2>2, <3>1, DriverTyped
  <2>4. a \in Same(y)
    BY <2>3, EnumerateSame
  <2> HIDE DEF z, y, a
  <2>5. b \in Same(z)
    <3>1. a \in Same([z EXCEPT !.handshake_mode = 1])
      BY <2>3, <2>4
    <3>2. [a EXCEPT !.handshake_mode = z.handshake_mode] \in Same(z)
      BY <2>2, <3>1, HandshakeSame
    <3> QED
      BY <2>2, <3>2
  <2> HIDE DEF b
  <2>6. b \in Same(w)
    BY <2>2, <2>5, SameTrans
  <2>7. c \in Same(w)
    BY <1>2, <2>6, SameTyped, DriverTyped, SameTrans
  <2> HIDE DEF c
  <2> QED
    BY <2>1, <2>6, <2>7
<1> QED
  BY <1>3, <1>4

\* ehci_reset_port2 gives up and powers the port again when the reset fails.
LEMMA ResetPort2Same ==
  ASSUME NEW w \in UsbSet
  PROVE  ehci_reset_port2(w) \in Same(w)
<1> DEFINE r == ehci_reset_port_old(w)
           s == [r EXCEPT !.dev = Dark]
<1>1. ehci_reset_port2(w) = IF r.res = "OK" THEN r ELSE IF Seen(r) THEN s ELSE r
  BY DEF ehci_reset_port2, Else
<1>2. r \in Same(w)
  BY ResetPortOldSame
<1> HIDE DEF r
<1>3. Seen(r) => s \in Same(w)
  <2>1. Dark \in DevSet
    BY DEF Dark, DevSet, Toggles, Phases
  <2> HIDE DEF Dark
  <2> QED
    BY <1>2, <2>1, SameTyped, DeviceSame, SameTrans
<1> QED
  BY <1>1, <1>2, <1>3

\* The descriptor of the device is asked for, up to three times.
LEMMA AskSame ==
  ASSUME NEW w \in UsbSet
  PROVE  Ask(w) \in Same(w)
<1> DEFINE Op(a) == Identify(Go(a))
           Round(i, a) == IF i > 1 /\ a.res = "OK" THEN a ELSE Op(a)
           Is(f) == f = [i \in 0 .. 3 |-> IF i = 0 THEN w ELSE Round(i, f[i - 1])]
           g == CHOOSE f : Is(f)
           T == [i \in 1 .. 3 |-> [a \in Same(w) |-> Round(i, a)]]
<1>1. Ask(w) = g[3]
  BY Zenon DEF Ask, Retry, With
<1>2. w \in Same(w)
  BY SameRefl
<1>3. ASSUME NEW a \in Same(w)
      PROVE  Op(a) \in Same(w)
  <2>1. Go(a) \in Same(w)
    BY SameTyped, GoSame, SameTrans
  <2> QED
    BY <2>1, SameTyped, ControlMessageSame, SameTrans
<1> HIDE DEF Op
<1>4. \A i \in 1 .. 3, a \in Same(w) : T[i][a] \in Same(w)
  BY <1>3
<1>5. \E f : Is(f)
  <2>1. PICK f \in [0 .. 3 -> Same(w)] : f[0] = w /\ \A i \in 1 .. 3 : f[i] = T[i][f[i - 1]]
    <3> HIDE DEF T
    <3>1. Runs(Same(w), 3, w, T)
      BY <1>2, <1>4, LoopRuns
    <3> QED
      BY <3>1 DEF Runs
  <2>2. ASSUME NEW i \in 0 .. 3
        PROVE  f[i] = IF i = 0 THEN w ELSE Round(i, f[i - 1])
    <3>1. i # 0 => i \in 1 .. 3 /\ i - 1 \in 0 .. 3
      BY SMT
    <3>2. i # 0 => f[i - 1] \in Same(w)
      BY <3>1
    <3> HIDE DEF Round
    <3>3. i # 0 => T[i][f[i - 1]] = Round(i, f[i - 1])
      BY <3>1, <3>2
    <3> QED
      BY <2>1, <3>1, <3>3
  <2>3. f = [i \in 0 .. 3 |-> f[i]]
    OBVIOUS
  <2> QED
    BY <2>2, <2>3
<1>6. Is(g)
  BY <1>5
<1>7. g[1] \in Same(w) /\ \A i \in 2 .. 3 : g[i - 1] \in Same(w) => g[i] \in Same(w)
  <2>1. \A i \in 0 .. 3 : g[i] = IF i = 0 THEN w ELSE Round(i, g[i - 1])
    <3> HIDE DEF g, Round
    <3> QED
      BY <1>6
  <2> HIDE DEF g, Round
  <2>2. g[0] = w /\ g[1] = Round(1, g[0])
    BY <2>1, SMT
  <2>3. g[1] \in Same(w)
    BY <1>2, <1>3, <2>2 DEF Round
  <2>4. ASSUME NEW i \in 2 .. 3, g[i - 1] \in Same(w)
        PROVE  g[i] \in Same(w)
    <3>1. g[i] = Round(i, g[i - 1])
      BY <2>1, SMT
    <3>2. g[i - 1] \in Same(w)
      BY <2>4
    <3> QED
      BY <1>3, <2>4, <3>1, <3>2 DEF Round
  <2> QED
    BY <2>3, <2>4
<1> HIDE DEF g
<1>8. g[3] \in Same(w)
  BY <1>7, LoopEnds
<1> QED
  BY <1>1, <1>8

\* And again after a reset.
LEMMA DescribeSame ==
  ASSUME NEW w \in UsbSet
  PROVE  Describe(w) \in Same(w)
<1> DEFINE v == Ask(w)
<1> DEFINE Op(a) == Identify(Go(PortReset(Go(a))))
           Round(i, a) == IF i > 1 /\ a.res = "OK" THEN a ELSE Op(a)
           Is(f) == f = [i \in 0 .. 6 |-> IF i = 0 THEN v ELSE Round(i, f[i - 1])]
           g == CHOOSE f : Is(f)
           T == [i \in 1 .. 6 |-> [a \in Same(w) |-> Round(i, a)]]
<1> DEFINE h == IF v.res = "OK" THEN v ELSE g[6]
<1>1. Describe(w) = IF h.res = "OK" THEN h ELSE Fail(h, "ERR")
  BY Zenon DEF Describe, Retry, With, Else
<1>2. v \in Same(w)
  BY AskSame
<1>3. ASSUME NEW a \in Same(w)
      PROVE  Op(a) \in Same(w)
  <2>1. Go(a) \in Same(w)
    BY SameTyped, GoSame, SameTrans
  <2>2. PortReset(Go(a)) \in Same(w)
    BY <2>1, SameTyped, PortResetSame, SameTrans
  <2>3. Go(PortReset(Go(a))) \in Same(w)
    BY <2>2, SameTyped, GoSame, SameTrans
  <2> QED
    BY <2>3, SameTyped, ControlMessageSame, SameTrans
<1> HIDE DEF Op
<1>4. \A i \in 1 .. 6, a \in Same(w) : T[i][a] \in Same(w)
  BY <1>3
<1>5. \E f : Is(f)
  <2>1. PICK f \in [0 .. 6 -> Same(w)] : f[0] = v /\ \A i \in 1 .. 6 : f[i] = T[i][f[i - 1]]
    <3> HIDE DEF T
    <3>1. Runs(Same(w), 6, v, T)
      BY <1>2, <1>4, LoopRuns
    <3> QED
      BY <3>1 DEF Runs
  <2>2. ASSUME NEW i \in 0 .. 6
        PROVE  f[i] = IF i = 0 THEN v ELSE Round(i, f[i - 1])
    <3>1. i # 0 => i \in 1 .. 6 /\ i - 1 \in 0 .. 6
      BY SMT
    <3>2. i # 0 => f[i - 1] \in Same(w)
      BY <3>1
    <3> HIDE DEF Round
    <3>3. i # 0 => T[i][f[i - 1]] = Round(i, f[i - 1])
      BY <3>1, <3>2
    <3> QED
      BY <2>1, <3>1, <3>3
  <2>3. f = [i \in 0 .. 6 |-> f[i]]
    OBVIOUS
  <2> QED
    BY <2>2, <2>3
<1>6. Is(g)
  BY <1>5
<1>7. g[1] \in Same(w) /\ \A i \in 2 .. 6 : g[i - 1] \in Same(w) => g[i] \in Same(w)
  <2>1. \A i \in 0 .. 6 : g[i] = IF i = 0 THEN v ELSE Round(i, g[i - 1])
    <3> HIDE DEF g, Round
    <3> QED
      BY <1>6
  <2> HIDE DEF g, Round
  <2>2. g[0] = v /\ g[1] = Round(1, g[0])
    BY <2>1, SMT
  <2>3. g[1] \in Same(w)
    BY <1>2, <1>3, <2>2 DEF Round
  <2>4. ASSUME NEW i \in 2 .. 6, g[i - 1] \in Same(w)
        PROVE  g[i] \in Same(w)
    <3>1. g[i] = Round(i, g[i - 1])
      BY <2>1, SMT
    <3>2. g[i - 1] \in Same(w)
      BY <2>4
    <3> QED
      BY <1>3, <2>4, <3>1, <3>2 DEF Round
  <2> QED
    BY <2>3, <2>4
<1> HIDE DEF g
<1>8. g[6] \in Same(w)
  BY <1>7, LoopEnds
<1>9. Fail(g[6], "ERR") \in Same(w)
  BY <1>8, SameTyped, FailSame, SameTrans DEF Codes
<1> QED
  BY <1>1, <1>2, <1>8, <1>9

\* The address, which is set in up to three rounds.
LEMMA SettleOnceSame ==
  ASSUME NEW w \in UsbSet
  PROVE  SettleOnce(w) \in Same(w)
<1> DEFINE a == Go(SetAddress(w, 2))
           b == [a EXCEPT !.tog = [in |-> 0, out |-> 0], !.id = 2]
           c == Go(USB_ClearHalt(b, "control"))
<1>1. SettleOnce(w) = Identify(c)
  BY DEF SettleOnce, With
<1>2. 2 \in 0 .. 2 /\ [in |-> 0, out |-> 0] \in Toggles
  BY DEF Toggles
<1>3. a \in Same(w)
  <2>1. SetAddress(w, 2) \in Same(w)
    BY <1>2, ControlMessageSame
  <2> QED
    BY <2>1, SameTyped, GoSame, SameTrans
<1> HIDE DEF a
<1>4. b \in Same(w)
  BY <1>2, <1>3, SameTyped, DriverTyped, SameTrans
<1> HIDE DEF b
<1>5. c \in Same(w)
  <2>1. USB_ClearHalt(b, "control") \in Same(w)
    BY <1>4, SameTyped, ControlMessageSame, SameTrans
  <2> QED
    BY <2>1, SameTyped, GoSame, SameTrans
<1> HIDE DEF c
<1> QED
  BY <1>1, <1>5, SameTyped, ControlMessageSame, SameTrans

\* The loop at the end of ehci_init_port, which may not end.
LEMMA SettleSame ==
  ASSUME NEW w \in UsbSet
  PROVE  Settle(w) \in Same(w)
<1> DEFINE Op(a) == IF a.res = "OK" \/ a.dev.enabled THEN SettleOnce(Go([a EXCEPT !.id = 0])) ELSE a
           Round(i, a) == IF i > 1 /\ a.res = "OK" THEN a ELSE Op(a)
           Is(f) == f = [i \in 0 .. 3 |-> IF i = 0 THEN w ELSE Round(i, f[i - 1])]
           g == CHOOSE f : Is(f)
           T == [i \in 1 .. 3 |-> [a \in Same(w) |-> Round(i, a)]]
<1>1. Settle(w) = IF g[3].res = "OK" THEN g[3] ELSE [g[3] EXCEPT !.id = 0, !.hung = TRUE]
  BY Zenon DEF Settle, Retry, With, Else
<1>2. w \in Same(w)
  BY SameRefl
<1>3. ASSUME NEW a \in Same(w)
      PROVE  Op(a) \in Same(w)
  <2>1. [a EXCEPT !.id = 0] \in Same(w)
    <3>1. 0 \in 0 .. 2
      OBVIOUS
    <3> QED
      BY <3>1, SameTyped, DriverTyped, SameTrans
  <2>2. Go([a EXCEPT !.id = 0]) \in Same(w)
    BY <2>1, SameTyped, GoSame, SameTrans
  <2>3. SettleOnce(Go([a EXCEPT !.id = 0])) \in Same(w)
    BY <2>2, SameTyped, SettleOnceSame, SameTrans
  <2> QED
    BY <2>3
<1> HIDE DEF Op
<1>4. \A i \in 1 .. 3, a \in Same(w) : T[i][a] \in Same(w)
  BY <1>3
<1>5. \E f : Is(f)
  <2>1. PICK f \in [0 .. 3 -> Same(w)] : f[0] = w /\ \A i \in 1 .. 3 : f[i] = T[i][f[i - 1]]
    <3> HIDE DEF T
    <3>1. Runs(Same(w), 3, w, T)
      BY <1>2, <1>4, LoopRuns
    <3> QED
      BY <3>1 DEF Runs
  <2>2. ASSUME NEW i \in 0 .. 3
        PROVE  f[i] = IF i = 0 THEN w ELSE Round(i, f[i - 1])
    <3>1. i # 0 => i \in 1 .. 3 /\ i - 1 \in 0 .. 3
      BY SMT
    <3>2. i # 0 => f[i - 1] \in Same(w)
      BY <3>1
    <3> HIDE DEF Round
    <3>3. i # 0 => T[i][f[i - 1]] = Round(i, f[i - 1])
      BY <3>1, <3>2
    <3> QED
      BY <2>1, <3>1, <3>3
  <2>3. f = [i \in 0 .. 3 |-> f[i]]
    OBVIOUS
  <2> QED
    BY <2>2, <2>3
<1>6. Is(g)
  BY <1>5
<1>7. g[1] \in Same(w) /\ \A i \in 2 .. 3 : g[i - 1] \in Same(w) => g[i] \in Same(w)
  <2>1. \A i \in 0 .. 3 : g[i] = IF i = 0 THEN w ELSE Round(i, g[i - 1])
    <3> HIDE DEF g, Round
    <3> QED
      BY <1>6
  <2> HIDE DEF g, Round
  <2>2. g[0] = w /\ g[1] = Round(1, g[0])
    BY <2>1, SMT
  <2>3. g[1] \in Same(w)
    BY <1>2, <1>3, <2>2 DEF Round
  <2>4. ASSUME NEW i \in 2 .. 3, g[i - 1] \in Same(w)
        PROVE  g[i] \in Same(w)
    <3>1. g[i] = Round(i, g[i - 1])
      BY <2>1, SMT
    <3>2. g[i - 1] \in Same(w)
      BY <2>4
    <3> QED
      BY <1>3, <2>4, <3>1, <3>2 DEF Round
  <2> QED
    BY <2>3, <2>4
<1> HIDE DEF g
<1>8. g[3] \in Same(w)
  BY <1>7, LoopEnds
<1>9. [g[3] EXCEPT !.id = 0, !.hung = TRUE] \in Same(w)
  <2>1. 0 \in 0 .. 2
    OBVIOUS
  <2> QED
    BY <1>8, <2>1, SameTyped, DriverTyped, SameTrans
<1> QED
  BY <1>1, <1>8, <1>9

\* The new reset of a port.
LEMMA ResetPortSame ==
  ASSUME NEW w \in UsbSet
  PROVE  ehci_reset_port(w) \in Same(w)
<1> DEFINE y == [w EXCEPT !.handshake_mode = 1]
           r == PortReset(y)
           s == [r EXCEPT !.handshake_mode = w.handshake_mode]
           t == [s EXCEPT !.id = 0]
           d == Describe(t)
<1>1. ehci_reset_port(w) = IF s.res = "OK" THEN IF d.res = "OK" THEN Settle(d) ELSE d ELSE s
  BY DEF ehci_reset_port, ehci_init_port, With, Then
<1>2. y \in UsbSet /\ 1 \in {0, 1} /\ 0 \in 0 .. 2
  <2>1. 1 \in {0, 1} /\ 0 \in 0 .. 2
    OBVIOUS
  <2> QED
    BY <2>1, DriverTyped
<1>3. s \in Same(w)
  <2>1. r \in Same(y)
    BY <1>2, PortResetSame
  <2> HIDE DEF r
  <2> QED
    BY <1>2, <2>1, HandshakeSame
<1> HIDE DEF s
<1>4. t \in Same(w)
  BY <1>2, <1>3, SameTyped, DriverTyped, SameTrans
<1> HIDE DEF t
<1>5. d \in Same(w)
  BY <1>4, SameTyped, DescribeSame, SameTrans
<1> HIDE DEF d
<1>6. Settle(d) \in Same(w)
  BY <1>5, SameTyped, SettleSame, SameTrans
<1> QED
  BY <1>1, <1>3, <1>5, <1>6

-----------------------------------------------------------------------------
(* SCSI commands *)

\* The resets of the device.
LEMMA HardResetSame ==
  ASSUME NEW w \in UsbSet
  PROVE  HardReset(w) \in Same(w)
<1> DEFINE p == ehci_reset_port(w)
           c == USB_GetConfiguration(p)
           d == USB_SetConfiguration(c)
           e == IF c.res = "OK" THEN d ELSE c
<1>1. HardReset(w) = IF p.res = "OK" THEN IF e.res = "OK" THEN e ELSE Fail(e, "KEPT") ELSE p
  BY DEF HardReset, Then, Else
<1>2. p \in Same(w)
  BY ResetPortSame
<1> HIDE DEF p
<1>3. c \in Same(w)
  BY <1>2, SameTyped, ControlMessageSame, SameTrans
<1> HIDE DEF c
<1>4. e \in Same(w)
  BY <1>3, SameTyped, ControlMessageSame, SameTrans
<1> HIDE DEF e
<1>5. Fail(e, "KEPT") \in Same(w)
  BY <1>4, SameTyped, FailSame, SameTrans DEF Codes
<1> QED
  BY <1>1, <1>2, <1>4, <1>5

\* The three control messages of a soft reset.
LEMMA SoftResetSame ==
  ASSUME NEW w \in UsbSet
  PROVE  SoftReset(w) \in Same(w)
<1> DEFINE r == ehci_control_message(w, "storage_reset", None)
           i == USB_ClearHalt(r, "in")
           o == USB_ClearHalt(i, "out")
<1>1. SoftReset(w) = IF r.res = "OK" THEN IF i.res = "OK" THEN o ELSE i ELSE r
  BY DEF SoftReset, Then
<1>2. r \in Same(w)
  BY ControlMessageSame
<1> HIDE DEF r
<1>3. i \in Same(w)
  BY <1>2, SameTyped, ControlMessageSame, SameTrans
<1> HIDE DEF i
<1>4. o \in Same(w)
  BY <1>3, SameTyped, ControlMessageSame, SameTrans
<1> QED
  BY <1>1, <1>2, <1>3, <1>4

\* The reset that is tried again after a hard reset.
LEMMA StorageResetSame ==
  ASSUME NEW w \in UsbSet
  PROVE  USBStorage_Reset(w) \in Same(w)
<1> DEFINE n == HardResets + 1
<1>0. n \in Nat /\ n > 1
  BY DEF HardResets
<1> DEFINE Up(a) == IF a.res = "OK" THEN a ELSE HardReset(Go(a))
           Op(a) == IF a.res = "NODEV" THEN a ELSE IF Up(a).res = "OK" THEN SoftReset(Up(a)) ELSE Up(a)
           Round(i, a) == IF i > 1 /\ a.res = "OK" THEN a ELSE Op(a)
           Is(f) == f = [i \in 0 .. n |-> IF i = 0 THEN w ELSE Round(i, f[i - 1])]
           g == CHOOSE f : Is(f)
           T == [i \in 1 .. n |-> [a \in Same(w) |-> Round(i, a)]]
<1>1. USBStorage_Reset(w) = IF g[n].res = "KEPT" THEN Go(g[n]) ELSE g[n]
  BY Zenon DEF USBStorage_Reset, Retry, With, Then
<1>2. w \in Same(w)
  BY SameRefl
<1>3. ASSUME NEW a \in Same(w)
      PROVE  Op(a) \in Same(w)
  <2>1. Go(a) \in Same(w)
    BY SameTyped, GoSame, SameTrans
  <2>2. HardReset(Go(a)) \in Same(w)
    BY <2>1, SameTyped, HardResetSame, SameTrans
  <2>3. SoftReset(HardReset(Go(a))) \in Same(w) /\ SoftReset(a) \in Same(w)
    BY <2>2, SameTyped, SoftResetSame, SameTrans
  <2> QED
    BY <2>2, <2>3
<1> HIDE DEF n, Op
<1>4. \A i \in 1 .. n, a \in Same(w) : T[i][a] \in Same(w)
  BY <1>3
<1>5. \E f : Is(f)
  <2>1. PICK f \in [0 .. n -> Same(w)] : f[0] = w /\ \A i \in 1 .. n : f[i] = T[i][f[i - 1]]
    <3> HIDE DEF T
    <3>1. Runs(Same(w), n, w, T)
      BY <1>0, <1>2, <1>4, LoopRuns
    <3> QED
      BY <3>1 DEF Runs
  <2>2. ASSUME NEW i \in 0 .. n
        PROVE  f[i] = IF i = 0 THEN w ELSE Round(i, f[i - 1])
    <3>1. i # 0 => i \in 1 .. n /\ i - 1 \in 0 .. n
      BY <1>0, SMT
    <3>2. i # 0 => f[i - 1] \in Same(w)
      BY <3>1
    <3> HIDE DEF Round
    <3>3. i # 0 => T[i][f[i - 1]] = Round(i, f[i - 1])
      BY <3>1, <3>2
    <3> QED
      BY <2>1, <3>1, <3>3
  <2>3. f = [i \in 0 .. n |-> f[i]]
    OBVIOUS
  <2> QED
    BY <2>2, <2>3
<1>6. Is(g)
  BY <1>5
<1>7. g[1] \in Same(w) /\ \A i \in 2 .. n : g[i - 1] \in Same(w) => g[i] \in Same(w)
  <2>1. \A i \in 0 .. n : g[i] = IF i = 0 THEN w ELSE Round(i, g[i - 1])
    <3> HIDE DEF g, Round
    <3> QED
      BY <1>6
  <2> HIDE DEF g, Round
  <2>2. g[0] = w /\ g[1] = Round(1, g[0])
    BY <1>0, <2>1, SMT
  <2>3. g[1] \in Same(w)
    BY <1>2, <1>3, <2>2 DEF Round
  <2>4. ASSUME NEW i \in 2 .. n, g[i - 1] \in Same(w)
        PROVE  g[i] \in Same(w)
    <3>1. g[i] = Round(i, g[i - 1])
      BY <1>0, <2>1, SMT
    <3>2. g[i - 1] \in Same(w)
      BY <2>4
    <3> QED
      BY <1>3, <2>4, <3>1, <3>2 DEF Round
  <2> QED
    BY <2>3, <2>4
<1> HIDE DEF g
<1>8. g[n] \in Same(w)
  BY <1>0, <1>7, LoopEnds
<1>9. Go(g[n]) \in Same(w)
  BY <1>8, SameTyped, GoSame, SameTrans
<1> QED
  BY <1>1, <1>8, <1>9

\* In the mode of a mounted disk a control message that fails finds no device.
LEMMA ControlFails ==
  ASSUME NEW w \in UsbSet, w.handshake_mode = 0, w.res = "OK", NEW req, NEW val
  PROVE  ehci_control_message(w, req, val).res \in {"OK", "NODEV"}
<1> DEFINE u == Urb("control", req, val, 1)
           x == Counted(w)
           p == ControlStage(x, u)
<1>1. x.handshake_mode = 0 /\ x.res = "OK"
  BY DEF Counted, Unplugged, UsbSet
<1>2. u.ep = "control"
  BY DEF Urb
<1>3. Packets(x, u) = p
  BY <1>2 DEF Packets
<1> HIDE DEF x, u
<1>4. p.handshake_mode = 0 /\ p.res = "OK"
  BY <1>1 DEF ControlStage
<1> HIDE DEF p
<1>5. Go(p).handshake_mode = 0
  BY <1>4 DEF Go
<1>6. Gone(x).res = "NODEV" /\ Silent(x).res = "NODEV" /\ Silent(Go(p)).res = "NODEV"
  BY <1>1, <1>4, <1>5 DEF Silent, Gone, Fail
<1> QED
  BY <1>3, <1>4, <1>6 DEF x, u, ehci_control_message, ehci_do_urb, Exchange, With

\* So a reset of a mounted disk ends with the soft reset: the hard one, after which
\* the code would mount the unit in use once more, is made while mounting only.
LEMMA ResetStaysSoft ==
  ASSUME NEW w \in UsbSet, w.handshake_mode = 0, w.res = "OK"
  PROVE  USBStorage_Reset(w) = SoftReset(w)
<1> DEFINE n == HardResets + 1
<1>0. n \in Nat /\ n > 1
  BY DEF HardResets
<1> DEFINE v == SoftReset(w)
           Up(a) == IF a.res = "OK" THEN a ELSE HardReset(Go(a))
           Op(a) == IF a.res = "NODEV" THEN a ELSE IF Up(a).res = "OK" THEN SoftReset(Up(a)) ELSE Up(a)
           Round(i, a) == IF i > 1 /\ a.res = "OK" THEN a ELSE Op(a)
           f == [i \in 0 .. n |-> IF i = 0 THEN w ELSE v]
           Is(h) == h = [i \in 0 .. n |-> IF i = 0 THEN w ELSE Round(i, h[i - 1])]
           g == CHOOSE h : Is(h)
<1>1. USBStorage_Reset(w) = IF g[n].res = "KEPT" THEN Go(g[n]) ELSE g[n]
  BY Zenon DEF USBStorage_Reset, Retry, With, Then
<1>2. v.res \in {"OK", "NODEV"}
  <2> DEFINE r == ehci_control_message(w, "storage_reset", None)
             i == USB_ClearHalt(r, "in")
  <2>1. r \in Same(w) /\ r.res \in {"OK", "NODEV"}
    BY ControlMessageSame, ControlFails
  <2> HIDE DEF r
  <2>2. r \in UsbSet /\ r.handshake_mode = 0
    BY <2>1, SameTyped DEF Same, Drove, Kept, Carried
  <2>3. i \in Same(r) /\ (r.res = "OK" => i.res \in {"OK", "NODEV"})
    BY <2>2, ControlMessageSame, ControlFails DEF USB_ClearHalt
  <2> HIDE DEF i
  <2>4. i \in UsbSet /\ i.handshake_mode = 0
    BY <2>2, <2>3, SameTyped DEF Same, Drove, Kept, Carried
  <2>5. i.res = "OK" => USB_ClearHalt(i, "out").res \in {"OK", "NODEV"}
    BY <2>4, ControlFails DEF USB_ClearHalt
  <2> QED
    BY <2>1, <2>3, <2>5 DEF SoftReset, Then, r, i
<1>3. Round(1, w) = v /\ \A i \in 2 .. n : Round(i, v) = v
  BY <1>0, <1>2
<1> HIDE DEF n, v, Round
<1>4. Is(f)
  <2>1. ASSUME NEW i \in 0 .. n
        PROVE  f[i] = IF i = 0 THEN w ELSE Round(i, f[i - 1])
    <3>1. CASE i = 0
      BY <3>1
    <3>2. CASE i = 1
      <4>1. f[i] = v /\ f[i - 1] = w
        BY <1>0, <3>2
      <4> QED
        BY <1>3, <3>2, <4>1
    <3>3. CASE i \in 2 .. n
      <4>1. f[i] = v /\ f[i - 1] = v
        BY <1>0, <3>3
      <4> QED
        BY <1>3, <3>3, <4>1
    <3> QED
      BY <1>0, <3>1, <3>2, <3>3
  <2> QED
    BY <2>1
<1>5. Is(g)
  BY <1>4
<1> DEFINE W == {v}
<1>6. g[1] \in W /\ \A i \in 2 .. n : g[i - 1] \in W => g[i] \in W
  <2>1. \A i \in 0 .. n : g[i] = IF i = 0 THEN w ELSE Round(i, g[i - 1])
    <3> HIDE DEF g
    <3> QED
      BY <1>5
  <2> HIDE DEF g
  <2>2. g[0] = w /\ g[1] = Round(1, g[0])
    BY <1>0, <2>1, SMT
  <2>3. ASSUME NEW i \in 2 .. n
        PROVE  g[i] = Round(i, g[i - 1])
    BY <1>0, <2>1, SMT
  <2> QED
    BY <1>3, <2>2, <2>3
<1> HIDE DEF g, W
<1>7. g[n] \in W
  BY <1>0, <1>6, LoopEnds
<1> QED
  BY <1>1, <1>2, <1>7 DEF v, W

\* What a command that does not write makes of w: when it succeeds the host and the
\* device agree, and the capacity has been read.
Commanded(w, cmd) ==
  {x \in Same(w) : x.res = "OK" => Agrees(x) /\ (cmd.op = "capacity" => x.data = Capacity)}

\* One attempt of a command.
LEMMA AttemptSame ==
  ASSUME NEW w \in UsbSet, NEW cmd, CmdOK(cmd), cmd.op # "write"
  PROVE  Attempt(w, cmd) \in Commanded(w, cmd)
<1> DEFINE c == send_cbw(w, cmd)
           d == IF cmd.op = "tur" THEN c ELSE ehci_bulk_message(c, "in", "data", cmd)
           e == read_csw(d, cmd)
<1>1. Attempt(w, cmd) = IF c.res = "OK" THEN IF d.res = "OK" THEN e ELSE d ELSE c
  BY DEF Attempt, Then
<1>2. c \in Same(w) /\ c \in UsbSet /\ (c.res = "OK" => OutAgrees(c))
  <2>1. Fail(w, "ERR") \in Same(w) /\ Fail(w, "ERR").res # "OK"
    BY FailSame DEF Codes, Fail, UsbSet
  <2> QED
    BY <2>1, BulkMessageTransferred, BulkMessageAgrees, SameTyped DEF send_cbw
<1> HIDE DEF c
<1>3. d \in Same(w) /\ (cmd.op = "capacity" /\ d.res = "OK" => d.data = Capacity)
  <2>1. CASE cmd.op = "tur"
    BY <1>2, <2>1
  <2>2. CASE cmd.op # "tur"
    <3>1. d = ehci_bulk_message(c, "in", "data", cmd)
      BY <2>2
    <3>2. d \in Same(c) /\ (d.res = "OK" /\ cmd.op = "capacity" => Answered(c, cmd, d.data))
      BY <1>2, <3>1, BulkMessageTransferred
    <3> HIDE DEF d
    <3> QED
      BY <1>2, <3>2, SameTrans DEF Answered, Capacity
  <2> QED
    BY <2>1, <2>2
<1>4. c.res = "OK" /\ d.res = "OK" => OutAgrees(d)
  <2>1. CASE cmd.op = "tur"
    BY <1>2, <2>1
  <2>2. CASE cmd.op # "tur"
    <3>1. d = ehci_bulk_message(c, "in", "data", cmd)
      BY <2>2
    <3> QED
      BY <1>2, <3>1, BulkMessageAgrees DEF Agrees
  <2> QED
    BY <2>1, <2>2
<1> HIDE DEF d
<1>5. e \in Same(w) /\ e.data = d.data /\ (OutAgrees(d) /\ e.res = "OK" => Agrees(e))
  <2>1. d \in UsbSet
    BY <1>3, SameTyped
  <2> QED
    BY <1>3, <2>1, BulkMessageTransferred, BulkMessageAgrees, SameTrans DEF read_csw
<1> HIDE DEF e
<1> QED
  BY <1>1, <1>2, <1>3, <1>4, <1>5 DEF Commanded

\* A command that is sent again after a reset.
LEMMA AgainSame ==
  ASSUME NEW w \in UsbSet, NEW cmd, CmdOK(cmd), cmd.op # "write"
  PROVE  Again(w, cmd) \in Commanded(w, cmd)
<1> DEFINE r == IF w.res = "OK" THEN w ELSE USBStorage_Reset(Go(w))
           e == Attempt(r, cmd)
<1>1. Again(w, cmd) = IF w.res = "NODEV" THEN Gone(w) ELSE IF r.res = "OK" THEN e ELSE r
  BY DEF Again, Then
<1>2. r \in Same(w) /\ r \in UsbSet
  BY SameRefl, GoSame, SameTyped, StorageResetSame, SameTrans
<1> HIDE DEF r
<1>3. e \in Commanded(r, cmd)
  BY <1>2, AttemptSame
<1>4. e \in Commanded(w, cmd)
  <2> HIDE DEF e
  <2> QED
    BY <1>2, <1>3, SameTrans DEF Commanded
<1>5. Gone(w) \in Same(w) /\ Gone(w).res # "OK"
  BY SilentSame DEF Gone, Fail, UsbSet
<1> QED
  BY <1>1, <1>2, <1>4, <1>5 DEF Commanded

\* What is done after the last attempt.
LEMMA GiveUpSame ==
  ASSUME NEW w \in UsbSet, w.res # "OK"
  PROVE  GiveUp(w) \in Same(w) /\ GiveUp(w).res # "OK"
<1>1. CASE w.handshake_mode = 0
  <2>1. Gone(w).res # "OK"
    BY DEF Gone, Fail, UsbSet
  <2> QED
    BY <1>1, <2>1, SilentSame DEF GiveUp
<1>2. CASE w.handshake_mode # 0 /\ w.handshake_mode = 1 /\ w.res \in {"TIMEDOUT", "NODEV"}
  BY <1>2, SameRefl DEF GiveUp
<1>3. CASE w.handshake_mode # 0 /\ ~(w.handshake_mode = 1 /\ w.res \in {"TIMEDOUT", "NODEV"})
  <2> DEFINE r == USBStorage_Reset(Go(w))
             s == IF r.res = "TIMEDOUT" THEN r.res ELSE w.res
  <2>1. GiveUp(w) = Fail(r, s)
    BY <1>3 DEF GiveUp, With
  <2>2. r \in Same(w) /\ r \in UsbSet
    BY GoSame, SameTyped, StorageResetSame, SameTrans
  <2> HIDE DEF r
  <2>3. s \in Codes /\ s # "OK"
    BY DEF UsbSet, Codes
  <2> HIDE DEF s
  <2>4. Fail(r, s) \in Same(w)
    BY <2>2, <2>3, FailSame, SameTrans
  <2>5. Fail(r, s).res # "OK"
    BY <2>2, <2>3 DEF Fail, UsbSet
  <2> QED
    BY <1>3, <2>1, <2>4, <2>5
<1> QED
  BY <1>1, <1>2, <1>3

\* A command with its ten attempts.
LEMMA CycleSame ==
  ASSUME NEW w \in UsbSet, NEW cmd, CmdOK(cmd), cmd.op # "write"
  PROVE  Cycle(w, cmd) \in Commanded(w, cmd)
<1> DEFINE n == USBSTORAGE_CYCLE_RETRIES + 1
<1>0. n \in Nat /\ n > 1
  BY DEF USBSTORAGE_CYCLE_RETRIES
<1> DEFINE Op(a) == Again(a, cmd)
           Round(i, a) == IF i > 1 /\ a.res = "OK" THEN a ELSE Op(a)
           Is(f) == f = [i \in 0 .. n |-> IF i = 0 THEN w ELSE Round(i, f[i - 1])]
           g == CHOOSE f : Is(f)
           T == [i \in 1 .. n |-> [a \in Same(w) |-> Round(i, a)]]
<1>1. Cycle(w, cmd) = IF g[n].res = "OK" THEN g[n] ELSE GiveUp(g[n])
  BY Zenon DEF Cycle, Retry, With, Else
<1>2. w \in Same(w)
  BY SameRefl
<1>3. ASSUME NEW a \in Same(w)
      PROVE  Op(a) \in Commanded(w, cmd)
  <2>1. a \in UsbSet
    BY SameTyped
  <2>2. Again(a, cmd) \in Commanded(a, cmd)
    BY <2>1, AgainSame
  <2> QED
    BY <2>2, SameTrans DEF Commanded
<1> HIDE DEF n, Op
<1>4. \A i \in 1 .. n, a \in Same(w) : T[i][a] \in Same(w)
  BY <1>3 DEF Commanded
<1>5. \E f : Is(f)
  <2>1. PICK f \in [0 .. n -> Same(w)] : f[0] = w /\ \A i \in 1 .. n : f[i] = T[i][f[i - 1]]
    <3> HIDE DEF T
    <3>1. Runs(Same(w), n, w, T)
      BY <1>0, <1>2, <1>4, LoopRuns
    <3> QED
      BY <3>1 DEF Runs
  <2>2. ASSUME NEW i \in 0 .. n
        PROVE  f[i] = IF i = 0 THEN w ELSE Round(i, f[i - 1])
    <3>1. i # 0 => i \in 1 .. n /\ i - 1 \in 0 .. n
      BY <1>0, SMT
    <3>2. i # 0 => f[i - 1] \in Same(w)
      BY <3>1
    <3> HIDE DEF Round
    <3>3. i # 0 => T[i][f[i - 1]] = Round(i, f[i - 1])
      BY <3>1, <3>2
    <3> QED
      BY <2>1, <3>1, <3>3
  <2>3. f = [i \in 0 .. n |-> f[i]]
    OBVIOUS
  <2> QED
    BY <2>2, <2>3
<1>6. Is(g)
  BY <1>5
<1>7. g[1] \in Commanded(w, cmd) /\ \A i \in 2 .. n : g[i - 1] \in Commanded(w, cmd) => g[i] \in Commanded(w, cmd)
  <2>1. \A i \in 0 .. n : g[i] = IF i = 0 THEN w ELSE Round(i, g[i - 1])
    <3> HIDE DEF g, Round
    <3> QED
      BY <1>6
  <2> HIDE DEF g, Round
  <2>2. g[0] = w /\ g[1] = Round(1, g[0])
    BY <1>0, <2>1, SMT
  <2>3. g[1] \in Commanded(w, cmd)
    BY <1>2, <1>3, <2>2 DEF Round
  <2>4. ASSUME NEW i \in 2 .. n, g[i - 1] \in Commanded(w, cmd)
        PROVE  g[i] \in Commanded(w, cmd)
    <3>1. g[i] = Round(i, g[i - 1])
      BY <1>0, <2>1, SMT
    <3>2. g[i - 1] \in Same(w)
      BY <2>4 DEF Commanded
    <3> QED
      BY <1>3, <2>4, <3>1, <3>2 DEF Round
  <2> QED
    BY <2>3, <2>4
<1> HIDE DEF g
<1>8. g[n] \in Commanded(w, cmd)
  BY <1>0, <1>7, LoopEnds
<1>9. g[n] \in Same(w) /\ g[n] \in UsbSet
  BY <1>8, SameTyped DEF Commanded
<1>10. g[n].res # "OK" => GiveUp(g[n]) \in Same(w) /\ GiveUp(g[n]).res # "OK"
  BY <1>9, GiveUpSame, SameTrans
<1> QED
  BY <1>1, <1>8, <1>9, <1>10 DEF Commanded

-----------------------------------------------------------------------------
(* Mounting *)

\* What a check of the unit makes of w.
Checked(w) == {x \in Same(w) : x.res = "OK" => Agrees(x)}

\* What was checked stays so after a function that does not touch the mount.
LEMMA CheckedTrans ==
  ASSUME NEW w, NEW x \in Same(w), NEW y \in Checked(x)
  PROVE  y \in Checked(w)
BY SameTrans DEF Checked

\* A command that moves no sectors.
LEMMA CycleChecked ==
  ASSUME NEW w \in UsbSet, NEW op \in {"tur", "sense", "inquiry", "capacity"}
  PROVE  /\ Cycle(w, OtherCmd(op)) \in Checked(w)
         /\ op = "capacity" /\ Cycle(w, OtherCmd(op)).res = "OK" =>
              Cycle(w, OtherCmd(op)).data = Capacity
<1> DEFINE cmd == OtherCmd(op)
<1>1. CmdOK(cmd) /\ cmd.op = op
  BY DEF OtherCmd, Cmd, CmdOK
<1> HIDE DEF cmd
<1>2. Cycle(w, cmd) \in Commanded(w, cmd)
  BY <1>1, CycleSame
<1>3. /\ Cycle(w, cmd) \in Checked(w)
      /\ op = "capacity" /\ Cycle(w, cmd).res = "OK" => Cycle(w, cmd).data = Capacity
  BY <1>1, <1>2 DEF Commanded, Checked
<1> QED
  BY <1>3 DEF cmd

\* TEST UNIT READY, which is sent up to five times.
LEMMA TestUnitChecked ==
  ASSUME NEW w \in UsbSet
  PROVE  TestUnit(w) \in Checked(w)
<1> DEFINE Op(a) == IF a.res = "NODEV" THEN a ELSE Cycle(Go(a), OtherCmd("tur"))
           Round(i, a) == IF i > 1 /\ a.res = "OK" THEN a ELSE Op(a)
           Is(f) == f = [i \in 0 .. 5 |-> IF i = 0 THEN w ELSE Round(i, f[i - 1])]
           g == CHOOSE f : Is(f)
           T == [i \in 1 .. 5 |-> [a \in Same(w) |-> Round(i, a)]]
<1>1. TestUnit(w) = g[5]
  BY Zenon DEF TestUnit, Retry, With
<1>2. w \in Same(w)
  BY SameRefl
<1>3. ASSUME NEW a \in Same(w)
      PROVE  Op(a) \in Checked(w)
  <2>1. Go(a) \in Same(w) /\ Go(a) \in UsbSet
    BY SameTyped, GoSame, SameTrans
  <2>2. Cycle(Go(a), OtherCmd("tur")) \in Checked(w)
    BY <2>1, CycleChecked, CheckedTrans
  <2> QED
    BY <2>2 DEF Checked
<1> HIDE DEF Op
<1>4. \A i \in 1 .. 5, a \in Same(w) : T[i][a] \in Same(w)
  BY <1>3 DEF Checked
<1>5. \E f : Is(f)
  <2>1. PICK f \in [0 .. 5 -> Same(w)] : f[0] = w /\ \A i \in 1 .. 5 : f[i] = T[i][f[i - 1]]
    <3> HIDE DEF T
    <3>1. Runs(Same(w), 5, w, T)
      BY <1>2, <1>4, LoopRuns
    <3> QED
      BY <3>1 DEF Runs
  <2>2. ASSUME NEW i \in 0 .. 5
        PROVE  f[i] = IF i = 0 THEN w ELSE Round(i, f[i - 1])
    <3>1. i # 0 => i \in 1 .. 5 /\ i - 1 \in 0 .. 5
      BY SMT
    <3>2. i # 0 => f[i - 1] \in Same(w)
      BY <3>1
    <3> HIDE DEF Round
    <3>3. i # 0 => T[i][f[i - 1]] = Round(i, f[i - 1])
      BY <3>1, <3>2
    <3> QED
      BY <2>1, <3>1, <3>3
  <2>3. f = [i \in 0 .. 5 |-> f[i]]
    OBVIOUS
  <2> QED
    BY <2>2, <2>3
<1>6. Is(g)
  BY <1>5
<1>7. g[1] \in Checked(w) /\ \A i \in 2 .. 5 : g[i - 1] \in Checked(w) => g[i] \in Checked(w)
  <2>1. \A i \in 0 .. 5 : g[i] = IF i = 0 THEN w ELSE Round(i, g[i - 1])
    <3> HIDE DEF g, Round
    <3> QED
      BY <1>6
  <2> HIDE DEF g, Round
  <2>2. g[0] = w /\ g[1] = Round(1, g[0])
    BY <2>1, SMT
  <2>3. g[1] \in Checked(w)
    BY <1>2, <1>3, <2>2 DEF Round
  <2>4. ASSUME NEW i \in 2 .. 5, g[i - 1] \in Checked(w)
        PROVE  g[i] \in Checked(w)
    <3>1. g[i] = Round(i, g[i - 1])
      BY <2>1, SMT
    <3>2. g[i - 1] \in Same(w)
      BY <2>4 DEF Checked
    <3> QED
      BY <1>3, <2>4, <3>1, <3>2 DEF Round
  <2> QED
    BY <2>3, <2>4
<1> HIDE DEF g
<1>8. g[5] \in Checked(w)
  BY <1>7, LoopEnds
<1> QED
  BY <1>1, <1>8

\* Memory that is taken and given back.
LEMMA AllocTyped ==
  ASSUME NEW w \in UsbSet
  PROVE  Alloc(w) \in UsbSet /\ Free(w) \in UsbSet
<1>1. w.allocs + 1 \in Int /\ w.allocs - 1 \in Int
  BY DEF UsbSet
<1>2. ASSUME NEW n \in Int
      PROVE  [w EXCEPT !.allocs = n] \in UsbSet
  BY DEF UsbSet
<1> QED
  BY <1>1, <1>2 DEF Alloc, Free

\* Nothing else changes.
LEMMA FreeKept ==
  ASSUME NEW w \in UsbSet
  PROVE  /\ Alloc(w) \in UsbSet /\ Kept(w, Alloc(w)) /\ Alloc(w).allocs = w.allocs + 1
         /\ Alloc(w).old_udd = w.old_udd /\ Alloc(w).usbfd = w.usbfd /\ Alloc(w).res = w.res
         /\ Free(w) \in UsbSet /\ Kept(w, Free(w)) /\ Free(w).allocs = w.allocs - 1
         /\ Free(w).old_udd = w.old_udd /\ Free(w).usbfd = w.usbfd /\ Free(w).res = w.res
<1>1. ASSUME NEW n \in Int, NEW x, x = [w EXCEPT !.allocs = n]
      PROVE  /\ x.allocs = n /\ x.old_udd = w.old_udd /\ x.usbfd = w.usbfd /\ x.res = w.res
             /\ Kept(w, x)
  <2>1. /\ x.allocs = n /\ x.old_udd = w.old_udd /\ x.usbfd = w.usbfd /\ x.res = w.res
        /\ x.media = w.media
    BY <1>1 DEF UsbSet
  <2>2. Carried(w, x)
    BY <1>1 DEF Carried, Out, UsbSet
  <2> QED
    BY <2>1, <2>2 DEF Kept
<1>2. w.allocs + 1 \in Int /\ w.allocs - 1 \in Int
  BY DEF UsbSet
<1>3. Alloc(w) = [w EXCEPT !.allocs = w.allocs + 1] /\ Free(w) = [w EXCEPT !.allocs = w.allocs - 1]
  BY DEF Alloc, Free
<1> QED
  BY <1>1, <1>2, <1>3, AllocTyped

\* A buffer that a function of the driver takes and gives back.
LEMMA FreeChecked ==
  ASSUME NEW w \in UsbSet, NEW x \in Same(Alloc(w))
  PROVE  /\ Free(x) \in Same(w) /\ Free(x).res = x.res /\ Free(x).data = x.data
         /\ Agrees(x) => Agrees(Free(x))
<1>1. x \in UsbSet
  BY SameTyped
<1>2. /\ Free(x).allocs = x.allocs - 1 /\ Free(x).dev = x.dev /\ Free(x).port = x.port
      /\ Free(x).id = x.id /\ Free(x).tog = x.tog
  BY <1>1 DEF Free, UsbSet
<1>3. x.allocs = w.allocs + 1
  BY DEF Same, Drove, Kept, Alloc, UsbSet
<1>4. Free(x).allocs = w.allocs
  BY <1>2, <1>3 DEF UsbSet
<1>5. Kept(w, Free(x)) /\ Free(x).usbfd = w.usbfd /\ Free(x).old_udd = w.old_udd
  BY <1>1 DEF Same, Drove, Kept, Carried, Out, Alloc, Free, UsbSet
<1>6. Free(x) \in Same(w)
  BY <1>1, <1>4, <1>5, AllocTyped DEF Same, Drove, Kept
<1>7. Free(x).res = x.res /\ Free(x).data = x.data
  BY <1>1 DEF Free, UsbSet
<1> QED
  BY <1>2, <1>6, <1>7 DEF Agrees, OutAgrees

\* __usbstorage_clearerrors: TEST UNIT READY, and REQUEST SENSE when it is refused.
LEMMA ClearErrorsChecked ==
  ASSUME NEW w \in UsbSet
  PROVE  clearerrors(w) \in Checked(w)
<1> DEFINE t == TestUnit(Alloc(w))
           s == Cycle(t, OtherCmd("sense"))
           u == IF t.res = "OK" THEN IF t.status = 0 THEN t ELSE s ELSE t
<1>1. clearerrors(w) = Free(u)
  BY DEF clearerrors, Then
<1>2. t \in Checked(Alloc(w)) /\ t \in UsbSet
  <2>1. t \in Checked(Alloc(w))
    BY AllocTyped, TestUnitChecked
  <2> HIDE DEF t
  <2> QED
    BY <2>1, SameTyped DEF Checked
<1> HIDE DEF t
<1>3. s \in Checked(Alloc(w))
  BY <1>2, CycleChecked, CheckedTrans DEF Checked
<1>4. u \in Checked(Alloc(w))
  BY <1>2, <1>3
<1> HIDE DEF u
<1> QED
  BY <1>1, <1>4, FreeChecked DEF Checked

\* USBStorage_Inquiry.
LEMMA InquiryChecked ==
  ASSUME NEW w \in UsbSet
  PROVE  USBStorage_Inquiry(w) \in Checked(w)
<1> DEFINE c == Cycle(Alloc(w), OtherCmd("inquiry"))
<1>1. c \in Checked(Alloc(w))
  BY AllocTyped, CycleChecked
<1>2. USBStorage_Inquiry(w) = Free(c)
  BY DEF USBStorage_Inquiry
<1> HIDE DEF c
<1> QED
  BY <1>1, <1>2, FreeChecked DEF Checked

\* What mounting the unit of an open device makes of w: of the handle only the size
\* may change.
Lun(w) ==
  {x \in UsbSet :
     /\ Kept(w, x) /\ x.allocs = w.allocs /\ x.old_udd = w.old_udd
     /\ x.usbfd.buffer = w.usbfd.buffer /\ x.usbfd.usb_fd = w.usbfd.usb_fd
     /\ x.res = "OK" => Agrees(x)}

\* The steps of mounting a unit, one after the other.
LEMMA LunTrans ==
  ASSUME NEW w
  PROVE  /\ \A x \in Same(w) : \A y \in Lun(x) : y \in Lun(w)
         /\ \A x \in Lun(w) : \A y \in Same(x) : (y.res = "OK" => Agrees(y)) => y \in Lun(w)
         /\ \A x \in Lun(w) : \A y \in Lun(x) : y \in Lun(w)
         /\ Checked(w) \subseteq Lun(w)
BY DEF Lun, Same, Drove, Kept, Carried, Checked

\* READ CAPACITY puts the size of the disk into the handle.
LEMMA ReadCapacityLun ==
  ASSUME NEW w \in UsbSet
  PROVE  USBStorage_ReadCapacity(w) \in Lun(w)
<1> DEFINE c == Cycle(Alloc(w), OtherCmd("capacity"))
           d == Free(c)
           e == [d EXCEPT !.usbfd = [d.usbfd EXCEPT !.size = NSect]]
<1>1. c \in Checked(Alloc(w)) /\ (c.res = "OK" => c.data = Capacity)
  BY AllocTyped, CycleChecked
<1>2. d \in Same(w) /\ d.res = c.res /\ d.data = c.data /\ (Agrees(c) => Agrees(d))
  <2> HIDE DEF c
  <2> QED
    BY <1>1, FreeChecked DEF Checked
<1>3. USBStorage_ReadCapacity(w) =
        IF d.res = "OK" THEN [d EXCEPT !.usbfd.size = d.data[1][2]] ELSE d
  BY DEF USBStorage_ReadCapacity, Then
<1>4. d.res = "OK" => Agrees(d) /\ d.data[1][2] = NSect
  <2>1. Capacity[1][2] = NSect
    BY DEF Capacity
  <2> HIDE DEF c, d
  <2>2. d.res = "OK" => Agrees(d) /\ d.data = Capacity
    BY <1>1, <1>2 DEF Checked
  <2> QED
    BY <2>1, <2>2
<1> HIDE DEF c, d
<1>5. d \in UsbSet
  BY <1>2, SameTyped
<1>6. d.res = "OK" => USBStorage_ReadCapacity(w) = e
  BY <1>3, <1>4, <1>5 DEF UsbSet, Handles
<1>7. e \in UsbSet /\ e.usbfd.buffer = d.usbfd.buffer /\ e.usbfd.usb_fd = d.usbfd.usb_fd
  <2>1. d.usbfd \in Handles
    BY <1>5 DEF UsbSet
  <2>2. [d.usbfd EXCEPT !.size = NSect] \in Handles
    BY <2>1 DEF Handles
  <2>3. /\ [d.usbfd EXCEPT !.size = NSect].buffer = d.usbfd.buffer
        /\ [d.usbfd EXCEPT !.size = NSect].usb_fd = d.usbfd.usb_fd
    BY <2>1 DEF Handles
  <2> QED
    BY ZenonT(40), <1>5, <2>2, <2>3 DEF UsbSet
<1>8. d.res = "OK" => e \in Lun(w)
  <2>1. Kept(w, e) /\ e.allocs = w.allocs /\ e.old_udd = w.old_udd
    BY <1>2, <1>5 DEF Same, Drove, Kept, Carried, Out, UsbSet
  <2>2. d.res = "OK" => Agrees(e)
    BY <1>4, <1>5 DEF Agrees, OutAgrees, UsbSet
  <2>3. d.usbfd = w.usbfd
    BY <1>2 DEF Same, Drove, Kept
  <2> HIDE DEF e
  <2> QED
    BY <1>7, <2>1, <2>2, <2>3 DEF Lun
<1>9. d.res # "OK" => d \in Lun(w)
  BY <1>2, LunTrans DEF Checked
<1> QED
  BY <1>3, <1>6, <1>8, <1>9

\* Mounting a unit: clear errors, inquire, ask for the capacity.
LEMMA MountLUNLun ==
  ASSUME NEW w \in UsbSet
  PROVE  USBStorage_MountLUN(w) \in Lun(w)
<1> DEFINE y == [w EXCEPT !.handshake_mode = 1]
           e == clearerrors(y)
           i == USBStorage_Inquiry(e)
           c == USBStorage_ReadCapacity(i)
           m == IF e.res = "OK" THEN IF i.res = "OK" THEN c ELSE i ELSE e
           r == [m EXCEPT !.handshake_mode = w.handshake_mode]
<1>1. USBStorage_MountLUN(w) = r
  BY DEF USBStorage_MountLUN, With, Then
<1>2. y \in UsbSet
  <2>1. 1 \in {0, 1}
    OBVIOUS
  <2> QED
    BY <2>1, DriverTyped
<1>3. m \in Lun(y)
  <2> HIDE DEF y
  <2>1. e \in Checked(y) /\ e \in UsbSet /\ e \in Same(y)
    BY <1>2, ClearErrorsChecked, SameTyped DEF Checked
  <2> HIDE DEF e
  <2>2. i \in Checked(y) /\ i \in UsbSet /\ i \in Same(y)
    BY <2>1, InquiryChecked, CheckedTrans, SameTyped DEF Checked
  <2> HIDE DEF i
  <2>3. c \in Lun(y)
    BY <2>2, ReadCapacityLun, LunTrans
  <2> HIDE DEF c
  <2> QED
    BY <2>1, <2>2, <2>3, LunTrans
<1> HIDE DEF m
<1>4. m \in UsbSet /\ m.allocs = w.allocs /\ m.old_udd = w.old_udd
      /\ m.usbfd.buffer = w.usbfd.buffer /\ m.usbfd.usb_fd = w.usbfd.usb_fd
  BY <1>3 DEF Lun, UsbSet
<1>5. r \in UsbSet /\ r.allocs = m.allocs /\ r.old_udd = m.old_udd /\ r.usbfd = m.usbfd
      /\ r.res = m.res
  BY <1>4 DEF UsbSet
<1>6. Kept(w, r)
  <2>1. Kept(y, m)
    BY <1>3 DEF Lun
  <2>2. Out(y) = Out(w) /\ Out(r) = Out(m)
    BY <1>4 DEF Out, UsbSet
  <2> QED
    BY <1>4, <2>1, <2>2 DEF Kept, Carried, UsbSet
<1>7. r.res = "OK" => Agrees(r)
  <2>1. r.res = "OK" => Agrees(m)
    BY <1>3, <1>5 DEF Lun
  <2> QED
    BY <1>4, <2>1 DEF Agrees, OutAgrees, UsbSet
<1> HIDE DEF r
<1> QED
  BY <1>1, <1>4, <1>5, <1>6, <1>7 DEF Lun

\* The unit is tried twice.
LEMMA MountAnyLun ==
  ASSUME NEW w \in UsbSet
  PROVE  MountAny(w) \in Lun(w)
<1> DEFINE m == USBStorage_MountLUN(w)
           c == Go(ehci_control_message(Go(m), "max_lun", None))
           n == USBStorage_MountLUN(c)
<1>1. MountAny(w) = IF m.res = "OK" THEN m ELSE IF m.res = "TIMEDOUT" THEN m ELSE n
  BY DEF MountAny, Else
<1>2. m \in Lun(w) /\ m \in UsbSet
  BY MountLUNLun DEF Lun
<1> HIDE DEF m
<1>3. c \in Same(m) /\ c \in UsbSet
  <2>1. Go(m) \in Same(m) /\ Go(m) \in UsbSet
    BY <1>2, GoSame, SameTyped
  <2>2. ehci_control_message(Go(m), "max_lun", None) \in Same(m)
    BY <2>1, ControlMessageSame, SameTrans
  <2> QED
    BY <2>2, SameTyped, GoSame, SameTrans
<1> HIDE DEF c
<1>4. n \in Lun(w)
  <2>1. n \in Lun(m)
    BY <1>3, MountLUNLun, LunTrans
  <2> QED
    BY <1>2, <2>1, LunTrans
<1> QED
  BY <1>1, <1>2, <1>4

\* What is kept by two functions is kept by both.
LEMMA KeptTrans ==
  ASSUME NEW w, NEW x, NEW y, Kept(w, x), Kept(x, y)
  PROVE  Kept(w, y)
BY DEF Kept, Carried

\* The first request that a device has to answer.
LEMMA GetDescriptorAgrees ==
  ASSUME NEW w \in UsbSet, GetDescriptor(w).res = "OK"
  PROVE  /\ w.port # None /\ GetDescriptor(w).port = w.port
         /\ Agrees(w) => Agrees(GetDescriptor(w))
<1> DEFINE u == Urb("control", "descriptor", None, 1)
<1>1. GetDescriptor(w) = ehci_do_urb(w, w.id, u)
  BY DEF GetDescriptor, ehci_control_message
<1>2. UrbOK(u) /\ u.ep = "control" /\ u.req = "descriptor"
  BY DEF UrbOK, Urb
<1> HIDE DEF u
<1> QED
  BY <1>1, <1>2, UrbAgrees

\* What USB_GetDescriptors and what USB_FreeDescriptors change besides the blocks.
LEMMA UddSame ==
  ASSUME NEW w \in UsbSet, NEW x, NEW b \in BOOLEAN,
         x \in {[w EXCEPT !.udd = b], [w EXCEPT !.refreed = b]}
  PROVE  x \in Same(w) /\ x \in UsbSet /\ x.port = w.port /\ x.res = w.res
<1>1. x \in UsbSet
  BY DEF UsbSet
<1>2. /\ Carried(w, x) /\ x.media = w.media /\ x.allocs = w.allocs /\ x.usbfd = w.usbfd
      /\ x.old_udd = w.old_udd /\ x.port = w.port /\ x.res = w.res
  BY DEF Carried, Out, UsbSet
<1> HIDE DEF Carried
<1> QED
  BY <1>1, <1>2 DEF Same, Drove

\* The three requests for descriptors; the device is there when they succeed, and the
\* blocks of the descriptors are left.
Described(w) ==
  {x \in UsbSet :
     /\ Kept(w, x) /\ x.usbfd = w.usbfd /\ x.old_udd = w.old_udd
     /\ x.res = "OK" => x.allocs = w.allocs + 1 /\ w.port # None /\ x.port = w.port
     /\ x.res # "OK" => x.allocs = w.allocs}

\* USB_GetDescriptors, however it ends.
LEMMA GetDescriptorsSame ==
  ASSUME NEW w \in UsbSet
  PROVE  USB_GetDescriptors(w) \in Described(w)
<1> DEFINE d == GetDescriptor(w)
           g == [d EXCEPT !.refreed = d.refreed \/ d.udd]
           v == [d EXCEPT !.udd = TRUE]
           y == Alloc(v)
           x == Go(GetDescriptor(y))
           e == GetDescriptor(x)
           f == Free(e)
           all == IF d.res # "OK" THEN g ELSE IF e.res = "OK" THEN e ELSE f
<1>1. USB_GetDescriptors(w) = all
  BY DEF USB_GetDescriptors, USB_FreeDescriptors, With, Else
<1>2. d \in Same(w) /\ d \in UsbSet
  BY ControlMessageSame, SameTyped
<1> HIDE DEF d
<1>3. CASE d.res # "OK"
  <2>1. d.refreed \/ d.udd \in BOOLEAN
    BY <1>2 DEF UsbSet
  <2>2. g \in Same(w) /\ g \in UsbSet /\ g.res # "OK"
    BY <1>2, <1>3, <2>1, UddSame, SameTrans
  <2>3. all = g
    BY <1>3
  <2> HIDE DEF g, all
  <2> QED
    BY <1>1, <2>2, <2>3 DEF Described, Same, Drove, Kept
<1>4. CASE d.res = "OK"
  <2>1. v \in Same(w) /\ v \in UsbSet
    BY <1>2, UddSame, SameTrans
  <2> HIDE DEF v
  <2>2. /\ y \in UsbSet /\ Kept(w, y) /\ y.allocs = w.allocs + 1 /\ y.usbfd = w.usbfd
        /\ y.old_udd = w.old_udd
    BY <2>1, FreeKept, KeptTrans DEF Same, Drove, Kept
  <2> HIDE DEF y
  <2>3. x \in Same(y) /\ x \in UsbSet
    <3>1. GetDescriptor(y) \in Same(y)
      BY <2>2, ControlMessageSame
    <3> QED
      BY <2>2, <3>1, SameTyped, GoSame, SameTrans
  <2> HIDE DEF x
  <2>4. e \in Same(y) /\ e \in UsbSet
    BY <2>3, ControlMessageSame, SameTrans, SameTyped
  <2>5. e.res = "OK" => x.port # None /\ e.port = x.port
    BY <2>3, GetDescriptorAgrees
  <2>6. e.res = "OK" => w.port # None /\ e.port = w.port
    BY <2>2, <2>3, <2>5 DEF Same, Drove, Kept, Carried
  <2> HIDE DEF e
  <2>7. /\ Kept(w, e) /\ e.allocs = w.allocs + 1 /\ e.usbfd = w.usbfd
        /\ e.old_udd = w.old_udd
    BY <2>2, <2>4, KeptTrans DEF Same, Drove, Kept
  <2>10. w.allocs \in Int
    BY DEF UsbSet
  <2>8. /\ f \in UsbSet /\ Kept(w, f) /\ f.allocs = w.allocs /\ f.usbfd = w.usbfd
        /\ f.old_udd = w.old_udd /\ f.res = e.res
    BY <2>4, <2>7, <2>10, FreeKept, KeptTrans
  <2>9. all = IF e.res = "OK" THEN e ELSE f
    BY <1>4
  <2> HIDE DEF f, all
  <2> QED
    BY <1>1, <2>4, <2>6, <2>7, <2>8, <2>9 DEF Described
<1> QED
  BY <1>3, <1>4

\* A device that is configured gets a buffer.
LEMMA ConfigureKept ==
  ASSUME NEW w \in UsbSet
  PROVE  /\ Configure(w) \in UsbSet /\ Kept(w, Configure(w))
         /\ Configure(w).old_udd = w.old_udd
         /\ Configure(w).res = "OK" =>
              Configure(w).usbfd.buffer /\ Configure(w).allocs = w.allocs + 1
         /\ Configure(w).res # "OK" =>
              Configure(w).usbfd = w.usbfd /\ Configure(w).allocs = w.allocs
<1> DEFINE a == USB_GetConfiguration(w)
           b == USB_SetConfiguration(a)
           e == IF a.res = "OK" THEN b ELSE a
           c == IF e.res = "OK" THEN e ELSE Fail(e, "ERR")
           r == USBStorage_Reset(c)
           h == [r.usbfd EXCEPT !.buffer = TRUE]
           k == Alloc([r EXCEPT !.usbfd = h])
<1>1. Configure(w) = IF c.res = "OK" THEN IF r.res = "OK" THEN Alloc([r EXCEPT !.usbfd.buffer = TRUE])
                                          ELSE r ELSE c
  BY DEF Configure, Then, Else
<1>2. e \in Same(w) /\ e \in UsbSet
  <2>1. a \in Same(w) /\ a \in UsbSet
    BY ControlMessageSame, SameTyped
  <2> HIDE DEF a
  <2>2. b \in Same(w) /\ b \in UsbSet
    BY <2>1, ControlMessageSame, SameTyped, SameTrans
  <2> HIDE DEF b
  <2> QED
    BY <2>1, <2>2
<1> HIDE DEF e
<1>3. c \in Same(w) /\ c \in UsbSet
  <2>1. Fail(e, "ERR") \in Same(w) /\ Fail(e, "ERR") \in UsbSet
    BY <1>2, FailSame, SameTrans, SameTyped DEF Codes
  <2> QED
    BY <1>2, <2>1
<1> HIDE DEF c
<1>4. r \in Same(w) /\ r \in UsbSet
  BY <1>3, StorageResetSame, SameTrans, SameTyped
<1> HIDE DEF r
<1>5. r.usbfd \in Handles /\ h \in Handles /\ h.buffer
  <2>1. r.usbfd \in Handles
    BY <1>4 DEF UsbSet
  <2> QED
    BY <2>1 DEF Handles
<1>6. Configure(w) = IF c.res = "OK" THEN IF r.res = "OK" THEN k ELSE r ELSE c
  BY <1>1, <1>4 DEF UsbSet
<1> HIDE DEF h
<1>7. /\ k \in UsbSet /\ Kept(w, k) /\ k.old_udd = w.old_udd /\ k.res = r.res
      /\ k.usbfd = h /\ k.allocs = w.allocs + 1
  <2> DEFINE j == [r EXCEPT !.usbfd = h]
  <2>1. j \in UsbSet /\ Kept(r, j) /\ j.old_udd = r.old_udd /\ j.res = r.res
        /\ j.usbfd = h /\ j.allocs = r.allocs
    BY <1>4, <1>5 DEF Kept, Carried, Out, UsbSet
  <2> HIDE DEF j
  <2>2. k = Alloc(j) /\ k \in UsbSet
    BY <2>1, AllocTyped DEF j
  <2>3. Kept(j, k) /\ k.old_udd = j.old_udd /\ k.res = j.res /\ k.usbfd = j.usbfd
        /\ k.allocs = j.allocs + 1
    BY <2>1, <2>2, FreeKept
  <2>4. Kept(w, r) /\ r.old_udd = w.old_udd /\ r.allocs = w.allocs
    BY <1>4 DEF Same, Drove, Kept
  <2> HIDE DEF k
  <2> QED
    BY <2>1, <2>2, <2>3, <2>4, KeptTrans
<1> HIDE DEF k
<1> QED
  BY <1>3, <1>4, <1>5, <1>6, <1>7 DEF Same, Drove, Kept

\* What opening the device makes of a driver that has no buffer.  A device of another
\* model than the mounted one is refused.
Opened(w) ==
  {x \in UsbSet :
     /\ Kept(w, x)
     /\ x.res = "OK" =>
          /\ x.usbfd.buffer /\ x.allocs = 1
          /\ w.port # None /\ x.old_udd = Model[w.port]
          /\ w.ums_init_done => w.old_udd = Model[w.port]
     /\ x.res # "OK" => ~x.usbfd.buffer /\ x.allocs = 0
     /\ w.ums_init_done => x.old_udd = w.old_udd}

\* A handle without a buffer is closed.
LEMMA CloseEmpty ==
  ASSUME NEW w \in UsbSet, ~w.usbfd.buffer
  PROVE  /\ USBStorage_Close(w) \in UsbSet /\ Kept(w, USBStorage_Close(w))
         /\ USBStorage_Close(w).old_udd = w.old_udd /\ ~USBStorage_Close(w).usbfd.buffer
         /\ USBStorage_Close(w).allocs = w.allocs /\ USBStorage_Close(w).res = w.res
<1>1. USBStorage_Close(w) = [w EXCEPT !.usbfd = NoHandle]
  BY DEF USBStorage_Close, With
<1>2. NoHandle \in Handles /\ ~NoHandle.buffer
  BY DEF NoHandle, Handles
<1> HIDE DEF NoHandle
<1> QED
  BY <1>1, <1>2 DEF Kept, Carried, Out, UsbSet

\* Of a result only res is set.
LEMMA FailKept ==
  ASSUME NEW w \in UsbSet, NEW r \in Codes
  PROVE  /\ Fail(w, r) \in UsbSet /\ Kept(w, Fail(w, r)) /\ Fail(w, r).res = r
         /\ Fail(w, r).allocs = w.allocs /\ Fail(w, r).usbfd = w.usbfd
         /\ Fail(w, r).old_udd = w.old_udd
BY DEF Fail, Kept, Carried, Out, UsbSet

\* The model that is noted.
LEMMA ModelSet ==
  ASSUME NEW d \in UsbSet, NEW m \in {Model[x] : x \in Device}
  PROVE  LET z == [d EXCEPT !.old_udd = m]
         IN  /\ z \in UsbSet /\ Kept(d, z) /\ z.allocs = d.allocs /\ z.usbfd = d.usbfd
             /\ z.old_udd = m
<1> DEFINE z == [d EXCEPT !.old_udd = m]
<1>1. z \in UsbSet
  BY DEF UsbSet
<1>2. z.allocs = d.allocs /\ z.usbfd = d.usbfd /\ z.old_udd = m /\ z.media = d.media
  BY DEF UsbSet
<1>3. Carried(d, z)
  BY DEF Carried, Out, UsbSet
<1> HIDE DEF z
<1> QED
  BY <1>1, <1>2, <1>3 DEF Kept, z

\* USBStorage_Open, however it ends.
LEMMA OpenOpened ==
  ASSUME NEW w \in UsbSet, w.allocs = 0
  PROVE  USBStorage_Open(w) \in Opened(w)
<1> DEFINE h == [NoHandle EXCEPT !.usb_fd = TRUE]
           v == [w EXCEPT !.usbfd = h]
           y == Alloc(v)
           d == USB_GetDescriptors(y)
           z == [d EXCEPT !.old_udd = Model[d.port]]
           j == Free(z)
           e == IF d.res = "OK" THEN Configure(j) ELSE d
           f == Free(e)
           m == Free(Free(d))
           n == Fail(m, "NODEV")
           all == IF d.res = "OK" /\ ~SameModel(d) THEN n
                  ELSE IF f.res = "OK" THEN f ELSE USBStorage_Close(f)
<1>1. USBStorage_Open(w) = all
  BY DEF USBStorage_Open, USB_FreeDescriptors, With, Then, Else
<1>2. /\ y \in UsbSet /\ Kept(w, y) /\ y.allocs = 1 /\ ~y.usbfd.buffer
      /\ y.old_udd = w.old_udd
  <2>1. h \in Handles /\ ~h.buffer
    BY DEF NoHandle, Handles
  <2> HIDE DEF h
  <2>2. v \in UsbSet /\ Kept(w, v) /\ v.usbfd = h /\ v.allocs = 0 /\ v.old_udd = w.old_udd
    BY <2>1 DEF Kept, Carried, Out, UsbSet
  <2> HIDE DEF v
  <2> QED
    BY <2>1, <2>2, FreeKept, KeptTrans
<1> HIDE DEF y
<1>3. /\ d \in UsbSet /\ Kept(w, d) /\ ~d.usbfd.buffer /\ d.old_udd = w.old_udd
      /\ d.res = "OK" => d.allocs = 2 /\ w.port # None /\ d.port = w.port
      /\ d.res # "OK" => d.allocs = 1
  <2>1. d \in Described(y)
    BY <1>2, GetDescriptorsSame
  <2>2. y.port \in {w.port, None}
    BY <1>2 DEF Kept, Carried
  <2> HIDE DEF d
  <2> QED
    BY <1>2, <2>1, <2>2, KeptTrans DEF Described
<1>4. SameModel(d) <=> (~w.ums_init_done \/ w.old_udd = Model[d.port])
  BY <1>3 DEF SameModel, Kept, Carried
<1> HIDE DEF d
<1>5. CASE d.res = "OK" /\ ~SameModel(d)
  <2>1. /\ m \in UsbSet /\ Kept(d, m) /\ m.allocs = 0 /\ ~m.usbfd.buffer
        /\ m.old_udd = w.old_udd
    <3>1. /\ Free(d) \in UsbSet /\ Kept(d, Free(d)) /\ Free(d).allocs = 1
          /\ ~Free(d).usbfd.buffer /\ Free(d).old_udd = w.old_udd
      BY <1>3, <1>5, FreeKept
    <3> QED
      BY <3>1, FreeKept, KeptTrans
  <2> HIDE DEF m
  <2>2. n \in UsbSet /\ Kept(w, n) /\ n.res # "OK" /\ ~n.usbfd.buffer /\ n.allocs = 0
        /\ n.old_udd = w.old_udd
    BY <1>3, <2>1, FailKept, KeptTrans DEF Codes
  <2> HIDE DEF n
  <2> QED
    BY <1>1, <1>5, <2>2 DEF Opened
<1>6. CASE ~(d.res = "OK" /\ ~SameModel(d))
  <2>1. /\ e \in UsbSet /\ Kept(w, e)
        /\ w.ums_init_done => e.old_udd = w.old_udd
        /\ e.res = "OK" =>
             /\ e.usbfd.buffer /\ e.allocs = 2 /\ w.port # None
             /\ e.old_udd = Model[w.port] /\ (w.ums_init_done => w.old_udd = Model[w.port])
        /\ e.res # "OK" => ~e.usbfd.buffer /\ e.allocs = 1
    <3>1. CASE d.res # "OK"
      BY <1>3, <3>1
    <3>2. CASE d.res = "OK"
      <4>1. d.port \in Device /\ d.port = w.port /\ w.port # None
        BY <1>3, <3>2 DEF UsbSet
      <4>2. z \in UsbSet /\ Kept(d, z) /\ z.allocs = d.allocs /\ z.usbfd = d.usbfd
            /\ z.old_udd = Model[w.port]
        <5>1. d \in UsbSet /\ Model[w.port] \in {Model[x] : x \in Device} /\ d.port = w.port
          BY <1>3, <4>1
        <5> QED
          BY <5>1, ModelSet
      <4> HIDE DEF z
      <4>10. /\ j \in UsbSet /\ Kept(w, j) /\ j.allocs = 1 /\ ~j.usbfd.buffer
             /\ j.old_udd = Model[w.port]
        BY <1>3, <3>2, <4>2, FreeKept, KeptTrans
      <4> HIDE DEF j
      <4>3. Kept(w, Configure(j))
        BY <4>10, ConfigureKept, KeptTrans
      <4>4. e = Configure(j)
        BY <3>2
      <4>5. w.ums_init_done => w.old_udd = Model[w.port]
        BY <1>4, <1>6, <3>2, <4>1
      <4>6. Configure(j) \in UsbSet
        BY <4>10, ConfigureKept
      <4>7. Configure(j).old_udd = Model[w.port]
        BY <4>10, ConfigureKept
      <4>8. Configure(j).res = "OK" => Configure(j).usbfd.buffer /\ Configure(j).allocs = 2
        BY <4>10, ConfigureKept
      <4>9. Configure(j).res # "OK" => ~Configure(j).usbfd.buffer /\ Configure(j).allocs = 1
        BY <4>10, ConfigureKept
      <4> HIDE DEF e
      <4> QED
        BY <4>1, <4>3, <4>4, <4>5, <4>6, <4>7, <4>8, <4>9
    <3> QED
      BY <3>1, <3>2
  <2> HIDE DEF e
  <2>2. /\ f \in UsbSet /\ Kept(w, f) /\ f.allocs = e.allocs - 1
        /\ f.old_udd = e.old_udd /\ f.usbfd = e.usbfd /\ f.res = e.res
    BY <2>1, FreeKept, KeptTrans
  <2> HIDE DEF f
  <2>3. CASE f.res = "OK"
    <3>1. all = f
      BY <1>6, <2>3
    <3>2. f \in Opened(w)
      BY <2>1, <2>2, <2>3 DEF Opened
    <3> HIDE DEF all
    <3> QED
      BY <1>1, <3>1, <3>2
  <2>4. CASE f.res # "OK"
    <3> DEFINE c == USBStorage_Close(f)
    <3>1. all = c
      BY <1>6, <2>4
    <3>2. /\ c \in UsbSet /\ Kept(w, c) /\ c.old_udd = f.old_udd /\ ~c.usbfd.buffer
          /\ c.allocs = 0 /\ c.res # "OK"
      BY <2>1, <2>2, <2>4, CloseEmpty, KeptTrans
    <3>3. c \in Opened(w)
      <4> HIDE DEF c
      <4> QED
        BY <2>1, <2>2, <3>2 DEF Opened
    <3> HIDE DEF all, c
    <3> QED
      BY <1>1, <3>1, <3>3
  <2> QED
    BY <2>3, <2>4
<1> QED
  BY <1>5, <1>6

\* A buffer for an open handle, and none without.
Balanced(w) == w.allocs = IF w.usbfd.buffer THEN 1 ELSE 0

\* What an attempt to mount a device makes of w: of the handles that are kept only
\* mounted changes.
Tried(w) ==
  {x \in UsbSet :
     /\ Kept([w EXCEPT !.mounted = x.mounted], x)
     /\ Balanced(x)
     /\ x.res = "OK" =>
          /\ x.mounted /\ Agrees(x)
          /\ w.port # None /\ x.old_udd = Model[w.port]
          /\ w.ums_init_done => w.old_udd = Model[w.port]
     /\ x.res # "OK" => ~x.usbfd.buffer /\ (x.mounted => w.mounted)
     /\ w.ums_init_done => x.old_udd = w.old_udd}

\* A handle that is noted as mounted, or not.
LEMMA MountedSet ==
  ASSUME NEW w \in UsbSet, NEW m \in UsbSet, Kept(w, m), NEW b \in BOOLEAN,
         NEW x, x = [m EXCEPT !.mounted = b]
  PROVE  /\ x \in UsbSet /\ x.mounted = b /\ x.allocs = m.allocs /\ x.usbfd = m.usbfd
         /\ x.old_udd = m.old_udd /\ x.res = m.res /\ Agrees(x) = Agrees(m)
         /\ Kept([w EXCEPT !.mounted = b], x)
<1>1. x \in UsbSet /\ x.mounted = b
  BY DEF UsbSet
<1>2. x.allocs = m.allocs /\ x.usbfd = m.usbfd /\ x.old_udd = m.old_udd /\ x.res = m.res
  BY DEF UsbSet
<1>3. Agrees(x) = Agrees(m)
  BY DEF Agrees, OutAgrees, UsbSet
<1>4. Kept([w EXCEPT !.mounted = b], x)
  <2> DEFINE v == [w EXCEPT !.mounted = b]
  <2>1. /\ v.mounted = b /\ v.ums_init_done = w.ums_init_done
        /\ v.handshake_mode = w.handshake_mode /\ v.port = w.port
        /\ v.unplug_device = w.unplug_device /\ v.hung = w.hung /\ v.fault = w.fault
        /\ v.dev = w.dev /\ v.media = w.media
    BY DEF UsbSet
  <2>2. /\ x.ums_init_done = m.ums_init_done /\ x.handshake_mode = m.handshake_mode
        /\ x.port = m.port /\ x.unplug_device = m.unplug_device /\ x.hung = m.hung
        /\ x.fault = m.fault /\ x.dev = m.dev /\ x.media = m.media
    BY DEF UsbSet
  <2> HIDE DEF v
  <2> QED
    BY <1>1, <2>1, <2>2 DEF Kept, Carried, Out
<1> QED
  BY <1>1, <1>2, <1>3, <1>4

\* USBStorage_Try_Device, however it ends.
LEMMA TryDeviceTried ==
  ASSUME NEW w \in UsbSet, w.allocs = 0
  PROVE  USBStorage_Try_Device(w) \in Tried(w)
<1> DEFINE o == USBStorage_Open(w)
           m == MountAny(o)
           k == [m EXCEPT !.mounted = TRUE]
           l == [m EXCEPT !.mounted = FALSE]
           c == USBStorage_Close(l)
           all == IF o.res # "OK" THEN Fail(o, "ERR")
                  ELSE IF m.res = "OK" THEN k ELSE Fail(c, "ERR")
<1>1. USBStorage_Try_Device(w) = all
  BY DEF USBStorage_Try_Device, With
<1>2. o \in Opened(w) /\ o \in UsbSet
  BY OpenOpened DEF Opened
<1> HIDE DEF o
<1>3. CASE o.res # "OK"
  <2> DEFINE n == Fail(o, "ERR")
  <2>1. /\ n \in UsbSet /\ Kept(w, n) /\ n.res # "OK" /\ ~n.usbfd.buffer /\ n.allocs = 0
        /\ n.old_udd = o.old_udd
    BY <1>2, <1>3, FailKept, KeptTrans DEF Opened, Codes
  <2>2. n.mounted = w.mounted /\ [w EXCEPT !.mounted = w.mounted] = w
    BY <2>1 DEF Kept, Carried, UsbSet
  <2>3. all = n
    BY <1>3
  <2> HIDE DEF n, all
  <2> QED
    BY <1>1, <1>2, <2>1, <2>2, <2>3 DEF Tried, Opened, Balanced
<1>4. CASE o.res = "OK"
  <2>1. /\ m \in UsbSet /\ Kept(w, m) /\ m.allocs = 1 /\ m.usbfd.buffer
        /\ m.old_udd = o.old_udd /\ (m.res = "OK" => Agrees(m))
    <3>1. m \in Lun(o)
      BY <1>2, MountAnyLun
    <3> HIDE DEF m
    <3> QED
      BY <1>2, <1>4, <3>1, KeptTrans DEF Lun, Opened
  <2> HIDE DEF m
  <2>2. ASSUME NEW b \in BOOLEAN, NEW x, x = [m EXCEPT !.mounted = b]
        PROVE  /\ x \in UsbSet /\ Kept([w EXCEPT !.mounted = b], x) /\ x.mounted = b
               /\ x.allocs = 1 /\ x.usbfd.buffer /\ x.old_udd = m.old_udd /\ x.res = m.res
               /\ Agrees(x) = Agrees(m)
    <3>1. /\ x \in UsbSet /\ x.mounted = b /\ x.allocs = m.allocs /\ x.usbfd = m.usbfd
          /\ x.old_udd = m.old_udd /\ x.res = m.res /\ Agrees(x) = Agrees(m)
          /\ Kept([w EXCEPT !.mounted = b], x)
      BY <2>1, <2>2, MountedSet
    <3> QED
      BY <2>1, <3>1
  <2>3. CASE m.res = "OK"
    <3>1. all = k
      BY <1>4, <2>3
    <3>2. /\ k \in UsbSet /\ Kept([w EXCEPT !.mounted = TRUE], k) /\ k.mounted
          /\ k.allocs = 1 /\ k.usbfd.buffer /\ k.old_udd = m.old_udd /\ k.res = m.res
          /\ Agrees(k) = Agrees(m)
      BY <2>2
    <3> HIDE DEF k, all
    <3>3. k.mounted = TRUE
      BY <3>2 DEF UsbSet
    <3>4. Kept([w EXCEPT !.mounted = k.mounted], k)
      BY <3>2, <3>3
    <3>5. k \in Tried(w)
      BY <1>2, <1>4, <2>1, <2>3, <3>2, <3>4 DEF Tried, Opened, Balanced
    <3> QED
      BY <1>1, <3>1, <3>5
  <2>4. CASE m.res # "OK"
    <3> DEFINE n == Fail(c, "ERR")
    <3>1. all = n
      BY <1>4, <2>4
    <3>2. /\ l \in UsbSet /\ Kept([w EXCEPT !.mounted = FALSE], l) /\ l.mounted = FALSE
          /\ l.allocs = 1 /\ l.usbfd.buffer /\ l.old_udd = m.old_udd
      BY <2>2
    <3> HIDE DEF l
    <3>3. /\ c \in UsbSet /\ Kept(l, c) /\ c.allocs = 0 /\ ~c.usbfd.buffer
          /\ c.old_udd = l.old_udd
      <4>1. Free(l) \in UsbSet /\ Kept(l, Free(l)) /\ Free(l).allocs = 0
            /\ Free(l).old_udd = l.old_udd
        BY <3>2, FreeKept
      <4>2. c = [Free(l) EXCEPT !.usbfd = NoHandle]
        BY <3>2 DEF USBStorage_Close, With
      <4>3. NoHandle \in Handles /\ ~NoHandle.buffer
        BY DEF NoHandle, Handles
      <4>4. /\ c \in UsbSet /\ Kept(Free(l), c) /\ c.allocs = 0 /\ c.usbfd = NoHandle
            /\ c.old_udd = l.old_udd
        <5> DEFINE q == Free(l)
        <5> HIDE DEF q, NoHandle, c
        <5> QED
          BY <4>1, <4>2, <4>3 DEF Kept, Carried, Out, UsbSet, q
      <4> HIDE DEF c, NoHandle
      <4> QED
        BY <4>1, <4>3, <4>4, KeptTrans
    <3> HIDE DEF c
    <3>4. /\ n \in UsbSet /\ Kept(l, n) /\ n.res # "OK" /\ ~n.usbfd.buffer /\ n.allocs = 0
          /\ n.old_udd = l.old_udd
      BY <3>3, FailKept, KeptTrans DEF Codes
    <3>5. n.mounted = FALSE /\ Kept([w EXCEPT !.mounted = FALSE], n)
      BY <3>2, <3>4, KeptTrans DEF Kept, Carried
    <3> HIDE DEF n, all
    <3>6. n \in Tried(w)
      BY <1>2, <2>1, <3>2, <3>4, <3>5 DEF Tried, Opened, Balanced
    <3> QED
      BY <1>1, <3>1, <3>6
  <2> QED
    BY <2>3, <2>4
<1> QED
  BY <1>3, <1>4

-----------------------------------------------------------------------------
(* Between two requests *)

\* The driver between two calls: without a mounted disk there is no buffer, a mounted
\* one is worked on with the time-outs of an ordinary request, and one that is not
\* mounted any more is known to be lost.
Ready(w) ==
  /\ w \in UsbSet /\ Out(w) /\ Balanced(w)
  /\ ~w.ums_init_done => ~w.usbfd.buffer /\ ~w.mounted
  /\ w.mounted => w.handshake_mode = 0
  /\ w.ums_init_done /\ ~w.unplug_device => w.mounted

\* A device that is enabled while the handle has its buffer is one of the model that
\* was mounted: another one is not enabled before the buffer is freed.
Known(w) ==
  w.ums_init_done /\ w.port # None /\ w.dev.enabled /\ w.usbfd.buffer =>
    w.old_udd = Model[w.port]

\* With a mounted disk that the driver has not lost host and device agree.
Session(w) == (w.mounted /\ ~w.unplug_device /\ w.dev.enabled => Agrees(w)) /\ Known(w)

\* A port reset that fails leaves no device enabled.
LEMMA ResetPort2Dark ==
  ASSUME NEW w \in UsbSet, Out(w), ehci_reset_port2(w).res # "OK"
  PROVE  ~ehci_reset_port2(w).dev.enabled
<1> DEFINE r == ehci_reset_port_old(w)
<1>1. ehci_reset_port2(w) = IF r.res = "OK" THEN r
                            ELSE IF Seen(r) THEN [r EXCEPT !.dev = Dark] ELSE r
  BY DEF ehci_reset_port2, Else
<1>2. r \in UsbSet /\ Out(r)
  BY ResetPortOldSame, SameTyped DEF Same, Drove, Carried
<1> HIDE DEF r
<1>3. ~Dark.enabled
  BY DEF Dark
<1> HIDE DEF Dark
<1> QED
  BY <1>1, <1>2, <1>3 DEF Out, Seen, UsbSet

\* What USBStorage_Init does when nothing was mounted; it reports an error.
LEMMA NotMountedSame ==
  ASSUME NEW w \in UsbSet
  PROVE  NotMounted(w) \in Same(w) /\ NotMounted(w).res # "OK"
<1> DEFINE r == ehci_reset_port2(w)
           s == ehci_reset_port(Go(r))
           t == IF ~Seen(w) THEN w ELSE IF r.res = "OK" THEN r ELSE s
<1>1. NotMounted(w) = Fail(t, "ERR")
  BY DEF NotMounted, Else
<1>2. r \in Same(w) /\ r \in UsbSet
  BY ResetPort2Same, SameTyped
<1> HIDE DEF r
<1>3. s \in Same(w)
  BY <1>2, GoSame, SameTyped, ResetPortSame, SameTrans
<1>4. t \in Same(w) /\ t \in UsbSet
  BY <1>2, <1>3, SameRefl, SameTyped
<1> HIDE DEF t
<1>5. Fail(t, "ERR") \in Same(w) /\ Fail(t, "ERR").res # "OK"
  BY <1>4, FailSame, FailKept, SameTrans DEF Codes
<1> QED
  BY <1>1, <1>5

\* Mounting with a driver that has nothing mounted.
LEMMA InitReady ==
  ASSUME NEW w, Ready(w), ~w.ums_init_done
  PROVE  /\ Ready(USBStorage_Init(w)) /\ Session(USBStorage_Init(w))
         /\ USBStorage_Init(w).port \in {w.port, None}
         /\ USBStorage_Init(w).media = w.media
         /\ w.fault = "none" => USBStorage_Init(w).fault = "none"
         /\ USBStorage_Init(w).res = "OK" =>
              /\ USBStorage_Init(w).port # None /\ USBStorage_Init(w).ums_init_done
              /\ USBStorage_Init(w).old_udd = Model[USBStorage_Init(w).port]
         /\ USBStorage_Init(w).res # "OK" => ~USBStorage_Init(w).ums_init_done
<1> DEFINE i == [w EXCEPT !.handshake_mode = 1]
           p == ehci_reset_port(i)
           t == IF p.res = "OK" THEN USBStorage_Try_Device(p) ELSE p
           k == [t EXCEPT !.handshake_mode = 0, !.ums_init_done = TRUE, !.unplug_device = FALSE]
           n == NotMounted(IF w.id = 0 THEN i ELSE Go(t))
           all == IF w.id # 0 /\ t.res = "OK" THEN k ELSE n
<1>1. USBStorage_Init(w) = all
  BY DEF USBStorage_Init, With, Then
<1>2. /\ i \in UsbSet /\ Out(i) /\ i.allocs = 0 /\ ~i.usbfd.buffer /\ ~i.mounted
      /\ ~i.ums_init_done /\ i.port = w.port /\ i.fault = w.fault /\ i.media = w.media
  BY DEF Ready, UsbSet, Out, Balanced
<1> HIDE DEF i
<1>3. /\ p \in UsbSet /\ Kept(i, p) /\ p.allocs = 0 /\ ~p.usbfd.buffer
  BY <1>2, ResetPortSame, SameTyped DEF Same, Drove, Kept
<1> HIDE DEF p
<1>4. /\ t \in UsbSet /\ Balanced(t) /\ Out(t) /\ t.media = w.media
      /\ t.port \in {w.port, None} /\ ~t.ums_init_done
      /\ w.fault = "none" => t.fault = "none"
      /\ t.res = "OK" => t.mounted /\ Agrees(t) /\ t.port # None /\ t.old_udd = Model[t.port]
      /\ t.res # "OK" => ~t.usbfd.buffer /\ ~t.mounted
  <2>1. CASE p.res # "OK"
    BY <1>2, <1>3, <2>1 DEF Kept, Carried, Balanced
  <2>2. CASE p.res = "OK"
    <3>1. t \in Tried(p)
      BY <1>3, <2>2, TryDeviceTried
    <3> HIDE DEF t
    <3>2. t \in UsbSet /\ Balanced(t) /\ Kept([p EXCEPT !.mounted = t.mounted], t)
      BY <3>1 DEF Tried
    <3>3. /\ Out(p) => Out(t)
          /\ t.port \in {p.port, None} /\ t.ums_init_done = p.ums_init_done
          /\ p.fault = "none" => t.fault = "none"
          /\ t.media = p.media
      BY <1>3, <3>2 DEF Kept, Carried, Out, UsbSet
    <3>4. /\ Out(t) /\ t.port \in {w.port, None} /\ ~t.ums_init_done /\ t.media = w.media
          /\ w.fault = "none" => t.fault = "none"
      BY <1>2, <1>3, <3>3 DEF Kept, Carried
    <3>5. ~p.mounted
      BY <1>2, <1>3 DEF Kept, Carried
    <3>6. ASSUME t.res = "OK"
          PROVE  t.mounted /\ Agrees(t) /\ t.port # None /\ t.old_udd = Model[t.port]
      <4>1. t.mounted /\ Agrees(t) /\ t.old_udd = Model[p.port]
        BY <3>1, <3>6 DEF Tried
      <4>2. t.port # None
        BY <3>4, <4>1 DEF Out, Agrees, OutAgrees
      <4> QED
        BY <3>3, <4>1, <4>2
    <3>7. t.res # "OK" => ~t.usbfd.buffer /\ ~t.mounted
      BY <3>1, <3>5 DEF Tried
    <3> QED
      BY <3>2, <3>4, <3>6, <3>7
  <2> QED
    BY <2>1, <2>2
<1> HIDE DEF t
<1>5. CASE w.id # 0 /\ t.res = "OK"
  <2>1. all = k
    BY <1>5
  <2>2. /\ k \in UsbSet /\ k.port = t.port /\ k.fault = t.fault /\ k.old_udd = t.old_udd
        /\ k.handshake_mode = 0 /\ k.ums_init_done /\ k.res = t.res /\ Out(k) /\ Balanced(k)
        /\ k.mounted = t.mounted /\ k.media = t.media
    BY ZenonT(40), <1>4 DEF UsbSet, Out, Balanced
  <2>3. Agrees(k)
    BY <1>4, <1>5 DEF UsbSet, Agrees, OutAgrees
  <2> HIDE DEF k, all
  <2> QED
    BY <1>1, <1>4, <1>5, <2>1, <2>2, <2>3 DEF Ready, Session, Known
<1>6. CASE ~(w.id # 0 /\ t.res = "OK")
  <2> DEFINE v == IF w.id = 0 THEN i ELSE Go(t)
  <2>1. /\ v \in UsbSet /\ Out(v) /\ v.allocs = 0 /\ ~v.usbfd.buffer /\ ~v.mounted
        /\ ~v.ums_init_done /\ v.port \in {w.port, None} /\ (w.fault = "none" => v.fault = "none")
        /\ v.media = w.media
    <3>1. CASE w.id = 0
      BY <1>2, <3>1
    <3>2. CASE w.id # 0
      <4>1. t.res # "OK" /\ v = Go(t)
        BY <1>6, <3>2
      <4>2. Go(t) \in Same(t) /\ Go(t) \in UsbSet
        BY <1>4, GoSame, SameTyped
      <4> HIDE DEF v
      <4> QED
        BY <1>4, <4>1, <4>2 DEF Same, Drove, Kept, Carried, Balanced
    <3> QED
      BY <3>1, <3>2
  <2>2. all = NotMounted(v)
    BY <1>6
  <2> HIDE DEF v, all
  <2>3. NotMounted(v) \in Same(v) /\ NotMounted(v) \in UsbSet /\ NotMounted(v).res # "OK"
    BY <2>1, NotMountedSame, SameTyped
  <2> QED
    BY <1>1, <2>1, <2>2, <2>3 DEF Ready, Session, Known, Same, Drove, Carried, Balanced
<1> QED
  BY <1>5, <1>6

\* Unmounting.
LEMMA UmountReady ==
  ASSUME NEW w, Ready(w)
  PROVE  /\ Ready(USBStorage_Umount(w)) /\ Session(USBStorage_Umount(w))
         /\ USBStorage_Umount(w).port = w.port /\ USBStorage_Umount(w).fault = w.fault
         /\ ~USBStorage_Umount(w).ums_init_done /\ USBStorage_Umount(w).media = w.media
<1>1. CASE ~w.ums_init_done
  BY <1>1 DEF USBStorage_Umount, Ready, Session, Known
<1>2. CASE w.ums_init_done
  <2> DEFINE v == IF w.usbfd.buffer THEN Free(w) ELSE w
             x == [[v EXCEPT !.usbfd = NoHandle] EXCEPT !.mounted = FALSE, !.ums_init_done = FALSE,
                                                        !.unplug_device = FALSE]
  <2>1. USBStorage_Umount(w) = x
    BY <1>2 DEF USBStorage_Umount, USBStorage_Close, With
  <2>2. /\ v \in UsbSet /\ v.allocs = 0 /\ Out(v) /\ v.port = w.port /\ v.fault = w.fault
        /\ v.media = w.media
    BY AllocTyped DEF Ready, Balanced, Free, UsbSet, Out
  <2>3. NoHandle \in Handles /\ ~NoHandle.buffer
    BY DEF NoHandle, Handles
  <2> HIDE DEF v, NoHandle
  <2>4. /\ x \in UsbSet /\ Out(x) /\ x.allocs = 0 /\ ~x.usbfd.buffer /\ ~x.mounted
        /\ ~x.ums_init_done /\ x.port = w.port /\ x.fault = w.fault /\ x.media = w.media
    <3>1. x \in UsbSet
      <4> DEFINE y == [v EXCEPT !.usbfd = NoHandle]
      <4>1. y \in UsbSet
        BY <2>2, <2>3 DEF UsbSet
      <4> HIDE DEF y
      <4>2. [y EXCEPT !.mounted = FALSE, !.ums_init_done = FALSE, !.unplug_device = FALSE] \in UsbSet
        BY <4>1 DEF UsbSet
      <4> QED
        BY <4>2 DEF y
    <3>2. /\ x.allocs = v.allocs /\ x.usbfd = NoHandle /\ ~x.mounted /\ ~x.ums_init_done
          /\ x.port = v.port /\ x.fault = v.fault /\ x.media = v.media /\ x.dev = v.dev
          /\ x.port_owner = v.port_owner
      BY <2>2 DEF UsbSet
    <3> HIDE DEF x
    <3> QED
      BY <2>2, <2>3, <3>1, <3>2 DEF Out
  <2> HIDE DEF x
  <2> QED
    BY <2>1, <2>4 DEF Ready, Session, Known, Balanced
<1> QED
  BY <1>1, <1>2

\* A device that was pulled out is mounted again, or stays lost.  Only a device of the
\* model that was mounted is.
LEMMA UnplugReady ==
  ASSUME NEW w, Ready(w), Session(w), w.ums_init_done
  PROVE  /\ Ready(unplug_procedure(w)) /\ Session(unplug_procedure(w))
         /\ unplug_procedure(w).ums_init_done
         /\ unplug_procedure(w).old_udd = w.old_udd /\ unplug_procedure(w).media = w.media
         /\ unplug_procedure(w).port \in {w.port, None}
         /\ w.fault = "none" => unplug_procedure(w).fault = "none"
         /\ ~w.unplug_device => unplug_procedure(w) = w
         /\ w.unplug_device /\ ~unplug_procedure(w).unplug_device =>
              /\ unplug_procedure(w).mounted /\ Agrees(unplug_procedure(w))
              /\ w.old_udd = Model[unplug_procedure(w).port]
<1> DEFINE u == unplug_procedure(w)
           p == ehci_reset_port2(w)
           v == IF p.usbfd.buffer THEN Free(p) ELSE p
           h == [v.usbfd EXCEPT !.buffer = FALSE]
           q == [v EXCEPT !.usbfd = h]
           r == ehci_reset_port(q)
           s == [r EXCEPT !.handshake_mode = 1]
           t == USBStorage_Try_Device(s)
           k == [t EXCEPT !.unplug_device = t.unplug_device /\ t.res # "OK", !.handshake_mode = 0]
<1>1. CASE ~w.unplug_device
  BY <1>1 DEF unplug_procedure, Ready, Session, Known
<1>2. CASE w.unplug_device /\ ~w.usbfd.usb_fd
  <2>1. u = Fail(w, "ERR")
    BY <1>2 DEF unplug_procedure
  <2>2. /\ u \in UsbSet /\ Kept(w, u) /\ u.allocs = w.allocs /\ u.usbfd = w.usbfd
        /\ u.old_udd = w.old_udd
    BY <2>1, FailKept DEF Ready, Codes
  <2>3. u.dev = w.dev /\ u.port = w.port
    BY <2>1 DEF Fail, Ready, UsbSet
  <2> HIDE DEF u
  <2> QED
    BY <1>2, <2>2, <2>3 DEF Ready, Session, Known, Kept, Carried, Balanced, u
<1>3. CASE w.unplug_device /\ w.usbfd.usb_fd
  <2>1. p \in UsbSet /\ p \in Same(w) /\ (p.res # "OK" => ~p.dev.enabled)
    BY ResetPort2Same, SameTyped, ResetPort2Dark DEF Ready
  <2> HIDE DEF p
  <2>2. /\ v \in UsbSet /\ Kept(p, v) /\ v.allocs = 0 /\ v.usbfd = p.usbfd
        /\ v.old_udd = p.old_udd
    <3>1. p.allocs = IF p.usbfd.buffer THEN 1 ELSE 0
      BY <2>1 DEF Ready, Balanced, Same, Drove, Kept
    <3>2. Kept(p, p)
      BY <2>1, SameRefl DEF Same, Drove, Kept
    <3> QED
      BY <2>1, <3>1, <3>2, FreeKept
  <2>3. u = IF p.res = "OK" THEN IF r.res = "OK" THEN k ELSE r ELSE p
    <3>1. q = [v EXCEPT !.usbfd.buffer = FALSE]
      BY <2>2 DEF UsbSet
    <3>2. v = IF p.usbfd.buffer THEN Free(p) ELSE p
      OBVIOUS
    <3> HIDE DEF v, q
    <3> QED
      BY <1>3, <3>1, <3>2 DEF unplug_procedure, Then, With, Replugged, p
  <2> HIDE DEF v
  <2>4. /\ q \in UsbSet /\ Kept(w, q) /\ q.allocs = 0 /\ ~q.usbfd.buffer
        /\ q.old_udd = w.old_udd
    <3>1. h \in Handles /\ ~h.buffer
      <4>1. v.usbfd \in Handles
        BY <2>2 DEF UsbSet
      <4> QED
        BY <4>1 DEF Handles
    <3> HIDE DEF h
    <3>2. q \in UsbSet /\ Kept(v, q) /\ q.allocs = 0 /\ q.usbfd = h /\ q.old_udd = v.old_udd
      BY <2>2, <3>1 DEF Kept, Carried, Out, UsbSet
    <3>3. Kept(w, p) /\ p.old_udd = w.old_udd
      BY <2>1 DEF Same, Drove, Kept
    <3> HIDE DEF q
    <3> QED
      BY <2>2, <3>1, <3>2, <3>3, KeptTrans
  <2> HIDE DEF q
  <2>5. /\ r \in UsbSet /\ Kept(w, r) /\ r.allocs = 0 /\ ~r.usbfd.buffer
        /\ r.old_udd = w.old_udd
    BY <2>4, ResetPortSame, SameTyped, KeptTrans DEF Same, Drove, Kept
  <2> HIDE DEF r
  <2>6. /\ s \in UsbSet /\ s.allocs = 0 /\ s.old_udd = w.old_udd /\ s.port = r.port
        /\ s.mounted = r.mounted /\ s.ums_init_done = r.ums_init_done
        /\ s.unplug_device = r.unplug_device /\ s.hung = r.hung /\ s.fault = r.fault
        /\ Out(s) = Out(r) /\ s.media = r.media
    BY <2>5 DEF UsbSet, Out
  <2> HIDE DEF s
  <2>7. t \in Tried(s) /\ t \in UsbSet
    BY <2>6, TryDeviceTried DEF Tried
  <2> HIDE DEF t
  <2>8. CASE p.res # "OK"
    <3>1. u = p
      BY <2>3, <2>8
    <3> HIDE DEF u
    <3> QED
      BY <1>3, <2>1, <2>8, <3>1 DEF Ready, Session, Known, Same, Drove, Carried, Balanced, u
  <2>9. CASE p.res = "OK" /\ r.res # "OK"
    <3>1. u = r
      BY <2>3, <2>9
    <3> HIDE DEF u
    <3> QED
      BY <1>3, <2>5, <3>1 DEF Ready, Session, Known, Kept, Carried, Balanced, u
  <2>10. CASE p.res = "OK" /\ r.res = "OK"
    <3>1. u = k
      BY <2>3, <2>10
    <3>2. Kept([s EXCEPT !.mounted = t.mounted], t)
      BY <2>7 DEF Tried
    <3>3. /\ t.ums_init_done /\ t.unplug_device /\ Out(t) /\ t.port \in {w.port, None}
          /\ w.fault = "none" => t.fault = "none"
          /\ t.media = w.media
      <4>1. /\ t.ums_init_done = s.ums_init_done /\ (s.unplug_device => t.unplug_device)
            /\ (Out(s) => Out(t)) /\ t.port \in {s.port, None}
            /\ (s.fault = "none" => t.fault = "none") /\ t.media = s.media
        BY <2>6, <3>2 DEF Kept, Carried, Out, UsbSet
      <4>2. /\ r.ums_init_done /\ r.unplug_device /\ Out(r) /\ r.port \in {w.port, None}
            /\ w.fault = "none" => r.fault = "none"
            /\ r.media = w.media
        BY <1>3, <2>5 DEF Kept, Carried, Ready
      <4> QED
        BY <2>6, <4>1, <4>2
    <3>4. t.old_udd = w.old_udd /\ Balanced(t) /\ (t.res # "OK" => ~t.usbfd.buffer)
      <4>1. s.ums_init_done
        BY <2>5, <2>6 DEF Kept, Carried
      <4> QED
        BY <2>6, <2>7, <4>1 DEF Tried
    <3>5. ASSUME t.res = "OK"
          PROVE  t.mounted /\ Agrees(t) /\ w.old_udd = Model[t.port]
      <4>1. t.mounted /\ Agrees(t) /\ t.old_udd = Model[s.port]
        BY <2>7, <3>5 DEF Tried
      <4>2. t.port # None /\ t.port \in {s.port, None}
        BY <2>6, <3>2, <3>3, <4>1 DEF Kept, Carried, Out, Agrees, OutAgrees, UsbSet
      <4> QED
        BY <3>4, <4>1, <4>2
    <3>6. /\ k \in UsbSet /\ k.old_udd = t.old_udd /\ k.port = t.port /\ k.fault = t.fault
          /\ k.mounted = t.mounted /\ k.ums_init_done = t.ums_init_done
          /\ k.handshake_mode = 0 /\ k.allocs = t.allocs /\ k.usbfd = t.usbfd
          /\ k.unplug_device = (t.res # "OK") /\ Out(k) = Out(t) /\ Agrees(k) = Agrees(t)
          /\ k.media = t.media
      <4>1. k \in UsbSet /\ k.handshake_mode = 0 /\ k.unplug_device = (t.res # "OK")
        BY ZenonT(40), <2>7, <3>3 DEF UsbSet
      <4>2. /\ k.old_udd = t.old_udd /\ k.port = t.port /\ k.fault = t.fault
            /\ k.mounted = t.mounted /\ k.ums_init_done = t.ums_init_done
            /\ k.allocs = t.allocs /\ k.usbfd = t.usbfd /\ k.media = t.media
            /\ k.dev = t.dev /\ k.id = t.id /\ k.tog = t.tog /\ k.port_owner = t.port_owner
        BY <2>7, <3>3 DEF UsbSet
      <4> HIDE DEF k
      <4> QED
        BY <4>1, <4>2 DEF Out, Agrees, OutAgrees
    <3> HIDE DEF k, u
    <3> QED
      BY <1>3, <3>1, <3>3, <3>4, <3>5, <3>6 DEF Ready, Session, Known, Balanced, u
  <2> QED
    BY <2>8, <2>9, <2>10
<1> QED
  BY <1>1, <1>2, <1>3

-----------------------------------------------------------------------------
(* Requests *)

\* Multiplication keeps the order.
LEMMA TimesKeepsOrder ==
  ASSUME NEW a \in Nat, NEW b \in Nat, NEW k \in Nat, a <= b
  PROVE  a * k <= b * k /\ a * k \in Nat /\ b * k \in Nat
OBVIOUS

\* A quotient times the divisor is at most what was divided.
LEMMA DivBelow ==
  ASSUME NEW n \in Nat, NEW k \in Nat \ {0}
  PROVE  n \div k \in Nat /\ (n \div k) * k <= n
<1> DEFINE q == n \div k
           r == n % k
<1>1. q \in Int /\ q >= 0 /\ r \in 0 .. k - 1
  OBVIOUS
<1>2. n = k * q + r
  OBVIOUS
<1> HIDE DEF q, r
<1>3. k * q = q * k /\ q * k \in Nat
  BY <1>1
<1> QED
  BY <1>1, <1>2, <1>3 DEF q

\* A quotient is at most one too small.
LEMMA DivAbove ==
  ASSUME NEW n \in Nat, NEW k \in Nat \ {0}
  PROVE  n \div k \in Nat /\ n < (n \div k) * k + k
<1> DEFINE q == n \div k
           r == n % k
<1>1. q \in Int /\ q >= 0 /\ r \in 0 .. k - 1
  OBVIOUS
<1>2. n = k * q + r
  OBVIOUS
<1> HIDE DEF q, r
<1>3. k * q = q * k /\ q * k \in Nat
  BY <1>1
<1> QED
  BY <1>1, <1>2, <1>3 DEF q

\* Every command of a request is for sectors of the request.
LEMMA ChunksFit ==
  ASSUME NEW n \in Nat, NEW i \in 1 .. Chunks(n)
  PROVE  /\ Chunks(n) \in Nat
         /\ (i - 1) * Chunk \in Nat /\ ChunkLen(n, i) \in Nat
         /\ (i - 1) * Chunk + ChunkLen(n, i) <= n
<1>1. Chunk \in Nat \ {0}
  BY UsbStorageAssumption
<1> DEFINE q == Chunks(n)
           j == i - 1
<1>2. q \in Nat /\ q * Chunk <= n + Chunk - 1
  <2>1. n + Chunk - 1 \in Nat
    BY <1>1
  <2>2. q = (n + Chunk - 1) \div Chunk
    BY DEF Chunks
  <2> QED
    BY <1>1, <2>1, <2>2, DivBelow
<1> HIDE DEF q
<1>3. i \in Nat /\ i <= q /\ j \in Nat /\ i = j + 1
  BY <1>2 DEF q
<1> HIDE DEF j
<1>4. i * Chunk <= q * Chunk /\ i * Chunk \in Nat /\ q * Chunk \in Nat /\ j * Chunk \in Nat
  BY <1>1, <1>2, <1>3, TimesKeepsOrder
<1>5. i * Chunk = j * Chunk + Chunk
  BY <1>1, <1>3
<1>6. ChunkLen(n, i) = IF i * Chunk <= n THEN Chunk ELSE n - j * Chunk
  BY DEF ChunkLen, j
<1> DEFINE a == i * Chunk
           b == j * Chunk
           c == q * Chunk
<1> HIDE DEF a, b, c
<1>7. ChunkLen(n, i) \in Nat /\ b + ChunkLen(n, i) <= n
  BY <1>1, <1>2, <1>4, <1>5, <1>6 DEF a, b, c
<1> QED
  BY <1>2, <1>4, <1>7 DEF b, j, q

\* The number of commands.
LEMMA ChunksTyped ==
  ASSUME NEW n \in Nat
  PROVE  Chunks(n) \in Nat
<1>1. Chunk \in Nat \ {0} /\ n + Chunk - 1 \in Nat
  BY UsbStorageAssumption
<1> QED
  BY <1>1, DivBelow DEF Chunks

-----------------------------------------------------------------------------
(* A command to a mounted disk *)

\* On the way of a command only the device at the port is written to, and only once
\* the handle has its buffer and the port is enabled.
Ran(w, cmd) ==
  {x \in Worked(w) :
     \/ x.media = w.media
     \/ /\ cmd.op = "write" /\ w.port # None /\ w.dev.enabled /\ w.usbfd.buffer
        /\ x.media = Stored(w, cmd)}

\* It has met a device, and the same one to its end.
There(w, x) == w.port # None /\ x.port = w.port /\ w.dev.enabled /\ w.usbfd.buffer

\* What a command was for is done.
Fulfilled(w, cmd, x) ==
  Answered(w, cmd, x.data) /\ (cmd.op = "write" => x.media = Stored(w, cmd))

\* A command that succeeds has read what the device holds, or written to it, unless the
\* device could not do it; and host and device agree.
Finished(w, cmd) ==
  {x \in Ran(w, cmd) :
     x.res = "OK" => Agrees(x) /\ There(w, x) /\ (x.refused \/ Fulfilled(w, cmd, x))}

\* To write the same once more changes nothing.
LEMMA StoredTwice ==
  ASSUME NEW w \in UsbSet, NEW x \in UsbSet, NEW cmd,
         w.port # None, x.port = w.port, x.media = Stored(w, cmd)
  PROVE  Stored(x, cmd) = Stored(w, cmd)
<1> DEFINE old == w.media[w.port]
           new == Overwritten(old, cmd)
<1>1. w.port \in Device /\ w.media \in Media /\ x.media \in Media
  BY DEF UsbSet
<1>2. x.media[w.port] = new
  BY <1>1 DEF Stored, Media
<1>3. Overwritten(new, cmd) = new
  BY DEF Overwritten
<1> HIDE DEF new
<1>4. Stored(x, cmd) = [x.media EXCEPT ![w.port] = x.media[w.port]]
  BY <1>2, <1>3 DEF Stored
<1>5. Stored(x, cmd) = x.media
  BY <1>1, <1>4 DEF Media
<1> QED
  BY <1>5

\* A command that is made again after what went wrong with the one before.
LEMMA RanTrans ==
  ASSUME NEW w \in UsbSet, NEW cmd, NEW x \in Ran(w, cmd), NEW y \in Finished(x, cmd)
  PROVE  y \in Finished(w, cmd)
<1>1. /\ x \in UsbSet /\ y \in Worked(w) /\ x.port \in {w.port, None} /\ x.usbfd = w.usbfd
      /\ x.dev.enabled => w.dev.enabled
  BY WorkedTrans DEF Finished, Ran, Worked, Drove, Carried
<1>2. There(x, y) => There(w, y) /\ x.port = w.port
  BY <1>1 DEF There
<1>3. w.port # None /\ x.port = w.port /\ cmd.op = "write" => Stored(x, cmd) = Stored(w, cmd)
  <2>1. CASE x.media = w.media
    BY <2>1 DEF Stored
  <2>2. CASE x.media # w.media
    BY <1>1, <2>2, StoredTwice DEF Ran
  <2> QED
    BY <2>1, <2>2
<1>4. y \in Ran(w, cmd)
  <2>1. CASE y.media = x.media
    BY <1>1, <2>1 DEF Finished, Ran
  <2>2. CASE y.media # x.media
    <3>1. /\ cmd.op = "write" /\ x.port # None /\ x.dev.enabled /\ x.usbfd.buffer
          /\ y.media = Stored(x, cmd)
      BY <2>2 DEF Finished, Ran
    <3> QED
      BY <1>1, <1>3, <3>1 DEF Ran
  <2> QED
    BY <2>1, <2>2
<1>5. ASSUME y.res = "OK"
      PROVE  Agrees(y) /\ There(w, y) /\ (y.refused \/ Fulfilled(w, cmd, y))
  <2>1. Agrees(y) /\ There(x, y) /\ (y.refused \/ Fulfilled(x, cmd, y))
    BY <1>5 DEF Finished
  <2>2. There(w, y) /\ x.port = w.port /\ w.port # None
    BY <1>2, <2>1 DEF There
  <2>3. Answered(x, cmd, y.data) => Answered(w, cmd, y.data)
    <3>1. cmd.op # "write" => x.media = w.media
      BY DEF Ran
    <3> QED
      BY <2>2, <3>1 DEF Answered
  <2> QED
    BY <1>3, <2>1, <2>2, <2>3 DEF Fulfilled
<1> QED
  BY <1>4, <1>5 DEF Finished

\* A transfer that succeeds has met a device at the port.
LEMMA BulkMessageThere ==
  ASSUME NEW w \in UsbSet, NEW cmd, CmdOK(cmd), NEW ep, NEW req,
         \/ ep = "out" /\ (req = "cbw" \/ (req = "data" /\ cmd.op = "write"))
         \/ ep = "in" /\ req \in {"data", "csw"},
         ehci_bulk_message(w, ep, req, cmd).res = "OK"
  PROVE  w.port # None /\ ehci_bulk_message(w, ep, req, cmd).port = w.port
<1> DEFINE u == Urb(ep, req, cmd, IF req = "data" THEN cmd.n ELSE 1)
<1>1. ehci_bulk_message(w, ep, req, cmd) = ehci_do_urb(w, w.id, u)
  BY DEF ehci_bulk_message
<1>2. UrbOK(u)
  BY DEF UrbOK, Urb, CmdOK
<1> HIDE DEF u
<1> QED
  BY <1>1, <1>2, UrbAgrees

\* One attempt of a command.
LEMMA AttemptWorks ==
  ASSUME NEW w \in UsbSet, NEW cmd, CmdOK(cmd), cmd.op \in {"read", "write"}
  PROVE  Attempt(w, cmd) \in Finished(w, cmd)
<1> DEFINE c == send_cbw(w, cmd)
           ep == IF cmd.op = "write" THEN "out" ELSE "in"
           d == ehci_bulk_message(c, ep, "data", cmd)
           e == read_csw(d, cmd)
<1>1. Attempt(w, cmd) = IF c.res = "OK" THEN IF d.res = "OK" THEN e ELSE d ELSE c
  BY DEF Attempt, Then
<1>2. /\ c \in Same(w) /\ c \in Worked(w) /\ c \in UsbSet
      /\ c.res = "OK" => OutAgrees(c) /\ There(w, c)
  <2>1. CASE ~w.usbfd.buffer
    <3>1. c = Fail(w, "ERR")
      BY <2>1 DEF send_cbw
    <3>2. c \in Same(w) /\ c \in Worked(w) /\ c.res # "OK"
      BY ZenonT(40), <3>1, FailSame, FailKept, WorkedSimple DEF Codes
    <3> QED
      BY <3>2, SameTyped
  <2>2. CASE w.usbfd.buffer
    <3>1. c = ehci_bulk_message(w, "out", "cbw", cmd)
      BY <2>2 DEF send_cbw
    <3>2. c \in Same(w) /\ c \in Worked(w)
      BY <3>1, BulkMessageTransferred
    <3>3. c.res = "OK" => OutAgrees(c) /\ w.port # None /\ c.port = w.port
      BY <3>1, BulkMessageAgrees, BulkMessageThere
    <3> HIDE DEF c
    <3> QED
      BY <2>2, <3>2, <3>3, SameTyped DEF There, OutAgrees, Worked
  <2> QED
    BY <2>1, <2>2
<1> HIDE DEF c
<1>3. c \in Ran(w, cmd) /\ c.media = w.media
  BY <1>2, SameDrove DEF Ran
<1>4. CASE c.res # "OK"
  BY <1>1, <1>3, <1>4 DEF Finished
<1>5. CASE c.res = "OK"
  <2>1. Stored(c, cmd) = Stored(w, cmd) /\ \A data : Answered(c, cmd, data) => Answered(w, cmd, data)
    BY <1>2, <1>3, <1>5 DEF Stored, Answered, There
  <2>2. /\ d \in Worked(c) /\ d.media \in {c.media, Stored(c, cmd)}
        /\ cmd.op = "read" => d.media = c.media
        /\ cmd.op = "write" /\ d.res = "OK" /\ d.dev.ph = "csw" => d.media = Stored(c, cmd)
        /\ cmd.op = "read" /\ d.res = "OK" /\ d.dev.ph = "csw" => Answered(c, cmd, d.data)
        /\ d.res = "OK" => OutAgrees(d) /\ d.port = c.port
    <3>1. CASE cmd.op = "write"
      <4>1. d = ehci_bulk_message(c, "out", "data", cmd)
        BY <3>1
      <4>2. /\ d \in Worked(c) /\ d.media \in {c.media, Stored(c, cmd)}
            /\ d.res = "OK" /\ d.dev.ph = "csw" => d.media = Stored(c, cmd)
        BY <1>2, <3>1, <4>1, BulkMessageTransferred
      <4>3. d.res = "OK" => OutAgrees(d) /\ d.port = c.port
        BY <1>2, <1>5, <3>1, <4>1, BulkMessageAgrees, BulkMessageThere
      <4> QED
        BY <3>1, <4>2, <4>3
    <3>2. CASE cmd.op = "read"
      <4>1. d = ehci_bulk_message(c, "in", "data", cmd)
        BY <3>2
      <4>2. /\ d \in Same(c) /\ d \in Worked(c)
            /\ d.res = "OK" => Answered(c, cmd, d.data) \/ d.dev.ph = "failed"
        BY <1>2, <4>1, BulkMessageTransferred
      <4>3. d.res = "OK" => OutAgrees(d) /\ d.port = c.port
        BY <1>2, <1>5, <4>1, BulkMessageAgrees, BulkMessageThere DEF Agrees
      <4> HIDE DEF d
      <4> QED
        BY <3>2, <4>2, <4>3, SameDrove
    <3> QED
      BY <3>1, <3>2
  <2> HIDE DEF d
  <2>3. d \in UsbSet
    BY <2>2 DEF Worked, Drove
  <2>4. d \in Ran(w, cmd) /\ (cmd.op = "read" => d.media = w.media)
    <3>1. d \in Worked(w)
      BY <1>2, <2>2, WorkedTrans
    <3>2. d.media \in {w.media, Stored(w, cmd)} /\ (cmd.op = "read" => d.media = w.media)
      BY <1>3, <2>1, <2>2
    <3> QED
      BY <1>2, <1>5, <3>1, <3>2 DEF Ran, There
  <2>5. CASE d.res # "OK"
    BY <1>1, <1>5, <2>4, <2>5 DEF Finished
  <2>6. CASE d.res = "OK"
    <3>1. /\ e \in Same(d) /\ e \in Worked(d) /\ e.data = d.data
          /\ e.res = "OK" => (d.dev.ph = "csw" \/ e.refused) /\ Agrees(e) /\ e.port = d.port
      BY <2>2, <2>3, <2>6, BulkMessageTransferred, BulkMessageAgrees, BulkMessageThere DEF read_csw
    <3> HIDE DEF e
    <3>2. e.media = d.media
      BY <3>1, SameDrove
    <3>3. e \in Ran(w, cmd)
      BY <2>4, <3>1, <3>2, WorkedTrans DEF Ran
    <3>4. ASSUME e.res = "OK"
          PROVE  Agrees(e) /\ There(w, e) /\ (e.refused \/ Fulfilled(w, cmd, e))
      <4>1. There(w, e)
        BY <1>2, <1>5, <2>2, <2>6, <3>1, <3>4 DEF There
      <4>2. d.dev.ph = "csw" => Answered(w, cmd, e.data)
        <5>1. CASE cmd.op = "read"
          BY <2>1, <2>2, <2>6, <3>1, <5>1
        <5>2. CASE cmd.op = "write"
          BY <5>2 DEF Answered
        <5> QED
          BY <5>1, <5>2
      <4>3. d.dev.ph = "csw" /\ cmd.op = "write" => e.media = Stored(w, cmd)
        BY <2>1, <2>2, <2>6, <3>2
      <4> QED
        BY <3>1, <3>4, <4>1, <4>2, <4>3 DEF Fulfilled
    <3> QED
      BY <1>1, <1>5, <2>6, <3>3, <3>4 DEF Finished
  <2> QED
    BY <2>5, <2>6
<1> QED
  BY <1>4, <1>5

\* The three control messages of a soft reset write nothing and enable no port.
LEMMA SoftResetWorks ==
  ASSUME NEW w \in UsbSet
  PROVE  SoftReset(w) \in Worked(w) /\ SoftReset(w).media = w.media
<1> DEFINE r == ehci_control_message(w, "storage_reset", None)
           i == USB_ClearHalt(r, "in")
           o == USB_ClearHalt(i, "out")
<1>1. SoftReset(w) = IF r.res = "OK" THEN IF i.res = "OK" THEN o ELSE i ELSE r
  BY DEF SoftReset, Then
<1>2. ASSUME NEW v \in UsbSet, NEW req, NEW val, req \in {"storage_reset", "halt"},
             req = "halt" => val \in {"in", "out"}
      PROVE  /\ ehci_control_message(v, req, val) \in Worked(v)
             /\ ehci_control_message(v, req, val).media = v.media
  <2>1. UrbOK(Urb("control", req, val, 1)) /\ ~Stores(Urb("control", req, val, 1))
    BY <1>2 DEF UrbOK, Urb, Stores
  <2> QED
    BY <2>1, UrbSame, UrbStaysDark, SameDrove DEF ehci_control_message, Worked
<1>3. r \in Worked(w) /\ r.media = w.media
  BY <1>2
<1> HIDE DEF r
<1>4. i \in Worked(w) /\ i.media = w.media
  <2>1. r \in UsbSet
    BY <1>3 DEF Worked, Drove
  <2>2. i \in Worked(r) /\ i.media = r.media
    BY <1>2, <2>1 DEF USB_ClearHalt
  <2> HIDE DEF i
  <2> QED
    BY <1>3, <2>2, WorkedTrans
<1> HIDE DEF i
<1>5. o \in Worked(w) /\ o.media = w.media
  <2>1. i \in UsbSet
    BY <1>4 DEF Worked, Drove
  <2>2. o \in Worked(i) /\ o.media = i.media
    BY <1>2, <2>1 DEF USB_ClearHalt
  <2> HIDE DEF o
  <2> QED
    BY <1>4, <2>2, WorkedTrans
<1> QED
  BY <1>1, <1>3, <1>4, <1>5

\* A command that is sent again after a reset, which with a mounted disk is a soft one.
LEMMA AgainWorks ==
  ASSUME NEW w \in UsbSet, w.handshake_mode = 0, NEW cmd, CmdOK(cmd), cmd.op \in {"read", "write"}
  PROVE  Again(w, cmd) \in Finished(w, cmd)
<1> DEFINE r == IF w.res = "OK" THEN w ELSE USBStorage_Reset(Go(w))
           e == Attempt(r, cmd)
<1>1. Again(w, cmd) = IF w.res = "NODEV" THEN Gone(w) ELSE IF r.res = "OK" THEN e ELSE r
  BY DEF Again, Then
<1>2. r \in Worked(w) /\ r.media = w.media /\ r \in UsbSet
  <2>1. CASE w.res = "OK"
    BY <2>1, WorkedSimple
  <2>2. CASE w.res # "OK"
    <3>1. Go(w) \in Worked(w) /\ Go(w).media = w.media /\ Go(w) \in UsbSet
          /\ Go(w).handshake_mode = 0 /\ Go(w).res = "OK"
      <4>1. Go(w) \in Worked(w) /\ Go(w).media = w.media
        BY WorkedSimple
      <4>2. Go(w).res = "OK"
        BY DEF Go, UsbSet
      <4> QED
        BY <4>1, <4>2 DEF Worked, Drove, Carried
    <3>2. r = SoftReset(Go(w))
      BY <2>2, <3>1, ResetStaysSoft
    <3>3. r \in Worked(Go(w)) /\ r.media = Go(w).media
      BY <3>1, <3>2, SoftResetWorks
    <3> HIDE DEF r
    <3>4. r \in Worked(w)
      BY <3>1, <3>3, WorkedTrans
    <3> QED
      BY <3>1, <3>3, <3>4 DEF Worked, Drove
  <2> QED
    BY <2>1, <2>2
<1> HIDE DEF r
<1>3. r \in Ran(w, cmd)
  BY <1>2 DEF Ran
<1>4. e \in Finished(w, cmd)
  <2>1. e \in Finished(r, cmd)
    BY <1>2, AttemptWorks
  <2> HIDE DEF e
  <2> QED
    BY <1>3, <2>1, RanTrans
<1>5. Gone(w) \in Ran(w, cmd) /\ Gone(w).res # "OK"
  BY WorkedSimple DEF Gone, Fail, UsbSet, Ran
<1> QED
  BY <1>1, <1>3, <1>4, <1>5 DEF Finished

\* A command with its ten attempts.  The driver of a mounted disk takes an error for
\* the loss of the device.
LEMMA CycleWorks ==
  ASSUME NEW w \in UsbSet, w.handshake_mode = 0, NEW cmd, CmdOK(cmd), cmd.op \in {"read", "write"}
  PROVE  /\ Cycle(w, cmd) \in Finished(w, cmd)
         /\ Cycle(w, cmd).res # "OK" => Cycle(w, cmd).unplug_device
<1> DEFINE n == USBSTORAGE_CYCLE_RETRIES + 1
<1>0. n \in Nat /\ n > 1
  BY DEF USBSTORAGE_CYCLE_RETRIES
<1> DEFINE W == Ran(w, cmd)
           F == Finished(w, cmd)
           Op(a) == Again(a, cmd)
           Round(i, a) == IF i > 1 /\ a.res = "OK" THEN a ELSE Op(a)
           Is(f) == f = [i \in 0 .. n |-> IF i = 0 THEN w ELSE Round(i, f[i - 1])]
           g == CHOOSE f : Is(f)
           T == [i \in 1 .. n |-> [a \in W |-> Round(i, a)]]
<1>1. Cycle(w, cmd) = IF g[n].res = "OK" THEN g[n] ELSE GiveUp(g[n])
  BY Zenon DEF Cycle, Retry, With, Else
<1>2. w \in W
  BY WorkedSimple DEF Ran
<1>3. ASSUME NEW a \in W
      PROVE  Op(a) \in F
  <2>1. a \in UsbSet /\ a.handshake_mode = 0
    BY DEF Ran, Worked, Drove, Carried
  <2>2. Again(a, cmd) \in Finished(a, cmd)
    BY <2>1, AgainWorks
  <2> QED
    BY <2>2, RanTrans
<1>10. F \subseteq W
  BY DEF Finished
<1> HIDE DEF n, Op, W, F
<1>4. \A i \in 1 .. n, a \in W : T[i][a] \in W
  BY <1>3, <1>10
<1>5. \E f : Is(f)
  <2>1. PICK f \in [0 .. n -> W] : f[0] = w /\ \A i \in 1 .. n : f[i] = T[i][f[i - 1]]
    <3> HIDE DEF T
    <3>1. Runs(W, n, w, T)
      BY <1>0, <1>2, <1>4, LoopRuns
    <3> QED
      BY <3>1 DEF Runs
  <2>2. ASSUME NEW i \in 0 .. n
        PROVE  f[i] = IF i = 0 THEN w ELSE Round(i, f[i - 1])
    <3>1. i # 0 => i \in 1 .. n /\ i - 1 \in 0 .. n
      BY <1>0, SMT
    <3>2. i # 0 => f[i - 1] \in W
      BY <3>1
    <3> HIDE DEF Round
    <3>3. i # 0 => T[i][f[i - 1]] = Round(i, f[i - 1])
      BY <3>1, <3>2
    <3> QED
      BY <2>1, <3>1, <3>3
  <2>3. f = [i \in 0 .. n |-> f[i]]
    OBVIOUS
  <2>4. Is(f)
    <3> HIDE DEF Round
    <3> QED
      BY <2>2, <2>3
  <2> QED
    BY <2>4
<1>6. Is(g)
  BY <1>5
<1>7. g[1] \in F /\ \A i \in 2 .. n : g[i - 1] \in F => g[i] \in F
  <2>1. \A i \in 0 .. n : g[i] = IF i = 0 THEN w ELSE Round(i, g[i - 1])
    <3> HIDE DEF g, Round
    <3> QED
      BY <1>6
  <2> HIDE DEF g, Round
  <2>2. g[0] = w /\ g[1] = Round(1, g[0])
    BY <1>0, <2>1, SMT
  <2>3. g[1] \in F
    BY <1>2, <1>3, <2>2 DEF Round
  <2>4. ASSUME NEW i \in 2 .. n, g[i - 1] \in F
        PROVE  g[i] \in F
    <3>1. g[i] = Round(i, g[i - 1])
      BY <1>0, <2>1, SMT
    <3> QED
      BY <1>3, <1>10, <2>4, <3>1 DEF Round
  <2> QED
    BY <2>3, <2>4
<1> HIDE DEF g
<1>8. g[n] \in F
  BY <1>0, <1>7, LoopEnds
<1>9. ASSUME g[n].res # "OK"
      PROVE  /\ GiveUp(g[n]) \in Finished(w, cmd) /\ GiveUp(g[n]).res # "OK"
             /\ GiveUp(g[n]).unplug_device
  <2> DEFINE a == g[n]
  <2> HIDE DEF a
  <2>1. a \in Worked(w) /\ a \in UsbSet /\ a.handshake_mode = 0 /\ a \in Ran(w, cmd)
    BY <1>8 DEF F, Finished, Ran, Worked, Drove, Carried, a
  <2>2. GiveUp(a) = Gone(a)
    BY <2>1 DEF GiveUp
  <2>3. Gone(a) \in Worked(a) /\ Gone(a).media = a.media
    BY <2>1, WorkedSimple
  <2>4. Gone(a).res # "OK" /\ Gone(a).unplug_device
    BY <2>1 DEF Gone, Fail, UsbSet
  <2>5. Gone(a) \in Ran(w, cmd)
    BY <2>1, <2>3, WorkedTrans DEF Ran
  <2> QED
    BY <2>2, <2>4, <2>5 DEF Finished, a
<1> QED
  BY <1>1, <1>8, <1>9 DEF F

-----------------------------------------------------------------------------
(* The commands of a request *)

\* What the commands of a request make of w: the error of one is taken for the loss of
\* the device, the success of one means that host and device agree, and what changes is
\* on the device at the port, which is enabled and has a handle.
Moved(w) ==
  {x \in Worked(w) :
     /\ Session(w) => Session(x)
     /\ \A d \in Device : x.media[d] # w.media[d] =>
          d = w.port /\ w.port # None /\ w.dev.enabled /\ w.usbfd.buffer}

\* A call that makes no port reset does not change what is known of the device.
LEMMA WorkedKnown ==
  ASSUME NEW w, NEW x \in Worked(w)
  PROVE  /\ x \in UsbSet /\ (Known(w) => Known(x))
         /\ x.mounted = w.mounted /\ x.handshake_mode = w.handshake_mode
         /\ x.port \in {w.port, None} /\ x.usbfd = w.usbfd
BY DEF Worked, Drove, Carried, Known

\* Of itself a record is a result.
LEMMA MovedRefl ==
  ASSUME NEW w \in UsbSet
  PROVE  w \in Moved(w)
BY WorkedSimple DEF Moved

\* The commands of one request, one after the other.
LEMMA MovedTrans ==
  ASSUME NEW w, NEW x \in Moved(w), NEW y \in Moved(x)
  PROVE  y \in Moved(w)
<1>1. y \in Worked(w)
  BY WorkedTrans DEF Moved
<1>2. /\ x.port \in {w.port, None} /\ x.usbfd = w.usbfd /\ (x.dev.enabled => w.dev.enabled)
      /\ Session(w) => Session(y)
  BY DEF Moved, Worked, Drove, Carried
<1>3. ASSUME NEW d \in Device, y.media[d] # w.media[d]
      PROVE  d = w.port /\ w.port # None /\ w.dev.enabled /\ w.usbfd.buffer
  <2>1. CASE y.media[d] = x.media[d]
    BY <1>3, <2>1 DEF Moved
  <2>2. CASE y.media[d] # x.media[d]
    <3>1. d = x.port /\ x.port # None /\ x.dev.enabled /\ x.usbfd.buffer
      BY <2>2 DEF Moved
    <3> QED
      BY <1>2, <3>1
  <2> QED
    BY <2>1, <2>2
<1> QED
  BY <1>1, <1>2, <1>3 DEF Moved

\* A command of a request.
LEMMA CycleMoved ==
  ASSUME NEW w \in UsbSet, w.handshake_mode = 0, NEW cmd, CmdOK(cmd), cmd.op \in {"read", "write"}
  PROVE  Cycle(w, cmd) \in Moved(w) /\ Cycle(w, cmd) \in Finished(w, cmd)
<1> DEFINE x == Cycle(w, cmd)
<1>1. x \in Finished(w, cmd) /\ (x.res # "OK" => x.unplug_device)
  BY CycleWorks
<1> HIDE DEF x
<1>2. x \in Worked(w) /\ x \in Ran(w, cmd) /\ (x.res = "OK" => Agrees(x))
  BY <1>1 DEF Finished, Ran
<1>3. Session(w) => Session(x)
  BY <1>1, <1>2, WorkedKnown DEF Session
<1>4. ASSUME NEW d \in Device, x.media[d] # w.media[d]
      PROVE  d = w.port /\ w.port # None /\ w.dev.enabled /\ w.usbfd.buffer
  <2>1. /\ w.port # None /\ w.dev.enabled /\ w.usbfd.buffer
        /\ x.media = Stored(w, cmd)
    BY <1>2, <1>4 DEF Ran
  <2>2. d # w.port => x.media[d] = w.media[d]
    BY <2>1 DEF Stored, UsbSet, Media
  <2> QED
    BY <1>4, <2>1, <2>2
<1> QED
  BY <1>1, <1>2, <1>3, <1>4 DEF Moved, x

\* An error before any transfer.
LEMMA FailMoved ==
  ASSUME NEW w \in UsbSet
  PROVE  /\ Fail(w, "ERR") \in Moved(w) /\ Fail(w, "ERR").res # "OK"
         /\ Fail(w, "ERR").media = w.media
<1> DEFINE x == Fail(w, "ERR")
<1>1. x \in Worked(w) /\ x.media = w.media
  BY WorkedSimple DEF Codes
<1>2. /\ x.mounted = w.mounted /\ x.unplug_device = w.unplug_device /\ x.dev = w.dev
      /\ x.id = w.id /\ x.tog = w.tog /\ x.res = "ERR"
  BY DEF Fail, UsbSet
<1> HIDE DEF x
<1>3. Session(w) => Session(x)
  BY <1>1, <1>2, WorkedKnown DEF Session, Agrees, OutAgrees
<1> QED
  BY <1>1, <1>2, <1>3 DEF Moved, x

\* What is left in 16 bits of a number of sectors.
LEMMA CutBelow ==
  ASSUME NEW n \in Nat
  PROVE  Cut(n) \in Nat /\ Cut(n) <= n /\ (n < Wrap => Cut(n) = n)
<1>1. Wrap \in Nat \ {0}
  BY UsbStorageAssumption
<1> QED
  BY <1>1 DEF Cut

\* The data that is read is not part of what is kept.
LEMMA DataMoved ==
  ASSUME NEW w \in UsbSet, NEW s \in Seq(Datum)
  PROVE  [w EXCEPT !.data = s] \in Moved(w)
<1> DEFINE x == [w EXCEPT !.data = s]
<1>1. x \in UsbSet
  BY DEF UsbSet
<1>2. x \in Worked(w) /\ x.media = w.media
  BY <1>1 DEF Worked, Drove, Carried, Out, UsbSet
<1>3. Agrees(w) => Agrees(x)
  BY DEF Agrees, OutAgrees, UsbSet
<1>4. x.mounted = w.mounted /\ x.unplug_device = w.unplug_device /\ x.dev = w.dev
  BY DEF UsbSet
<1> HIDE DEF x
<1>5. Session(w) => Session(x)
  BY <1>2, <1>3, <1>4, WorkedKnown DEF Session
<1> QED
  BY <1>2, <1>5 DEF Moved, x

\* The sectors of the first i commands of a request for n.
Upto(n, i) == IF i * Chunk <= n THEN i * Chunk ELSE n

\* They begin with none and end with all.
LEMMA UptoEnds ==
  ASSUME NEW n \in Nat
  PROVE  /\ Upto(n, 0) = 0 /\ Upto(n, Chunks(n)) = n
         /\ n > 0 => Chunks(n) > 0
<1> DEFINE q == Chunks(n)
<1>1. Chunk \in Nat \ {0} /\ n + Chunk - 1 \in Nat
  BY UsbStorageAssumption
<1>2. q \in Nat /\ n + Chunk - 1 < q * Chunk + Chunk
  <2>1. q = (n + Chunk - 1) \div Chunk
    BY DEF Chunks
  <2> QED
    BY <1>1, <2>1, DivBelow, DivAbove
<1> HIDE DEF q
<1>3. 0 * Chunk = 0 /\ q * Chunk \in Nat /\ n <= q * Chunk
  BY <1>1, <1>2
<1>4. Upto(n, 0) = 0
  BY <1>3 DEF Upto
<1>5. Upto(n, q) = n
  BY <1>3 DEF Upto
<1>6. n > 0 => q # 0
  BY <1>3
<1> QED
  BY <1>2, <1>4, <1>5, <1>6 DEF q

\* Each command goes on where the one before has ended.
LEMMA UptoSteps ==
  ASSUME NEW n \in Nat, NEW i \in 1 .. Chunks(n)
  PROVE  /\ Upto(n, i - 1) = (i - 1) * Chunk /\ Upto(n, i - 1) \in Nat
         /\ ChunkLen(n, i) \in Nat /\ Upto(n, i) = Upto(n, i - 1) + ChunkLen(n, i)
         /\ Upto(n, i) <= n
<1> DEFINE j == i - 1
<1>1. /\ Chunks(n) \in Nat /\ j * Chunk \in Nat /\ ChunkLen(n, i) \in Nat
      /\ j * Chunk + ChunkLen(n, i) <= n
  BY ChunksFit
<1>2. Chunk \in Nat \ {0} /\ i \in Nat /\ j \in Nat /\ i = j + 1
  BY <1>1, UsbStorageAssumption
<1>3. ChunkLen(n, i) = IF i * Chunk <= n THEN Chunk ELSE n - j * Chunk
  BY DEF ChunkLen
<1> HIDE DEF j
<1>4. i * Chunk = j * Chunk + Chunk
  BY <1>2
<1> DEFINE a == j * Chunk
           b == i * Chunk
<1>5. Upto(n, j) = (IF a <= n THEN a ELSE n) /\ Upto(n, i) = IF b <= n THEN b ELSE n
  BY DEF Upto
<1> HIDE DEF a, b
<1>6. /\ Upto(n, j) = a /\ a \in Nat /\ Upto(n, i) = a + ChunkLen(n, i)
      /\ Upto(n, i) <= n
  BY <1>1, <1>2, <1>3, <1>4, <1>5 DEF a, b
<1> QED
  BY <1>1, <1>6 DEF a, j

\* Sectors that follow each other.
LEMMA HoldsJoin ==
  ASSUME NEW m \in [0 .. NSect - 1 -> Cell], NEW s \in Nat, NEW a \in Nat, NEW b \in Nat,
         s + a + b <= NSect
  PROVE  /\ Holds(m, s, a) \in Seq(Cell)
         /\ Holds(m, s, a) \o Holds(m, s + a, b) = Holds(m, s, a + b)
<1> DEFINE x == Holds(m, s, a)
           y == Holds(m, s + a, b)
           z == Holds(m, s, a + b)
<1>0. NSect \in Nat
  BY UsbStorageAssumption
<1>1. /\ x \in Seq(Cell) /\ Len(x) = a /\ \A i \in 1 .. a : x[i] = m[s + i - 1]
  BY <1>0 DEF Holds
<1>2. /\ y \in Seq(Cell) /\ Len(y) = b /\ \A i \in 1 .. b : y[i] = m[s + a + i - 1]
  BY <1>0 DEF Holds
<1>3. /\ z \in Seq(Cell) /\ Len(z) = a + b /\ \A i \in 1 .. a + b : z[i] = m[s + i - 1]
  BY <1>0 DEF Holds
<1> HIDE DEF x, y, z
<1> DEFINE v == x \o y
<1>4. /\ v \in Seq(Cell) /\ Len(v) = a + b
      /\ \A i \in 1 .. a + b : v[i] = IF i <= a THEN x[i] ELSE y[i - a]
  <2>1. x \in Seq(Cell) /\ y \in Seq(Cell) /\ Len(x) = a /\ Len(y) = b
    BY <1>1, <1>2
  <2> QED
    BY <2>1, ConcatProperties
<1> HIDE DEF v
<1>5. ASSUME NEW i \in 1 .. a + b
      PROVE  v[i] = z[i]
  <2>1. CASE i <= a
    BY <1>1, <1>3, <1>4, <2>1
  <2>2. CASE i > a
    <3> DEFINE k == i - a
    <3>1. k \in 1 .. b /\ s + a + k - 1 = s + i - 1
      BY <2>2
    <3>2. v[i] = y[k]
      BY <1>4, <2>2
    <3> QED
      BY <1>2, <1>3, <3>1, <3>2
  <2> QED
    BY <2>1, <2>2
<1>6. v = z
  BY <1>3, <1>4, <1>5
<1> QED
  BY <1>1, <1>6 DEF v, x, y, z

\* A loop of n turns whose turn i leads from P[i - 1] to P[i].
LEMMA LoopPasses ==
  ASSUME NEW n \in Nat, NEW f, NEW P, f[0] \in P[0],
         \A i \in 1 .. n : f[i - 1] \in P[i - 1] => f[i] \in P[i]
  PROVE  f[n] \in P[n]
<1> DEFINE S == {m \in Nat : m <= n => f[m] \in P[m]}
<1>1. 0 \in S
  OBVIOUS
<1>2. ASSUME NEW m \in S
      PROVE  m + 1 \in S
  <2> SUFFICES ASSUME m + 1 <= n
               PROVE  f[m + 1] \in P[m + 1]
    OBVIOUS
  <2>1. f[m] \in P[m] /\ m + 1 \in 1 .. n /\ (m + 1) - 1 = m
    OBVIOUS
  <2> QED
    BY <2>1
<1>3. S = Nat
  <2> HIDE DEF S
  <2>1. S \in SUBSET Nat
    BY DEF S
  <2> QED
    BY <1>1, <1>2, <2>1, SetInduction
<1> QED
  BY <1>3

\* The commands of a request are for sectors of the disk.
LEMMA ReadCmdOK ==
  ASSUME NEW s \in Nat, NEW k \in Nat, s + k <= NSect
  PROVE  /\ CmdOK(ReadCmd(s, k))
         /\ ReadCmd(s, k).op = "read" /\ ReadCmd(s, k).sector = s /\ ReadCmd(s, k).n = k
<1> DEFINE d == [i \in 1 .. k |-> None]
<1>1. Len(d) = k
  OBVIOUS
<1>2. ReadCmd(s, k) = [op |-> "read", sector |-> s, n |-> Len(d), data |-> d]
  BY DEF ReadCmd, Cmd
<1> HIDE DEF d
<1> QED
  BY <1>1, <1>2 DEF CmdOK

\* The command that writes sectors d from s on.
LEMMA WriteCmdOK ==
  ASSUME NEW s \in Nat, NEW d \in Seq(Value)
  PROVE  /\ CmdOK(WriteCmd(s, d))
         /\ WriteCmd(s, d).op = "write" /\ WriteCmd(s, d).sector = s
         /\ WriteCmd(s, d).n = Len(d) /\ WriteCmd(s, d).data = d
BY DEF CmdOK, WriteCmd, Cmd

\* A request that succeeds has read what the device at the port holds, unless this has
\* failed in it, and it has met one if it is for any sector.
ReadUpTo(w, sector, n) ==
  {x \in Moved(w) :
     /\ x.media = w.media
     /\ x.res = "OK" => /\ n > 0 => There(w, x)
                        /\ ~x.refused => x.data = Holds(w.media[w.port], sector, n)}

\* What c is after a, which has read n sectors from s on, when it has read k more.
ReadOn(w, s, n, k, a, c) ==
  /\ c \in UsbSet /\ c \in Moved(w) /\ a.data \o c.data \in Seq(Datum)
  /\ a \in ReadUpTo(w, s, n) /\ a.res = "OK" =>
       /\ c.media = w.media
       /\ c.res = "OK" =>
            /\ There(w, c)
            /\ ~c.refused => a.data \o c.data = Holds(w.media[w.port], s, n + k)

\* One command more.
LEMMA ReadStep ==
  ASSUME NEW w \in UsbSet, w.handshake_mode = 0, NEW s \in Nat, NEW n \in Nat, NEW k \in Nat,
         s + n + k <= NSect, NEW a \in Moved(w),
         NEW z, z = s + n, NEW c, c = Cycle(a, ReadCmd(z, k))
  PROVE  ReadOn(w, s, n, k, a, c)
<1> DEFINE cmd == ReadCmd(z, k)
<1>1. CmdOK(cmd) /\ cmd.op = "read" /\ cmd.sector = s + n /\ cmd.n = k
  <2>1. z \in Nat /\ z + k <= NSect
    OBVIOUS
  <2> QED
    BY <2>1, ReadCmdOK
<1> HIDE DEF cmd
<1>2. /\ a \in UsbSet /\ a.handshake_mode = 0 /\ a.port \in {w.port, None}
      /\ a.usbfd = w.usbfd /\ (a.dev.enabled => w.dev.enabled)
  BY DEF Moved, Worked, Drove, Carried
<1>3. c \in Moved(a) /\ c \in Finished(a, cmd)
  BY <1>1, <1>2, CycleMoved DEF cmd
<1>4. c \in UsbSet /\ c \in Moved(w) /\ c.media = a.media
  <2>1. c \in UsbSet
    BY <1>3 DEF Moved, Worked, Drove
  <2>2. c \in Moved(w)
    BY <1>3, MovedTrans
  <2>3. c.media = a.media
    BY <1>1, <1>3 DEF Finished, Ran
  <2> QED
    BY <2>1, <2>2, <2>3
<1>5. a.data \o c.data \in Seq(Datum)
  BY <1>2, <1>4 DEF UsbSet
<1>8. a.refused => c.refused
  BY <1>3 DEF Moved, Worked, Drove, Carried
<1>9. ASSUME a \in ReadUpTo(w, s, n), a.res = "OK", c.res = "OK"
      PROVE  There(w, c)
  <2>1. There(a, c)
    BY <1>3, <1>9 DEF Finished
  <2> QED
    BY <1>2, <2>1 DEF There
<1>6. ASSUME a \in ReadUpTo(w, s, n), a.res = "OK", c.res = "OK", ~c.refused
      PROVE  a.data \o c.data = Holds(w.media[w.port], s, n + k)
  <2>1. There(a, c) /\ Answered(a, cmd, c.data)
    BY <1>3, <1>6 DEF Finished, Fulfilled
  <2>2. a.port = w.port /\ w.port \in Device
    BY <1>2, <2>1 DEF There, UsbSet
  <2> DEFINE m == w.media[w.port]
  <2>3. a.data = Holds(m, s, n) /\ a.media = w.media
    BY <1>6, <1>8 DEF ReadUpTo
  <2>4. c.data = Holds(m, s + n, k)
    BY <1>1, <2>1, <2>2, <2>3 DEF Answered
  <2>5. m \in [0 .. NSect - 1 -> Cell]
    BY <2>2 DEF UsbSet, Media
  <2> HIDE DEF m
  <2>6. Holds(m, s, n) \o Holds(m, s + n, k) = Holds(m, s, n + k)
    <3>1. m \in [0 .. NSect - 1 -> Cell] /\ s \in Nat /\ n \in Nat /\ k \in Nat
          /\ s + n + k <= NSect
      BY <2>5
    <3> QED
      BY ONLY <3>1, HoldsJoin
  <2> QED
    BY <2>3, <2>4, <2>6 DEF m
<1>7. a \in ReadUpTo(w, s, n) => c.media = w.media
  BY <1>4 DEF ReadUpTo
<1> QED
  BY <1>4, <1>5, <1>6, <1>7, <1>9 DEF ReadOn

\* Reading sectors, of which there are 16 bits.
LEMMA ReadSomeReads ==
  ASSUME NEW w \in UsbSet, w.handshake_mode = 0,
         NEW sector \in Nat, NEW n \in Nat, sector + n <= NSect
  PROVE  ReadSome(w, sector, n) \in ReadUpTo(w, sector, n)
<1>0. Chunks(n) \in Nat
  BY ChunksTyped
<1> DEFINE v == [w EXCEPT !.data = <<>>]
           C(a, i) == Cycle(a, ReadCmd(sector + (i - 1) * Chunk, ChunkLen(n, i)))
           Op(a, i) == IF C(a, i).res = "OK"
                       THEN [C(a, i) EXCEPT !.data = a.data \o C(a, i).data]
                       ELSE C(a, i)
           Round(a, i) == IF a.res = "OK" THEN Op(a, i) ELSE a
           Is(f) == f = [i \in 0 .. Chunks(n) |-> IF i = 0 THEN v ELSE Round(f[i - 1], i)]
           g == CHOOSE f : Is(f)
           T == [i \in 1 .. Chunks(n) |-> [a \in Moved(w) |-> Round(a, i)]]
           P == [i \in 0 .. Chunks(n) |-> ReadUpTo(w, sector, Upto(n, i))]
<1>1. ReadSome(w, sector, n) = g[Chunks(n)]
  BY Zenon DEF ReadSome, Repeat, With, Then
<1>9. Upto(n, 0) = 0 /\ Upto(n, Chunks(n)) = n
  BY UptoEnds
<1>2. v \in Moved(w) /\ v \in ReadUpTo(w, sector, Upto(n, 0))
  <2>1. <<>> \in Seq(Datum) /\ Holds(w.media[w.port], sector, 0) = <<>>
    BY DEF Holds
  <2>2. v \in Moved(w)
    BY <2>1, DataMoved
  <2>3. v.media = w.media /\ v.data = <<>>
    BY DEF UsbSet
  <2> HIDE DEF v
  <2> QED
    BY <1>9, <2>1, <2>2, <2>3 DEF ReadUpTo
<1>3. ASSUME NEW a \in Moved(w), NEW i \in 1 .. Chunks(n)
      PROVE  /\ Round(a, i) \in Moved(w)
             /\ a \in ReadUpTo(w, sector, Upto(n, i - 1)) =>
                  Round(a, i) \in ReadUpTo(w, sector, Upto(n, i))
  <2> DEFINE k == ChunkLen(n, i)
             p == Upto(n, i - 1)
             c == Cycle(a, ReadCmd(sector + p, k))
             d == a.data \o c.data
             e == [c EXCEPT !.data = d]
  <2>1. /\ p = (i - 1) * Chunk /\ p \in Nat /\ k \in Nat
        /\ Upto(n, i) = p + k /\ sector + p + k <= NSect
    <3>1. /\ p = (i - 1) * Chunk /\ p \in Nat /\ k \in Nat
          /\ Upto(n, i) = p + k /\ Upto(n, i) <= n
      BY UptoSteps
    <3> HIDE DEF p, k
    <3>2. sector + p + k <= NSect
      BY <3>1, UsbStorageAssumption
    <3> QED
      BY <3>1, <3>2
  <2>2. Round(a, i) = IF a.res = "OK" THEN IF c.res = "OK" THEN e ELSE c ELSE a
    BY <2>1
  <2> HIDE DEF Round
  <2>3. /\ c \in UsbSet /\ c \in Moved(w) /\ d \in Seq(Datum)
        /\ a \in ReadUpTo(w, sector, p) /\ a.res = "OK" =>
             /\ c.media = w.media
             /\ c.res = "OK" =>
                  There(w, c) /\ (~c.refused => d = Holds(w.media[w.port], sector, p + k))
    <3> DEFINE z == sector + p
    <3>1. c = Cycle(a, ReadCmd(z, k)) /\ d = a.data \o c.data /\ z = sector + p
      OBVIOUS
    <3>2. sector + p + k <= NSect /\ p \in Nat /\ k \in Nat
      BY <2>1
    <3> HIDE DEF c, d, p, k, z
    <3>3. ReadOn(w, sector, p, k, a, c)
      BY <3>1, <3>2, ReadStep
    <3> QED
      BY <3>1, <3>3 DEF ReadOn
  <2> HIDE DEF c, d, k, p
  <2>4. /\ e \in Moved(w) /\ e.media = c.media /\ e.data = d /\ e.port = c.port
        /\ e.res = c.res /\ e.refused = c.refused
    <3>1. e \in Moved(w)
      BY <2>3, DataMoved, MovedTrans
    <3> QED
      BY <2>3, <3>1 DEF UsbSet
  <2> HIDE DEF e
  <2>5. Round(a, i) \in Moved(w)
    BY <2>2, <2>3, <2>4
  <2>6. ASSUME a \in ReadUpTo(w, sector, p)
        PROVE  Round(a, i) \in ReadUpTo(w, sector, p + k)
    <3>1. CASE a.res # "OK"
      BY <2>2, <2>6, <3>1 DEF ReadUpTo
    <3>2. CASE a.res = "OK" /\ c.res # "OK"
      BY <2>2, <2>3, <2>6, <3>2 DEF ReadUpTo
    <3>3. CASE a.res = "OK" /\ c.res = "OK"
      <4>1. There(w, e)
        BY <2>3, <2>4, <2>6, <3>3 DEF There
      <4> QED
        BY <2>2, <2>3, <2>4, <2>6, <3>3, <4>1 DEF ReadUpTo
    <3> QED
      BY <3>1, <3>2, <3>3
  <2> QED
    BY <2>1, <2>5, <2>6 DEF p
<1> HIDE DEF v, Round
<1>4. \A i \in 1 .. Chunks(n), a \in Moved(w) : T[i][a] \in Moved(w)
  BY <1>3
<1>5. \E f : Is(f)
  <2>1. PICK f \in [0 .. Chunks(n) -> Moved(w)] : f[0] = v /\ \A i \in 1 .. Chunks(n) : f[i] = T[i][f[i - 1]]
    <3> HIDE DEF T
    <3>1. Runs(Moved(w), Chunks(n), v, T)
      BY <1>0, <1>2, <1>4, LoopRuns
    <3> QED
      BY <3>1 DEF Runs
  <2>2. ASSUME NEW i \in 0 .. Chunks(n)
        PROVE  f[i] = IF i = 0 THEN v ELSE Round(f[i - 1], i)
    <3>1. i # 0 => i \in 1 .. Chunks(n) /\ i - 1 \in 0 .. Chunks(n)
      BY <1>0, SMT
    <3>2. i # 0 => f[i - 1] \in Moved(w)
      BY <3>1
    <3>3. i # 0 => T[i][f[i - 1]] = Round(f[i - 1], i)
      BY <3>1, <3>2
    <3> QED
      BY <2>1, <3>1, <3>3
  <2>3. f = [i \in 0 .. Chunks(n) |-> f[i]]
    OBVIOUS
  <2>4. Is(f)
    BY <2>2, <2>3
  <2> QED
    BY <2>4
<1>6. Is(g)
  BY <1>5
<1> HIDE DEF T
<1>7. g[0] \in P[0] /\ \A i \in 1 .. Chunks(n) : g[i - 1] \in P[i - 1] => g[i] \in P[i]
  <2>1. \A i \in 0 .. Chunks(n) : g[i] = IF i = 0 THEN v ELSE Round(g[i - 1], i)
    <3> HIDE DEF g, P
    <3> QED
      BY <1>6
  <2> HIDE DEF g
  <2>2. g[0] \in P[0]
    <3>1. g[0] = v /\ P[0] = ReadUpTo(w, sector, Upto(n, 0))
      BY <1>0, <2>1
    <3> QED
      BY <1>2, <3>1
  <2>3. ASSUME NEW i \in 1 .. Chunks(n), g[i - 1] \in P[i - 1]
        PROVE  g[i] \in P[i]
    <3>1. /\ g[i] = Round(g[i - 1], i) /\ P[i - 1] = ReadUpTo(w, sector, Upto(n, i - 1))
          /\ P[i] = ReadUpTo(w, sector, Upto(n, i))
      BY <1>0, <2>1
    <3>2. g[i - 1] \in ReadUpTo(w, sector, Upto(n, i - 1))
      BY <2>3, <3>1
    <3>3. Round(g[i - 1], i) \in ReadUpTo(w, sector, Upto(n, i))
      BY <1>3, <3>2 DEF ReadUpTo
    <3> QED
      BY <3>1, <3>3
  <2> QED
    BY <2>2, <2>3
<1> HIDE DEF g
<1>8. g[Chunks(n)] \in P[Chunks(n)]
  <2> HIDE DEF P
  <2> QED
    BY <1>0, <1>7, LoopPasses
<1> QED
  BY <1>0, <1>1, <1>8, <1>9

\* Reading sectors.
LEMMA ReadChunksReads ==
  ASSUME NEW w \in UsbSet, w.handshake_mode = 0,
         NEW sector \in Nat, NEW n \in Nat, sector + Cut(n) <= NSect
  PROVE  /\ ReadChunks(w, sector, n) \in ReadUpTo(w, sector, Cut(n))
         /\ ReadChunks(w, sector, n).res = "OK" => Cut(n) > 0
<1>1. CASE Cut(n) = 0
  <2>1. ReadChunks(w, sector, n) = Fail(w, "ERR")
    BY <1>1 DEF ReadChunks
  <2>2. Fail(w, "ERR") \in Moved(w) /\ Fail(w, "ERR").res # "OK"
        /\ Fail(w, "ERR").media = w.media
    BY FailMoved
  <2> QED
    BY <2>1, <2>2 DEF ReadUpTo
<1>2. CASE Cut(n) # 0
  <2>1. ReadChunks(w, sector, n) = ReadSome(w, sector, Cut(n))
    BY <1>2 DEF ReadChunks
  <2>2. Cut(n) \in Nat
    BY CutBelow
  <2> QED
    BY <1>2, <2>1, <2>2, ReadSomeReads
<1> QED
  BY <1>1, <1>2

\* A request that succeeds has written its value to the sectors of the device, unless
\* this has failed in it.
Written(m, s, n, val) == \A k \in s .. s + n - 1 : m[k] = val
WrittenUpTo(w, sector, n, val) ==
  {x \in Moved(w) :
     x.res = "OK" /\ n > 0 =>
       There(w, x) /\ (x.refused \/ Written(x.media[w.port], sector, n, val))}

\* What c is after a, which has written n sectors from s on, when it has written k more.
WroteOn(w, s, n, k, val, a, c) ==
  /\ c \in Moved(w)
  /\ a \in WrittenUpTo(w, s, n, val) /\ a.res = "OK" => c \in WrittenUpTo(w, s, n + k, val)

\* One command more.
LEMMA WriteStep ==
  ASSUME NEW w \in UsbSet, w.handshake_mode = 0, NEW s \in Nat, NEW n \in Nat, NEW k \in Nat,
         s + n + k <= NSect, NEW val \in Value, NEW a \in Moved(w),
         NEW z, z = s + n, NEW c, c = Cycle(a, WriteCmd(z, [i \in 1 .. k |-> val]))
  PROVE  WroteOn(w, s, n, k, val, a, c)
<1> DEFINE d == [i \in 1 .. k |-> val]
           cmd == WriteCmd(z, d)
<1>0. /\ d \in Seq(Value) /\ Len(d) = k /\ s + n \in Nat
      /\ \A i \in 1 .. k : d[i] = val
  OBVIOUS
<1> HIDE DEF d
<1>1. /\ CmdOK(cmd) /\ cmd.op = "write" /\ cmd.sector = s + n /\ cmd.n = k /\ cmd.data = d
  <2>1. z \in Nat
    OBVIOUS
  <2> QED
    BY <1>0, <2>1, WriteCmdOK
<1>2. c = Cycle(a, cmd)
  BY DEF d
<1> HIDE DEF cmd
<1>3. /\ a \in UsbSet /\ a.handshake_mode = 0 /\ a.port \in {w.port, None}
      /\ a.usbfd = w.usbfd /\ (a.dev.enabled => w.dev.enabled)
  BY DEF Moved, Worked, Drove, Carried
<1>4. c \in Moved(a) /\ c \in Finished(a, cmd)
  BY <1>1, <1>2, <1>3, CycleMoved
<1>5. c \in Moved(w)
  BY <1>4, MovedTrans
<1>8. a.refused => c.refused
  BY <1>4 DEF Moved, Worked, Drove, Carried
<1>9. ASSUME a \in WrittenUpTo(w, s, n, val), a.res = "OK", c.res = "OK"
      PROVE  There(w, c)
  <2>1. There(a, c)
    BY <1>4, <1>9 DEF Finished
  <2> QED
    BY <1>3, <2>1 DEF There
<1>6. ASSUME a \in WrittenUpTo(w, s, n, val), a.res = "OK", c.res = "OK", ~c.refused
      PROVE  Written(c.media[w.port], s, n + k, val)
  <2>1. There(a, c) /\ c.media = Stored(a, cmd)
    BY <1>1, <1>4, <1>6 DEF Finished, Fulfilled
  <2>2. a.port = w.port /\ w.port \in Device
    BY <1>3, <2>1 DEF There, UsbSet
  <2> DEFINE old == a.media[w.port]
             new == Overwritten(old, cmd)
  <2>3. c.media[w.port] = new
    BY <1>3, <2>1, <2>2 DEF Stored, UsbSet, Media
  <2>4. n > 0 => Written(old, s, n, val)
    BY <1>6, <1>8, <2>2 DEF WrittenUpTo
  <2> HIDE DEF old
  <2>5. ASSUME NEW j \in s .. s + (n + k) - 1
        PROVE  new[j] = val
    <3>1. j \in 0 .. NSect - 1
      BY UsbStorageAssumption
    <3>2. new[j] = IF j - (s + n) \in 0 .. k - 1 THEN d[j - (s + n) + 1] ELSE old[j]
      BY <1>1, <3>1 DEF Overwritten
    <3>3. CASE j - (s + n) \in 0 .. k - 1
      <4>1. j - (s + n) + 1 \in 1 .. k
        BY <3>3
      <4> QED
        BY <1>0, <3>2, <3>3, <4>1
    <3>4. CASE j - (s + n) \notin 0 .. k - 1
      <4>1. n > 0 /\ j \in s .. s + n - 1
        BY <3>4
      <4> QED
        BY <2>4, <3>2, <3>4, <4>1 DEF Written
    <3> QED
      BY <3>3, <3>4
  <2> HIDE DEF new
  <2> QED
    BY <2>2, <2>3, <2>5 DEF Written
<1> QED
  BY <1>5, <1>6, <1>9 DEF WrittenUpTo, WroteOn

\* Writing sectors, of which there are 16 bits.
LEMMA WriteSomeWrites ==
  ASSUME NEW w \in UsbSet, w.handshake_mode = 0,
         NEW sector \in Nat, NEW n \in Nat, sector + n <= NSect, NEW val \in Value
  PROVE  WriteSome(w, sector, n, val) \in WrittenUpTo(w, sector, n, val)
<1>0. Chunks(n) \in Nat
  BY ChunksTyped
<1> DEFINE v == w
           Op(a, i) == Cycle(a, WriteCmd(sector + (i - 1) * Chunk,
                                        [k \in 1 .. ChunkLen(n, i) |-> val]))
           Round(a, i) == IF a.res = "OK" THEN Op(a, i) ELSE a
           Is(f) == f = [i \in 0 .. Chunks(n) |-> IF i = 0 THEN v ELSE Round(f[i - 1], i)]
           g == CHOOSE f : Is(f)
           T == [i \in 1 .. Chunks(n) |-> [a \in Moved(w) |-> Round(a, i)]]
           P == [i \in 0 .. Chunks(n) |-> WrittenUpTo(w, sector, Upto(n, i), val)]
<1>1. WriteSome(w, sector, n, val) = g[Chunks(n)]
  BY Zenon DEF WriteSome, Repeat, With, Then
<1>9. Upto(n, 0) = 0 /\ Upto(n, Chunks(n)) = n
  BY UptoEnds
<1>2. v \in Moved(w) /\ v \in WrittenUpTo(w, sector, Upto(n, 0), val)
  BY <1>9, MovedRefl DEF WrittenUpTo
<1>3. ASSUME NEW a \in Moved(w), NEW i \in 1 .. Chunks(n)
      PROVE  /\ Round(a, i) \in Moved(w)
             /\ a \in WrittenUpTo(w, sector, Upto(n, i - 1), val) =>
                  Round(a, i) \in WrittenUpTo(w, sector, Upto(n, i), val)
  <2> DEFINE k == ChunkLen(n, i)
             p == Upto(n, i - 1)
             c == Cycle(a, WriteCmd(sector + p, [j \in 1 .. k |-> val]))
  <2>1. /\ p = (i - 1) * Chunk /\ p \in Nat /\ k \in Nat
        /\ Upto(n, i) = p + k /\ sector + p + k <= NSect
    <3>1. /\ p = (i - 1) * Chunk /\ p \in Nat /\ k \in Nat
          /\ Upto(n, i) = p + k /\ Upto(n, i) <= n
      BY UptoSteps
    <3> HIDE DEF p, k
    <3>2. sector + p + k <= NSect
      BY <3>1, UsbStorageAssumption
    <3> QED
      BY <3>1, <3>2
  <2>2. Round(a, i) = IF a.res = "OK" THEN c ELSE a
    BY <2>1
  <2> HIDE DEF Round
  <2>3. /\ c \in Moved(w)
        /\ a \in WrittenUpTo(w, sector, p, val) /\ a.res = "OK" =>
             c \in WrittenUpTo(w, sector, p + k, val)
    <3> DEFINE z == sector + p
    <3>1. c = Cycle(a, WriteCmd(z, [j \in 1 .. k |-> val])) /\ z = sector + p
      OBVIOUS
    <3>2. sector + p + k <= NSect /\ p \in Nat /\ k \in Nat
      BY <2>1
    <3> HIDE DEF c, p, k, z
    <3>3. WroteOn(w, sector, p, k, val, a, c)
      BY <3>1, <3>2, WriteStep
    <3> QED
      BY <3>3 DEF WroteOn
  <2> HIDE DEF c, k, p
  <2>4. a.res # "OK" /\ a \in WrittenUpTo(w, sector, p, val) =>
          a \in WrittenUpTo(w, sector, p + k, val)
    BY DEF WrittenUpTo
  <2> QED
    BY <2>1, <2>2, <2>3, <2>4 DEF p
<1> HIDE DEF v, Round
<1>4. \A i \in 1 .. Chunks(n), a \in Moved(w) : T[i][a] \in Moved(w)
  BY <1>3
<1>5. \E f : Is(f)
  <2>1. PICK f \in [0 .. Chunks(n) -> Moved(w)] : f[0] = v /\ \A i \in 1 .. Chunks(n) : f[i] = T[i][f[i - 1]]
    <3> HIDE DEF T
    <3>1. Runs(Moved(w), Chunks(n), v, T)
      BY <1>0, <1>2, <1>4, LoopRuns
    <3> QED
      BY <3>1 DEF Runs
  <2>2. ASSUME NEW i \in 0 .. Chunks(n)
        PROVE  f[i] = IF i = 0 THEN v ELSE Round(f[i - 1], i)
    <3>1. i # 0 => i \in 1 .. Chunks(n) /\ i - 1 \in 0 .. Chunks(n)
      BY <1>0, SMT
    <3>2. i # 0 => f[i - 1] \in Moved(w)
      BY <3>1
    <3>3. i # 0 => T[i][f[i - 1]] = Round(f[i - 1], i)
      BY <3>1, <3>2
    <3> QED
      BY <2>1, <3>1, <3>3
  <2>3. f = [i \in 0 .. Chunks(n) |-> f[i]]
    OBVIOUS
  <2>4. Is(f)
    BY <2>2, <2>3
  <2> QED
    BY <2>4
<1>6. Is(g)
  BY <1>5
<1> HIDE DEF T
<1>7. g[0] \in P[0] /\ \A i \in 1 .. Chunks(n) : g[i - 1] \in P[i - 1] => g[i] \in P[i]
  <2>1. \A i \in 0 .. Chunks(n) : g[i] = IF i = 0 THEN v ELSE Round(g[i - 1], i)
    <3> HIDE DEF g, P
    <3> QED
      BY <1>6
  <2> HIDE DEF g
  <2>2. g[0] \in P[0]
    <3>1. g[0] = v /\ P[0] = WrittenUpTo(w, sector, Upto(n, 0), val)
      BY <1>0, <2>1
    <3> QED
      BY <1>2, <3>1
  <2>3. ASSUME NEW i \in 1 .. Chunks(n), g[i - 1] \in P[i - 1]
        PROVE  g[i] \in P[i]
    <3>1. /\ g[i] = Round(g[i - 1], i) /\ P[i - 1] = WrittenUpTo(w, sector, Upto(n, i - 1), val)
          /\ P[i] = WrittenUpTo(w, sector, Upto(n, i), val)
      BY <1>0, <2>1
    <3>2. g[i - 1] \in WrittenUpTo(w, sector, Upto(n, i - 1), val)
      BY <2>3, <3>1
    <3>3. Round(g[i - 1], i) \in WrittenUpTo(w, sector, Upto(n, i), val)
      BY <1>3, <3>2 DEF WrittenUpTo
    <3> QED
      BY <3>1, <3>3
  <2> QED
    BY <2>2, <2>3
<1> HIDE DEF g
<1>8. g[Chunks(n)] \in P[Chunks(n)]
  <2> HIDE DEF P
  <2> QED
    BY <1>0, <1>7, LoopPasses
<1> QED
  BY <1>0, <1>1, <1>8, <1>9

\* Writing sectors.
LEMMA WriteChunksWrites ==
  ASSUME NEW w \in UsbSet, w.handshake_mode = 0,
         NEW sector \in Nat, NEW n \in Nat, sector + Cut(n) <= NSect, NEW val \in Value
  PROVE  /\ WriteChunks(w, sector, n, val) \in WrittenUpTo(w, sector, Cut(n), val)
         /\ WriteChunks(w, sector, n, val).res = "OK" => Cut(n) > 0
<1>1. CASE Cut(n) = 0
  <2>1. WriteChunks(w, sector, n, val) = Fail(w, "ERR")
    BY <1>1 DEF WriteChunks
  <2>2. Fail(w, "ERR") \in Moved(w) /\ Fail(w, "ERR").res # "OK"
    BY FailMoved
  <2> QED
    BY <2>1, <2>2 DEF WrittenUpTo
<1>2. CASE Cut(n) # 0
  <2>1. WriteChunks(w, sector, n, val) = WriteSome(w, sector, Cut(n), val)
    BY <1>2 DEF WriteChunks
  <2>2. Cut(n) \in Nat
    BY CutBelow
  <2> QED
    BY <1>2, <2>1, <2>2, WriteSomeWrites
<1> QED
  BY <1>1, <1>2

\* The last batch is what is left in the buffer.
BatchUpTo(w, sector, n, i) ==
  {x \in Moved(w) :
     /\ x.media = w.media
     /\ x.res = "OK" /\ i > 0 =>
          /\ There(w, x) /\ Cut(n) > 0
          /\ x.refused \/ x.data = Holds(w.media[w.port], sector + (i - 1) * n, Cut(n))}

\* Reading batches of sectors.
LEMMA StressReads ==
  ASSUME NEW w \in UsbSet, w.handshake_mode = 0,
         NEW sector \in Nat, NEW n \in Nat, sector + Batches * n <= NSect
  PROVE  Stress(w, sector, n, Batches) \in BatchUpTo(w, sector, n, Batches)
<1>0. Batches \in Nat /\ Batches = 2
  BY DEF Batches
<1> DEFINE v == w
           Op(a, i) == ReadChunks(a, sector + (i - 1) * n, n)
           Round(a, i) == IF a.res = "OK" THEN Op(a, i) ELSE a
           Is(f) == f = [i \in 0 .. Batches |-> IF i = 0 THEN v ELSE Round(f[i - 1], i)]
           g == CHOOSE f : Is(f)
           T == [i \in 1 .. Batches |-> [a \in Moved(w) |-> Round(a, i)]]
           P == [i \in 0 .. Batches |-> BatchUpTo(w, sector, n, i)]
<1>1. Stress(w, sector, n, Batches) = g[Batches]
  BY Zenon DEF Stress, Repeat, With, Then
<1>2. v \in Moved(w) /\ v \in BatchUpTo(w, sector, n, 0)
  BY MovedRefl DEF BatchUpTo
<1>3. ASSUME NEW a \in Moved(w), NEW i \in 1 .. Batches
      PROVE  /\ Round(a, i) \in Moved(w)
             /\ a \in BatchUpTo(w, sector, n, i - 1) => Round(a, i) \in BatchUpTo(w, sector, n, i)
  <2> DEFINE s == sector + (i - 1) * n
             c == ReadChunks(a, s, n)
  <2>1. /\ a \in UsbSet /\ a.handshake_mode = 0 /\ a.port \in {w.port, None}
        /\ a.usbfd = w.usbfd /\ (a.dev.enabled => w.dev.enabled)
    BY DEF Moved, Worked, Drove, Carried
  <2>2. s \in Nat /\ s + Cut(n) <= NSect
    <3>4. Cut(n) \in Nat /\ Cut(n) <= n
      BY CutBelow
    <3>1. i = 1 \/ i = 2
      BY <1>0
    <3>2. sector + n <= NSect /\ sector + n + n <= NSect /\ NSect \in Nat
      BY <1>0, UsbStorageAssumption
    <3>3. (1 - 1) * n = 0 /\ (2 - 1) * n = n
      OBVIOUS
    <3> QED
      BY <3>1, <3>2, <3>3, <3>4
  <2>3. Round(a, i) = IF a.res = "OK" THEN c ELSE a
    OBVIOUS
  <2>4. i > 0
    BY <1>0
  <2>5. BatchUpTo(w, sector, n, i) =
          {x \in Moved(w) :
             /\ x.media = w.media
             /\ x.res = "OK" => /\ There(w, x) /\ Cut(n) > 0
                                /\ x.refused \/ x.data = Holds(w.media[w.port], s, Cut(n))}
    BY <2>4 DEF BatchUpTo
  <2> HIDE DEF s
  <2>6. c \in ReadUpTo(a, s, Cut(n)) /\ (c.res = "OK" => Cut(n) > 0)
    BY <2>1, <2>2, ReadChunksReads
  <2> HIDE DEF c, Round
  <2>7. c \in Moved(w) /\ c.media = a.media
    BY <2>6, MovedTrans DEF ReadUpTo
  <2>8. ASSUME c.res = "OK", a.media = w.media
        PROVE  /\ There(w, c) /\ Cut(n) > 0
               /\ c.refused \/ c.data = Holds(w.media[w.port], s, Cut(n))
    <3>1. /\ There(a, c) /\ Cut(n) > 0
          /\ c.refused \/ c.data = Holds(a.media[a.port], s, Cut(n))
      BY <2>6, <2>8 DEF ReadUpTo
    <3>2. There(w, c) /\ a.port = w.port
      BY <2>1, <3>1 DEF There
    <3> QED
      BY <2>8, <3>1, <3>2
  <2>9. ASSUME a \in BatchUpTo(w, sector, n, i - 1)
        PROVE  Round(a, i) \in BatchUpTo(w, sector, n, i)
    <3>1. a.media = w.media
      BY <2>9 DEF BatchUpTo
    <3> QED
      BY <2>3, <2>5, <2>7, <2>8, <3>1
  <2> QED
    BY <2>3, <2>7, <2>9
<1> HIDE DEF v, Round
<1>4. \A i \in 1 .. Batches, a \in Moved(w) : T[i][a] \in Moved(w)
  BY <1>3
<1>5. \E f : Is(f)
  <2>1. PICK f \in [0 .. Batches -> Moved(w)] : f[0] = v /\ \A i \in 1 .. Batches : f[i] = T[i][f[i - 1]]
    <3> HIDE DEF T
    <3>1. Runs(Moved(w), Batches, v, T)
      BY <1>0, <1>2, <1>4, LoopRuns
    <3> QED
      BY <3>1 DEF Runs
  <2>2. ASSUME NEW i \in 0 .. Batches
        PROVE  f[i] = IF i = 0 THEN v ELSE Round(f[i - 1], i)
    <3>1. i # 0 => i \in 1 .. Batches /\ i - 1 \in 0 .. Batches
      BY <1>0, SMT
    <3>2. i # 0 => f[i - 1] \in Moved(w)
      BY <3>1
    <3>3. i # 0 => T[i][f[i - 1]] = Round(f[i - 1], i)
      BY <3>1, <3>2
    <3> QED
      BY <2>1, <3>1, <3>3
  <2>3. f = [i \in 0 .. Batches |-> f[i]]
    OBVIOUS
  <2>4. Is(f)
    BY <2>2, <2>3
  <2> QED
    BY <2>4
<1>6. Is(g)
  BY <1>5
<1> HIDE DEF T
<1>7. g[0] \in P[0] /\ \A i \in 1 .. Batches : g[i - 1] \in P[i - 1] => g[i] \in P[i]
  <2>1. \A i \in 0 .. Batches : g[i] = IF i = 0 THEN v ELSE Round(g[i - 1], i)
    <3> HIDE DEF g, P
    <3> QED
      BY <1>6
  <2> HIDE DEF g
  <2>2. g[0] \in P[0]
    <3>1. g[0] = v /\ P[0] = BatchUpTo(w, sector, n, 0)
      BY <1>0, <2>1
    <3> QED
      BY <1>2, <3>1
  <2>3. ASSUME NEW i \in 1 .. Batches, g[i - 1] \in P[i - 1]
        PROVE  g[i] \in P[i]
    <3>1. /\ g[i] = Round(g[i - 1], i) /\ P[i - 1] = BatchUpTo(w, sector, n, i - 1)
          /\ P[i] = BatchUpTo(w, sector, n, i)
      BY <1>0, <2>1
    <3>2. g[i - 1] \in BatchUpTo(w, sector, n, i - 1)
      BY <2>3, <3>1
    <3>3. Round(g[i - 1], i) \in BatchUpTo(w, sector, n, i)
      BY <1>3, <3>2 DEF BatchUpTo
    <3> QED
      BY <3>1, <3>3
  <2> QED
    BY <2>2, <2>3
<1> HIDE DEF g
<1>8. g[Batches] \in P[Batches]
  <2> HIDE DEF P
  <2> QED
    BY <1>0, <1>7, LoopPasses
<1> QED
  BY <1>0, <1>1, <1>8

\* A message the clients can send, or the timer.
MsgOK(m) ==
  /\ m.sector \in Nat /\ m.n \in Nat /\ m.sector + Cut(m.n) <= NSect
  /\ m.op = "write" => m.val \in Value
  /\ m.op = "stress" => m.sector + Batches * m.n <= NSect
  /\ m.op \in {"tick", "wbfs_read"} => m.n = 1 /\ m.sector < NSect

\* What the driver, which was w, may make of a message when it is x: only a device of
\* the model that is mounted is written to, and only mounting sets what that is.
Kind(w, m, x) ==
  /\ \A d \in Device : x.media[d] # w.media[d] => w.ums_init_done /\ Model[d] = w.old_udd
  /\ x.ums_init_done =>
       IF w.ums_init_done THEN m.op # "umount" /\ x.old_udd = w.old_udd
       ELSE /\ m.op \in {"init", "wbfs_open"} /\ x.res = "OK"
            /\ x.port \in Device /\ x.old_udd = Model[x.port]

\* What a message that was done says of the device d.
Holding(d, m, x) ==
  /\ m.op = "read" => x.data = Holds(x.media[d], m.sector, m.n)
  /\ m.op = "stress" => x.data = Holds(x.media[d], m.sector + (Batches - 1) * m.n, m.n)
  /\ m.op = "write" => Written(x.media[d], m.sector, m.n, m.val)

\* It says it of a device of the model that is mounted, unless this has failed or the
\* number of sectors has more than 16 bits.
Told(w, m, x) ==
  m.op \in {"read", "stress", "write"} /\ x.res = "OK" /\ ~x.refused /\ m.n < Wrap =>
    w.ums_init_done /\ \E d \in Device : Model[d] = w.old_udd /\ Holding(d, m, x)

\* Between two requests the parts of the driver change together.
LEMMA MovedReady ==
  ASSUME NEW w, Ready(w), NEW x \in Drove(w)
  PROVE  Ready(x) /\ x \in UsbSet
BY DEF Ready, Drove, Carried, Balanced

\* Without a transfer or a mounted disk nothing is written.
LEMMA SameKind ==
  ASSUME NEW w, NEW x \in Same(w), NEW m, m.op # "umount"
  PROVE  Kind(w, m, x)
BY DEF Same, Drove, Carried, Kind

\* A record of which nothing but the call under way differs.
LEMMA CallReady ==
  ASSUME NEW w, Ready(w), Session(w), NEW f \in {"none"} \cup Faults, NEW k \in Nat
  PROVE  /\ Ready([w EXCEPT !.fault = f, !.left = k])
         /\ Session([w EXCEPT !.fault = f, !.left = k])
<1> DEFINE x == [w EXCEPT !.fault = f, !.left = k]
<1>1. x \in UsbSet /\ Out(x) /\ Balanced(x)
  BY DEF Ready, UsbSet, Out, Balanced
<1>2. /\ x.mounted = w.mounted /\ x.ums_init_done = w.ums_init_done /\ x.usbfd = w.usbfd
      /\ x.handshake_mode = w.handshake_mode /\ x.unplug_device = w.unplug_device
      /\ x.dev = w.dev /\ x.id = w.id /\ x.tog = w.tog
      /\ x.port = w.port /\ x.old_udd = w.old_udd
  BY DEF Ready, UsbSet
<1> HIDE DEF x
<1>3. Ready(x)
  BY <1>1, <1>2 DEF Ready
<1>4. Session(x)
  BY <1>2 DEF Session, Known, Agrees, OutAgrees
<1> QED
  BY <1>3, <1>4 DEF x

\* The record of the driver when a call is over.
LEMMA IdleReady ==
  ASSUME NEW w, Ready(w), Session(w), w.fault = "none"
  PROVE  /\ Ready(Idle(w)) /\ Session(Idle(w))
         /\ Idle(w).res = "OK" /\ Idle(w).fault = "none"
         /\ Idle(w).ums_init_done = w.ums_init_done /\ Idle(w).mounted = w.mounted
         /\ Idle(w).usbfd = w.usbfd /\ Idle(w).known = w.known /\ Idle(w).data = <<>>
         /\ Idle(w).old_udd = w.old_udd /\ Idle(w).media = w.media
<1> DEFINE x == Idle(w)
<1>0. <<>> \in Seq(Datum)
  OBVIOUS
<1>1. x \in UsbSet /\ Out(x) /\ Balanced(x)
  BY <1>0 DEF Idle, Ready, UsbSet, Out, Balanced, Codes
<1>2. /\ x.mounted = w.mounted /\ x.ums_init_done = w.ums_init_done /\ x.usbfd = w.usbfd
      /\ x.handshake_mode = w.handshake_mode /\ x.unplug_device = w.unplug_device
      /\ x.dev = w.dev /\ x.id = w.id /\ x.tog = w.tog /\ x.res = "OK" /\ x.fault = w.fault
      /\ x.known = w.known /\ x.data = <<>>
      /\ x.port = w.port /\ x.old_udd = w.old_udd /\ x.media = w.media
  BY DEF Idle, Ready, UsbSet
<1> HIDE DEF x
<1>3. Ready(x)
  BY <1>1, <1>2 DEF Ready
<1>4. Session(x)
  BY <1>2 DEF Session, Known, Agrees, OutAgrees
<1> QED
  BY <1>2, <1>3, <1>4 DEF x

\* The sectors of a message are those of the device at the port.
LEMMA TransferHolds ==
  ASSUME NEW w \in UsbSet, w.handshake_mode = 0, NEW m, MsgOK(m)
  PROVE  /\ Transfer(w, m) \in Moved(w)
         /\ m.op \in {"read", "write"} /\ Transfer(w, m).res = "OK" =>
              /\ There(w, Transfer(w, m))
              /\ ~Transfer(w, m).refused /\ m.n < Wrap => Holding(w.port, m, Transfer(w, m))
<1> DEFINE s == m.sector
           n == m.n
           x == Transfer(w, m)
<1>1. s \in Nat /\ n \in Nat /\ s + Cut(n) <= NSect
  BY DEF MsgOK
<1>4. n < Wrap => Cut(n) = n
  BY <1>1, CutBelow
<1>2. CASE m.op = "write"
  <2> DEFINE val == m.val
  <2>1. val \in Value /\ x = WriteChunks(w, s, n, val)
    BY <1>2 DEF MsgOK, Transfer
  <2> HIDE DEF s, n, x, val
  <2>2. x \in WrittenUpTo(w, s, Cut(n), val) /\ (x.res = "OK" => Cut(n) > 0)
    BY <1>1, <2>1, WriteChunksWrites
  <2>3. x \in Moved(w)
    BY <2>2 DEF WrittenUpTo
  <2>4. x.res = "OK" =>
          There(w, x) /\ (x.refused \/ Written(x.media[w.port], s, Cut(n), val))
    BY <2>2 DEF WrittenUpTo
  <2> QED
    BY <1>2, <1>4, <2>3, <2>4 DEF Holding, s, n, x, val
<1>3. CASE m.op # "write"
  <2>1. x = ReadChunks(w, s, n)
    BY <1>3 DEF Transfer
  <2> HIDE DEF s, n, x
  <2>2. x \in ReadUpTo(w, s, Cut(n)) /\ (x.res = "OK" => Cut(n) > 0)
    BY <1>1, <2>1, ReadChunksReads
  <2>3. x \in Moved(w) /\ x.media = w.media
    BY <2>2 DEF ReadUpTo
  <2>4. x.res = "OK" =>
          There(w, x) /\ (x.refused \/ x.data = Holds(x.media[w.port], s, Cut(n)))
    BY <2>2, <2>3 DEF ReadUpTo
  <2> QED
    BY <1>3, <1>4, <2>3, <2>4 DEF Holding, s, n, x
<1> QED
  BY <1>2, <1>3

\* A turn of the loop over the disk.
LEMMA TurnReady ==
  ASSUME NEW w, Ready(w), Session(w), w.ums_init_done, NEW m, MsgOK(m), m.op # "umount",
         m.op # "stress"
  PROVE  /\ Ready(Turn(w, m)) /\ Session(Turn(w, m)) /\ Turn(w, m).ums_init_done
         /\ w.fault = "none" => Turn(w, m).fault = "none"
         /\ Kind(w, m, Turn(w, m)) /\ Told(w, m, Turn(w, m))
<1> DEFINE u == unplug_procedure(w)
           v == Go(u)
           t == Transfer(v, m)
           all == IF u.unplug_device THEN Fail(u, "ERR")
                  ELSE IF t.unplug_device THEN Fail(t, "ERR") ELSE t
<1>1. Turn(w, m) = all
  BY DEF Turn, With
<1>2. /\ Ready(u) /\ Session(u) /\ u.ums_init_done /\ (w.fault = "none" => u.fault = "none")
      /\ u.old_udd = w.old_udd /\ u.media = w.media
  BY UnplugReady
<1> HIDE DEF u
<1>3. ASSUME NEW x \in UsbSet
      PROVE  /\ Fail(x, "ERR") \in Same(x) /\ (Session(x) => Session(Fail(x, "ERR")))
             /\ Go(x) \in Same(x) /\ (Session(x) => Session(Go(x)))
             /\ Fail(x, "ERR").res # "OK"
  <2>1. Fail(x, "ERR") \in Same(x) /\ Go(x) \in Same(x)
    BY FailSame, GoSame DEF Codes
  <2> QED
    BY <2>1 DEF Session, Known, Agrees, OutAgrees, Fail, Go, UsbSet
<1>4. u \in UsbSet
  BY <1>2 DEF Ready
<1>5. CASE u.unplug_device
  <2>1. all = Fail(u, "ERR")
    BY <1>5
  <2> HIDE DEF all
  <2>2. all \in Same(u) /\ Session(all) /\ all.res # "OK"
    BY <1>2, <1>3, <1>4, <2>1
  <2>3. /\ all \in Drove(u) /\ all.media = w.media /\ all.ums_init_done
        /\ all.old_udd = w.old_udd /\ (w.fault = "none" => all.fault = "none")
    BY <1>2, <2>2 DEF Same, Drove, Carried
  <2>4. Ready(all) /\ Kind(w, m, all) /\ Told(w, m, all)
    BY <1>2, <2>2, <2>3, MovedReady DEF Kind, Told
  <2> QED
    BY <1>1, <2>2, <2>3, <2>4
<1>6. CASE ~u.unplug_device
  <2>1. /\ v \in Same(u) /\ v \in Drove(u) /\ Session(v) /\ Ready(v)
        /\ v.media = w.media /\ v.ums_init_done /\ v.old_udd = w.old_udd
        /\ w.fault = "none" => v.fault = "none"
    <3>1. v \in Same(u) /\ Session(v)
      BY <1>2, <1>3, <1>4
    <3> HIDE DEF v
    <3>2. v \in Drove(u) /\ v.media = u.media
      BY <3>1, SameDrove
    <3> QED
      BY <1>2, <3>1, <3>2, MovedReady DEF Drove, Carried
  <2>2. v \in UsbSet /\ v.handshake_mode = 0
    <3>1. u.handshake_mode = 0
      BY <1>2, <1>6 DEF Ready
    <3> QED
      BY <2>1, <3>1 DEF Drove, Carried
  <2> HIDE DEF v
  <2>3. /\ t \in Moved(v)
        /\ m.op \in {"read", "write"} /\ t.res = "OK" =>
             There(v, t) /\ (~t.refused /\ m.n < Wrap => Holding(v.port, m, t))
    BY <2>2, TransferHolds
  <2> HIDE DEF t
  <2>4. t \in UsbSet /\ t \in Drove(v) /\ Session(t)
    BY <2>1, <2>3 DEF Moved, Worked, Drove
  <2>5. ASSUME NEW d \in Device, t.media[d] # w.media[d]
        PROVE  Model[d] = w.old_udd
    <3>1. d = v.port /\ v.port # None /\ v.dev.enabled /\ v.usbfd.buffer
      BY <2>1, <2>3, <2>5 DEF Moved
    <3> QED
      BY <2>1, <3>1 DEF Session, Known
  <2>6. ASSUME m.op \in {"read", "write"}, t.res = "OK", ~t.refused, m.n < Wrap
        PROVE  \E d \in Device : Model[d] = w.old_udd /\ Holding(d, m, t)
    <3>1. There(v, t) /\ Holding(v.port, m, t)
      BY <2>3, <2>6
    <3>2. v.port \in Device /\ Model[v.port] = w.old_udd
      BY <2>1, <2>2, <3>1 DEF There, Session, Known, UsbSet
    <3> QED
      BY <3>1, <3>2
  <2>7. /\ all \in Drove(v) /\ Session(all) /\ all.media = t.media
        /\ all = t \/ all.res # "OK"
    <3>1. CASE t.unplug_device
      <4> DEFINE x == Fail(t, "ERR")
      <4>1. x \in Same(t) /\ Session(x) /\ x.res # "OK"
        BY <1>3, <2>4
      <4>2. all = x
        BY <1>6, <3>1
      <4> HIDE DEF x
      <4> QED
        BY <2>4, <4>1, <4>2, SameDrove, DroveTrans
    <3>2. CASE ~t.unplug_device
      BY <1>6, <2>4, <3>2
    <3> QED
      BY <3>1, <3>2
  <2> HIDE DEF all
  <2>8. /\ Ready(all) /\ all.ums_init_done /\ all.old_udd = w.old_udd
        /\ w.fault = "none" => all.fault = "none"
    BY <2>1, <2>7, MovedReady DEF Drove, Carried
  <2>9. Kind(w, m, all)
    BY <2>5, <2>7, <2>8 DEF Kind
  <2>10. Told(w, m, all)
    BY <2>6, <2>7 DEF Told
  <2> QED
    BY <1>1, <2>7, <2>8, <2>9, <2>10
<1> QED
  BY <1>5, <1>6

\* Many reads.
LEMMA StressReady ==
  ASSUME NEW w, Ready(w), Session(w), w.mounted, NEW m, MsgOK(m), m.op = "stress",
         NEW x, x = Stress(w, m.sector, m.n, Batches)
  PROVE  /\ Ready(x) /\ Session(x) /\ (w.fault = "none" => x.fault = "none")
         /\ Kind(w, m, x) /\ Told(w, m, x)
<1> DEFINE s == m.sector
           n == m.n
<1>1. s \in Nat /\ n \in Nat /\ s + Batches * n <= NSect /\ (n < Wrap => Cut(n) = n)
  BY CutBelow DEF MsgOK
<1>2. w \in UsbSet /\ w.handshake_mode = 0 /\ w.ums_init_done
  BY DEF Ready
<1>3. x = Stress(w, s, n, Batches)
  OBVIOUS
<1> HIDE DEF s, n
<1>4. x \in BatchUpTo(w, s, n, Batches)
  BY <1>1, <1>2, <1>3, StressReads
<1>5. /\ x \in Moved(w) /\ x.media = w.media
      /\ x.res = "OK" =>
           /\ There(w, x)
           /\ x.refused \/ x.data = Holds(w.media[w.port], s + (Batches - 1) * n, Cut(n))
  BY <1>4 DEF BatchUpTo, Batches
<1>6. x \in Drove(w) /\ Session(x)
  BY <1>5 DEF Moved, Worked
<1>7. Ready(x) /\ (w.fault = "none" => x.fault = "none") /\ Kind(w, m, x)
  BY <1>2, <1>5, <1>6, MovedReady DEF Drove, Carried, Kind
<1>8. ASSUME x.res = "OK", ~x.refused, n < Wrap
      PROVE  \E d \in Device : Model[d] = w.old_udd /\ Holding(d, m, x)
  <2>1. w.port \in Device /\ Model[w.port] = w.old_udd
    BY <1>2, <1>5, <1>8 DEF There, Session, Known, UsbSet
  <2>2. Holding(w.port, m, x)
    BY <1>1, <1>5, <1>8 DEF Holding, s, n
  <2> QED
    BY <2>1, <2>2
<1> QED
  BY <1>2, <1>6, <1>7, <1>8 DEF Told, n

\* The error of a transfer of the device itself means, with a mounted disk, that the
\* device is lost.
LEMMA UrbFails ==
  ASSUME NEW w \in UsbSet, w.res = "OK", w.handshake_mode = 0, NEW u, UrbOK(u), u.ep # "in",
         ehci_do_urb(w, w.id, u).res # "OK"
  PROVE  ehci_do_urb(w, w.id, u).unplug_device
<1> DEFINE x == Counted(w)
           p == Packets(x, u)
<1>1. x \in Same(w) /\ x \in UsbSet /\ x.res = "OK" /\ x.handshake_mode = 0
  <2>1. x \in Same(w) /\ x \in UsbSet
    BY CountedSame, SameTyped
  <2>2. x.res = w.res /\ x.handshake_mode = w.handshake_mode
    BY DEF Counted, Unplugged, UsbSet
  <2> QED
    BY <2>1, <2>2
<1>2. ehci_do_urb(w, w.id, u) = Exchange(x, w.id, u, Happens(w))
  BY DEF ehci_do_urb
<1> HIDE DEF x
<1>3. ASSUME NEW y \in UsbSet, y.handshake_mode = 0
      PROVE  Gone(y).unplug_device /\ Silent(y).unplug_device
  BY <1>3 DEF Silent, Gone, Fail, UsbSet
<1>4. CASE ~Seen(x) \/ ~x.dev.enabled \/ x.dev.addr # w.id \/ Happens(w) = "lost"
  BY <1>1, <1>2, <1>3, <1>4 DEF Exchange
<1>5. CASE ~(~Seen(x) \/ ~x.dev.enabled \/ x.dev.addr # w.id \/ Happens(w) = "lost")
  <2>1. p \in UsbSet /\ p.handshake_mode = 0
    BY <1>1, <1>5, PacketsTransferred DEF Transferred, Drove, Carried
  <2>2. p.res # "OK" => p.unplug_device
    <3>1. CASE u.ep = "control"
      <4>1. p = ControlStage(x, u)
        BY <3>1 DEF Packets
      <4>2. p.res = x.res
        BY <1>1, <4>1 DEF ControlStage, UsbSet
      <4> QED
        BY <1>1, <4>2
    <3>2. CASE u.ep = "out"
      <4>1. p = BulkOut(x, u)
        BY <3>2 DEF Packets
      <4>2. BulkOut(x, u) = Silent(x) \/ BulkOut(x, u).res = x.res
        BY <1>1 DEF BulkOut, Accept, Store, Refuse, UsbSet
      <4> QED
        BY <1>1, <1>3, <4>1, <4>2
    <3> QED
      BY <3>1, <3>2 DEF UrbOK
  <2>3. Go(p) \in UsbSet /\ Go(p).handshake_mode = 0
    BY <2>1, GoSame, SameTyped DEF Same, Drove, Kept, Carried
  <2>4. ehci_do_urb(w, w.id, u) = IF Happens(w) = "late" THEN Silent(Go(p)) ELSE p
    BY <1>2, <1>5 DEF Exchange, With
  <2> HIDE DEF p
  <2> QED
    BY <1>3, <2>2, <2>3, <2>4
<1> QED
  BY <1>4, <1>5

\* A transfer that succeeds has met a device at its port.
LEMMA UrbNeedsDevice ==
  ASSUME NEW w \in UsbSet, NEW u, ehci_do_urb(w, w.id, u).res = "OK"
  PROVE  w.dev.enabled
<1> DEFINE x == Counted(w)
<1>1. x \in UsbSet
  BY CountedSame, SameTyped
<1>2. x.dev.enabled => w.dev.enabled
  BY DEF Counted, Unplugged, UsbSet, Dark
<1>3. ehci_do_urb(w, w.id, u) = Exchange(x, w.id, u, Happens(w))
  BY DEF ehci_do_urb
<1>4. \A y \in UsbSet : Gone(y).res # "OK" /\ Silent(y).res # "OK"
  BY DEF Silent, Gone, Fail, UsbSet
<1> HIDE DEF x
<1> QED
  BY <1>1, <1>2, <1>3, <1>4 DEF Exchange

\* A packet that no command knows flips both toggles.
LEMMA RawBulkAgrees ==
  ASSUME NEW w \in UsbSet, Agrees(w), NEW u, u = Urb("out", "any", None, 1),
         ehci_do_urb(w, w.id, u).res = "OK"
  PROVE  Agrees(ehci_do_urb(w, w.id, u))
<1> DEFINE x == Counted(w)
           p == Packets(x, u)
<1>0. u.ep = "out" /\ u.req = "any" /\ u.n = 1 /\ UrbOK(u)
  BY DEF Urb, UrbOK
<1>1. x \in Same(w) /\ x \in UsbSet
  BY CountedSame, SameTyped
<1>2. x.port # None => x.dev = w.dev /\ x.tog = w.tog /\ x.id = w.id
  BY DEF Counted, Unplugged, UsbSet
<1>3. \A y \in UsbSet : Gone(y).res # "OK" /\ Silent(y).res # "OK"
  BY DEF Silent, Gone, Fail, UsbSet
<1>4. ehci_do_urb(w, w.id, u) = Exchange(x, w.id, u, Happens(w))
  BY DEF ehci_do_urb
<1> HIDE DEF x
<1>5. Seen(x) /\ x.port # None /\ x.dev.enabled /\ x.dev.addr = w.id
  BY <1>1, <1>3, <1>4 DEF Exchange, Seen
<1>6. p \in UsbSet
  BY <1>0, <1>1, <1>5, PacketsTransferred DEF Transferred, Drove
<1>7. ehci_do_urb(w, w.id, u) = p
  <2>1. Happens(w) # "lost"
    BY <1>1, <1>3, <1>4 DEF Exchange
  <2>2. Go(p) \in UsbSet
    BY <1>6, GoSame, SameTyped
  <2> HIDE DEF p
  <2>3. Exchange(x, w.id, u, Happens(w)) = IF Happens(w) = "late" THEN Silent(Go(p)) ELSE p
    BY <1>5, <2>1 DEF Exchange, With, p
  <2> QED
    BY <1>3, <1>4, <2>2, <2>3
<1>8. Agrees(x)
  BY <1>2, <1>5 DEF Agrees, OutAgrees
<1>9. OutAgrees(p)
  BY <1>0, <1>5, <1>7, UrbAgrees
<1>10. p.tog.in = x.tog.in /\ p.dev.tog.in = x.dev.tog.in
  <2>1. p = BulkOut(x, u)
    BY <1>0 DEF Packets
  <2>2. p.res = "OK"
    BY <1>7
  <2>3. ~(x.dev.ph \notin {"cbw", "write"} \/ ~x.dev.conf)
    BY <1>1, <1>3, <2>1, <2>2 DEF BulkOut
  <2>4. x.dev \in DevSet /\ x.tog \in Toggles /\ x.dev.tog \in Toggles
    BY <1>1 DEF UsbSet, DevSet
  <2> DEFINE t == [x.tog EXCEPT !.out = Flip(x.tog.out, u.n)]
             s == [x.dev.tog EXCEPT !.out = Flip(x.dev.tog.out, u.n)]
             d == [x.dev EXCEPT !.tog = s]
             e == [d EXCEPT !.ph = "stall"]
             y == [x EXCEPT !.tog = t, !.dev = d]
  <2>5. p = Accept(y, u)
    BY <1>8, <2>1, <2>3 DEF BulkOut, Agrees, OutAgrees
  <2>6. p = [y EXCEPT !.dev = [y.dev EXCEPT !.ph = "stall"]]
    BY <1>0, <2>5 DEF Accept
  <2>7. p.tog = t /\ p.dev = e
    BY <1>1, <2>6 DEF UsbSet
  <2>8. e.tog = s /\ t.in = x.tog.in /\ s.in = x.dev.tog.in
    BY <2>4 DEF DevSet, Toggles
  <2> HIDE DEF p, e, t, s
  <2> QED
    BY <2>7, <2>8
<1> QED
  BY <1>7, <1>8, <1>9, <1>10 DEF Agrees

\* A message for the device itself.
LEMMA DeviceMessageMoved ==
  ASSUME NEW w, Ready(w), Session(w), w.res = "OK",
         NEW x \in {GetDescriptor(w), ehci_bulk_message(w, "out", "any", None)}
  PROVE  x \in Same(w) /\ Session(x)
<1> DEFINE c == Urb("control", "descriptor", None, 1)
           b == Urb("out", "any", None, 1)
<1>0. /\ UrbOK(c) /\ UrbOK(b) /\ c.ep = "control" /\ b.ep = "out" /\ c.req = "descriptor"
      /\ ~Stores(c) /\ ~Stores(b)
  BY DEF UrbOK, Urb, Stores
<1>1. GetDescriptor(w) = ehci_do_urb(w, w.id, c)
  BY DEF GetDescriptor, ehci_control_message
<1>2. ehci_bulk_message(w, "out", "any", None) = ehci_do_urb(w, w.id, b)
  BY DEF ehci_bulk_message
<1>3. b = Urb("out", "any", None, 1)
  OBVIOUS
<1> HIDE DEF c, b
<1>4. w \in UsbSet
  BY DEF Ready
<1>5. x \in Same(w) /\ x \in Worked(w)
  BY <1>0, <1>1, <1>2, <1>4, UrbSame, UrbStaysDark, SameDrove DEF Worked
<1>6. w.handshake_mode = 0 /\ x.res # "OK" => x.unplug_device
  BY <1>0, <1>1, <1>2, <1>4, UrbFails
<1>7. x.res = "OK" /\ Agrees(w) => Agrees(x)
  BY <1>0, <1>1, <1>2, <1>3, <1>4, UrbAgrees, RawBulkAgrees
<1>8. x.res = "OK" => w.dev.enabled
  BY <1>0, <1>1, <1>2, <1>4, UrbNeedsDevice
<1>9. x.mounted = w.mounted /\ (w.unplug_device => x.unplug_device)
  BY <1>5 DEF Same, Drove, Kept, Carried
<1>10. Known(x)
  BY <1>5, WorkedKnown DEF Session
<1> QED
  BY <1>5, <1>6, <1>7, <1>8, <1>9, <1>10 DEF Session, Ready

\* What the driver makes of a message, with what the loop relies on afterwards: a turn
\* that is not the first has a driver that is initialised.
LEMMA PerformReady ==
  ASSUME NEW w, Ready(w), Session(w), w.res = "OK", w.mounted = usb.mounted,
         turn # 0 => w.ums_init_done, ~discovered => ~w.mounted /\ ~w.ums_init_done,
         NEW m, MsgOK(m), m.op \in DriverOp, m.op = Cur.op
  PROVE  /\ Ready(Perform(w, m)) /\ Session(Perform(w, m))
         /\ w.fault = "none" => Perform(w, m).fault = "none"
         /\ m.op \in LoopOp /\ ~Unmounted => Perform(w, m).ums_init_done
         /\ m.op = "wbfs_open" /\ Perform(w, m).res = "OK" => Perform(w, m).ums_init_done
         /\ Unmounted => Perform(w, m).data = w.data
         /\ Kind(w, m, Perform(w, m)) /\ Told(w, m, Perform(w, m))
<1> DEFINE Good(x) == /\ Ready(x) /\ Session(x)
                      /\ w.fault = "none" => x.fault = "none"
                      /\ Kind(w, m, x) /\ Told(w, m, x)
<1>0. w \in UsbSet /\ (Unmounted => m.op \in LoopOp)
  BY DEF Ready, Unmounted
<1>1. ASSUME NEW x \in Same(w), Session(x), m.op # "umount",
             m.op \in {"read", "stress", "write"} => x.res # "OK"
      PROVE  Good(x)
  <2>1. Kind(w, m, x) /\ Told(w, m, x)
    BY <1>1, SameKind DEF Told
  <2> QED
    BY <1>1, <2>1, MovedReady DEF Same, Drove, Carried
<1>2. m.op # "umount" => Good(Fail(w, "ERR"))
  <2> DEFINE x == Fail(w, "ERR")
  <2>1. x \in Same(w)
    BY <1>0, FailSame DEF Codes
  <2>2. Session(x) /\ x.res # "OK"
    BY <1>0 DEF Fail, Session, Known, Agrees, OutAgrees, UsbSet
  <2> HIDE DEF x, Good
  <2> QED
    BY <1>1, <2>1, <2>2 DEF x
<1>3. CASE m.op = "open"
  <2> DEFINE r == ehci_reset_port(w)
  <2>1. Perform(w, m) = IF discovered THEN w ELSE Go(r)
    BY <1>3 DEF Perform, Discover
  <2>2. r \in Same(w) /\ r \in UsbSet
    BY <1>0, ResetPortSame, SameTyped
  <2> HIDE DEF r
  <2>3. Go(r) \in Same(w)
    BY <2>2, GoSame, SameTrans
  <2>4. ~discovered => Session(Go(r))
    BY <2>3 DEF Same, Drove, Kept, Carried, Session, Known
  <2> DEFINE x == IF discovered THEN w ELSE Go(r)
  <2>5. x \in Same(w) /\ Session(x)
    BY <1>0, <2>3, <2>4, SameRefl
  <2> HIDE DEF x, Good
  <2>6. Good(x)
    BY <1>1, <1>3, <2>5
  <2> QED
    BY <1>0, <1>3, <2>1, <2>6 DEF LoopOp, x, Good
<1>4. CASE m.op \in {"control", "bulk"}
  <2> DEFINE g == GetDescriptor(w)
             b == ehci_bulk_message(w, "out", "any", None)
  <2>1. Perform(w, m) \in {Fail(w, "ERR"), g, b}
    BY <1>4 DEF Perform
  <2>2. \A x \in {g, b} : x \in Same(w) /\ Session(x)
    BY DeviceMessageMoved
  <2> HIDE DEF g, b, Good
  <2>3. Good(g) /\ Good(b)
    BY <1>1, <1>4, <2>2
  <2>4. Good(Perform(w, m))
    BY <1>2, <1>4, <2>1, <2>3
  <2> QED
    BY <1>0, <1>4, <2>4 DEF LoopOp, Good
<1>5. CASE m.op \in {"init", "wbfs_open"}
  <2> DEFINE i == USBStorage_Init(w)
  <2>1. Perform(w, m) = i
    BY <1>5 DEF Perform
  <2>2. Good(i) /\ (i.res = "OK" => i.ums_init_done)
    <3>1. CASE w.ums_init_done
      <4>1. i = w
        BY <3>1 DEF USBStorage_Init
      <4>2. w \in Same(w)
        BY <1>0, SameRefl
      <4> HIDE DEF i, Good
      <4> QED
        BY <1>1, <1>5, <3>1, <4>1, <4>2
    <3>2. CASE ~w.ums_init_done
      <4>1. /\ Ready(i) /\ Session(i) /\ i.port \in {w.port, None} /\ i.media = w.media
            /\ w.fault = "none" => i.fault = "none"
            /\ i.res = "OK" => i.port # None /\ i.ums_init_done /\ i.old_udd = Model[i.port]
            /\ i.res # "OK" => ~i.ums_init_done
        BY <3>2, InitReady
      <4> HIDE DEF i
      <4>2. i.res = "OK" => i.port \in Device
        BY <4>1 DEF Ready, UsbSet
      <4>3. Kind(w, m, i) /\ Told(w, m, i)
        BY <1>5, <3>2, <4>1, <4>2 DEF Kind, Told
      <4> QED
        BY <4>1, <4>3
    <3> QED
      BY <3>1, <3>2
  <2> HIDE DEF i
  <2> QED
    BY <1>0, <1>5, <2>1, <2>2 DEF LoopOp
<1>6. CASE m.op = "umount"
  <2> DEFINE i == USBStorage_Umount(w)
  <2>1. Perform(w, m) = i
    BY <1>6 DEF Perform
  <2>2. /\ Ready(i) /\ Session(i) /\ i.fault = w.fault /\ ~i.ums_init_done
        /\ i.media = w.media
    BY UmountReady
  <2> HIDE DEF i
  <2>3. Kind(w, m, i) /\ Told(w, m, i)
    BY <1>6, <2>2 DEF Kind, Told
  <2> QED
    BY <1>0, <1>6, <2>1, <2>2, <2>3 DEF LoopOp
<1>7. CASE m.op = "stress"
  <2> DEFINE s == Stress(w, m.sector, m.n, Batches)
  <2>1. Perform(w, m) = IF w.mounted THEN s ELSE Fail(w, "ERR")
    BY <1>7 DEF Perform
  <2>2. w.mounted => Good(s)
    BY <1>7, StressReady
  <2> HIDE DEF s, Good
  <2>3. Good(Perform(w, m))
    BY <1>2, <1>7, <2>1, <2>2
  <2> QED
    BY <1>0, <1>7, <2>3 DEF LoopOp, Good
<1>8. CASE m.op \in LoopOp
  <2> DEFINE t == Turn(w, m)
  <2>0. m.op # "umount" /\ m.op # "stress"
    BY <1>8 DEF LoopOp
  <2>1. Perform(w, m) = IF Unmounted THEN Fail(w, "ERR") ELSE t
    BY <1>8 DEF Perform, LoopOp
  <2>2. ~Unmounted => w.ums_init_done
    BY <1>8 DEF Unmounted, Ready
  <2>3. ~Unmounted => Good(t) /\ t.ums_init_done
    BY <2>0, <2>2, TurnReady
  <2>4. Fail(w, "ERR").data = w.data
    BY <1>0 DEF Fail, UsbSet
  <2> HIDE DEF t, Good
  <2>5. /\ Good(Perform(w, m)) /\ (~Unmounted => Perform(w, m).ums_init_done)
        /\ Unmounted => Perform(w, m).data = w.data
    BY <1>2, <2>0, <2>1, <2>3, <2>4
  <2> QED
    BY <1>8, <2>5 DEF LoopOp, Good
<1> QED
  BY <1>3, <1>4, <1>5, <1>6, <1>7, <1>8 DEF DriverOp

-----------------------------------------------------------------------------
(* The loop of the module *)

Ops == DriverOp \cup {"open_device", "close", "hook", "plain"}
MsgSet == [c : Client \cup {None}, op : Ops, sector : Nat, n : Nat, val : Value \cup {None}]

\* The driver between two messages or two turns.
DriverInv ==
  Ready(usb) /\ Session(usb) /\ usb.res = "OK" /\ usb.fault = "none" /\ usb.data = <<>>

\* A client is in the queue at most once and waits while it is, and so is the timer.
QueueOK(q, waits) ==
  /\ q \in Seq(MsgSet) /\ waits \subseteq Client
  /\ \A i \in 1 .. Len(q) :
       MsgOK(q[i]) /\ (IF q[i].c = None THEN q[i] = Tick ELSE q[i].c \in waits)
  /\ \A i, j \in 1 .. Len(q) : q[i].c = q[j].c => i = j
QueueInv == QueueOK(queue, waiting)

\* What can be asked for before the device was looked for.
Early(q) == \A i \in 1 .. Len(q) : q[i].op \in {"open", "open_device", "tick"}

\* A loop over the disk was begun with a driver that is initialised.
TurnInv ==
  /\ turn \in 0 .. 2
  /\ turn # 0 /\ ~usb.hung => queue # <<>> /\ Cur.op \in LoopOp /\ usb.ums_init_done

\* Before the device was looked for nothing but the opening of the module can have
\* been asked for.
NewInv ==
  ~discovered =>
    /\ ~usb.known /\ ~usb.mounted /\ ~usb.ums_init_done /\ turn = 0 /\ ums_mode = None
    /\ \A c \in Client : fd[c] = "none"
    /\ Early(queue)

ServiceInv ==
  /\ armed \in BOOLEAN /\ discovered \in BOOLEAN
  /\ ums_mode \in Client \cup {None} /\ owner \in Client \cup {None}
  /\ fd \in [Client -> {"none", "module", "device"}]
  /\ home \in Device \cup {None}
  /\ disc \in [open : BOOLEAN, live : BOOLEAN, of : Device \cup {None}]

\* The model that was mounted is the one of the device that was mounted.
HomeInv == usb.ums_init_done => home \in Device /\ usb.old_udd = Model[home]

EhciInv ==
  DriverInv /\ QueueInv /\ TurnInv /\ NewInv /\ ServiceInv /\ WatchdogArmed /\ HomeInv

\* A message at the end of the queue.
LEMMA AppendOK ==
  ASSUME NEW q, NEW a, QueueOK(q, a), NEW b \in SUBSET Client, a \subseteq b,
         NEW m \in MsgSet, MsgOK(m), IF m.c = None THEN m = Tick ELSE m.c \in b,
         \A i \in 1 .. Len(q) : q[i].c # m.c
  PROVE  /\ QueueOK(Append(q, m), b) /\ Append(q, m) # <<>>
         /\ Early(q) /\ m.op \in {"open", "open_device", "tick"} => Early(Append(q, m))
<1> DEFINE p == Append(q, m)
<1>1. q \in Seq(MsgSet) /\ Len(q) \in Nat
  BY DEF QueueOK
<1>2. p \in Seq(MsgSet) /\ Len(p) = Len(q) + 1 /\ p[Len(q) + 1] = m
  BY <1>1
<1>3. \A i \in 1 .. Len(q) : p[i] = q[i]
  BY <1>1
<1>4. \A i \in 1 .. Len(p) : i \in 1 .. Len(q) \/ (i = Len(q) + 1 /\ p[i] = m)
  BY <1>1, <1>2
<1> HIDE DEF p
<1>5. p # <<>>
  BY <1>1, <1>2
<1>6. ASSUME NEW i \in 1 .. Len(p)
      PROVE  MsgOK(p[i]) /\ (IF p[i].c = None THEN p[i] = Tick ELSE p[i].c \in b)
  <2>1. CASE i \in 1 .. Len(q)
    BY <1>3, <2>1 DEF QueueOK
  <2>2. CASE p[i] = m
    BY <2>2
  <2> QED
    BY <1>4, <2>1, <2>2
<1>7. ASSUME NEW i \in 1 .. Len(p), NEW j \in 1 .. Len(p), p[i].c = p[j].c
      PROVE  i = j
  <2>1. CASE i \in 1 .. Len(q) /\ j \in 1 .. Len(q)
    BY <1>3, <1>7, <2>1 DEF QueueOK
  <2>2. CASE i \in 1 .. Len(q) /\ j = Len(q) + 1 /\ p[j] = m
    BY <1>3, <1>7, <2>2
  <2>3. CASE j \in 1 .. Len(q) /\ i = Len(q) + 1 /\ p[i] = m
    BY <1>3, <1>7, <2>3
  <2> QED
    BY <1>4, <2>1, <2>2, <2>3
<1>8. Early(q) /\ m.op \in {"open", "open_device", "tick"} => Early(p)
  BY <1>3, <1>4 DEF Early
<1> QED
  BY <1>2, <1>5, <1>6, <1>7, <1>8 DEF QueueOK, p

\* The first message is done; its sender may go on.
LEMMA TailOK ==
  ASSUME NEW q, NEW a, QueueOK(q, a), q # <<>>, NEW b \in {a, a \ {Head(q).c}}
  PROVE  QueueOK(Tail(q), b) /\ (Early(q) => Early(Tail(q)))
<1> DEFINE p == Tail(q)
<1>1. q \in Seq(MsgSet) /\ Len(q) \in Nat /\ Len(q) >= 1
  BY DEF QueueOK
<1>2. p \in Seq(MsgSet) /\ Len(p) = Len(q) - 1
  BY <1>1
<1>3. \A i \in 1 .. Len(p) : p[i] = q[i + 1] /\ i + 1 \in 1 .. Len(q) /\ i + 1 # 1
  BY <1>1
<1>4. Head(q) = q[1] /\ 1 \in 1 .. Len(q)
  BY <1>1
<1> HIDE DEF p
<1>5. ASSUME NEW i \in 1 .. Len(p)
      PROVE  MsgOK(p[i]) /\ (IF p[i].c = None THEN p[i] = Tick ELSE p[i].c \in b)
  <2> DEFINE k == i + 1
  <2>1. p[i] = q[k] /\ k \in 1 .. Len(q) /\ k # 1
    BY <1>3
  <2> HIDE DEF k
  <2>2. MsgOK(q[k]) /\ (IF q[k].c = None THEN q[k] = Tick ELSE q[k].c \in a)
    BY <2>1 DEF QueueOK
  <2>3. q[k].c # q[1].c
    BY <1>4, <2>1 DEF QueueOK
  <2> QED
    BY <1>4, <2>1, <2>2, <2>3
<1>6. ASSUME NEW i \in 1 .. Len(p), NEW j \in 1 .. Len(p), p[i].c = p[j].c
      PROVE  i = j
  <2>1. i + 1 = j + 1
    BY <1>3, <1>6 DEF QueueOK
  <2> QED
    BY <2>1
<1>7. Early(q) => Early(p)
  BY <1>3 DEF Early
<1> QED
  BY <1>2, <1>5, <1>6, <1>7 DEF QueueOK, p

\* The first message goes on with another operation on the disk.
LEMMA GotoOK ==
  ASSUME NEW q, NEW a, QueueOK(q, a), q # <<>>, NEW op \in {"wbfs_hd", "wbfs_disc"},
         Head(q).op # "tick"
  PROVE  /\ QueueOK(<<[Head(q) EXCEPT !.op = op]>> \o Tail(q), a)
         /\ <<[Head(q) EXCEPT !.op = op]>> \o Tail(q) # <<>>
         /\ Head(<<[Head(q) EXCEPT !.op = op]>> \o Tail(q)).op = op
<1> DEFINE m == [Head(q) EXCEPT !.op = op]
           p == <<m>> \o Tail(q)
<1>1. q \in Seq(MsgSet) /\ Len(q) \in Nat /\ Len(q) >= 1
  BY DEF QueueOK
<1>2. Head(q) = q[1] /\ 1 \in 1 .. Len(q) /\ q[1] \in MsgSet
  BY <1>1
<1>3. q[1].c # None
  BY <1>2 DEF QueueOK, Tick, Message
<1>4. MsgOK(q[1]) /\ q[1].c \in a
  BY <1>2, <1>3 DEF QueueOK
<1>5. /\ m \in MsgSet /\ m.c = q[1].c /\ m.op = op /\ m.sector = q[1].sector /\ m.n = q[1].n
      /\ m.val = q[1].val
  BY <1>2 DEF MsgSet, Ops, DriverOp, LoopOp
<1>6. MsgOK(m)
  <2> HIDE DEF m
  <2> QED
    BY <1>4, <1>5 DEF MsgOK
<1> HIDE DEF m
<1>7. p \in Seq(MsgSet) /\ Len(p) = Len(q) /\ p[1] = m
  BY <1>1, <1>5
<1>8. \A i \in 1 .. Len(p) : i = 1 \/ p[i] = q[i]
  BY <1>1, <1>5
<1>9. p # <<>> /\ Head(p) = m
  BY <1>1, <1>7
<1> HIDE DEF p
<1>10. ASSUME NEW i \in 1 .. Len(p)
       PROVE  MsgOK(p[i]) /\ p[i].c = q[i].c
              /\ (IF p[i].c = None THEN p[i] = Tick ELSE p[i].c \in a)
  <2>1. CASE i = 1
    BY <1>3, <1>4, <1>5, <1>6, <1>7, <2>1
  <2>2. CASE i # 1
    BY <1>7, <1>8, <2>2 DEF QueueOK
  <2> QED
    BY <2>1, <2>2
<1>11. ASSUME NEW i \in 1 .. Len(p), NEW j \in 1 .. Len(p), p[i].c = p[j].c
       PROVE  i = j
  BY <1>7, <1>10, <1>11 DEF QueueOK
<1>12. QueueOK(p, a)
  BY <1>7, <1>10, <1>11 DEF QueueOK
<1> QED
  BY <1>5, <1>9, <1>12 DEF p, m

\* The message under work.
LEMMA HeadOK ==
  ASSUME QueueInv, queue # <<>>
  PROVE  /\ Cur \in MsgSet /\ MsgOK(Cur)
         /\ IF Cur.c = None THEN Cur = Tick ELSE Cur.c \in waiting
         /\ Early(queue) => Cur.op \in {"open", "open_device", "tick"}
<1>1. queue \in Seq(MsgSet) /\ Len(queue) >= 1
  BY DEF QueueInv, QueueOK
<1>2. Cur = queue[1] /\ 1 \in 1 .. Len(queue)
  BY <1>1 DEF Cur
<1> QED
  BY <1>1, <1>2 DEF QueueInv, QueueOK, Early

\* The device before a port reset.
LEMMA DarkTyped ==
  Dark \in DevSet /\ ~Dark.enabled
<1> DEFINE t == [in |-> 0, out |-> 0]
<1>1. t \in Toggles
  BY DEF Toggles
<1>2. Dark = [enabled |-> FALSE, addr |-> 0, conf |-> FALSE, tog |-> t, ph |-> "cbw", ua |-> TRUE]
  BY DEF Dark
<1> HIDE DEF t
<1> QED
  BY <1>1, <1>2 DEF DevSet, Phases

\* A driver that was just started.
LEMMA StartReady ==
  ASSUME NEW port \in Device \cup {None}, NEW x, x = Start(port)
  PROVE  /\ Ready(x) /\ Session(x) /\ x.res = "OK" /\ x.fault = "none"
         /\ ~x.known /\ ~x.mounted /\ ~x.ums_init_done /\ x.data = <<>>
<1> DEFINE t == [in |-> 0, out |-> 0]
           m == [d \in Device |-> [s \in 0 .. NSect - 1 |-> <<d, s>>]]
<1>1. t \in Toggles
  BY DEF Toggles
<1>2. Dark \in DevSet /\ ~Dark.enabled
  BY DarkTyped
<1>3. NoHandle \in Handles /\ ~NoHandle.buffer
  BY DEF NoHandle, Handles
<1>4. <<>> \in Seq(Datum)
  OBVIOUS
<1>5. m \in Media
  BY DEF Media, Cell
<1>6. x = [id |-> 0, known |-> FALSE, tog |-> t, handshake_mode |-> 0, unplug_device |-> FALSE,
           usbfd |-> NoHandle, mounted |-> FALSE, ums_init_done |-> FALSE, old_udd |-> None,
           allocs |-> 0, hung |-> FALSE, udd |-> FALSE, refreed |-> FALSE,
           port |-> port, port_owner |-> port = None, dev |-> Dark, media |-> m,
           fault |-> "none", left |-> 0, res |-> "OK", status |-> 0, data |-> <<>>,
           refused |-> FALSE]
  BY DEF Start
<1> HIDE DEF Dark, NoHandle, t, m
<1>7. x \in UsbSet
  BY <1>1, <1>2, <1>3, <1>4, <1>5, <1>6 DEF UsbSet, Codes
<1>8. Ready(x) /\ Session(x)
  BY <1>2, <1>3, <1>6, <1>7 DEF Ready, Session, Known, Out, Balanced
<1> QED
  BY <1>6, <1>8

\* A driver that hangs: no disk, and nothing reported.
HungDriver(x) ==
  /\ Ready(x) /\ Session(x) /\ x.res = "OK" /\ x.fault = "none" /\ x.hung
  /\ ~x.known /\ ~x.mounted /\ ~x.ums_init_done /\ x.data = <<>>

\* The same when the driver hangs.
LEMMA HungReady ==
  ASSUME NEW m \in Media, NEW x, x = [Start(None) EXCEPT !.hung = TRUE, !.media = m]
  PROVE  HungDriver(x)
<1> DEFINE y == Start(None)
<1>1. /\ Ready(y) /\ Session(y) /\ y.res = "OK" /\ y.fault = "none"
      /\ ~y.known /\ ~y.mounted /\ ~y.ums_init_done /\ y.data = <<>>
  BY StartReady
<1>2. x = [y EXCEPT !.hung = TRUE, !.media = m]
  OBVIOUS
<1> HIDE DEF y
<1>3. /\ x \in UsbSet /\ Out(x) /\ Balanced(x) /\ x.res = "OK" /\ x.fault = "none" /\ x.hung
      /\ ~x.known /\ ~x.mounted /\ ~x.ums_init_done /\ x.usbfd = y.usbfd /\ x.data = <<>>
      /\ x.media = m
  BY ZenonT(40), <1>1, <1>2 DEF Ready, UsbSet, Out, Balanced
<1> QED
  BY <1>1, <1>3 DEF HungDriver, Ready, Session, Known

\* The module when it starts.
LEMMA InitInv ==
  ASSUME EhciInit
  PROVE  EhciInv
<1>1. PICK port \in Device \cup {None} : usb = Start(port)
  BY DEF EhciInit
<1>2. DriverInv /\ ~usb.known /\ ~usb.mounted /\ ~usb.ums_init_done
  BY <1>1, StartReady DEF DriverInv
<1>3. QueueInv /\ Early(queue)
  <2>1. queue = <<>> /\ waiting = {} /\ Len(<<>>) = 0
    BY DEF EhciInit
  <2> QED
    BY <2>1 DEF QueueInv, QueueOK, Early
<1>4. TurnInv
  BY DEF EhciInit, TurnInv
<1>5. NewInv
  BY <1>2, <1>3 DEF EhciInit, NewInv
<1>6. ServiceInv /\ WatchdogArmed
  BY DEF EhciInit, ServiceInv, NoDisc, WatchdogArmed
<1> QED
  BY <1>2, <1>3, <1>4, <1>5, <1>6 DEF EhciInv, HomeInv

\* A client that sends a message.
LEMMA SendInv ==
  ASSUME EhciInv, NEW c \in Client, NEW m \in MsgSet, Send(c, m), MsgOK(m), m.c = c,
         fd[c] = "none" => m.op \in {"open", "open_device"}
  PROVE  EhciInv'
<1>1. /\ queue' = Append(queue, m) /\ waiting' = waiting \cup {c} /\ c \notin waiting
      /\ UNCHANGED <<usb, turn, armed, discovered, ums_mode, fd, owner, disc, home>>
  BY DEF Send, service
<1>2. c # None
  BY EhciAssumption
<1>3. \A i \in 1 .. Len(queue) : queue[i].c # m.c
  BY <1>1, <1>2 DEF EhciInv, QueueInv, QueueOK
<1>4. /\ QueueOK(queue', waiting') /\ queue' # <<>>
      /\ Early(queue) /\ m.op \in {"open", "open_device", "tick"} => Early(queue')
  <2>1. waiting' \in SUBSET Client /\ waiting \subseteq waiting'
    BY <1>1 DEF EhciInv, QueueInv, QueueOK
  <2>2. QueueOK(queue, waiting)
    BY DEF EhciInv, QueueInv
  <2> QED
    BY <1>1, <1>2, <1>3, <2>1, <2>2, AppendOK
<1>5. DriverInv' /\ HomeInv'
  BY <1>1 DEF EhciInv, DriverInv, HomeInv
<1>6. QueueInv'
  BY <1>4 DEF QueueInv
<1>7. TurnInv'
  <2>1. queue # <<>> => Head(queue') = Head(queue)
    BY <1>1 DEF EhciInv, QueueInv, QueueOK
  <2> QED
    BY <1>1, <1>4, <2>1 DEF EhciInv, TurnInv, Cur
<1>8. NewInv'
  BY <1>1, <1>4 DEF EhciInv, NewInv
<1>9. ServiceInv' /\ WatchdogArmed'
  BY <1>1, <1>4 DEF EhciInv, ServiceInv, WatchdogArmed
<1> QED
  BY <1>5, <1>6, <1>7, <1>8, <1>9 DEF EhciInv

\* A message is one that the loop can work on if what is moved of its span lies on the
\* device.
LEMMA MessageIs ==
  ASSUME NEW c \in Client, NEW op \in Ops, NEW s \in Nat, NEW n \in Nat,
         NEW v \in Value \cup {None},
         s + Cut(n) <= NSect, op = "write" => v \in Value,
         op = "stress" => s + Batches * n <= NSect,
         op \in {"tick", "wbfs_read"} => n = 1 /\ s < NSect
  PROVE  LET m == Message(c, op, s, n, v)
         IN  m \in MsgSet /\ m.c = c /\ m.op = op /\ MsgOK(m)
<1> DEFINE m == Message(c, op, s, n, v)
<1>1. m = [c |-> c, op |-> op, sector |-> s, n |-> n, val |-> v]
  BY DEF Message
<1> HIDE DEF m
<1>2. m.c = c /\ m.op = op /\ m.sector = s /\ m.n = n /\ m.val = v
  BY <1>1
<1>3. m \in MsgSet
  BY <1>1 DEF MsgSet
<1>4. MsgOK(m)
  BY <1>2 DEF MsgOK
<1> QED
  BY <1>2, <1>3, <1>4 DEF m

\* Every message of a client is one that the loop can work on.
LEMMA ClientInv ==
  ASSUME EhciInv, NEW c \in Client, SendOpen(c) \/ SendPlain(c) \/ SendSectors(c)
  PROVE  EhciInv'
<1>0. NSect \in Nat /\ NSect > 1 /\ c \in Client \cup {None} /\ None \in Value \cup {None}
  BY UsbStorageAssumption, EhciAssumption
<1>2. CASE SendOpen(c)
  <2>1. PICK op \in {"open", "open_device"} : Send(c, Message(c, op, 0, 0, None))
    BY <1>2 DEF SendOpen
  <2>2. /\ op \in Ops
        /\ op # "read" /\ op # "write" /\ op # "stress" /\ op # "tick" /\ op # "wbfs_read"
    BY DEF Ops, DriverOp
  <2> DEFINE m == Message(c, op, 0, 0, None)
  <2>3. m \in MsgSet /\ m.c = c /\ m.op = op /\ MsgOK(m)
    <3>1. 0 \in Nat /\ 0 + Cut(0) <= NSect /\ None \in Value \cup {None}
      BY <1>0, CutBelow
    <3> QED
      BY <2>2, <3>1, MessageIs
  <2> HIDE DEF m
  <2> QED
    BY <2>1, <2>3, SendInv DEF m
<1>3. CASE SendPlain(c)
  <2>1. PICK op \in {"close", "init", "umount", "control", "bulk", "hook", "plain",
                     "wbfs_open", "wbfs_read"} : Send(c, Message(c, op, 0, 1, None))
    BY <1>3 DEF SendPlain
  <2>2. op \in Ops /\ op # "read" /\ op # "write" /\ op # "stress" /\ fd[c] # "none"
    BY <1>3 DEF Ops, DriverOp, LoopOp, SendPlain
  <2> DEFINE m == Message(c, op, 0, 1, None)
  <2>3. m \in MsgSet /\ m.c = c /\ MsgOK(m)
    <3>1. 0 \in Nat /\ 1 \in Nat /\ 0 + Cut(1) <= NSect /\ 0 < NSect /\ None \in Value \cup {None}
      BY <1>0, CutBelow
    <3> QED
      BY <2>2, <3>1, MessageIs
  <2> HIDE DEF m
  <2> QED
    BY <2>1, <2>2, <2>3, SendInv DEF m
<1>4. CASE SendSectors(c)
  <2>1. PICK s \in Span, op \in {"read", "stress", "write"} :
          \E x \in IF op = "write" THEN Value ELSE {None} :
            /\ op = "stress" => s[1] + Batches * s[2] <= NSect
            /\ Send(c, Message(c, op, s[1], s[2], x))
    BY <1>4 DEF SendSectors
  <2>2. PICK x \in IF op = "write" THEN Value ELSE {None} :
          /\ op = "stress" => s[1] + Batches * s[2] <= NSect
          /\ Send(c, Message(c, op, s[1], s[2], x))
    BY <2>1
  <2>3. op \in Ops /\ op # "tick" /\ op # "wbfs_read" /\ fd[c] # "none"
    BY <1>4 DEF Ops, DriverOp, LoopOp, SendSectors
  <2>4. s[1] \in Nat /\ s[2] \in Nat /\ s[1] + Cut(s[2]) <= NSect
    BY <1>0, EhciAssumption
  <2>5. x \in Value \cup {None} /\ (op = "write" => x \in Value)
    BY <2>2
  <2> DEFINE a == s[1]
             b == s[2]
             m == Message(c, op, a, b, x)
  <2> HIDE DEF a, b
  <2>6. m \in MsgSet /\ m.c = c /\ MsgOK(m)
    <3>1. op = "stress" => a + Batches * b <= NSect
      BY <2>2 DEF a, b
    <3>2. a \in Nat /\ b \in Nat /\ a + Cut(b) <= NSect
      BY <2>4 DEF a, b
    <3> QED
      BY <2>3, <2>5, <3>1, <3>2, MessageIs
  <2> HIDE DEF m
  <2> QED
    BY <2>2, <2>3, <2>6, SendInv DEF m, a, b
<1> QED
  BY <1>2, <1>3, <1>4

\* The timer, and the device that comes and goes.
LEMMA AroundInv ==
  ASSUME EhciInv, Fire \/ Pull \/ (\E d \in Device : Plug(d))
  PROVE  EhciInv'
<1>1. CASE Fire
  <2>1. /\ queue' = Append(queue, Tick) /\ armed' = FALSE /\ turn = 0
        /\ Tick \notin {queue[i] : i \in DOMAIN queue}
        /\ UNCHANGED <<usb, turn, discovered, ums_mode, fd, owner, disc, waiting, home>>
    BY <1>1 DEF Fire, service
  <2>2. Tick \in MsgSet /\ MsgOK(Tick) /\ Tick.c = None /\ Tick.op = "tick"
    <3>1. 0 + Cut(1) <= NSect /\ 0 < NSect
      BY UsbStorageAssumption, CutBelow
    <3> QED
      BY <3>1 DEF Tick, Message, MsgSet, MsgOK, Ops, DriverOp, LoopOp
  <2>3. \A i \in 1 .. Len(queue) : queue[i].c # Tick.c
    <3>1. DOMAIN queue = 1 .. Len(queue)
      BY DEF EhciInv, QueueInv, QueueOK
    <3> QED
      BY <2>1, <2>2, <3>1 DEF EhciInv, QueueInv, QueueOK
  <2>4. /\ QueueOK(queue', waiting') /\ queue' # <<>>
        /\ Early(queue) => Early(queue')
    <3>1. QueueOK(queue, waiting) /\ waiting \in SUBSET Client
      BY DEF EhciInv, QueueInv, QueueOK
    <3> HIDE DEF Tick
    <3> QED
      BY <2>1, <2>2, <2>3, <3>1, AppendOK
  <2>5. DriverInv' /\ TurnInv' /\ HomeInv'
    BY <2>1 DEF EhciInv, DriverInv, TurnInv, HomeInv
  <2>6. QueueInv' /\ NewInv' /\ ServiceInv' /\ WatchdogArmed'
    BY <2>1, <2>4 DEF EhciInv, QueueInv, NewInv, ServiceInv, WatchdogArmed
  <2> QED
    BY <2>5, <2>6 DEF EhciInv
<1>2. ASSUME UNCHANGED <<queue, turn, armed, discovered, ums_mode, fd, owner, disc, waiting, home>>,
             usb'.mounted = usb.mounted, usb'.known = usb.known, usb'.usbfd = usb.usbfd,
             usb'.hung = usb.hung, usb'.ums_init_done = usb.ums_init_done,
             usb'.old_udd = usb.old_udd, DriverInv'
      PROVE  EhciInv'
  <2>1. QueueInv' /\ TurnInv' /\ NewInv' /\ ServiceInv' /\ HomeInv'
    BY <1>2 DEF EhciInv, QueueInv, TurnInv, NewInv, ServiceInv, HomeInv, Cur
  <2>2. WatchdogArmed'
    BY <1>2 DEF EhciInv, WatchdogArmed, USBStorage_Get_Capacity
  <2> QED
    BY <1>2, <2>1, <2>2 DEF EhciInv
<1>3. CASE Pull
  <2> DEFINE x == [usb EXCEPT !.port = None, !.dev = Dark]
  <2>1. /\ usb' = x
        /\ UNCHANGED <<queue, turn, armed, discovered, ums_mode, fd, owner, disc, waiting, home>>
    BY <1>3 DEF Pull, Unplugged, service
  <2>2. Dark \in DevSet /\ ~Dark.enabled
    BY DarkTyped
  <2>3. Ready(usb) /\ usb.res = "OK" /\ usb.fault = "none" /\ usb.data = <<>>
    BY DEF EhciInv, DriverInv
  <2> HIDE DEF Dark
  <2>4. /\ x \in UsbSet /\ x.mounted = usb.mounted /\ x.known = usb.known /\ x.usbfd = usb.usbfd
        /\ x.hung = usb.hung /\ x.ums_init_done = usb.ums_init_done /\ ~x.dev.enabled
        /\ x.res = "OK" /\ x.fault = "none" /\ x.handshake_mode = usb.handshake_mode
        /\ x.allocs = usb.allocs /\ x.data = <<>> /\ x.unplug_device = usb.unplug_device
        /\ x.old_udd = usb.old_udd
    BY <2>2, <2>3 DEF Ready, UsbSet
  <2> HIDE DEF x
  <2>5. Ready(x) /\ Session(x)
    <3>1. Ready(x)
      BY <2>3, <2>4 DEF Ready, Out, Balanced
    <3>2. Session(x)
      BY <2>4 DEF Session, Known
    <3> QED
      BY <3>1, <3>2
  <2> QED
    BY <1>2, <2>1, <2>4, <2>5 DEF DriverInv
<1>4. ASSUME NEW d \in Device, Plug(d)
      PROVE  EhciInv'
  <2>1. PICK kept \in BOOLEAN :
          /\ usb' = [usb EXCEPT !.port = d, !.port_owner = @ /\ kept] /\ usb.port = None
          /\ UNCHANGED <<queue, turn, armed, discovered, ums_mode, fd, owner, disc, waiting, home>>
    BY <1>4 DEF Plug, service
  <2> DEFINE b == usb.port_owner /\ kept
             x == [usb EXCEPT !.port = d, !.port_owner = b]
  <2>0. b \in BOOLEAN /\ usb' = x
    BY <2>1
  <2> HIDE DEF b
  <2>2. Ready(usb) /\ usb.res = "OK" /\ usb.fault = "none" /\ usb.data = <<>>
    BY DEF EhciInv, DriverInv
  <2>3. /\ x \in UsbSet /\ x.mounted = usb.mounted /\ x.known = usb.known /\ x.usbfd = usb.usbfd
        /\ x.hung = usb.hung /\ x.ums_init_done = usb.ums_init_done /\ ~x.dev.enabled
        /\ x.res = "OK" /\ x.fault = "none" /\ x.handshake_mode = usb.handshake_mode
        /\ x.allocs = usb.allocs /\ x.data = <<>> /\ x.unplug_device = usb.unplug_device
        /\ x.old_udd = usb.old_udd
    BY <2>0, <2>1, <2>2 DEF Ready, UsbSet, Out
  <2> HIDE DEF x
  <2>4. Ready(x) /\ Session(x)
    <3>1. Ready(x)
      BY <2>2, <2>3 DEF Ready, Out, Balanced
    <3>2. Session(x)
      BY <2>3 DEF Session, Known
    <3> QED
      BY <3>1, <3>2
  <2> QED
    BY <1>2, <2>0, <2>1, <2>3, <2>4 DEF DriverInv
<1> QED
  BY <1>1, <1>3, <1>4

\* A message that is done, whatever was done for it.
LEMMA PopInv ==
  ASSUME EhciInv, queue # <<>>, queue' = Tail(queue), turn' = 0,
         waiting' \in {waiting, waiting \ {Cur.c}}
  PROVE  QueueInv' /\ TurnInv' /\ (Early(queue) => Early(queue'))
<1>1. QueueOK(Tail(queue), waiting') /\ (Early(queue) => Early(Tail(queue)))
  BY TailOK DEF EhciInv, QueueInv, Cur
<1> QED
  BY <1>1 DEF QueueInv, TurnInv

\* The messages that the driver is not called for.
LEMMA AnswerInv ==
  ASSUME EhciInv,
         OpenRefused \/ OpenDevice \/ Close \/ Hook \/ Plain \/ WatchdogIdle \/ NothingOpen
  PROVE  EhciInv'
<1>1. /\ queue # <<>> /\ queue' = Tail(queue) /\ turn' = 0
      /\ waiting' \in {waiting, waiting \ {Cur.c}} /\ usb' = usb /\ home' = home
      /\ disc' = disc /\ discovered' = discovered
  BY DEF OpenRefused, OpenDevice, Close, Hook, Plain, WatchdogIdle, NothingOpen, Answer, Ack,
         Reply, Done, Working, service
<1>2. QueueInv' /\ TurnInv' /\ (Early(queue) => Early(queue')) /\ DriverInv' /\ HomeInv'
  BY <1>1, PopInv DEF EhciInv, DriverInv, HomeInv
<1>3. /\ Cur \in MsgSet
      /\ IF Cur.c = None THEN Cur = Tick ELSE Cur.c \in waiting
      /\ Early(queue) => Cur.op \in {"open", "open_device", "tick"}
  BY <1>1, HeadOK DEF EhciInv
<1>4. CASE OpenRefused \/ Hook \/ Plain \/ NothingOpen
  <2>1. armed' = TRUE /\ UNCHANGED <<ums_mode, fd, owner>>
    BY <1>4 DEF OpenRefused, Hook, Plain, NothingOpen, Answer, Ack, Reply, Done, service
  <2> QED
    BY <1>1, <1>2, <2>1 DEF EhciInv, NewInv, ServiceInv, WatchdogArmed
<1>5. CASE OpenDevice
  <2>1. /\ armed' = TRUE /\ UNCHANGED <<ums_mode>> /\ usb.known /\ Cur.op = "open_device"
        /\ fd' = [fd EXCEPT ![Cur.c] = "device"] /\ owner' = Cur.c
    BY <1>5 DEF OpenDevice, Answer, Ack, Reply, Done, Working
  <2>2. Cur.c \in Client
    BY <1>3, <2>1 DEF EhciInv, QueueInv, QueueOK, Tick, Message
  <2> QED
    BY <1>1, <1>2, <2>1, <2>2 DEF EhciInv, NewInv, ServiceInv, WatchdogArmed
<1>6. CASE Close
  <2>1. /\ armed' = TRUE /\ Cur.op = "close" /\ ums_mode' \in {None, ums_mode}
        /\ fd' = [fd EXCEPT ![Cur.c] = "none"] /\ owner' \in {None, owner}
    BY <1>6 DEF Close, Answer, Ack, Reply, Done, Working
  <2> QED
    BY <1>1, <1>2, <1>3, <2>1 DEF EhciInv, NewInv, ServiceInv, WatchdogArmed
<1>7. CASE WatchdogIdle
  <2>1. armed' = FALSE /\ ~Watched /\ UNCHANGED <<ums_mode, fd, owner>>
    BY <1>7 DEF WatchdogIdle, Done, service
  <2>2. WatchdogArmed'
    BY <1>1, <2>1 DEF WatchdogArmed, Watched
  <2> QED
    BY <1>1, <1>2, <2>1, <2>2 DEF EhciInv, NewInv, ServiceInv
<1> QED
  BY <1>4, <1>5, <1>6, <1>7

\* Before the device was looked for the driver is called to look for it only.
LEMMA DrivingOK ==
  ASSUME EhciInv, Driving
  PROVE  /\ Cur \in MsgSet /\ MsgOK(Cur) /\ Cur.op \in DriverOp /\ queue # <<>> /\ ~usb.hung
         /\ IF Cur.c = None THEN Cur.op = "tick" ELSE Cur.c \in Client
         /\ ~discovered => Cur.op = "open"
<1>1. /\ Cur \in MsgSet /\ MsgOK(Cur) /\ queue # <<>>
      /\ IF Cur.c = None THEN Cur = Tick ELSE Cur.c \in waiting
      /\ Early(queue) => Cur.op \in {"open", "open_device", "tick"}
  BY HeadOK DEF EhciInv, Driving
<1>2. Tick.op = "tick" /\ waiting \subseteq Client
  BY DEF Tick, Message, EhciInv, QueueInv, QueueOK
<1>3. ~discovered => Cur.op = "open"
  BY <1>1 DEF EhciInv, NewInv, Driving, Watched, DriverOp, LoopOp
<1> QED
  BY <1>1, <1>2, <1>3 DEF Driving

\* What the driver may make of the message under work.
LEMMA ResultsReady ==
  ASSUME EhciInv, Driving, NEW o \in Results
  PROVE  /\ Ready(o.w) /\ Session(o.w) /\ o.w.fault = "none"
         /\ Cur.op \in LoopOp /\ ~Unmounted => o.w.ums_init_done
         /\ Cur.op = "wbfs_open" /\ o.w.res = "OK" => o.w.ums_init_done
         /\ Unmounted => o.w.data = <<>>
         /\ Kind(usb, Cur, o.w) /\ Told(usb, Cur, o.w)
<1>1. /\ Ready(usb) /\ Session(usb) /\ usb.res = "OK" /\ usb.fault = "none" /\ usb.data = <<>>
      /\ turn # 0 => usb.ums_init_done
      /\ ~discovered => ~usb.mounted /\ ~usb.ums_init_done
  BY DEF EhciInv, DriverInv, TurnInv, NewInv, Driving
<1>2. /\ Cur \in MsgSet /\ MsgOK(Cur) /\ Cur.op \in DriverOp
  BY DrivingOK
<1>3. ASSUME NEW m \in Asked
      PROVE  MsgOK(m) /\ m.op = Cur.op /\ (Cur.op \in {"read", "stress", "write"} => m = Cur)
  <2>0. NSect \in Nat /\ NSect > 1 /\ Cur \in MsgSet /\ Cut(1) \in Nat /\ Cut(1) <= 1
    BY <1>2, UsbStorageAssumption, EhciAssumption, CutBelow
  <2>1. Cur.op = "tick" \/ Cur.op = "wbfs_read" => Cur.n = 1
    BY <1>2 DEF MsgOK
  <2>2. CASE Cur.op = "tick"
    <3>1. PICK s \in 0 .. NSect - 1 : m = [Cur EXCEPT !.sector = s]
      BY <2>2 DEF Asked
    <3>2. m.sector = s /\ m.n = 1 /\ m.op = "tick"
      BY <2>0, <2>1, <2>2, <3>1 DEF MsgSet
    <3> QED
      BY <2>0, <2>2, <3>2 DEF MsgOK
  <2>3. CASE Cur.op = "wbfs_read"
    <3>1. m = [Cur EXCEPT !.sector = 1]
      BY <2>3 DEF Asked
    <3>2. m.sector = 1 /\ m.n = 1 /\ m.op = "wbfs_read"
      BY <2>0, <2>1, <2>3, <3>1 DEF MsgSet
    <3> QED
      BY <2>0, <2>3, <3>2 DEF MsgOK
  <2>4. CASE Cur.op # "tick" /\ Cur.op # "wbfs_read"
    BY <1>2, <2>4 DEF Asked
  <2> QED
    BY <2>2, <2>3, <2>4
<1>4. ASSUME NEW w, Ready(w), Session(w), w.res = "OK", w.mounted = usb.mounted,
             w.ums_init_done = usb.ums_init_done, w.data = <<>>, w.media = usb.media,
             w.old_udd = usb.old_udd, NEW m \in Asked, NEW x, x = Perform(w, m)
      PROVE  /\ Ready(x) /\ Session(x)
             /\ w.fault = "none" => x.fault = "none"
             /\ Cur.op \in LoopOp /\ ~Unmounted => x.ums_init_done
             /\ Cur.op = "wbfs_open" /\ x.res = "OK" => x.ums_init_done
             /\ Unmounted => x.data = <<>>
             /\ Kind(usb, Cur, x) /\ Told(usb, Cur, x)
  <2>1. MsgOK(m) /\ m.op = Cur.op /\ m.op \in DriverOp
    BY <1>2, <1>3
  <2>2. /\ Ready(x) /\ Session(x)
        /\ w.fault = "none" => x.fault = "none"
        /\ Cur.op \in LoopOp /\ ~Unmounted => x.ums_init_done
        /\ Cur.op = "wbfs_open" /\ x.res = "OK" => x.ums_init_done
        /\ Unmounted => x.data = <<>>
        /\ Kind(w, m, x) /\ Told(w, m, x)
    BY <1>1, <1>4, <2>1, PerformReady
  <2>3. Kind(usb, Cur, x)
    BY <1>4, <2>1, <2>2 DEF Kind
  <2>4. Told(usb, Cur, x)
    BY <1>3, <1>4, <2>1, <2>2 DEF Told
  <2> QED
    BY <2>2, <2>3, <2>4
<1>5. PICK m \in Asked : o \in Outcomes(m, Perform(usb, m))
  BY DEF Results
<1> DEFINE r == Perform(usb, m)
<1>6. /\ Ready(r) /\ Session(r) /\ r.fault = "none"
      /\ Cur.op \in LoopOp /\ ~Unmounted => r.ums_init_done
      /\ Cur.op = "wbfs_open" /\ r.res = "OK" => r.ums_init_done
      /\ Unmounted => r.data = <<>>
      /\ Kind(usb, Cur, r) /\ Told(usb, Cur, r)
  BY <1>1, <1>4
<1> HIDE DEF r
<1>7. CASE o = [w |-> r, faults |-> faults]
  BY <1>6, <1>7
<1>8. ASSUME NEW v \in Doomed(r.left)
      PROVE  /\ Ready(v) /\ Session(v) /\ v.res = "OK" /\ v.mounted = usb.mounted
             /\ v.ums_init_done = usb.ums_init_done /\ v.data = <<>>
             /\ v.media = usb.media /\ v.old_udd = usb.old_udd
  <2>1. PICK f \in (IF faults < MaxFault THEN Faults ELSE {}) \X (0 .. r.left - 1) :
          v = [usb EXCEPT !.fault = f[1], !.left = f[2]]
    BY DEF Doomed
  <2> DEFINE e == f[1]
             k == f[2]
  <2>2. e \in Faults /\ k \in Nat
    BY <1>6 DEF Ready, UsbSet
  <2>3. v = [usb EXCEPT !.fault = e, !.left = k]
    BY <2>1
  <2> HIDE DEF e, k
  <2>4. Ready(v) /\ Session(v)
    BY <1>1, <2>2, <2>3, CallReady
  <2>5. /\ v.res = usb.res /\ v.mounted = usb.mounted /\ v.ums_init_done = usb.ums_init_done
        /\ v.data = usb.data /\ v.media = usb.media /\ v.old_udd = usb.old_udd
    BY <1>1, <2>3 DEF Ready, UsbSet
  <2> QED
    BY <1>1, <2>4, <2>5
<1>9. CASE o # [w |-> r, faults |-> faults]
  <2> DEFINE s == r.left
             A == {Perform(v, m) : v \in Doomed(s)}
  <2>1. PICK x \in {y \in A : y.fault = "none"} : o = [w |-> x, faults |-> faults + 1]
    <3>1. o \in {[w |-> x, faults |-> faults + 1] : x \in {y \in A : y.fault = "none"}}
      BY <1>5, <1>9 DEF Outcomes, r
    <3> HIDE DEF A
    <3> QED
      BY <3>1
  <2> HIDE DEF s
  <2>2. PICK v \in Doomed(s) : x = Perform(v, m)
    OBVIOUS
  <2>3. o.w = x /\ x.fault = "none"
    <3> HIDE DEF A
    <3> QED
      BY <2>1
  <2>4. /\ Ready(v) /\ Session(v) /\ v.res = "OK" /\ v.mounted = usb.mounted
        /\ v.ums_init_done = usb.ums_init_done /\ v.data = <<>>
        /\ v.media = usb.media /\ v.old_udd = usb.old_udd
    BY <1>8 DEF s
  <2>5. /\ Ready(x) /\ Session(x)
        /\ Cur.op \in LoopOp /\ ~Unmounted => x.ums_init_done
        /\ Cur.op = "wbfs_open" /\ x.res = "OK" => x.ums_init_done
        /\ Unmounted => x.data = <<>>
        /\ Kind(usb, Cur, x) /\ Told(usb, Cur, x)
    BY <1>4, <2>2, <2>4
  <2> QED
    BY <2>3, <2>5
<1> QED
  BY <1>7, <1>9

\* The device that is mounted when the driver has returned o.
HomeAfter(o) ==
  IF Cur.op = "umount" THEN None ELSE IF Cur.op \in {"init", "wbfs_open"} THEN Home(o.w) ELSE home

\* The module goes on with what the driver returned.
LEMMA ReturnsInv ==
  ASSUME EhciInv, Driving, NEW o \in Results, Returns(o)
  PROVE  /\ DriverInv' /\ o.w \in UsbSet /\ usb'.media = o.w.media
         /\ HomeAfter(o) \in Device \cup {None} /\ (home' = HomeAfter(o) => HomeInv')
         /\ usb'.ums_init_done = o.w.ums_init_done /\ usb'.mounted = o.w.mounted
<1>1. /\ Ready(o.w) /\ Session(o.w) /\ o.w.fault = "none" /\ usb' = Idle(o.w)
      /\ Kind(usb, Cur, o.w)
  BY ResultsReady DEF Returns
<1>2. o.w \in UsbSet /\ o.w.port \in Device \cup {None}
  BY <1>1 DEF Ready, UsbSet
<1> DEFINE w == o.w
<1> HIDE DEF w
<1>3. /\ Ready(Idle(w)) /\ Session(Idle(w)) /\ Idle(w).res = "OK" /\ Idle(w).fault = "none"
      /\ Idle(w).data = <<>> /\ Idle(w).ums_init_done = w.ums_init_done
      /\ Idle(w).mounted = w.mounted /\ Idle(w).media = w.media /\ Idle(w).old_udd = w.old_udd
  BY <1>1, IdleReady DEF w
<1>4. DriverInv'
  BY <1>1, <1>3 DEF w, DriverInv
<1>5. HomeAfter(o) \in Device \cup {None}
  BY <1>2 DEF HomeAfter, Home, EhciInv, ServiceInv
<1>6. ASSUME home' = HomeAfter(o), usb'.ums_init_done
      PROVE  home' \in Device /\ usb'.old_udd = Model[home']
  <2>1. w.ums_init_done /\ usb'.old_udd = w.old_udd
    BY <1>1, <1>3, <1>6 DEF w
  <2>2. CASE usb.ums_init_done
    <3>1. Cur.op # "umount" /\ w.old_udd = usb.old_udd
      BY <1>1, <2>1, <2>2 DEF Kind, w
    <3>2. home' = home
      BY <1>6, <2>2, <3>1 DEF HomeAfter, Home
    <3> QED
      BY <2>1, <2>2, <3>1, <3>2 DEF EhciInv, HomeInv
  <2>3. CASE ~usb.ums_init_done
    <3>1. /\ Cur.op \in {"init", "wbfs_open"} /\ w.res = "OK"
          /\ w.port \in Device /\ w.old_udd = Model[w.port]
      BY <1>1, <2>1, <2>3 DEF Kind, w
    <3>2. home' = w.port
      BY <1>6, <2>3, <3>1 DEF HomeAfter, Home, w
    <3> QED
      BY <2>1, <3>1, <3>2
  <2> QED
    BY <2>2, <2>3
<1> QED
  BY <1>1, <1>2, <1>3, <1>4, <1>5, <1>6 DEF w, HomeInv

\* A message that the driver was called for is done.
LEMMA DoneInv ==
  ASSUME EhciInv, Driving, NEW o \in Results, Returns(o), discovered' \in BOOLEAN,
         discovered => discovered', Cur.op = "open" => discovered',
         queue' = Tail(queue), turn' = 0, armed' = TRUE,
         waiting' \in {waiting, waiting \ {Cur.c}},
         ums_mode' \in {ums_mode, Cur.c, None}, owner' = owner,
         fd' \in {fd, [fd EXCEPT ![Cur.c] = "module"]}, home' = HomeAfter(o),
         disc' \in [open : BOOLEAN, live : BOOLEAN, of : Device \cup {None}],
         Cur.op = "tick" => ums_mode' = ums_mode /\ fd' = fd
  PROVE  EhciInv'
<1>1. /\ queue # <<>> /\ discovered'
      /\ IF Cur.c = None THEN Cur.op = "tick" ELSE Cur.c \in Client
  BY DrivingOK
<1>2. DriverInv' /\ home' \in Device \cup {None} /\ HomeInv'
  BY ReturnsInv
<1>3. QueueInv' /\ TurnInv'
  BY <1>1, PopInv
<1>4. NewInv' /\ WatchdogArmed'
  BY <1>1 DEF NewInv, WatchdogArmed
<1>5. ServiceInv'
  BY <1>1, <1>2 DEF EhciInv, ServiceInv
<1> QED
  BY <1>2, <1>3, <1>4, <1>5 DEF EhciInv

\* The message goes on with another operation.
LEMMA OnInv ==
  ASSUME EhciInv, Driving, NEW o \in Results, Returns(o), NEW op \in {"wbfs_hd", "wbfs_disc"},
         Cur.op \notin {"tick", "open"}, Goto(op), o.w.ums_init_done,
         UNCHANGED <<discovered, ums_mode, owner, fd>>, home' = HomeAfter(o),
         disc' \in [open : BOOLEAN, live : BOOLEAN, of : Device \cup {None}]
  PROVE  EhciInv'
<1>1. queue # <<>> /\ discovered
  BY DrivingOK
<1>2. /\ DriverInv' /\ home' \in Device \cup {None} /\ HomeInv'
      /\ usb'.ums_init_done = o.w.ums_init_done
  BY ReturnsInv
<1>3. /\ QueueOK(queue', waiting) /\ queue' # <<>> /\ Head(queue').op = op
      /\ turn' \in {1, 2} /\ armed' = FALSE /\ waiting' = waiting
  BY ZenonT(40), <1>1, GotoOK DEF Goto, Cur, EhciInv, QueueInv
<1>4. QueueInv' /\ TurnInv' /\ NewInv' /\ WatchdogArmed'
  BY <1>1, <1>2, <1>3 DEF QueueInv, TurnInv, NewInv, WatchdogArmed, Cur, LoopOp
<1>5. ServiceInv'
  BY <1>2, <1>3 DEF EhciInv, ServiceInv
<1> QED
  BY <1>2, <1>4, <1>5 DEF EhciInv

\* The messages that the driver works on.
LEMMA DriverStepInv ==
  ASSUME EhciInv, Driving, NEW o \in Results, Driver(o)
  PROVE  EhciInv'
<1>1. disc \in [open : BOOLEAN, live : BOOLEAN, of : Device \cup {None}] /\ discovered \in BOOLEAN
      /\ home \in Device \cup {None}
  BY DEF EhciInv, ServiceInv
<1>2. CASE OpenModule(o)
  <2>1. /\ Returns(o) /\ queue' = Tail(queue) /\ turn' = 0 /\ armed' = TRUE
        /\ waiting' = waiting \ {Cur.c} /\ discovered' = TRUE
        /\ fd' = [fd EXCEPT ![Cur.c] = "module"] /\ UNCHANGED <<ums_mode, owner, disc, home>>
        /\ Cur.op = "open" /\ home' = HomeAfter(o)
    BY <1>2 DEF OpenModule, Ack, Reply, Done, Working, HomeAfter
  <2> QED
    BY <1>1, <2>1, DoneInv
<1>3. CASE Call(o) \/ ReadSectors(o) \/ WriteSectors(o) \/ Watchdog(o) \/ WbfsRead(o)
  <2>1. /\ Returns(o) /\ queue' = Tail(queue) /\ turn' = 0 /\ armed' = TRUE
        /\ waiting' \in {waiting, waiting \ {Cur.c}}
        /\ UNCHANGED <<discovered, ums_mode, fd, owner, disc, home>>
        /\ Cur.op # "open" /\ home' = HomeAfter(o)
    BY <1>3 DEF Call, ReadSectors, WriteSectors, Watchdog, WbfsRead, Ends, AckOf, Reply, Done,
                Working, service, HomeAfter
  <2> QED
    BY <1>1, <2>1, DoneInv
<1>4. CASE UmsInit(o) \/ UmsUmount(o)
  <2>1. /\ Returns(o) /\ queue' = Tail(queue) /\ turn' = 0 /\ armed' = TRUE
        /\ waiting' = waiting \ {Cur.c}
        /\ UNCHANGED <<discovered, fd, owner, disc>>
        /\ Cur.op \notin {"open", "tick"} /\ ums_mode' \in {ums_mode, Cur.c}
        /\ home' = HomeAfter(o)
    BY <1>4 DEF UmsInit, UmsUmount, Ack, Reply, Done, Working, service, HomeAfter
  <2> QED
    BY <1>1, <2>1, DoneInv
<1>5. CASE WbfsMount(o)
  <2>1. /\ Returns(o) /\ home' = HomeAfter(o) /\ Cur.op = "wbfs_open"
        /\ UNCHANGED <<discovered, ums_mode, fd, owner>>
    BY <1>5 DEF WbfsMount, Working, HomeAfter
  <2>2. CASE Ack(FALSE, <<>>) /\ UNCHANGED disc
    <3>1. /\ queue' = Tail(queue) /\ turn' = 0 /\ armed' = TRUE
          /\ waiting' = waiting \ {Cur.c}
      BY <2>2 DEF Ack, Reply, Done
    <3> QED
      BY <1>1, <2>1, <2>2, <3>1, DoneInv
  <2>3. CASE Goto("wbfs_hd") /\ disc' = [disc EXCEPT !.live = FALSE] /\ o.w.res = "OK"
    <3>1. o.w.ums_init_done
      BY <2>1, <2>3, ResultsReady
    <3>2. disc' \in [open : BOOLEAN, live : BOOLEAN, of : Device \cup {None}]
      BY <1>1, <2>3
    <3> QED
      BY <2>1, <2>3, <3>1, <3>2, OnInv
  <2> QED
    BY <1>5, <2>2, <2>3 DEF WbfsMount
<1>6. CASE WbfsOpenHd(o)
  <2>1. /\ Returns(o) /\ Cur.op = "wbfs_hd" /\ home' = HomeAfter(o)
        /\ UNCHANGED <<discovered, ums_mode, fd, owner, disc, home>>
    BY <1>6 DEF WbfsOpenHd, Ends, Working, service, HomeAfter
  <2>2. CASE Ack(FALSE, <<>>)
    <3>1. /\ queue' = Tail(queue) /\ turn' = 0 /\ armed' = TRUE
          /\ waiting' = waiting \ {Cur.c}
      BY <2>2 DEF Ack, Reply, Done
    <3> QED
      BY <1>1, <2>1, <3>1, DoneInv
  <2>3. CASE Goto("wbfs_disc") /\ IsHead(o.w.data)
    <3>1. ~Unmounted
      BY <2>3, ResultsReady DEF IsHead
    <3>2. o.w.ums_init_done
      BY <2>1, <3>1, ResultsReady DEF LoopOp
    <3> QED
      BY <1>1, <2>1, <2>3, <3>2, OnInv
  <2> QED
    BY <1>6, <2>2, <2>3 DEF WbfsOpenHd
<1>7. CASE WbfsOpenDisc(o)
  <2>1. /\ Returns(o) /\ queue' = Tail(queue) /\ turn' = 0 /\ armed' = TRUE
        /\ waiting' = waiting \ {Cur.c}
        /\ UNCHANGED <<discovered, ums_mode, fd, owner, home>>
        /\ Cur.op = "wbfs_disc" /\ home' = HomeAfter(o)
        /\ disc' \in {NoDisc, [open |-> TRUE, live |-> TRUE, of |-> home]}
    BY <1>7 DEF WbfsOpenDisc, Ends, Ack, Reply, Done, Working, HomeAfter
  <2>2. disc' \in [open : BOOLEAN, live : BOOLEAN, of : Device \cup {None}]
    <3>1. NoDisc \in [open : BOOLEAN, live : BOOLEAN, of : Device \cup {None}]
      BY DEF NoDisc
    <3>2. [open |-> TRUE, live |-> TRUE, of |-> home]
            \in [open : BOOLEAN, live : BOOLEAN, of : Device \cup {None}]
      BY <1>1
    <3> QED
      BY <2>1, <3>1, <3>2
  <2> QED
    BY <1>1, <2>1, <2>2, DoneInv
<1>8. CASE TurnAgain(o)
  <2>1. /\ Returns(o) /\ Cur.op \in LoopOp /\ ~Unmounted /\ turn' \in {1, 2} /\ armed' = FALSE
        /\ UNCHANGED <<queue, discovered, ums_mode, fd, owner, disc, waiting, home>>
        /\ home' = HomeAfter(o)
    BY <1>8 DEF TurnAgain, service, HomeAfter, LoopOp
  <2>2. queue # <<>> /\ discovered
    BY <2>1, DrivingOK DEF LoopOp
  <2>3. DriverInv' /\ usb'.ums_init_done /\ HomeInv'
    BY <2>1, ReturnsInv, ResultsReady
  <2>4. QueueInv' /\ NewInv' /\ WatchdogArmed'
    BY <2>1, <2>2 DEF EhciInv, QueueInv, NewInv, WatchdogArmed
  <2>5. TurnInv' /\ ServiceInv'
    <3>1. turn' \in 0 .. 2 /\ queue' = queue
      BY <2>1
    <3>2. Head(queue').op \in LoopOp
      BY <2>1, <3>1 DEF Cur
    <3>3. TurnInv'
      BY <2>2, <2>3, <3>1, <3>2 DEF TurnInv, Cur
    <3>4. ServiceInv'
      BY <2>1 DEF EhciInv, ServiceInv
    <3> QED
      BY <3>3, <3>4
  <2> QED
    BY <2>3, <2>4, <2>5 DEF EhciInv
<1>9. CASE Hang(o)
  <2>1. /\ usb' = [Start(None) EXCEPT !.hung = TRUE, !.media = o.w.media]
        /\ UNCHANGED <<queue, turn, armed, discovered, ums_mode, fd, owner, disc, waiting, home>>
    BY <1>9 DEF Hang, service
  <2>2. o.w.media \in Media
    BY ResultsReady DEF Ready, UsbSet
  <2>3. DriverInv' /\ usb'.hung /\ ~usb'.known /\ ~usb'.mounted /\ ~usb'.ums_init_done
    <3> DEFINE m == o.w.media
    <3>1. m \in Media /\ usb' = [Start(None) EXCEPT !.hung = TRUE, !.media = m]
      BY <2>1, <2>2
    <3> HIDE DEF m
    <3>2. /\ Ready(usb') /\ Session(usb') /\ usb'.res = "OK" /\ usb'.fault = "none"
          /\ usb'.hung /\ ~usb'.known /\ ~usb'.mounted /\ ~usb'.ums_init_done
          /\ usb'.data = <<>>
      <4> DEFINE x == [Start(None) EXCEPT !.hung = TRUE, !.media = m]
      <4>1. m \in Media /\ x = [Start(None) EXCEPT !.hung = TRUE, !.media = m]
        BY <3>1
      <4>2. usb' = x
        BY <3>1
      <4> HIDE DEF x
      <4>3. HungDriver(x)
        BY ONLY <4>1, HungReady
      <4> QED
        BY <4>2, <4>3 DEF HungDriver
    <3> QED
      BY <3>2 DEF DriverInv
  <2>4. QueueInv' /\ TurnInv' /\ NewInv' /\ ServiceInv' /\ WatchdogArmed' /\ HomeInv'
    BY <2>1, <2>3 DEF EhciInv, QueueInv, TurnInv, NewInv, ServiceInv, WatchdogArmed, HomeInv
  <2> QED
    BY <2>3, <2>4 DEF EhciInv
<1> QED
  BY <1>2, <1>3, <1>4, <1>5, <1>6, <1>7, <1>8, <1>9 DEF Driver

-----------------------------------------------------------------------------
(* What is written, and what is answered *)

\* A device of the model that is mounted.
Alike(d) == home \in Device /\ Model[d] = Model[home]

\* What the last answer says of the device d.
TrueOf(d) ==
  /\ Answers("read") =>
       answer'.data = Sectors(usb'.media[d], answer'.sector, answer'.n)
  /\ Answers("stress") =>
       answer'.data = Sectors(usb'.media[d], answer'.sector + answer'.n, answer'.n)
  /\ Answers("write") =>
       Sectors(usb'.media[d], answer'.sector, answer'.n) = [i \in 1 .. answer'.n |-> answer'.val]

\* No two devices are of one model.
Distinct == \A d, e \in Device : Model[d] = Model[e] => d = e

\* Whatever the step is, only a device of the model that is mounted is written to.
LEMMA WritesAlike ==
  ASSUME EhciInv, [EhciNext]_ehciVars, NEW d \in Device, usb'.media[d] # usb.media[d]
  PROVE  Alike(d)
<1>1. CASE UNCHANGED ehciVars
  BY <1>1 DEF ehciVars
<1>2. CASE \E c \in Client : SendOpen(c) \/ SendPlain(c) \/ SendSectors(c)
  <2>1. usb' = usb
    BY <1>2 DEF SendOpen, SendPlain, SendSectors, Send
  <2> QED
    BY <2>1
<1>3. CASE Fire
  BY <1>3 DEF Fire
<1>4. CASE Pull \/ \E e \in Device : Plug(e)
  <2>1. usb \in UsbSet
    BY DEF EhciInv, DriverInv, Ready
  <2>2. usb'.media = usb.media
    BY <1>4, <2>1 DEF Pull, Plug, Unplugged, UsbSet
  <2> QED
    BY <2>2
<1>5. CASE OpenRefused \/ OpenDevice \/ Close \/ Hook \/ Plain \/ WatchdogIdle \/ NothingOpen
  BY <1>5 DEF OpenRefused, OpenDevice, Close, Hook, Plain, WatchdogIdle, NothingOpen, Answer
<1>6. CASE Driving /\ \E o \in Results : Driver(o)
  <2>1. PICK o \in Results : Driver(o)
    BY <1>6
  <2>2. Kind(usb, Cur, o.w)
    BY <1>6, ResultsReady
  <2>3. usb'.media = o.w.media
    <3>1. CASE Returns(o)
      BY <1>6, <3>1, ReturnsInv
    <3>2. CASE Hang(o)
      BY <3>2 DEF Hang, Start
    <3> QED
      BY <2>1, <3>1, <3>2 DEF Driver, OpenModule, Call, UmsInit, UmsUmount, ReadSectors,
         WriteSectors, Watchdog, WbfsMount, WbfsOpenHd, WbfsOpenDisc, WbfsRead, TurnAgain, Ends
  <2>4. usb.ums_init_done /\ Model[d] = usb.old_udd
    BY <2>2, <2>3 DEF Kind
  <2> QED
    BY <2>4 DEF EhciInv, HomeInv, Alike
<1> QED
  BY <1>1, <1>2, <1>3, <1>4, <1>5, <1>6 DEF EhciNext, Work

\* What an answer is made of.
LEMMA ReplyOK ==
  ASSUME NEW ok, NEW data, NEW refused, Reply(ok, data, refused)
  PROVE  /\ answer'.op = Cur.op /\ answer'.sector = Cur.sector /\ answer'.n = Cur.n
         /\ answer'.val = Cur.val /\ answer'.ok = ok /\ answer'.data = data
         /\ answer'.refused = refused
BY DEF Reply

\* A read or a write is answered as done when the driver has done it.
LEMMA AnswersResult ==
  ASSUME EhciInv, [EhciNext]_ehciVars, NEW op \in {"read", "stress", "write"}, Answers(op)
  PROVE  /\ Driving /\ Cur.op = op
         /\ answer'.sector = Cur.sector /\ answer'.n = Cur.n /\ answer'.val = Cur.val
         /\ Cur.n < Wrap
         /\ \E o \in Results : /\ Returns(o) /\ o.w.res = "OK" /\ ~o.w.refused
                               /\ answer'.data = o.w.data
<1>0. /\ waiting' # waiting /\ Len(queue') < Len(queue) /\ answer'.op = op /\ answer'.ok
      /\ ~answer'.refused /\ answer'.n < Wrap
  BY DEF Answers
<1>1. ~UNCHANGED ehciVars
  BY <1>0 DEF ehciVars
<1>2. ASSUME \E c \in Client : SendOpen(c) \/ SendPlain(c) \/ SendSectors(c)
      PROVE  FALSE
  <2>1. PICK m : queue' = Append(queue, m)
    BY <1>2 DEF SendOpen, SendPlain, SendSectors, Send
  <2>2. queue \in Seq(MsgSet)
    BY DEF EhciInv, QueueInv, QueueOK
  <2> QED
    BY <1>0, <2>1, <2>2
<1>3. ~Fire /\ ~Pull /\ \A d \in Device : ~Plug(d)
  BY <1>0 DEF Fire, Pull, Plug
<1>4. ASSUME OpenRefused \/ OpenDevice \/ Close \/ Hook \/ Plain \/ WatchdogIdle \/ NothingOpen
      PROVE  FALSE
  <2>1. CASE Hook \/ WatchdogIdle
    BY <1>0, <2>1 DEF Hook, WatchdogIdle
  <2>2. CASE OpenRefused \/ OpenDevice \/ Close \/ Plain \/ NothingOpen
    <3>1. PICK o \in {"open", "open_device", "close", "plain", "wbfs_read"}, ok \in BOOLEAN :
            Answer(o, ok)
      BY <2>2 DEF OpenRefused, OpenDevice, Close, Plain, NothingOpen
    <3>2. answer'.op = o
      BY <3>1 DEF Answer, Ack, Reply, Working
    <3> QED
      BY <1>0, <3>2
  <2> QED
    BY <1>4, <2>1, <2>2
<1>5. Driving /\ \E o \in Results : Driver(o)
  BY <1>1, <1>2, <1>3, <1>4 DEF EhciNext, Work
<1>6. PICK o \in Results : Driver(o)
  BY <1>5
<1>7. ~Watchdog(o) /\ ~TurnAgain(o) /\ ~Hang(o)
  BY <1>0 DEF Watchdog, TurnAgain, Hang
<1>8. ~OpenModule(o) /\ ~UmsInit(o) /\ ~UmsUmount(o) /\ ~WbfsRead(o)
  <2>1. ASSUME OpenModule(o) \/ UmsInit(o) \/ UmsUmount(o) \/ WbfsRead(o)
        PROVE  answer'.op \in {"open", "init", "umount", "wbfs_read"}
    BY <2>1, ReplyOK DEF OpenModule, UmsInit, UmsUmount, WbfsRead, Ack, AckOf, Working
  <2> QED
    BY <1>0, <2>1
<1>9. ~WbfsMount(o) /\ ~WbfsOpenHd(o) /\ ~WbfsOpenDisc(o)
  <2>1. ASSUME WbfsMount(o) \/ WbfsOpenHd(o) \/ WbfsOpenDisc(o)
        PROVE  answer'.op \in {"wbfs_open", "wbfs_hd", "wbfs_disc"} \/ waiting' = waiting
    BY <2>1, ReplyOK DEF WbfsMount, WbfsOpenHd, WbfsOpenDisc, Ack, Goto, Working
  <2> QED
    BY <1>0, <2>1
<1>10. Call(o) \/ ReadSectors(o) \/ WriteSectors(o)
  BY <1>6, <1>7, <1>8, <1>9 DEF Driver
<1>11. /\ Cur.op = op /\ Returns(o) /\ o.w.res = "OK" /\ ~o.w.refused /\ Cur.n < Wrap
       /\ answer'.sector = Cur.sector /\ answer'.n = Cur.n /\ answer'.val = Cur.val
       /\ answer'.data = o.w.data
  <2>1. Reply(o.w.res = "OK", o.w.data, o.w.refused) /\ Returns(o)
    BY <1>10 DEF Call, ReadSectors, WriteSectors, Ends, AckOf
  <2> QED
    BY <1>0, <2>1, ReplyOK
<1> QED
  BY <1>0, <1>5, <1>11

\* Sectors are the data of a device that a request covers.
LEMMA SectorsHeld ==
  ASSUME NEW m \in [0 .. NSect - 1 -> Cell], NEW s \in Nat, NEW n \in Nat, s + n <= NSect
  PROVE  /\ Sectors(m, s, n) = Holds(m, s, n)
         /\ \A val : Written(m, s, n, val) => Holds(m, s, n) = [i \in 1 .. n |-> val]
<1> DEFINE f == [i \in 1 .. NSect |-> m[i - 1]]
           x == SubSeq(f, s + 1, s + n)
           y == Holds(m, s, n)
<1>0. NSect \in Nat /\ s + 1 \in Int /\ s + n \in Int
  BY UsbStorageAssumption
<1>1. \A i \in 1 .. NSect : f[i] = m[i - 1] /\ f[i] \in Cell
  BY <1>0
<1> HIDE DEF f
<1>2. \A i \in s + 1 .. s + n : f[i] \in Cell
  BY <1>0, <1>1
<1>3. /\ x \in Seq(Cell)
      /\ Len(x) = IF s + 1 <= s + n THEN s + n - (s + 1) + 1 ELSE 0
      /\ \A i \in 1 .. s + n - (s + 1) + 1 : x[i] = f[s + 1 + i - 1]
  BY <1>0, <1>2, SubSeqProperties
<1> HIDE DEF x
<1>4. Len(x) = n /\ \A i \in 1 .. n : x[i] = m[s + i - 1]
  <2>1. s + n - (s + 1) + 1 = n /\ (s + 1 <= s + n <=> n > 0) /\ (n > 0 \/ n = 0)
    OBVIOUS
  <2>2. Len(x) = n
    BY <1>3, <2>1
  <2>3. ASSUME NEW i \in 1 .. n
        PROVE  x[i] = m[s + i - 1]
    <3>1. x[i] = f[s + 1 + i - 1]
      BY <1>3, <2>1
    <3>2. s + 1 + i - 1 = s + i /\ s + i \in 1 .. NSect
      BY <1>0
    <3> QED
      BY <1>1, <3>1, <3>2
  <2> QED
    BY <2>2, <2>3
<1>5. y \in Seq(Cell) /\ Len(y) = n /\ \A i \in 1 .. n : y[i] = m[s + i - 1]
  BY <1>0 DEF Holds
<1>6. x = y
  <2> HIDE DEF y
  <2> QED
    BY <1>3, <1>4, <1>5, SeqEqual
<1>7. ASSUME NEW val, Written(m, s, n, val)
      PROVE  Holds(m, s, n) = [i \in 1 .. n |-> val]
  <2>1. \A i \in 1 .. n : m[s + i - 1] = val
    BY <1>7 DEF Written
  <2> QED
    BY <2>1 DEF Holds
<1> QED
  BY <1>6, <1>7 DEF x, y, f, Sectors

\* An answer is true of a device of the model that is mounted.
LEMMA AnswersTruly ==
  ASSUME EhciInv, [EhciNext]_ehciVars, NEW op \in {"read", "stress", "write"}, Answers(op)
  PROVE  \E d \in Device : Alike(d) /\ TrueOf(d)
<1>1. /\ Driving /\ Cur.op = op
      /\ answer'.sector = Cur.sector /\ answer'.n = Cur.n /\ answer'.val = Cur.val
      /\ Cur.n < Wrap
  BY AnswersResult
<1>2. PICK o \in Results : /\ Returns(o) /\ o.w.res = "OK" /\ ~o.w.refused
                          /\ answer'.data = o.w.data
  BY AnswersResult
<1>3. /\ Ready(o.w) /\ Told(usb, Cur, o.w) /\ usb'.media = o.w.media
      /\ Cur \in MsgSet /\ MsgOK(Cur)
  BY <1>1, <1>2, ResultsReady, ReturnsInv, DrivingOK
<1>4. PICK d \in Device : usb.ums_init_done /\ Model[d] = usb.old_udd /\ Holding(d, Cur, o.w)
  BY <1>1, <1>2, <1>3 DEF Told
<1>5. Alike(d)
  BY <1>4 DEF EhciInv, HomeInv, Alike
<1> DEFINE m == o.w.media[d]
           s == Cur.sector
           n == Cur.n
<1>6. m \in [0 .. NSect - 1 -> Cell] /\ s \in Nat /\ n \in Nat /\ s + n <= NSect
  BY <1>1, <1>3, CutBelow DEF Ready, UsbSet, Media, MsgOK
<1>7. \A p \in {"read", "stress", "write"} : Answers(p) => p = op
  BY DEF Answers
<1>8. CASE op = "read"
  <2>1. answer'.data = Holds(m, s, n)
    BY <1>1, <1>2, <1>4, <1>8 DEF Holding
  <2>2. Holds(m, s, n) = Sectors(m, s, n)
    <3> HIDE DEF m, s, n
    <3> QED
      BY <1>6, SectorsHeld
  <2> QED
    BY <1>1, <1>3, <1>5, <1>7, <1>8, <2>1, <2>2 DEF TrueOf
<1>9. CASE op = "stress"
  <2>1. answer'.data = Holds(m, s + n, n) /\ s + n + n <= NSect
    <3>1. answer'.data = Holds(m, s + (Batches - 1) * n, n) /\ s + Batches * n <= NSect
      BY <1>1, <1>2, <1>3, <1>4, <1>9 DEF Holding, MsgOK
    <3>2. s + (Batches - 1) * n = s + n /\ s + Batches * n = s + n + n
      <4> HIDE DEF m, s, n
      <4> QED
        BY <1>6 DEF Batches
    <3> QED
      BY <3>1, <3>2
  <2>2. Holds(m, s + n, n) = Sectors(m, s + n, n)
    <3> HIDE DEF m, s, n
    <3>1. s + n \in Nat
      BY <1>6
    <3> QED
      BY <1>6, <2>1, <3>1, SectorsHeld
  <2> QED
    BY <1>1, <1>3, <1>5, <1>7, <1>9, <2>1, <2>2 DEF TrueOf
<1>10. CASE op = "write"
  <2>1. Written(m, s, n, Cur.val)
    BY <1>1, <1>4, <1>10 DEF Holding
  <2>2. Sectors(m, s, n) = [i \in 1 .. n |-> Cur.val]
    <3> HIDE DEF m, s, n
    <3> QED
      BY <1>6, <2>1, SectorsHeld
  <2> QED
    BY <1>1, <1>3, <1>5, <1>7, <1>10, <2>2 DEF TrueOf
<1> QED
  BY <1>8, <1>9, <1>10

-----------------------------------------------------------------------------
(* The theorems *)

\* Every step of the module keeps the invariant.
LEMMA NextInv ==
  ASSUME EhciInv, [EhciNext]_ehciVars
  PROVE  EhciInv'
<1>1. CASE UNCHANGED ehciVars
  <2>1. DriverInv' /\ QueueInv' /\ TurnInv'
    BY <1>1 DEF ehciVars, EhciInv, DriverInv, QueueInv, TurnInv, Cur
  <2>2. NewInv' /\ ServiceInv' /\ WatchdogArmed' /\ HomeInv'
    BY <1>1 DEF ehciVars, EhciInv, NewInv, ServiceInv, WatchdogArmed, HomeInv
  <2> QED
    BY <2>1, <2>2 DEF EhciInv
<1>2. CASE EhciNext
  BY <1>2, ClientInv, AroundInv, AnswerInv, DriverStepInv DEF EhciNext, Work
<1> QED
  BY <1>1, <1>2

\* A queue of waiting clients and one timer is no longer than there are of them.
LEMMA QueueBounded ==
  ASSUME QueueInv
  PROVE  Len(queue) <= Cardinality(Client) + 1
<1> DEFINE n == Len(queue)
           T == Client \cup {None}
           f == [i \in 1 .. n |-> queue[i].c]
<1>1. IsFiniteSet(T) /\ Cardinality(T) = Cardinality(Client) + 1
  BY EhciAssumption, FS_AddElement
<1>2. n \in Nat /\ IsFiniteSet(1 .. n) /\ Cardinality(1 .. n) = n
  <2>1. n \in Nat
    BY DEF QueueInv, QueueOK
  <2> HIDE DEF n, T, f
  <2> QED
    BY ONLY <2>1, FS_Interval
<1>3. f \in Injection(1 .. n, T)
  <2>1. \A i \in 1 .. n : queue[i].c \in T
    BY DEF QueueInv, QueueOK
  <2>2. \A i, j \in 1 .. n : queue[i].c = queue[j].c => i = j
    BY DEF QueueInv, QueueOK
  <2> HIDE DEF n, T
  <2> QED
    BY <2>1, <2>2 DEF Injection, IsInjective
<1> HIDE DEF n, T, f
<1>4. Cardinality(1 .. n) <= Cardinality(T)
  BY <1>1, <1>3, FS_Injection
<1> QED
  BY <1>1, <1>2, <1>4 DEF n

\* The invariant says what the properties do.
LEMMA InvTyped ==
  ASSUME EhciInv
  PROVE  EhciTypeOK
<1>1. /\ usb \in UsbSet /\ usb.res = "OK" /\ usb.fault = "none"
  BY DEF EhciInv, DriverInv, Ready
<1>2. /\ usb.port \in Device \cup {None} /\ usb.id \in 0 .. 2 /\ usb.handshake_mode \in 0 .. 1
      /\ usb.media \in [Device -> [0 .. NSect - 1 -> (Device \X (0 .. NSect - 1)) \cup Value]]
      /\ usb.usbfd.size \in {0, NSect}
  <2>1. usb.usbfd \in Handles /\ usb.media \in Media /\ usb.handshake_mode \in {0, 1}
    BY <1>1 DEF UsbSet
  <2>2. usb.usbfd.size \in {0, NSect}
    BY <2>1 DEF Handles
  <2> QED
    BY <1>1, <2>1, <2>2 DEF UsbSet, Media, Cell
<1>3. waiting \subseteq Client /\ Len(queue) <= Cardinality(Client) + 1
  BY QueueBounded DEF EhciInv, QueueInv, QueueOK
<1>4. disc.of \in Device \cup {None}
  BY DEF EhciInv, ServiceInv
<1> QED
  BY <1>1, <1>2, <1>3, <1>4 DEF EhciTypeOK, EhciInv, ServiceInv

\* The invariant of the module, which all that follows comes from.
THEOREM EhciInvariant == EhciSpec => []EhciInv
<1>1. EhciInit => EhciInv
  BY InitInv
<1>2. EhciInv /\ [EhciNext]_ehciVars => EhciInv'
  BY NextInv
<1> QED
  BY <1>1, <1>2, PTL DEF EhciSpec

\* The variables keep their types, and the queue of the module has room for one message
\* of every client and the one of the timer (loop.c).
THEOREM EhciTypeCorrect == EhciSpec => []EhciTypeOK
<1>1. EhciInv => EhciTypeOK
  BY InvTyped
<1> QED
  BY <1>1, EhciInvariant, PTL

\* Whatever is retried, reset, refused and pulled out, every buffer the driver takes for
\* transfers and for descriptors is given back but the one of an open handle
\* (USBStorage_Open, unplug_procedure), as long as USB_GetDescriptors has not failed
\* before it took anything and freed what an earlier call had freed (usb.c:155-188).
THEOREM BuffersGivenBack == EhciSpec => []BufferBalance
<1>1. EhciInv => BufferBalance
  BY DEF EhciInv, DriverInv, Ready, Balanced, BufferBalance
<1> QED
  BY <1>1, EhciInvariant, PTL

\* A request begins with a device that the driver agrees with on the address, the
\* configuration and both toggles, or with one that it has taken for lost (__cycle).
THEOREM SessionKept == EhciSpec => []SessionAgrees
<1>1. EhciInv => SessionAgrees
  BY DEF EhciInv, DriverInv, Session, Agrees, OutAgrees, SessionAgrees, Mounted, UsbSet, Ready,
         DevSet, Toggles
<1> QED
  BY <1>1, EhciInvariant, PTL

\* The watchdog of a disk in use is armed or in the queue behind what is worked on.
THEOREM WatchdogStaysArmed == EhciSpec => []WatchdogArmed
<1>1. EhciInv => WatchdogArmed
  BY DEF EhciInv
<1> QED
  BY <1>1, EhciInvariant, PTL

\* Whatever is plugged in, retried and hung, a step writes to a device only if it is of
\* the model that is mounted, and then one is (USBStorage_Open compares descriptors).
THEOREM OnlyTheModelWritten ==
  EhciSpec => [][\A d \in Device : usb'.media[d] # usb.media[d] => Alike(d)]_ehciVars
<1>1. EhciInv /\ [EhciNext]_ehciVars
        => [\A d \in Device : usb'.media[d] # usb.media[d] => Alike(d)]_ehciVars
  BY WritesAlike
<1> QED
  BY <1>1, EhciInvariant, PTL DEF EhciSpec

\* The device that is written to is the one that was mounted, when no other device is of
\* its model: the code has nothing else to tell them apart by.
THEOREM StrangersSpared == Distinct => (EhciSpec => NoStranger)
<1> SUFFICES ASSUME Distinct PROVE EhciSpec => NoStranger
  OBVIOUS
<1>1. EhciInv /\ [EhciNext]_ehciVars
        => [\A d \in Device : usb'.media[d] # usb.media[d] => d = home]_ehciVars
  BY WritesAlike DEF Alike, Distinct
<1> QED
  BY <1>1, EhciInvariant, PTL DEF EhciSpec, NoStranger

\* An answer is true of a device of the model that is mounted: no false success comes
\* from a transfer that went wrong, a reset, or a device that went away (__cycle).  It
\* is not claimed of a request that the device says it has failed, nor of one for more
\* sectors than 16 bits hold (usbstorage.c:1032, 1056, 1365, 1410).
THEOREM AnswersTrueOfTheModel ==
  EhciSpec => [][(\E op \in {"read", "stress", "write"} : Answers(op))
                   => \E d \in Device : Alike(d) /\ TrueOf(d)]_ehciVars
<1>1. EhciInv /\ [EhciNext]_ehciVars
        => [(\E op \in {"read", "stress", "write"} : Answers(op))
              => \E d \in Device : Alike(d) /\ TrueOf(d)]_ehciVars
  BY AnswersTruly
<1> QED
  BY <1>1, EhciInvariant, PTL DEF EhciSpec

\* It is true of the device that was mounted, when no other device is of its model, with
\* the same two exceptions.
THEOREM AnswersTrue == Distinct => (EhciSpec => AnswerIsTrue)
<1> SUFFICES ASSUME Distinct PROVE EhciSpec => AnswerIsTrue
  OBVIOUS
<1> DEFINE A ==
      /\ Answers("read") =>
           answer'.data = Sectors(usb'.media[home], answer'.sector, answer'.n)
      /\ Answers("stress") =>
           answer'.data = Sectors(usb'.media[home], answer'.sector + answer'.n, answer'.n)
      /\ Answers("write") =>
           Sectors(usb'.media[home], answer'.sector, answer'.n)
             = [i \in 1 .. answer'.n |-> answer'.val]
<1>1. ASSUME EhciInv, [EhciNext]_ehciVars
      PROVE  A
  <2>1. CASE \E op \in {"read", "stress", "write"} : Answers(op)
    <3>1. PICK d \in Device : Alike(d) /\ TrueOf(d)
      BY <1>1, <2>1, AnswersTruly
    <3>2. d = home
      BY <3>1 DEF Alike, Distinct
    <3> QED
      BY <3>1, <3>2 DEF TrueOf
  <2>2. CASE ~\E op \in {"read", "stress", "write"} : Answers(op)
    BY <2>2
  <2> QED
    BY <2>1, <2>2
<1>2. EhciInv /\ [EhciNext]_ehciVars => [A]_ehciVars
  BY <1>1
<1> QED
  BY <1>2, EhciInvariant, PTL DEF EhciSpec, AnswerIsTrue

=============================================================================
