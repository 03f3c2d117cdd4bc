---------------------------- MODULE UsbModuleProofs ----------------------------
(***************************************************************************)
(* Theorems about the USB module, for any clients, devices and queue.      *)
(*                                                                         *)
(* QueueHasRoom is about how many messages there can be, MountedBeforeAsked *)
(* about the order they come in.  Both rest on QueueInv, which follows     *)
(* every message through the queue and the thread: of each client there is *)
(* at most one request and one mount, the mount always ahead of the        *)
(* request, and of the kernel at most one message, and only while the      *)
(* module waits for none.  NoDeviceForgotten rests on DevicesInv: a device *)
(* that is at its port and open is still in the table when it is closed,   *)
(* though the kernel has written over the table.                           *)
(***************************************************************************)

EXTENDS UsbModule, FiniteSetTheorems, TLAPS

Busy == work.at # "idle"
Queued(m) == \E i \in 1 .. Len(queue) : queue[i] = m
InWork(m) == Busy /\ work.msg = m
Request(c) == <<"request", c>>
Mount(c) == <<"mount", c>>
KernelMessage == {<<"devchange", None>>, <<"attach", None>>}

\* What the thread works on, and what it knows while it looks for a device.
WorkInv ==
  /\ ~Busy => work = Idle
  /\ Busy => work.msg \in Message
  /\ work.at \in {"next", "lun"} => vid = None
  /\ work.at = "lun" => usbfd # None /\ work.list # <<>>

\* The first entries of the table hold every device that is at its port and
\* anywhere in the table, so clearing the others loses none of them.
DevicesInv ==
  /\ IsFiniteSet(plugged)
  /\ NoDeviceForgotten
  /\ \A i \in 1 .. Len(attached) : attached[i] \in used
  /\ result <= Len(attached)
  /\ \A i \in 1 .. Len(attached) : attached[i] \in plugged =>
        \E j \in 1 .. result : attached[j] = attached[i]
  /\ usbfd # None => usbfd \in used
  /\ usbfd \in plugged => \E i \in 1 .. Len(attached) : attached[i] = usbfd
  /\ vid = None /\ work.at # "lun" => usbfd = None

OneOfEach ==
  \A i, j \in 1 .. Len(queue) : queue[i] = queue[j] => i = j
OneRequest ==
  \A c \in Client : InWork(Request(c)) \/ Queued(Request(c)) => ask[c] # None
RequestAlone ==
  \A c \in Client : InWork(Request(c)) => ~Queued(Request(c)) /\ ~Queued(Mount(c))
MountFirst ==
  \A c \in Client : \A i, j \in 1 .. Len(queue) :
     queue[i] = Request(c) /\ queue[j] = Mount(c) => j < i
DueIsMount == \A c \in due : InWork(Mount(c)) \/ Queued(Mount(c))
OneOfKernel ==
  /\ \A i, j \in 1 .. Len(queue) :
        queue[i] \in KernelMessage /\ queue[j] \in KernelMessage => i = j
  /\ waiting # "none" \/ ~inited => \A m \in KernelMessage : ~InWork(m) /\ ~Queued(m)
  /\ \A m, n \in KernelMessage : InWork(m) => ~Queued(n)
  /\ ~inited => waiting = "none"

QueueInv ==
  OneOfEach /\ OneRequest /\ RequestAlone /\ MountFirst /\ DueIsMount /\ OneOfKernel

UsbInv == TypeOK /\ WorkInv /\ DevicesInv /\ QueueInv /\ QueueHasRoom

-----------------------------------------------------------------------------
(* Lemmas: messages *)

\* A message is a client's request, a mount or the kernel's.
LEMMA MessageKinds ==
  ASSUME NEW m \in Message
  PROVE  \/ \E c \in Client : m = Request(c) /\ m[1] = "request" /\ m[2] = c
         \/ \E c \in Client : m = Mount(c) /\ m[1] = "mount" /\ m[2] = c
         \/ m \in KernelMessage /\ m[1] \in {"devchange", "attach"}
BY DEF Message, Request, Mount, KernelMessage

\* The kinds, and the clients they come from, are told apart.
LEMMA MessagesDiffer ==
  /\ \A c, d : Request(c) = Request(d) => c = d
  /\ \A c, d : Mount(c) = Mount(d) => c = d
  /\ \A c, d : Request(c) # Mount(d)
  /\ \A c : Request(c) \notin KernelMessage /\ Mount(c) \notin KernelMessage
BY DEF Request, Mount, KernelMessage

\* They are messages.
LEMMA MessagesTyped ==
  /\ \A c \in Client : Request(c) \in Message /\ Mount(c) \in Message
  /\ KernelMessage \subseteq Message
BY DEF Request, Mount, KernelMessage, Message

\* What a request, a mount or a message of the kernel leaves when it is done.
LEMMA FinishCases ==
  ASSUME TypeOK, WorkInv, Busy, Finish
  PROVE  /\ work' = Idle
         /\ \/ \E c \in Client : /\ work.msg = Request(c) /\ ask' = [ask EXCEPT ![c] = None]
                                 /\ due' = due
            \/ \E c \in Client : work.msg = Mount(c) /\ ask' = ask /\ due' = due \ {c}
            \/ work.msg \in KernelMessage /\ ask' = ask /\ due' = due
<1>1. work.msg \in Message
  BY DEF WorkInv
<1>2. CASE \E c \in Client : work.msg = Request(c) /\ work.msg[1] = "request" /\ work.msg[2] = c
  BY <1>2 DEF Finish, Sender
<1>3. CASE \E c \in Client : work.msg = Mount(c) /\ work.msg[1] = "mount" /\ work.msg[2] = c
  BY <1>3 DEF Finish, Sender
<1>4. CASE work.msg \in KernelMessage /\ work.msg[1] \in {"devchange", "attach"}
  BY <1>4 DEF Finish
<1> QED
  BY <1>1, <1>2, <1>3, <1>4, MessageKinds DEF Finish

\* The thread without a message.
LEMMA IdleTyped ==
  Idle \in [at : {"idle", "got", "next", "lun", "stuck"}, msg : Message \cup {None},
            list : Seq(Dev)]
BY DEF Idle

\* So done, the thread is idle and the types are kept.
LEMMA FinishKeepsTypes ==
  ASSUME TypeOK, WorkInv, Busy, Finish
  PROVE  /\ work' = Idle /\ ask' \in [Client -> Kind \cup {None}] /\ due' \subseteq due
         /\ work' \in [at : {"idle", "got", "next", "lun", "stuck"}, msg : Message \cup {None},
                       list : Seq(Dev)]
         /\ ~Busy' /\ work'.at = "idle"
<1>1. work' = Idle /\ Idle.at = "idle"
  BY DEF Finish, Idle
<1>2. ask' \in [Client -> Kind \cup {None}] /\ due' \subseteq due
  BY FinishCases DEF TypeOK
<1> QED
  BY <1>1, <1>2, IdleTyped DEF Busy

-----------------------------------------------------------------------------
(* Lemmas: the queue *)

\* A queue with one more message.
LEMMA Appended ==
  ASSUME TypeOK, NEW m \in Message, queue' = Append(queue, m)
  PROVE  /\ queue' \in Seq(Message)
         /\ Len(queue) \in Nat /\ Len(queue') = Len(queue) + 1
         /\ queue'[Len(queue) + 1] = m
         /\ \A i \in 1 .. Len(queue) : queue'[i] = queue[i]
         /\ \A i \in 1 .. Len(queue') : i \in 1 .. Len(queue) \/ i = Len(queue) + 1
         /\ \A n : Queued(n)' <=> Queued(n) \/ n = m
<1>1. /\ queue' \in Seq(Message)
      /\ Len(queue) \in Nat /\ Len(queue') = Len(queue) + 1
      /\ queue'[Len(queue) + 1] = m
      /\ \A i \in 1 .. Len(queue) : queue'[i] = queue[i]
  BY DEF TypeOK
<1>2. \A i \in 1 .. Len(queue') : i \in 1 .. Len(queue) \/ i = Len(queue) + 1
  BY <1>1
<1>3. \A i \in 1 .. Len(queue) : i \in 1 .. Len(queue')
  BY <1>1
<1>4. Len(queue) + 1 \in 1 .. Len(queue')
  BY <1>1
<1> QED
  BY <1>1, <1>2, <1>3, <1>4 DEF Queued

\* A queue without its first message.
LEMMA HeadTaken ==
  ASSUME TypeOK, queue # <<>>, queue' = Tail(queue)
  PROVE  /\ queue' \in Seq(Message)
         /\ Len(queue) \in Nat /\ Len(queue) >= 1 /\ Len(queue') = Len(queue) - 1
         /\ 1 \in 1 .. Len(queue) /\ Head(queue) = queue[1] /\ queue[1] \in Message
         /\ \A i \in 1 .. Len(queue') :
               i + 1 \in 1 .. Len(queue) /\ i + 1 > 1 /\ queue'[i] = queue[i + 1]
         /\ \A n : Queued(n)' => Queued(n)
         /\ \A n : Queued(n) => Queued(n)' \/ queue[1] = n
<1>1. /\ queue' \in Seq(Message)
      /\ Len(queue) \in Nat /\ Len(queue) >= 1 /\ Len(queue') = Len(queue) - 1
      /\ Head(queue) = queue[1]
      /\ \A i \in 1 .. Len(queue') : queue'[i] = queue[i + 1]
  BY DEF TypeOK
<1>2. \A i \in 1 .. Len(queue') : i + 1 \in 1 .. Len(queue) /\ i + 1 > 1
  BY <1>1
<1>3. 1 \in 1 .. Len(queue) /\ queue[1] \in Message
  BY <1>1 DEF TypeOK
<1>4. \A i \in 1 .. Len(queue) : i = 1 \/ (i - 1 \in 1 .. Len(queue') /\ queue'[i - 1] = queue[i])
  BY <1>1
<1>5. \A n : Queued(n)' => Queued(n)
  BY <1>1, <1>2 DEF Queued
<1>6. \A n : Queued(n) => Queued(n)' \/ queue[1] = n
  BY <1>4 DEF Queued
<1> QED
  BY <1>1, <1>2, <1>3, <1>5, <1>6

\* A step that leaves the queue and the thread's message alone.
LEMMA QueueStays ==
  ASSUME QueueInv, UNCHANGED <<queue, ask, due, waiting, inited>>,
         \A m : InWork(m)' <=> InWork(m)
  PROVE  QueueInv'
<1>1. \A m : Queued(m)' <=> Queued(m)
  BY DEF Queued
<1> QED
  BY <1>1 DEF QueueInv, OneOfEach, OneRequest, RequestAlone, MountFirst, DueIsMount,
     OneOfKernel

\* A step that ends the work on a message; one of the kernel lets the module
\* wait for the next.
LEMMA QueueAfterFinish ==
  ASSUME TypeOK, WorkInv, QueueInv, Busy, Finish, UNCHANGED <<queue, inited>>,
         waiting' = waiting \/ work.msg \in KernelMessage
  PROVE  QueueInv'
<1>1. \A m : Queued(m)' <=> Queued(m)
  BY DEF Queued
<1>2. \A m : ~InWork(m)'
  BY FinishKeepsTypes DEF InWork
<1>3. InWork(work.msg)
  BY DEF InWork
<1>4. OneOfEach' /\ RequestAlone' /\ MountFirst'
  BY <1>2 DEF QueueInv, OneOfEach, RequestAlone, MountFirst
<1>5. OneRequest' /\ DueIsMount'
  <2>1. CASE \E c \in Client : /\ work.msg = Request(c) /\ ask' = [ask EXCEPT ![c] = None]
                               /\ due' = due
    <3>1. PICK c \in Client : /\ work.msg = Request(c) /\ ask' = [ask EXCEPT ![c] = None]
                              /\ due' = due
      BY <2>1
    <3>2. ~Queued(Request(c)) /\ \A d \in Client : ask'[d] = IF d = c THEN None ELSE ask[d]
      BY <1>3, <3>1 DEF QueueInv, RequestAlone, TypeOK
    <3>3. OneRequest'
      BY <1>1, <1>2, <3>2 DEF QueueInv, OneRequest
    <3>4. DueIsMount'
      BY <1>1, <3>1, MessagesDiffer DEF QueueInv, DueIsMount, InWork
    <3> QED
      BY <3>3, <3>4
  <2>2. CASE \E c \in Client : work.msg = Mount(c) /\ ask' = ask /\ due' = due \ {c}
    BY <1>1, <1>2, <2>2, MessagesDiffer DEF QueueInv, OneRequest, DueIsMount, InWork
  <2>3. CASE work.msg \in KernelMessage /\ ask' = ask /\ due' = due
    BY <1>1, <1>2, <2>3, MessagesDiffer DEF QueueInv, OneRequest, DueIsMount, InWork, TypeOK
  <2> QED
    BY <2>1, <2>2, <2>3, FinishCases
<1>6. OneOfKernel'
  <2>1. CASE waiting' = waiting
    BY <1>1, <1>2, <2>1 DEF QueueInv, OneOfKernel
  <2>2. CASE work.msg \in KernelMessage
    BY <1>1, <1>2, <1>3, <2>2 DEF QueueInv, OneOfKernel
  <2> QED
    BY <2>1, <2>2
<1> QED
  BY <1>4, <1>5, <1>6 DEF QueueInv

\* The thread takes the first message: what stood behind it still does.
LEMMA QueueAfterReceive ==
  ASSUME TypeOK, QueueInv, Receive
  PROVE  QueueInv'
<1>1. ~Busy /\ queue # <<>> /\ queue' = Tail(queue)
  BY DEF Receive, Busy
<1> PICK m \in Message : m = queue[1]
  BY <1>1, HeadTaken
<1>2. work'.msg = m /\ Busy'
  BY <1>1, HeadTaken DEF Receive, Idle, Busy
<1>3. \A n : InWork(n)' <=> n = m
  BY <1>2 DEF InWork
<1>4. \A n : ~InWork(n)
  BY <1>1 DEF InWork
<1>5. \A i \in 1 .. Len(queue') :
         i + 1 \in 1 .. Len(queue) /\ i + 1 > 1 /\ queue'[i] = queue[i + 1]
  BY <1>1, HeadTaken
<1>6. Queued(m) /\ (\A n : Queued(n)' => Queued(n)) /\ \A n : Queued(n) => Queued(n)' \/ m = n
  BY <1>1, HeadTaken DEF Queued
<1>7. ~Queued(m)'
  <2> SUFFICES ASSUME NEW i \in 1 .. Len(queue'), queue'[i] = m PROVE FALSE
    BY <1>1 DEF Queued, Receive
  <2>1. 1 \in 1 .. Len(queue) /\ i + 1 \in 1 .. Len(queue) /\ queue[i + 1] = queue[1]
    BY <1>1, <1>5, HeadTaken
  <2>2. i + 1 = 1
    BY <2>1 DEF QueueInv, OneOfEach
  <2> QED
    BY <2>2
<1>8. OneOfEach'
  BY <1>1, <1>5, HeadTaken DEF QueueInv, OneOfEach
<1>9. OneRequest'
  BY <1>3, <1>6 DEF QueueInv, OneRequest, Receive
<1>10. RequestAlone'
  <2> SUFFICES ASSUME NEW c \in Client, m = Request(c)
               PROVE  ~Queued(Mount(c))'
    BY <1>3, <1>7 DEF RequestAlone, Request, Mount
  <2> SUFFICES ASSUME NEW j \in 1 .. Len(queue'), queue'[j] = Mount(c)
               PROVE  FALSE
    BY DEF Queued
  <2>1. 1 \in 1 .. Len(queue) /\ j + 1 \in 1 .. Len(queue)
    BY <1>1, <1>5, HeadTaken
  <2>2. queue[1] = Request(c) /\ queue[j + 1] = Mount(c)
    BY <1>5
  <2>3. j + 1 < 1
    BY <2>1, <2>2 DEF QueueInv, MountFirst
  <2> QED
    BY <2>3
<1>11. MountFirst'
  <2> SUFFICES ASSUME NEW c \in Client, NEW i \in 1 .. Len(queue'), NEW j \in 1 .. Len(queue'),
                      queue'[i] = Request(c), queue'[j] = Mount(c)
               PROVE  j < i
    BY DEF MountFirst
  <2>1. i + 1 \in 1 .. Len(queue) /\ j + 1 \in 1 .. Len(queue)
    BY <1>5
  <2>2. queue[i + 1] = Request(c) /\ queue[j + 1] = Mount(c)
    BY <1>5
  <2>3. j + 1 < i + 1
    BY <2>1, <2>2 DEF QueueInv, MountFirst
  <2> QED
    BY <2>3
<1>12. DueIsMount'
  BY <1>3, <1>4, <1>6 DEF QueueInv, DueIsMount, Receive
<1>13. OneOfKernel'
  <2>1. \A i, j \in 1 .. Len(queue') :
           queue'[i] \in KernelMessage /\ queue'[j] \in KernelMessage => i = j
    <3> SUFFICES ASSUME NEW i \in 1 .. Len(queue'), NEW j \in 1 .. Len(queue'),
                        queue'[i] \in KernelMessage, queue'[j] \in KernelMessage
                 PROVE  i = j
      OBVIOUS
    <3>1. i + 1 = j + 1
      BY <1>5 DEF QueueInv, OneOfKernel
    <3> QED
      BY <3>1
  <2>2. \A n, o \in KernelMessage : InWork(n)' => ~Queued(o)'
    <3> SUFFICES ASSUME m \in KernelMessage, NEW o \in KernelMessage,
                        NEW j \in 1 .. Len(queue'), queue'[j] = o
                 PROVE  FALSE
      BY <1>3 DEF Queued
    <3>1. 1 = j + 1
      BY <1>1, <1>5, HeadTaken DEF QueueInv, OneOfKernel
    <3> QED
      BY <1>5, <3>1
  <2>3. waiting' # "none" \/ ~inited' => \A n \in KernelMessage : ~InWork(n)' /\ ~Queued(n)'
    BY <1>3, <1>6 DEF QueueInv, OneOfKernel, Receive, host
  <2>4. ~inited' => waiting' = "none"
    BY DEF QueueInv, OneOfKernel, Receive, host
  <2> QED
    BY <2>1, <2>2, <2>3, <2>4 DEF OneOfKernel
<1> QED
  BY <1>8, <1>9, <1>10, <1>11, <1>12, <1>13 DEF QueueInv

\* A message of the kernel joins the queue: it answers the one request there is.
LEMMA QueueAfterKernel ==
  ASSUME TypeOK, QueueInv, NEW m \in KernelMessage, queue' = Append(queue, m),
         waiting # "none", waiting' = "none", UNCHANGED <<ask, work, inited, due>>
  PROVE  QueueInv'
<1>1. m \in Message
  BY MessagesTyped
<1>2. \A n : InWork(n)' <=> InWork(n)
  BY DEF InWork, Busy
<1>3. \A n : Queued(n)' <=> Queued(n) \/ n = m
  BY <1>1, Appended
<1>4. inited /\ \A n \in KernelMessage : ~InWork(n) /\ ~Queued(n)
  BY DEF QueueInv, OneOfKernel
<1>5. /\ \A i \in 1 .. Len(queue') : i \in 1 .. Len(queue) \/ i = Len(queue) + 1
      /\ \A i \in 1 .. Len(queue) : queue'[i] = queue[i]
      /\ queue'[Len(queue) + 1] = m
  BY <1>1, Appended
<1>6. \A i \in 1 .. Len(queue) : queue[i] \notin KernelMessage
  BY <1>4 DEF Queued
<1>7. OneOfEach'
  BY <1>5, <1>6 DEF QueueInv, OneOfEach
<1>8. OneRequest' /\ RequestAlone' /\ DueIsMount'
  BY <1>2, <1>3, MessagesDiffer DEF QueueInv, OneRequest, RequestAlone, DueIsMount
<1>9. MountFirst'
  BY <1>5, MessagesDiffer DEF QueueInv, MountFirst
<1>10. OneOfKernel'
  BY <1>2, <1>4, <1>5, <1>6 DEF OneOfKernel
<1> QED
  BY <1>7, <1>8, <1>9, <1>10 DEF QueueInv

\* A client's request joins the queue, behind the mount it may have caused.
LEMMA QueueAfterAsk ==
  ASSUME TypeOK, QueueInv, NEW c \in Client, NEW kind \in Kind, Ask(c, kind)
  PROVE  QueueInv'
<1> DEFINE m == Request(c)
<1>1. /\ m \in Message /\ queue' = Append(queue, m)
      /\ UNCHANGED <<work, inited, due, waiting>>
  BY MessagesTyped DEF Ask, Request, host
<1>2. \A n : InWork(n)' <=> InWork(n)
  BY <1>1 DEF InWork, Busy
<1>3. \A n : Queued(n)' <=> Queued(n) \/ n = m
  BY <1>1, Appended
<1>4. ~InWork(m) /\ ~Queued(m)
  BY DEF QueueInv, OneRequest, Ask
<1>5. /\ Len(queue) \in Nat
      /\ \A i \in 1 .. Len(queue') : i \in 1 .. Len(queue) \/ i = Len(queue) + 1
      /\ \A i \in 1 .. Len(queue) : queue'[i] = queue[i]
      /\ queue'[Len(queue) + 1] = m
  BY <1>1, Appended
<1>6. \A i \in 1 .. Len(queue) : queue[i] # m
  BY <1>4 DEF Queued
<1>7. OneOfEach'
  BY <1>5, <1>6 DEF QueueInv, OneOfEach
<1>8. OneRequest'
  <2>1. \A d \in Client : ask'[d] = IF d = c THEN kind ELSE ask[d]
    BY DEF Ask, TypeOK
  <2> QED
    BY <1>2, <1>3, <2>1, MessagesDiffer, UsbModuleAssumption DEF QueueInv, OneRequest
<1>9. RequestAlone' /\ DueIsMount'
  BY <1>1, <1>2, <1>3, <1>4, MessagesDiffer DEF QueueInv, RequestAlone, DueIsMount
<1>10. MountFirst'
  <2> SUFFICES ASSUME NEW d \in Client, NEW i \in 1 .. Len(queue'), NEW j \in 1 .. Len(queue'),
                      queue'[i] = Request(d), queue'[j] = Mount(d)
               PROVE  j < i
    BY DEF MountFirst
  <2>1. j \in 1 .. Len(queue) /\ queue[j] = Mount(d)
    BY <1>5, MessagesDiffer
  <2>2. CASE i \in 1 .. Len(queue)
    BY <1>5, <2>1, <2>2 DEF QueueInv, MountFirst
  <2>3. CASE i = Len(queue) + 1
    BY <1>5, <2>1, <2>3
  <2> QED
    BY <1>5, <2>2, <2>3
<1>11. OneOfKernel'
  BY <1>1, <1>2, <1>3, <1>5, MessagesDiffer DEF QueueInv, OneOfKernel
<1> QED
  BY <1>7, <1>8, <1>9, <1>10, <1>11 DEF QueueInv

\* A mount joins the queue when the request that caused it is done.
LEMMA QueueAfterStartup ==
  ASSUME TypeOK, WorkInv, QueueInv, Got("request"), Startup, work'.at # "stuck"
  PROVE  QueueInv'
<1> PICK c \in Client : work.msg = Request(c) /\ Sender = c /\ Busy
  BY MessageKinds, Zenon DEF Got, WorkInv, Busy, Sender, KernelMessage
<1> DEFINE m == Mount(c)
<1>1. /\ m \in Message /\ queue' = Append(queue, m)
      /\ work' = Idle /\ ask' = [ask EXCEPT ![c] = None] /\ due' = due \cup {c}
  <2>1. [work EXCEPT !.at = "stuck"].at = "stuck"
    BY DEF TypeOK
  <2>2. Len(queue) # QueueSize
    BY <2>1 DEF Startup, SendMount
  <2> QED
    BY <2>2, MessagesTyped DEF Startup, SendMount, Mount
<1>2. /\ \A n : ~InWork(n)'
      /\ InWork(Request(c)) /\ \A n : InWork(n) => n = Request(c)
  BY <1>1 DEF InWork, Busy, Idle
<1>3. \A n : Queued(n)' <=> Queued(n) \/ n = m
  BY <1>1, Appended
<1>4. ~Queued(Request(c)) /\ ~Queued(m)
  BY <1>2 DEF QueueInv, RequestAlone
<1>5. /\ Len(queue) \in Nat
      /\ \A i \in 1 .. Len(queue') : i \in 1 .. Len(queue) \/ i = Len(queue) + 1
      /\ \A i \in 1 .. Len(queue) : queue'[i] = queue[i]
      /\ queue'[Len(queue) + 1] = m
  BY <1>1, Appended
<1>6. \A i \in 1 .. Len(queue) : queue[i] # m /\ queue[i] # Request(c)
  BY <1>4 DEF Queued
<1>7. OneOfEach'
  BY <1>5, <1>6 DEF QueueInv, OneOfEach
<1>8. OneRequest' /\ RequestAlone'
  <2>1. \A d \in Client : ask'[d] = IF d = c THEN None ELSE ask[d]
    BY <1>1 DEF TypeOK
  <2> QED
    BY <1>2, <1>3, <1>4, <2>1, MessagesDiffer DEF QueueInv, OneRequest, RequestAlone
<1>9. DueIsMount'
  BY <1>1, <1>2, <1>3, MessagesDiffer DEF QueueInv, DueIsMount
<1>10. MountFirst'
  <2> SUFFICES ASSUME NEW d \in Client, NEW i \in 1 .. Len(queue'), NEW j \in 1 .. Len(queue'),
                      queue'[i] = Request(d), queue'[j] = Mount(d)
               PROVE  j < i
    BY DEF MountFirst
  <2>1. i \in 1 .. Len(queue) /\ queue[i] = Request(d)
    BY <1>5, MessagesDiffer
  <2>2. CASE j \in 1 .. Len(queue)
    BY <1>5, <2>1, <2>2 DEF QueueInv, MountFirst
  <2>3. CASE j = Len(queue) + 1
    BY <1>5, <1>6, <2>1, <2>3, MessagesDiffer
  <2> QED
    BY <1>5, <2>2, <2>3
<1>11. OneOfKernel'
  <2>1. inited' /\ (~inited => waiting' \in {"change", waiting}) /\ (inited => waiting' = waiting)
    BY DEF Startup
  <2>2. \A n \in KernelMessage : ~InWork(n)' /\ (Queued(n)' <=> Queued(n))
    BY <1>2, <1>3, MessagesDiffer
  <2>3. \A i, j \in 1 .. Len(queue') :
           queue'[i] \in KernelMessage /\ queue'[j] \in KernelMessage => i = j
    BY <1>5, MessagesDiffer DEF QueueInv, OneOfKernel
  <2> QED
    BY <2>1, <2>2, <2>3 DEF QueueInv, OneOfKernel
<1> QED
  BY <1>7, <1>8, <1>9, <1>10, <1>11 DEF QueueInv

\* The two kinds of message of each of some clients, and the kernel's two.
LEMMA MessageCount ==
  ASSUME NEW c \in Client
  PROVE  LET S == ({"request", "mount"} \X (Client \ {c})) \cup KernelMessage
         IN  IsFiniteSet(S) /\ Cardinality(S) \in Nat /\ Cardinality(S) < QueueSize
<1> DEFINE others == Client \ {c}
           clients == {"request", "mount"} \X others
           S == clients \cup KernelMessage
<1>1. /\ IsFiniteSet(others) /\ Cardinality(others) = Cardinality(Client) - 1
      /\ Cardinality(Client) \in Nat /\ Cardinality(others) \in Nat
  BY FS_RemoveElement, FS_CardinalityType, UsbModuleAssumption
<1>2. \A a, b : IsFiniteSet({a, b}) /\ Cardinality({a, b}) \in Nat /\ Cardinality({a, b}) <= 2
  <2> TAKE a, b
  <2>1. IsFiniteSet({a}) /\ Cardinality({a}) = 1
    BY FS_Singleton
  <2>2. {a, b} = {a} \cup {b}
    OBVIOUS
  <2> QED
    BY <2>1, <2>2, FS_AddElement
<1>3. /\ IsFiniteSet({"request", "mount"})
      /\ Cardinality({"request", "mount"}) \in Nat /\ Cardinality({"request", "mount"}) <= 2
      /\ IsFiniteSet(KernelMessage)
      /\ Cardinality(KernelMessage) \in Nat /\ Cardinality(KernelMessage) <= 2
  BY <1>2 DEF KernelMessage
<1>4. /\ IsFiniteSet(clients)
      /\ Cardinality(clients) = Cardinality({"request", "mount"}) * Cardinality(others)
  BY <1>1, <1>3, FS_Product
<1>5. Cardinality(clients) \in Nat /\ Cardinality(clients) <= 2 * Cardinality(others)
  <2>1. \A p, q \in Nat : p <= 2 => p * q \in Nat /\ p * q <= 2 * q
    OBVIOUS
  <2> QED
    BY <1>1, <1>3, <1>4, <2>1
<1>6. /\ IsFiniteSet(S) /\ Cardinality(S) \in Nat
      /\ Cardinality(S) <= Cardinality(clients) + Cardinality(KernelMessage)
  <2>1. Cardinality(clients \cap KernelMessage) \in Nat
    BY <1>3, FS_Intersection, FS_CardinalityType
  <2>2. /\ IsFiniteSet(S)
        /\ Cardinality(S) = Cardinality(clients) + Cardinality(KernelMessage)
                             - Cardinality(clients \cap KernelMessage)
    BY <1>3, <1>4, FS_Union
  <2>3. Cardinality(S) \in Nat
    BY <2>2, FS_CardinalityType
  <2> HIDE DEF S, clients
  <2> QED
    BY <1>3, <1>5, <2>1, <2>2, <2>3
<1> QED
  BY <1>1, <1>3, <1>5, <1>6, UsbModuleAssumption

\* So there is room for the mount that a request causes.
LEMMA RoomForMount ==
  ASSUME TypeOK, QueueInv, NEW c \in Client, InWork(Request(c))
  PROVE  Len(queue) < QueueSize
<1> DEFINE S == ({"request", "mount"} \X (Client \ {c})) \cup KernelMessage
           places == 1 .. Len(queue)
           f == [i \in places |-> queue[i]]
<1>1. Len(queue) \in Nat /\ \A i \in places : queue[i] \in Message
  BY DEF TypeOK
<1>2. \A i \in places : queue[i] # Request(c) /\ queue[i] # Mount(c)
  BY DEF QueueInv, RequestAlone, Queued
<1>3. \A i \in places : queue[i] \in S
  BY <1>1, <1>2 DEF Message, Request, Mount, KernelMessage
<1>4. f \in Injection(places, S)
  BY <1>3 DEF QueueInv, OneOfEach, Injection, IsInjective
<1>5. IsFiniteSet(S) /\ Cardinality(S) \in Nat /\ Cardinality(S) < QueueSize
  BY MessageCount
<1>6. Cardinality(places) <= Cardinality(S)
  BY <1>4, <1>5, FS_Injection
<1>7. Cardinality(places) = Len(queue)
  <2>1. Cardinality(places) = IF 1 > Len(queue) THEN 0 ELSE Len(queue) - 1 + 1
    BY SMTT(30), <1>1, FS_Interval
  <2> HIDE DEF places
  <2> QED
    BY <1>1, <2>1
<1> QED
  BY <1>1, <1>5, <1>6, <1>7, UsbModuleAssumption

-----------------------------------------------------------------------------
(* Lemmas: the table of devices *)

\* A function on the first m numbers is a sequence of m elements.
LEMMA FunctionIsSequence ==
  ASSUME NEW S, NEW m \in Nat, NEW g \in [1 .. m -> S]
  PROVE  g \in Seq(S) /\ Len(g) = m
OBVIOUS

\* What the kernel answers: a list of the devices, and what was behind it.
LEMMA ListingOverwrites ==
  ASSUME TypeOK, IsFiniteSet(plugged), NEW list \in Listings(plugged)
  PROVE  LET new == Overwrite(list, attached)
         IN  /\ new \in Seq(Dev) /\ Len(list) \in Nat
             /\ Len(new) \in Nat /\ Len(list) <= Len(new)
             /\ \A i \in 1 .. Len(list) : new[i] \in plugged
             /\ \A d \in plugged : \E i \in 1 .. Len(list) : new[i] = d
             /\ \A i \in 1 .. Len(new) : new[i] \in plugged \/
                  \E j \in 1 .. Len(attached) : new[i] = attached[j]
<1> DEFINE n == IF Len(list) > Len(attached) THEN Len(list) ELSE Len(attached)
           new == Overwrite(list, attached)
<1>1. Cardinality(plugged) \in Nat
  BY FS_CardinalityType
<1>2. /\ list \in [1 .. Cardinality(plugged) -> plugged]
      /\ \A d \in plugged : \E i \in 1 .. Cardinality(plugged) : list[i] = d
  BY DEF Listings, Range
<1>3. list \in Seq(Dev) /\ Len(list) = Cardinality(plugged)
  <2>1. list \in Seq(plugged) /\ Len(list) = Cardinality(plugged)
    BY <1>1, <1>2, FunctionIsSequence
  <2> QED
    BY <2>1 DEF TypeOK
<1>4. attached \in Seq(Dev) /\ Len(attached) \in Nat
  BY DEF TypeOK
<1>5. n \in Nat /\ n >= Len(list) /\ (n = Len(list) \/ n = Len(attached)) /\ n >= Len(attached)
  BY <1>1, <1>3, <1>4
<1>6. \A i \in 1 .. n : ~(i <= Len(list)) => i \in 1 .. Len(attached)
  BY <1>1, <1>3, <1>4, <1>5
<1>7. new = [i \in 1 .. n |-> IF i <= Len(list) THEN list[i] ELSE attached[i]]
  BY DEF Overwrite
<1>8. \A i \in 1 .. n : (IF i <= Len(list) THEN list[i] ELSE attached[i]) \in Dev
  BY <1>1, <1>2, <1>3, <1>4, <1>6 DEF TypeOK
<1>9. new \in Seq(Dev) /\ Len(new) = n
  <2>1. n \in Nat /\ new \in [1 .. n -> Dev]
    BY <1>5, <1>7, <1>8
  <2> QED
    BY <2>1, FunctionIsSequence
<1>10. \A i \in 1 .. Len(list) : new[i] = list[i]
  BY <1>1, <1>3, <1>5, <1>7
<1>11. \A i \in 1 .. n : i \in 1 .. Len(list) \/ (i \in 1 .. Len(attached) /\ new[i] = attached[i])
  BY <1>1, <1>3, <1>6, <1>7
<1> HIDE DEF new
<1>12. QED
  BY <1>1, <1>2, <1>3, <1>5, <1>9, <1>10, <1>11 DEF new

\* A step that leaves the devices, their table and the handle alone.
LEMMA DevicesStay ==
  ASSUME DevicesInv, UNCHANGED <<plugged, used, power, attached, result, usbfd>>,
         vid' # None \/ (vid' = vid /\ (work.at = "lun" => work'.at = "lun"))
  PROVE  DevicesInv'
BY DEF DevicesInv, NoDeviceForgotten, power

\* Closing the handle: the device is in the table, or is not at its port; it is
\* asleep after that, or the kernel refused.
LEMMA DevicesClosed ==
  ASSUME TypeOK, DevicesInv, Close, UNCHANGED <<plugged, used, attached, result>>
  PROVE  /\ DevicesInv' /\ usbfd' = None
         /\ awake' \subseteq plugged' /\ forsaken' \subseteq awake'
<1>1. awake' \subseteq forsaken' /\ awake' \subseteq plugged' /\ forsaken' \subseteq awake'
  <2>1. CASE usbfd = None
    BY <2>1, UsbModuleAssumption
       DEF Close, power, DevicesInv, NoDeviceForgotten, TypeOK
  <2>2. CASE usbfd # None /\ Listed(usbfd)
    BY <2>2 DEF Close, Suspend, Reachable, DevicesInv, NoDeviceForgotten, TypeOK
  <2>3. CASE usbfd # None /\ ~Listed(usbfd)
    <3>1. usbfd \notin plugged
      BY <2>3 DEF DevicesInv, Listed, Range, TypeOK
    <3> QED
      BY <2>3, <3>1 DEF Close, power, DevicesInv, NoDeviceForgotten, TypeOK
  <2> QED
    BY <2>1, <2>2, <2>3
<1>2. usbfd' = None /\ None \notin plugged
  BY UsbModuleAssumption DEF Close, TypeOK
<1> QED
  BY <1>1, <1>2 DEF DevicesInv, NoDeviceForgotten

\* The entries behind the kernel's are cleared: the first ones say it all.
LEMMA DevicesAfterForget ==
  ASSUME TypeOK, DevicesInv, attached' = SubSeq(attached, 1, result),
         UNCHANGED <<plugged, used, power, result, usbfd, vid>>,
         work.at = "lun" => work'.at = "lun"
  PROVE  DevicesInv' /\ attached' \in Seq(Dev)
<1>1. /\ attached' \in Seq(Dev) /\ Len(attached') = result
      /\ result \in Nat /\ Len(attached) \in Nat /\ result <= Len(attached)
      /\ \A i \in 1 .. result : i \in 1 .. Len(attached) /\ attached'[i] = attached[i]
  BY DEF TypeOK, DevicesInv
<1>2. NoDeviceForgotten'
  BY DEF DevicesInv, NoDeviceForgotten, power
<1>3. /\ \A i \in 1 .. Len(attached') : attached'[i] \in used
      /\ \A i \in 1 .. Len(attached') : attached'[i] \in plugged =>
           \E j \in 1 .. result : attached'[j] = attached'[i]
      /\ usbfd \in plugged => \E i \in 1 .. Len(attached') : attached'[i] = usbfd
  BY <1>1 DEF DevicesInv
<1> QED
  BY <1>1, <1>2, <1>3 DEF DevicesInv

-----------------------------------------------------------------------------
(* The invariant: one lemma per action, and what every answer keeps *)

\* At boot there is no device, no message and no handle.
THEOREM InitUsbInv == Init => UsbInv
<1> SUFFICES ASSUME Init PROVE UsbInv
  OBVIOUS
<1>1. TypeOK
  <2>1. queue \in Seq(Message) /\ attached \in Seq(Dev)
    BY DEF Init
  <2>2. ask \in [Client -> Kind \cup {None}]
    BY DEF Init
  <2> QED
    BY <2>1, <2>2, IdleTyped DEF Init, TypeOK
<1>2. WorkInv /\ QueueHasRoom /\ ~Busy
  BY DEF Init, WorkInv, QueueHasRoom, Busy, Idle
<1>3. DevicesInv
  BY FS_EmptySet DEF Init, DevicesInv, NoDeviceForgotten
<1>4. \A m : ~Queued(m) /\ ~InWork(m)
  BY <1>2 DEF Init, Queued, InWork
<1>5. QueueInv
  BY <1>4 DEF Init, QueueInv, OneOfEach, OneRequest, RequestAlone, MountFirst, DueIsMount,
     OneOfKernel
<1> QED
  BY <1>1, <1>2, <1>3, <1>5 DEF UsbInv

\* A new device has a new id, which nothing refers to yet.
LEMMA PlugKeeps ==
  ASSUME UsbInv, NEW d \in Dev, Plug(d)
  PROVE  UsbInv'
<1>1. TypeOK'
  BY DEF UsbInv, TypeOK, Plug, host, wbfs, power
<1>2. WorkInv' /\ QueueHasRoom'
  BY DEF UsbInv, WorkInv, QueueHasRoom, Busy, Plug
<1>3. DevicesInv'
  <2>1. IsFiniteSet(plugged')
    BY FS_AddElement DEF UsbInv, DevicesInv, Plug
  <2> QED
    BY <2>1, UsbModuleAssumption DEF UsbInv, DevicesInv, NoDeviceForgotten, Plug, host, power
<1>4. QueueInv'
  BY QueueStays DEF UsbInv, Plug, host, InWork, Busy
<1> QED
  BY <1>1, <1>2, <1>3, <1>4 DEF UsbInv

\* A device that is pulled out needs no sleep.
LEMMA UnplugKeeps ==
  ASSUME UsbInv, NEW d \in Dev, Unplug(d)
  PROVE  UsbInv'
<1>1. TypeOK'
  BY DEF UsbInv, TypeOK, Unplug, host, wbfs
<1>2. WorkInv' /\ QueueHasRoom'
  BY DEF UsbInv, WorkInv, QueueHasRoom, Busy, Unplug
<1>3. DevicesInv'
  <2>1. IsFiniteSet(plugged')
    BY FS_RemoveElement DEF UsbInv, DevicesInv, Unplug
  <2> QED
    BY <2>1 DEF UsbInv, DevicesInv, NoDeviceForgotten, Unplug, host
<1>4. QueueInv'
  BY QueueStays DEF UsbInv, Unplug, host, InWork, Busy
<1> QED
  BY <1>1, <1>2, <1>3, <1>4 DEF UsbInv

\* The kernel's list holds every device at its port, the open one among them.
LEMMA KernelChangeKeeps ==
  ASSUME UsbInv, KernelChange
  PROVE  UsbInv'
<1> DEFINE m == <<"devchange", None>>
<1> PICK list \in Listings(plugged) :
      attached' = Overwrite(list, attached) /\ result' = Len(list)
  BY DEF KernelChange
<1>1. /\ attached' \in Seq(Dev) /\ result' \in Nat
      /\ Len(attached') \in Nat /\ result' <= Len(attached')
      /\ \A i \in 1 .. result' : attached'[i] \in plugged
      /\ \A d \in plugged : \E i \in 1 .. result' : attached'[i] = d
      /\ \A i \in 1 .. Len(attached') : attached'[i] \in plugged \/
           \E j \in 1 .. Len(attached) : attached'[i] = attached[j]
  BY ListingOverwrites DEF UsbInv, DevicesInv
<1>2. m \in KernelMessage /\ m \in Message /\ queue' = Append(queue, m)
  BY MessagesTyped DEF KernelChange, KernelMessage
<1>3. TypeOK'
  BY ZenonT(90), <1>1, <1>2, Appended DEF UsbInv, TypeOK, KernelChange, wbfs, power
<1>4. WorkInv' /\ QueueHasRoom'
  BY DEF UsbInv, WorkInv, QueueHasRoom, Busy, KernelChange
<1>5. DevicesInv'
  <2>1. \A i \in 1 .. Len(attached') : attached'[i] \in used
    BY <1>1 DEF UsbInv, DevicesInv, TypeOK
  <2>2. \A i \in 1 .. result' : i \in 1 .. Len(attached')
    BY <1>1
  <2>3. UNCHANGED <<plugged, used, power, usbfd, vid, work>>
    BY DEF KernelChange
  <2> QED
    BY <1>1, <2>1, <2>2, <2>3 DEF UsbInv, DevicesInv, NoDeviceForgotten, power
<1>6. QueueInv'
  BY <1>2, QueueAfterKernel DEF UsbInv, KernelChange
<1> QED
  BY <1>3, <1>4, <1>5, <1>6 DEF UsbInv

\* The other answers of the kernel leave the table alone.
LEMMA KernelAnswerKeeps ==
  ASSUME UsbInv, KernelFinish \/ KernelRefuses
  PROVE  UsbInv'
<1> PICK m \in KernelMessage : queue' = Append(queue, m)
  BY DEF KernelFinish, KernelRefuses, KernelMessage
<1>1. /\ waiting # "none" /\ waiting' = "none" /\ refused' \in BOOLEAN
      /\ UNCHANGED <<kernel, power, attached, result, ask, work, inited, mounted, vid, usbfd,
                     wbfs, due>>
  BY DEF KernelFinish, KernelRefuses, UsbInv, TypeOK
<1>2. m \in Message
  BY MessagesTyped
<1>3. TypeOK'
  BY <1>1, <1>2, Appended DEF UsbInv, TypeOK, kernel, wbfs, power
<1>4. WorkInv' /\ QueueHasRoom'
  BY <1>1 DEF UsbInv, WorkInv, QueueHasRoom, Busy
<1>5. DevicesInv'
  BY <1>1, DevicesStay DEF UsbInv, kernel
<1>6. QueueInv'
  BY <1>1, QueueAfterKernel DEF UsbInv
<1> QED
  BY <1>3, <1>4, <1>5, <1>6 DEF UsbInv

\* A client asks.
LEMMA AskKeeps ==
  ASSUME UsbInv, NEW c \in Client, NEW kind \in Kind, Ask(c, kind)
  PROVE  UsbInv'
<1>1. Request(c) \in Message /\ queue' = Append(queue, Request(c))
  BY MessagesTyped DEF Ask, Request
<1>2. TypeOK'
  <2>1. queue' \in Seq(Message) /\ ask' \in [Client -> Kind \cup {None}]
    BY <1>1, Appended DEF UsbInv, TypeOK, Ask
  <2> QED
    BY <2>1 DEF UsbInv, TypeOK, Ask, kernel, host, wbfs, power
<1>3. WorkInv' /\ QueueHasRoom'
  BY DEF UsbInv, WorkInv, QueueHasRoom, Busy, Ask
<1>4. DevicesInv'
  BY DevicesStay DEF UsbInv, Ask, kernel, host
<1>5. QueueInv'
  BY QueueAfterAsk DEF UsbInv
<1> QED
  BY <1>2, <1>3, <1>4, <1>5 DEF UsbInv

\* The thread takes a message.
LEMMA ReceiveKeeps ==
  ASSUME UsbInv, Receive
  PROVE  UsbInv'
<1>1. /\ queue # <<>> /\ queue' = Tail(queue) /\ Head(queue) \in Message
      /\ work' = [Idle EXCEPT !.at = "got", !.msg = Head(queue)]
  BY HeadTaken DEF Receive, UsbInv
<1>2. TypeOK'
  <2>1. queue' \in Seq(Message)
    BY <1>1, HeadTaken DEF UsbInv
  <2>2. work' \in [at : {"idle", "got", "next", "lun", "stuck"}, msg : Message \cup {None},
                   list : Seq(Dev)]
    BY <1>1, IdleTyped
  <2> QED
    BY <2>1, <2>2 DEF UsbInv, TypeOK, Receive, kernel, host, wbfs, power
<1>3. WorkInv' /\ QueueHasRoom' /\ work'.at = "got"
  BY <1>1 DEF WorkInv, QueueHasRoom, Busy, Idle
<1>4. work.at # "lun"
  BY DEF Receive
<1>5. DevicesInv'
  BY <1>4, DevicesStay DEF UsbInv, Receive, kernel, host
<1>6. QueueInv'
  BY QueueAfterReceive DEF UsbInv
<1> QED
  BY <1>2, <1>3, <1>5, <1>6 DEF UsbInv

\* What ends with Finish keeps what is not about the devices.
LEMMA FinishKeeps ==
  ASSUME UsbInv, Busy, Finish, UNCHANGED <<queue, inited>>,
         waiting' = waiting \/ work.msg \in KernelMessage
  PROVE  /\ WorkInv' /\ QueueInv' /\ QueueHasRoom' /\ work'.at = "idle"
         /\ ask' \in [Client -> Kind \cup {None}] /\ due' \subseteq Client
         /\ work' \in [at : {"idle", "got", "next", "lun", "stuck"}, msg : Message \cup {None},
                       list : Seq(Dev)]
<1>1. QueueInv'
  BY QueueAfterFinish DEF UsbInv
<1>2. /\ work' = Idle /\ ask' \in [Client -> Kind \cup {None}] /\ due' \subseteq Client
      /\ ~Busy' /\ work'.at = "idle"
      /\ work' \in [at : {"idle", "got", "next", "lun", "stuck"}, msg : Message \cup {None},
                    list : Seq(Dev)]
  BY FinishKeepsTypes DEF UsbInv, TypeOK
<1> QED
  BY <1>1, <1>2 DEF WorkInv, QueueHasRoom

\* A request that starts the stack sends the mount: there is room for it.
LEMMA StartupKeeps ==
  ASSUME UsbInv, Requested({"init", "opendisc"}), Startup
  PROVE  /\ WorkInv' /\ QueueInv' /\ QueueHasRoom' /\ work'.at = "idle"
         /\ ask' \in [Client -> Kind \cup {None}] /\ due' \subseteq Client
         /\ queue' \in Seq(Message) /\ inited' \in BOOLEAN /\ refused' \in BOOLEAN
         /\ waiting' \in {"none", "change", "finish"}
         /\ work' \in [at : {"idle", "got", "next", "lun", "stuck"}, msg : Message \cup {None},
                       list : Seq(Dev)]
<1>1. Got("request") /\ Busy /\ work.msg \in Message
  BY DEF UsbInv, WorkInv, Requested, Got, Busy
<1> PICK c \in Client : work.msg = Request(c) /\ work.msg[2] = c
  BY <1>1, MessageKinds, Zenon DEF Got
<1>2. Len(queue) < QueueSize /\ Len(queue) \in Nat
  BY <1>1, RoomForMount DEF UsbInv, InWork, TypeOK
<1>3. /\ work' = Idle /\ ask' = [ask EXCEPT ![c] = None] /\ due' = due \cup {c}
      /\ queue' = Append(queue, Mount(c))
  BY <1>2, UsbModuleAssumption DEF Startup, SendMount, Sender, Mount
<1>4. work'.at = "idle"
  BY <1>3 DEF Idle
<1>5. QueueInv'
  BY <1>1, <1>4, QueueAfterStartup DEF UsbInv
<1>6. queue' \in Seq(Message)
  BY <1>3, Appended, MessagesTyped DEF UsbInv
<1>7. ask' \in [Client -> Kind \cup {None}] /\ due' \subseteq Client
  BY <1>3 DEF UsbInv, TypeOK
<1>8. /\ waiting' \in {"none", "change", "finish"}
      /\ inited' \in BOOLEAN /\ refused' \in BOOLEAN
  BY DEF UsbInv, TypeOK, Startup
<1>9. WorkInv' /\ QueueHasRoom'
  BY <1>3, <1>4 DEF WorkInv, QueueHasRoom, Busy
<1> QED
  BY <1>3, <1>4, <1>5, <1>6, <1>7, <1>8, <1>9, IdleTyped

\* INIT, and the open of the disc, with what it does to the partition.
LEMMA HandleInitKeeps ==
  ASSUME UsbInv, HandleInit \/ HandleOpenDisc
  PROVE  UsbInv'
<1>1. /\ Requested({"init", "opendisc"}) /\ Startup
      /\ UNCHANGED <<kernel, power, attached, result, mounted, vid, usbfd>>
  BY DEF HandleInit, HandleOpenDisc, Requested
<1>2. hdd' \in BOOLEAN /\ disc' \in {"none", "open", "freed"}
  BY DEF HandleInit, HandleOpenDisc, Reopened, wbfs, UsbInv, TypeOK
<1>3. TypeOK'
  BY <1>1, <1>2, StartupKeeps DEF UsbInv, TypeOK, kernel, power
<1>4. work.at # "lun"
  BY <1>1 DEF Requested, Got
<1>5. DevicesInv'
  BY <1>1, <1>4, DevicesStay DEF UsbInv, kernel
<1> QED
  BY <1>1, <1>3, <1>5, StartupKeeps DEF UsbInv

\* A request that changes nothing, or that finds no stack.
LEMMA HandleIoKeeps ==
  ASSUME UsbInv, HandleIo \/ InitFails
  PROVE  UsbInv'
<1>1. /\ work.at = "got" /\ Busy /\ Finish
      /\ UNCHANGED <<kernel, power, host, queue, inited, mounted, vid, usbfd, wbfs>>
  BY DEF HandleIo, InitFails, Requested, Got, Busy
<1>2. TypeOK'
  BY <1>1, FinishKeeps DEF UsbInv, TypeOK, kernel, host, wbfs, power
<1>3. DevicesInv'
  BY <1>1, DevicesStay DEF UsbInv, kernel, host
<1> QED
  BY <1>1, <1>2, <1>3, FinishKeeps DEF UsbInv, host

\* The handle is closed, whatever is mounted.
LEMMA HandleUnmountKeeps ==
  ASSUME UsbInv, HandleUnmount
  PROVE  UsbInv'
<1>1. /\ work.at = "got" /\ Busy /\ Finish
      /\ UNCHANGED <<kernel, host, queue, inited, mounted, vid, wbfs>>
      /\ Close \/ UNCHANGED <<power, usbfd>>
  BY DEF HandleUnmount, Requested, Got, Busy
<1>2. /\ DevicesInv' /\ usbfd' \in Dev \cup {None}
      /\ awake' \subseteq plugged' /\ forsaken' \subseteq awake'
  <2>1. CASE Close
    BY <1>1, <2>1, DevicesClosed DEF UsbInv, kernel, host
  <2>2. CASE UNCHANGED <<power, usbfd>>
    BY <1>1, <2>2, DevicesStay DEF UsbInv, TypeOK, kernel, host, power
  <2> QED
    BY <1>1, <2>1, <2>2
<1>3. TypeOK'
  BY <1>1, <1>2, FinishKeeps DEF UsbInv, TypeOK, kernel, host, wbfs
<1> QED
  BY <1>1, <1>2, <1>3, FinishKeeps DEF UsbInv, host

\* The table is cleared behind the kernel's entries, and the kernel told.
LEMMA HandleDevChangeKeeps ==
  ASSUME UsbInv, HandleDevChange
  PROVE  UsbInv'
<1>1. /\ Got("devchange") /\ Busy /\ Finish
      /\ UNCHANGED <<kernel, power, result, refused, queue, inited, mounted, vid, usbfd, wbfs>>
      /\ \/ UNCHANGED <<attached, waiting>>
         \/ attached' = SubSeq(attached, 1, result) /\ waiting' = "finish"
  BY DEF HandleDevChange, DeviceChange, Forget, Got, Busy
<1>2. work.msg \in KernelMessage
  BY <1>1, MessageKinds, Zenon DEF Got, UsbInv, WorkInv
<1>3. DevicesInv' /\ attached' \in Seq(Dev) /\ waiting' \in {"none", "change", "finish"}
  <2>1. CASE UNCHANGED <<attached, waiting>>
    BY <1>1, <2>1, DevicesStay DEF UsbInv, TypeOK, kernel, Got
  <2>2. CASE attached' = SubSeq(attached, 1, result) /\ waiting' = "finish"
    BY <1>1, <2>2, DevicesAfterForget DEF UsbInv, kernel, Got
  <2> QED
    BY <1>1, <2>1, <2>2
<1>4. TypeOK'
  BY <1>1, <1>2, <1>3, FinishKeeps DEF UsbInv, TypeOK, kernel, wbfs, power
<1> QED
  BY <1>1, <1>2, <1>3, <1>4, FinishKeeps DEF UsbInv

\* The module waits for the next change.
LEMMA HandleAttachKeeps ==
  ASSUME UsbInv, HandleAttach
  PROVE  UsbInv'
<1>1. /\ Got("attach") /\ Busy /\ Finish
      /\ UNCHANGED <<kernel, power, attached, result, refused, queue, inited, mounted, vid,
                     usbfd, wbfs>>
      /\ waiting' \in {waiting, "change"}
  BY DEF HandleAttach, Got, Busy
<1>2. work.msg \in KernelMessage
  BY <1>1, MessageKinds, Zenon DEF Got, UsbInv, WorkInv
<1>3. TypeOK'
  BY <1>1, <1>2, FinishKeeps DEF UsbInv, TypeOK, kernel, wbfs, power
<1>4. DevicesInv'
  BY <1>1, DevicesStay DEF UsbInv, kernel, Got
<1> QED
  BY <1>1, <1>2, <1>3, <1>4, FinishKeeps DEF UsbInv

\* Nothing was found: the handle is closed, and nothing is mounted.
LEMMA NothingMountedKeeps ==
  ASSUME UsbInv, Busy, NothingMounted, UNCHANGED <<kernel, host, inited, wbfs>>
  PROVE  UsbInv'
<1>1. /\ Finish /\ queue' = queue /\ mounted' \in BOOLEAN /\ vid' = None
      /\ DevicesInv' /\ usbfd' = None
      /\ awake' \subseteq plugged' /\ forsaken' \subseteq awake'
  BY DevicesClosed DEF NothingMounted, UsbInv, kernel, host
<1>2. TypeOK'
  BY <1>1, FinishKeeps DEF UsbInv, TypeOK, kernel, host, wbfs
<1> QED
  BY <1>1, <1>2, FinishKeeps DEF UsbInv, host

\* A mount, or a client that asks whether one is there.
LEMMA IsInsertedKeeps ==
  ASSUME UsbInv, IsInserted
  PROVE  UsbInv'
<1>1. work.at = "got" /\ Busy /\ UNCHANGED <<kernel, host, inited, wbfs>>
  BY DEF IsInserted, Requested, Got, Busy
<1>2. CASE Finish /\ UNCHANGED <<queue, power, vid, usbfd>> /\ mounted' \in BOOLEAN
  <2>1. TypeOK'
    BY <1>1, <1>2, FinishKeeps DEF UsbInv, TypeOK, kernel, host, wbfs, power
  <2>2. DevicesInv'
    BY <1>1, <1>2, DevicesStay DEF UsbInv, kernel, host
  <2> QED
    BY <1>1, <1>2, <2>1, <2>2, FinishKeeps DEF UsbInv, host
<1>3. CASE /\ vid = None /\ mounted' = FALSE
           /\ work' = [work EXCEPT !.at = "next", !.list = attached]
           /\ UNCHANGED <<queue, ask, due, power, vid, usbfd>>
  <2>1. /\ work'.at = "next" /\ work'.msg = work.msg
        /\ work' \in [at : {"idle", "got", "next", "lun", "stuck"}, msg : Message \cup {None},
                      list : Seq(Dev)]
    BY <1>3 DEF UsbInv, TypeOK
  <2>2. TypeOK'
    BY <1>1, <1>3, <2>1 DEF UsbInv, TypeOK, kernel, host, wbfs, power
  <2>3. WorkInv' /\ QueueHasRoom'
    BY <1>1, <1>3, <2>1 DEF UsbInv, WorkInv, QueueHasRoom, Busy
  <2>4. DevicesInv'
    BY <1>1, <1>3, DevicesStay DEF UsbInv, kernel, host
  <2>5. QueueInv'
    BY <1>1, <1>3, <2>1, QueueStays DEF UsbInv, host, InWork, Busy
  <2> QED
    BY <2>2, <2>3, <2>4, <2>5 DEF UsbInv
<1>4. CASE NothingMounted
  BY <1>1, <1>4, NothingMountedKeeps
<1>5. \/ Finish /\ UNCHANGED <<queue, power, vid, usbfd>> /\ mounted' \in BOOLEAN
      \/ /\ vid = None /\ mounted' = FALSE
         /\ work' = [work EXCEPT !.at = "next", !.list = attached]
         /\ UNCHANGED <<queue, ask, due, power, vid, usbfd>>
      \/ NothingMounted
  BY DEF IsInserted, UsbInv, TypeOK
<1> QED
  BY <1>2, <1>3, <1>4, <1>5

\* A device is opened, which the thread had none of, or the next is looked at.
LEMMA OpenNextKeeps ==
  ASSUME UsbInv, OpenNext
  PROVE  UsbInv'
<1> PICK d \in Dev : d = Head(work.list)
  BY DEF OpenNext, UsbInv, TypeOK
<1>1. /\ work.at = "next" /\ Busy /\ vid = None /\ usbfd = None
      /\ awake \subseteq forsaken
      /\ UNCHANGED <<kernel, host, queue, ask, inited, mounted, vid, wbfs, due>>
      /\ d # None
  BY UsbModuleAssumption DEF OpenNext, Busy, UsbInv, WorkInv, DevicesInv, NoDeviceForgotten,
     TypeOK
<1>2. /\ work'.at \in {"next", "lun"} /\ work'.msg = work.msg
      /\ work' \in [at : {"idle", "got", "next", "lun", "stuck"}, msg : Message \cup {None},
                    list : Seq(Dev)]
      /\ work'.at = "lun" => work'.list # <<>>
  <2>1. /\ work.list \in Seq(Dev) /\ work.list # <<>> /\ Tail(work.list) \in Seq(Dev)
    BY DEF OpenNext, UsbInv, TypeOK
  <2>2. \/ work' = [work EXCEPT !.at = "lun"]
        \/ work' = [work EXCEPT !.list = Tail(work.list)]
    BY DEF OpenNext, UsbInv, TypeOK
  <2> QED
    BY <1>1, <2>1, <2>2 DEF UsbInv, TypeOK
<1>3. \/ CanOpen(d) /\ usbfd' = d /\ Resume(d) /\ work'.at = "lun"
      \/ CanOpen(d) /\ usbfd' = usbfd /\ Suspend(d) /\ work'.at = "next"
      \/ UNCHANGED <<usbfd, power>> /\ work'.at = "next"
  BY <1>1 DEF OpenNext, UsbInv, TypeOK
<1>4. WorkInv' /\ QueueHasRoom'
  BY <1>1, <1>2, <1>3 DEF UsbInv, WorkInv, QueueHasRoom, Busy
<1>5. /\ DevicesInv' /\ usbfd' \in Dev \cup {None}
      /\ awake' \subseteq plugged /\ forsaken' \subseteq awake'
  <2>1. CASE CanOpen(d) /\ usbfd' = d /\ Resume(d) /\ work'.at = "lun"
    <3>1. d \in plugged /\ \E i \in 1 .. Len(attached) : attached[i] = d
      <4>1. d \in plugged /\ d \in {attached[i] : i \in DOMAIN attached}
        BY <2>1 DEF CanOpen, Reachable, Listed, Range
      <4>2. DOMAIN attached = 1 .. Len(attached)
        BY DEF UsbInv, TypeOK
      <4> QED
        BY <4>1, <4>2
    <3>2. /\ awake' \subseteq {d} \cup forsaken'
          /\ awake' \subseteq plugged /\ forsaken' \subseteq awake'
      BY <1>1, <2>1, <3>1 DEF Resume, UsbInv, TypeOK
    <3> QED
      BY <1>1, <2>1, <3>1, <3>2 DEF UsbInv, TypeOK, DevicesInv, NoDeviceForgotten, kernel, host
  <2>2. CASE CanOpen(d) /\ usbfd' = usbfd /\ Suspend(d) /\ work'.at = "next"
    <3>1. awake' \subseteq forsaken' /\ awake' \subseteq plugged /\ forsaken' \subseteq awake'
      BY <1>1, <2>2 DEF Suspend, CanOpen, Reachable, UsbInv, TypeOK
    <3> QED
      BY <1>1, <2>2, <3>1 DEF UsbInv, TypeOK, DevicesInv, NoDeviceForgotten, kernel, host
  <2>3. CASE UNCHANGED <<usbfd, power>> /\ work'.at = "next"
    BY <1>1, <2>3, DevicesStay DEF UsbInv, TypeOK, kernel, host, power
  <2> QED
    BY <1>3, <2>1, <2>2, <2>3
<1>6. TypeOK'
  BY <1>1, <1>2, <1>5 DEF UsbInv, TypeOK, kernel, host, wbfs
<1>7. QueueInv'
  BY <1>1, <1>2, QueueStays DEF UsbInv, host, InWork, Busy
<1> QED
  BY <1>4, <1>5, <1>6, <1>7 DEF UsbInv

\* A unit answers: its device is the one that is open.
LEMMA MountLunKeeps ==
  ASSUME UsbInv, MountLun
  PROVE  UsbInv'
<1>1. /\ Busy /\ Finish /\ mounted' = TRUE
      /\ usbfd # None /\ vid' = ModelOf[usbfd]
      /\ UNCHANGED <<kernel, power, host, queue, inited, usbfd, wbfs>>
  BY DEF MountLun, Command, Busy
<1>2. vid' \in Model /\ vid' # None
  BY <1>1, UsbModuleAssumption DEF UsbInv, TypeOK, Model
<1>3. TypeOK'
  BY <1>1, <1>2, FinishKeeps DEF UsbInv, TypeOK, kernel, host, wbfs, power
<1>4. DevicesInv'
  BY <1>1, <1>2, DevicesStay DEF UsbInv, kernel, host
<1> QED
  BY <1>1, <1>3, <1>4, FinishKeeps DEF UsbInv, host

\* No unit answers: the device is closed, and the next one is looked at.
LEMMA NoLunKeeps ==
  ASSUME UsbInv, NoLun
  PROVE  UsbInv'
<1>1. /\ Busy /\ Close /\ vid = None
      /\ UNCHANGED <<kernel, host, queue, ask, inited, mounted, vid, wbfs, due>>
  BY DEF NoLun, NextDevice, Busy, UsbInv, WorkInv
<1>2. /\ DevicesInv' /\ usbfd' = None
      /\ awake' \subseteq plugged' /\ forsaken' \subseteq awake'
  BY <1>1, DevicesClosed DEF UsbInv, kernel, host
<1>3. /\ work'.at = "next" /\ work'.msg = work.msg
      /\ work' \in [at : {"idle", "got", "next", "lun", "stuck"}, msg : Message \cup {None},
                    list : Seq(Dev)]
  <2>1. Tail(work.list) \in Seq(Dev)
    BY DEF NoLun, UsbInv, WorkInv, TypeOK
  <2>2. work' = [work EXCEPT !.at = "next", !.list = Tail(work.list)]
    BY DEF NoLun, NextDevice, UsbInv, TypeOK
  <2> QED
    BY <2>1, <2>2 DEF UsbInv, TypeOK
<1>4. QueueInv'
  BY <1>1, <1>3, QueueStays DEF UsbInv, host, InWork, Busy
<1>5. WorkInv' /\ QueueHasRoom'
  BY <1>1, <1>3 DEF UsbInv, WorkInv, QueueHasRoom, Busy
<1>6. TypeOK'
  BY <1>1, <1>2, <1>3 DEF UsbInv, TypeOK, kernel, host, wbfs
<1> QED
  BY <1>2, <1>4, <1>5, <1>6 DEF UsbInv

\* The end of the list.
LEMMA ListDoneKeeps ==
  ASSUME UsbInv, ListDone
  PROVE  UsbInv'
BY NothingMountedKeeps DEF ListDone, Busy

\* Every step keeps it.
THEOREM NextUsbInv == UsbInv /\ [Next]_vars => UsbInv'
<1> SUFFICES ASSUME UsbInv, [Next]_vars PROVE UsbInv'
  OBVIOUS
<1>1. CASE \E d \in Dev : Plug(d) \/ Unplug(d)
  BY <1>1, PlugKeeps, UnplugKeeps
<1>2. CASE Kernel \/ KernelRefuses
  BY <1>2, KernelChangeKeeps, KernelAnswerKeeps DEF Kernel
<1>3. CASE \E c \in Client, kind \in Kind : Ask(c, kind)
  BY <1>3, AskKeeps
<1>4. CASE Module
  BY <1>4, ReceiveKeeps, HandleInitKeeps, HandleIoKeeps, HandleUnmountKeeps,
     HandleDevChangeKeeps, HandleAttachKeeps, IsInsertedKeeps, OpenNextKeeps, MountLunKeeps,
     NoLunKeeps, ListDoneKeeps DEF Module
<1>5. CASE UNCHANGED vars
  <2>1. TypeOK'
    BY <1>5 DEF UsbInv, TypeOK, vars, kernel, host, wbfs, power
  <2>2. WorkInv' /\ QueueHasRoom'
    BY <1>5 DEF UsbInv, WorkInv, QueueHasRoom, Busy, vars
  <2>3. DevicesInv'
    BY <1>5, DevicesStay DEF UsbInv, vars, kernel, host
  <2>4. QueueInv'
    BY <1>5, QueueStays DEF UsbInv, vars, host, InWork, Busy
  <2> QED
    BY <2>1, <2>2, <2>3, <2>4 DEF UsbInv
<1> QED
  BY <1>1, <1>2, <1>3, <1>4, <1>5 DEF Next

-----------------------------------------------------------------------------
(* What every behaviour keeps *)

\* The variables keep their types.
THEOREM UsbTypeCorrect == Spec => []TypeOK
<1>1. UsbInv => TypeOK
  BY DEF UsbInv
<1> QED
  BY <1>1, InitUsbInv, NextUsbInv, PTL DEF Spec

\* The thread never waits for room in the queue that it empties itself
\* (usbstorage_Startup sends with a blocking call).
THEOREM RoomInQueue == Spec => []QueueHasRoom
<1>1. UsbInv => QueueHasRoom
  BY DEF UsbInv
<1> QED
  BY <1>1, InitUsbInv, NextUsbInv, PTL DEF Spec

\* A client whose INIT was answered finds the mount tried when its next request
\* is handled (the storage library asks for the capacity right after INIT).
THEOREM MountedFirst == Spec => []MountedBeforeAsked
<1>1. UsbInv => MountedBeforeAsked
  <2> SUFFICES ASSUME UsbInv, work.msg # None, work.msg[1] = "request", Sender \in due
               PROVE  FALSE
    BY DEF MountedBeforeAsked
  <2>1. Busy /\ work.msg \in Message
    BY DEF UsbInv, WorkInv, Idle
  <2>2. PICK c \in Client : work.msg = Request(c) /\ work.msg[2] = c
    BY <2>1, MessageKinds, Zenon
  <2>3. c \in due /\ InWork(Request(c))
    BY <2>1, <2>2 DEF Sender, InWork
  <2>4. InWork(Mount(c)) \/ Queued(Mount(c))
    BY <2>3 DEF UsbInv, QueueInv, DueIsMount
  <2>5. ~Queued(Mount(c))
    BY <2>3 DEF UsbInv, QueueInv, RequestAlone
  <2> QED
    BY <2>2, <2>4, <2>5, MessagesDiffer DEF InWork
<1> QED
  BY <1>1, InitUsbInv, NextUsbInv, PTL DEF Spec

\* No device stays awake without the handle that can put it to sleep but one that
\* the kernel refused to suspend, though the table is overwritten and devices
\* come and go (USB_CloseDevice).
THEOREM DevicesRemembered == Spec => []NoDeviceForgotten
<1>1. UsbInv => NoDeviceForgotten
  BY DEF UsbInv, DevicesInv
<1> QED
  BY <1>1, InitUsbInv, NextUsbInv, PTL DEF Spec

=============================================================================
