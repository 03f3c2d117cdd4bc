------------------------------- MODULE DiscRead -------------------------------
(***************************************************************************)
(* How the DIP plugin reads a disc that is emulated from fragments of a    *)
(* file on a USB disk or on an SD card, and a disc in the drive.           *)
(*                                                                         *)
(* Addresses of a disc and lengths are words.  A read is a plan, the list  *)
(* of what is moved to where in the buffer, and its execution, of which    *)
(* the transfers of an SD card are the driver's of SdCard in the SDHC      *)
(* module.  Fragments are sorted, as the loader builds them.               *)
(***************************************************************************)

EXTENDS SdCard, SequencesExt, FiniteSetsExt

CONSTANTS
  Words,      \* words of a sector of the device
  DvdWords,   \* words of a sector of a disc
  MaxDma,     \* longest read of the drive, in words (MAX_SECTOR_SIZE)
  DmaEnd,     \* first word behind the memory that the drive can write to
  Align,      \* alignment of its writes (32 bytes)
  IdxChunk,   \* sectors for which the list of fragments has an index (IDX_CHUNK)
  FragLists,  \* lists that the loader sets: device, fragments and sectors in all
  DvdRequest, \* reads from the drive: address, length, address of the buffer
  Request     \* reads from fragments: device, address, length

End(f) == f.offset + f.count

\* The loader sorts the fragments, and the list is as long as the disc.
Fragments == [offset : Nat, count : Nat, sector : Nat]
Sorted(frag) == \A i, j \in DOMAIN frag : i < j => End(frag[i]) <= frag[j].offset
ASSUME DiscAssumption ==
  /\ {Words, DvdWords, MaxDma, Align, IdxChunk} \subseteq Nat \ {0}
  /\ MaxDma % DvdWords = 0 /\ DmaEnd \in Nat
  /\ FragLists \subseteq [dev : {"usb", "sd"}, frag : Seq(Fragments), size : Nat]
  /\ \A l \in FragLists : Sorted(l.frag) /\ \A i \in DOMAIN l.frag : End(l.frag[i]) <= l.size
  /\ Request \subseteq [src : {"usb", "sd"}, offset : Nat, len : Nat \ {0}]
  /\ DvdRequest \subseteq [offset : Nat, len : Nat \ {0}, buffer : Nat]
  /\ None \notin Nat \cup FragLists \cup Request \cup DvdRequest
  /\ None \notin [skip : Nat, sector : Nat, count : Nat]

VARIABLES
  list,       \* frag_list, and frag_dev
  fd,         \* the plugin's descriptor of the SDHC module is open
  dip         \* the read: what is left of its plan, the buffer and the result

vars == <<sdVars, list, fd, dip>>

-----------------------------------------------------------------------------
(* The fragments *)

\* __Frag_OptimizeList: where the search for a sector begins.
FirstFrag(l, chunk) ==
  Min({i \in 1 .. Len(l.frag) : End(l.frag[i]) > chunk * IdxChunk} \cup {Len(l.frag)})

\* __Frag_Get: the sectors to fill with zeros, and then those to read.
Within(f, offset) == f.offset <= offset /\ End(f) > offset
Ahead(f, offset, count) == f.offset > offset /\ f.offset < offset + count

\* Faulty: the distance to the fragment is added to its sector, as within one.
FoundAheadShifted(f, offset, count) ==
  [skip |-> f.offset - offset, sector |-> f.sector + (f.offset - offset),
   count |-> Min({f.count, count - (f.offset - offset)})]
FoundAhead(f, offset, count) ==
  [skip |-> f.offset - offset, sector |-> f.sector,
   count |-> Min({f.count, count - (f.offset - offset)})]
Found(f, offset, count) ==
  IF Within(f, offset)
  THEN [skip |-> 0, sector |-> f.sector + (offset - f.offset),
        count |-> Min({End(f) - offset, count})]
  ELSE FoundAhead(f, offset, count)

FragGet(l, offset, count) ==
  LET hits == {i \in DOMAIN l.frag :
                 /\ i >= FirstFrag(l, offset \div IdxChunk)
                 /\ Within(l.frag[i], offset) \/ Ahead(l.frag[i], offset, count)} IN
  IF hits # {} THEN Found(l.frag[Min(hits)], offset, count)
  ELSE IF offset + count > l.size THEN None
  ELSE [skip |-> count, sector |-> 0, count |-> 0]

\* A part of a plan: n words to the place at of the buffer, from the word from of
\* a sector on; zeros without one.
Part(at, n, sector, from) == [at |-> at, n |-> n, sector |-> sector, from |-> from]
Plan(parts, ok) == [parts |-> parts, ok |-> ok]

\* __Frag_ReadSect: the plan from each sector on.
ReadSect(l, offset, len, at) ==
  LET Rest[k \in 0 .. len] ==
        LET g     == FragGet(l, offset + k, len - k)
            place == at + k * Words
            zeros == IF g.skip = 0 THEN <<>> ELSE <<Part(place, g.skip * Words, None, 0)>>
            read  == IF g.count = 0 THEN <<>>
                     ELSE <<Part(place + g.skip * Words, g.count * Words, g.sector, 0)>>
            rest  == Rest[k + g.skip + g.count] IN
        IF k = len THEN Plan(<<>>, TRUE)
        ELSE IF g = None THEN Plan(<<>>, FALSE)
        ELSE Plan(zeros \o read \o rest.parts, rest.ok)
  IN  Rest[0]

\* __Frag_ReadPartial: words of one sector, by way of the sector's buffer.
PartialLen(offset, len) ==
  LET n == Min({Words - (offset % Words), len}) IN IF n = Words THEN 0 ELSE n
ReadPartial(l, offset, n, at) ==
  LET sect == ReadSect(l, offset \div Words, 1, 0) IN
  IF n = 0 \/ ~sect.ok THEN Plan(<<>>, sect.ok \/ n = 0)
  ELSE Plan(<<Part(at, n, sect.parts[1].sector, offset % Words)>>, TRUE)

Then(p, q) == IF p.ok THEN Plan(p.parts \o q.parts, q.ok) ELSE p

\* Frag_Read: the part up to a whole sector, whole sectors, the part behind them.
FragPlan(l, offset, len) ==
  LET head == PartialLen(offset, len)
      body == ((len - head) \div Words) * Words
      tail == len - head - body IN
  Then(ReadPartial(l, offset, head, 0),
       Then(ReadSect(l, (offset + head) \div Words, body \div Words, head),
            ReadPartial(l, offset + head + body, tail, head + body)))

-----------------------------------------------------------------------------
(* The drive *)

\* DMA_CheckRange
DmaLen(buffer, size) ==
  LET n == IF buffer % Align # 0 \/ DmaEnd - buffer < DvdWords THEN 0
           ELSE Min({DmaEnd - buffer, size}) IN
  n - (n % DvdWords)

\* DI_ReadDvd: each turn reads one sector by way of a buffer, or whole sectors; n of
\* them are behind it.
DvdPlan(offset, len, buffer) ==
  LET Rest[k \in 0 .. len] == [n \in Nat |->
        LET lba  == (offset \div DvdWords) + n
            pos  == IF offset > lba * DvdWords THEN offset - lba * DvdWords ELSE 0
            dma  == DmaLen(buffer + k, len - k)
            size == IF dma = 0 \/ pos # 0 THEN Min({len - k, DvdWords - pos})
                    ELSE Min({dma, MaxDma}) IN
        IF k = len THEN <<>>
        ELSE <<Part(k, size, lba, pos)>> \o Rest[k + size][n + (size + pos) \div DvdWords]]
  IN  Plan(Rest[0][0], TRUE)

-----------------------------------------------------------------------------
(* Reads *)

\* What a part puts into the buffer.
Source(part, per, k) ==
  IF part.sector = None THEN "zero"
  ELSE <<part.sector + (part.from + k) \div per, (part.from + k) % per>>
Filled(data, part, per) ==
  [i \in DOMAIN data \cup (part.at + 1 .. part.at + part.n) |->
     IF i - 1 \in part.at .. part.at + part.n - 1 THEN Source(part, per, i - 1 - part.at)
     ELSE data[i]]

Empty(len) == [i \in 1 .. len |-> "old"]

\* The buffer after each transfer, but for those that fail.
Buffers(parts, per, len, bad) ==
  LET buffer[n \in 0 .. Len(parts)] ==
        IF n = 0 THEN Empty(len)
        ELSE IF n \in bad THEN buffer[n - 1] ELSE Filled(buffer[n - 1], parts[n], per)
  IN  buffer
NoRead == [todo |-> <<>>, ok |-> TRUE, lost |-> FALSE, req |-> None, data |-> <<>>]

DiscTypeOK ==
  /\ SdTypeOK
  /\ list \in FragLists \cup {None} /\ fd \in BOOLEAN
  /\ dip.req \in Request \cup DvdRequest \cup {None} /\ {dip.ok, dip.lost} \subseteq BOOLEAN

DiscInit == SdInit /\ list = None /\ fd = FALSE /\ dip = NoRead

\* No read is under way, and the plugin waits for nothing.
Free == dip.req = None /\ op["sdhc"].by # "dip" /\ answer = None

\* A bound: the other devices have no part in what the card does, and are read
\* while nobody uses it.
Quiet ==
  ~fd /\ slot # None /\ swaps = 0 /\ \A d \in Driver : drv[d] = Down /\ At(d, "idle")
Others ==
  /\ dip.req # None => dip.req \notin DvdRequest
  /\ list # None => list.dev = "sd"

\* Frag_Init, with sdhc_Init: the answer to SDHC_INIT is not looked at.
FragInit(l) ==
  /\ Free /\ list' = l
  /\ \/ /\ l.dev = "sd" /\ fd' = TRUE
        /\ IF fd THEN UNCHANGED sdVars ELSE Startup("sdhc", "dip")
     \/ l.dev = "usb" /\ Quiet /\ UNCHANGED <<sdVars, fd>>
  /\ UNCHANGED dip

InitAnswered ==
  /\ dip.req = None /\ answer # None
  /\ answer' = None
  /\ UNCHANGED <<bus, drv, op, budget, list, fd, dip>>

FragClose ==
  /\ Free /\ list # None
  /\ list' = None
  /\ UNCHANGED <<sdVars, fd, dip>>

\* A read from a USB disk: the first transfer that fails ends it.
ReadUsb(r) ==
  LET plan == FragPlan(list, r.offset, r.len)
      done == Buffers(plan.parts, Words, r.len, {}) IN
  /\ Free /\ list # None /\ list.dev = "usb" /\ r.src = "usb"
  /\ \E n \in 0 .. Len(plan.parts) :
       /\ n < Len(plan.parts) => plan.parts[n + 1].sector # None
       /\ dip' = [NoRead EXCEPT !.req = r, !.data = done[n],
                                !.ok = n = Len(plan.parts) /\ plan.ok]
  /\ UNCHANGED <<sdVars, list, fd>>

\* A read from the drive: what the last transfer returned is the result.
ReadDvd(r) ==
  LET parts == DvdPlan(r.offset, r.len, r.buffer).parts IN
  /\ Free /\ Quiet /\ list = None
  /\ \E bad \in SUBSET DOMAIN parts :
       dip' = [NoRead EXCEPT !.req = r,
                 !.data = Buffers(parts, DvdWords, r.len, bad)[Len(parts)],
                 !.ok = Len(parts) \notin bad, !.lost = bad # {}]
  /\ UNCHANGED <<sdVars, list, fd>>

\* A read from an SD card.
ReadSd(r) ==
  /\ Free /\ list # None /\ list.dev = "sd" /\ r.src = "sd"
  /\ LET plan == FragPlan(list, r.offset, r.len) IN
       dip' = [todo |-> plan.parts, ok |-> plan.ok, lost |-> FALSE, req |-> r,
               data |-> Empty(r.len)]
  /\ UNCHANGED <<sdVars, list, fd>>

\* The next part is zeros, or is asked for from the SDHC module.
SdZeros ==
  /\ dip.todo # <<>> /\ Head(dip.todo).sector = None
  /\ dip' = [dip EXCEPT !.data = Filled(@, Head(dip.todo), Words), !.todo = Tail(@)]
  /\ UNCHANGED <<sdVars, list, fd>>

SdPart ==
  /\ dip.todo # <<>> /\ Head(dip.todo).sector # None /\ answer = None
  /\ Move("sdhc", "dip", Head(dip.todo).sector)
  /\ UNCHANGED <<list, fd, dip>>

\* sdhc_Read takes an answer that is not negative for success, and the module
\* answers 1 when the transfer failed.
SdAnswer ==
  /\ dip.req # None /\ answer # None
  /\ dip' = [dip EXCEPT !.todo = Tail(@), !.lost = @ \/ ~answer.ok \/ ~answer.got.right,
                 !.data = IF answer.ok THEN Filled(@, Head(dip.todo), Words) ELSE @]
  /\ answer' = None
  /\ UNCHANGED <<bus, drv, op, budget, list, fd>>

\* The read returns to its caller.
Returned ==
  /\ dip.req # None /\ dip.todo = <<>>
  /\ dip' = NoRead
  /\ UNCHANGED <<sdVars, list, fd>>

-----------------------------------------------------------------------------
(* The other users of the card *)

\* The FAT module mounts, moves sectors and unmounts.
FatUser ==
  \/ Startup("fat", "fat") \/ Shutdown("fat")
  \/ \E s \in Sector : Move("fat", "fat", s)

\* The loader's INIT, and the close of its own descriptor of the SDHC module,
\* which shuts the driver down for all.
Loader == answer = None /\ (Startup("sdhc", "loader") \/ Shutdown("sdhc"))

Next ==
  \/ (\E l \in FragLists : FragInit(l)) \/ InitAnswered \/ FragClose
  \/ (\E r \in Request : ReadUsb(r) \/ ReadSd(r)) \/ (\E r \in DvdRequest : ReadDvd(r))
  \/ SdZeros \/ SdPart \/ SdAnswer \/ Returned
  \/ /\ Others
     /\ \/ FatUser \/ Loader \/ TakeOut
        \/ (\E c \in Card : PutIn(c)) \/ (\E d \in Driver : DriverStep(d))
     /\ UNCHANGED <<list, fd, dip>>

Spec == DiscInit /\ [][Next]_vars

-----------------------------------------------------------------------------
(* Properties *)

\* What the file of a list holds at a word of the disc.
ImageWord(l, w) ==
  LET s    == w \div Words
      hits == {i \in DOMAIN l.frag : Within(l.frag[i], s)} IN
  IF hits = {} THEN "zero"
  ELSE LET f == l.frag[CHOOSE i \in hits : TRUE] IN <<f.sector + (s - f.offset), w % Words>>

Wanted(r) ==
  [i \in 1 .. r.len |->
     LET w == r.offset + i - 1 IN
     IF r \in DvdRequest THEN <<w \div DvdWords, w % DvdWords>> ELSE ImageWord(list, w)]

\* A read that is answered with success has every word of the disc in its place
\* and nothing behind the buffer, across fragments, holes, sectors that are read
\* in part and the limits of DMA; and it lies within the image.  Left out are
\* reads in which a transfer failed and the failure is not seen (sdhc_Read) or is
\* overwritten by a later success (DI_ReadDvd), and those in which the driver of
\* the SD card moved another sector (the three ways out of MovedIsAsked).
DiscReadTrue ==
  dip.req # None /\ dip.todo = <<>> /\ dip.ok /\ ~dip.lost =>
    /\ dip.data = Wanted(dip.req)
    /\ dip.req \notin DvdRequest => dip.req.offset + dip.req.len <= list.size * Words

=============================================================================
