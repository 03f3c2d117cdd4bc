-------------------------------- MODULE SdCard --------------------------------
(***************************************************************************)
(* The SD card and its two drivers: the FAT module and the SDHC module     *)
(* have each a copy of the driver of the library (sdio.c), with a          *)
(* descriptor and a state of its own, and both send their commands to the  *)
(* one card in the one slot, in any interleaving.                          *)
(*                                                                         *)
(* A step is a command to the card or a group of writes to the host        *)
(* controller's registers.  A command fails without a card, without a      *)
(* descriptor, in a state of the card that does not allow it, and now and  *)
(* then for no reason.  One that fails leaves the card as it was, but for  *)
(* CMD7, which the card may have taken.  A card publishes an address (RCA) *)
(* whenever it is initialised; two cards may publish the same.             *)
(***************************************************************************)

EXTENDS Integers, FiniteSets

CONSTANTS
  Card,       \* cards that are put into the slot
  Rca,        \* addresses that cards publish
  Sdhc,       \* those that count in sectors; the others count in bytes
  Sector,     \* sectors that are asked for
  Tries,      \* attempts of a transfer (10)
  MaxFault,   \* commands that fail for no reason
  MaxSwap,    \* times that a card is taken out
  None

Driver == {"fat", "sdhc"}
Caller == {"fat", "loader", "dip"}

ASSUME SdCardAssumption ==
  /\ Sdhc \subseteq Card /\ None \notin Card \cup Rca \cup Driver \cup Caller
  /\ Sector \subseteq Nat /\ Tries \in Nat \ {0}
  /\ {MaxFault, MaxSwap} \subseteq Nat

VARIABLES
  slot,       \* card in the slot
  card,       \* its state, its address, whether it moves data on four wires; as
              \* history, whether a CMD7 that failed left it selected
  wide,       \* the host controller moves data on four wires
  known,      \* the kernel's driver initialised the card
  holder,     \* history: driver that initialised the card last, or tried to by
              \* hand, while the other did not start
  drv,        \* variables of each driver; as history, the card that it has the
              \* address of, and whether it has read the type of that card
  op,         \* what each driver is doing; as history, whether the card that it
              \* selected is another one than its own
  answer,     \* answer of the SDHC module that the DIP plugin has not taken
  faults, swaps

bus == <<slot, card, wide, known, holder>>
budget == <<faults, swaps>>
sdVars == <<bus, drv, op, answer, budget>>

Unidentified == [st |-> "idle", rca |-> None, wide |-> FALSE, stuck |-> FALSE]
Down ==
  [fd |-> FALSE, rca |-> None, initialized |-> FALSE, up |-> FALSE, sdhc |-> FALSE,
   of |-> None, read |-> FALSE]
Asking(step, by, sector, left) ==
  [at |-> step, by |-> by, sector |-> sector, mult |-> 0, left |-> left, twin |-> FALSE,
   got |-> None]
Resting == Asking("idle", None, 0, 0)
Got == [right : BOOLEAN, again : BOOLEAN, twin : BOOLEAN] \cup {None}

SdTypeOK ==
  /\ slot \in Card \cup {None}
  /\ card \in [st : {"idle", "ident", "stby", "tran"}, rca : Rca \cup {None},
               wide : BOOLEAN, stuck : BOOLEAN]
  /\ wide \in BOOLEAN /\ known \in BOOLEAN /\ holder \in Driver \cup {None}
  /\ drv \in [Driver -> [fd : BOOLEAN, rca : Rca \cup {None}, initialized : BOOLEAN,
                         up : BOOLEAN, sdhc : BOOLEAN, of : Card \cup {None}, read : BOOLEAN]]
  /\ \A d \in Driver :
       /\ op[d].by \in Caller \cup {None} /\ op[d].sector \in Nat
       /\ op[d].mult \in 0 .. 2 /\ op[d].left \in 0 .. Tries
       /\ op[d].twin \in BOOLEAN /\ op[d].got \in Got
  /\ answer \in [ok : BOOLEAN, got : Got] \cup {None}
  /\ faults \in 0 .. MaxFault /\ swaps \in 0 .. MaxSwap

SdInit ==
  /\ slot \in Card /\ card = Unidentified /\ wide = FALSE /\ known = FALSE
  /\ holder = None
  /\ drv = [d \in Driver |-> Down]
  /\ op = [d \in Driver |-> Resting] /\ answer = None
  /\ faults = 0 /\ swaps = 0

-----------------------------------------------------------------------------
(* The slot *)

TakeOut ==
  /\ slot # None /\ swaps < MaxSwap
  /\ slot' = None /\ card' = Unidentified /\ known' = FALSE /\ holder' = None
  /\ swaps' = swaps + 1
  /\ UNCHANGED <<wide, drv, op, answer, faults>>

\* It takes longer than the start or the transfer that a card was taken from.
PutIn(c) ==
  /\ slot = None /\ \A d \in Driver : op[d].at = "idle"
  /\ slot' = c
  /\ UNCHANGED <<card, wide, known, holder, drv, op, answer, budget>>

-----------------------------------------------------------------------------
(* Commands *)

At(d, step) == op[d].at = step
Go(d, step) == op' = [op EXCEPT ![d].at = step]

\* A command reaches a card that is in one of these states.
Reaches(d, states) == drv[d].fd /\ slot # None /\ card.st \in states
Works == UNCHANGED faults
Fault == faults < MaxFault /\ faults' = faults + 1
Fails(d, states) == IF Reaches(d, states) THEN Fault ELSE Works

\* CMD7 with the driver's address selects the card if it has that address, and
\* releases it if it has another.
Released == [card EXCEPT !.st = "stby", !.stuck = FALSE]
HasAddress(d) == drv[d].rca = card.rca
Selects(d) == Reaches(d, {"stby"}) /\ HasAddress(d)
SelectFails(d) ==
  IF Selects(d) THEN Fault /\ card' \in {card, [card EXCEPT !.st = "tran", !.stuck = TRUE]}
  ELSE /\ Works
       /\ \/ card' = card
          \/ Reaches(d, {"tran"}) /\ ~HasAddress(d) /\ card' = Released

\* CMD7 without an address releases it.  Nobody looks at the result.
Deselect(d) ==
  \/ Works /\ card' = IF Reaches(d, {"tran"}) THEN Released ELSE card
  \/ Reaches(d, {"tran"}) /\ Fault /\ card' = [card EXCEPT !.stuck = TRUE]

Answer(by, ok, got) == answer' = IF by = "dip" THEN [ok |-> ok, got |-> got] ELSE answer
Return(d, ok, got) == op' = [op EXCEPT ![d] = Resting] /\ Answer(op[d].by, ok, got)

Deinitialized(r) == [r EXCEPT !.fd = FALSE, !.up = FALSE]

-----------------------------------------------------------------------------
(* sdio_Startup and __sd0_initio *)

Startup(d, by) ==
  /\ At(d, "idle")
  /\ \/ /\ drv[d].up /\ Works
        /\ Answer(by, TRUE, None) /\ UNCHANGED <<drv, op>>
     \/ /\ ~drv[d].up /\ Works
        /\ drv' = [drv EXCEPT ![d].fd = TRUE]
        /\ op' = [op EXCEPT ![d] = Asking("reset", by, 0, 0)]
        /\ UNCHANGED answer
     \/ /\ ~drv[d].up /\ Fault
        /\ drv' = [drv EXCEPT ![d] = Deinitialized(@)]
        /\ Answer(by, FALSE, None) /\ UNCHANGED op
  /\ UNCHANGED <<bus, swaps>>

\* The start fails: sdio_Deinitialize.
Abandons(d, r) == drv' = [drv EXCEPT ![d] = Deinitialized(r)] /\ Return(d, FALSE, None)
StartFails(d) == Abandons(d, drv[d])

Alone(d) ==
  IF \A e \in Driver \ {d} : op[e].at \in {"idle", "select", "transfer", "release"} THEN d ELSE None

\* IOCTL_SDIO_RESETCARD, whose result is ignored: the kernel's driver resets the
\* card and initialises it, when it is of a kind that it knows.
Unread(d, rca, of) == drv' = [drv EXCEPT ![d].rca = rca, ![d].of = of, ![d].read = FALSE]
Reset(d) ==
  /\ At(d, "reset")
  /\ \/ /\ slot # None /\ known' = TRUE /\ holder' = Alone(d) /\ Works
        /\ \E a \in Rca :
             /\ card' = [Unidentified EXCEPT !.st = "stby", !.rca = a] /\ wide' = FALSE
             /\ Unread(d, a, slot)
     \/ /\ known' = FALSE /\ holder' = Alone(d) /\ card' = Unidentified /\ wide' = FALSE
        /\ Unread(d, None, None) /\ Works
     \/ /\ Fault
        /\ Unread(d, None, None)
        /\ UNCHANGED <<known, holder, card, wide>>
  /\ Go(d, "status")
  /\ UNCHANGED <<slot, answer, swaps>>

\* Faulty: the type is only read when the card is initialised by hand.
TypeKept(d) == drv[d].sdhc
\* Bit 20 of the status, or bit 30 of the OCR.
TypeOf(d) == slot \in Sdhc

\* __sdio_getstatus.  When the read of the status fails, its negative result is
\* taken for one: it has the bits of a card that is initialised and counts in
\* sectors, and with some errors that of a card in the slot.
Status(d) ==
  /\ At(d, "status")
  /\ \/ slot = None /\ Works /\ StartFails(d)
     \/ /\ slot # None /\ known /\ Works
        /\ drv' = [drv EXCEPT ![d].sdhc = TypeOf(d), ![d].read = TRUE]
        /\ Go(d, "width") /\ UNCHANGED answer
     \/ slot # None /\ ~known /\ Works /\ Go(d, "host") /\ UNCHANGED <<drv, answer>>
     \/ Fault /\ StartFails(d)
     \/ Fault /\ drv' = [drv EXCEPT ![d].sdhc = TRUE] /\ Go(d, "width") /\ UNCHANGED answer
  /\ UNCHANGED <<bus, swaps>>

\* The card is initialised by hand.  The descriptor is opened anew, the host is
\* reset, and power and clock are switched on; CMD0.  What fails behind the reset
\* of the host leaves the flag of the type set, and perhaps the card without power.
Host(d) ==
  /\ At(d, "host")
  /\ holder' = Alone(d)
  /\ \/ /\ card' = Unidentified /\ wide' = FALSE /\ Works
        /\ drv' = [drv EXCEPT ![d].sdhc = TRUE]
        /\ Go(d, "identify") /\ UNCHANGED answer
     \/ Fault /\ wide' \in {wide, FALSE} /\ StartFails(d) /\ UNCHANGED card
     \/ /\ Fault /\ wide' = FALSE /\ card' \in {card, Unidentified}
        /\ Abandons(d, [drv[d] EXCEPT !.sdhc = TRUE])
  /\ UNCHANGED <<slot, known, swaps>>

\* The way out of a start by hand resets the host.
HostFails(d) == wide' = FALSE /\ StartFails(d) /\ UNCHANGED <<slot, card, known, holder>>

\* CMD8, and ACMD41 until the card is ready.
Identify(d) ==
  /\ At(d, "identify")
  /\ \/ /\ Reaches(d, {"idle"}) /\ Works
        /\ card' = [card EXCEPT !.st = "ident"]
        /\ drv' = [drv EXCEPT ![d].sdhc = TypeOf(d), ![d].read = TRUE]
        /\ Go(d, "address") /\ UNCHANGED <<slot, wide, known, holder, answer>>
     \/ Fails(d, {"idle"}) /\ HostFails(d)
  /\ UNCHANGED swaps

\* CMD2 and CMD3.
Address(d) ==
  /\ At(d, "address")
  /\ \/ /\ Reaches(d, {"ident"}) /\ Works
        /\ \E a \in Rca :
             /\ card' = [card EXCEPT !.st = "stby", !.rca = a]
             /\ drv' = [drv EXCEPT ![d].rca = a, ![d].of = slot]
        /\ Go(d, "width") /\ UNCHANGED <<slot, wide, known, holder, answer>>
     \/ Fails(d, {"ident"}) /\ HostFails(d)
  /\ UNCHANGED swaps

\* The host's wires and clock.
Width(d) ==
  /\ At(d, "width")
  /\ \/ wide' = TRUE /\ Works /\ Go(d, "pick") /\ UNCHANGED <<drv, answer>>
     \/ Fault /\ wide' \in {wide, TRUE} /\ StartFails(d)
  /\ UNCHANGED <<slot, card, known, holder, swaps>>

Pick(d) ==
  /\ At(d, "pick")
  /\ \/ /\ Selects(d) /\ Works
        /\ card' = [card EXCEPT !.st = "tran"] /\ Go(d, "length") /\ UNCHANGED <<drv, answer>>
     \/ SelectFails(d) /\ StartFails(d)
  /\ UNCHANGED <<slot, wide, known, holder, swaps>>

Length(d) ==
  /\ At(d, "length")
  /\ \/ Reaches(d, {"tran"}) /\ Works /\ Go(d, "wires")
     \/ Fails(d, {"tran"}) /\ Go(d, "undo")
  /\ UNCHANGED <<bus, drv, answer, swaps>>

\* CMD55 with the driver's address, and ACMD6: the card moves data on four wires.
Wires(d) ==
  /\ At(d, "wires")
  /\ \/ /\ Reaches(d, {"tran"}) /\ HasAddress(d) /\ Works
        /\ card' = [card EXCEPT !.wide = TRUE] /\ Go(d, "done")
     \/ /\ IF HasAddress(d) THEN Fails(d, {"tran"}) ELSE Works
        /\ Go(d, "undo") /\ UNCHANGED card
  /\ UNCHANGED <<slot, wide, known, holder, drv, answer, swaps>>

\* Faulty: a start that fails leaves the card selected.
LeftSelected(d) == UNCHANGED <<card, faults>>
Undone(d) == Deselect(d)

Undo(d) ==
  /\ At(d, "undo")
  /\ Undone(d) /\ StartFails(d)
  /\ UNCHANGED <<slot, wide, known, holder, swaps>>

Done(d) ==
  /\ At(d, "done")
  /\ Deselect(d)
  /\ drv' = [drv EXCEPT ![d].initialized = TRUE, ![d].up = TRUE]
  /\ Return(d, TRUE, None)
  /\ UNCHANGED <<slot, wide, known, holder, swaps>>

Start(d) ==
  \/ Reset(d) \/ Status(d) \/ Host(d) \/ Identify(d) \/ Address(d)
  \/ Width(d) \/ Pick(d) \/ Length(d) \/ Wires(d) \/ Undo(d) \/ Done(d)

-----------------------------------------------------------------------------
(* sdio_ReadSectors and sdio_WriteSectors *)

Move(d, by, sector) ==
  /\ At(d, "idle")
  /\ op' = [op EXCEPT ![d] = Asking("select", by, sector, Tries)]
  /\ UNCHANGED <<bus, drv, answer, budget>>

\* The attempt failed.
Again(d) ==
  IF op[d].left = 1 THEN Return(d, FALSE, None)
  ELSE /\ op' = [op EXCEPT ![d].left = @ - 1, ![d].at = "select", ![d].twin = FALSE]
       /\ UNCHANGED answer

\* Faulty: the command is sent although the card was not selected.
GoesOn(d) == Go(d, "transfer") /\ UNCHANGED answer
NotSelected(d) == Again(d)

Select(d) ==
  /\ At(d, "select")
  /\ \/ /\ Selects(d) /\ Works
        /\ card' = [card EXCEPT !.st = "tran"]
        /\ op' = [op EXCEPT ![d].at = "transfer", ![d].twin = slot # drv[d].of]
        /\ UNCHANGED answer
     \/ SelectFails(d) /\ NotSelected(d)
  /\ UNCHANGED <<slot, wide, known, holder, drv, swaps>>

\* Before the command, the sector becomes a byte for a card that counts in
\* bytes: in each attempt again.
Multiplied(d) == IF drv[d].sdhc \/ op[d].mult = 2 THEN op[d].mult ELSE op[d].mult + 1
Aims(d) == op[d].sector = 0 \/ Multiplied(d) = IF slot \in Sdhc THEN 0 ELSE 1

Transfer(d) ==
  /\ At(d, "transfer")
  /\ \E got \in Got :
       /\ op' = [op EXCEPT ![d].mult = Multiplied(d), ![d].got = got, ![d].at = "release"]
       /\ \/ /\ Reaches(d, {"tran"}) /\ wide = card.wide /\ Works
             /\ got = [right |-> Aims(d) /\ slot = drv[d].of,
                       again |-> slot \notin Sdhc /\ op[d].mult > 0, twin |-> op[d].twin]
          \/ /\ got = None
             /\ IF wide = card.wide /\ Aims(d) THEN Fails(d, {"tran"}) ELSE Works
  /\ UNCHANGED <<bus, drv, answer, swaps>>

Release(d) ==
  /\ At(d, "release")
  /\ Deselect(d)
  /\ IF op[d].got # None THEN Return(d, TRUE, op[d].got) ELSE Again(d)
  /\ UNCHANGED <<slot, wide, known, holder, drv, swaps>>

\* sdio_Shutdown, at IOCTL_FAT_UMOUNT_SD and at each close of the SDHC module.
Shutdown(d) ==
  /\ At(d, "idle") /\ drv[d].initialized
  /\ drv' = [drv EXCEPT ![d] = [Deinitialized(@) EXCEPT !.initialized = FALSE]]
  /\ UNCHANGED <<bus, op, answer, budget>>

-----------------------------------------------------------------------------
(* Properties *)

\* A transfer that the driver answers with success moved the sector that was asked for,
\* on the card that the driver was started on, however the commands of the other
\* driver, its starts and a swap of the card come in between.  The code has three
\* ways out of this: a card that counts in bytes needed a second attempt
\* (sdio_ReadSectors multiplies the sector again in each), the card that was
\* swapped in and that the other driver initialised got the same address, or the
\* driver took a failed read of the status for a card that counts in sectors.
MovedIsAsked ==
  \A d \in Driver : op[d].got # None =>
    op[d].got.right \/ op[d].got.again \/ op[d].got.twin \/ ~drv[d].read

\* A card is left selected by no way out of a start or a transfer in which the CMD7s
\* worked: a card that is selected refuses the CMD7 that begins every transfer of
\* either driver.  When one failed that the card has taken, or the one that
\* releases it, whose result nobody looks at, it does stay selected.
CardReleased == (\A d \in Driver : At(d, "idle")) => card.st # "tran" \/ card.stuck

\* A driver that started and was the last to initialise the card, while the other
\* did not start too, knows its type unless the read of the status failed, and
\* card and host move data on as many wires, whether the kernel or the driver
\* initialised the card and whatever transfers the other driver makes meanwhile.
StartedAgrees ==
  \A d \in Driver : drv[d].up /\ holder = d /\ slot = drv[d].of =>
    (drv[d].read => drv[d].sdhc = (slot \in Sdhc)) /\ card.wide /\ wide

-----------------------------------------------------------------------------

DriverStep(d) == Start(d) \/ Select(d) \/ Transfer(d) \/ Release(d)

=============================================================================
