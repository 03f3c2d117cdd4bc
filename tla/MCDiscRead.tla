------------------------------ MODULE MCDiscRead ------------------------------
(***************************************************************************)
(* DiscRead for TLC.  Two lists of fragments: with holes inside and at the *)
(* end, and without; every short read of them and of a disc.  Addresses    *)
(* are alike.  The view leaves out what a driver without a descriptor      *)
(* remembers of its card, since no command of it reaches the card and its  *)
(* next start begins with writing all of it; initialized, since a driver   *)
(* that rests with a descriptor is up, and the shutdown of one without     *)
(* changes nothing else; the wires of the host and the holder while no     *)
(* driver, or not that one, has a descriptor, since a start that succeeds  *)
(* writes them anew; and the buffer of a read that lost a transfer.        *)
(***************************************************************************)

EXTENDS DiscRead, TLC

Frag(offset, count, sector) == [offset |-> offset, count |-> count, sector |-> sector]
Holes(dev) == [dev |-> dev, frag |-> <<Frag(0, 1, 7), Frag(1, 1, 3), Frag(3, 2, 9)>>, size |-> 6]
Whole(dev) == [dev |-> dev, frag |-> <<Frag(0, 3, 4), Frag(3, 3, 12)>>, size |-> 6]
MCFragLists == {Holes("usb"), Whole("usb"), Holes("sd")}

MCRequest ==
  [src : {"usb"}, offset : 0 .. 12, len : 1 .. 7] \cup [src : {"sd"}, offset : {4}, len : {3}]
MCDvdRequest == [offset : 0 .. 7, len : 1 .. 9, buffer : {0, 1, 6}]

Alike == Permutations(Rca)
Remembered(r) == IF r.fd THEN [r EXCEPT !.initialized = FALSE] ELSE Down
View ==
  <<slot, card, known, wide /\ \E d \in Driver : drv[d].fd,
    IF \E d \in Driver : holder = d /\ drv[d].fd THEN holder ELSE None,
    [d \in Driver |-> Remembered(drv[d])], op, answer, budget, list, fd,
    IF dip.lost THEN [dip EXCEPT !.data = <<>>] ELSE dip>>

=============================================================================
