------------------------------ MODULE MCUsbModule ------------------------------
(***************************************************************************)
(* UsbModule for TLC: a device that is pulled out and plugged in again, or *)
(* two of one model.                                                       *)
(***************************************************************************)

EXTENDS UsbModule, TLC

CONSTANT stick

MCModelOf == [d \in Dev |-> stick]

\* No step but theirs depends on the handles of the disc, requests that only read
\* are handled alike, and what the kernel answered counts until it is seen.
Alike(kind) == IF kind \in {"capacity", "readdisc"} THEN "io" ELSE kind
Unseen == <<"devchange", None>> \in Range(queue) \cup {work.msg} /\ ~refused
State == <<kernel, power, waiting, attached, IF Unseen THEN result ELSE 0, refused,
           queue, [c \in Client |-> Alike(ask[c])], work, inited, mounted, vid, usbfd, due>>

=============================================================================
