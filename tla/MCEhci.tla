-------------------------------- MODULE MCEhci --------------------------------
(***************************************************************************)
(* Ehci for TLC.  A state leaves out the last answer, which only the step  *)
(* that gives it is about, what the devices hold while none is written to, *)
(* which decides no step, what no step reads before it is set anew, and    *)
(* whether there are descriptors to be given back twice, where no transfer *)
(* goes wrong.                                                             *)
(***************************************************************************)

EXTENDS Ehci, TLC

CONSTANTS d1, d2, app, tool

Different == [d \in {d1, d2} |-> d]

\* Two clients of the disk at a time
Kinds ==
  [c \in {app, tool} |->
     {"open", "close", "init", "umount", "read"}
       \cup IF c = app THEN {"write", "wbfs_open", "wbfs_read"} ELSE {}]
\* 3 sectors are none with 3 for the 65536 of the code.
Spans == {<<1, 2>>, <<1, 3>>}
\* 4 are one.
LongSpans == {<<1, 2>>, <<1, 1>>, <<1, 4>>}

\* With transfers that go wrong: one client, which asks for everything else too
AllKinds ==
  [c \in {app} |-> {"open", "close", "init", "umount", "read", "write", "stress",
                    "hook", "plain", "open_device", "control", "bulk"}]

\* Every port reset, and one comes first, sets the device and its toggles anew.
InUse == owner # None \/ (usb.mounted /\ ~usb.unplug_device)

NeededUsb ==
  [usb EXCEPT !.old_udd = IF usb.ums_init_done THEN @ ELSE None,
              !.udd = @ /\ MaxFault > 0,
              !.media = IF Working("write") THEN @ ELSE <<>>,
              !.dev = IF InUse THEN @ ELSE Dark,
              !.tog = IF InUse THEN @ ELSE [in |-> 0, out |-> 0]]

State == <<NeededUsb, queue, turn, armed, discovered, ums_mode, fd, owner, disc.open,
           disc.live, waiting, faults, home>>

=============================================================================
