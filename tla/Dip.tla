---------------------------------- MODULE Dip ----------------------------------
(***************************************************************************)
(* The DIP plugin: the code that the cIOS runs inside Nintendo's DVD       *)
(* driver.  It serves each disc command (DI_EmulateCmd) either from the    *)
(* drive, or from a WBFS partition, or from a list of fragments of a file  *)
(* on a USB or SD device, as the mode bits of its global config say.       *)
(*                                                                         *)
(* The driver has one thread and one message queue: a command is atomic    *)
(* with respect to the other commands.  Answers of other modules (a device *)
(* that does not come up, a disc that is not on the partition, a failed    *)
(* read, no memory left) are chosen by \E over BOOLEAN.                    *)
(*                                                                         *)
(* An image is what a read delivers.  A disc of a WBFS partition is named  *)
(* by its disc ID; a fragment list is named by its size in bytes, so that  *)
(* a list read back with the wrong size is not the same list.              *)
(***************************************************************************)

EXTENDS Naturals, Stealth

CONSTANTS
  Device,       \* devices a loader names in WBFS_SET and FRAG_SET, from 1 on
  Disc,         \* IDs of the discs of the WBFS partitions
  FragSize,     \* sizes of the fragment lists the loaders pass
  MaxFragList,  \* sizeof(FragList)
  Offset,       \* values of the base and drive offsets, 0 among them
  ReadOffset,   \* offsets of plain reads
  LoaderBit,    \* mode bits a loader sets: "CRYPT", "COVER_OVERRIDE"
  DualLayer,    \* the images that go on beyond LayerProbe
  None          \* no device, no image

ASSUME DipAssumption ==
  /\ Device \subseteq Nat \ {0}
  /\ FragSize \subseteq Nat
  /\ MaxFragList \in Nat
  /\ Disc \cap Nat = {}
  /\ 0 \in Offset /\ Offset \subseteq Nat
  /\ ReadOffset \subseteq Nat
  /\ LoaderBit \subseteq {"CRYPT", "COVER_OVERRIDE"}
  /\ None \notin Device \cup Disc \cup FragSize

Dvd5Length == 1174994944  \* DVD5_LENGTH, in words
Dvd9Length == 2127790080  \* DVD9_LENGTH, in words
LayerProbe == 1191182336  \* 0x47000000: where __DI_CheckDisc looks for a layer

VARIABLES
  config,         \* struct dipConfig
  dipCfgState,    \* struct dipConfigState: what SAVE_CONFIG writes
  frag_dev,       \* device of the open fragment list, None when closed
  fraglist_data,  \* size of the list held in memory, 0 for none
  wbfs,           \* devFd of the plugin, and the disc open behind it
  lowmem          \* the disc ID at address 0, where the PPC has it read

dipVars == <<config, dipCfgState, frag_dev, fraglist_data, wbfs, lowmem>>

ModeBit == {"DVDROM", "CRYPT", "WBFS", "FRAG", "COVER_OVERRIDE"}
MODE_EMUL == {"WBFS", "FRAG"}

DipConfig == [mode : SUBSET ModeBit, type : {"UNKNOWN", "DVD5", "DVD9"},
              base : Offset, drive : Offset,
              error : {"NONE", "BLOCK_RANGE", "WRONG_DISC"},
              cover : BOOLEAN, noreset : BOOLEAN]
DipConfigState == [mode : SUBSET ModeBit, device : Device \cup {0},
                   frag_size : FragSize \cup {0}]

DipTypeOK ==
  /\ config \in DipConfig
  /\ dipCfgState \in DipConfigState
  /\ frag_dev \in Device \cup {None}
  /\ fraglist_data \in FragSize \cup {0}
  /\ wbfs \in [fd : Device \cup {None}, disc : Disc \cup {None}]
  /\ lowmem \in Disc \cup {None}

\* The plugin's memory as the module is loaded.
NoConfig == [mode |-> {}, type |-> "UNKNOWN", base |-> 0, drive |-> 0,
             error |-> "NONE", cover |-> FALSE, noreset |-> FALSE]
NoDipCfg == [mode |-> {}, device |-> 0, frag_size |-> 0]
NoWbfs == [fd |-> None, disc |-> None]

DipInit ==
  /\ config = NoConfig
  /\ dipCfgState = NoDipCfg
  /\ frag_dev = None
  /\ fraglist_data = 0
  /\ wbfs = NoWbfs
  /\ lowmem = None

-----------------------------------------------------------------------------
(* Helpers *)

DI_ChkMode(bits) == config.mode \cap bits # {}

\* Every command but REQERROR first clears the error of the one before.
Cleared == [config EXCEPT !.error = "NONE"]

\* __DI_CheckOffset, for the disc type of configuration c.
OutOfRange(c, offset) ==
  \/ c.type = "DVD5" /\ offset >= Dvd5Length
  \/ c.type = "DVD9" /\ offset >= Dvd9Length

\* The image an unencrypted read comes from, in the order of
\* __DI_ReadUnencrypted; None for the drive and for a source that is not open.
EmulatedImage ==
  IF DI_ChkMode({"FRAG"}) THEN (IF frag_dev = None THEN None ELSE fraglist_data)
  ELSE IF DI_ChkMode({"WBFS"}) THEN wbfs.disc
  ELSE None

WbfsNotOpen ==
  "FRAG" \notin config.mode /\ "WBFS" \in config.mode /\ wbfs.disc = None

\* No offset moves the disc.
AtStart == config.base = 0 /\ config.drive = 0

-----------------------------------------------------------------------------
(* Commands every program may send *)

\* Faulty: the reset lock is not looked at.
ResetAlways ==
  /\ config' = [Cleared EXCEPT !.mode = @ \ {"CRYPT", "DVDROM"}, !.type = "UNKNOWN",
                               !.base = 0, !.drive = 0, !.noreset = FALSE,
                               !.cover = DI_ChkMode(MODE_EMUL)]
  /\ UNCHANGED <<dipCfgState, frag_dev, fraglist_data, wbfs, lowmem>>

\* IOCTL_DI_RESET.  The motor is stopped when the disc is emulated; otherwise
\* the drive resets itself.
Reset ==
  /\ config' = IF config.noreset THEN Cleared
               ELSE [Cleared EXCEPT !.mode = @ \ {"CRYPT", "DVDROM"},
                                    !.type = "UNKNOWN", !.base = 0, !.drive = 0,
                                    !.cover = DI_ChkMode(MODE_EMUL)]
  /\ UNCHANGED <<dipCfgState, frag_dev, fraglist_data, wbfs, lowmem>>

\* __DI_CheckDisc: one more read decides the type.  It is refused at once when
\* the type in force says the disc ends before LayerProbe, and then leaves an
\* error behind.  An emulated image at offset 0 answers as it is (a device that
\* has just delivered the header is not taken to fail here); `layer` is the
\* answer of the drive, or of an image the offsets move.
CheckDisc(c, layer) ==
  LET refused == OutOfRange(c, LayerProbe)
      found   == IF EmulatedImage # None /\ AtStart
                 THEN EmulatedImage \in DualLayer ELSE layer
  IN  [c EXCEPT !.error = IF refused THEN "BLOCK_RANGE" ELSE @,
                !.type = IF ~refused /\ found THEN "DVD9" ELSE "DVD5"]

\* IOCTL_DI_READID, into address 0 as the disc boot code has it.  A drive that
\* fails its own command is retried as a plain DVD; `gamecube` is the magic
\* word found in the header read.  Without memory for the probe of the second
\* layer the type stays unknown.
ReadDiscId(cmdOk, readOk, gamecube, layer) ==
  LET c1     == IF DI_ChkMode(MODE_EMUL) \/ cmdOk THEN Cleared
                ELSE [Cleared EXCEPT !.mode = @ \cup {"DVDROM"}]
      manual == \/ c1.mode \cap ({"DVDROM"} \cup MODE_EMUL) # {}
                \/ c1.base # 0 \/ c1.drive # 0
      ok     == IF manual THEN readOk /\ ~WbfsNotOpen ELSE cmdOk
  IN  /\ config' \in IF ~ok THEN {c1}
                     ELSE IF gamecube THEN {[c1 EXCEPT !.type = "DVD9"]}
                     ELSE {c1, CheckDisc(c1, layer)}
      /\ lowmem' = IF ~ok THEN lowmem
                   ELSE IF EmulatedImage \in Disc /\ AtStart THEN EmulatedImage
                   ELSE None
      /\ UNCHANGED <<dipCfgState, frag_dev, fraglist_data, wbfs>>

\* The unencrypted reads, READBCA, and LOW_READ in crypt mode.
Read(offset) ==
  /\ config' = IF OutOfRange(config, offset)
               THEN [config EXCEPT !.error = "BLOCK_RANGE"] ELSE Cleared
  /\ UNCHANGED <<dipCfgState, frag_dev, fraglist_data, wbfs, lowmem>>

\* IOCTL_DI_OFFSET; a retail disc in the drive does it itself.
SetDriveOffset(offset) ==
  /\ config' = IF DI_ChkMode({"DVDROM"} \cup MODE_EMUL)
               THEN [Cleared EXCEPT !.drive = offset] ELSE Cleared
  /\ UNCHANGED <<dipCfgState, frag_dev, fraglist_data, wbfs, lowmem>>

\* IOCTL_DI_REPORT_KEY
ReportKey ==
  /\ config' = IF DI_ChkMode({"DVDROM"} \cup MODE_EMUL)
               THEN [Cleared EXCEPT !.error = "WRONG_DISC"] ELSE Cleared
  /\ UNCHANGED <<dipCfgState, frag_dev, fraglist_data, wbfs, lowmem>>

\* IOCTL_DI_COVER_CLEAR, one of DI_EmulateIoctl's: no command, so the error
\* stays.
ClearCover ==
  /\ DI_ChkMode(MODE_EMUL \cup {"COVER_OVERRIDE"})
  /\ config' = [config EXCEPT !.cover = FALSE]
  /\ UNCHANGED <<dipCfgState, frag_dev, fraglist_data, wbfs, lowmem>>

\* Every other command leaves the plugin's state alone but for the error:
\* LOW_READ of the drive, SEEK, AUDIO_CONFIG, REQCOVER, CUSTOMCMD, the GETs,
\* and every custom command that a running title hides (goto handle_cmd).
OtherCmd ==
  /\ config' = Cleared
  /\ UNCHANGED <<dipCfgState, frag_dev, fraglist_data, wbfs, lowmem>>

-----------------------------------------------------------------------------
(* Custom commands, hidden while a title runs *)

\* IOCTL_DI_OFFSET_SET
SetBaseOffset(offset) ==
  /\ ~GetRunningTitle
  /\ config' = [Cleared EXCEPT !.base = offset]
  /\ UNCHANGED <<dipCfgState, frag_dev, fraglist_data, wbfs, lowmem>>

\* IOCTL_DI_CRYPT_SET and IOCTL_DI_COVER_OVERRIDE_SET
SetPlainMode(bit, on) ==
  /\ ~GetRunningTitle
  /\ config' = [Cleared EXCEPT !.mode = IF on THEN @ \cup {bit} ELSE @ \ {bit}]
  /\ UNCHANGED <<dipCfgState, frag_dev, fraglist_data, wbfs, lowmem>>

\* WBFS_Open.  The device may refuse the open, or hold no such disc: then the
\* descriptor stays open with no disc behind it.
WBFS_Open(device, disc, opened, found) ==
  IF ~opened THEN NoWbfs
  ELSE [fd |-> device, disc |-> IF found THEN disc ELSE None]

\* Faulty: the snapshot is taken before the mode bit is set.
SetWbfsModeEarlySnapshot(device, disc, opened, found) ==
  LET w  == IF device = 0 THEN NoWbfs ELSE WBFS_Open(device, disc, opened, found)
      on == w.disc # None
      c1 == [Cleared EXCEPT !.mode = @ \ {"WBFS"}]
  IN  /\ ~GetRunningTitle
      /\ wbfs' = w
      /\ config' = IF on THEN [c1 EXCEPT !.mode = @ \cup {"WBFS"}] ELSE c1
      /\ dipCfgState' = IF on THEN [mode |-> c1.mode, device |-> device, frag_size |-> 0]
                        ELSE dipCfgState
      /\ UNCHANGED <<frag_dev, fraglist_data, lowmem>>

\* IOCTL_DI_WBFS_SET.  Device 0 only closes.
SetWbfsMode(device, disc, opened, found) ==
  LET w  == IF device = 0 THEN NoWbfs ELSE WBFS_Open(device, disc, opened, found)
      on == w.disc # None
      c1 == [Cleared EXCEPT !.mode = @ \ {"WBFS"}]
      c2 == IF on THEN [c1 EXCEPT !.mode = @ \cup {"WBFS"}] ELSE c1
  IN  /\ ~GetRunningTitle
      /\ wbfs' = w
      /\ config' = c2
      /\ dipCfgState' = IF on THEN [mode |-> c2.mode, device |-> device, frag_size |-> 0]
                        ELSE dipCfgState
      /\ UNCHANGED <<frag_dev, fraglist_data, lowmem>>

\* The checks of Frag_Init that come before anything is stored; `up` says that
\* the device came up and that there was memory for the sector buffer.
FragInitOK(device, size, up) ==
  device \in Device /\ size # 0 /\ size <= MaxFragList /\ up

\* Faulty: the list is closed, but the mode bit goes only with device 0.
SetFragModeKeepsBit(device, size, up) ==
  LET on == FragInitOK(device, size, up)
      c2 == [Cleared EXCEPT !.mode = IF on THEN @ \cup {"FRAG"}
                                     ELSE IF device = 0 THEN @ \ {"FRAG"} ELSE @]
  IN  /\ ~GetRunningTitle
      /\ frag_dev' = IF on THEN device ELSE None
      /\ fraglist_data' = IF on THEN size ELSE fraglist_data
      /\ config' = c2
      /\ dipCfgState' = IF on THEN [mode |-> c2.mode, device |-> device, frag_size |-> size]
                        ELSE dipCfgState
      /\ UNCHANGED <<wbfs, lowmem>>

\* IOCTL_DI_FRAG_SET.  Device 0, no list or size 0 only closes.  The list in
\* memory is replaced only by a list that opens.
SetFragMode(device, size, up) ==
  LET on == FragInitOK(device, size, up)
      c1 == [Cleared EXCEPT !.mode = @ \ {"FRAG"}]
      c2 == IF on THEN [c1 EXCEPT !.mode = @ \cup {"FRAG"}] ELSE c1
  IN  /\ ~GetRunningTitle
      /\ frag_dev' = IF on THEN device ELSE None
      /\ fraglist_data' = IF on THEN size ELSE fraglist_data
      /\ config' = c2
      /\ dipCfgState' = IF on THEN [mode |-> c2.mode, device |-> device, frag_size |-> size]
                        ELSE dipCfgState
      /\ UNCHANGED <<wbfs, lowmem>>

\* IOCTL_DI_RESET_DISABLE
DisableReset(value) ==
  /\ ~GetRunningTitle
  /\ config' = [Cleared EXCEPT !.noreset = value]
  /\ UNCHANGED <<dipCfgState, frag_dev, fraglist_data, wbfs, lowmem>>

-----------------------------------------------------------------------------

\* Commands a game may send; a loader sends them too.
PlainCmd ==
  \/ Reset
  \/ \E cmdOk, readOk, gamecube, layer \in BOOLEAN :
       ReadDiscId(cmdOk, readOk, gamecube, layer)
  \/ \E offset \in ReadOffset : Read(offset)
  \/ \E offset \in Offset : SetDriveOffset(offset)
  \/ ReportKey
  \/ ClearCover
  \/ OtherCmd

\* The commands of the loaders that open and close a source.
SetSource ==
  \/ \E device \in Device \cup {0}, disc \in Disc, opened, found \in BOOLEAN :
       SetWbfsMode(device, disc, opened, found)
  \/ \E device \in Device \cup {0}, size \in FragSize \cup {0}, up \in BOOLEAN :
       SetFragMode(device, size, up)

\* Commands of the loaders.
CustomCmd ==
  \/ SetSource
  \/ \E offset \in Offset : SetBaseOffset(offset)
  \/ \E bit \in LoaderBit, on \in BOOLEAN : SetPlainMode(bit, on)
  \/ \E value \in BOOLEAN : DisableReset(value)

DI_EmulateCmd == PlainCmd \/ CustomCmd

\* The plugin with nothing around it but MLOAD's flags: ES says when a title
\* runs, a program switches the stealth mode.
DipNext ==
  \/ DI_EmulateCmd /\ UNCHANGED stealthVars
  \/ \E b \in BOOLEAN : SetRunningTitle(b) /\ UNCHANGED dipVars
  \/ \E b \in BOOLEAN : SetStealthMode(b) /\ UNCHANGED dipVars

DipAloneInit == StealthInit /\ DipInit

DipSpec == DipAloneInit /\ [][DipNext]_<<stealthVars, dipVars>>

-----------------------------------------------------------------------------
(* Properties *)

\* The plugin never has a mode bit set whose source is not open: a read in FRAG
\* mode finds the fragment list and its sector buffer (__Frag_ReadSect uses
\* frag_list without looking), and one in WBFS mode finds a disc.  A set
\* command closes first and fails in the middle; this is why DelMode comes
\* before the open and SetMode only after it.
ModeIsBacked ==
  /\ "FRAG" \in config.mode => frag_dev # None
  /\ "WBFS" \in config.mode => wbfs.disc # None

\* dipCfgState is a copy made when a source was set, and SAVE_CONFIG writes the
\* copy, not config.  While a disc is emulated the copy names an emulation;
\* and whenever it names just the one that is live, it holds the device and the
\* list that are open, so that reopening them reopens the same source.
SnapshotMatchesSource ==
  LET live  == config.mode \cap MODE_EMUL
      saved == dipCfgState.mode \cap MODE_EMUL
  IN  /\ live # {} => saved # {}
      /\ live = {"FRAG"} /\ saved = {"FRAG"} =>
           dipCfgState.device = frag_dev /\ dipCfgState.frag_size = fraglist_data
      /\ live = {"WBFS"} /\ saved = {"WBFS"} => dipCfgState.device = wbfs.fd

\* While a title runs in stealth mode no sequence of its commands changes what
\* the disc is: the sources, the snapshot, the cover override and the reset
\* lock stay as the loader left them, whatever command is tried.
TitleCannotSwitchDisc ==
  [][GetRunningTitle /\ GetRunningTitle' =>
       /\ UNCHANGED <<dipCfgState, frag_dev, fraglist_data, wbfs, config.noreset>>
       /\ config'.mode \cap (MODE_EMUL \cup {"COVER_OVERRIDE"})
            = config.mode \cap (MODE_EMUL \cup {"COVER_OVERRIDE"})]_<<stealthVars, dipVars>>

=============================================================================
