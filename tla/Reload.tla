-------------------------------- MODULE Reload --------------------------------
(***************************************************************************)
(* IOS reload block: ES plugin, DIP plugin, the mode of the FFS plugin and *)
(* the three config files they leave on the NAND, through the reboot that  *)
(* wipes everything else.                                                  *)
(*                                                                         *)
(* A game that launches an IOS reaches the ES plugin.  ES has DIP save the *)
(* NAND and disc emulation in files, saves its own config, and launches    *)
(* the cIOS again in place of the IOS.  The cIOS that boots loads the      *)
(* files: ES in its main, DIP at the first message of the DVD driver.      *)
(*                                                                         *)
(* pc is where ES stands in its launch handler; every call it makes on     *)
(* another module, and every write, is a step of its own, so that a power  *)
(* cut and the other requests fall between any two of them.                *)
(***************************************************************************)

EXTENDS Dip

CONSTANTS
  Title,      \* IDs of disc based games
  FatDevice,  \* devices of the FAT module: SD card, USB
  Partition,  \* partitions a loader mounts
  Path,       \* folders that hold an emulated NAND
  Partial     \* a file that exists but is not whole

Target == [dev : FatDevice, path : Path, full : BOOLEAN]
FfsState == [target : Target \cup {None}, part : Partition \cup {None}]
DipFile == [mode : SUBSET ModeBit, device : Device \cup {0},
            frag_size : FragSize \cup {0}, list : FragSize \cup {0}]
EsConfig == [fakelaunch : BOOLEAN, title_id : Title \cup {None}]

ASSUME ReloadAssumption ==
  None \notin Title \cup DipFile /\ None # Partial

VARIABLES
  es,           \* struct esConfig: block enabled, title asking for a reload
  title,        \* the disc based title ES has identified, None for others
  ffs,          \* mode and path of the FFS plugin, None when NAND is real
  mounted,      \* partition the FAT module has mounted on each device
  ffsCfgState,  \* struct ffsConfigState of DIP
  nand,         \* the files dip.cfg, ffs.cfg and esp.cfg of the real NAND
  pc,           \* ES in its launch handler, the system menu's part included
  power,        \* "off", "boot" once ES is up, "dip" once DIP has restored the
                \* disc, "on" when the drive is ready
  owed          \* history: what the next session owes to the game

reloadVars == <<es, title, ffs, mounted, ffsCfgState, nand, pc, power, owed>>
vars == <<stealthVars, dipVars, reloadVars>>

\* Where a NAND access goes.
Store == IF ffs = None THEN None ELSE [target |-> ffs, part |-> mounted[ffs.dev]]

\* Where a disc read comes from.
Source == IF DI_ChkMode({"FRAG"}) THEN <<"FRAG", frag_dev, fraglist_data>>
          ELSE IF DI_ChkMode({"WBFS"}) THEN <<"WBFS", wbfs.fd, wbfs.disc>>
          ELSE <<"DRIVE", None, None>>

SourceSet ==
  {"FRAG", "WBFS", "DRIVE"} \X (Device \cup {None}) \X (FragSize \cup {0} \cup Disc \cup {None})

Nand == [dip : DipFile \cup {None, Partial}, ffs : FfsState \cup {None, Partial},
         esp : EsConfig \cup {None, Partial}]
Owed == [src : SourceSet, store : FfsState \cup {None},
         title : Title \cup {None}, ok : BOOLEAN]

ReloadTypeOK ==
  /\ StealthTypeOK
  /\ DipTypeOK
  /\ es \in EsConfig
  /\ title \in Title \cup {None}
  /\ ffs \in Target \cup {None}
  /\ mounted \in [FatDevice -> Partition \cup {None}]
  /\ ffsCfgState \in FfsState
  /\ nand \in Nand
  /\ pc \in {"idle", "save", "ffs_cfg", "dip_cfg", "clear", "esp_cfg", "launch",
             "menu", "menu_clear", "menu_launch"}
  /\ power \in {"off", "boot", "dip", "on"}
  /\ owed \in Owed

NoEsConfig == [fakelaunch |-> FALSE, title_id |-> None]
NoFfsState == [target |-> None, part |-> None]

NothingOwed ==
  [src |-> <<"DRIVE", None, None>>, store |-> None, title |-> None, ok |-> FALSE]

\* Nothing of the cIOS survives in memory.
MemoryLost ==
  /\ running_title' = FALSE /\ es_request' = FALSE /\ stealth_mode' = TRUE
  /\ config' = NoConfig /\ dipCfgState' = NoDipCfg
  /\ frag_dev' = None /\ fraglist_data' = 0 /\ wbfs' = NoWbfs
  /\ es' = NoEsConfig /\ title' = None
  /\ ffs' = None /\ mounted' = [d \in FatDevice |-> None]
  /\ ffsCfgState' = NoFfsState
  /\ pc' = "idle" /\ power' = "off"

ReloadInit ==
  /\ StealthInit /\ DipInit
  /\ es = NoEsConfig /\ title = None
  /\ ffs = None /\ mounted = [d \in FatDevice |-> None]
  /\ ffsCfgState = NoFfsState
  /\ nand = [dip |-> None, ffs |-> None, esp |-> None]
  /\ pc = "idle" /\ power = "off"
  /\ owed = NothingOwed

-----------------------------------------------------------------------------
(* Config files *)

\* Create, open and write.  A full NAND emulation swallows the file: the next
\* boot reads the real NAND.  A write that fails leaves what was there or a
\* torn file.
SaveFile(name, contents, written) ==
  IF ffs # None /\ ffs.full THEN nand' = nand
  ELSE IF written THEN nand' = [nand EXCEPT ![name] = contents]
  ELSE \E left \in {nand[name], Partial} : nand' = [nand EXCEPT ![name] = left]

\* Faulty: the file stays for the next boot.
LoadedFileKept(name, deleted) == nand' = nand

\* A loaded file is deleted; nobody looks whether that worked.
LoadedFile(name, deleted) ==
  nand' = IF deleted THEN [nand EXCEPT ![name] = None] ELSE nand

\* The reload goes on as promised, or nothing is owed any more.
Owing(ok) == owed' = IF ok THEN owed ELSE NothingOwed

-----------------------------------------------------------------------------
(* Boot and restore *)

\* Faulty: stage 2 enables the block whatever the config says.
EsMainForgets(deleted) ==
  /\ power = "off"
  /\ power' = "boot"
  /\ es' = [fakelaunch |-> TRUE, title_id |-> None]
  /\ IF nand.esp = None THEN nand' = nand ELSE LoadedFile("esp", deleted)
  /\ Owing(nand.esp \notin {None, Partial} /\ deleted)
  /\ UNCHANGED <<stealthVars, dipVars, title, ffs, mounted, ffsCfgState, pc>>

\* ES plugin main: Config_Load, whose result nobody looks at, then stage 2,
\* which enables the block unless a title ID says that a game asked for this
\* boot.
EsMain(deleted) ==
  /\ power = "off"
  /\ power' = "boot"
  /\ es' = IF nand.esp \in {None, Partial} \/ nand.esp.title_id = None
           THEN [fakelaunch |-> TRUE, title_id |-> None] ELSE nand.esp
  /\ IF nand.esp = None THEN nand' = nand ELSE LoadedFile("esp", deleted)
  /\ Owing(nand.esp \notin {None, Partial} /\ deleted)
  /\ UNCHANGED <<stealthVars, dipVars, title, ffs, mounted, ffsCfgState, pc>>

\* What a file carries whose fragment list is not whole.
TornCopies == {c \in DipConfigState : c.mode = {"FRAG"} /\ c.device # 0}

\* Faulty: the restored state is not kept as the copy for the next reload.
RestoreDipNoCopy(deleted, opened, found, up) ==
  LET f == nand.dip
      on == f \notin {None, Partial}
  IN  /\ power = "boot"
      /\ power' = "dip"
      /\ config' = IF on THEN [config EXCEPT !.mode = f.mode] ELSE config
      /\ frag_dev' = IF on /\ "FRAG" \in f.mode /\ up THEN f.device ELSE frag_dev
      /\ fraglist_data' = IF on /\ f.mode = {"FRAG"} THEN f.list ELSE 0
      /\ wbfs' = IF on /\ "WBFS" \in f.mode THEN [fd |-> f.device, disc |-> lowmem] ELSE wbfs
      /\ IF f = None THEN nand' = nand ELSE LoadedFile("dip", deleted)
      /\ Owing(deleted)
      /\ UNCHANGED <<stealthVars, dipCfgState, lowmem, es, title, ffs, mounted, ffsCfgState, pc>>

\* DI_Config_Load and the disc half of __DI_InitDriveEmulation.  Only a file in
\* mode FRAG and no other mode carries a list; one whose list is torn has
\* overwritten the copy before that shows.  The answers of WBFS_Open and
\* Frag_Init are not looked at: the mode is set whatever they say.
RestoreDip(deleted, opened, found, up) ==
  LET f      == nand.dip
      wbfsOn == "WBFS" \in f.mode
      fragOn == "FRAG" \in f.mode /\ ~wbfsOn
      list   == IF f.mode = {"FRAG"} THEN f.list ELSE 0
      init   == fragOn /\ FragInitOK(f.device, f.frag_size, up)
      backed == (wbfsOn => opened /\ found) /\ (fragOn => up)
  IN  /\ power = "boot"
      /\ power' = "dip"
      /\ IF f \in {None, Partial}
         THEN /\ dipCfgState' \in {dipCfgState} \cup (IF f = Partial THEN TornCopies ELSE {})
              /\ UNCHANGED <<config, frag_dev, fraglist_data, wbfs, lowmem>>
              /\ Owing(f = None /\ deleted)
         ELSE /\ config' = [config EXCEPT !.mode = f.mode]
              /\ dipCfgState' = [mode |-> f.mode, device |-> f.device, frag_size |-> f.frag_size]
              /\ fraglist_data' = list
              /\ frag_dev' = IF init THEN f.device ELSE None
              /\ wbfs' = IF wbfsOn
                         THEN WBFS_Open(f.device, lowmem, opened, found /\ lowmem # None)
                         ELSE NoWbfs
              /\ UNCHANGED lowmem
              /\ Owing(deleted /\ backed)
      /\ IF f = None THEN nand' = nand ELSE LoadedFile("dip", deleted)
      /\ UNCHANGED <<stealthVars, es, title, ffs, mounted, ffsCfgState, pc>>

\* Faulty: emulation is enabled on a partition nobody mounted.
RestoreFfsNoMount(deleted, mountOk, initOk) ==
  LET f  == nand.ffs
      on == f \notin {None, Partial} /\ f.target # None
  IN  /\ power = "dip"
      /\ power' = "on"
      /\ ffsCfgState' = IF f \in {None, Partial} THEN ffsCfgState ELSE f
      /\ ffs' = IF on /\ initOk THEN f.target ELSE None
      /\ IF f = None THEN nand' = nand ELSE LoadedFile("ffs", deleted)
      /\ Owing(f # Partial /\ deleted /\ (on => mountOk /\ initOk))
      /\ UNCHANGED <<stealthVars, dipVars, es, title, mounted, pc>>

\* FFS_Config_Load and the NAND half: mount the partition, enable emulation.
\* The FFS plugin refuses while a title runs, and falls back to the real NAND
\* when the FAT module does not answer.
RestoreFfs(deleted, mountOk, initOk) ==
  LET f  == nand.ffs
      on == f \notin {None, Partial} /\ f.target # None
  IN  /\ power = "dip"
      /\ power' = "on"
      /\ ffsCfgState' = IF f \in {None, Partial} THEN ffsCfgState ELSE f
      /\ mounted' = IF on THEN [mounted EXCEPT ![f.target.dev] = IF mountOk THEN f.part ELSE None]
                    ELSE mounted
      /\ ffs' = IF on /\ ~GetRunningTitle THEN (IF initOk THEN f.target ELSE None) ELSE ffs
      /\ IF f = None THEN nand' = nand ELSE LoadedFile("ffs", deleted)
      /\ owed' = IF owed.ok /\ f # Partial /\ deleted /\ (on => mountOk /\ initOk)
                 THEN [NothingOwed EXCEPT !.title = owed.title, !.ok = TRUE]
                 ELSE NothingOwed
      /\ UNCHANGED <<stealthVars, dipVars, es, title, pc>>

-----------------------------------------------------------------------------
(* What programs do in a session *)

InSession == power = "on" /\ pc = "idle"

\* A disc command.  The DVD driver is busy while it saves its config.
DiscCmd ==
  /\ power = "on"
  /\ pc \notin {"ffs_cfg", "dip_cfg"}
  /\ \/ Reset
     \/ \E cmdOk, readOk \in BOOLEAN : ReadDiscId(cmdOk, readOk, FALSE, TRUE)
  /\ UNCHANGED <<stealthVars, reloadVars>>

\* A loader sets the sources of the disc.  Its other commands (Dip!CustomCmd)
\* change nothing that the files carry.
LoaderCmd ==
  /\ InSession
  /\ \/ \E bit \in LoaderBit, on \in BOOLEAN : SetPlainMode(bit, on)
     \/ SetSource
  /\ UNCHANGED <<stealthVars, reloadVars>>

\* IOCTL_ISFS_SETMODE with a device.  It is refused while a title runs; when
\* the FAT module does not answer, the NAND is real again.
EnableNandEmulation(target, initOk) ==
  /\ InSession
  /\ ~GetRunningTitle
  /\ ffs' = IF initOk THEN target ELSE None
  /\ UNCHANGED <<stealthVars, dipVars, es, title, mounted, ffsCfgState, nand, pc, power, owed>>

\* IOCTL_ISFS_SETMODE without: only ES may send it while a title runs.
SetModeOff == ffs' = IF GetRunningTitle /\ ~GetEsRequest THEN ffs ELSE None

\* A request of its own thread: it also falls between two steps of a launch,
\* where ES's flag lets it through and it spoils what is owed.
DisableNandEmulation ==
  /\ power = "on"
  /\ SetModeOff
  /\ Owing(pc = "idle" \/ ffs' = ffs)
  /\ UNCHANGED <<stealthVars, dipVars, es, title, mounted, ffsCfgState, nand, pc, power>>

\* IOCTL_FAT_MOUNT_SD and _USB.  A mount that fails unmounts.
MountFat(device, part, ok) ==
  /\ InSession
  /\ ~GetRunningTitle
  /\ mounted' = [mounted EXCEPT ![device] = IF ok THEN part ELSE None]
  /\ UNCHANGED <<stealthVars, dipVars, es, title, ffs, ffsCfgState, nand, pc, power, owed>>

\* IOCTL_ES_SET_FAKE_IOS_LAUNCH forgets the title that asked.
SetFakeIosLaunch(mode) ==
  /\ InSession
  /\ ~GetRunningTitle
  /\ es' = [fakelaunch |-> mode, title_id |-> None]
  /\ owed' = [owed EXCEPT !.title = None]
  /\ UNCHANGED <<stealthVars, dipVars, title, ffs, mounted, ffsCfgState, nand, pc, power>>

SwitchStealth(b) ==
  /\ InSession
  /\ ~GetRunningTitle
  /\ SetStealthMode(b)
  /\ UNCHANGED <<dipVars, reloadVars>>

\* IOCTL_ES_DIVERIFY with the TMD of title t.  After a reload the title ID of
\* the game that asked for it is compared and forgotten: another title has the
\* block disabled.
DiVerify(t, ok) ==
  /\ InSession
  /\ es' = IF es.fakelaunch /\ es.title_id # None
           THEN [fakelaunch |-> es.title_id = t, title_id |-> None] ELSE es
  /\ SetRunningTitle(ok)
  /\ title' = IF ok THEN t ELSE title
  /\ Owing(FALSE)
  /\ UNCHANGED <<dipVars, ffs, mounted, ffsCfgState, nand, pc, power>>

-----------------------------------------------------------------------------
(* Launches: IOCTL_ES_LAUNCH *)

\* The cIOS is launched in place of an IOS when a disc based game asks and the
\* block is enabled; tidOk is the answer of ES's own GetTitleID.
IsFakeLaunch(tidOk) ==
  es.fakelaunch /\ es.title_id = None /\ tidOk /\ title # None

\* What the files can carry through the reboot.  Each conjunct is a way in
\* which they cannot: see the README.
Restorable ==
  LET live  == config.mode \cap MODE_EMUL
      saved == dipCfgState.mode \cap MODE_EMUL
  IN  /\ live # {} => saved = live
      /\ live = {} => nand.dip = None
      /\ live # MODE_EMUL
      /\ live = {"FRAG"} => frag_dev # None /\ dipCfgState.mode = {"FRAG"}
      /\ live = {"WBFS"} => wbfs.disc # None /\ lowmem = wbfs.disc
      /\ ffs = None => nand.ffs = None
      /\ ffs # None => mounted[ffs.dev] # None

\* ES keeps the title ID, announces that the requests are its own, and turns
\* to the DVD driver.
FakeLaunch ==
  /\ InSession
  /\ IsFakeLaunch(TRUE)
  /\ es' = [es EXCEPT !.title_id = title]
  /\ SetEsRequest(TRUE)
  /\ pc' = "save"
  /\ owed' = IF Restorable
             THEN [src |-> Source, store |-> Store, title |-> title, ok |-> TRUE]
             ELSE NothingOwed
  /\ UNCHANGED <<dipVars, title, ffs, mounted, ffsCfgState, nand, power>>

\* IOCTL_DI_SAVE_CONFIG up to the first file: FFS says its mode and is switched
\* to the real NAND.  The answers of FAT_GetPartition and of the switch are not
\* looked at; an unmounted device leaves any value in the partition.
SaveConfig(opened, modeOk, offOk, junk) ==
  LET part == IF mounted[ffs.dev] # None THEN mounted[ffs.dev] ELSE junk
  IN  /\ pc = "save"
      /\ config' = IF opened THEN Cleared ELSE config
      /\ UNCHANGED <<dipCfgState, frag_dev, fraglist_data, wbfs, lowmem>>
      /\ IF ~(opened /\ GetEsRequest /\ modeOk)
         THEN /\ pc' = "clear" /\ Owing(FALSE)
              /\ UNCHANGED <<ffs, ffsCfgState>>
         ELSE IF ffs = None
         THEN /\ pc' = "dip_cfg" /\ Owing(TRUE)
              /\ ffsCfgState' = [ffsCfgState EXCEPT !.target = None]
              /\ UNCHANGED ffs
         ELSE /\ pc' = "ffs_cfg" /\ Owing(offOk)
              /\ ffsCfgState' = [target |-> ffs, part |-> part]
              /\ IF offOk THEN SetModeOff ELSE UNCHANGED ffs
      /\ UNCHANGED <<stealthVars, es, title, mounted, nand, power>>

\* FFS_Config_Save: DIP's own state is not saved when this fails.
SaveFfsConfig(written) ==
  /\ pc = "ffs_cfg"
  /\ SaveFile("ffs", ffsCfgState, written)
  /\ pc' = IF written THEN "dip_cfg" ELSE "clear"
  /\ Owing(written)
  /\ UNCHANGED <<stealthVars, dipVars, es, title, ffs, mounted, ffsCfgState, power>>

\* Faulty: the state is saved without the fragment list.
SaveDipConfigNoList(written) ==
  /\ pc = "dip_cfg"
  /\ IF DI_ChkMode(MODE_EMUL)
     THEN /\ SaveFile("dip",
               [mode |-> dipCfgState.mode, device |-> dipCfgState.device,
                frag_size |-> dipCfgState.frag_size, list |-> 0], written)
          /\ Owing(written)
     ELSE UNCHANGED <<nand, owed>>
  /\ pc' = "clear"
  /\ UNCHANGED <<stealthVars, dipVars, es, title, ffs, mounted, ffsCfgState, power>>

\* DI_Config_Save of dipCfgState, only when a disc is emulated.  The list in
\* memory goes with it when FRAG is the only mode of the copy.
SaveDipConfig(written) ==
  /\ pc = "dip_cfg"
  /\ IF DI_ChkMode(MODE_EMUL)
     THEN /\ SaveFile("dip",
               [mode |-> dipCfgState.mode, device |-> dipCfgState.device,
                frag_size |-> dipCfgState.frag_size,
                list |-> IF dipCfgState.mode = {"FRAG"} THEN fraglist_data ELSE 0],
               written)
          /\ Owing(written)
     ELSE UNCHANGED <<nand, owed>>
  /\ pc' = "clear"
  /\ UNCHANGED <<stealthVars, dipVars, es, title, ffs, mounted, ffsCfgState, power>>

\* Faulty: the flag is cleared only when DIP has disabled NAND emulation.
ClearEsRequestSometimes ==
  /\ pc = "clear"
  /\ SetEsRequest(ffs # None)
  /\ pc' = "esp_cfg"
  /\ UNCHANGED <<dipVars, es, title, ffs, mounted, ffsCfgState, nand, power, owed>>

\* Back in ES, whatever DIP answered.
ClearEsRequest ==
  /\ pc = "clear"
  /\ SetEsRequest(FALSE)
  /\ pc' = "esp_cfg"
  /\ UNCHANGED <<dipVars, es, title, ffs, mounted, ffsCfgState, nand, power, owed>>

\* Config_Save of ES.
SaveEsConfig(written) ==
  /\ pc = "esp_cfg"
  /\ SaveFile("esp", es, written)
  /\ pc' = "launch"
  /\ Owing(written)
  /\ UNCHANGED <<stealthVars, dipVars, es, title, ffs, mounted, ffsCfgState, power>>

\* __ES_CustomLaunch.  Without a ticket the game gets an error and goes on in
\* this session, with its NAND emulation off and its title ID kept.
LaunchCios(ok) ==
  /\ pc = "launch"
  /\ IF ok
     THEN MemoryLost /\ UNCHANGED <<lowmem, nand, owed>>
     ELSE /\ pc' = "idle"
          /\ Owing(FALSE)
          /\ UNCHANGED <<stealthVars, dipVars, es, title, ffs, mounted, ffsCfgState, nand, power>>

\* Any other launch of an IOS or a title takes the cIOS out of memory.
LaunchElsewhere(tidOk) ==
  /\ InSession
  /\ ~IsFakeLaunch(tidOk)
  /\ MemoryLost
  /\ Owing(FALSE)
  /\ UNCHANGED <<lowmem, nand>>

\* The system menu: ES announces that the request is its own, ...
LaunchSystemMenu ==
  /\ InSession
  /\ SetEsRequest(TRUE)
  /\ pc' = "menu"
  /\ Owing(FALSE)
  /\ UNCHANGED <<dipVars, es, title, ffs, mounted, ffsCfgState, nand, power>>

\* ... has the NAND switched to the real one, which nobody looks at, ...
MenuModeOff(offOk) ==
  /\ pc = "menu"
  /\ IF offOk THEN SetModeOff ELSE UNCHANGED ffs
  /\ pc' = "menu_clear"
  /\ UNCHANGED <<stealthVars, dipVars, es, title, mounted, ffsCfgState, nand, power, owed>>

\* ... takes the flag down, ...
MenuClear ==
  /\ pc = "menu_clear"
  /\ SetEsRequest(FALSE)
  /\ pc' = "menu_launch"
  /\ UNCHANGED <<dipVars, es, title, ffs, mounted, ffsCfgState, nand, power, owed>>

\* ... and launches the menu, or the title set in its place.  One that is not
\* there leaves the session with its NAND real.
LaunchMenu(ok) ==
  /\ pc = "menu_launch"
  /\ IF ok
     THEN MemoryLost /\ UNCHANGED <<lowmem, nand, owed>>
     ELSE /\ pc' = "idle"
          /\ UNCHANGED <<stealthVars, dipVars, es, title, ffs, mounted, ffsCfgState, nand,
                         power, owed>>

\* The console loses power, at any point of the above.
PowerCut ==
  /\ MemoryLost
  /\ lowmem' = None
  /\ Owing(FALSE)
  /\ UNCHANGED nand

-----------------------------------------------------------------------------

Boot ==
  \/ \E deleted \in BOOLEAN : EsMain(deleted)
  \/ \E deleted, opened, found, up \in BOOLEAN : RestoreDip(deleted, opened, found, up)
  \/ \E deleted, mountOk, initOk \in BOOLEAN : RestoreFfs(deleted, mountOk, initOk)

Program ==
  \/ DiscCmd
  \/ LoaderCmd
  \/ \E target \in Target, initOk \in BOOLEAN : EnableNandEmulation(target, initOk)
  \/ DisableNandEmulation
  \/ \E d \in FatDevice, p \in Partition, ok \in BOOLEAN : MountFat(d, p, ok)
  \/ \E mode \in BOOLEAN : SetFakeIosLaunch(mode)
  \/ \E b \in BOOLEAN : SwitchStealth(b)
  \/ \E t \in Title, ok \in BOOLEAN : DiVerify(t, ok)

\* ES and the DVD driver inside a launch.
LaunchStep ==
  \/ \E opened, modeOk, offOk \in BOOLEAN, junk \in Partition \cup {None} :
       SaveConfig(opened, modeOk, offOk, junk)
  \/ \E written \in BOOLEAN : SaveFfsConfig(written)
  \/ \E written \in BOOLEAN : SaveDipConfig(written)
  \/ ClearEsRequest
  \/ \E written \in BOOLEAN : SaveEsConfig(written)
  \/ \E ok \in BOOLEAN : LaunchCios(ok)
  \/ \E offOk \in BOOLEAN : MenuModeOff(offOk)
  \/ MenuClear
  \/ \E ok \in BOOLEAN : LaunchMenu(ok)

Next ==
  \/ Boot
  \/ Program
  \/ FakeLaunch
  \/ LaunchStep
  \/ \E tidOk \in BOOLEAN : LaunchElsewhere(tidOk)
  \/ LaunchSystemMenu
  \/ PowerCut

Spec == ReloadInit /\ [][Next]_vars

-----------------------------------------------------------------------------
(* Properties *)

\* The reload block keeps its promise: a reload in which every call and write
\* succeeded, of a session that the files can carry (Restorable), ends in a
\* session that reads the same source and stores in the same place.
Promise == INSTANCE ReloadSpec
             WITH up    <- InSession,
                  src   <- IF InSession THEN Source ELSE owed.src,
                  store <- IF InSession THEN Store ELSE owed.store,
                  kept  <- owed.ok

ReloadKeepsPromise == Promise!ReloadPromise

\* es_request opens the reserved commands of DIP and FFS to whoever asks: it is
\* up only while ES waits for DIP's answer in a reload, or for that of FFS
\* before the system menu, and down on every way out of the two.
EsRequestIsOurs ==
  es_request => pc \in {"save", "ffs_cfg", "dip_cfg", "clear", "menu", "menu_clear"}

\* A kept reload leaves no file behind that a later boot would take for its
\* own: what ES and DIP wrote is read once.
FilesReadOnce ==
  InSession /\ owed.ok => nand = [dip |-> None, ffs |-> None, esp |-> None]

\* "Repeated ios reload are now supported": from the boot of a reload in which
\* nothing failed to the next DIVERIFY, ES holds the title that asked, with the
\* block enabled, unless a loader has set the block anew - and so it is again
\* for the reload after that.
ReloadingTitleKept ==
  power # "off" /\ pc = "idle" /\ owed.ok /\ owed.title # None =>
    es = [fakelaunch |-> TRUE, title_id |-> owed.title]

\* SAVE_CONFIG asks config whether a disc is emulated, then writes dipCfgState:
\* also after a restore, and however that went, the copy of an emulated session
\* names an emulation.
EmulationIsSaved ==
  DI_ChkMode(MODE_EMUL) => dipCfgState.mode \cap MODE_EMUL # {}

=============================================================================
