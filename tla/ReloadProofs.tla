----------------------------- MODULE ReloadProofs -----------------------------
(***************************************************************************)
(* Proofs about Reload, for every set of devices, titles, lists and paths, *)
(* and for any number of launches, failures and power cuts.                *)
(*                                                                         *)
(* ReloadTypeOK is not inductive alone: RestoreDip opens the WBFS device   *)
(* that dip.cfg names, and 0 is a number a file could hold.  DeviceInv     *)
(* carries the fact that a copy which names an emulation names a device    *)
(* from the command that made the copy, through the file, to the boot that *)
(* reads it.                                                               *)
(***************************************************************************)

EXTENDS Reload, DipProofs

Emulates(c) == c.mode \cap MODE_EMUL # {}

DeviceInv ==
  /\ Emulates(dipCfgState) => dipCfgState.device # 0
  /\ nand.dip \notin {None, Partial} /\ Emulates(nand.dip) => nand.dip.device # 0

ReloadInv ==
  /\ ReloadTypeOK
  /\ DeviceInv
  /\ EmulationIsSaved
  /\ EsRequestIsOurs

\* ReloadInv by the variables it speaks of.
StealthPart == StealthTypeOK /\ EsRequestIsOurs
DipPart == DipTypeOK /\ EmulationIsSaved /\ (Emulates(dipCfgState) => dipCfgState.device # 0)
NandPart ==
  /\ nand \in Nand
  /\ nand.dip \notin {None, Partial} /\ Emulates(nand.dip) => nand.dip.device # 0
EsPart == es \in EsConfig /\ title \in Title \cup {None}
FfsPart ==
  /\ ffs \in Target \cup {None}
  /\ mounted \in [FatDevice -> Partition \cup {None}]
  /\ ffsCfgState \in FfsState
StagePart ==
  /\ pc \in {"idle", "save", "ffs_cfg", "dip_cfg", "clear", "esp_cfg", "launch",
             "menu", "menu_clear", "menu_launch"}
  /\ power \in {"off", "boot", "dip", "on"}

\* The invariant, cut into the parts that the steps disturb one at a time.
LEMMA Parts ==
  ReloadInv <=> StealthPart /\ DipPart /\ NandPart /\ EsPart /\ FfsPart /\ StagePart /\ owed \in Owed
  BY DEF ReloadInv, ReloadTypeOK, DeviceInv, StealthPart, DipPart, NandPart, EsPart, FfsPart, StagePart

\* The same of the next state.
LEMMA PartsNext ==
  StealthPart' /\ DipPart' /\ NandPart' /\ EsPart' /\ FfsPart' /\ StagePart' /\ owed' \in Owed
    => ReloadInv'
  BY DEF ReloadInv, ReloadTypeOK, DeviceInv, StealthPart, DipPart, NandPart, EsPart, FfsPart, StagePart

-----------------------------------------------------------------------------
(* The values of the helpers *)

\* The value of owed when nothing is owed.
LEMMA NothingOwedType == NothingOwed \in Owed
  BY DEF NothingOwed, Owed, SourceSet

\* A step that goes on or gives up keeps the type of what is owed.
LEMMA OwingType ==
  ASSUME NEW ok, owed \in Owed, Owing(ok)
  PROVE  owed' \in Owed
  BY NothingOwedType DEF Owing

\* Where saves go is an FFS state, or no emulation.
LEMMA StoreType ==
  ASSUME FfsPart
  PROVE  Store \in FfsState \cup {None}
  BY DEF FfsPart, Store, FfsState, Target

\* What the disc drive reads from is one of the sources of the specification.
LEMMA SourceType ==
  ASSUME DipPart
  PROVE  Source \in SourceSet
  BY DEF DipPart, DipTypeOK, Source, SourceSet

\* A reboot puts the plugins' memory back to zero, which keeps every part but the files.
LEMMA MemoryLostInv ==
  ASSUME MemoryLost, lowmem' \in Disc \cup {None}
  PROVE  StealthPart' /\ DipPart' /\ EsPart' /\ FfsPart' /\ StagePart'
<1> USE DEF MemoryLost
<1>1. StealthPart'
  BY DEF StealthPart, StealthTypeOK, EsRequestIsOurs
<1>2. DipTypeOK'
  BY DipAssumption DEF DipTypeOK, NoConfig, NoDipCfg, NoWbfs, DipConfig, DipConfigState
<1>3. DipPart'
  BY <1>2 DEF DipPart, EmulationIsSaved, DI_ChkMode, Emulates, NoConfig, NoDipCfg
<1>4. EsPart'
  BY DEF EsPart, EsConfig, NoEsConfig
<1>5. FfsPart'
  BY DEF FfsPart, FfsState, NoFfsState
<1>6. StagePart'
  BY DEF StagePart
<1> QED BY <1>1, <1>3, <1>4, <1>5, <1>6

\* Reading a file and deleting it keeps the files' types.
LEMMA LoadedFileInv ==
  ASSUME NEW name \in {"dip", "ffs", "esp"}, NEW deleted, NandPart, LoadedFile(name, deleted)
  PROVE  NandPart'
  BY DEF NandPart, Nand, LoadedFile, Emulates

\* Writing a file, whole, torn or not at all, keeps the files' types.
LEMMA SaveFileInv ==
  ASSUME NEW name \in {"dip", "ffs", "esp"}, NEW contents, NEW written, NandPart,
         name = "dip" => contents \in DipFile /\ (Emulates(contents) => contents.device # 0),
         name = "ffs" => contents \in FfsState,
         name = "esp" => contents \in EsConfig,
         SaveFile(name, contents, written)
  PROVE  NandPart'
<1>1. nand' \in {nand, [nand EXCEPT ![name] = contents], [nand EXCEPT ![name] = Partial]}
  BY DEF SaveFile, NandPart, Nand
<1>2. nand' \in Nand
  BY <1>1 DEF NandPart, Nand
<1>3. nand'.dip \in {nand.dip, Partial} \/ (name = "dip" /\ nand'.dip = contents)
  BY <1>1 DEF NandPart, Nand
<1> QED BY <1>2, <1>3 DEF NandPart, Emulates

\* The first boot of a console without config files.
LEMMA InitReloadInv == ReloadInit => ReloadInv
<1> SUFFICES ASSUME ReloadInit PROVE ReloadInv
  OBVIOUS
<1> USE DEF ReloadInit
<1>1. DipTypeOK
  BY InitDipInv DEF DipInv
<1>2. DipPart
  BY <1>1 DEF DipPart, EmulationIsSaved, DI_ChkMode, Emulates, DipInit, NoConfig, NoDipCfg
<1>3. StealthPart
  BY DEF StealthPart, StealthTypeOK, StealthInit, EsRequestIsOurs
<1>4. NandPart
  BY DEF NandPart, Nand
<1>5. EsPart
  BY DEF EsPart, EsConfig, NoEsConfig
<1>6. FfsPart
  BY DEF FfsPart, FfsState, NoFfsState
<1>7. StagePart
  BY DEF StagePart
<1> QED BY <1>2, <1>3, <1>4, <1>5, <1>6, <1>7, NothingOwedType, Parts

-----------------------------------------------------------------------------
(* Boot *)

\* ES takes esp.cfg only when it is whole.
LEMMA EsMainInv ==
  ASSUME ReloadInv, NEW deleted \in BOOLEAN, EsMain(deleted)
  PROVE  ReloadInv'
<1> USE Parts, PartsNext DEF EsMain
<1>1. EsPart'
  BY DEF NandPart, Nand, EsPart, EsConfig
<1>2. NandPart'
  BY LoadedFileInv DEF NandPart
<1>3. owed' \in Owed
  BY OwingType
<1>4. StealthPart' /\ DipPart' /\ FfsPart'
  BY DEF StealthPart, StealthTypeOK, EsRequestIsOurs, DipPart, DipTypeOK, EmulationIsSaved,
         DI_ChkMode, FfsPart, stealthVars, dipVars
<1>5. StagePart'
  BY DEF StagePart
<1> QED BY <1>1, <1>2, <1>3, <1>4, <1>5

\* DIP's restore copies the state it opens, so a source that is live is saved.
LEMMA RestoreDipInv ==
  ASSUME ReloadInv, NEW deleted \in BOOLEAN, NEW opened \in BOOLEAN, NEW found \in BOOLEAN,
         NEW up \in BOOLEAN, RestoreDip(deleted, opened, found, up)
  PROVE  ReloadInv'
<1> DEFINE f      == nand.dip
           wbfsOn == "WBFS" \in f.mode
           fragOn == "FRAG" \in f.mode /\ ~wbfsOn
           list   == IF f.mode = {"FRAG"} THEN f.list ELSE 0
           init   == fragOn /\ FragInitOK(f.device, f.frag_size, up)
<1> USE Parts, PartsNext
<1>1. NandPart'
  BY LoadedFileInv DEF RestoreDip, NandPart
<1>2. owed' \in Owed
  BY OwingType DEF RestoreDip
<1>3. StealthPart' /\ EsPart' /\ FfsPart' /\ StagePart'
  BY DEF RestoreDip, StealthPart, StealthTypeOK, EsRequestIsOurs, EsPart, FfsPart, StagePart,
         stealthVars
<1>4. CASE f \in {None, Partial}
  <2>1. /\ UNCHANGED <<config, frag_dev, fraglist_data, wbfs, lowmem>>
        /\ dipCfgState' \in {dipCfgState} \cup (IF f = Partial THEN TornCopies ELSE {})
    BY <1>4 DEF RestoreDip
  <2>2. CASE dipCfgState' = dipCfgState
    BY <1>1, <1>2, <1>3, <2>1, <2>2 DEF DipPart, DipTypeOK, EmulationIsSaved, DI_ChkMode, Emulates
  <2>3. CASE dipCfgState' \in TornCopies
    <3>1. /\ dipCfgState' \in DipConfigState /\ dipCfgState'.device # 0
          /\ Emulates(dipCfgState)'
      BY <2>3 DEF TornCopies, Emulates, MODE_EMUL
    <3>2. DipPart'
      BY <2>1, <3>1 DEF DipPart, DipTypeOK, EmulationIsSaved, DI_ChkMode, Emulates
    <3> QED BY <1>1, <1>2, <1>3, <3>2
  <2> QED BY <2>1, <2>2, <2>3
<1>5. CASE f \notin {None, Partial}
  <2>1. f \in DipFile /\ (Emulates(f) => f.device # 0)
    BY <1>5 DEF NandPart, Nand
  <2>2. /\ config' = [config EXCEPT !.mode = f.mode]
        /\ dipCfgState' = [mode |-> f.mode, device |-> f.device, frag_size |-> f.frag_size]
        /\ fraglist_data' = list
        /\ frag_dev' = IF init THEN f.device ELSE None
        /\ wbfs' = IF wbfsOn THEN WBFS_Open(f.device, lowmem, opened, found /\ lowmem # None)
                   ELSE NoWbfs
        /\ UNCHANGED lowmem
    BY <1>5 DEF RestoreDip
  <2>3. config' \in DipConfig /\ config'.mode = f.mode
    BY <2>1, <2>2 DEF DipPart, DipTypeOK, DipConfig, DipFile
  <2>4. dipCfgState' \in DipConfigState
    BY <2>1, <2>2 DEF DipFile, DipConfigState
  <2>5. fraglist_data' \in FragSize \cup {0}
    BY <2>1, <2>2 DEF DipFile
  <2>6. frag_dev' \in Device \cup {None}
    BY <2>2 DEF FragInitOK
  <2>7. wbfs' \in [fd : Device \cup {None}, disc : Disc \cup {None}]
    <3>1. wbfsOn => f.device \in Device
      BY <2>1 DEF Emulates, MODE_EMUL, DipFile
    <3> QED BY <2>2, <3>1 DEF WBFS_Open, NoWbfs, DipPart, DipTypeOK
  <2>8. DipTypeOK'
    BY <2>2, <2>3, <2>4, <2>5, <2>6, <2>7 DEF DipTypeOK, DipPart
  <2>9. DipPart'
    BY <2>1, <2>2, <2>3, <2>8 DEF DipPart, EmulationIsSaved, DI_ChkMode, Emulates
  <2> QED BY <1>1, <1>2, <1>3, <2>9
<1> QED BY <1>4, <1>5

\* FFS's restore mounts the device and turns the emulation on, or leaves it off.
LEMMA RestoreFfsInv ==
  ASSUME ReloadInv, NEW deleted \in BOOLEAN, NEW mountOk \in BOOLEAN, NEW initOk \in BOOLEAN,
         RestoreFfs(deleted, mountOk, initOk)
  PROVE  ReloadInv'
<1> DEFINE f  == nand.ffs
           on == f \notin {None, Partial} /\ f.target # None
<1> USE Parts, PartsNext
<1>1. NandPart'
  BY LoadedFileInv DEF RestoreFfs, NandPart
<1>2. owed' \in Owed
  <2>1. owed' = NothingOwed \/ owed' = [NothingOwed EXCEPT !.title = owed.title, !.ok = TRUE]
    BY DEF RestoreFfs
  <2> QED BY <2>1, NothingOwedType DEF Owed
<1>3. StealthPart' /\ DipPart' /\ EsPart' /\ StagePart'
  BY DEF RestoreFfs, StealthPart, StealthTypeOK, EsRequestIsOurs, EsPart, StagePart, DipPart,
         DipTypeOK, EmulationIsSaved, DI_ChkMode, stealthVars, dipVars
<1>4. f \notin {None, Partial} => f \in FfsState
  BY DEF NandPart, Nand
<1>5. ffsCfgState' \in FfsState
  BY <1>4 DEF RestoreFfs, FfsPart
<1>6. on => f.target \in Target /\ f.target.dev \in FatDevice
  BY <1>4 DEF FfsState, Target
<1>7. mounted' \in [FatDevice -> Partition \cup {None}]
  BY <1>4, <1>6 DEF RestoreFfs, FfsPart, FfsState
<1>8. ffs' \in Target \cup {None}
  BY <1>6 DEF RestoreFfs, FfsPart
<1>9. FfsPart'
  BY <1>5, <1>7, <1>8 DEF FfsPart
<1> QED BY <1>1, <1>2, <1>3, <1>9

-----------------------------------------------------------------------------
(* What programs do in a session *)

\* A step keeps the parts whose variables it leaves alone.
LEMMA Frame ==
  ASSUME ReloadInv
  PROVE  /\ UNCHANGED <<stealthVars, pc>> => StealthPart'
         /\ UNCHANGED dipVars => DipPart'
         /\ UNCHANGED nand => NandPart'
         /\ UNCHANGED <<es, title>> => EsPart'
         /\ UNCHANGED <<ffs, mounted, ffsCfgState>> => FfsPart'
         /\ UNCHANGED <<pc, power>> => StagePart'
         /\ UNCHANGED owed => owed' \in Owed
<1> USE Parts
<1>1. UNCHANGED <<stealthVars, pc>> => StealthPart'
  BY DEF StealthPart, StealthTypeOK, EsRequestIsOurs, stealthVars
<1>2. UNCHANGED dipVars => DipPart'
  BY DEF DipPart, DipTypeOK, EmulationIsSaved, DI_ChkMode, Emulates, dipVars
<1>3. UNCHANGED nand => NandPart'
  BY DEF NandPart
<1>4. UNCHANGED <<es, title>> => EsPart'
  BY DEF EsPart
<1>5. UNCHANGED <<ffs, mounted, ffsCfgState>> => FfsPart'
  BY DEF FfsPart
<1>6. UNCHANGED <<pc, power>> => StagePart'
  BY DEF StagePart
<1> QED BY <1>1, <1>2, <1>3, <1>4, <1>5, <1>6

\* A disc command that opens no source, and the two that do.
LEMMA SameSourcesPart ==
  ASSUME DipPart, DipTypeOK', UNCHANGED SourceState, Live' = Live
  PROVE  DipPart'
  BY DEF DipPart, EmulationIsSaved, DI_ChkMode, Emulates, SourceState, Live

\* The commands that set a source keep DIP's part.
LEMMA SetSourcePart ==
  ASSUME DipPart, SetSource
  PROVE  DipPart'
<1>0. DipTypeOK
  BY DEF DipPart
<1>1. ASSUME NEW device \in Device \cup {0}, NEW disc \in Disc, NEW opened \in BOOLEAN,
             NEW found \in BOOLEAN, SetWbfsMode(device, disc, opened, found)
      PROVE  DipPart'
  BY <1>0, <1>1, SetWbfsEffect DEF DipPart, EmulationIsSaved, DI_ChkMode, Emulates, MODE_EMUL
<1>2. ASSUME NEW device \in Device \cup {0}, NEW size \in FragSize \cup {0}, NEW up \in BOOLEAN,
             SetFragMode(device, size, up)
      PROVE  DipPart'
  BY <1>0, <1>2, SetFragEffect DEF DipPart, EmulationIsSaved, DI_ChkMode, Emulates, MODE_EMUL
<1> QED BY <1>1, <1>2 DEF SetSource

\* The commands of games and loaders keep the invariant.
LEMMA DiscCmdInv ==
  ASSUME ReloadInv, DiscCmd \/ LoaderCmd
  PROVE  ReloadInv'
<1>0. DipPart /\ DipTypeOK
  BY Parts DEF DipPart
<1>1. UNCHANGED <<stealthVars, reloadVars>>
  BY DEF DiscCmd, LoaderCmd
<1>2. CASE Reset
  BY <1>0, <1>1, <1>2, ResetInv, SameSourcesPart, Frame, PartsNext DEF reloadVars
<1>3. CASE \E cmdOk, readOk \in BOOLEAN : ReadDiscId(cmdOk, readOk, FALSE, TRUE)
  <2>1. FALSE \in BOOLEAN /\ TRUE \in BOOLEAN
    OBVIOUS
  <2>2. DipPart'
    BY <1>0, <1>3, <2>1, ReadDiscIdInv, SameSourcesPart
  <2> QED BY <1>1, <2>2, Frame, PartsNext DEF reloadVars
<1>4. CASE \E bit \in LoaderBit, on \in BOOLEAN : SetPlainMode(bit, on)
  BY <1>0, <1>1, <1>4, PlainModeInv, SameSourcesPart, Frame, PartsNext DEF reloadVars
<1>5. CASE SetSource
  BY <1>0, <1>1, <1>5, SetSourcePart, Frame, PartsNext DEF reloadVars
<1> QED BY <1>2, <1>3, <1>4, <1>5 DEF DiscCmd, LoaderCmd

\* A loader's SETMODE and mounts keep the invariant.
LEMMA NandEmulationInv ==
  ASSUME ReloadInv,
         \/ \E target \in Target, initOk \in BOOLEAN : EnableNandEmulation(target, initOk)
         \/ DisableNandEmulation
         \/ \E d \in FatDevice, p \in Partition, ok \in BOOLEAN : MountFat(d, p, ok)
  PROVE  ReloadInv'
<1> USE Parts, PartsNext, Frame
<1>1. CASE \E target \in Target, initOk \in BOOLEAN : EnableNandEmulation(target, initOk)
  <2>1. FfsPart'
    BY <1>1 DEF EnableNandEmulation, FfsPart
  <2> QED BY <1>1, <2>1 DEF EnableNandEmulation
<1>2. CASE DisableNandEmulation
  <2>1. FfsPart'
    BY <1>2 DEF DisableNandEmulation, SetModeOff, FfsPart
  <2>2. owed' \in Owed
    BY <1>2, OwingType DEF DisableNandEmulation
  <2> QED BY <1>2, <2>1, <2>2 DEF DisableNandEmulation
<1>3. CASE \E d \in FatDevice, p \in Partition, ok \in BOOLEAN : MountFat(d, p, ok)
  <2>1. FfsPart'
    BY <1>3 DEF MountFat, FfsPart
  <2> QED BY <1>3, <2>1 DEF MountFat
<1> QED BY <1>1, <1>2, <1>3

\* DIVERIFY, the fake launch setting and stealth keep the invariant.
LEMMA EsCmdInv ==
  ASSUME ReloadInv,
         \/ \E mode \in BOOLEAN : SetFakeIosLaunch(mode)
         \/ \E b \in BOOLEAN : SwitchStealth(b)
         \/ \E t \in Title, ok \in BOOLEAN : DiVerify(t, ok)
  PROVE  ReloadInv'
<1> USE Parts, PartsNext, Frame
<1>1. CASE \E mode \in BOOLEAN : SetFakeIosLaunch(mode)
  <2>1. EsPart'
    BY <1>1 DEF SetFakeIosLaunch, EsPart, EsConfig
  <2>2. owed' \in Owed
    BY <1>1 DEF SetFakeIosLaunch, Owed
  <2> QED BY <1>1, <2>1, <2>2 DEF SetFakeIosLaunch
<1>2. CASE \E b \in BOOLEAN : SwitchStealth(b)
  <2>1. UNCHANGED reloadVars /\ UNCHANGED dipVars
    BY <1>2 DEF SwitchStealth
  <2>2. StealthPart'
    BY <1>2, <2>1 DEF SwitchStealth, SetStealthMode, StealthPart, StealthTypeOK,
                      EsRequestIsOurs, reloadVars
  <2> QED BY <2>1, <2>2 DEF reloadVars
<1>3. CASE \E t \in Title, ok \in BOOLEAN : DiVerify(t, ok)
  <2> PICK t \in Title, ok \in BOOLEAN : DiVerify(t, ok)
    BY <1>3
  <2> USE DEF DiVerify
  <2>1. EsPart'
    BY DEF EsPart, EsConfig
  <2>2. StealthPart'
    BY DEF SetRunningTitle, StealthPart, StealthTypeOK, EsRequestIsOurs
  <2>3. owed' \in Owed
    BY OwingType
  <2> QED BY <2>1, <2>2, <2>3
<1> QED BY <1>1, <1>2, <1>3

-----------------------------------------------------------------------------
(* Launches *)

\* A launch that is blocked begins with the request flag up.
LEMMA FakeLaunchInv ==
  ASSUME ReloadInv, FakeLaunch
  PROVE  ReloadInv'
<1> USE Parts, PartsNext, Frame DEF FakeLaunch
<1>1. EsPart'
  BY DEF EsPart, EsConfig
<1>2. StealthPart'
  BY DEF SetEsRequest, StealthPart, StealthTypeOK, EsRequestIsOurs
<1>3. owed' \in Owed
  BY SourceType, StoreType, NothingOwedType DEF EsPart, Owed
<1>4. StagePart'
  BY DEF StagePart
<1> QED BY <1>1, <1>2, <1>3, <1>4

\* SAVE_CONFIG begins: NAND emulation goes off.
LEMMA SaveConfigInv ==
  ASSUME ReloadInv, NEW opened \in BOOLEAN, NEW modeOk \in BOOLEAN, NEW offOk \in BOOLEAN,
         NEW junk \in Partition \cup {None}, SaveConfig(opened, modeOk, offOk, junk)
  PROVE  ReloadInv'
<1> DEFINE part == IF mounted[ffs.dev] # None THEN mounted[ffs.dev] ELSE junk
<1> USE Parts, PartsNext, Frame
<1>1. DipPart'
  <2>1. /\ config' \in {config, Cleared}
        /\ UNCHANGED <<dipCfgState, frag_dev, fraglist_data, wbfs, lowmem>>
    BY DEF SaveConfig
  <2>2. config' \in DipConfig /\ config'.mode = config.mode
    BY <2>1, ClearedType DEF DipPart, DipTypeOK
  <2> QED BY <2>1, <2>2 DEF DipPart, DipTypeOK, EmulationIsSaved, DI_ChkMode, Emulates
<1>2. owed' \in Owed
  BY OwingType DEF SaveConfig
<1>3. pc' \in {"clear", "dip_cfg", "ffs_cfg"} /\ UNCHANGED <<power, nand, es, title, mounted>>
  BY DEF SaveConfig
<1>4. StealthPart'
  BY <1>3 DEF SaveConfig, StealthPart, StealthTypeOK, EsRequestIsOurs, stealthVars
<1>5. FfsPart'
  <2>1. CASE ~(opened /\ GetEsRequest /\ modeOk)
    BY <1>3, <2>1 DEF SaveConfig, FfsPart
  <2>2. CASE opened /\ GetEsRequest /\ modeOk /\ ffs = None
    <3>1. UNCHANGED ffs /\ ffsCfgState' = [ffsCfgState EXCEPT !.target = None]
      BY <2>2 DEF SaveConfig
    <3> QED BY <1>3, <3>1 DEF FfsPart, FfsState
  <2>3. CASE opened /\ GetEsRequest /\ modeOk /\ ffs # None
    <3>1. /\ ffsCfgState' = [target |-> ffs, part |-> part]
          /\ ffs' \in {ffs, None}
      BY <2>3 DEF SaveConfig, SetModeOff
    <3>2. ffs.dev \in FatDevice
      BY <2>3 DEF FfsPart, Target
    <3>3. part \in Partition \cup {None}
      BY <3>2 DEF FfsPart
    <3> HIDE DEF part
    <3> QED BY <1>3, <3>1, <3>3 DEF FfsPart, FfsState
  <2> QED BY <2>1, <2>2, <2>3
<1>6. StagePart'
  BY <1>3 DEF StagePart
<1>7. EsPart' /\ NandPart'
  BY <1>3
<1> QED BY <1>1, <1>2, <1>4, <1>5, <1>6, <1>7

\* The FFS state goes to its file.
LEMMA SaveFfsConfigInv ==
  ASSUME ReloadInv, NEW written \in BOOLEAN, SaveFfsConfig(written)
  PROVE  ReloadInv'
<1> USE Parts, PartsNext, Frame DEF SaveFfsConfig
<1>1. NandPart'
  BY SaveFileInv DEF FfsPart
<1>2. owed' \in Owed
  BY OwingType
<1>3. StealthPart'
  BY DEF StealthPart, StealthTypeOK, EsRequestIsOurs, stealthVars
<1>4. StagePart'
  BY DEF StagePart
<1> QED BY <1>1, <1>2, <1>3, <1>4

\* The copy of DIP's state goes to its file.
LEMMA SaveDipConfigInv ==
  ASSUME ReloadInv, NEW written \in BOOLEAN, SaveDipConfig(written)
  PROVE  ReloadInv'
<1> DEFINE file == [mode |-> dipCfgState.mode, device |-> dipCfgState.device,
                    frag_size |-> dipCfgState.frag_size,
                    list |-> IF dipCfgState.mode = {"FRAG"} THEN fraglist_data ELSE 0]
<1> USE Parts, PartsNext, Frame
<1>1. file \in DipFile /\ (Emulates(file) => file.device # 0)
  BY DEF DipPart, DipTypeOK, DipConfigState, DipFile, Emulates
<1>2. SaveFile("dip", file, written) \/ UNCHANGED nand
  BY DEF SaveDipConfig
<1> HIDE DEF file
<1>3. NandPart'
  BY <1>1, <1>2, SaveFileInv
<1>4. owed' \in Owed
  BY OwingType DEF SaveDipConfig
<1>5. StealthPart'
  BY DEF SaveDipConfig, StealthPart, StealthTypeOK, EsRequestIsOurs, stealthVars
<1>6. StagePart'
  BY DEF SaveDipConfig, StagePart
<1> QED BY <1>3, <1>4, <1>5, <1>6 DEF SaveDipConfig

\* ES takes its flag down whatever SAVE_CONFIG answered.
LEMMA ClearEsRequestInv ==
  ASSUME ReloadInv, ClearEsRequest
  PROVE  ReloadInv'
<1> USE Parts, PartsNext, Frame DEF ClearEsRequest
<1>1. StealthPart'
  BY DEF SetEsRequest, StealthPart, StealthTypeOK, EsRequestIsOurs
<1>2. StagePart'
  BY DEF StagePart
<1> QED BY <1>1, <1>2

\* ES's own config goes to its file.
LEMMA SaveEsConfigInv ==
  ASSUME ReloadInv, NEW written \in BOOLEAN, SaveEsConfig(written)
  PROVE  ReloadInv'
<1> USE Parts, PartsNext, Frame DEF SaveEsConfig
<1>1. NandPart'
  BY SaveFileInv DEF EsPart
<1>2. owed' \in Owed
  BY OwingType
<1>3. StealthPart'
  BY DEF StealthPart, StealthTypeOK, EsRequestIsOurs, stealthVars
<1>4. StagePart'
  BY DEF StagePart
<1> QED BY <1>1, <1>2, <1>3, <1>4

\* Whatever takes the cIOS out of memory.
LEMMA LostInv ==
  ASSUME ReloadInv, MemoryLost, lowmem' \in {lowmem, None}, nand' = nand, owed' \in Owed
  PROVE  ReloadInv'
<1>1. lowmem' \in Disc \cup {None}
  BY Parts DEF DipPart, DipTypeOK
<1> QED BY <1>1, MemoryLostInv, Frame, PartsNext

\* The system menu's part of the handler keeps the invariant up to its launch.
LEMMA MenuInv ==
  ASSUME ReloadInv,
         LaunchSystemMenu \/ (\E offOk \in BOOLEAN : MenuModeOff(offOk)) \/ MenuClear
  PROVE  ReloadInv'
<1> USE Parts, PartsNext, Frame
<1>1. CASE LaunchSystemMenu
  <2>1. StealthPart' /\ StagePart'
    BY <1>1 DEF LaunchSystemMenu, SetEsRequest, StealthPart, StealthTypeOK, EsRequestIsOurs,
       StagePart
  <2>2. owed' \in Owed
    BY <1>1, OwingType DEF LaunchSystemMenu
  <2> QED BY <1>1, <2>1, <2>2 DEF LaunchSystemMenu
<1>2. CASE \E offOk \in BOOLEAN : MenuModeOff(offOk)
  <2>1. StealthPart' /\ StagePart'
    BY <1>2 DEF MenuModeOff, StealthPart, StealthTypeOK, EsRequestIsOurs, StagePart, stealthVars
  <2>2. FfsPart'
    BY <1>2 DEF MenuModeOff, SetModeOff, FfsPart
  <2> QED BY <1>2, <2>1, <2>2 DEF MenuModeOff
<1>3. CASE MenuClear
  <2>1. StealthPart' /\ StagePart'
    BY <1>3 DEF MenuClear, SetEsRequest, StealthPart, StealthTypeOK, EsRequestIsOurs, StagePart
  <2> QED BY <1>3, <2>1 DEF MenuClear
<1> QED BY <1>1, <1>2, <1>3

\* A launch that succeeds boots anew; one that fails goes back to the game.
LEMMA LaunchInv ==
  ASSUME ReloadInv,
         \/ \E ok \in BOOLEAN : LaunchCios(ok)
         \/ \E tidOk \in BOOLEAN : LaunchElsewhere(tidOk)
         \/ \E ok \in BOOLEAN : LaunchMenu(ok)
         \/ PowerCut
  PROVE  ReloadInv'
<1> USE Parts, PartsNext, Frame
<1>1. CASE MemoryLost
  <2>1. lowmem' \in {lowmem, None} /\ nand' = nand /\ owed' \in Owed
    BY <1>1, OwingType DEF dipVars, LaunchCios, LaunchElsewhere, LaunchMenu, PowerCut
  <2> QED BY <1>1, <2>1, LostInv
<1>2. ASSUME NEW ok \in BOOLEAN, LaunchCios(ok), ~MemoryLost
      PROVE  ReloadInv'
  <2>1. StealthPart' /\ StagePart'
    BY <1>2 DEF LaunchCios, StealthPart, StealthTypeOK, EsRequestIsOurs, StagePart, stealthVars
  <2>2. owed' \in Owed
    BY <1>2, OwingType DEF LaunchCios
  <2> QED BY <1>2, <2>1, <2>2 DEF LaunchCios
<1>3. ASSUME NEW ok \in BOOLEAN, LaunchMenu(ok), ~MemoryLost
      PROVE  ReloadInv'
  <2>1. StealthPart' /\ StagePart'
    BY <1>3 DEF LaunchMenu, StealthPart, StealthTypeOK, EsRequestIsOurs, StagePart, stealthVars
  <2> QED BY <1>3, <2>1 DEF LaunchMenu
<1> QED BY <1>1, <1>2, <1>3 DEF LaunchElsewhere, PowerCut

\* Every step of the composition keeps the invariant.
LEMMA ReloadStepInv == ReloadInv /\ [Next]_vars => ReloadInv'
<1> SUFFICES ASSUME ReloadInv, [Next]_vars PROVE ReloadInv'
  OBVIOUS
<1>1. CASE Boot
  BY <1>1, EsMainInv, RestoreDipInv, RestoreFfsInv DEF Boot
<1>2. CASE Program
  BY <1>2, DiscCmdInv, NandEmulationInv, EsCmdInv DEF Program
<1>3. CASE FakeLaunch
  BY <1>3, FakeLaunchInv
<1>4. CASE LaunchStep
  BY <1>4, SaveConfigInv, SaveFfsConfigInv, SaveDipConfigInv, ClearEsRequestInv, SaveEsConfigInv,
     LaunchInv, MenuInv DEF LaunchStep
<1>5. CASE \/ \E tidOk \in BOOLEAN : LaunchElsewhere(tidOk)
           \/ LaunchSystemMenu
           \/ PowerCut
  BY <1>5, LaunchInv, MenuInv
<1>6. CASE UNCHANGED vars
  BY <1>6, Frame, PartsNext DEF vars, reloadVars
<1> QED BY <1>1, <1>2, <1>3, <1>4, <1>5, <1>6 DEF Next

-----------------------------------------------------------------------------
(* Theorems *)

\* Every state of the reload block, for any devices, titles, lists and paths,
\* has its type: what a boot reads back from the files are values that the
\* plugins could have had in memory.
THEOREM ReloadTypeCorrect == Spec => []ReloadTypeOK
<1>1. ReloadInv => ReloadTypeOK
  BY DEF ReloadInv
<1> QED BY <1>1, InitReloadInv, ReloadStepInv, PTL DEF Spec

\* The flag that opens the reserved requests is up only while ES waits for DIP
\* in a reload, or for FFS before the system menu: it is down on every way out
\* of both, failed requests, failed launches and power cuts included.
THEOREM EsRequestAlwaysOurs == Spec => []EsRequestIsOurs
<1>1. ReloadInv => EsRequestIsOurs
  BY DEF ReloadInv
<1> QED BY <1>1, InitReloadInv, ReloadStepInv, PTL DEF Spec

\* An emulated session never saves the copy of a session that was not, also
\* after restores that went wrong.
THEOREM EmulationAlwaysSaved == Spec => []EmulationIsSaved
<1>1. ReloadInv => EmulationIsSaved
  BY DEF ReloadInv
<1> QED BY <1>1, InitReloadInv, ReloadStepInv, PTL DEF Spec

-----------------------------------------------------------------------------
(***************************************************************************)
(* The reload block keeps its promise: Reload implements ReloadSpec.       *)
(*                                                                         *)
(* What a session reads and where it stores is in the memory of three      *)
(* plugins, then partly in memory and partly in files, then in files       *)
(* alone, then partly in memory again.  Promised says, for every place     *)
(* where a launch or a boot can stand, which of the two holds what is owed *)
(* to the game.  SourcesAgree is what makes the copy worth saving, and     *)
(* Fresh what the reboot makes of the memory.                              *)
(***************************************************************************)

\* A copy that names one source only names the device of that source.
SourcesAgree ==
  /\ Saved = {"FRAG"} /\ frag_dev # None =>
       frag_dev = dipCfgState.device /\ FragInitOK(frag_dev, dipCfgState.frag_size, TRUE)
  /\ Saved = {"WBFS"} /\ wbfs.disc # None => wbfs.fd = dipCfgState.device

\* What is not emulated yet while the cIOS boots.  No program of this module
\* moves the disc.
Fresh ==
  /\ pc # "idle" => power = "on"
  /\ power # "on" => ~running_title /\ ffs = None
  /\ power \in {"off", "boot"} => Live = {} /\ frag_dev = None
  /\ AtStart

\* What the disc's part of Restorable says, up to the moment the copy is written.
DiscSaveable ==
  /\ Live # {} => Saved = Live
  /\ Live = {} => nand.dip = None
  /\ Live # MODE_EMUL
  /\ Live = {"FRAG"} => frag_dev # None /\ dipCfgState.mode = {"FRAG"}

\* The boot asks for the disc whose ID is at address 0.
DiscReady == Live = {"WBFS"} => lowmem # None /\ wbfs.disc = lowmem

\* dip.cfg, and what the reboot leaves at address 0, name the source.
DiscStored ==
  \/ nand.dip = None /\ owed.src = <<"DRIVE", None, None>>
  \/ /\ nand.dip # None /\ nand.dip.mode \cap MODE_EMUL = {"WBFS"}
     /\ lowmem # None /\ owed.src = <<"WBFS", nand.dip.device, lowmem>>
  \/ /\ nand.dip # None /\ nand.dip.mode = {"FRAG"}
     /\ FragInitOK(nand.dip.device, nand.dip.frag_size, TRUE)
     /\ owed.src = <<"FRAG", nand.dip.device, nand.dip.list>>

Reloading == [fakelaunch |-> TRUE, title_id |-> owed.title]

\* ES is in its launch handler.
Launching ==
  /\ Source = owed.src /\ DiscReady /\ es = Reloading /\ owed.title # None
  /\ pc \notin {"menu", "menu_clear", "menu_launch"}
  /\ pc = "save" =>
       /\ Store = owed.store /\ DiscSaveable /\ es_request
       /\ ffs = None => nand.ffs = None
       /\ ffs # None => mounted[ffs.dev] # None
  /\ pc = "ffs_cfg" => ffs = None /\ ffsCfgState = owed.store /\ DiscSaveable
  /\ pc = "dip_cfg" => ffs = None /\ nand.ffs = owed.store /\ DiscSaveable
  /\ pc \in {"clear", "esp_cfg"} => ffs = None /\ nand.ffs = owed.store /\ DiscStored
  /\ pc = "launch" => nand.ffs = owed.store /\ DiscStored /\ nand.esp = Reloading

\* It is not: the cIOS is gone, boots, or is up again.
Booting ==
  /\ power # "off" => nand.esp = None /\ (owed.title # None => es = Reloading)
  /\ power = "off" => nand.esp = Reloading /\ owed.title # None
  /\ power \in {"off", "boot"} => DiscStored
  /\ power \in {"off", "boot", "dip"} => nand.ffs = owed.store
  /\ power = "dip" => nand.dip = None /\ Source = owed.src
  /\ power = "on" => nand.dip = None /\ nand.ffs = None

Promised ==
  owed.ok =>
    /\ owed.store # None => owed.store.target # None
    /\ pc # "idle" => Launching
    /\ pc = "idle" => Booting

PromiseInv == ReloadInv /\ SourcesAgree /\ Fresh /\ Promised

-----------------------------------------------------------------------------
(* Lemmas *)

\* Nothing is owed after a step that spoils the reload; otherwise what was owed.
LEMMA OwingKeeps ==
  ASSUME NEW ok, Owing(ok), owed'.ok
  PROVE  ok /\ owed' = owed
  BY DEF Owing, NothingOwed

\* A disc command changes no source; it leaves the ID at address 0 when it is
\* that of the disc that is emulated.
LEMMA DiscCmdKeeps ==
  ASSUME DipTypeOK, AtStart,
         \/ Reset
         \/ \E cmdOk, readOk \in BOOLEAN : ReadDiscId(cmdOk, readOk, FALSE, TRUE)
  PROVE  /\ UNCHANGED SourceState /\ Live' = Live /\ AtStart'
         /\ Live = {"WBFS"} /\ wbfs.disc = lowmem /\ lowmem # None => lowmem' = lowmem
<1>1. CASE Reset
  <2>1. UNCHANGED SourceState /\ Live' = Live
    BY <1>1, ResetInv
  <2>2. config'.base = 0 /\ config'.drive = 0
    BY <1>1, ClearedType DEF Reset, AtStart, DipTypeOK, DipConfig, Cleared
  <2> QED
    BY <1>1, <2>1, <2>2 DEF Reset, AtStart
<1>2. ASSUME NEW cmdOk \in BOOLEAN, NEW readOk \in BOOLEAN,
             ReadDiscId(cmdOk, readOk, FALSE, TRUE)
      PROVE  /\ UNCHANGED SourceState /\ Live' = Live /\ AtStart'
             /\ Live = {"WBFS"} /\ wbfs.disc = lowmem /\ lowmem # None => lowmem' = lowmem
  <2> DEFINE c1 == IF DI_ChkMode(MODE_EMUL) \/ cmdOk THEN Cleared
                   ELSE [Cleared EXCEPT !.mode = @ \cup {"DVDROM"}]
  <2>1. FALSE \in BOOLEAN /\ TRUE \in BOOLEAN
    OBVIOUS
  <2>2. UNCHANGED SourceState /\ Live' = Live
    BY <1>2, <2>1, ReadDiscIdInv
  <2>3. c1 \in [mode : SUBSET ModeBit, type : {"UNKNOWN", "DVD5", "DVD9"},
                base : Offset, drive : Offset,
                error : {"NONE", "BLOCK_RANGE", "WRONG_DISC"},
                cover : BOOLEAN, noreset : BOOLEAN]
        /\ c1.base = 0 /\ c1.drive = 0
    BY ClearedType DEF AtStart, DipTypeOK, DipConfig, ModeBit
  <2>4. config' = c1 \/ config' = CheckDisc(c1, TRUE)
    BY <1>2 DEF ReadDiscId
  <2>5. AtStart'
    <3> HIDE DEF c1
    <3> QED
      BY <2>3, <2>4 DEF CheckDisc, AtStart
  <2>6. ASSUME Live = {"WBFS"}, wbfs.disc = lowmem, lowmem # None
        PROVE  lowmem' = lowmem
    <3>1. EmulatedImage = lowmem /\ lowmem \in Disc
      BY <2>6 DEF EmulatedImage, DI_ChkMode, Live, MODE_EMUL, DipTypeOK
    <3> QED
      BY <1>2, <3>1 DEF ReadDiscId
  <2> QED
    BY <2>2, <2>5, <2>6
<1> QED
  BY <1>1, <1>2

\* Where the disc comes from is decided by the emulation bits and what is open.
LEMMA SourceOfLive ==
  /\ "FRAG" \in Live => Source = <<"FRAG", frag_dev, fraglist_data>>
  /\ "FRAG" \notin Live /\ "WBFS" \in Live => Source = <<"WBFS", wbfs.fd, wbfs.disc>>
  /\ Live = {} => Source = <<"DRIVE", None, None>>
  /\ Live \in SUBSET {"WBFS", "FRAG"}
  BY DEF Source, Live, DI_ChkMode, MODE_EMUL

\* A step that leaves those alone leaves the source.
LEMMA SameSource ==
  ASSUME UNCHANGED SourceState, Live' = Live
  PROVE  /\ Source' = Source
         /\ Saved' = Saved
         /\ SourcesAgree => SourcesAgree'
<1>1. /\ (Live \cap {"FRAG"} # {}) <=> DI_ChkMode({"FRAG"})
      /\ (Live \cap {"WBFS"} # {}) <=> DI_ChkMode({"WBFS"})
      /\ (Live' \cap {"FRAG"} # {}) <=> DI_ChkMode({"FRAG"})'
      /\ (Live' \cap {"WBFS"} # {}) <=> DI_ChkMode({"WBFS"})'
  BY DEF Live, DI_ChkMode, MODE_EMUL
<1>2. Source' = Source
  BY <1>1 DEF Source, SourceState
<1> QED
  BY <1>2 DEF SourcesAgree, SourceState, Saved, FragInitOK

\* What a step keeps that changes no source and none of these variables.
LEMMA PromiseFrame ==
  ASSUME PromiseInv, UNCHANGED dipVars
  PROVE  /\ SourcesAgree' /\ Source' = Source /\ Live' = Live /\ AtStart'
         /\ UNCHANGED <<dipCfgState, frag_dev, fraglist_data, wbfs, lowmem>>
<1>1. UNCHANGED <<config, dipCfgState, frag_dev, fraglist_data, wbfs, lowmem>>
  BY DEF dipVars
<1>2. UNCHANGED SourceState /\ Live' = Live
  BY <1>1 DEF SourceState, Live
<1> QED
  BY <1>1, <1>2, SameSource DEF PromiseInv, Fresh, AtStart

\* The reboot takes everything that is not in a file.
LEMMA LostPromise ==
  ASSUME MemoryLost
  PROVE  SourcesAgree' /\ Fresh' /\ pc' = "idle" /\ power' = "off"
<1>1. Live' = {} /\ Saved' = {} /\ AtStart'
  BY DEF MemoryLost, Live, Saved, AtStart, NoConfig, NoDipCfg
<1> QED
  BY <1>1 DEF MemoryLost, SourcesAgree, Fresh

-----------------------------------------------------------------------------
(* One lemma per action *)

\* Before the first launch nothing is owed.
LEMMA InitPromise == ReloadInit => PromiseInv
<1> SUFFICES ASSUME ReloadInit PROVE PromiseInv
  OBVIOUS
<1>1. Live = {} /\ Saved = {} /\ AtStart
  BY DEF ReloadInit, DipInit, Live, Saved, AtStart, NoConfig, NoDipCfg
<1>2. SourcesAgree /\ Fresh
  BY <1>1 DEF ReloadInit, DipInit, StealthInit, SourcesAgree, Fresh
<1>3. Promised
  BY DEF ReloadInit, Promised, NothingOwed
<1> QED
  BY <1>2, <1>3, InitReloadInv DEF PromiseInv

\* ES reads esp.cfg, which names the title.
LEMMA EsMainPromise ==
  ASSUME PromiseInv, NEW deleted \in BOOLEAN, EsMain(deleted)
  PROVE  SourcesAgree' /\ Fresh' /\ Promised'
<1>1. SourcesAgree' /\ Source' = Source /\ Live' = Live /\ AtStart'
      /\ UNCHANGED <<frag_dev, lowmem>>
  BY PromiseFrame DEF EsMain
<1>2. Fresh'
  BY <1>1 DEF PromiseInv, Fresh, EsMain, stealthVars
<1>3. Promised'
  <2> SUFFICES ASSUME owed'.ok
               PROVE  (owed.store # None => owed.store.target # None) /\ owed' = owed
                      /\ pc' = "idle" /\ Booting'
    BY DEF Promised
  <2>1. nand.esp \notin {None, Partial} /\ deleted /\ owed' = owed
    BY OwingKeeps DEF EsMain
  <2>2. Booting /\ (owed.store # None => owed.store.target # None) /\ pc' = "idle"
    BY <2>1 DEF PromiseInv, Promised, Fresh, EsMain
  <2>3. nand' = [nand EXCEPT !.esp = None] /\ nand \in Nand
    BY <2>1 DEF EsMain, LoadedFile, PromiseInv, ReloadInv, ReloadTypeOK
  <2>4. nand'.esp = None /\ nand'.dip = nand.dip /\ nand'.ffs = nand.ffs
    BY <2>3 DEF Nand
  <2>5. DiscStored'
    BY <1>1, <2>1, <2>2, <2>4 DEF Booting, DiscStored, EsMain, FragInitOK
  <2>6. es' = Reloading
    BY <2>1, <2>2 DEF Booting, EsMain, Reloading
  <2> QED
    BY <2>1, <2>2, <2>4, <2>5, <2>6 DEF Booting, EsMain, Reloading
<1> QED
  BY <1>1, <1>2, <1>3

\* DIP opens what dip.cfg names.
LEMMA RestoreDipPromise ==
  ASSUME PromiseInv, NEW deleted \in BOOLEAN, NEW opened \in BOOLEAN, NEW found \in BOOLEAN,
         NEW up \in BOOLEAN, RestoreDip(deleted, opened, found, up)
  PROVE  SourcesAgree' /\ Fresh' /\ Promised'
<1> DEFINE f      == nand.dip
           wbfsOn == "WBFS" \in f.mode
           fragOn == "FRAG" \in f.mode /\ ~wbfsOn
           list   == IF f.mode = {"FRAG"} THEN f.list ELSE 0
           init   == fragOn /\ FragInitOK(f.device, f.frag_size, up)
           backed == (wbfsOn => opened /\ found) /\ (fragOn => up)
<1>1. /\ power = "boot" /\ power' = "dip" /\ pc = "idle" /\ nand \in Nand
      /\ UNCHANGED <<stealthVars, es, title, ffs, mounted, ffsCfgState, pc, lowmem>>
      /\ DipTypeOK /\ Live = {} /\ config \in DipConfig
  BY DEF RestoreDip, PromiseInv, ReloadInv, ReloadTypeOK, Fresh, DipTypeOK, dipVars
<1>2. nand'.esp = nand.esp /\ nand'.ffs = nand.ffs /\ (f = None \/ deleted => nand'.dip = None)
  BY <1>1 DEF RestoreDip, LoadedFile, Nand
<1>3. ASSUME SourcesAgree', AtStart',
             owed'.ok => Source' = owed.src /\ owed' = owed /\ nand'.dip = None
      PROVE  SourcesAgree' /\ Fresh' /\ Promised'
  <2>1. Fresh'
    BY <1>1, <1>3 DEF PromiseInv, Fresh, stealthVars
  <2>2. Promised'
    BY <1>1, <1>2, <1>3 DEF PromiseInv, Promised, Booting, Reloading
  <2> QED
    BY <1>3, <2>1, <2>2
<1>4. CASE f \in {None, Partial}
  <2>1. /\ UNCHANGED <<config, frag_dev, fraglist_data, wbfs, lowmem>>
        /\ dipCfgState' \in {dipCfgState} \cup (IF f = Partial THEN TornCopies ELSE {})
        /\ Owing(f = None /\ deleted)
    BY <1>4 DEF RestoreDip
  <2>2. SourcesAgree' /\ AtStart' /\ Source' = Source
    <3>1. AtStart' /\ Source' = Source
      BY <2>1 DEF PromiseInv, Fresh, AtStart, Source, DI_ChkMode
    <3>2. CASE dipCfgState' = dipCfgState
      BY <2>1, <3>1, <3>2 DEF PromiseInv, SourcesAgree, Saved, FragInitOK
    <3>3. CASE dipCfgState' \in TornCopies
      <4>1. frag_dev = None /\ Saved' = {"FRAG"}
        BY <1>1, <3>3 DEF PromiseInv, Fresh, TornCopies, Saved, MODE_EMUL
      <4> QED
        BY <2>1, <3>1, <4>1 DEF SourcesAgree
    <3> QED
      BY <2>1, <3>1, <3>2, <3>3
  <2>3. ASSUME owed'.ok
        PROVE  Source' = owed.src /\ owed' = owed /\ nand'.dip = None
    <3>1. f = None /\ owed' = owed
      BY <2>1, <2>3, OwingKeeps
    <3>2. DiscStored
      BY <1>1, <2>3, <3>1 DEF PromiseInv, Promised, Booting
    <3>3. Source = owed.src
      BY <1>1, <3>1, <3>2, SourceOfLive DEF DiscStored
    <3> QED
      BY <1>2, <2>2, <3>1, <3>3
  <2> QED
    BY <1>3, <2>2, <2>3
<1>5. CASE f \notin {None, Partial}
  <2>1. /\ config' = [config EXCEPT !.mode = f.mode]
        /\ dipCfgState' = [mode |-> f.mode, device |-> f.device, frag_size |-> f.frag_size]
        /\ fraglist_data' = list
        /\ frag_dev' = IF init THEN f.device ELSE None
        /\ wbfs' = IF wbfsOn THEN WBFS_Open(f.device, lowmem, opened, found /\ lowmem # None)
                   ELSE NoWbfs
        /\ Owing(deleted /\ backed)
    BY <1>5 DEF RestoreDip
  <2>2. Live' = f.mode \cap MODE_EMUL /\ Saved' = f.mode \cap MODE_EMUL /\ AtStart'
    BY <1>1, <2>1 DEF Live, Saved, AtStart, DipConfig, PromiseInv, Fresh
  <2>3. SourcesAgree'
    BY <2>1, <2>2 DEF SourcesAgree, WBFS_Open, NoWbfs, FragInitOK, MODE_EMUL
  <2>4. ASSUME owed'.ok
        PROVE  Source' = owed.src /\ owed' = owed /\ nand'.dip = None
    <3>1. deleted /\ backed /\ owed' = owed
      BY <2>1, <2>4, OwingKeeps
    <3>2. DiscStored
      BY <1>1, <2>4, <3>1 DEF PromiseInv, Promised, Booting
    <3>3. CASE /\ f.mode \cap MODE_EMUL = {"WBFS"} /\ lowmem # None
               /\ owed.src = <<"WBFS", f.device, lowmem>>
      <4>1. wbfs' = [fd |-> f.device, disc |-> lowmem]
        BY <2>1, <3>1, <3>3 DEF WBFS_Open, MODE_EMUL
      <4>2. Source' = <<"WBFS", wbfs'.fd, wbfs'.disc>>
        BY <2>2, <3>3 DEF Source, DI_ChkMode, Live, MODE_EMUL
      <4> QED
        BY <1>2, <3>1, <3>3, <4>1, <4>2
    <3>4. CASE /\ f.mode = {"FRAG"} /\ FragInitOK(f.device, f.frag_size, TRUE)
               /\ owed.src = <<"FRAG", f.device, f.list>>
      <4>1. frag_dev' = f.device /\ fraglist_data' = f.list
        BY <2>1, <3>1, <3>4 DEF FragInitOK
      <4>2. Source' = <<"FRAG", frag_dev', fraglist_data'>>
        BY <2>2, <3>4 DEF Source, DI_ChkMode, Live, MODE_EMUL
      <4> QED
        BY <1>2, <3>1, <3>4, <4>1, <4>2
    <3> QED
      BY <1>5, <3>2, <3>3, <3>4 DEF DiscStored
  <2> QED
    BY <1>3, <2>2, <2>3, <2>4
<1> QED
  BY <1>4, <1>5

\* DIP has the partition mounted and the NAND emulated that ffs.cfg names.
LEMMA RestoreFfsPromise ==
  ASSUME PromiseInv, NEW deleted \in BOOLEAN, NEW mountOk \in BOOLEAN, NEW initOk \in BOOLEAN,
         RestoreFfs(deleted, mountOk, initOk)
  PROVE  /\ SourcesAgree' /\ Fresh' /\ Promised'
         /\ owed'.ok => owed.ok /\ Source' = owed.src /\ Store' = owed.store
<1> DEFINE f  == nand.ffs
           on == f \notin {None, Partial} /\ f.target # None
<1>1. /\ power = "dip" /\ power' = "on" /\ pc' = "idle" /\ pc = "idle" /\ nand \in Nand
      /\ UNCHANGED <<stealthVars, es>>
      /\ ffs = None /\ ~running_title /\ mounted \in [FatDevice -> Partition \cup {None}]
  BY DEF RestoreFfs, PromiseInv, ReloadInv, ReloadTypeOK, Fresh
<1>2. SourcesAgree' /\ Source' = Source /\ AtStart' /\ Live' = Live
  BY PromiseFrame DEF RestoreFfs
<1>3. Fresh'
  BY <1>1, <1>2 DEF Fresh
<1>4. ASSUME owed'.ok
      PROVE  Promised' /\ owed.ok /\ Source' = owed.src /\ Store' = owed.store
  <2>1. /\ owed.ok /\ f # Partial /\ deleted /\ (on => mountOk /\ initOk)
        /\ owed' = [NothingOwed EXCEPT !.title = owed.title, !.ok = TRUE]
    BY <1>4 DEF RestoreFfs, NothingOwed
  <2>2. /\ Booting /\ f = owed.store /\ nand.dip = None /\ Source = owed.src /\ nand.esp = None
        /\ owed.store # None => owed.store.target # None
        /\ owed.title # None => es = Reloading
    BY <1>1, <2>1 DEF PromiseInv, Promised, Booting
  <2>3. nand'.dip = None /\ nand'.esp = None /\ nand'.ffs = None
    <3>1. (nand' = nand /\ nand.ffs = None) \/ nand' = [nand EXCEPT !.ffs = None]
      BY <2>1 DEF RestoreFfs, LoadedFile
    <3> QED
      BY <1>1, <2>2, <3>1 DEF Nand
  <2>4. owed'.title = owed.title /\ owed'.store = None
    BY <2>1 DEF NothingOwed
  <2>5. Promised'
    BY <1>1, <2>2, <2>3, <2>4 DEF Promised, Booting, Reloading
  <2>6. CASE f = None
    <3>1. ffs' = None
      BY <1>1, <2>6 DEF RestoreFfs
    <3>2. Store' = None
      BY <3>1 DEF Store
    <3> QED
      BY <1>2, <2>1, <2>2, <2>5, <2>6, <3>2
  <2>7. CASE f # None
    <3>1. on /\ mountOk /\ initOk /\ f \in FfsState
      BY <1>1, <2>1, <2>2, <2>7 DEF Nand
    <3>2. f.target \in Target /\ f.target.dev \in FatDevice
      BY <3>1 DEF FfsState, Target
    <3>3. ffs' = f.target /\ mounted' = [mounted EXCEPT ![f.target.dev] = f.part]
      BY <1>1, <3>1 DEF RestoreFfs, GetRunningTitle
    <3>4. ffs' # None /\ mounted'[ffs'.dev] = f.part
      BY <1>1, <3>1, <3>2, <3>3
    <3>5. Store' = [target |-> f.target, part |-> f.part]
      BY <3>3, <3>4 DEF Store
    <3>6. f = [target |-> f.target, part |-> f.part]
      BY <3>1 DEF FfsState
    <3> QED
      BY <1>2, <2>1, <2>2, <2>5, <3>5, <3>6
  <2> QED
    BY <1>2, <2>1, <2>2, <2>5, <2>6, <2>7
<1>5. Promised'
  BY <1>4 DEF Promised
<1> QED
  BY <1>2, <1>3, <1>4, <1>5

\* What programs do in a session leaves the files alone, and ES's title but for
\* the commands that end what is owed.
LEMMA ProgramPromise ==
  ASSUME PromiseInv, Program
  PROVE  SourcesAgree' /\ Fresh' /\ Promised'
<1>0. DipTypeOK /\ AtStart /\ SourcesAgree /\ Fresh /\ Promised
  BY DEF PromiseInv, ReloadInv, ReloadTypeOK, Fresh
<1>1. CASE DiscCmd
  <2>1. /\ UNCHANGED SourceState /\ Live' = Live /\ AtStart'
        /\ Live = {"WBFS"} /\ wbfs.disc = lowmem /\ lowmem # None => lowmem' = lowmem
    BY <1>0, <1>1, DiscCmdKeeps DEF DiscCmd
  <2>2. /\ power = "on" /\ pc \notin {"ffs_cfg", "dip_cfg"}
        /\ UNCHANGED <<stealthVars, es, title, ffs, mounted, ffsCfgState, nand, pc, power, owed>>
    BY <1>1 DEF DiscCmd, reloadVars
  <2>3. SourcesAgree' /\ Source' = Source /\ Saved' = Saved
    BY <1>0, <2>1, SameSource
  <2>4. Fresh'
    BY <1>0, <2>1, <2>2 DEF Fresh, stealthVars
  <2>5. ASSUME Launching
        PROVE  Launching'
    <3>1. DiscReady' /\ (Live = {"WBFS"} => lowmem' = lowmem)
      BY <2>1, <2>5 DEF Launching, DiscReady, SourceState
    <3>2. DiscSaveable => DiscSaveable'
      BY <2>1, <2>2, <2>3 DEF DiscSaveable, SourceState
    <3>3. DiscStored => DiscStored'
      <4>1. owed.src = <<"WBFS", nand.dip.device, lowmem>> => Live = {"WBFS"}
        <5>1. Source = owed.src
          BY <2>5 DEF Launching
        <5>2. Live # {} /\ "FRAG" \notin Live => "WBFS" \in Live
          BY SourceOfLive
        <5>3. ASSUME owed.src = <<"WBFS", nand.dip.device, lowmem>>
              PROVE  Live # {} /\ "FRAG" \notin Live
          BY <5>1, <5>3, SourceOfLive
        <5> QED
          BY <5>2, <5>3, SourceOfLive
      <4> QED
        BY <2>2, <3>1, <4>1 DEF DiscStored, FragInitOK
    <3>4. Store' = Store /\ Reloading' = Reloading /\ es_request' = es_request
      BY <2>2 DEF Store, Reloading, stealthVars
    <3> QED
      BY <2>2, <2>3, <2>5, <3>1, <3>2, <3>3, <3>4 DEF Launching
  <2>6. ASSUME Booting, pc = "idle"
        PROVE  Booting'
    BY <2>2, <2>6 DEF Booting, Reloading
  <2>7. Promised'
    BY <1>0, <2>2, <2>5, <2>6 DEF Promised
  <2> QED
    BY <2>3, <2>4, <2>7
<1>2. ASSUME power = "on", pc = "idle", UNCHANGED <<nand, pc, power>>,
             ~owed'.ok \/ (UNCHANGED owed /\ es' = es)
             \/ owed' = [owed EXCEPT !.title = None]
      PROVE  Promised'
  <2>1. owed \in Owed
    BY DEF PromiseInv, ReloadInv, ReloadTypeOK
  <2>2. CASE ~owed'.ok \/ (UNCHANGED owed /\ es' = es)
    BY <1>0, <1>2, <2>2 DEF Promised, Booting, Reloading
  <2>3. CASE owed' = [owed EXCEPT !.title = None]
    <3>1. owed'.ok = owed.ok /\ owed'.title = None /\ owed'.store = owed.store
      BY <2>1, <2>3 DEF Owed
    <3> QED
      BY <1>0, <1>2, <3>1 DEF Promised, Booting
  <2> QED
    BY <1>2, <2>2, <2>3
<1>3. CASE LoaderCmd
  <2>1. /\ power = "on" /\ pc = "idle"
        /\ UNCHANGED <<stealthVars, es, title, ffs, mounted, ffsCfgState, nand, pc, power, owed>>
    BY <1>3 DEF LoaderCmd, InSession, reloadVars
  <2>2. CASE \E bit \in LoaderBit, on \in BOOLEAN : SetPlainMode(bit, on)
    <3>1. UNCHANGED SourceState /\ Live' = Live
      BY <1>0, <2>2, PlainModeInv
    <3>2. AtStart'
      <4>1. PICK m : config' = [Cleared EXCEPT !.mode = m]
        BY <2>2 DEF SetPlainMode
      <4> QED
        BY <1>0, <4>1, ClearedType DEF AtStart, DipTypeOK, DipConfig, Cleared
    <3> QED
      BY <1>0, <1>2, <2>1, <3>1, <3>2, SameSource DEF Fresh, stealthVars
  <2>3. ASSUME NEW device \in Device \cup {0}, NEW disc \in Disc, NEW opened \in BOOLEAN,
               NEW found \in BOOLEAN, SetWbfsMode(device, disc, opened, found)
        PROVE  SourcesAgree' /\ AtStart'
    <3>1. SourcesAgree'
      <4>1. CASE wbfs'.disc = None
        <5>1. UNCHANGED <<frag_dev, dipCfgState>>
          BY <1>0, <2>3, <4>1, SetWbfsEffect DEF SetWbfsMode
        <5> QED
          BY <1>0, <4>1, <5>1 DEF SourcesAgree, Saved, FragInitOK
      <4>2. CASE wbfs'.disc # None
        <5> DEFINE c1 == [Cleared EXCEPT !.mode = @ \ {"WBFS"}]
        <5>1. config' = [c1 EXCEPT !.mode = @ \cup {"WBFS"}] /\ c1 \in DipConfig
          BY <1>0, <2>3, <4>2, ClearedType DEF SetWbfsMode, DipConfig
        <5>2. "WBFS" \in config'.mode
          <6> HIDE DEF c1
          <6> QED
            BY <5>1 DEF DipConfig
        <5>3. dipCfgState'.device = wbfs'.fd /\ "WBFS" \in dipCfgState'.mode
          BY <1>0, <2>3, <5>2, SetWbfsEffect
        <5>4. "WBFS" \in Saved' /\ "WBFS" \notin {"FRAG"}
          BY <5>3 DEF Saved, MODE_EMUL
        <5>5. Saved' # {"FRAG"}
          BY <5>4
        <5> QED
          BY <5>3, <5>5 DEF SourcesAgree
      <4> QED
        BY <4>1, <4>2
    <3>2. AtStart'
      <4>1. Cleared.base = 0 /\ Cleared.drive = 0 /\ Cleared \in DipConfig
        BY <1>0, ClearedType DEF AtStart, DipTypeOK, DipConfig
      <4>2. config'.base = Cleared.base /\ config'.drive = Cleared.drive
        BY <2>3, <4>1 DEF SetWbfsMode, DipConfig
      <4> QED
        BY <4>1, <4>2 DEF AtStart
    <3> QED
      BY <3>1, <3>2
  <2>4. ASSUME NEW device \in Device \cup {0}, NEW size \in FragSize \cup {0},
               NEW up \in BOOLEAN, SetFragMode(device, size, up)
        PROVE  SourcesAgree' /\ AtStart'
    <3>1. SourcesAgree'
      BY <1>0, <2>4, SetFragEffect DEF SourcesAgree, Saved, MODE_EMUL, FragInitOK, SetFragMode
    <3>2. AtStart'
      <4>1. Cleared.base = 0 /\ Cleared.drive = 0 /\ Cleared \in DipConfig
        BY <1>0, ClearedType DEF AtStart, DipTypeOK, DipConfig
      <4>2. config'.base = Cleared.base /\ config'.drive = Cleared.drive
        BY <2>4, <4>1 DEF SetFragMode, DipConfig
      <4> QED
        BY <4>1, <4>2 DEF AtStart
    <3> QED
      BY <3>1, <3>2
  <2>5. CASE SetSource
    BY <1>0, <1>2, <2>1, <2>3, <2>4, <2>5 DEF SetSource, Fresh, stealthVars
  <2> QED
    BY <1>3, <2>2, <2>5 DEF LoaderCmd
<1>4. CASE \/ \E target \in Target, initOk \in BOOLEAN : EnableNandEmulation(target, initOk)
           \/ \E d \in FatDevice, p \in Partition, ok \in BOOLEAN : MountFat(d, p, ok)
  <2>1. /\ power = "on" /\ pc = "idle"
        /\ UNCHANGED <<stealthVars, dipVars, es, nand, pc, power, owed>>
    BY <1>4 DEF EnableNandEmulation, MountFat, InSession
  <2> QED
    BY <1>0, <1>2, <2>1, PromiseFrame DEF Fresh, stealthVars
<1>6. CASE DisableNandEmulation
  <2>1. /\ power = "on" /\ Owing(pc = "idle" \/ ffs' = ffs)
        /\ UNCHANGED <<stealthVars, dipVars, es, title, mounted, ffsCfgState, nand, pc, power>>
    BY <1>6 DEF DisableNandEmulation
  <2>2. /\ SourcesAgree' /\ Source' = Source /\ Live' = Live /\ AtStart'
        /\ UNCHANGED <<dipCfgState, frag_dev, fraglist_data, wbfs, lowmem>>
    BY <2>1, PromiseFrame
  <2>3. Fresh'
    BY <1>0, <2>1, <2>2 DEF Fresh, stealthVars
  <2>4. CASE pc = "idle"
    BY <1>2, <2>1, <2>2, <2>3, <2>4 DEF Owing
  <2>5. ASSUME pc # "idle", owed'.ok
        PROVE  Promised'
    <3>1. ffs' = ffs /\ owed' = owed /\ pc' # "idle"
      BY <2>1, <2>5, OwingKeeps
    <3>2. Launching /\ (owed.store # None => owed.store.target # None)
      BY <1>0, <2>5, <3>1 DEF Promised
    <3>3. /\ DiscSaveable' = DiscSaveable /\ DiscReady' = DiscReady /\ DiscStored' = DiscStored
          /\ Store' = Store /\ Reloading' = Reloading /\ es_request' = es_request
      BY <2>1, <2>2, <3>1 DEF DiscSaveable, DiscReady, DiscStored, Saved, Store, Reloading,
         FragInitOK, stealthVars
    <3>4. Launching'
      BY <2>1, <2>2, <3>1, <3>2, <3>3 DEF Launching
    <3> QED
      BY <3>1, <3>2, <3>4 DEF Promised
  <2>6. ~owed'.ok => Promised'
    BY DEF Promised
  <2> QED
    BY <2>2, <2>3, <2>4, <2>5, <2>6
<1>5. CASE \/ \E mode \in BOOLEAN : SetFakeIosLaunch(mode)
           \/ \E b \in BOOLEAN : SwitchStealth(b)
           \/ \E t \in Title, ok \in BOOLEAN : DiVerify(t, ok)
  <2>1. /\ power = "on" /\ pc = "idle" /\ UNCHANGED <<dipVars, nand, pc, power>>
        /\ \/ ~owed'.ok \/ (UNCHANGED owed /\ es' = es)
           \/ owed' = [owed EXCEPT !.title = None]
    BY <1>5 DEF SetFakeIosLaunch, SwitchStealth, DiVerify, InSession, reloadVars, Owing,
       NothingOwed
  <2> QED
    BY <1>0, <1>2, <2>1, PromiseFrame DEF Fresh
<1> QED
  BY <1>1, <1>3, <1>4, <1>5, <1>6 DEF Program

\* A launch begins: Restorable is what Launching needs.
LEMMA FakeLaunchPromise ==
  ASSUME PromiseInv, FakeLaunch
  PROVE  /\ SourcesAgree' /\ Fresh' /\ Promised'
         /\ owed'.ok => owed'.src = Source /\ owed'.store = Store
<1>1. /\ power = "on" /\ UNCHANGED <<dipVars, ffs, mounted, ffsCfgState, nand, power>>
      /\ pc' = "save" /\ es_request' = TRUE /\ UNCHANGED running_title
      /\ es.fakelaunch /\ title # None /\ es \in EsConfig
      /\ es' = [es EXCEPT !.title_id = title]
  BY DEF FakeLaunch, InSession, IsFakeLaunch, SetEsRequest, PromiseInv, ReloadInv,
     ReloadTypeOK
<1>2. /\ SourcesAgree' /\ Source' = Source /\ Live' = Live /\ AtStart'
      /\ UNCHANGED <<dipCfgState, frag_dev, fraglist_data, wbfs, lowmem>>
  BY <1>1, PromiseFrame
<1>3. Fresh'
  BY <1>1, <1>2 DEF Fresh
<1>4. ASSUME owed'.ok
      PROVE  Promised' /\ owed'.src = Source /\ owed'.store = Store
  <2>1. /\ Restorable
        /\ owed' = [src |-> Source, store |-> Store, title |-> title, ok |-> TRUE]
    BY <1>4 DEF FakeLaunch, NothingOwed
  <2>2. DiscSaveable' /\ DiscReady'
    BY <1>1, <1>2, <2>1 DEF Restorable, DiscSaveable, DiscReady, Live, Saved
  <2>3. Store' = Store /\ (ffs = None => nand.ffs = None) /\ (ffs # None => mounted[ffs.dev] # None)
    BY <1>1, <2>1 DEF Store, Restorable
  <2>4. es' = [fakelaunch |-> TRUE, title_id |-> title]
    BY <1>1 DEF EsConfig
  <2>5. Launching'
    BY <1>1, <1>2, <2>1, <2>2, <2>3, <2>4 DEF Launching, Reloading
  <2>6. Store # None => Store.target # None
    BY DEF Store
  <2> QED
    BY <1>1, <2>1, <2>5, <2>6 DEF Promised
<1>5. Promised'
  BY <1>4 DEF Promised
<1> QED
  BY <1>2, <1>3, <1>4, <1>5

\* SAVE_CONFIG begins: the FFS plugin's state goes to DIP, and the NAND is real.
LEMMA SaveConfigPromise ==
  ASSUME PromiseInv, NEW opened \in BOOLEAN, NEW modeOk \in BOOLEAN, NEW offOk \in BOOLEAN,
         NEW junk \in Partition \cup {None}, SaveConfig(opened, modeOk, offOk, junk)
  PROVE  SourcesAgree' /\ Fresh' /\ Promised'
<1>1. /\ pc = "save" /\ power = "on" /\ DipTypeOK /\ AtStart /\ SourcesAgree
      /\ UNCHANGED <<dipCfgState, frag_dev, fraglist_data, wbfs, lowmem, stealthVars, es, title,
                     mounted, nand, power>>
      /\ config' \in {config, Cleared}
      /\ pc' \in {"clear", "dip_cfg", "ffs_cfg"}
  BY DEF SaveConfig, PromiseInv, ReloadInv, ReloadTypeOK, Fresh
<1>2. UNCHANGED SourceState /\ Live' = Live /\ AtStart'
  BY <1>1, ClearedType DEF SourceState, Live, AtStart, Cleared, DipTypeOK, DipConfig
<1>3. SourcesAgree' /\ Source' = Source /\ Saved' = Saved
  BY <1>1, <1>2, SameSource
<1>4. Fresh'
  BY <1>1, <1>2 DEF Fresh, stealthVars
<1>5. Promised'
  <2> SUFFICES ASSUME owed'.ok
               PROVE  (owed.store # None => owed.store.target # None) /\ owed' = owed
                      /\ pc' # "idle" /\ Launching'
    BY DEF Promised
  <2>1. opened /\ GetEsRequest /\ modeOk /\ owed' = owed /\ (ffs # None => offOk)
    BY OwingKeeps DEF SaveConfig
  <2>2. Launching /\ (owed.store # None => owed.store.target # None)
    BY <1>1, <2>1 DEF PromiseInv, Promised
  <2>3. DiscSaveable' /\ DiscReady'
    BY <1>1, <1>2, <1>3, <2>2 DEF Launching, DiscSaveable, DiscReady
  <2>4. CASE ffs = None
    <3>1. pc' = "dip_cfg" /\ ffs' = None
      BY <2>1, <2>4 DEF SaveConfig
    <3>2. nand.ffs = owed.store
      BY <1>1, <2>2, <2>4 DEF Launching, Store
    <3> QED
      BY <1>1, <1>3, <2>1, <2>2, <2>3, <3>1, <3>2 DEF Launching, Reloading
  <2>5. CASE ffs # None
    <3>1. mounted[ffs.dev] # None /\ es_request
      BY <1>1, <2>2, <2>5 DEF Launching
    <3>2. /\ pc' = "ffs_cfg" /\ ffsCfgState' = [target |-> ffs, part |-> mounted[ffs.dev]]
          /\ ffs' = None
      BY <2>1, <2>5, <3>1 DEF SaveConfig, SetModeOff, GetEsRequest
    <3>3. ffsCfgState' = owed.store
      BY <1>1, <2>2, <2>5, <3>2 DEF Launching, Store
    <3> QED
      BY <1>1, <1>3, <2>1, <2>2, <2>3, <3>2, <3>3 DEF Launching, Reloading
  <2> QED
    BY <1>1, <2>1, <2>2, <2>4, <2>5
<1> QED
  BY <1>3, <1>4, <1>5

\* The NAND is real, so a file that is written is there.
LEMMA FileWritten ==
  ASSUME ffs = None, nand \in Nand, NEW name \in {"dip", "ffs", "esp"}, NEW contents,
         SaveFile(name, contents, TRUE)
  PROVE  /\ nand'[name] = contents
         /\ \A other \in {"dip", "ffs", "esp"} \ {name} : nand'[other] = nand[other]
  BY DEF SaveFile, Nand

\* The writes of the launch.
LEMMA SaveFilesPromise ==
  ASSUME PromiseInv, NEW written \in BOOLEAN,
         SaveFfsConfig(written) \/ SaveDipConfig(written) \/ SaveEsConfig(written)
  PROVE  SourcesAgree' /\ Fresh' /\ Promised'
<1>1. /\ pc \in {"ffs_cfg", "dip_cfg", "esp_cfg"} /\ pc' \in {"dip_cfg", "clear", "launch"}
      /\ power = "on" /\ nand \in Nand /\ DipTypeOK
      /\ UNCHANGED <<stealthVars, dipVars, es, title, ffs, mounted, ffsCfgState, power>>
  BY DEF SaveFfsConfig, SaveDipConfig, SaveEsConfig, PromiseInv, ReloadInv, ReloadTypeOK, Fresh
<1>2. /\ SourcesAgree' /\ Source' = Source /\ Live' = Live /\ AtStart' /\ Saved' = Saved
      /\ UNCHANGED <<dipCfgState, frag_dev, fraglist_data, wbfs, lowmem>>
  BY <1>1, PromiseFrame DEF Saved
<1>3. Fresh'
  BY <1>1, <1>2 DEF PromiseInv, Fresh, stealthVars
<1>4. Promised'
  <2> SUFFICES ASSUME owed'.ok
               PROVE  (owed.store # None => owed.store.target # None) /\ owed' = owed
                      /\ pc' # "idle" /\ Launching'
    BY DEF Promised
  <2>1. owed' = owed
    BY OwingKeeps DEF SaveFfsConfig, SaveDipConfig, SaveEsConfig
  <2>2. Launching /\ (owed.store # None => owed.store.target # None)
    BY <1>1, <2>1 DEF PromiseInv, Promised
  <2>3. DiscReady' /\ Reloading' = Reloading /\ ffs = None /\ ffs' = None
    BY <1>1, <1>2, <2>1, <2>2 DEF Launching, DiscReady, Reloading
  <2>4. CASE SaveFfsConfig(written)
    <3>1. written /\ pc = "ffs_cfg" /\ pc' = "dip_cfg" /\ SaveFile("ffs", ffsCfgState, TRUE)
      BY <2>4, OwingKeeps DEF SaveFfsConfig
    <3>2. nand'.ffs = owed.store /\ nand'.dip = nand.dip
      BY <1>1, <2>2, <2>3, <3>1, FileWritten DEF Launching
    <3>3. DiscSaveable'
      BY <1>2, <2>2, <3>1, <3>2 DEF Launching, DiscSaveable
    <3> QED
      BY <1>1, <1>2, <2>1, <2>2, <2>3, <3>1, <3>2, <3>3 DEF Launching
  <2>5. CASE SaveDipConfig(written)
    <3>1. pc = "dip_cfg" /\ pc' = "clear" /\ DiscSaveable /\ nand.ffs = owed.store
      BY <2>2, <2>5 DEF SaveDipConfig, Launching
    <3>2. DI_ChkMode(MODE_EMUL) <=> Live # {}
      BY DEF DI_ChkMode, Live
    <3>3. nand'.ffs = nand.ffs /\ DiscStored'
      <4>1. CASE Live = {}
        <5>1. nand' = nand /\ nand.dip = None
          BY <2>5, <3>1, <3>2, <4>1 DEF SaveDipConfig, DiscSaveable
        <5> QED
          BY <2>1, <2>2, <4>1, <5>1, SourceOfLive DEF Launching, DiscStored
      <4>2. CASE Live # {}
        <5> DEFINE file == [mode |-> dipCfgState.mode, device |-> dipCfgState.device,
                            frag_size |-> dipCfgState.frag_size,
                            list |-> IF dipCfgState.mode = {"FRAG"} THEN fraglist_data ELSE 0]
        <5>1. SaveFile("dip", file, TRUE)
          BY <2>5, <3>2, <4>2, OwingKeeps DEF SaveDipConfig
        <5>2. nand'.dip = file /\ nand'.ffs = nand.ffs
          <6> HIDE DEF file
          <6> QED
            BY <1>1, <2>3, <5>1, FileWritten
        <5>3. file # None /\ file.mode \cap MODE_EMUL = Live
          <6>1. file \in DipFile
            BY <1>1 DEF DipTypeOK, DipConfigState, DipFile
          <6>2. file.mode \cap MODE_EMUL = Live
            BY <3>1, <4>2 DEF DiscSaveable, Saved
          <6> QED
            BY <6>1, <6>2, ReloadAssumption
        <5>4. CASE Live = {"WBFS"}
          <6>1. owed.src = <<"WBFS", wbfs.fd, lowmem>> /\ lowmem # None /\ wbfs.disc = lowmem
            BY <2>2, <5>4, SourceOfLive DEF Launching, DiscReady
          <6>2. wbfs.fd = dipCfgState.device
            BY <3>1, <5>4, <6>1 DEF DiscSaveable, PromiseInv, SourcesAgree
          <6> QED
            BY <1>2, <2>1, <5>2, <5>3, <5>4, <6>1, <6>2 DEF DiscStored
        <5>5. CASE Live = {"FRAG"}
          <6>1. owed.src = <<"FRAG", frag_dev, fraglist_data>>
            BY <2>2, <5>5, SourceOfLive DEF Launching
          <6>2. /\ frag_dev = dipCfgState.device /\ dipCfgState.mode = {"FRAG"}
                /\ FragInitOK(dipCfgState.device, dipCfgState.frag_size, TRUE)
            BY <3>1, <5>5 DEF DiscSaveable, PromiseInv, SourcesAgree
          <6>3. /\ file.mode = {"FRAG"} /\ file.device = dipCfgState.device
                /\ file.frag_size = dipCfgState.frag_size /\ file.list = fraglist_data
            BY <6>2
          <6> QED
            BY <2>1, <5>2, <5>3, <6>1, <6>2, <6>3 DEF DiscStored, FragInitOK
        <5> QED
          BY <3>1, <4>2, <5>2, <5>4, <5>5, SourceOfLive DEF DiscSaveable, MODE_EMUL
      <4> QED
        BY <4>1, <4>2
    <3> QED
      BY <1>1, <1>2, <2>1, <2>2, <2>3, <3>1, <3>3 DEF Launching
  <2>6. CASE SaveEsConfig(written)
    <3>1. pc = "esp_cfg" /\ pc' = "launch" /\ SaveFile("esp", es, TRUE)
      BY <2>6, OwingKeeps DEF SaveEsConfig
    <3>2. nand'.esp = es /\ nand'.ffs = nand.ffs /\ nand'.dip = nand.dip
      BY <1>1, <2>3, <3>1, FileWritten
    <3>3. DiscStored'
      BY <1>2, <2>1, <2>2, <3>1, <3>2 DEF Launching, DiscStored, FragInitOK
    <3> QED
      BY <1>1, <1>2, <2>1, <2>2, <2>3, <3>1, <3>2, <3>3 DEF Launching
  <2> QED
    BY <1>1, <2>1, <2>2, <2>4, <2>5, <2>6
<1> QED
  BY <1>2, <1>3, <1>4

\* ES takes its flag down.
LEMMA ClearEsRequestPromise ==
  ASSUME PromiseInv, ClearEsRequest
  PROVE  SourcesAgree' /\ Fresh' /\ Promised'
<1>1. /\ pc = "clear" /\ pc' = "esp_cfg" /\ UNCHANGED running_title
      /\ UNCHANGED <<dipVars, es, title, ffs, mounted, ffsCfgState, nand, power, owed>>
  BY DEF ClearEsRequest, SetEsRequest
<1>2. /\ SourcesAgree' /\ Source' = Source /\ Live' = Live /\ AtStart' /\ UNCHANGED lowmem
      /\ UNCHANGED wbfs
  BY <1>1, PromiseFrame
<1>3. Fresh'
  BY <1>1, <1>2 DEF PromiseInv, Fresh
<1>4. Promised'
  <2> SUFFICES ASSUME owed.ok, Launching
               PROVE  Launching'
    BY <1>1 DEF PromiseInv, Promised
  <2>1. DiscReady' /\ DiscStored' /\ Reloading' = Reloading
    BY <1>1, <1>2 DEF Launching, DiscReady, DiscStored, Reloading, FragInitOK
  <2> QED
    BY <1>1, <1>2, <2>1 DEF Launching
<1> QED
  BY <1>2, <1>3, <1>4

\* On the way to the system menu nothing is owed.
LEMMA MenuPromise ==
  ASSUME PromiseInv,
         LaunchSystemMenu \/ (\E offOk \in BOOLEAN : MenuModeOff(offOk)) \/ MenuClear
  PROVE  SourcesAgree' /\ Fresh' /\ Promised' /\ ~owed'.ok
<1>1. /\ power = "on" /\ UNCHANGED <<running_title, dipVars, power>>
      /\ pc' \in {"menu", "menu_clear", "menu_launch"}
  BY DEF PromiseInv, Fresh, LaunchSystemMenu, MenuModeOff, MenuClear, InSession, SetEsRequest,
     stealthVars
<1>2. SourcesAgree' /\ AtStart' /\ Live' = Live
  BY <1>1, PromiseFrame
<1>3. Fresh'
  BY <1>1, <1>2 DEF Fresh
<1>4. ~owed'.ok
  <2>1. CASE LaunchSystemMenu
    BY <2>1 DEF LaunchSystemMenu, Owing, NothingOwed
  <2>2. CASE (\E offOk \in BOOLEAN : MenuModeOff(offOk)) \/ MenuClear
    <3>1. pc \in {"menu", "menu_clear"} /\ owed' = owed
      BY <2>2 DEF MenuModeOff, MenuClear
    <3> QED
      BY <3>1 DEF PromiseInv, Promised, Launching
  <2> QED
    BY <2>1, <2>2
<1> QED
  BY <1>2, <1>3, <1>4 DEF Promised

\* The reboot of a kept reload loses nothing that the files do not hold; any
\* other way out of the session ends what is owed.
LEMMA LaunchPromise ==
  ASSUME PromiseInv,
         \/ \E ok \in BOOLEAN : LaunchCios(ok)
         \/ \E tidOk \in BOOLEAN : LaunchElsewhere(tidOk)
         \/ \E ok \in BOOLEAN : LaunchMenu(ok)
         \/ PowerCut
  PROVE  SourcesAgree' /\ Fresh' /\ Promised'
<1>1. CASE MemoryLost /\ Owing(FALSE)
  BY <1>1, LostPromise, OwingKeeps DEF Promised
<1>2. ASSUME NEW ok \in BOOLEAN, LaunchCios(ok)
      PROVE  SourcesAgree' /\ Fresh' /\ Promised'
  <2>1. CASE ok
    <3>1. MemoryLost /\ UNCHANGED <<lowmem, nand, owed>> /\ pc = "launch"
      BY <1>2, <2>1 DEF LaunchCios
    <3>2. SourcesAgree' /\ Fresh' /\ pc' = "idle" /\ power' = "off"
      BY <3>1, LostPromise
    <3>3. ASSUME owed.ok
          PROVE  Booting' /\ (owed.store # None => owed.store.target # None)
      <4>1. Launching /\ (owed.store # None => owed.store.target # None)
        BY <3>1, <3>3 DEF PromiseInv, Promised
      <4>2. DiscStored'
        BY <3>1, <4>1 DEF Launching, DiscStored, FragInitOK
      <4> QED
        BY <3>1, <3>2, <4>1, <4>2 DEF Launching, Booting, Reloading
    <3> QED
      BY <3>1, <3>2, <3>3 DEF Promised
  <2>2. CASE ~ok
    <3>1. /\ pc' = "idle" /\ Owing(FALSE) /\ pc = "launch"
          /\ UNCHANGED <<stealthVars, dipVars, es, title, ffs, mounted, ffsCfgState, nand, power>>
      BY <1>2, <2>2 DEF LaunchCios
    <3>2. SourcesAgree' /\ Live' = Live /\ AtStart'
      BY <3>1, PromiseFrame
    <3>3. Fresh'
      BY <3>1, <3>2 DEF PromiseInv, Fresh, stealthVars
    <3>4. Promised'
      BY <3>1, OwingKeeps DEF Promised
    <3> QED
      BY <3>2, <3>3, <3>4
  <2> QED
    BY <2>1, <2>2
<1>3. ASSUME NEW ok \in BOOLEAN, LaunchMenu(ok)
      PROVE  SourcesAgree' /\ Fresh' /\ Promised'
  <2>1. pc = "menu_launch" /\ owed' = owed
    BY <1>3 DEF LaunchMenu
  <2>2. ~owed'.ok
    BY <2>1 DEF PromiseInv, Promised, Launching
  <2>3. CASE ok
    BY <1>3, <2>2, <2>3, LostPromise DEF LaunchMenu, Promised
  <2>4. CASE ~ok
    <3>1. pc' = "idle" /\ UNCHANGED <<stealthVars, dipVars, ffs, power>>
      BY <1>3, <2>4 DEF LaunchMenu
    <3>2. SourcesAgree' /\ Live' = Live /\ AtStart'
      BY <3>1, PromiseFrame
    <3>3. Fresh'
      BY <2>1, <3>1, <3>2 DEF PromiseInv, Fresh, stealthVars
    <3> QED
      BY <2>2, <3>2, <3>3 DEF Promised
  <2> QED
    BY <2>3, <2>4
<1> QED
  BY <1>1, <1>2, <1>3 DEF LaunchElsewhere, PowerCut

\* Nothing changes.
LEMMA StutterPromise ==
  ASSUME PromiseInv, UNCHANGED vars
  PROVE  SourcesAgree' /\ Fresh' /\ Promised'
<1>1. UNCHANGED <<stealthVars, dipVars, es, title, ffs, mounted, ffsCfgState, nand, pc, power,
                  owed>>
  BY DEF vars, reloadVars
<1>2. /\ SourcesAgree' /\ Source' = Source /\ Live' = Live /\ AtStart'
      /\ UNCHANGED <<dipCfgState, frag_dev, fraglist_data, wbfs, lowmem>>
  BY <1>1, PromiseFrame
<1>3. Fresh'
  BY <1>1, <1>2 DEF PromiseInv, Fresh, stealthVars
<1>4. /\ DiscSaveable' = DiscSaveable /\ DiscReady' = DiscReady /\ DiscStored' = DiscStored
      /\ Store' = Store /\ Reloading' = Reloading /\ es_request' = es_request
  BY <1>1, <1>2 DEF DiscSaveable, DiscReady, DiscStored, Saved, Store, Reloading, FragInitOK,
     stealthVars
<1>5. Launching' = Launching /\ Booting' = Booting
  BY <1>1, <1>2, <1>4 DEF Launching, Booting
<1> QED
  BY <1>1, <1>2, <1>3, <1>5 DEF PromiseInv, Promised

\* Every step keeps the invariant.
THEOREM NextPromise == PromiseInv /\ [Next]_vars => PromiseInv'
<1> SUFFICES ASSUME PromiseInv, [Next]_vars PROVE PromiseInv'
  OBVIOUS
<1>1. ReloadInv'
  BY ReloadStepInv DEF PromiseInv
<1>2. CASE Boot
  BY <1>1, <1>2, EsMainPromise, RestoreDipPromise, RestoreFfsPromise DEF Boot, PromiseInv
<1>3. CASE Program
  BY <1>1, <1>3, ProgramPromise DEF PromiseInv
<1>4. CASE FakeLaunch
  BY <1>1, <1>4, FakeLaunchPromise DEF PromiseInv
<1>5. CASE LaunchStep
  BY <1>1, <1>5, SaveConfigPromise, SaveFilesPromise, ClearEsRequestPromise, LaunchPromise,
     MenuPromise DEF LaunchStep, PromiseInv
<1>6. CASE \/ \E tidOk \in BOOLEAN : LaunchElsewhere(tidOk)
           \/ LaunchSystemMenu
           \/ PowerCut
  BY <1>1, <1>6, LaunchPromise, MenuPromise DEF PromiseInv
<1>7. CASE UNCHANGED vars
  BY <1>1, <1>7, StutterPromise DEF PromiseInv
<1> QED
  BY <1>2, <1>3, <1>4, <1>5, <1>6, <1>7 DEF Next

-----------------------------------------------------------------------------
(* What every behaviour keeps *)

\* What ES and DIP wrote for a reload that is kept is read once: no file is
\* left that a later boot would take for its own.
THEOREM FilesAlwaysReadOnce == Spec => []FilesReadOnce
<1>1. PromiseInv => FilesReadOnce
  <2> SUFFICES ASSUME PromiseInv, power = "on", pc = "idle", owed.ok
               PROVE  nand = [dip |-> None, ffs |-> None, esp |-> None]
    BY DEF FilesReadOnce, InSession
  <2>1. nand.dip = None /\ nand.ffs = None /\ nand.esp = None
    BY DEF PromiseInv, Promised, Booting
  <2>2. nand = [dip |-> nand.dip, ffs |-> nand.ffs, esp |-> nand.esp]
    BY DEF PromiseInv, ReloadInv, ReloadTypeOK, Nand
  <2> QED
    BY <2>1, <2>2
<1> QED
  BY <1>1, InitPromise, NextPromise, PTL DEF Spec

\* From the boot of a kept reload to the next DIVERIFY, ES holds the title that
\* asked, and the block is enabled for it ("repeated ios reload"), unless a
\* loader has set the block anew: no boot, command or launch in between loses it.
THEOREM TitleAlwaysKept == Spec => []ReloadingTitleKept
<1>1. PromiseInv => ReloadingTitleKept
  BY DEF PromiseInv, Promised, Booting, Reloading, ReloadingTitleKept
<1> QED
  BY <1>1, InitPromise, NextPromise, PTL DEF Spec

\* Every step of Reload is a step of ReloadSpec, or none.
LEMMA PromiseStep ==
  ASSUME PromiseInv, PromiseInv', [Next]_vars
  PROVE  [Promise!SpecNext]_(Promise!specVars)
<1>1. owed \in Owed /\ owed.ok \in BOOLEAN /\ owed'.ok \in BOOLEAN
  BY DEF PromiseInv, ReloadInv, ReloadTypeOK, Owed
<1>2. ASSUME InSession, InSession'
      PROVE  Promise!SpecNext
  BY <1>2 DEF Promise!SpecNext, Promise!Configure
<1>3. ASSUME InSession, ~InSession', owed'.ok => owed'.src = Source /\ owed'.store = Store
      PROVE  Promise!SpecNext
  BY <1>3 DEF Promise!SpecNext, Promise!Suspend
<1>4. ASSUME ~InSession, ~InSession', owed' = owed
      PROVE  UNCHANGED Promise!specVars
  <2>1. (IF InSession THEN Source ELSE owed.src) = owed.src
        /\ (IF InSession' THEN Source' ELSE owed'.src) = owed'.src
        /\ (IF InSession THEN Store ELSE owed.store) = owed.store
        /\ (IF InSession' THEN Store' ELSE owed'.store) = owed'.store
    BY <1>4
  <2>2. InSession' = InSession
    BY <1>4 DEF InSession
  <2> QED
    BY <1>4, <2>1, <2>2 DEF Promise!specVars
<1>5. ASSUME ~InSession, ~InSession', ~owed'.ok
      PROVE  Promise!SpecNext
  BY <1>5 DEF Promise!SpecNext, Promise!Spoil
<1>6. ASSUME ~InSession, InSession',
             owed'.ok => owed.ok /\ Source' = owed.src /\ Store' = owed.store
      PROVE  Promise!SpecNext
  BY <1>1, <1>6 DEF Promise!SpecNext, Promise!Resume, Promise!GiveUp
\* A launch or boot step that keeps or spoils what is owed, and ends no boot.
<1>7. ASSUME ~InSession, ~InSession', owed' = owed \/ ~owed'.ok
      PROVE  [Promise!SpecNext]_(Promise!specVars)
  BY <1>4, <1>5, <1>7
\* The cIOS goes, and with it what is owed.
<1>8. ASSUME ~InSession', ~owed'.ok
      PROVE  Promise!SpecNext
  BY <1>3, <1>5, <1>8
<1>9. CASE Boot
  <2>1. ASSUME NEW deleted \in BOOLEAN, EsMain(deleted)
        PROVE  [Promise!SpecNext]_(Promise!specVars)
    <3>1. ~InSession /\ ~InSession' /\ (owed' = owed \/ ~owed'.ok)
      BY <2>1 DEF EsMain, InSession, Owing, NothingOwed
    <3> QED
      BY <1>7, <3>1
  <2>2. ASSUME NEW deleted \in BOOLEAN, NEW opened \in BOOLEAN, NEW found \in BOOLEAN,
               NEW up \in BOOLEAN, RestoreDip(deleted, opened, found, up)
        PROVE  [Promise!SpecNext]_(Promise!specVars)
    <3>1. ~InSession /\ ~InSession' /\ (owed' = owed \/ ~owed'.ok)
      BY <2>2 DEF RestoreDip, InSession, Owing, NothingOwed
    <3> QED
      BY <1>7, <3>1
  <2>3. ASSUME NEW deleted \in BOOLEAN, NEW mountOk \in BOOLEAN, NEW initOk \in BOOLEAN,
               RestoreFfs(deleted, mountOk, initOk)
        PROVE  [Promise!SpecNext]_(Promise!specVars)
    <3>1. ~InSession /\ InSession'
      BY <2>3 DEF RestoreFfs, InSession, PromiseInv, Fresh
    <3> QED
      BY <1>6, <2>3, <3>1, RestoreFfsPromise
  <2> QED
    BY <1>9, <2>1, <2>2, <2>3 DEF Boot
<1>10. CASE Program
  <2>1. CASE DiscCmd
    <3>1. UNCHANGED <<power, pc, owed>> /\ InSession' = InSession
      BY <2>1 DEF DiscCmd, reloadVars, InSession
    <3> QED
      BY <1>2, <1>4, <3>1
  <2>2. CASE DisableNandEmulation
    <3>1. UNCHANGED <<power, pc>> /\ InSession' = InSession /\ (owed' = owed \/ ~owed'.ok)
      BY <2>2 DEF DisableNandEmulation, InSession, Owing, NothingOwed
    <3> QED
      BY <1>2, <1>7, <3>1
  <2>3. CASE ~DiscCmd /\ ~DisableNandEmulation
    <3>1. InSession /\ InSession'
      BY <1>10, <2>3 DEF Program, LoaderCmd, EnableNandEmulation, MountFat,
         SetFakeIosLaunch, SwitchStealth, DiVerify, InSession, reloadVars
    <3> QED
      BY <1>2, <3>1
  <2> QED
    BY <2>1, <2>2, <2>3
<1>11. CASE FakeLaunch
  <2>1. InSession /\ ~InSession'
    BY <1>11 DEF FakeLaunch, InSession
  <2> QED
    BY <1>3, <1>11, <2>1, FakeLaunchPromise
<1>12. CASE LaunchStep
  <2>1. ASSUME NEW opened \in BOOLEAN, NEW modeOk \in BOOLEAN, NEW offOk \in BOOLEAN,
               NEW junk \in Partition \cup {None}, SaveConfig(opened, modeOk, offOk, junk)
        PROVE  ~InSession /\ ~InSession' /\ (owed' = owed \/ ~owed'.ok)
    BY <2>1 DEF SaveConfig, InSession, Owing, NothingOwed
  <2>2. ASSUME NEW written \in BOOLEAN,
               SaveFfsConfig(written) \/ SaveDipConfig(written) \/ SaveEsConfig(written)
        PROVE  ~InSession /\ ~InSession' /\ (owed' = owed \/ ~owed'.ok)
    <3>1. Owing(written) \/ owed' = owed
      BY <2>2 DEF SaveFfsConfig, SaveDipConfig, SaveEsConfig
    <3>2. pc # "idle" /\ pc' # "idle"
      BY <2>2 DEF SaveFfsConfig, SaveDipConfig, SaveEsConfig
    <3> QED
      BY <3>1, <3>2 DEF InSession, Owing, NothingOwed
  <2>3. ASSUME ClearEsRequest
        PROVE  ~InSession /\ ~InSession' /\ owed' = owed
    BY <2>3 DEF ClearEsRequest, InSession
  <2>4. ASSUME NEW ok \in BOOLEAN, LaunchCios(ok)
        PROVE  [Promise!SpecNext]_(Promise!specVars)
    <3>1. CASE ok
      <4>1. ~InSession /\ ~InSession' /\ owed' = owed
        BY <2>4, <3>1 DEF LaunchCios, MemoryLost, InSession
      <4> QED
        BY <1>7, <4>1
    <3>2. CASE ~ok
      <4>1. ~InSession /\ InSession' /\ ~owed'.ok
        BY <2>4, <3>2 DEF LaunchCios, Owing, NothingOwed, InSession, PromiseInv, Fresh
      <4> QED
        BY <1>6, <4>1
    <3> QED
      BY <3>1, <3>2
  <2>5. ASSUME (\E offOk \in BOOLEAN : MenuModeOff(offOk)) \/ MenuClear
        PROVE  ~InSession' /\ ~owed'.ok
    BY <2>5, MenuPromise DEF MenuModeOff, MenuClear, InSession
  <2>6. ASSUME NEW ok \in BOOLEAN, LaunchMenu(ok)
        PROVE  Promise!SpecNext
    <3>1. ~InSession /\ ~owed.ok /\ owed' = owed
      BY <2>6 DEF LaunchMenu, InSession, PromiseInv, Promised, Launching
    <3> QED
      BY <1>6, <1>8, <3>1
  <2> QED
    BY <1>7, <1>8, <1>12, <2>1, <2>2, <2>3, <2>4, <2>5, <2>6 DEF LaunchStep
<1>13. CASE \/ \E tidOk \in BOOLEAN : LaunchElsewhere(tidOk)
            \/ LaunchSystemMenu
            \/ PowerCut
  <2>1. ~InSession' /\ ~owed'.ok
    <3>1. Owing(FALSE) /\ (MemoryLost \/ pc' = "menu")
      BY <1>13 DEF LaunchElsewhere, LaunchSystemMenu, PowerCut
    <3> QED
      BY <3>1 DEF MemoryLost, Owing, NothingOwed, InSession
  <2> QED
    BY <1>8, <2>1
<1>14. CASE UNCHANGED vars
  <2>1. InSession' = InSession /\ owed' = owed
    BY <1>14 DEF vars, reloadVars, InSession
  <2> QED
    BY <1>2, <1>4, <2>1
<1> QED
  BY <1>9, <1>10, <1>11, <1>12, <1>13, <1>14 DEF Next

\* The reload block keeps its promise: a reload in which every call and write
\* succeeded, of a session that the files can carry, ends in a session that
\* reads the same source and stores in the same place.  A step that the promise
\* does not know, or one that breaks it, is a step of no behaviour of Reload.
THEOREM ReloadImplementsPromise == Spec => ReloadKeepsPromise
<1>1. ReloadInit => Promise!SpecInit
  BY DEF ReloadInit, InSession, NothingOwed, Promise!SpecInit
<1>2. PromiseInv /\ PromiseInv' /\ [Next]_vars => [Promise!SpecNext]_(Promise!specVars)
  BY PromiseStep
<1> QED
  BY <1>1, <1>2, InitPromise, NextPromise, PTL
     DEF Spec, ReloadKeepsPromise, Promise!ReloadPromise

=============================================================================
