------------------------------ MODULE DipProofs ------------------------------
(***************************************************************************)
(* Proofs about Dip, for every set of devices, discs and lists.            *)
(*                                                                         *)
(* The invariant that is inductive, SourceInv, is ModeIsBacked together    *)
(* with a form of SnapshotMatchesSource that speaks of each source while   *)
(* the other may be live too: closing one of two live sources must not     *)
(* leave a copy that names the other with the wrong device.                *)
(***************************************************************************)

EXTENDS Dip, TLAPS

Live == config.mode \cap MODE_EMUL
Saved == dipCfgState.mode \cap MODE_EMUL

SourceInv ==
  /\ ModeIsBacked
  /\ Live # {} => Saved # {}
  /\ "FRAG" \in Live /\ Saved = {"FRAG"} =>
       dipCfgState.device = frag_dev /\ dipCfgState.frag_size = fraglist_data
  /\ "WBFS" \in Live /\ Saved = {"WBFS"} => dipCfgState.device = wbfs.fd

DipInv == DipTypeOK /\ SourceInv

-----------------------------------------------------------------------------

\* What is left of config when the error is cleared.
LEMMA ClearedType ==
  ASSUME DipTypeOK
  PROVE  /\ Cleared = [config EXCEPT !.error = "NONE"]
         /\ Cleared \in DipConfig
         /\ Cleared.mode = config.mode
         /\ Cleared.noreset = config.noreset
  BY DEF DipTypeOK, DipConfig, Cleared

\* The plugin's zeroed memory has no mode and no source.
LEMMA InitDipInv == DipInit => DipInv
  BY DipAssumption
  DEF DipInit, DipInv, DipTypeOK, DipConfig, DipConfigState, SourceInv, ModeIsBacked, Live, Saved, MODE_EMUL, NoConfig,
      NoDipCfg, NoWbfs

-----------------------------------------------------------------------------
(* The commands that open no source *)

\* The parts of the state that only the two set commands write.
SourceState == <<dipCfgState, frag_dev, fraglist_data, wbfs>>

\* A command that leaves the sources alone and the emulation bits as they are
\* preserves SourceInv.
LEMMA SameSources ==
  ASSUME SourceInv, UNCHANGED SourceState,
         config'.mode \cap MODE_EMUL = config.mode \cap MODE_EMUL
  PROVE  SourceInv'
  BY DEF SourceInv, ModeIsBacked, SourceState, Live, Saved, MODE_EMUL

\* A reset clears what the loader set for the game, not a source.
LEMMA ResetInv ==
  ASSUME DipTypeOK, Reset
  PROVE  DipTypeOK' /\ UNCHANGED SourceState /\ Live' = Live
<1>1. config' \in DipConfig
  <2>1. 0 \in Offset /\ DI_ChkMode(MODE_EMUL) \in BOOLEAN
    BY DipAssumption DEF DI_ChkMode
  <2> QED BY <2>1, ClearedType DEF Reset, DipConfig
<1>2. config'.mode \in {config.mode, config.mode \ {"CRYPT", "DVDROM"}}
  BY ClearedType DEF Reset, DipConfig, DipTypeOK
<1>3. Live' = Live
  BY <1>2 DEF Live, MODE_EMUL
<1> QED BY <1>1, <1>3 DEF Reset, DipTypeOK, SourceState

\* A read changes the last error at most.
LEMMA ReadInv ==
  ASSUME NEW offset, DipTypeOK, Read(offset)
  PROVE  DipTypeOK' /\ UNCHANGED SourceState /\ Live' = Live
  BY ClearedType DEF DipTypeOK, DipConfig, Read, Cleared, SourceState, Live

\* So do the commands that only store an offset, a flag or an error.
LEMMA PlainInv ==
  ASSUME DipTypeOK,
         \/ \E offset \in Offset : SetDriveOffset(offset)
         \/ ReportKey \/ ClearCover \/ OtherCmd
         \/ \E offset \in Offset : SetBaseOffset(offset)
         \/ \E value \in BOOLEAN : DisableReset(value)
  PROVE  DipTypeOK' /\ UNCHANGED SourceState /\ Live' = Live
<1>1. CASE \E offset \in Offset : SetDriveOffset(offset)
  BY ZenonT(40), <1>1, ClearedType DEF DipTypeOK, DipConfig, SetDriveOffset, Cleared, SourceState, Live
<1>2. CASE ReportKey
  BY <1>2, ClearedType DEF DipTypeOK, DipConfig, ReportKey, Cleared, SourceState, Live
<1>3. CASE ClearCover
  BY <1>3 DEF DipTypeOK, DipConfig, ClearCover, SourceState, Live
<1>4. CASE OtherCmd
  BY <1>4, ClearedType DEF DipTypeOK, OtherCmd, SourceState, Live
<1>5. CASE \E offset \in Offset : SetBaseOffset(offset)
  BY ZenonT(30), <1>5, ClearedType DEF DipTypeOK, DipConfig, SetBaseOffset, Cleared, SourceState, Live
<1>6. CASE \E value \in BOOLEAN : DisableReset(value)
  BY ZenonT(30), <1>6, ClearedType DEF DipTypeOK, DipConfig, DisableReset, Cleared, SourceState, Live
<1> QED BY <1>1, <1>2, <1>3, <1>4, <1>5, <1>6

\* The crypt and cover modes leave the emulation bits as they are.
LEMMA PlainModeInv ==
  ASSUME NEW bit \in LoaderBit, NEW on \in BOOLEAN, DipTypeOK, SetPlainMode(bit, on)
  PROVE  DipTypeOK' /\ UNCHANGED SourceState /\ Live' = Live
<1>1. bit \in ModeBit /\ bit \notin MODE_EMUL
  BY DipAssumption DEF ModeBit, MODE_EMUL
<1>2. config' \in DipConfig
  BY <1>1, ClearedType DEF SetPlainMode, DipConfig
<1>3. config'.mode \in {config.mode \cup {bit}, config.mode \ {bit}}
  BY ClearedType DEF SetPlainMode, DipConfig, DipTypeOK
<1>4. Live' = Live
  BY <1>1, <1>3 DEF Live
<1> QED BY <1>2, <1>4 DEF SetPlainMode, DipTypeOK, SourceState

\* READID may add DVDROM, which is no emulation.
LEMMA ReadDiscIdInv ==
  ASSUME NEW cmdOk \in BOOLEAN, NEW readOk \in BOOLEAN, NEW gamecube \in BOOLEAN,
         NEW layer \in BOOLEAN, DipTypeOK, ReadDiscId(cmdOk, readOk, gamecube, layer)
  PROVE  DipTypeOK' /\ UNCHANGED SourceState /\ Live' = Live
<1> DEFINE c1 == IF DI_ChkMode(MODE_EMUL) \/ cmdOk THEN Cleared
                 ELSE [Cleared EXCEPT !.mode = @ \cup {"DVDROM"}]
<1>1. c1 \in DipConfig /\ c1.mode \cap MODE_EMUL = Live
  BY ClearedType DEF ModeBit, MODE_EMUL, Live, DipConfig, DipTypeOK
<1>2. \/ config' = c1
      \/ config' = [c1 EXCEPT !.type = "DVD9"]
      \/ config' = CheckDisc(c1, layer)
  BY DEF ReadDiscId
<1>3. /\ CheckDisc(c1, layer) \in DipConfig
      /\ CheckDisc(c1, layer).mode = c1.mode
  BY <1>1 DEF CheckDisc, DipConfig
<1>4. config' \in DipConfig /\ config'.mode = c1.mode
  BY <1>1, <1>2, <1>3 DEF DipConfig
<1>5. UNCHANGED <<dipCfgState, frag_dev, fraglist_data, wbfs>>
  BY DEF ReadDiscId
<1>6. lowmem' \in Disc \cup {None}
  BY DEF ReadDiscId, DipTypeOK
<1> QED BY <1>1, <1>4, <1>5, <1>6 DEF DipTypeOK, SourceState, Live

-----------------------------------------------------------------------------
(* The two commands that open a source *)

\* Either the source is open, and the copy is a copy of config; or the mode is
\* off, and the copy stays as it was.
LEMMA SetWbfsEffect ==
  ASSUME NEW device \in Device \cup {0}, NEW disc \in Disc, NEW opened \in BOOLEAN,
         NEW found \in BOOLEAN, DipTypeOK, SetWbfsMode(device, disc, opened, found)
  PROVE  /\ DipTypeOK' /\ UNCHANGED <<frag_dev, fraglist_data>>
         /\ "FRAG" \in config'.mode <=> "FRAG" \in config.mode
         /\ \/ /\ "WBFS" \in config'.mode /\ wbfs'.disc # None
               /\ dipCfgState'.mode = config'.mode
               /\ dipCfgState'.device = wbfs'.fd /\ dipCfgState'.device # 0
            \/ "WBFS" \notin config'.mode /\ UNCHANGED dipCfgState
<1> DEFINE w  == IF device = 0 THEN NoWbfs ELSE WBFS_Open(device, disc, opened, found)
           on == w.disc # None
           c1 == [Cleared EXCEPT !.mode = @ \ {"WBFS"}]
           c2 == IF on THEN [c1 EXCEPT !.mode = @ \cup {"WBFS"}] ELSE c1
<1>1. /\ wbfs' = w
      /\ config' = c2
      /\ dipCfgState' = IF on THEN [mode |-> c2.mode, device |-> device, frag_size |-> 0]
                        ELSE dipCfgState
      /\ UNCHANGED <<frag_dev, fraglist_data, lowmem>>
  BY DEF SetWbfsMode
<1>2. w \in [fd : Device \cup {None}, disc : Disc \cup {None}]
  BY DEF NoWbfs, WBFS_Open
<1>3. on => w.fd = device /\ device # 0
  BY DEF NoWbfs, WBFS_Open
<1>4. /\ config'.mode = IF on THEN config.mode \cup {"WBFS"} ELSE config.mode \ {"WBFS"}
      /\ config' \in DipConfig
  BY <1>1, ClearedType DEF ModeBit, DipConfig, DipTypeOK
<1> HIDE DEF w, c1, c2
<1>5. dipCfgState' \in DipConfigState
  BY <1>1, <1>4 DEF DipTypeOK, DipConfig, DipConfigState
<1>6. DipTypeOK'
  BY <1>1, <1>2, <1>4, <1>5 DEF DipTypeOK
<1>7. "FRAG" \in config'.mode <=> "FRAG" \in config.mode
  BY <1>4
<1>8. CASE on
  <2>1. /\ dipCfgState'.mode = config'.mode
        /\ dipCfgState'.device = wbfs'.fd /\ dipCfgState'.device # 0 /\ wbfs'.disc # None
    BY <1>1, <1>3, <1>8
  <2> QED BY <1>1, <1>4, <1>6, <1>7, <1>8, <2>1
<1>9. CASE ~on
  BY <1>1, <1>4, <1>6, <1>7, <1>9
<1> QED BY <1>8, <1>9

\* WBFS_SET keeps the invariant, whether the disc opens or not.
LEMMA SetWbfsInv ==
  ASSUME NEW device \in Device \cup {0}, NEW disc \in Disc, NEW opened \in BOOLEAN,
         NEW found \in BOOLEAN, DipInv, SetWbfsMode(device, disc, opened, found)
  PROVE  DipInv'
<1>1. DipTypeOK /\ SourceInv
  BY DEF DipInv
<1> QED BY <1>1, SetWbfsEffect DEF DipInv, SourceInv, ModeIsBacked, Live, Saved, MODE_EMUL

\* What FRAG_SET does to the bit, the list and the copy: on with all three, or off.
LEMMA SetFragEffect ==
  ASSUME NEW device \in Device \cup {0}, NEW size \in FragSize \cup {0}, NEW up \in BOOLEAN,
         DipTypeOK, SetFragMode(device, size, up)
  PROVE  /\ DipTypeOK' /\ UNCHANGED wbfs
         /\ "WBFS" \in config'.mode <=> "WBFS" \in config.mode
         /\ \/ /\ "FRAG" \in config'.mode /\ frag_dev' # None
               /\ dipCfgState'.mode = config'.mode
               /\ dipCfgState'.device = frag_dev' /\ dipCfgState'.device # 0
               /\ dipCfgState'.frag_size = fraglist_data'
            \/ "FRAG" \notin config'.mode /\ UNCHANGED dipCfgState
<1> DEFINE on == FragInitOK(device, size, up)
           c1 == [Cleared EXCEPT !.mode = @ \ {"FRAG"}]
           c2 == IF on THEN [c1 EXCEPT !.mode = @ \cup {"FRAG"}] ELSE c1
<1>1. /\ frag_dev' = IF on THEN device ELSE None
      /\ fraglist_data' = IF on THEN size ELSE fraglist_data
      /\ config' = c2
      /\ dipCfgState' = IF on THEN [mode |-> c2.mode, device |-> device, frag_size |-> size]
                        ELSE dipCfgState
      /\ UNCHANGED <<wbfs, lowmem>>
  BY DEF SetFragMode
<1>2. on => device \in Device /\ device # None /\ device # 0
  BY DipAssumption DEF FragInitOK
<1>3. /\ config'.mode = IF on THEN config.mode \cup {"FRAG"} ELSE config.mode \ {"FRAG"}
      /\ config' \in DipConfig
  BY <1>1, ClearedType DEF ModeBit, DipConfig, DipTypeOK
<1> HIDE DEF on, c1, c2
<1>4. dipCfgState' \in DipConfigState
  BY <1>1, <1>3 DEF DipTypeOK, DipConfig, DipConfigState
<1>5. DipTypeOK'
  BY <1>1, <1>2, <1>3, <1>4 DEF DipTypeOK
<1>6. "WBFS" \in config'.mode <=> "WBFS" \in config.mode
  BY <1>3
<1>7. CASE on
  <2>1. /\ dipCfgState'.mode = config'.mode
        /\ dipCfgState'.device = frag_dev' /\ dipCfgState'.frag_size = fraglist_data'
        /\ frag_dev' # None /\ dipCfgState'.device # 0
    BY <1>1, <1>2, <1>7
  <2> QED BY <1>1, <1>3, <1>5, <1>6, <1>7, <2>1
<1>8. CASE ~on
  BY <1>1, <1>3, <1>5, <1>6, <1>8
<1> QED BY <1>7, <1>8

\* FRAG_SET keeps the invariant, whether the device and the list come up or not.
LEMMA SetFragInv ==
  ASSUME NEW device \in Device \cup {0}, NEW size \in FragSize \cup {0}, NEW up \in BOOLEAN,
         DipInv, SetFragMode(device, size, up)
  PROVE  DipInv'
<1>1. DipTypeOK /\ SourceInv
  BY DEF DipInv
<1> QED BY <1>1, SetFragEffect DEF DipInv, SourceInv, ModeIsBacked, Live, Saved, MODE_EMUL

-----------------------------------------------------------------------------
(* The invariant of the plugin *)

\* A command of a loader or a game, whatever it answers.
LEMMA CmdInv ==
  ASSUME DipInv, DI_EmulateCmd
  PROVE  DipInv'
<1>0. DipTypeOK /\ SourceInv
  BY DEF DipInv
<1>1. SUFFICES ASSUME DipTypeOK', UNCHANGED SourceState, Live' = Live
               PROVE  DipInv'
  <2>1. CASE SetSource
    BY <2>1, SetWbfsInv, SetFragInv DEF SetSource
  <2>2. CASE Reset
    BY <1>0, <1>1, <2>2, ResetInv
  <2>3. CASE \E cmdOk, readOk, gamecube, layer \in BOOLEAN :
               ReadDiscId(cmdOk, readOk, gamecube, layer)
    BY <1>0, <1>1, <2>3, ReadDiscIdInv
  <2>4. CASE \E offset \in ReadOffset : Read(offset)
    BY <1>0, <1>1, <2>4, ReadInv
  <2>5. CASE \E bit \in LoaderBit, on \in BOOLEAN : SetPlainMode(bit, on)
    BY <1>0, <1>1, <2>5, PlainModeInv
  <2>6. CASE \/ \E offset \in Offset : SetDriveOffset(offset)
             \/ ReportKey \/ ClearCover \/ OtherCmd
             \/ \E offset \in Offset : SetBaseOffset(offset)
             \/ \E value \in BOOLEAN : DisableReset(value)
    BY <1>0, <1>1, <2>6, PlainInv
  <2> QED BY <2>1, <2>2, <2>3, <2>4, <2>5, <2>6 DEF DI_EmulateCmd, PlainCmd, CustomCmd
<1>2. SourceInv'
  BY <1>0, <1>1, SameSources DEF Live
<1> QED BY <1>1, <1>2 DEF DipInv

\* Every command keeps the invariant.
LEMMA DipStepInv == DipInv /\ [DipNext]_<<stealthVars, dipVars>> => DipInv'
<1> SUFFICES ASSUME DipInv, [DipNext]_<<stealthVars, dipVars>> PROVE DipInv'
  OBVIOUS
<1>1. CASE DI_EmulateCmd
  BY <1>1, CmdInv
<1>2. CASE UNCHANGED dipVars
  BY <1>2 DEF dipVars, DipInv, DipTypeOK, SourceInv, ModeIsBacked, Live, Saved
<1> QED BY <1>1, <1>2 DEF DipNext, stealthVars, dipVars

\* Every state of the DIP plugin, for any devices, discs and lists, has its type.
THEOREM DipTypeCorrect == DipSpec => []DipTypeOK
<1>1. DipInv => DipTypeOK
  BY DEF DipInv
<1> QED BY <1>1, InitDipInv, DipStepInv, PTL DEF DipSpec, DipAloneInit

\* A mode bit is never set without the source it promises: no order of opens,
\* failures and closes of the two sources leads a read to a closed one.
THEOREM ModeAlwaysBacked == DipSpec => []ModeIsBacked
<1>1. DipInv => ModeIsBacked
  BY DEF DipInv, SourceInv
<1> QED BY <1>1, InitDipInv, DipStepInv, PTL DEF DipSpec, DipAloneInit

\* What SAVE_CONFIG would write always names an emulation while there is one,
\* and names the device and list that are open when it names just the live one.
THEOREM SnapshotAlwaysMatches == DipSpec => []SnapshotMatchesSource
<1>1. DipInv => SnapshotMatchesSource
  BY DEF DipInv, SourceInv, SnapshotMatchesSource, Live, Saved
<1> QED BY <1>1, InitDipInv, DipStepInv, PTL DEF DipSpec, DipAloneInit

-----------------------------------------------------------------------------
(* What a running title may do *)

TitleRule ==
  GetRunningTitle /\ GetRunningTitle' =>
    /\ UNCHANGED <<dipCfgState, frag_dev, fraglist_data, wbfs, config.noreset>>
    /\ config'.mode \cap (MODE_EMUL \cup {"COVER_OVERRIDE"})
         = config.mode \cap (MODE_EMUL \cup {"COVER_OVERRIDE"})

\* The commands that are not hidden leave the reset lock and the cover override.
LEMMA PlainCmdRule ==
  ASSUME DipTypeOK, PlainCmd
  PROVE  TitleRule
<1> USE DEF DipTypeOK, DipConfig, MODE_EMUL
<1>1. CASE Reset
  <2>1. config'.noreset = config.noreset
    BY <1>1, ClearedType DEF Reset
  <2>2. config'.mode \in {config.mode, config.mode \ {"CRYPT", "DVDROM"}}
    BY <1>1, ClearedType DEF Reset
  <2> QED BY <1>1, <2>1, <2>2 DEF Reset, TitleRule
<1>2. ASSUME NEW cmdOk \in BOOLEAN, NEW readOk \in BOOLEAN, NEW gamecube \in BOOLEAN,
             NEW layer \in BOOLEAN, ReadDiscId(cmdOk, readOk, gamecube, layer)
      PROVE  TitleRule
  <2> DEFINE c1 == IF DI_ChkMode({"WBFS", "FRAG"}) \/ cmdOk THEN Cleared
                   ELSE [Cleared EXCEPT !.mode = @ \cup {"DVDROM"}]
  <2>1. /\ c1 \in DipConfig
        /\ c1.mode \in {config.mode, config.mode \cup {"DVDROM"}}
        /\ c1.noreset = config.noreset
    BY ClearedType DEF ModeBit
  <2>2. config' \in {c1, [c1 EXCEPT !.type = "DVD9"], CheckDisc(c1, layer)}
    BY <1>2 DEF ReadDiscId
  <2>3. config'.mode = c1.mode /\ config'.noreset = c1.noreset
    BY ZenonT(40), <2>1, <2>2 DEF CheckDisc
  <2> QED BY <1>2, <2>1, <2>3 DEF ReadDiscId, TitleRule
<1>3. CASE \E offset \in ReadOffset : Read(offset)
  BY <1>3, ClearedType DEF Read, TitleRule
<1>4. CASE \E offset \in Offset : SetDriveOffset(offset)
  BY <1>4, ClearedType DEF SetDriveOffset, TitleRule
<1>5. CASE ReportKey
  BY <1>5, ClearedType DEF ReportKey, TitleRule
<1>6. CASE ClearCover
  BY <1>6 DEF ClearCover, TitleRule
<1>7. CASE OtherCmd
  BY <1>7, ClearedType DEF OtherCmd, TitleRule
<1> QED BY <1>1, <1>2, <1>3, <1>4, <1>5, <1>6, <1>7 DEF PlainCmd

\* Whatever a title sends, in any order and as often as it likes, the disc the
\* loader chose for it stays: the guards of the custom commands cover every
\* field that says what the disc is.
THEOREM TitleNeverSwitchesDisc == DipSpec => TitleCannotSwitchDisc
<1>1. CustomCmd => ~GetRunningTitle
  BY DEF CustomCmd, SetSource, SetWbfsMode, SetFragMode, SetBaseOffset, SetPlainMode, DisableReset
<1>2. DipTypeOK /\ [DipNext]_<<stealthVars, dipVars>> => [TitleRule]_<<stealthVars, dipVars>>
  <2> SUFFICES ASSUME DipTypeOK, DipNext PROVE TitleRule
    OBVIOUS
  <2>1. CASE PlainCmd
    BY <2>1, PlainCmdRule
  <2>2. CASE CustomCmd
    BY <2>2, <1>1 DEF TitleRule
  <2>3. CASE UNCHANGED dipVars
    BY <2>3 DEF TitleRule, dipVars
  <2> QED BY <2>1, <2>2, <2>3 DEF DipNext, DI_EmulateCmd
<1>3. TitleCannotSwitchDisc <=> [][TitleRule]_<<stealthVars, dipVars>>
  BY DEF TitleCannotSwitchDisc, TitleRule
<1> QED BY <1>2, <1>3, DipTypeCorrect, PTL DEF DipSpec, DipAloneInit

=============================================================================
