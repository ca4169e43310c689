---------------------------- MODULE Disk_proofs ----------------------------
(***************************************************************************)
(* Proofs about what the guest keeps on the host's disk.  VdpConfig, the   *)
(* settings of its display: for every set of settings.  Fdc, the disks it  *)
(* reads: for every geometry, buffer size and command set.                 *)
(***************************************************************************)
EXTENDS Fdc, VdpConfig, TLAPS

-----------------------------------------------------------------------------
(* The settings of the display. *)

USE DefaultAssumption DEF Chips, Boards, Blocks, Missing, Short, Files

\* A block handed to validation is repaired for the chip at hand.
LEMMA Repairs ==
  ASSUME NEW b \in Blocks, NEW c \in Chips
  PROVE  /\ Repaired(b, c) \in Blocks
         /\ Repaired(b, c).board = vdp_hw_version(c)
         /\ Repaired(b, c).settings \in {b.settings, Default}
         /\ Stamped(Repaired(b, c), c) = Repaired(b, c)
<1>1. vdp_hw_version(c) \in Boards
  BY DEF vdp_hw_version
<1>2. Repaired(b, c) \in Blocks /\ Repaired(b, c).board = vdp_hw_version(c)
  BY <1>1 DEF Repaired, pico9918_config_validate
<1>3. Repaired(b, c).settings \in {b.settings, Default}
  BY <1>1 DEF Repaired
<1>4. Stamped(Repaired(b, c), c) = Repaired(b, c)
  BY <1>1, <1>2 DEF Stamped
<1> QED
  BY <1>2, <1>3, <1>4

\* What vdp_bridge_config_load reads is a block, of the file or the default one.
LEMMA Reads ==
  ASSUME file \in Files, NEW c \in Chips
  PROVE  /\ ReadBlock(c) \in Blocks
         /\ ReadBlock(c).settings \in {file.settings, Default}
  BY DEF ReadBlock, pico9918_config_defaults

\* Settings that may be on disk.
Known == saved \cup {Default}

(***************************************************************************)
(* The inductive invariant.  OnlySavedPersists speaks of the file alone;   *)
(* the bridge's copy, which is what gets written, must obey it too, and so *)
(* must every copy be stamped for the chip in use; a chip without a config *)
(* port holds the defaults.                                                *)
(***************************************************************************)
KnownOK == /\ file.settings \in Known /\ config.settings \in Known
           /\ running /\ ~vdp_has_config(chip) => config.settings = Default
IInv == ConfigTypeOK /\ KnownOK /\ BoardMatches /\ FileIsConfig

LEMMA InitIInv == ConfigInit => IInv
<1> SUFFICES ASSUME ConfigInit PROVE IInv
  OBVIOUS
<1>1. config \in Blocks /\ live \in Blocks /\ config.settings = Default
  BY DEF ConfigInit, pico9918_config_defaults
<1>2. file \in Files /\ saved \in SUBSET Settings
  BY DEF ConfigInit
<1>3. file.settings \in Known
  BY DEF ConfigInit, Known
<1> QED
  BY <1>1, <1>2, <1>3 DEF ConfigInit, IInv, ConfigTypeOK, KnownOK, Known, BoardMatches, FileIsConfig

\* Seeding establishes everything about the copies, at boot and at a reset.
LEMMA Seeds ==
  ASSUME IInv, NEW c \in Chips, NEW p \in BOOLEAN, p => vdp_has_config(c),
         vdp_bridge_seed(c, p), UNCHANGED saved, chip' = c, running' = TRUE,
         ~p => (vdp_has_config(c) => ~config_pending),
         p => config_pending,
         acked' \in Settings
  PROVE  IInv'
<1>1. ReadBlock(c) \in Blocks /\ ReadBlock(c).settings \in Known
  BY Reads DEF IInv, ConfigTypeOK, KnownOK, Known
<1>2. CASE ~vdp_has_config(c)
  <2>1. config' = pico9918_config_defaults /\ live' = config' /\ config_pending' = p
        /\ UNCHANGED fileVars
    BY <1>2 DEF vdp_bridge_seed, Validates
  <2>2. config' \in Blocks /\ live' \in Blocks /\ config'.settings = Default
    BY <2>1 DEF pico9918_config_defaults
  <2> QED
    BY <1>2, <2>1, <2>2 DEF IInv, ConfigTypeOK, KnownOK, Known, BoardMatches, FileIsConfig, fileVars
<1>3. CASE vdp_has_config(c) /\ Validates(c)
  <2> DEFINE r == Repaired(ReadBlock(c), c)
  <2>1. config' = r /\ live' = config' /\ config_pending' = FALSE
        /\ Write(Stamped(r, c))
    BY <1>3 DEF vdp_bridge_seed, vdp_bridge_config_store
  <2>2. /\ r \in Blocks /\ r.board = vdp_hw_version(c) /\ r.settings \in Known
        /\ Stamped(r, c) = r
    BY <1>1, Repairs DEF Known
  <2> HIDE DEF r
  <2>3. \/ file' = r /\ failed' = FALSE
        \/ file' \in {file, Short} /\ failed' = TRUE
    BY <2>1, <2>2 DEF Write
  <2>4. file' \in Files /\ file'.settings \in Known /\ failed' \in BOOLEAN
    <3>1. file' = r \/ file' = file \/ file' = Short
      BY <2>3
    <3>2. failed' \in BOOLEAN
      BY <2>3
    <3>3. file' \in Files /\ file'.settings \in Known
      BY <2>2, <3>1 DEF IInv, ConfigTypeOK, KnownOK, Known
    <3> QED
      BY <3>2, <3>3
  <2>5. FileIsConfig'
    BY <2>1, <2>3 DEF FileIsConfig
  <2>6. ConfigTypeOK'
    BY <1>3, <2>1, <2>2, <2>4 DEF IInv, ConfigTypeOK
  <2>7. KnownOK' /\ BoardMatches'
    BY <1>3, <2>1, <2>2, <2>4 DEF KnownOK, Known, BoardMatches
  <2> QED
    BY <2>5, <2>6, <2>7 DEF IInv
<1>4. CASE vdp_has_config(c) /\ ~Validates(c)
  <2>1. ReadBlock(c).board = vdp_hw_version(c)
    BY <1>4 DEF Validates, pico9918_config_validate
  <2>2. ReadBlock(c) = file
    BY <1>4, <2>1 DEF ReadBlock, pico9918_config_defaults, vdp_hw_version
  <2>3. config' = file /\ live' = config' /\ config_pending' = p /\ UNCHANGED fileVars
    BY <1>4, <2>2 DEF vdp_bridge_seed, Repaired, Validates
  <2> QED
    BY <1>1, <1>4, <2>1, <2>2, <2>3
       DEF IInv, ConfigTypeOK, KnownOK, Known, BoardMatches, FileIsConfig, fileVars
<1> QED
  BY <1>2, <1>3, <1>4

\* Flushing keeps everything.
LEMMA Flushes ==
  ASSUME IInv, running, vdp_bridge_flush, UNCHANGED <<chip, live, acked, saved>>,
         running' \in BOOLEAN, ~running' => ~config_pending'
  PROVE  IInv'
<1>1. CASE ~config_pending
  BY <1>1 DEF vdp_bridge_flush, fileVars, IInv, ConfigTypeOK, KnownOK, Known, BoardMatches, FileIsConfig
<1>2. CASE config_pending
  <2>1. vdp_has_config(chip) /\ config \in Blocks /\ config.board = vdp_hw_version(chip)
    BY <1>2 DEF IInv, ConfigTypeOK, BoardMatches
  <2>2. Stamped(config, chip) = config
    BY <2>1 DEF Stamped
  <2>3. config_pending' = FALSE /\ config' = config /\ Write(config)
    BY <1>2, <2>1, <2>2 DEF vdp_bridge_flush, vdp_bridge_config_store
  <2>4. \/ file' = config /\ failed' = FALSE
        \/ file' \in {file, Short} /\ failed' = TRUE
    BY <2>3 DEF Write
  <2>5. file' \in Files /\ file'.settings \in Known /\ failed' \in BOOLEAN
    <3>1. file' = config \/ file' = file \/ file' = Short
      BY <2>4
    <3>2. failed' \in BOOLEAN
      BY <2>4
    <3>3. file' \in Files /\ file'.settings \in Known
      BY <2>1, <3>1 DEF IInv, ConfigTypeOK, KnownOK, Known
    <3> QED
      BY <3>2, <3>3
  <2>6. FileIsConfig'
    BY <2>3, <2>4 DEF FileIsConfig
  <2>7. ConfigTypeOK'
    <3>1. /\ running' \in BOOLEAN /\ chip' \in Chips
          /\ config' \in Blocks /\ live' \in Blocks
      BY <2>3 DEF IInv, ConfigTypeOK
    <3>2. config_pending' = FALSE
      BY <2>3
    <3>3. acked' \in Settings /\ saved' \in SUBSET Settings
      BY DEF IInv, ConfigTypeOK
    <3> QED
      BY <2>5, <3>1, <3>2, <3>3 DEF ConfigTypeOK
  <2>8. KnownOK' /\ BoardMatches'
    BY <2>1, <2>3, <2>5 DEF IInv, KnownOK, Known, BoardMatches
  <2> QED
    BY <2>6, <2>7, <2>8 DEF IInv
<1> QED
  BY <1>1, <1>2 DEF IInv, ConfigTypeOK

LEMMA NextIInv == IInv /\ [ConfigNext]_configVars => IInv'
<1> SUFFICES ASSUME IInv, [ConfigNext]_configVars PROVE IInv'
  OBVIOUS
<1>1. ASSUME NEW c \in Chips, Boot(c) PROVE IInv'
  <2>1. ~config_pending
    BY <1>1 DEF Boot, IInv, ConfigTypeOK
  <2>2. config' \in Blocks
    <3>1. ReadBlock(c) \in Blocks
      BY Reads DEF IInv, ConfigTypeOK
    <3> QED
      BY <1>1, <3>1, Repairs DEF Boot, vdp_bridge_seed, pico9918_config_defaults
  <2> QED
    BY <1>1, <2>1, <2>2, Seeds DEF Boot
<1>2. CASE Reset
  BY <1>2, Seeds DEF Reset, IInv, ConfigTypeOK
<1>3. ASSUME NEW s \in Settings, Stage(s) PROVE IInv'
  BY <1>3 DEF Stage, IInv, ConfigTypeOK, KnownOK, Known, BoardMatches, FileIsConfig, fileVars
<1>4. CASE Save
  <2>1. /\ config' = [config EXCEPT !.settings = live.settings] /\ config_pending' = TRUE
        /\ acked' = live.settings /\ saved' = saved \cup {live.settings}
        /\ UNCHANGED <<running, chip, live, file, failed>> /\ running /\ vdp_has_config(chip)
    BY <1>4 DEF Save, SavePending, fileVars
  <2>2. config' \in Blocks /\ config'.board = config.board /\ config'.settings = live.settings
        /\ live.settings \in Settings
    BY <2>1 DEF IInv, ConfigTypeOK
  <2> QED
    BY <2>1, <2>2 DEF IInv, ConfigTypeOK, KnownOK, Known, BoardMatches, FileIsConfig
<1>5. CASE Cancel
  <2>1. /\ live' = [live EXCEPT !.settings = config.settings]
        /\ UNCHANGED <<running, chip, config, config_pending, file, failed, acked, saved>>
    BY <1>5 DEF Cancel, CancelStaged, fileVars
  <2>2. live' \in Blocks
    BY <2>1 DEF IInv, ConfigTypeOK
  <2> QED
    BY <2>1, <2>2 DEF IInv, ConfigTypeOK, KnownOK, Known, BoardMatches, FileIsConfig
<1>6. CASE EndFrame
  BY <1>6, Flushes DEF EndFrame, IInv, ConfigTypeOK
<1>7. CASE Quit
  <2>1. ~config_pending'
    BY <1>7 DEF Quit, ShutdownFlush, vdp_bridge_flush, IInv, ConfigTypeOK
  <2> QED
    BY <1>7, <2>1, Flushes DEF Quit, ShutdownFlush
<1>8. CASE Die
  BY <1>8, ZenonT(40) DEF Die, fileVars, IInv, ConfigTypeOK, KnownOK, Known, BoardMatches, FileIsConfig
<1>9. CASE Reload
  BY <1>9 DEF Reload, fileVars, IInv, ConfigTypeOK, KnownOK, Known, BoardMatches, FileIsConfig
<1>10. CASE UNCHANGED configVars
  BY <1>10 DEF configVars, memVars, fileVars, IInv, ConfigTypeOK, KnownOK, Known, BoardMatches, FileIsConfig
<1> QED
  BY <1>1, <1>2, <1>3, <1>4, <1>5, <1>6, <1>7, <1>8, <1>9, <1>10 DEF ConfigNext

LEMMA Inductive == ConfigSpec => []IInv
  BY InitIInv, NextIInv, PTL DEF ConfigSpec

\* Every copy of the block is a block, and only a running program with a config
\* port has a save pending (vdp_bridge.c:79-81).
THEOREM ConfigTypeCorrect == ConfigSpec => []ConfigTypeOK
  BY Inductive, PTL DEF IInv

\* The file only ever holds settings a guest has saved, or the defaults: not
\* what was staged and cancelled, nor what a reset interrupted
\* (vdp_bridge.c:194-215).
THEOREM PersistsSaved == ConfigSpec => []OnlySavedPersists
<1>1. IInv => OnlySavedPersists
  BY DEF IInv, KnownOK, Known, OnlySavedPersists
<1> QED
  BY <1>1, Inductive, PTL

\* The block in use always belongs to the board that is emulated
\* (vdp_bridge.c:169-192).
THEOREM RightBoard == ConfigSpec => []BoardMatches
  BY Inductive, PTL DEF IInv

\* With nothing pending, what the bridge holds is on disk unless the last write
\* failed (vdp_bridge.c:145-167).
THEOREM NothingUnwritten == ConfigSpec => []FileIsConfig
  BY Inductive, PTL DEF IInv

\* A chip without a config port leaves the file alone, whatever is in it
\* (vdp_bridge.c:136-152).
THEOREM LowChips == ConfigSpec => LowChipsKeepFile
<1>1. IInv /\ [ConfigNext]_configVars =>
        [running' /\ chip' \in {"tms9918a", "f18a"} => file' = file]_configVars
  <2> SUFFICES ASSUME IInv, [ConfigNext]_configVars, running', chip' \in {"tms9918a", "f18a"}
               PROVE file' = file
    OBVIOUS
  <2> USE DEF vdp_has_config, fileVars
  <2>1. ASSUME NEW c \in Chips, Boot(c) PROVE file' = file
    BY <2>1 DEF Boot, vdp_bridge_seed, Validates
  <2>2. CASE Reset
    BY <2>2 DEF Reset, vdp_bridge_seed, Validates
  <2>3. CASE EndFrame \/ Quit
    BY <2>3 DEF EndFrame, Quit, ShutdownFlush, vdp_bridge_flush, vdp_bridge_config_store
  <2>4. CASE Save \/ Cancel \/ Reload \/ Die \/ UNCHANGED configVars
    BY <2>4 DEF Save, Cancel, Reload, Die, configVars
  <2>5. ASSUME NEW s \in Settings, Stage(s) PROVE file' = file
    BY <2>5 DEF Stage
  <2> QED
    BY <2>1, <2>2, <2>3, <2>4, <2>5 DEF ConfigNext
<1> QED
  BY <1>1, Inductive, PTL DEF ConfigSpec, LowChipsKeepFile, LowChipKeepsFile

\* A save the guest was told of is undone only by a reset that comes before it
\* was written, or after a write that failed (vdp_bridge.c:169-215).
THEOREM SavesKept == ConfigSpec => SaveLostOnlyByReset
<1>1. IInv /\ [ConfigNext]_configVars =>
        [running /\ running' /\ config.settings = acked /\ config'.settings # acked'
           => Reset /\ (config_pending \/ failed)]_configVars
  <2> SUFFICES ASSUME IInv, [ConfigNext]_configVars, running, running',
                      config.settings = acked, config'.settings # acked'
               PROVE Reset /\ (config_pending \/ failed)
    OBVIOUS
  <2>1. CASE Reset
    <3>1. ASSUME ~config_pending, ~failed, vdp_has_config(chip) PROVE FALSE
      <4>1. file = config /\ config.board = vdp_hw_version(chip) /\ file \in Blocks
        BY <3>1 DEF IInv, ConfigTypeOK, FileIsConfig, BoardMatches
      <4>2. ReadBlock(chip) = config /\ Repaired(config, chip) = config
        BY <3>1, <4>1 DEF ReadBlock, Repaired, pico9918_config_validate
      <4>3. config' = config
        BY <2>1, <3>1, <4>2 DEF Reset, vdp_bridge_seed
      <4> QED
        BY <2>1, <4>3 DEF Reset
    <3>2. ASSUME ~vdp_has_config(chip) PROVE FALSE
      BY <2>1, <3>2 DEF Reset, vdp_bridge_seed, pico9918_config_defaults, IInv, KnownOK
    <3> QED
      BY <2>1, <3>1, <3>2
  <2>2. CASE Save
    <3>1. config' = [config EXCEPT !.settings = live.settings] /\ acked' = live.settings
      BY <2>2 DEF Save
    <3> QED
      BY <3>1 DEF IInv, ConfigTypeOK
  <2>3. CASE EndFrame
    BY <2>3 DEF EndFrame, vdp_bridge_flush, Stamped, IInv, ConfigTypeOK
  <2>4. CASE Cancel \/ Reload \/ UNCHANGED configVars
    BY <2>4 DEF Cancel, CancelStaged, Reload, configVars, memVars
  <2>5. ASSUME NEW s \in Settings, Stage(s) PROVE FALSE
    BY <2>5 DEF Stage
  <2>6. CASE Quit \/ Die
    BY <2>6 DEF Quit, Die
  <2>7. ASSUME NEW c \in Chips, Boot(c) PROVE FALSE
    BY <2>7 DEF Boot
  <2> QED
    BY <2>1, <2>2, <2>3, <2>4, <2>5, <2>6, <2>7 DEF ConfigNext
<1> QED
  BY <1>1, Inductive, PTL DEF ConfigSpec, SaveLostOnlyByReset, LosesByReset

\* After an orderly exit the file holds what the bridge held, even if the save
\* came in the last frame, unless a write failed (vdp_bridge.c:344-349).
THEOREM ExitKeeps == ConfigSpec => ExitPersists
<1>1. IInv /\ [ConfigNext]_configVars =>
        [Quit /\ vdp_has_config(chip) =>
           failed' \/ (file' \in Blocks /\ file'.settings = config.settings)]_configVars
  <2> SUFFICES ASSUME IInv, Quit, vdp_has_config(chip)
               PROVE failed' \/ (file' \in Blocks /\ file'.settings = config.settings)
    OBVIOUS
  <2>1. config \in Blocks /\ config.board = vdp_hw_version(chip) /\ running
    BY DEF IInv, ConfigTypeOK, BoardMatches, Quit
  <2>2. Stamped(config, chip) = config
    BY <2>1 DEF Stamped
  <2>3. CASE config_pending
    <3>1. Write(config)
      BY <2>2, <2>3 DEF Quit, ShutdownFlush, vdp_bridge_flush, vdp_bridge_config_store
    <3> QED
      BY <2>1, <3>1 DEF Write
  <2>4. CASE ~config_pending
    <3>1. failed \/ file = config
      BY <2>1, <2>4 DEF IInv, FileIsConfig
    <3>2. file' = file /\ failed' = failed
      BY <2>4 DEF Quit, ShutdownFlush, vdp_bridge_flush, fileVars
    <3> QED
      BY <2>1, <3>1, <3>2
  <2> QED
    BY <2>3, <2>4
<1> QED
  BY <1>1, Inductive, PTL DEF ConfigSpec, ExitPersists, QuitPersists

\* No board or chip uses or spoils the settings of another.
THEOREM BoardsApart == ConfigSpec => BoardsKeptApart
  BY RightBoard, LowChips, PTL DEF LowChipsKeepFile, BoardsKeptApart

\* A save gets to the disk and stays, resets and failed writes apart.
THEOREM SavesReach == ConfigSpec => SavesReachDisk
  BY ExitKeeps, SavesKept, PTL DEF ExitPersists, SaveLostOnlyByReset, SavesReachDisk

HIDE DefaultAssumption DEF Chips, Boards, Blocks, Missing, Short, Files

-----------------------------------------------------------------------------
(* The disks. *)

USE LengthsAssumption, GeometryAssumption, CommandsAssumption DEF Drives, Flags

\* The registers start in range and the buffer whole.
LEMMA InitType == Init => TypeOK
<1> SUFFICES ASSUME Init PROVE TypeOK
  OBVIOUS
<1>1. DOMAIN buf = 0 .. SectorLen - 1
  BY DEF Init
<1>2. mounted \in SUBSET Drives /\ trk \in 0 .. TrackWrap - 1 /\ bufptr \in 0 .. SectorLen
  BY DEF Init
<1>3. sec \in SectorValues \cup {0} /\ stat \in SUBSET Flags /\ disksys_light \in 0 .. 3
  BY DEF Init
<1>4. buflen \in 0 .. SectorLen /\ delivered \in 0 .. SectorLen
  BY DEF Init
<1>5. mode \in {"NONE", "RDSEC"} /\ dead \in BOOLEAN
  BY DEF Init
<1> QED
  BY <1>1, <1>2, <1>3, <1>4, <1>5 DEF TypeOK

LEMMA NextTrackInRange ==
  ASSUME trk \in Nat PROVE NextTrack \in 0 .. TrackWrap - 1
  BY DEF NextTrack

\* Copying into the buffer keeps its domain.
LEMMA FilledDomain ==
  ASSUME NEW src, NEW n \in Nat PROVE DOMAIN Filled(src, n) = 0 .. SectorLen - 1
  BY DEF Filled

\* Type correctness is inductive by itself.
LEMMA NextType == TypeOK /\ [Next]_vars => TypeOK'
<1> SUFFICES ASSUME TypeOK, [Next]_vars PROVE TypeOK'
  OBVIOUS
<1> USE DEF TypeOK
<1>1. CASE Restore
  BY <1>1 DEF Restore, Command, bufVars, histVars
<1>2. CASE StepIn
  BY <1>2, NextTrackInRange DEF StepIn, Command, bufVars, histVars
<1>3. CASE Interrupt
  BY <1>3 DEF Interrupt, Command, bufVars, histVars
<1>4. CASE ReadSectorFails
  BY <1>4 DEF ReadSectorFails, ReadError, Command, bufVars, histVars
<1>5. CASE ReadSector
  BY <1>5, FilledDomain DEF ReadSector, Command, Transfer, AfterRead
<1>6. CASE ReadSectorEmptyDrive
  <2>1. UNCHANGED <<mounted, sec, disksys_light, trk, buf>>
    BY <1>6 DEF ReadSectorEmptyDrive, Command, bufVars
  <2>2. CASE dead' = TRUE /\ UNCHANGED <<stat, bufVars, histVars>>
    BY <2>1, <2>2 DEF bufVars, histVars
  <2>3. CASE /\ stat' = (stat \ {"ENRDY", "ESEEK"}) \cup {"DRQ", "BUSY"}
             /\ bufptr' = 0 /\ UNCHANGED <<buf, dead>>
             /\ Transfer(Nothing, SectorLen)
    BY <2>1, <2>3 DEF Transfer
  <2> QED
    BY <1>6, <2>2, <2>3 DEF ReadSectorEmptyDrive
<1>7. CASE ReadAddress
  BY <1>7, FilledDomain DEF ReadAddress, Command, Transfer
<1>8. CASE ReadOob
  BY <1>8, FilledDomain DEF ReadOob, OobPointer, Command, Transfer
<1>9. CASE \E l \in 0 .. 3 : Select(l)
  BY <1>9 DEF Select, bufVars, histVars
<1>10. CASE \E t \in 0 .. TrackWrap - 1 : WriteTrack(t)
  BY <1>10 DEF WriteTrack, bufVars, histVars
<1>11. CASE \E s \in SectorValues : WriteSector(s)
  BY <1>11 DEF WriteSector, bufVars, histVars
<1>12. CASE ReadLastByte
  BY <1>12 DEF ReadLastByte, ReadData, Done, regVars
<1>13. CASE ReadNextByte
  BY <1>13 DEF ReadNextByte, ReadData, regVars
<1>14. CASE ReadNoTransfer
  BY <1>14 DEF ReadNoTransfer, ReadData, regVars, bufVars
<1>15. CASE Tick
  BY <1>15 DEF Tick, TickFlags, regVars, bufVars, histVars
<1>16. CASE UNCHANGED vars
  BY <1>16 DEF vars, regVars, bufVars, histVars
<1> QED
  BY <1>1, <1>2, <1>3, <1>4, <1>5, <1>6, <1>7, <1>8, <1>9, <1>10, <1>11, <1>12,
     <1>13, <1>14, <1>15, <1>16 DEF Next, GiveCommand, Other, Stopped

(***************************************************************************)
(* Whatever the guest does to its registers, they, the flags and the       *)
(* buffer pointer stay in range, for every command set.                    *)
(***************************************************************************)
THEOREM TypeCorrect == Spec => []TypeOK
  BY InitType, NextType, PTL DEF Spec

-----------------------------------------------------------------------------
\* A busy controller holds a transfer and the data request.
BusyOK == BusyHasTransfer /\ DrqThroughTransfer

LEMMA NextBusy == BusyOK /\ [Next]_vars => BusyOK'
<1> SUFFICES ASSUME BusyOK, [Next]_vars PROVE BusyOK'
  OBVIOUS
<1> USE DEF BusyOK, BusyHasTransfer, DrqThroughTransfer
<1>1. CASE Restore
  BY <1>1 DEF Restore, bufVars
<1>2. CASE StepIn
  BY <1>2 DEF StepIn, bufVars
<1>3. CASE Interrupt
  BY <1>3 DEF Interrupt, bufVars
<1>4. CASE ReadSectorFails
  BY <1>4 DEF ReadSectorFails, ReadError, bufVars
<1>5. CASE ReadSector
  BY <1>5 DEF ReadSector, Transfer
<1>6. CASE ReadSectorEmptyDrive
  BY <1>6 DEF ReadSectorEmptyDrive, Transfer, bufVars
<1>7. CASE ReadAddress
  BY <1>7 DEF ReadAddress, Transfer
<1>8. CASE ReadOob
  BY <1>8 DEF ReadOob, Transfer
<1>9. CASE \E l \in 0 .. 3 : Select(l)
  BY <1>9 DEF Select, bufVars
<1>10. CASE \E t \in 0 .. TrackWrap - 1 : WriteTrack(t)
  BY <1>10 DEF WriteTrack, bufVars
<1>11. CASE \E s \in SectorValues : WriteSector(s)
  BY <1>11 DEF WriteSector, bufVars
<1>12. CASE ReadLastByte
  BY <1>12 DEF ReadLastByte, Done
<1>13. CASE ReadNextByte
  BY <1>13 DEF ReadNextByte
<1>14. CASE ReadNoTransfer
  BY <1>14 DEF ReadNoTransfer, bufVars
<1>15. CASE Tick
  BY <1>15 DEF Tick, TickFlags, bufVars
<1>16. CASE UNCHANGED vars
  BY <1>16 DEF vars, bufVars
<1> QED
  BY <1>1, <1>2, <1>3, <1>4, <1>5, <1>6, <1>7, <1>8, <1>9, <1>10, <1>11, <1>12,
     <1>13, <1>14, <1>15, <1>16 DEF Next, GiveCommand, Other, Stopped

(***************************************************************************)
(* The status register tells the truth about a transfer: a busy controller *)
(* has a buffer to read (a driver that drains it is not stuck) ...         *)
(***************************************************************************)
THEOREM BusyMeansTransfer == Spec => []BusyHasTransfer
<1>1. Init => BusyOK
  BY DEF Init, BusyOK, BusyHasTransfer, DrqThroughTransfer
<1>2. BusyOK => BusyHasTransfer
  BY DEF BusyOK
<1> QED
  BY <1>1, <1>2, NextBusy, PTL DEF Spec

(***************************************************************************)
(* ... and holds DRQ, whatever disksys_tick does with the index flag that  *)
(* shares the bit.                                                         *)
(***************************************************************************)
THEOREM BusyMeansDrq == Spec => []DrqThroughTransfer
<1>1. Init => BusyOK
  BY DEF Init, BusyOK, BusyHasTransfer, DrqThroughTransfer
<1>2. BusyOK => DrqThroughTransfer
  BY DEF BusyOK
<1> QED
  BY <1>1, <1>2, NextBusy, PTL DEF Spec
-----------------------------------------------------------------------------
(***************************************************************************)
(* Delivery.  Apart from the transfer of 0xC0, which does not rewind the   *)
(* buffer, the pointer counts the bytes read, and the buffer holds the     *)
(* asked source from its start (Content), which is what makes              *)
(* DeliversAsked inductive.                                                *)
(***************************************************************************)
Content == mode = "RDSEC" /\ Deliverable(asked)
             => \A i \in 0 .. buflen - 1 : buf[i] = <<asked, i>>
DInv == TypeOK /\ PointerInBuffer /\ Content /\ DeliversAsked

LEMMA FilledHolds ==
  ASSUME NEW src, NEW n \in 1 .. SectorLen, NEW i \in 0 .. n - 1
  PROVE Filled(src, n)[i] = <<src, i>>
<1>1. i \in 0 .. SectorLen - 1 /\ i < n
  OBVIOUS
<1> QED
  BY <1>1, Zenon DEF Filled

\* An action that leaves buffer and transfer alone preserves all of it.
LEMMA SameTransfer ==
  ASSUME PointerInBuffer, Content, DeliversAsked, UNCHANGED <<bufVars, histVars>>
  PROVE (PointerInBuffer /\ Content /\ DeliversAsked)'
  BY DEF PointerInBuffer, Content, DeliversAsked, bufVars, histVars

\* A transfer that starts at the front of a buffer filled with its source.
LEMMA NewTransfer ==
  ASSUME TypeOK, NEW src, NEW n \in 1 .. SectorLen, Transfer(src, n), bufptr' = 0,
         src # Address, Deliverable(src) => buf' = Filled(src, n)
  PROVE (PointerInBuffer /\ Content /\ DeliversAsked)'
<1>1. PointerInBuffer'
  BY DEF Transfer, PointerInBuffer
<1>2. Content'
  BY FilledHolds DEF Transfer, Content, Deliverable
<1>3. DeliversAsked'
  BY DEF Transfer, DeliversAsked
<1> QED
  BY <1>1, <1>2, <1>3

LEMMA NextDelivery ==
  ASSUME DInv, [Next]_vars PROVE DInv'
<1> SUFFICES (PointerInBuffer /\ Content /\ DeliversAsked)'
  BY NextType DEF DInv
<1>0. TypeOK /\ PointerInBuffer /\ Content /\ DeliversAsked
  BY DEF DInv
<1>1. CASE Restore \/ StepIn \/ Interrupt \/ ReadSectorFails \/ Tick
  BY <1>0, <1>1, SameTransfer DEF Restore, StepIn, Interrupt, ReadSectorFails, Tick
<1>2. CASE ReadSector
  <2> DEFINE src == Sector(Selected, Lba(trk, sec))
  <2>1. Transfer(src, SectorLen) /\ bufptr' = 0
    BY <1>2 DEF ReadSector
  <2>2. ASSUME Deliverable(src) PROVE buf' = Filled(src, SectorLen)
    BY <1>2, <2>2 DEF ReadSector, Deliverable, Sector, AfterRead
  <2> QED
    BY <1>0, <2>1, <2>2, NewTransfer DEF Sector, Address
<1>3. CASE ReadSectorEmptyDrive
  <2>1. CASE dead' = TRUE /\ UNCHANGED <<stat, bufVars, histVars>>
    BY <1>0, <2>1, SameTransfer
  <2>2. CASE bufptr' = 0 /\ Transfer(Nothing, SectorLen)
    BY <1>0, <2>2, NewTransfer DEF Deliverable, Nothing, Address
  <2> QED
    BY <1>3, <2>1, <2>2 DEF ReadSectorEmptyDrive
<1>4. CASE ReadAddress
  BY <1>4 DEF ReadAddress, Transfer, PointerInBuffer, Content, DeliversAsked, Deliverable
<1>5. CASE ReadOob
  BY <1>0, <1>5, NewTransfer DEF ReadOob, OobPointer, Oob, Address
<1>6. CASE \E l \in 0 .. 3 : Select(l)
  BY <1>0, <1>6, SameTransfer DEF Select
<1>7. CASE \E t \in 0 .. TrackWrap - 1 : WriteTrack(t)
  BY <1>0, <1>7, SameTransfer DEF WriteTrack
<1>8. CASE \E s \in SectorValues : WriteSector(s)
  BY <1>0, <1>8, SameTransfer DEF WriteSector
<1>9. CASE ReadLastByte
  BY <1>9 DEF ReadLastByte, PointerInBuffer, Content, DeliversAsked
<1>10. CASE ReadNextByte /\ asked = Address
  <2>1. asked' = Address
    BY <1>10 DEF ReadNextByte, ReadData
  <2> QED
    BY <2>1 DEF PointerInBuffer, Content, DeliversAsked, Deliverable
<1>11. CASE ReadNextByte /\ asked # Address
  <2>1. /\ bufptr \in 0 .. SectorLen - 1 /\ bufptr + 1 < buflen
        /\ bufptr = delivered
    BY <1>0, <1>11 DEF ReadNextByte, TypeOK, PointerInBuffer
  <2>2. /\ bufptr' = bufptr + 1 /\ delivered' = delivered + 1 /\ out' = buf[bufptr]
        /\ UNCHANGED <<mode, buf, buflen, asked>>
    BY <1>0, <1>11, <2>1 DEF ReadNextByte, ReadData, Byte, TypeOK
  <2>3. Deliverable(asked) => buf[bufptr] = <<asked, bufptr>>
    BY <1>0, <1>11, <2>1 DEF ReadNextByte, Content, TypeOK
  <2>4. PointerInBuffer' /\ Content'
    BY <1>0, <2>1, <2>2 DEF PointerInBuffer, Content, Deliverable
  <2>5. DeliversAsked'
    BY <1>0, <2>1, <2>2, <2>3 DEF DeliversAsked, Deliverable, TypeOK
  <2> QED
    BY <2>4, <2>5
<1>12. CASE ReadNoTransfer
  BY <1>12 DEF ReadNoTransfer, PointerInBuffer, Content, DeliversAsked, bufVars
<1>13. CASE UNCHANGED vars
  BY <1>0, <1>13, SameTransfer DEF vars
<1> QED
  BY <1>1, <1>2, <1>3, <1>4, <1>5, <1>6, <1>7, <1>8, <1>9, <1>10, <1>11, <1>12, <1>13
     DEF Next, GiveCommand, Other, Stopped

LEMMA InitDelivery == Init => DInv
  BY InitType DEF Init, DInv, PointerInBuffer, Content, DeliversAsked

(***************************************************************************)
(* For every buffer size and geometry a guest that asks for a sector or    *)
(* the out-of-band block reads exactly its bytes, in order ...             *)
(***************************************************************************)
THEOREM Delivery ==
  Spec => []DeliversAsked
<1>1. DInv /\ [Next]_vars => DInv'
  BY NextDelivery
<1>2. DInv => DeliversAsked
  BY DEF DInv
<1> QED
  BY <1>1, <1>2, InitDelivery, PTL DEF Spec

(***************************************************************************)
(* ... and from inside the buffer, even after a transfer of 0xC0 that left *)
(* it.                                                                     *)
(***************************************************************************)
THEOREM StaysInBuffer ==
  Spec => []PointerInBuffer
<1>1. DInv /\ [Next]_vars => DInv'
  BY NextDelivery
<1>2. DInv => PointerInBuffer
  BY DEF DInv
<1> QED
  BY <1>1, <1>2, InitDelivery, PTL DEF Spec
-----------------------------------------------------------------------------
\* A multiple of the track length plus an offset inside a track determines both.
LEMMA TrackOfLba ==
  ASSUME NEW t \in Nat, NEW s \in 1 .. SectorsPerTrack
  PROVE /\ Lba(t, s) \div SectorsPerTrack = t
        /\ Lba(t, s) % SectorsPerTrack = s - 1
<1> DEFINE S == SectorsPerTrack
<1> DEFINE q == Lba(t, s) \div S
<1> DEFINE r == Lba(t, s) % S
<1>1. Lba(t, s) = S * t + (s - 1) /\ Lba(t, s) \in Nat /\ S \in Nat \ {0}
  BY DEF Lba
<1>2. q \in Nat /\ r \in 0 .. S - 1 /\ Lba(t, s) = S * q + r
  BY <1>1
<1> HIDE DEF q, r, S
<1>3. ~(q < t)
  <2> SUFFICES ASSUME q + 1 <= t PROVE FALSE
    BY <1>2
  <2>1. S * (q + 1) <= S * t
    BY <1>1, <1>2
  <2>2. S * (q + 1) = S * q + S
    BY <1>1, <1>2
  <2> QED
    BY <1>1, <1>2, <2>1, <2>2
<1>4. ~(t < q)
  <2> SUFFICES ASSUME t + 1 <= q PROVE FALSE
    BY <1>2
  <2>1. S * (t + 1) <= S * q
    BY <1>1, <1>2
  <2>2. S * (t + 1) = S * t + S
    BY <1>1, <1>2
  <2>3. s - 1 < S
    BY DEF S
  <2> QED
    BY <1>1, <1>2, <2>1, <2>2, <2>3
<1>5. q = t
  BY <1>2, <1>3, <1>4
<1>6. r = s - 1
  BY <1>1, <1>2, <1>5
<1> QED
  BY <1>5, <1>6 DEF q, r, S

(***************************************************************************)
(* For every geometry a read command goes to the track and the sector in   *)
(* the registers: two sectors of a drive never share a place of its image. *)
(***************************************************************************)
THEOREM RightSector == Spec => ReadsRightSector
<1>1. TypeOK /\ [Next]_vars => [ReadSector => /\ asked'[3] \div SectorsPerTrack = trk
                                              /\ asked'[3] % SectorsPerTrack = sec - 1]_vars
  <2> SUFFICES ASSUME TypeOK, ReadSector
               PROVE /\ asked'[3] \div SectorsPerTrack = trk
                     /\ asked'[3] % SectorsPerTrack = sec - 1
    OBVIOUS
  <2>1. asked'[3] = Lba(trk, sec)
    BY DEF ReadSector, Transfer, Sector
  <2>2. trk \in Nat /\ sec \in 1 .. SectorsPerTrack
    BY DEF TypeOK, ReadSector, ReadError
  <2> QED
    BY <2>1, <2>2, TrackOfLba
<1> QED
  BY <1>1, TypeCorrect, PTL DEF Spec, ReadsRightSector

\* A guest that polls BUSY and DRQ finds both until it has read the transfer.
THEOREM BusyServed == Spec => []BusyIsServed
  BY BusyMeansTransfer, BusyMeansDrq, PTL DEF BusyIsServed

=============================================================================
