----------------------------- MODULE VdpConfig -----------------------------
(***************************************************************************)
(* vdp_bridge.c: how the 256-byte configuration block of a PICO9918 travels *)
(* between the guest, the bridge and pico9918.cfg.                         *)
(*                                                                         *)
(* There are three copies of the block: `live`, which the guest's          *)
(* configurator edits; `config`, the bridge's validated copy; and `file`.  *)
(* A save goes from live to config at once and from config to the file at  *)
(* the end of the frame.  A block is the board it was made for and its     *)
(* settings.  The program is started again and again, with any chip.       *)
(***************************************************************************)
EXTENDS Naturals

CONSTANTS
  Settings,     \* what the settable part of a block can hold
  Default       \* the library's default settings

ASSUME DefaultAssumption == Default \in Settings

VARIABLES
  running,         \* the program is running, past its first vdp_reset
  chip,
  config, live, file,
  config_pending,
  failed,          \* history: the last write of the file did not go through
  acked,           \* history: the settings of the guest's last save
  saved            \* history: all settings guests have saved

memVars == <<config, live, config_pending>>
fileVars == <<file, failed>>
configVars == <<running, chip, memVars, fileVars, acked, saved>>

Chips == {"tms9918a", "f18a", "pico9918", "pico9918pro"}
Boards == {"none", "pico9918", "pico9918pro"}
Blocks == [board : Boards, settings : Settings]

\* What the file can be that is not a block: not there, or too short for one.
Missing == [board |-> "missing", settings |-> Default]
Short == [board |-> "short", settings |-> Default]
Files == Blocks \cup {Missing, Short}

vdp_hw_version(c) == IF c = "pico9918pro" THEN "pico9918pro" ELSE "pico9918"

\* Which chips have a config port; the first is off by one.
HasConfigFromF18a(c) == c # "tms9918a"
vdp_has_config(c) == c \in {"pico9918", "pico9918pro"}

\* The library: the default block belongs to no board; a block that belongs to
\* another board is reset to defaults; a block is stamped before it is saved.
pico9918_config_defaults == [board |-> "none", settings |-> Default]
pico9918_config_validate(b, c) == b.board # vdp_hw_version(c)
Repaired(b, c) == IF pico9918_config_validate(b, c)
                    THEN [board |-> vdp_hw_version(c), settings |-> Default] ELSE b
Stamped(b, c) == [b EXCEPT !.board = vdp_hw_version(c)]

\* What the file may be after block b was written to it: unchanged when it
\* cannot be opened, cut short when it cannot be written.
Write(b) == \/ file' = b /\ failed' = FALSE
            \/ file' \in {file, Short} /\ failed' = TRUE

\* vdp_bridge_config_store of block b by chip c.
vdp_bridge_config_store(b, c) ==
  IF vdp_has_config(c) THEN Write(Stamped(b, c)) ELSE UNCHANGED fileVars

\* vdp_bridge_config_load: what is read, before validation.
ReadBlock(c) ==
  IF vdp_has_config(c) /\ file \in Blocks THEN file ELSE pico9918_config_defaults

Validates(c) == vdp_has_config(c) /\ pico9918_config_validate(ReadBlock(c), c)

\* vdp_bridge_seed, called by every vdp_bridge_reset: load the file, write it
\* back if it had to be repaired, push the block into the device.  The first
\* seeds a block that was not validated.
SeedUnvalidated(c, pending) ==
  /\ config' = ReadBlock(c) /\ live' = config'
  /\ config_pending' = pending /\ UNCHANGED fileVars

vdp_bridge_seed(c, pending) ==
  /\ config' = IF vdp_has_config(c) THEN Repaired(ReadBlock(c), c)
                                    ELSE pico9918_config_defaults
  /\ live' = config'
  /\ IF Validates(c)
       THEN config_pending' = FALSE /\ vdp_bridge_config_store(Repaired(ReadBlock(c), c), c)
       ELSE config_pending' = pending /\ UNCHANGED fileVars

-----------------------------------------------------------------------------
\* Nothing runs; the working directory holds no file, or the one of an older
\* program.
ConfigInit ==
  /\ running = FALSE /\ chip = "tms9918a"
  /\ config = pico9918_config_defaults /\ live = config
  /\ config_pending = FALSE
  /\ file \in Files
  /\ failed = FALSE /\ acked = Default
  /\ saved = IF file \in Blocks THEN {file.settings} ELSE {}

\* Start the program as chip c: main calls vdp_bridge_set_chip and vdp_reset.
Boot(c) ==
  /\ ~running
  /\ running' = TRUE /\ chip' = c
  /\ vdp_bridge_seed(c, FALSE)
  /\ acked' = config'.settings
  /\ UNCHANGED saved

\* F3: vdp_bridge_reset, which loads the file again.
Reset ==
  /\ running
  /\ vdp_bridge_seed(chip, config_pending)
  /\ UNCHANGED <<running, chip, acked, saved>>

\* The guest's configurator changes a setting of the live block.
Stage(s) ==
  /\ running /\ vdp_has_config(chip)
  /\ live' = [live EXCEPT !.settings = s]
  /\ UNCHANGED <<running, chip, config, config_pending, fileVars, acked, saved>>

\* vdp_bridge_config_saved with the save key; the first forgets the flush.
SaveForgotten == config_pending
SavePending == TRUE

Save ==
  /\ running /\ vdp_has_config(chip)
  /\ config' = [config EXCEPT !.settings = live.settings]
  /\ config_pending' = SavePending
  /\ acked' = live.settings /\ saved' = saved \cup {live.settings}
  /\ UNCHANGED <<running, chip, live, fileVars>>

\* vdp_bridge_config_saved with the cancel key; the first copies the other way.
CancelKeepsStaged == /\ config' = [config EXCEPT !.settings = live.settings]
                     /\ UNCHANGED live
CancelStaged == /\ live' = [live EXCEPT !.settings = config.settings]
                /\ UNCHANGED config

Cancel ==
  /\ running /\ vdp_has_config(chip)
  /\ CancelStaged
  /\ UNCHANGED <<running, chip, config_pending, fileVars, acked, saved>>

\* vdp_bridge_config_reload, when the startup diagnostics screen goes away.
Reload ==
  /\ running /\ live' = config
  /\ UNCHANGED <<running, chip, config, config_pending, fileVars, acked, saved>>

\* vdp_bridge_flush: write the block if a save is pending.
vdp_bridge_flush ==
  IF config_pending
    THEN /\ config_pending' = FALSE
         /\ vdp_bridge_config_store(config, chip)
         /\ config' = IF vdp_has_config(chip) THEN Stamped(config, chip) ELSE config
    ELSE UNCHANGED <<config_pending, fileVars, config>>

\* The end of a frame in the main loop.
EndFrame ==
  /\ running /\ vdp_bridge_flush
  /\ UNCHANGED <<running, chip, live, acked, saved>>

\* vdp_bridge_shutdown; the first forgets the flush.
ShutdownUnflushed == UNCHANGED <<config_pending, fileVars, config>>
ShutdownFlush == vdp_bridge_flush

Quit ==
  /\ running /\ running' = FALSE
  /\ ShutdownFlush
  /\ UNCHANGED <<chip, live, acked, saved>>

\* The process is killed or dies in fatal_diag.
Die ==
  /\ running /\ running' = FALSE /\ config_pending' = FALSE
  /\ UNCHANGED <<chip, config, live, fileVars, acked, saved>>

ConfigNext == \/ \E c \in Chips : Boot(c)
              \/ \E s \in Settings : Stage(s)
              \/ Reset \/ Save \/ Cancel \/ Reload \/ EndFrame \/ Quit \/ Die

ConfigSpec == ConfigInit /\ [][ConfigNext]_configVars

-----------------------------------------------------------------------------
\* Every copy is a block; only a program with a config port has a save pending.
ConfigTypeOK ==
  /\ running \in BOOLEAN /\ chip \in Chips
  /\ config \in Blocks /\ live \in Blocks
  /\ file \in Files
  /\ config_pending \in BOOLEAN /\ failed \in BOOLEAN
  /\ config_pending => running /\ vdp_has_config(chip)
  /\ acked \in Settings /\ saved \in SUBSET Settings

\* vdp_bridge.c:201: what the configurator staged reaches the file only by a
\* save; a cancel, a reset, a repair and an exit persist nothing of it.
OnlySavedPersists == file \in Blocks => file.settings \in saved \cup {Default}

\* vdp_bridge.c:138-139: a chip without a config port neither creates nor
\* changes the file, even one left over from a pico9918.
LowChipKeepsFile == running' /\ chip' \in {"tms9918a", "f18a"} => file' = file
LowChipsKeepFile == [][LowChipKeepsFile]_configVars

\* The block in use was made for the board that is emulated, whatever file was
\* found, so the settings of one board never drive another.
BoardMatches ==
  running /\ vdp_has_config(chip) => config.board = vdp_hw_version(chip)

\* So no board or chip ever uses, or spoils, the settings of another.
BoardsKeptApart == [][BoardMatches' /\ LowChipKeepsFile]_configVars

\* With nothing pending, memory and file agree unless the last write failed: a
\* program that dies then loses nothing.
FileIsConfig ==
  running /\ vdp_has_config(chip) /\ ~config_pending => failed \/ file = config

\* An orderly exit leaves on disk what the bridge holds, even if a save came in
\* the last frame, unless a write failed.
QuitPersists ==
  Quit /\ vdp_has_config(chip) =>
    failed' \/ (file' \in Blocks /\ file'.settings = config.settings)
ExitPersists == [][QuitPersists]_configVars

\* A save the guest was told of is undone only by a reset before the end of the
\* frame in which it was made, or after a write that failed.
LosesByReset ==
  running /\ running' /\ config.settings = acked /\ config'.settings # acked'
    => Reset /\ (config_pending \/ failed)
SaveLostOnlyByReset == [][LosesByReset]_configVars

\* So what the guest was told is saved gets to the disk and stays.
SavesReachDisk == [][QuitPersists /\ LosesByReset]_configVars

\* README.md:115-117: the block a guest saved is persisted; with a file that can
\* be written a reset does not take it back.
ResetKeepsSave ==
  [][running /\ running' /\ ~failed /\ config.settings = acked
       => config'.settings = acked']_configVars
=============================================================================
