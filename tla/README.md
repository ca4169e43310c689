# Marduk, a NABU PC emulator: TLA+ models and proofs

Marduk emulates the NABU Personal Computer: a Z80, a video chip, an AY-3-8910
sound chip whose ports also carry the interrupt mask, a keyboard on a serial
line, a cable modem (HCCA) reached over TCP and a floppy controller. The modules
here model the parts of it that keep state across calls and that several actors
touch. TLC checks them on small instances; TLAPS proves the properties named
below for every value of the constants. `PROJECT.json` maps every definition to
the lines it translates, lists the runs, the hazards of the code and, for every
property, a plausible bug that breaks it.

## 1. The system

The program is one thread, the loop of `main` (main.c:2416-2511), plus SDL's audio
thread. Whenever the CPU's cycle count passes `next`, the loop does a scanline:
disk tick, modem poll, keyboard poll, throttle, watchdog, one line of video, and
at the end of a field the frame. Then it runs one Z80 instruction. The guest
reaches the devices through `port_read` and `port_write`. Outside the program are
the user (keys, controllers, F keys), the HCCA adapter (a TCP peer), the host's
clock and files, and the guest, which may be any program.

| Component | Source | State | Operations | Talks to |
|---|---|---|---|---|
| Interrupt network | main.c:394-532 | four latches, mask (PSG port A), encoder output (port B) | update_interrupts, port handlers | Z80, PSG, all devices |
| Z80 interrupt logic | z80.c:668-815 | iff1, iff_delay, halted, int_pending, int_data | z80_step, z80_gen_int, process_interrupts | interrupt network |
| Main loop | main.c:2416-2511 | next, scanline, next_watchdog | scanline, frame, step | everything |
| Keyboard buffer | main.c:534-568 | 256-slot ring, two byte indices, drop counter | put, get, empty | keyboard_poll, watchdog, port 0x90 |
| Keyboard and controllers | main.c:822-1310 | keyjoy, joybyte, open controller, SDL's event queue | one per SDL event | keyboard buffer |
| Speed control | main.c:192-206, 593, 1347-1367, 2424-2433 | next_fire, unthrottled, hcca_recent, hcca_dry | throttle, resync, F8, F3 | host clock, HCCA port |
| HCCA modem | modem.c | socket, Winsock, status | set-up, read, write, poll, flush, shutdown | TCP peer, port 0x80 |
| Floppy controller | disk.c | registers, status flags, mode, buffer and pointer, two images | commands, register and data ports, tick | guest, image files |
| VDP configuration | vdp_bridge.c:126-260 | live block, bridge's copy, file, pending flag | load, repair, save, cancel, flush | guest's configurator, host file |
| VDP lines and frames | vdp_bridge.c:103-124, 328-447 | line, cadence, geometry | line, loop, reset | PICO9918 core, framebuffer |
| Z80 instruction set | z80.c | registers, memory pointer, cycles | all opcodes | memory map, ports |
| Memory map, control port, printer | main.c:356-367, 634-636, 685-687 | RAM, ROM, ctrlreg, lpt_data | read, write, port 0 | Z80, host file |
| Sound | emu2149.c, main.c:1750-1770 | tone, noise and envelope counters, registers | PSG_calc, PSG_writeReg, creation, deletion | audio thread, port 0x40 |
| DOS video | tms9918.c | VRAM, registers, address latch, status | ports, scanline | MS-DOS build only |
| CPU trace | dasm80.c, main.c:2507 | the flag of F7 | dasm before every step | memory, stdout |
| Start-up, rendering | main.c, paths.h | none that lasts | | |

What makes it hard:

* The guest may do anything at any instruction, keys and bytes arrive between any
  two, and a scanline may fall due at any of them. Interrupt inputs of the CPU are
  a cached copy of latches and mask that every handler has to refresh.
* F3 resets a part of the machine in the middle of a scanline, with keys queued,
  bytes waiting, a request latched, a save unwritten or a transfer in progress.
* The HCCA peer may hang up at any time; a closed socket looks readable for ever.
* Keys and controller share one state (joybyte) and a buffer that may fill up in
  the middle of a two-byte report. F6 exchanges their roles while keys are down.
* A save is acknowledged to the guest before it is on disk; the program may be
  reset, exit or die in between, and the write may fail half-way.
* The host's clock as the throttle sees it falls back to 0 every second.
* The floppy buffer, its pointer and the flags are set by some commands and left
  by others; one status bit has two meanings.
* The audio thread runs the sound chip without a lock while the CPU writes its
  registers: a period may change between a comparison and the subtraction after it.
* TCP keeps what the machine's reset should have lost, and closing with bytes
  unread is an abort to the other end.
* Two counters count the lines of one picture, and only one of them is reset.
* What an instruction does is told twice, by the CPU core and by the disassembler's
  tables; half carry, overflow and DAA have a case for every corner of a byte.

What makes each component correct: the interrupt inputs equal what latches, mask
and priorities say, at every point; each queued key and waiting byte is announced
in the end; the ring is a FIFO; stick bytes are parsed as such and no key sticks;
the throttle neither stalls nor runs ahead; a busy disk transfer delivers what was
asked for and ends; the configuration file holds what was saved and nothing else;
guest programs compute what arithmetic says, whatever interrupts come in between;
a picture is one field, drawn once; a connection leaves nothing behind; voices and
envelopes survive any register write; the trace prints each instruction as the CPU
takes it.

## 2. Modules and how they correspond to the code

| Module | Models | Composition |
|---|---|---|
| `KeyQueue` | the put and the read of a bounded queue | used by KeyFifo, Nabu, Keyboard |
| `KeyFifo` | abstract keyboard line: FIFO, newest code refused when full | |
| `KeyRing` | keyboard_buffer_put/get/empty with indices and drop counter | implements KeyFifo (`RefinesFifo`) |
| `IntEncoder` | int_prio_enc, sources, vectors | extended by Nabu |
| `Nabu` | interrupt network, main loop, Z80 interrupt logic, modem and VDP as the latches see them | extends IntEncoder and KeyQueue |
| `Keyboard` | keyboard_poll (SDL), controllers, F6 | instantiates KeyQueue |
| `Pacing` | throttle, throttle_resync, F8, F3, HCCA countdown | |
| `Fdc` | disk.c | |
| `Modem` | modem.c with the connection it keeps | |
| `Scan` | the beat of the main loop, and vdp_bridge.c's lines | |
| `Psg` | a divider of emu2149.c, and the chip's life against the audio thread | |
| `Z80Alu` | arithmetic, logic, shifts, DAA and their flags | extended by Z80 |
| `Z80` | the CPU core with the memory map, under interrupts | extends Z80Alu |
| `Guest` | what a guest's handler promises, and what the guest may count on then | extends Z80 |
| `MCZ80` | guest programs and what each should compute; compares the trace's tables with the CPU | extends Guest, instantiates Dasm |
| `Dasm` | dasm80.c, and the lengths and jumps of z80.c; no state | |
| `VdpConfig` | the configuration block of vdp_bridge.c | |
| `MCKeyRing` | KeyRing for TLC; checks that `Wrap` is arithmetic modulo `Size` where the indices use it | |
| `*_proofs` | theorems about the module of that name | |
| `Disk_proofs` | theorems about what is kept on disk | extends Fdc and VdpConfig |
| `Output_proofs` | theorems about what is heard and shown | extends Psg and Scan |
| `Cpu_proofs` | theorems about the CPU and its pace | extends Guest and Pacing |
| `Guest_proofs` | theorems about what a guest may count on | extends Cpu_proofs |

**KeyRing.** `ring` has the slots, `wr` and `rd` of main.c's buffer. `Put`, `PutPair`
(send_joybyte) and `Get` are the three callers' operations. The refinement maps the
slots between the indices to the queue of `KeyFifo`. Nabu and Keyboard use that
queue, which the refinement justifies.

**Nabu.** `pc` is where the loop is: `top`, `poll` (in keyboard_poll), `cpu`, and
`int` (between the instruction and process_interrupts). `ScanBegin` is the modem and
keyboard part of a scanline, `PollKey` and `PollReset` are events, `ScanEnd` is
watchdog and video line. Each port handler is an action that includes its call of
update_interrupts. `lat` is the set of latches that are 1. Cycle counts are left
out: at `top` a scanline may or may not be due. `PollReset` is everything F3 does
to this state: vdp_reset, modem_flush and init_cpu, but not the PSG.
`ei` and `taken` are history variables.

**Keyboard.** A step handles one SDL event from start to end: translation, the codes
sent, joybyte. A code is the byte queued. The state of the host (keys down,
controllers plugged in, events not yet handled) is part of the model, so an event
can be handled late. The buffer also takes two codes no key sends: `Reset` is F3, by
way of init_cpu, which queues 0x95 at the start too, and `Watchdog` the main loop's
0x94. When exactly the watchdog's count is full is Nabu's; here it may be on any line
that finds the buffer empty. `down`, `lost`, `swallowed` are history.

**Pacing.** `LineDone(d)` is a scanline's CPU time of d nanoseconds followed by the
look at the modem; `throttle` is the call after keyboard_poll; F3 and F8 come
between. The sleep may overshoot by `Slack`. `age`, `rolled`, `gap`, `waiting`,
`quiet` and `last` are history.

**Fdc.** A byte is a pair of a source and a position in it, so a wrong sector, an old
buffer and a skipped byte all differ. Every port access and command of disk.c is an
action. A null file (empty drive) stops the program or reads nothing, as the C
library may do. The tick counter is never advanced by the code, so it stays 0.

**VdpConfig.** The three copies of the block, with the board it was made for.
`Boot`, `Quit` and `Die` let the program run again and again with any chip, on the
file the run before left. A write may fail to open (file unchanged) or fail
half-way (file cut short).

**Modem.** A step of modem_init is an action that succeeds or fails with that
function's clean-up. A byte is the number of the boot whose request it answers, so
a leftover is told from an answer; bytes lie in `net` (on their way) and `rx` (in
the socket). `Discard` is one recv of modem_flush or modem_deinit, and bytes and a
FIN may arrive between two. `rst` is the refusal of a byte sent to a closed adapter,
after which a send is a SIGPIPE on POSIX. `calm` is history: what the properties need of the adapter.

**Scan.** `cyc` and `next` are taken modulo `Wrap`, as unsigned long is; `missed` is
history: an instruction took `cyc` over the top past a `next` still below it. `Scanline`
is the body of the loop's `if`: vdp_bridge_loop, scanline, and the field's end, where
the picture is shown; `ResetScanline` is one in which keyboard_poll finds F3;
`z80_step` is an instruction. The bridge is a record `[line, per, age]`, and
vdp_bridge_loop a function of it, since it runs twice on it in the modes of 480
lines. `age` says for each row of the picture how long ago it was drawn. Its
specification is called `ScanSpec`, so that one module can extend it and Psg.

**Psg.** `phase` is where the audio thread is inside update_output: between two
statements of it the guest may write a register. `part` chooses one of the three
kinds of divider, which do not share state. `EnvRead` and `EnvMove`, `EnvTurn` are
the read and the write of a statement. `Subtract` reads the period twice, for the
test and for the difference, and each may find the old or the new one: that race is
in the code. The shift register of the noise is the set of the places whose bit is
1. The main thread's start and end are steps of their own.

**Z80Alu, Z80, Guest, MCZ80.** `cpu` is struct z80 with the RAM and the ROM bit. An
instruction is a record of operation, operand and length, and a program a function
from addresses to instructions; code is not in the memory modelled. `z80_step` is
exec_opcode and process_interrupts, as in the code. Flags are translated bit by bit
(`Z80Alu`); what `MCZ80` compares them with is arithmetic on whole numbers at the end of a
program: two-byte sums, BCD sums through DAA, a multiplication, signed comparisons. A
handler that destroys and restores registers and flags may come in after any
instruction, repeating ones included.

`Guest` says what a guest has to keep to, instruction by instruction; `Depth` is how much
the handler has pushed at each of its addresses. `GuestAssumption`: the handler leaves the
stack as it found it, writes nothing but the stack, and opens interrupts by EI in front
of RETI only; the program neither pushes nor pops, and jumps into no part of the handler
(`HandlerKeeps`, `ProgramKeeps`).
`SavesAssumption`: the handler pushes AF before it changes A or a flag, and HL on top of
that before it changes H or L; it changes nothing else, and its last two instructions are
EI and RETI. These are assumptions about guests, whose code is not in the repository; the
27 programs meet them, as TLC checks at the start of the run. `Seen` is the CPU as the
program sees it: without a request, without the bytes below its stack pointer, and, while
the handler runs, with all that will come back from the stack. `InterruptsUnseen`
compares it before and after every step. The specification is called `Z80Spec`, so that
one module can extend it and Pacing.

**Dasm.** `tabmain`, `tabcb`, ... are the five tables, as the opcodes to which each
gives an argument; `dasm` reads them as dasm80.c does. `Length` and `Goes` are
z80.c's account of the same bytes. `Tells` says that the two agree: the line shows as
many bytes as the CPU takes and the place it goes on at. Nothing here depends on a
state, since the main loop prints the line at the CPU's own pc (main.c:2508); so it is
an assumption, `TraceAssumption` of MCZ80, that TLC evaluates, over every opcode
without a prefix, of the CB page and of the ED page. Of the instructions on IX and IY
it is false (section 6).

## 3. Runs

Passing runs:

| Run | Question | Bounds, and why they are enough |
|---|---|---|
| key_ring | Is the ring a FIFO that loses only the newest code? | 4 slots, 3 codes: both indices wrap several times, at every distance; 255 as a code is the value an empty read returns |
| nabu_safety | Are interrupt inputs, accepted vectors, EI shadow, VDP release, receive requests and port B right in every interleaving? | 2 queued keys, watchdog after 2 scanlines, 2 bytes (one remains after a read), masks that let nothing, everything, and the transmit request that is always up through; port B write 9; reset and hang-up on |
| nabu_live | Is each key and byte announced, does HALT end, does the watchdog kick? | 2 bytes: the second may arrive between a request and the read that takes the first, and remains after it; full mask; the peer does not hang up (`HccaRequestHasData` below shows what happens then) |
| fdc | Do transfers deliver what was asked, from inside the buffer, all but its last byte, with coherent flags, and come to their end? | sectors of 3 bytes (first, middle, last), address field and out-of-band block of 2, 2 sectors per track and 2 tracks against an image of 3 sectors: there is a place past the image; sector register 1..3: one value out of range |
| vdp_config | Does the file hold exactly what was saved, for the right board? | a default and two other settings, four chips, any number of boots |
| keyboard | Are reports whole and true, does no key stick, with the machine's own codes in between? | left, right, space, delete, backspace, F6; one controller with a hat and two directions, a buffer of 2 codes (a report fits, fills it or is cut in two), 2 plug events. Modifiers change only the translation, which `AsciiTypable` checks for all ASCII codes and all eight combinations |
| pacing | Does the throttle neither oversleep nor run ahead, and pace an answer of the HCCA when unthrottled? | scanline 2, second 12, oversleep 1, up to 8 of work: a line can take more than half a second, so the only long sleep there is occurs; window of 3 lines |
| z80 | Do programs compute what arithmetic says, and notice no interrupt? | 27 programs, 1192 starts: operands around 0, 0x7F, 0x80, 0xFF and the decimal digits, both carries; blocks of 1 to 3 bytes that overlap, cross the end of memory and the end of the ROM (2 bytes here); 2 interrupts at any instructions |
| scan | Do scanlines keep up with the CPU, and is each picture one field? | scanline of 6 cycles, instructions of 1, 2 and 4, fields of 5 lines of which 3 are drawn, 6 rows; any mode after any field, F3 in any scanline; Wrap 77, like 2^32 no multiple of the period: it wraps again and again, some wraps bring a burst of scanlines and some leave one out |
| modem | Does a boot read its own stream only, does the adapter see a FIN, does a failed set-up leave nothing? | flush of 2 reads of 2 bytes, 5 bytes under way (more than a flush takes), 2 resets, both builds, every step failing |
| psg | Do voices and envelopes survive register writes in mid-sample, and the chip its callbacks? | periods 0 to 3 against 1 or 2 ticks a sample (smaller, equal, larger), 3 steps to a slope, a shift register of 4 bits that goes through all fifteen states but 0, 2 writes at any two points, all sixteen shapes |

In every run but z80's, whose programs are listed, the guest is any program: every
port access of the module may happen at any instruction.

One run ends in a counterexample and shows a place where code and text disagree:

| Run | Text | Code |
|---|---|---|
| pacing_wait | history.txt:6-8 and main.c:201-204: unthrottled, the machine keeps real time whenever the guest waits on the HCCA | only a byte that was read starts the countdown (main.c:593), a request does not (main.c:673-678): the wait for the first byte of an answer is not paced, unless it begins within two seconds of an earlier byte |

For that reason `PacedLinesKeepTime` of the passing run says nothing of a guest that
waits for a first byte. It says that a line is paced while bytes have come within the
window and the socket is dry, and that one is not paced for a guest that asks for
nothing or has a byte at hand.

Four more statements are in the modules and fail. To see the counterexample, put the
name as INVARIANT or PROPERTY into the configuration:

| Definition | Configuration | Text | Code |
|---|---|---|---|
| `HccaRequestHasData` (Nabu) | NabuSafety.cfg | main.c:2422 and modem.c:114: request when bytes are available; stop asking a closed peer | the request raised for a closed socket stays latched after the failed read (modem.c:113) |
| `WholeSector` (Fdc) | Fdc.cfg | disk.c:110 `RDSEC LEN=0400` | the last of the 0x400 bytes is replaced by the data register (disk.c:178) |
| `ResetKeepsSave` (VdpConfig) | VdpConfig.cfg | README.md:115-117: the block is persisted | F3 in the frame of a save reads the old file back and writes it again |
| `NeverMisses` (Scan) | Scan.cfg | | with a wrap that is no multiple of the period, `next` comes to rest within an instruction of the top in some lap, and `cyc` wraps without ever passing it: no scanline for a whole lap. With 2^32 and 228 (2^32 mod 228 = 196) that is the seventh wrap, after more than two hours on Windows, for some 20 minutes |

## 4. Fairness

`Nabu!Fairness`: the loop goes on (WF of `Loop`); a scanline falls due again and
again, because every instruction adds cycles and `next` moves by 228 (SF of
`ScanBegin`: at `top` it alternates with instructions); and keyboard_poll returns,
because the event queue is finite (WF of `ScanEnd`). Nothing is assumed of the
guest, the user or the peer. `DogKicks` and `KeyAnnounced` hold for a guest that
never reads a key.

`Fdc!FairSpec`: the tick comes every scanline, as the loop goes on (WF of `Tick`),
and the guest goes on reading the data port while there is data (WF of the two
reads). That is an assumption about the guest: a transfer nobody reads stays busy
for ever, by design of the code. `DriverGoesOn` leaves out a guest that gives
commands in the middle of transfers for ever, and the address field (section 6).

`Psg!Spec`: SDL's thread goes on calling back as long as the device is not paused,
and a callback that has begun goes on (WF of `AudioStep`). Nothing is assumed of the
main thread: `VoicesSettle` is about behaviours in which it stays in the run.

The other modules check safety only: what a user, a guest or a host does next is up
to them.

## 5. Theorems

Most are of the form `Spec => []Inv` or `Spec => [][A]_vars`, for every value of the
constants that the named assumptions allow; those about operators of `Z80Alu` and `Z80`
are for every argument.

* **KeyRing_proofs.** `TypeCorrect` and `RingIsFifo`, the refinement of KeyFifo for
  every size of the ring. The argument is about `Content`: a put appends to it, or
  finds it full; a get takes its head. Wrapping of the index is one subtraction, so
  no arithmetic modulo Size is needed.
* **Nabu_proofs.** `Coherence`, `AcceptedIsHighest`, `MaskReleases`, `EiShields`,
  `RequestHasData`, `PortBFresh`. The invariant says that the Z80's inputs are the
  encoder's output for the present latches and mask (`Coherent`). Every action
  either calls UpdateInterrupts, which restores it, or changes neither latch nor
  mask. Priority follows from a lemma on the encoder: GS is 0 iff a request is let
  through, and Q is the number of the highest one. `EiInv` ties the EI history to
  iff_delay: a plain invariant on `taken` is not inductive without it.
* **Disk_proofs, of Fdc.** `BusyMeansTransfer`, `BusyMeansDrq`, `Delivery`, `StaysInBuffer`,
  `RightSector`. `Delivery` needs the strengthening that the buffer's first bytes
  are those of `asked` whenever a transfer is under way, and that the pointer is the
  number of bytes delivered. `RightSector` is arithmetic: `t * S + (s - 1)` with
  `s - 1 < S` determines t and s.
* **Disk_proofs, of VdpConfig.** `PersistsSaved`, `RightBoard`, `NothingUnwritten`, `LowChips`,
  `SavesKept`, `ExitKeeps`. `PersistsSaved` speaks of the file alone and is not
  inductive; the strengthening (`KnownOK`) is that the bridge's copy, which is what
  gets written, holds saved or default settings too, and the defaults under a chip
  without a config port. Only `live` may hold anything else.
* **Keyboard_proofs.** `StickBytesParse`, `ReportsAreWhole`, `NoKeySticks`, `LinesHeld`,
  `OppositesNever`, `HandleIsFresh`. `NoKeySticks` needs that no arrow code is
  outstanding while the arrows are the joystick (`DownOK`); `HandleIsFresh` that an
  open controller which was unplugged has its removal still in the event queue.
  `StickReported` is inductive with the type invariant: a lemma on the newest stick
  byte of a buffer (`Newest...`) for each way in which a handler adds to it or the guest
  takes from it, and one (`NextLineStep`) that says which steps change the lines.
  `AsciiIsTypable` is about the tables alone: it names a key for each code.
* **Cpu_proofs, of Pacing.** `SleepIsShort`, `NotAhead`, `TurboPaces` (`PacesWhenDry` of every
  throttle; nothing of a wait for a first byte). The invariant relates
  the clock to `next_fire`: the clock is `age` after the time it was set, less a
  second once it has fallen back (`ClockOK`), and a throttled machine's `next_fire`
  is no older than its last call (`GapOK`). That F8 resynchronises is what keeps
  `GapOK` true. A second must be at least four scanlines (with the oversleep) long.
* **Cpu_proofs, of Z80Alu.** What MCZ80's programs show for chosen operands, for all: byte and
  word sums and differences with every flag (`SumOfBytes`, `DifferenceOfBytes`, `SumOfWords`,
  `DifferenceOfWords`), signed and unsigned comparison (`CompareOrders`), shifts
  (`ShiftsMoveBits`), decimal sums and differences through DAA (`DecimalSum`,
  `DecimalDifference`), digit rotates (`DigitsComeBack`). They rest on one lemma: the exclusive
  or of the three bits at a place is the carry into it (`CarryInto`, `Carries`). A
  subtraction is the addition of the complement, a word is two bytes of which the second
  takes the carry of the first, and DAA is a case split on the two decimal carries.
* **Cpu_proofs, of Z80.** `StackStaysFlat` for every program that keeps `GuestAssumption`, any
  inputs and any number of interrupts. The invariant (`StackInv`): in the program the stack is
  empty; in the handler it holds the address to return to, which is the program's, and
  what `Depth` says; and interrupts are open in the handler for its RETI alone. That last
  part is where EI's delay is needed. It rests on a lemma for each group of
  instructions that says what the group leaves alone (`Executes`, `ExecutesBlock`,
  `ExecutesPush`, `ExecutesPop`, `ExecutesReturn`), and on one for process_interrupts
  (`ServesRight`). `BitOnlyReads` needs only that the struct and the memory keep their
  shape. `PopUndoesPush` and `FlagsComeBack` are about pushw, popw, get_f and set_f.
  `RoundCopies` and `RoundSearches` say what one round of LDI, LDD, CPI, CPD and their
  repeating forms does to any registers and memory, and when it is fetched again;
  `PairMoved` and `CountsDown` carry them, lemmas on a register pair that is stepped.
* **Guest_proofs.** `CpuKeepsWidths`, `ProgramsSeeNoInterrupt` and `BlocksRunRight`, for
  every guest that keeps `GuestAssumption` and `SavesAssumption`, any inputs, any ROM
  below the stack and any number of interrupts, in a memory of 64 KiB (`Cells = Word`, main.c:218;
  TLC's runs have less of it). The invariant is `Steady`: `StackInv`'s, the widths of all parts
  (`Machine`), and interrupts open after every EI of the handler (`Ready`). An instruction
  of the program commutes with the veil over the stack: a lemma for each group says what it
  reads and changes. For the handler, one says that an instruction which saves before it
  writes keeps what comes back (`SameBack`), by how deep the stack is; RETI
  and an interrupt taken turn one into the other. Without the widths none of it holds: a
  register comes back from the stack only if it was a byte.
  `BlocksRunRight` needs an invariant of its own, `BlocksInv`: what the program sees is its
  start after m rounds, or past the last one, for each of the four kinds (`CopyRuns`,
  `SearchRuns`, `InputRuns`, `OutputRuns`). A round is one more (`CopyRound` and the
  others), an interrupt changes nothing of what is seen, and so its place between rounds
  does not matter. That a copy's target is written once before it is read as a source, or
  read before it is written, comes from `SpotsApart`: 65536 rounds visit as many addresses.
* **Modem_proofs.** `SetUpWholly`, `EndsOrderly`, `StreamIsOwn`, for every size of the
  socket's queue, of a read and of a flush. `AllOrNothing` needs what each step of the
  set-up has in hand (`SetupOK`). The other two rest on one count: in a calm flush
  or drain nothing is under way any more, and what is left in the socket is at most what
  the remaining rounds take (`Emptying`); so at its end nothing is left, and what comes later answers the boot that
  asked for it (`OwnOK`), or finds the socket closed in order (`EndOK`).
* **Output_proofs, of Psg.** `CallbackHasChip`: the phase of the audio thread against the
  program counter of the main thread and the device (`ChipOK`); the noise lives because
  the tap above all bits of the register comes down as a 1 whenever a 1 goes out
  (`ShiftedLives`), so that it is enough that one tap is the highest place
  (`NoiseAssumption`). `EnvelopeFollowsShape`: the pointer, face and pause after n steps
  (`Follows`), or off the end of the slope before step n (`Turning`), and in which
  statement of a sample which of the two holds (`EnvOK`). The data sheet's shape repeats
  after four slopes, so n goes from the fourth back to the third.
* **Output_proofs, of Scan.** `LinesInStep` and `PictureIsFresh`: `Phase` is the scanlines
  since the bridge was last at the top; its line is `per * Phase` (`FrameOK`), and a row
  is as old as its phase says (`RowOK`); that a line of a long mode and a doubled line of
  a short one draw the same rows is the lemma `LoopIs`. `ScanlinesKeepUp`: either `lead` is
  the distance from `cyc` to `next`, or `next` has wrapped first (`Ahead`), has made j
  scanlines since, and j of the cheapest instructions fit in what is left of one (`Burst`).
  `Wrap` may be any number above `Period * (Period + 3)`, so a second wrap cannot come
  within a burst; 2^32 is.

The type invariant of each module that has one is proved as `TypeCorrect`
(`ConfigTypeCorrect` for VdpConfig, `PsgTypeCorrect` and `ScanTypeCorrect` in
Output_proofs; the CPU's is `CpuKeepsWidths`). A property of a run that
joins two of these is a theorem as well: `CausesHold` and `SourceFound` (Nabu),
`BusyServed` (Fdc), `BoardsApart` and `SavesReach` (VdpConfig), `StickParsing`
(Keyboard), `PacingKeepsTime` (Pacing); each follows from its parts.

Only model-checked: the liveness properties (`KeyAnnounced`, `ByteAnnounced`,
`HaltEnds`, `DogKicks`, `DriverGoesOn`, `VoicesSettle`), which are out of the
prover's reach; `TraceAssumption`, which is about tables; and `ArithmeticRight`, which is about the programs that `MCZ80`
lists, from start to end. The instructions they are made of are covered by the theorems
about `Z80Alu`, and what interrupts do to them by `ProgramsSeeNoInterrupt`.
Proved only: `OppositesNever` of Keyboard, the type invariants, and what is said of single
operations of the CPU.

## 6. Observations

Behaviour the models follow although a reader may not expect it, where no text of
the repository says otherwise:

* The write of a PSG port set to input is reported as "DENIED" but done
  (main.c:656-670).
* F3 zeroes the interrupt mask of the program but leaves register 14 of the PSG
  (main.c:1610); it leaves the control register too.
* 0xC0 (read address) does not rewind the buffer pointer: after a whole sector the
  guest reads other bytes than the address field and the transfer never ends
  (disk.c:138-147). `DeliversAsked` and `PointerInBuffer` leave the command out.
* A read past the end of an image hands out what the buffer held (disk.c:133); a
  selected empty drive reads a null file (disk.c:130).
* The index flag of an idle drive is a level, not a pulse: `tick` never moves
  (disk.c:234).
* F6 sends neither break codes nor a stick report, so an arrow or a direction that
  is down stays down for the guest until its next event; plug events that come
  while the keys are the joystick are lost (main.c:861).
* An axis event clears both axes, so an analogue stick has no diagonals
  (main.c:921-939).
* `throttle` sets `next_fire` before it sleeps, so a short wait shortens the next
  line; and a wait on the HCCA that begins after unpaced lines finds a `next_fire`
  of any age and may sleep for up to half a second (main.c:1357-1366).
* BIT n,(HL) writes its operand back like every CB instruction (z80.c:1476): of a
  byte of the ROM, to the RAM underneath. `BitReadsOnly` is about what the program sees.
* OTDR does not add the 5 cycles of the other repeating instructions (z80.c:1678);
  `BlocksRight` states both counts.
* The disassembler's tables for IX and IY are indexed by the opcode but do not have an
  entry for each. tabdd is seven entries short: its LD IX,$%04X stands at 0x22
  (dasm80.c:607). So the trace of DD 21 nn nn, which the CPU executes as ld ix,nn
  (z80.c:1338), is `???` without operand, and from there on other opcodes show the text
  of their neighbours. tabfd lists the 80 opcodes that exist without the gaps between
  them. Only the line is wrong: the next is printed at the CPU's pc (main.c:2508,
  dasm80.c:1241). `Tells` is false for 91 of the 252 opcodes in
  `IndexCodes`; some of these are plain opcodes with a prefix that changes nothing.
* On POSIX hosts a second byte sent to an adapter that has closed raises SIGPIPE, for
  which there is no handler, and ends the emulator (modem.c:155), with whatever it has unsaved.
* What was on its way when F3 flushed, or beyond 32 KiB, is read by the next boot
  (modem.c:134); `OwnStream` says what the adapter has to keep to.
* F3 shifts the bridge's frame against the main loop's until the next F3
  (vdp_bridge.c:330): what is shown is then the end of one frame and the start of
  the next, and `RowsFresh` asks for one frame only where there was no shift.
* The first wraps of a 32-bit cycle count bring a burst of scanlines, one per
  instruction, until `cyc` follows `next` (main.c:2418).
* When register 13 of the PSG is written in the course of a sample, the audio
  thread may overwrite the new start of the envelope with the old one's next step
  (emu2149.c:256); it stays in the table of volumes but off its shape until the next
  write. A period written between the test and the subtraction may bring a count below
  zero, that is, up to its top; it takes at most one more event to settle.

## 7. Not modelled

* Of the CPU: IX and IY, the second register set, NMI and interrupt mode 0, the
  undocumented flags, and the cycles of all but block instructions (a table of
  constants). Code is not in the memory of `Z80`, so no program overwrites itself.
* Of the VDP bridge: the columns and colours of a line, which are functions of the
  core's line buffer. Of the PSG: mixing, volume tables, and the rate converter,
  which main.c leaves switched off.
* The printer's strobe and the LEDs (main.c:634), one comparison of two writes, and the
  flag of the CPU trace (F7; port 0xBF in DEBUG builds).
* The TMS9918 and the keyboard of the MS-DOS build: two ports and a drawing that is
  a function of memory. The Windows throttle (a running total).
* Command line, ROM search, rendering, window title, DOS console: pure input or
  output, or start-up only.
* `modem_dummy.c` is not compiled. The PICO9918 core is a submodule that is not in
  this repository; what the bridge uses of it is external.

## 8. Plan

The order was by how much of the machine depends on a part. Modelled: KeyRing and
KeyFifo (refinement), IntEncoder and Nabu, Fdc, VdpConfig, Keyboard, Pacing, Z80Alu
and Z80 with the memory map, Scan, Modem, Psg, Dasm.

Every invariant and action property of a passing run is a theorem, but for
`ArithmeticRight`. What would come next: IX and IY and the second register set in `Z80`;
F3's leftovers in the control register and the PSG, a hazard without a property; and
`ArithmeticRight` program by program, of which the multiplication needs a loop invariant
and the others a walk through their instructions.
