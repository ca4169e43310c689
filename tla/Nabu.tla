-------------------------------- MODULE Nabu --------------------------------
(***************************************************************************)
(* The interrupt network of the emulated NABU and the main loop that       *)
(* drives it: the four request latches, the mask in PSG port A, the        *)
(* encoder output in PSG port B, the interrupt inputs of the Z80, the      *)
(* keyboard buffer, the HCCA socket and the VDP interrupt.                 *)
(*                                                                         *)
(* The program is one loop.  pc says where it is:                          *)
(*   top   the test cpu.cyc > next (main.c:2418)                           *)
(*   poll  inside keyboard_poll, called once per scanline                  *)
(*   cpu   about to run z80_step after a scanline                          *)
(*   int   z80_step has executed an opcode, process_interrupts follows     *)
(* The host (the socket's peer) acts at any time.  Cycle counts are left   *)
(* out: at the top a scanline may or may not be due.  The guest is any     *)
(* program that uses the ports of the network.                             *)
(***************************************************************************)
EXTENDS IntEncoder, KeyQueue

CONSTANTS
  Masks,            \* values the guest writes to PSG port A, sets of sources
  PortBWrites,      \* nibbles the guest writes to PSG port B
  DogSpeed,         \* quiet scanlines until the keyboard kicks the watchdog
  MaxRx,            \* bound: bytes waiting in the socket
  MayReset,         \* whether the user may press F3
  MayHangUp         \* whether the HCCA peer may close the connection

ASSUME MasksAssumption == Masks \subseteq SUBSET Sources
ASSUME PortBAssumption == PortBWrites \subseteq 0 .. 15
ASSUME DogAssumption == DogSpeed \in Nat \ {0}
ASSUME MaxRxAssumption == MaxRx \in Nat
ASSUME ChoicesAssumption == MayReset \in BOOLEAN /\ MayHangUp \in BOOLEAN
ASSUME CodesAssumption == {"key", "dog"} \subseteq Codes

VARIABLES
  pc,
  lat,              \* the latches that are set: hccarint, hccatint, ...
  psg_porta,        \* the interrupt mask as update_interrupts sees it
  psg_portb,        \* the encoder output, low nibble
  reg14, reg15,     \* the PSG's own port registers
  psg_reg_address,  \* PSG register selected by port 0x41
  int_pending, int_data,        \* interrupt inputs of the Z80
  iff1, iff_delay, halted,      \* Z80 interrupt flip-flop, EI delay, HALT
  ei,               \* history: the opcode just executed was EI
  taken,            \* history: source the interrupt just accepted stood for
  kbd,              \* keyboard buffer
  next_watchdog,    \* scanlines the buffer has been empty
  rx,               \* bytes waiting in the HCCA socket
  status,           \* the modem believes it is connected
  hup,              \* the peer has closed the connection
  vdp_flag,         \* interrupt flag of the VDP status register
  vdp_enable        \* the VDP's interrupt output is enabled

netVars == <<lat, psg_porta, psg_portb, reg15, int_pending, int_data>>
psgVars == <<reg14, psg_reg_address>>
cpuVars == <<iff1, iff_delay, halted, ei, taken>>
kbdVars == <<kbd, next_watchdog>>
modemVars == <<rx, status, hup>>
vdpVars == <<vdp_flag, vdp_enable>>
vars == <<pc, netVars, psgVars, cpuVars, kbdVars, modemVars, vdpVars>>

-----------------------------------------------------------------------------
\* update_interrupts that feeds port B before it recomputes it.
UpdateFeedsStale(l, a) ==
  LET out == Encode(l, a) IN
  /\ lat' = l
  /\ psg_porta' = a
  /\ psg_portb' = Nibble(out)
  /\ reg15' = psg_portb
  /\ int_pending' = (out.GS = 0)
  /\ int_data' = 2 * QValue(out)

\* update_interrupts with latches l and mask a: the encoder's output goes to
\* port B and to the interrupt inputs of the Z80.
UpdateInterrupts(l, a) ==
  LET out == Encode(l, a) IN
  /\ lat' = l
  /\ psg_porta' = a
  /\ psg_portb' = Nibble(out)
  /\ reg15' = Nibble(out)
  /\ int_pending' = (out.GS = 0)
  /\ int_data' = 2 * QValue(out)

\* The VDP step of the loop with its calls of update_interrupts forgotten.
SetLatchesOnly(l) ==
  /\ lat' = l
  /\ UNCHANGED <<psg_porta, psg_portb, reg15, int_pending, int_data>>

\* The VDP step of the loop: update_interrupts is called if the latch changed.
SetLatches(l) == IF l = lat THEN UNCHANGED netVars
                            ELSE UpdateInterrupts(l, psg_porta)

\* modem_bytes_available: a closed peer selects readable for ever.
Readable == status /\ (rx > 0 \/ hup)

-----------------------------------------------------------------------------
\* The state init_cpu leaves: power-up code queued, transmit buffer empty.
PowerUp == {"keybdint", "hccatint"}

Init ==
  LET out == Encode(PowerUp, {}) IN
  /\ pc = "top"
  /\ lat = PowerUp /\ psg_porta = {}
  /\ psg_portb = Nibble(out) /\ reg15 = Nibble(out)
  /\ int_pending = (out.GS = 0) /\ int_data = 2 * QValue(out)
  /\ reg14 = {} /\ psg_reg_address = "other"
  /\ iff1 = FALSE /\ iff_delay = 0 /\ halted = FALSE /\ ei = FALSE /\ taken = "none"
  /\ kbd = KeyPut(<<>>, "key") /\ next_watchdog = 0
  /\ rx = 0 /\ status \in BOOLEAN /\ hup = FALSE
  /\ vdp_flag = FALSE /\ vdp_enable = FALSE

-----------------------------------------------------------------------------
(* One scanline of the main loop, from the test at its top to the poll. *)

\* The loop when the keyboard interrupt is raised by a put only.
ScanLatchesNoKeyboard == lat \cup {s \in {"hccarint"} : Readable}

\* The loop when only a byte that finds the socket empty raises a request.
ScanLatchesFirstByte == lat \cup {s \in {"hccarint"} : Readable /\ rx = 1}
                            \cup {s \in {"keybdint"} : kbd # <<>>}

\* The receive latch follows the socket, the keyboard latch a non-empty buffer.
ScanLatches == lat \cup {s \in {"hccarint"} : Readable}
                   \cup {s \in {"keybdint"} : kbd # <<>>}

ScanBegin ==
  /\ pc = "top"
  /\ pc' = "poll"
  /\ IF Readable \/ ScanLatches # lat THEN UpdateInterrupts(ScanLatches, psg_porta)
                                       ELSE UNCHANGED netVars
  /\ taken' = "none"
  /\ UNCHANGED <<psgVars, iff1, iff_delay, halted, ei, kbdVars, modemVars, vdpVars>>

\* keyboard_poll handles a key event.
PollKey ==
  /\ pc = "poll"
  /\ kbd' = KeyPut(kbd, "key")
  /\ UNCHANGED <<pc, netVars, psgVars, cpuVars, next_watchdog, modemVars, vdpVars>>

\* F3 without the `hccarint = 0` of init_cpu.
ResetLatchesKeepHcca == PowerUp \cup (lat \cap {"hccarint"})
ResetLatches == PowerUp

\* keyboard_poll handles F3: vdp_reset, modem_flush and init_cpu.  The PSG is
\* not reset, nor the keys already queued.
PollReset ==
  /\ MayReset
  /\ pc = "poll"
  /\ UpdateInterrupts(ResetLatches, {})
  /\ iff1' = FALSE /\ iff_delay' = 0 /\ halted' = FALSE
  /\ kbd' = KeyPut(kbd, "key")
  /\ rx' = IF status THEN 0 ELSE rx
  /\ status' = (status /\ ~hup)
  /\ vdp_flag' = FALSE /\ vdp_enable' = FALSE
  /\ UNCHANGED <<pc, psgVars, ei, taken, next_watchdog, hup>>

\* The watchdog counter after a scanline that ends with the buffer empty or not.
NextWatchdogNoReset ==
  IF kbd # <<>> THEN 0 ELSE next_watchdog + 1
NextWatchdog ==
  IF kbd # <<>> \/ next_watchdog + 1 >= DogSpeed THEN 0 ELSE next_watchdog + 1

\* A watchdog that never fires, and the one of the program.
DogNever == FALSE
DogDue == kbd = <<>> /\ next_watchdog + 1 >= DogSpeed

\* The VDP latch after vdp_bridge_loop: raised by the VDP's interrupt output,
\* released when the guest has masked the VDP.
VdpLatchNoRelease(flag) ==
  IF flag /\ vdp_enable THEN lat \cup {"vdpint"} ELSE lat
VdpLatch(flag) ==
  IF flag /\ vdp_enable THEN lat \cup {"vdpint"}
  ELSE IF ~vdp_enable THEN lat \ {"vdpint"} ELSE lat

\* The rest of the scanline: watchdog, then one line of the VDP, which may
\* raise its frame or scanline flag.
ScanEnd ==
  /\ pc = "poll"
  /\ pc' = "cpu"
  /\ next_watchdog' = NextWatchdog
  /\ kbd' = IF DogDue THEN KeyPut(kbd, "dog") ELSE kbd
  /\ \E flag \in {vdp_flag, TRUE} : vdp_flag' = flag /\ SetLatches(VdpLatch(flag))
  /\ UNCHANGED <<psgVars, cpuVars, modemVars, vdp_enable>>

-----------------------------------------------------------------------------
(* One opcode of the guest: exec_opcode, with the port handlers it calls. *)

Fetch == pc \in {"top", "cpu"} /\ pc' = "int" /\ taken' = "none"
Running == Fetch /\ ~halted

\* An opcode that touches nothing modelled here; a halted CPU runs these.
Nop == /\ Fetch /\ ei' = FALSE
       /\ UNCHANGED <<netVars, psgVars, iff1, iff_delay, halted, kbdVars, modemVars, vdpVars>>

EnableInt == /\ Running /\ iff_delay' = 1 /\ ei' = TRUE
             /\ UNCHANGED <<netVars, psgVars, iff1, halted, kbdVars, modemVars, vdpVars>>

DisableInt == /\ Running /\ iff1' = FALSE /\ ei' = FALSE
              /\ UNCHANGED <<netVars, psgVars, iff_delay, halted, kbdVars, modemVars, vdpVars>>

Halt == /\ Running /\ halted' = TRUE /\ ei' = FALSE
        /\ UNCHANGED <<netVars, psgVars, iff1, iff_delay, kbdVars, modemVars, vdpVars>>

\* A port access leaves the CPU's interrupt state alone.
PortAccess == Running /\ ei' = FALSE /\ UNCHANGED <<iff1, iff_delay, halted>>

\* OUT (0x41): select a PSG register.
SelectPsg(r) ==
  /\ PortAccess
  /\ psg_reg_address' = r
  /\ UNCHANGED <<netVars, reg14, kbdVars, modemVars, vdpVars>>

\* OUT (0x40) with register 14 selected: the interrupt mask.
WritePortA(m) ==
  /\ PortAccess
  /\ psg_reg_address = "porta"
  /\ IF psg_porta # m THEN UpdateInterrupts(lat, m) ELSE UNCHANGED netVars
  /\ reg14' = m
  /\ UNCHANGED <<psg_reg_address, kbdVars, modemVars, vdpVars>>

\* OUT (0x40) with register 15 selected: the write reaches the PSG.
WritePortB(n) ==
  /\ PortAccess
  /\ psg_reg_address = "portb"
  /\ reg15' = n
  /\ UNCHANGED <<lat, psg_porta, psg_portb, int_pending, int_data,
                 psgVars, kbdVars, modemVars, vdpVars>>

\* IN (0x80): a byte clears the receive latch, an empty or dead socket does not.
ReadHcca ==
  /\ PortAccess
  /\ IF Readable /\ rx > 0
       THEN /\ rx' = rx - 1
            /\ UpdateInterrupts(lat \ {"hccarint"}, psg_porta)
            /\ UNCHANGED status
       ELSE status' = (status /\ ~hup) /\ UNCHANGED <<netVars, rx>>
  /\ UNCHANGED <<psgVars, kbdVars, hup, vdpVars>>

\* IN (0x90): take a code and drop the keyboard request.
ReadKeyboard ==
  /\ PortAccess
  /\ kbd' = KeyRest(kbd)
  /\ UpdateInterrupts(lat \ {"keybdint"}, psg_porta)
  /\ UNCHANGED <<psgVars, next_watchdog, modemVars, vdpVars>>

\* IN (0xA1): read the VDP status register.
ReadVdpStatus ==
  /\ PortAccess
  /\ vdp_flag' = FALSE
  /\ UpdateInterrupts(lat \ {"vdpint"}, psg_porta)
  /\ UNCHANGED <<psgVars, kbdVars, modemVars, vdp_enable>>

\* OUT (0xA1) changes the VDP register that enables its interrupt.
WriteVdpEnable(on) ==
  /\ PortAccess
  /\ vdp_enable' = on
  /\ UNCHANGED <<netVars, psgVars, kbdVars, modemVars, vdp_flag>>

Opcode ==
  \/ Nop \/ EnableInt \/ DisableInt \/ Halt
  \/ ReadHcca \/ ReadKeyboard \/ ReadVdpStatus
  \/ \E r \in {"porta", "portb", "other"} : SelectPsg(r)
  \/ \E m \in Masks : WritePortA(m)
  \/ \E n \in PortBWrites : WritePortB(n)
  \/ \E on \in BOOLEAN : WriteVdpEnable(on)

\* process_interrupts that falls through after the EI delay runs out.
AcceptAtOnce == int_pending /\ (iff1 \/ iff_delay > 0)
Accept == int_pending /\ iff1 /\ iff_delay = 0

\* A HALT that an interrupt does not end.
HaltedAfterKeeps == halted
HaltedAfter == IF Accept THEN FALSE ELSE halted

\* The second half of z80_step.
ProcessInterrupts ==
  /\ pc = "int"
  /\ pc' = "top"
  /\ iff_delay' = 0
  /\ iff1' = (~Accept /\ (iff1 \/ iff_delay > 0))
  /\ halted' = HaltedAfter
  /\ taken' = IF Accept THEN CHOOSE s \in Sources : Vector(s) = int_data ELSE "none"
  /\ UNCHANGED <<netVars, psgVars, ei, kbdVars, modemVars, vdpVars>>

-----------------------------------------------------------------------------
(* The HCCA peer. *)

PeerSend == /\ status /\ ~hup /\ rx < MaxRx
            /\ rx' = rx + 1
            /\ UNCHANGED <<pc, netVars, psgVars, cpuVars, kbdVars, status, hup, vdpVars>>

PeerClose == /\ MayHangUp /\ status /\ ~hup
             /\ hup' = TRUE
             /\ UNCHANGED <<pc, netVars, psgVars, cpuVars, kbdVars, rx, status, vdpVars>>

Loop == ScanBegin \/ PollKey \/ PollReset \/ ScanEnd \/ Opcode \/ ProcessInterrupts

Next == Loop \/ PeerSend \/ PeerClose

Spec == Init /\ [][Next]_vars

\* The loop never stops by itself.  Each opcode adds cycles, so a loop that is
\* at its top again and again finds a scanline due again and again; SDL's event
\* queue is finite, so keyboard_poll returns.
Fairness == /\ WF_vars(Loop)
            /\ SF_vars(ScanBegin)
            /\ WF_vars(ScanEnd)

FairSpec == Spec /\ Fairness

-----------------------------------------------------------------------------
\* Every variable stays in its range; in particular the watchdog counter never
\* reaches dog_speed and the keyboard buffer never exceeds its capacity.
TypeOK ==
  /\ pc \in {"top", "poll", "cpu", "int"}
  /\ lat \in SUBSET Sources /\ "hccatint" \in lat
  /\ psg_porta \in SUBSET Sources /\ reg14 \in SUBSET Sources
  /\ psg_portb \in 0 .. 15 /\ reg15 \in 0 .. 15
  /\ psg_reg_address \in {"porta", "portb", "other"}
  /\ int_pending \in BOOLEAN /\ int_data \in 0 .. 14
  /\ iff1 \in BOOLEAN /\ iff_delay \in {0, 1} /\ halted \in BOOLEAN
  /\ ei \in BOOLEAN /\ taken \in Sources \cup {"none"}
  /\ kbd \in Queues
  /\ next_watchdog \in 0 .. DogSpeed - 1
  /\ rx \in 0 .. MaxRx /\ status \in BOOLEAN /\ hup \in BOOLEAN
  /\ vdp_flag \in BOOLEAN /\ vdp_enable \in BOOLEAN

Requests == lat \cap psg_porta

\* At every point of the loop the Z80 sees an interrupt exactly when a latch
\* that port A lets through is set, and the vector byte is that of the one
\* with the highest priority.  Nothing recomputes it but update_interrupts, so
\* every handler that changes a latch or the mask must have called it.
InterruptCoherence ==
  /\ int_pending <=> Requests # {}
  /\ \A s \in Sources : Wins(s, Requests) => int_data = Vector(s)

\* An interrupt the CPU accepts stands for the highest-priority request that
\* is latched and let through at that moment, not an earlier one.
TakesHighest == taken' # "none" /\ taken' # taken => Wins(taken', Requests)
AcceptsHighest == [][TakesHighest]_vars

\* z80.c:669-670: an interrupt is not accepted before the instruction that
\* follows EI has been executed, so ISRs that end in EI; RET do not nest.
EiShieldsNext == taken # "none" => ~ei

\* After each scanline a VDP request is latched only if the guest has left the
\* VDP's interrupt enabled (main.c:2465-2467).
VdpMaskReleases == pc = "cpu" /\ "vdpint" \in lat => vdp_enable

\* main.c:2422-2423: a receive request stands for bytes the guest can read.
\* Reads and resets must take the latch back together with the bytes.
HccaRequestHasData == "hccarint" \in lat => Readable

\* The same while the peer is connected, across reads of some of the bytes,
\* resets and interrupts.
RequestHasByte == "hccarint" \in lat /\ ~hup => status /\ rx > 0

\* So no request is latched without its cause, over any number of resets, reads and
\* changes of the mask (main.c:2422, 2465).
RequestsHaveCause == RequestHasByte /\ VdpMaskReleases

\* What the guest should read from port B: the encoder's output now.
Shown == Nibble(Encode(lat, psg_porta))

\* main.c:470-472: an interrupt handler finds the source in port B.  No step of
\* the machine leaves port B behind the latches and the mask; only a guest that
\* writes port B itself does, and only until the next update.
KeepsPortB ==
  reg15 = Shown /\ ~ (\E n \in PortBWrites : WritePortB(n)) => reg15' = Shown'
PortBShows == [][KeepsPortB]_vars

\* So an interrupt handler finds the source, in its vector as well as in port B.
HandlerFindsSource == [][TakesHighest /\ KeepsPortB]_vars

\* A key in the buffer is announced, however the buffer came to hold it: after
\* a read of an earlier key, by the watchdog, or across a reset.
KeyAnnounced == kbd # <<>> ~> ("keybdint" \in lat \/ kbd = <<>>)

\* A byte from the adapter is announced, also one that came between the request
\* for an earlier byte and the read that took the request back (main.c:595, 2429).
ByteAnnounced == (status /\ rx > 0) ~> ("hccarint" \in lat \/ ~status \/ rx = 0)

\* A halted CPU with interrupts on leaves HALT for a request (or a reset).
HaltEnds == (halted /\ iff1 /\ int_pending) ~> ~halted

\* main.c:401: the keyboard never stays silent, the watchdog code sees to it.
DogKicks == []<>(kbd # <<>>)
=============================================================================
