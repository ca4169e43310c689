-------------------------------- MODULE Scan --------------------------------
(***************************************************************************)
(* The beat of the main loop: every so many cycles of the CPU it runs one   *)
(* scanline of the VDP through vdp_bridge_loop, and after a field of them   *)
(* it shows the picture.  Two counters count lines: scanline in main.c and  *)
(* line in vdp_bridge.c, which F3 sets to 0 while scanline goes on.         *)
(*                                                                         *)
(* cyc and next are unsigned long: 2^32 where that is 32 bits wide (Windows) *)
(* is reached after 20 minutes.  Wrap is 2^32 scaled down with the rest; like *)
(* it, no multiple of Period.                                              *)
(*                                                                         *)
(* In the modes of 480 lines the bridge runs two lines for each of the      *)
(* loop's (per); what is drawn, and the VDP's interrupts, are left out.     *)
(***************************************************************************)
EXTENDS Integers

CONSTANTS Period,     \* cycles of a scanline (228)
          Costs,      \* cycles an instruction may take
          Wrap,       \* cyc and next are taken modulo this
          Lines,      \* scanlines of a field (VDP_SCANLINES, 262)
          Visible,    \* lines of the short modes that are drawn (240)
          Rows        \* rows of the picture (VDP_V_OUTPUT, 480)

Dearest == CHOOSE c \in Costs : \A d \in Costs : d <= c
Cheapest == CHOOSE c \in Costs : \A d \in Costs : c <= d

ASSUME CostsAssumption == /\ Period \in Nat /\ Costs \subseteq Nat \ {0}
                          /\ \A c \in Costs : c < Period
                          /\ \E c \in Costs : \A d \in Costs : d <= c
                          /\ \E c \in Costs : \A d \in Costs : c <= d
ASSUME WrapAssumption == Wrap \in Nat /\ Wrap > Period * (Period + 3)
ASSUME GeometryAssumption == Lines \in Nat /\ Visible \in 1 .. Lines - 1 /\ Rows = 2 * Visible

VARIABLES
  due,        \* the loop is past its test of cyc, at z80_step
  cyc, next,  \* the CPU's cycles, and where the next scanline begins
  scanline,   \* of the main loop
  line, per,  \* of the bridge: the next line, and lines_per_call
  \* History:
  age,        \* for every row of the picture, the scanlines since it was drawn
  missed,     \* cyc has wrapped where a scanline was due: none follows for a lap
  lead,       \* cycles that the scanlines are ahead of the CPU, 0 if missed
  skew,       \* scanline when the bridge was last at the top by a reset
  cut         \* F3 since the picture was last shown, or just as it was

scanVars == <<due, cyc, next, scanline, line, per, age, missed, lead, skew, cut>>

\* No row is told apart from one drawn longer ago than this.
Oldest == 2 * Lines

ScanTypeOK ==
  /\ {due, missed, cut} \subseteq BOOLEAN
  /\ cyc \in 0 .. Wrap - 1 /\ next \in 0 .. Wrap - 1 /\ lead \in Int
  /\ scanline \in 0 .. Lines - 1 /\ skew \in 0 .. Lines - 1
  /\ per \in {1, 2} /\ line \in 0 .. Lines * per - 1
  /\ age \in [0 .. Rows - 1 -> 0 .. Oldest]

-----------------------------------------------------------------------------
\* The bridge, as a record of line, per and age.

\* The rows of one virtual line, if none is doubled.
RowsOnce(v) == {dy \in 0 .. Rows - 1 : dy = v.line /\ v.line < Visible * v.per}

\* The rows of one virtual line: a line of the short modes is doubled.
RowsOf(v) ==
  LET scale == IF v.per = 1 THEN 2 ELSE 1
  IN  IF v.line >= Visible * v.per THEN {}
      ELSE {dy \in 0 .. Rows - 1 : dy \div scale = v.line}

\* At the end of a field the VDP says which mode the next one is in.
vdp_bridge_virtual_line(v, mode) ==
  LET drawn == RowsOf(v)
      w == [v EXCEPT !.line = @ + 1, !.age = [r \in DOMAIN @ |-> IF r \in drawn THEN 0 ELSE @[r]]]
  IN  IF w.line < Lines * v.per THEN w ELSE [w EXCEPT !.line = 0, !.per = mode]

\* A loop that looks at lines_per_call again after every line.
LoopUnlatched(v, mode) ==
  LET w == vdp_bridge_virtual_line(v, mode)
  IN  IF w.per = 2 THEN vdp_bridge_virtual_line(w, mode) ELSE w

\* per is latched: a change in the loop counts from the next call.
vdp_bridge_loop(v, mode) ==
  LET w == vdp_bridge_virtual_line(v, mode)
  IN  IF v.per = 2 THEN vdp_bridge_virtual_line(w, mode) ELSE w

\* vdp_bridge_reset starts a short mode at the top; the picture stays.
vdp_bridge_reset(v) == [v EXCEPT !.line = 0, !.per = 1]

Bridge == [line |-> line, per |-> per,
           age |-> [r \in DOMAIN age |-> IF age[r] = Oldest THEN Oldest ELSE age[r] + 1]]

-----------------------------------------------------------------------------
ScanInit ==
  /\ due = FALSE
  /\ cyc = 0 /\ next = Period
  /\ scanline = 0 /\ line = 0 /\ per = 1
  /\ age = [r \in 0 .. Rows - 1 |-> 0]
  /\ missed = FALSE /\ lead = 0 /\ skew = 0 /\ cut = FALSE

\* The picture is shown when scanline has gone through a field.
Shows == scanline + 1 > Lines - 1

\* What a scanline does after the keyboard has been polled, to bridge b.
Advance(b) ==
  /\ due' = TRUE
  /\ scanline' = IF Shows THEN 0 ELSE scanline + 1
  /\ \E mode \in {1, 2} :
       LET v == vdp_bridge_loop(b, mode)
       IN  line' = v.line /\ per' = v.per /\ age' = v.age

\* The next scanline reckoned from the instruction that ended this one.
DueFromCycles(c, n) == (c + Period) % Wrap

\* Where the scanline after the one at n begins, at cycle c.
Due(c, n) == (n + Period) % Wrap

Scanline ==
  /\ ~ due /\ cyc > next
  /\ Advance(Bridge)
  /\ next' = Due(cyc, next)
  /\ lead' = IF missed THEN 0 ELSE lead + Period
  /\ cut' = (cut /\ ~ Shows)
  /\ UNCHANGED <<cyc, missed, skew>>

\* F3, found by keyboard_poll: the rest of the scanline follows, in the new state,
\* so that the CPU's first scanline is two long.
ResetScanline ==
  /\ ~ due /\ cyc > next
  /\ Advance(vdp_bridge_reset(Bridge))
  /\ cyc' = 0 /\ next' = Due(0, Period)
  /\ missed' = FALSE /\ lead' = Period
  /\ skew' = scanline
  /\ cut' = TRUE

\* An instruction takes cyc over the top past a next that is still below it.
Misses(c) == cyc + c >= Wrap /\ next + Period >= Wrap

\* One scanline at most, however far cyc is past next.
z80_step ==
  /\ due \/ ~ cyc > next
  /\ due' = FALSE
  /\ \E c \in Costs :
       /\ cyc' = (cyc + c) % Wrap
       /\ missed' = (missed \/ Misses(c))
       /\ lead' = IF missed' THEN 0 ELSE lead - c
  /\ UNCHANGED <<next, scanline, line, per, age, skew, cut>>

ScanNext == Scanline \/ ResetScanline \/ z80_step

ScanSpec == ScanInit /\ [][ScanNext]_scanVars

-----------------------------------------------------------------------------
\* The scanlines keep up with the CPU: never more than a scanline and an
\* instruction late, and early by a burst at most, when next has wrapped and cyc has
\* not and every instruction brings a scanline.  Nothing but a wrap within an
\* instruction of a scanline ends that, until F3 (main.c:2418).
LineRate ==
  ~ missed => lead \in -(Period + Dearest) .. Period * (1 + Period \div Cheapest)

\* That there is always a next scanline: so on hosts whose unsigned long does not wrap
\* in a lifetime, but not where it has 32 bits (main.c:285, z80.h:37).
NeverMisses == ~ missed

\* The two counters of lines stay in step whatever modes the VDP goes through,
\* shifted by the scanline at which F3 was pressed (vdp_bridge.c:330).
FramesInStep == line = per * ((scanline - skew) % Lines)

\* What is shown is no older than a field, all rows of it, unless F3 cut one off;
\* and when F3 has not, it is one frame from top to bottom.
RowsFresh ==
  [][scanline # 0 /\ scanline' = 0 =>
       \/ cut' \/ cut
       \/ /\ \A r \in DOMAIN age : age'[r] < Lines
          /\ skew = 0 => \A r, q \in DOMAIN age : r < q => age'[q] <= age'[r]]_scanVars
=============================================================================
