-------------------------------- MODULE Z80 --------------------------------
(***************************************************************************)
(* The CPU core (z80.c) with the memory map of main.c, running short guest *)
(* programs while interrupts come between any two instructions.            *)
(*                                                                         *)
(* cpu is the struct z80, the RAM behind it and bit 0 of ctrlreg (romOut). *)
(* A program is a function from addresses to instructions.  Code is not in *)
(* the memory modelled, and the stack is away from the data: no program    *)
(* here overwrites itself.  Cycles are counted for block instructions only. *)
(*                                                                         *)
(* Left out: NMI, which nothing in Marduk raises; IX, IY and the second    *)
(* register set; interrupt mode 0, which the guest's ROM leaves at once.   *)
(***************************************************************************)
EXTENDS Z80Alu, Sequences, TLC

CONSTANTS Programs,   \* the programs to run: [name -> [address -> instruction]]
          Inputs,     \* [name -> set of registers and flags to start it with]
          Handler,    \* address of the interrupt handler, which is in every program
          Cells,      \* the addresses of data and stack
          FirstRam,   \* what the RAM holds at the start
          RomSize,    \* addresses below are ROM while the ROM is mapped in
          Rom,        \* the bytes of the ROM
          Top,        \* the stack pointer at the start
          MaxInts     \* bound: interrupts during a program

ASSUME NamesAssumption == DOMAIN Inputs = DOMAIN Programs
ASSUME AddressAssumption == Cells \subseteq Word /\ RomSize \in Nat /\ Top \in Word
ASSUME MemoryAssumption == FirstRam \in [Cells -> Byte] /\ Rom \in [0 .. RomSize - 1 -> Byte]
ASSUME BoundAssumption == MaxInts \in Nat

VARIABLES
  cpu,
  prog,   \* the program that runs
  start,  \* cpu when it began
  ints    \* interrupts raised so far

\* Address of the first instruction.
Origin == 16384

z80Vars == <<cpu, prog, start, ints>>

-----------------------------------------------------------------------------
\* Registers and memory.

Halves == [bc |-> <<"b", "c">>, de |-> <<"d", "e">>, hl |-> <<"h", "l">>]

Pair(r, p) == 256 * r[Halves[p][1]] + r[Halves[p][2]]

SetPair(r, p, w) == [r EXCEPT ![Halves[p][1]] = (w \div 256) % 256,
                              ![Halves[p][2]] = w % 256]

mem_read(z, x) == IF ~ z.romOut /\ x < RomSize THEN Rom[x] ELSE z.ram[x]
mem_write(z, x, v) == [z EXCEPT !.ram[x] = v]

\* What the program sees of the memory.
View(z) == [x \in Cells |-> mem_read(z, x)]

\* PUSH AF without the half carry.
GetFNoHalf(f) == 128 * f.s + 64 * f.z + 4 * f.p + 2 * f.n + f.c

GetF(f) == 128 * f.s + 64 * f.z + 16 * f.h + 4 * f.p + 2 * f.n + f.c
SetF(v) == [s |-> Bit(v, 7), z |-> Bit(v, 6), h |-> Bit(v, 4), p |-> Bit(v, 2),
            n |-> Bit(v, 1), c |-> Bit(v, 0)]

Below(w, k) == (w + 65536 - k) % 65536
Above(w, k) == (w + k) % 65536

\* Low byte at the lower address, in pushw as in popw.
pushw(z, w) ==
  LET sp == Below(z.sp, 2)
  IN  [z EXCEPT !.sp = sp, !.ram = [@ EXCEPT ![sp] = w % 256, ![Above(sp, 1)] = w \div 256]]

rw(z, x) == mem_read(z, x) + 256 * mem_read(z, Above(x, 1))
Popped(z) == rw(z, z.sp)
Drop(z) == [z EXCEPT !.sp = Above(@, 2)]

call(z, target) == [pushw(z, z.pc) EXCEPT !.pc = target]
ret(z) == [Drop(z) EXCEPT !.pc = Popped(z)]

\* An operand: a register, or the byte HL points to.
Operand(z, x) == IF x = "m" THEN mem_read(z, Pair(z.r, "hl")) ELSE z.r[x]

Put(z, x, v) == IF x = "m" THEN mem_write(z, Pair(z.r, "hl"), v) ELSE [z EXCEPT !.r[x] = v]

\* A result and its flags go to x.
Store(z, x, t) == [Put(z, x, t.val) EXCEPT !.f = t.f]

-----------------------------------------------------------------------------
\* Block instructions.

\* HL, and DE for the two copies, up by one or down by one.
Move(z, p, up) == [z EXCEPT !.r = SetPair(@, p, IF up THEN Above(Pair(@, p), 1)
                                                      ELSE Below(Pair(@, p), 1))]
CountDown(z) == [z EXCEPT !.r = SetPair(@, "bc", Below(Pair(@, "bc"), 1))]
CountB(z) == LET b == (z.r.b + 255) % 256
             IN  [z EXCEPT !.r.b = b, !.f.z = Truth(b = 0), !.f.n = 1]

\* ldi and ldd
Copy(z, up) ==
  LET v == mem_read(z, Pair(z.r, "hl"))
      y == CountDown(Move(Move(mem_write(z, Pair(z.r, "de"), v), "hl", up), "de", up))
  IN  [y EXCEPT !.f.n = 0, !.f.h = 0, !.f.p = Truth(Pair(y.r, "bc") > 0)]

\* cpi and cpd
Compare(z, up) ==
  LET t == subb(z.r.a, mem_read(z, Pair(z.r, "hl")), 0).f
      y == CountDown(Move(z, "hl", up))
  IN  [y EXCEPT !.f = [t EXCEPT !.c = z.f.c, !.p = Truth(Pair(y.r, "bc") # 0)]]

\* ini and ind: the device gives 1, 2, 3, ...
Gives(n) == (n + 1) % 256
In(z, up) == CountB(Move([mem_write(z, Pair(z.r, "hl"), Gives(z.given))
                            EXCEPT !.given = Gives(@)], "hl", up))

\* outi and outd
Out(z, up) == CountB(Move([z EXCEPT !.out = Append(@, mem_read(z, Pair(z.r, "hl")))], "hl", up))

Block(z, k, up) == CASE k = "ld" -> Copy(z, up) [] k = "cp" -> Compare(z, up)
                     [] k = "in" -> In(z, up) [] k = "ot" -> Out(z, up)

\* Another round is due.
More(z, k) == CASE k = "ld" -> Pair(z.r, "bc") # 0
                [] k = "cp" -> Pair(z.r, "bc") # 0 /\ z.f.z = 0
                [] k \in {"in", "ot"} -> z.r.b > 0

\* LDIR, LDDR ...: the instruction is fetched again for every round.
RepeatInPlace(z, k, up) == Block(z, k, up)

Repeat(z, k, up) ==
  LET y == Block(z, k, up)
  IN  IF ~ More(y, k) THEN y
      ELSE [y EXCEPT !.pc = Below(@, 2),
                     !.cyc = @ + (IF k = "ot" /\ ~ up THEN 0 ELSE 5)]

-----------------------------------------------------------------------------
\* The instructions.  i.op is the instruction or its group, i.k the operation
\* within the group, i.x its operand, i.v its immediate byte or target.

Jump(z, target, taken) == IF taken THEN [z EXCEPT !.pc = target] ELSE z

\* cb: every operation on (HL) writes its operand back, BIT included.
BitDropped(z, x, n) == Put([z EXCEPT !.f = cb_bit(Operand(z, x), n, @)], x,
                           2^n * Bit(Operand(z, x), n))

BitTest(z, x, n) == Put([z EXCEPT !.f = cb_bit(Operand(z, x), n, @)], x, Operand(z, x))

\* RES and SET
BitPut(z, x, n, b) == Put(z, x, Operand(z, x) + (b - Bit(Operand(z, x), n)) * 2^n)

TurnDigits(z, t) == [mem_write(z, Pair(z.r, "hl"), t.m) EXCEPT !.r.a = t.a.val, !.f = t.a.f]

Loads == {"ld", "ldn", "push", "pop", "pushaf", "popaf"}

ExecLoad(z, i) ==
  CASE i.op = "ld" -> Put(z, i.k, Operand(z, i.x))
    [] i.op = "ldn" -> Put(z, i.k, i.v)
    [] i.op = "push" -> pushw(z, Pair(z.r, i.x))
    [] i.op = "pop" -> [Drop(z) EXCEPT !.r = SetPair(@, i.x, Popped(z))]
    [] i.op = "pushaf" -> pushw(z, 256 * z.r.a + GetF(z.f))
    [] i.op = "popaf" -> [Drop(z) EXCEPT !.r.a = Popped(z) \div 256, !.f = SetF(Popped(z) % 256)]

Arithmetic == {"alu", "inc", "dec", "neg", "cpl", "scf", "ccf", "daa", "incp", "decp",
               "addhl", "adchl", "sbchl"}

ExecArithmetic(z, i) ==
  LET hl(t) == [z EXCEPT !.r = SetPair(@, "hl", t.val), !.f = t.f]
  IN  CASE i.op = "alu" -> Store(z, "a", Alu(i.k, z.r.a, Operand(z, i.x), z.f))
        [] i.op = "inc" -> Store(z, i.x, inc(Operand(z, i.x), z.f))
        [] i.op = "dec" -> Store(z, i.x, dec(Operand(z, i.x), z.f))
        [] i.op = "neg" -> Store(z, "a", neg(z.r.a))
        [] i.op = "cpl" -> Store(z, "a", cpl(z.r.a, z.f))
        [] i.op = "scf" -> [z EXCEPT !.f = scf(@)]
        [] i.op = "ccf" -> [z EXCEPT !.f = ccf(@)]
        [] i.op = "daa" -> Store(z, "a", daa(z.r.a, z.f))
        [] i.op = "incp" -> [z EXCEPT !.r = SetPair(@, i.x, Above(Pair(@, i.x), 1))]
        [] i.op = "decp" -> [z EXCEPT !.r = SetPair(@, i.x, Below(Pair(@, i.x), 1))]
        [] i.op = "addhl" -> hl(addhl(Pair(z.r, "hl"), Pair(z.r, i.x), z.f))
        [] i.op = "adchl" -> hl(adchl(Pair(z.r, "hl"), Pair(z.r, i.x), z.f))
        [] i.op = "sbchl" -> hl(sbchl(Pair(z.r, "hl"), Pair(z.r, i.x), z.f))

Bits == {"shift", "shifta", "bit", "res", "set", "rld", "rrd"}

ExecBits(z, i) ==
  CASE i.op = "shift" -> Store(z, i.x, Shift(i.k, Operand(z, i.x), z.f.c))
    [] i.op = "shifta" -> Store(z, "a", ShiftA(i.k, z.r.a, z.f))
    [] i.op = "bit" -> BitTest(z, i.x, i.v)
    [] i.op = "res" -> BitPut(z, i.x, i.v, 0)
    [] i.op = "set" -> BitPut(z, i.x, i.v, 1)
    [] i.op = "rld" -> TurnDigits(z, rld(z.r.a, Operand(z, "m"), z.f))
    [] i.op = "rrd" -> TurnDigits(z, rrd(z.r.a, Operand(z, "m"), z.f))

\* EI that opens the flip-flops at once.
EiAtOnce(z) == [z EXCEPT !.iff = TRUE]

Ei(z) == [z EXCEPT !.delay = TRUE]

\* The IN is the handler's read of a device, which takes its request back.
ExecControl(z, i) ==
  CASE i.op = "jrnc" -> Jump(z, i.v, z.f.c = 0)
    [] i.op = "djnz" -> LET y == [z EXCEPT !.r.b = (@ + 255) % 256] IN Jump(y, i.v, y.r.b # 0)
    [] i.op = "ei" -> Ei(z)
    [] i.op = "di" -> [z EXCEPT !.iff = FALSE]
    [] i.op = "reti" -> ret(z)
    [] i.op = "in" -> [z EXCEPT !.request = FALSE, !.r.a = 0]
    [] i.op = "rom" -> [z EXCEPT !.romOut = (i.v = 1)]
    [] i.op = "block" -> [Block(z, i.k, i.v = 1) EXCEPT !.cyc = @ + 16]
    [] i.op = "repeat" -> [Repeat(z, i.k, i.v = 1) EXCEPT !.cyc = @ + 16]

exec_opcode(z, i) ==
  LET y == [z EXCEPT !.pc = Above(@, i.len)]
  IN  IF i.op \in Loads THEN ExecLoad(y, i)
      ELSE IF i.op \in Arithmetic THEN ExecArithmetic(y, i)
      ELSE IF i.op \in Bits THEN ExecBits(y, i)
      ELSE ExecControl(y, i)

\* The instruction after EI still runs alone.
process_interrupts(z) ==
  IF z.delay THEN [z EXCEPT !.delay = FALSE, !.iff = TRUE]
  ELSE IF z.request /\ z.iff THEN [call(z, Handler) EXCEPT !.iff = FALSE]
  ELSE z

z80_step(z) == process_interrupts(exec_opcode(z, Programs[prog][z.pc]))

-----------------------------------------------------------------------------
\* The CPU as a program finds it, with interrupts enabled.
Fresh(i) == [pc |-> Origin, sp |-> Top, r |-> i.r, f |-> i.f, ram |-> FirstRam,
             romOut |-> i.romOut, iff |-> TRUE, delay |-> FALSE, request |-> FALSE,
             out |-> <<>>, given |-> 0, cyc |-> 0]

Z80Init == /\ prog \in DOMAIN Programs
           /\ start \in {Fresh(i) : i \in Inputs[prog]}
           /\ cpu = start /\ ints = 0

\* The program has not come to its end.
Running == cpu.pc \in DOMAIN Programs[prog]

Step == /\ Running
        /\ cpu' = z80_step(cpu)
        /\ UNCHANGED <<prog, start, ints>>

\* z80_gen_int, from a device.
Raise == /\ Running /\ ints < MaxInts /\ ~ cpu.request
         /\ cpu' = [cpu EXCEPT !.request = TRUE]
         /\ ints' = ints + 1
         /\ UNCHANGED <<prog, start>>

Z80Next == Step \/ Raise

Z80Spec == Z80Init /\ [][Z80Next]_z80Vars
=============================================================================
