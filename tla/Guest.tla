------------------------------- MODULE Guest -------------------------------
(***************************************************************************)
(* What a guest program may count on.  If its interrupt handler keeps to a *)
(* discipline, the stack stays flat, the program does not notice the       *)
(* interrupts, and a block instruction does its rounds like one loop.      *)
(***************************************************************************)
EXTENDS Z80

CONSTANT Depth   \* [handler address -> bytes the handler has on the stack there]

-----------------------------------------------------------------------------
\* What the guest promises: its handler leaves the stack as it found it, writes
\* nothing but the stack, and opens interrupts in the instruction before RETI
\* only; the rest of the program leaves the stack alone and jumps to none of the
\* handler's instructions.

Grows == {"push", "pushaf"}
Shrinks == {"pop", "popaf"}

Jumps == {"jrnc", "djnz"}
Straight == Loads \cup Arithmetic \cup Bits \cup {"ei", "di", "in", "rom"}
Blocks == {"block", "repeat"}

WritesMemory(i) == \/ i.op \in {"ld", "ldn"} /\ i.k = "m"
                   \/ i.op \in {"inc", "dec", "shift", "bit", "res", "set"} /\ i.x = "m"
                   \/ i.op \in {"rld", "rrd"}

\* Where the program goes from the instruction i at address a.
NextOf(a, i) ==
  {Above(a, i.len)} \cup (IF i.op \in Jumps THEN {i.v} ELSE {})
                     \cup (IF i.op = "repeat" THEN {Below(Above(a, i.len), 2)} ELSE {})

\* Bytes on the stack after the instruction, of d before it.
DepthAfter(d, i) == IF i.op \in Grows THEN d + 2 ELSE IF i.op \in Shrinks THEN d - 2 ELSE d

Names == {"a", "b", "c", "d", "e", "h", "l"}
Operands == Names \cup {"m"}
Pairs == {"bc", "de", "hl"}

\* i is an instruction of the CPU; LD (HL),(HL) would be HALT.
WellFormed(i) ==
  /\ i.op \in Straight \cup Jumps \cup Blocks \cup {"reti"} /\ i.len \in 1 .. 4
  /\ i.op = "ld" => {i.k, i.x} \subseteq Operands /\ {i.k, i.x} # {"m"}
  /\ i.op = "ldn" => i.k \in Operands /\ i.v \in Byte
  /\ i.op = "alu" => i.k \in {"add", "adc", "sub", "sbc", "and", "xor", "or", "cp"}
  /\ i.op \in {"shift", "shifta"} => i.k \in {"rlc", "rrc", "rl", "rr", "sla", "sll", "sra", "srl"}
  /\ i.op \in {"alu", "inc", "dec", "shift", "bit", "res", "set"} => i.x \in Operands
  /\ i.op \in {"push", "pop", "incp", "decp", "addhl", "adchl", "sbchl"} => i.x \in Pairs
  /\ i.op \in {"bit", "res", "set"} => i.v \in 0 .. 7
  /\ i.op \in Blocks => i.k \in {"ld", "cp", "in", "ot"}
  /\ i.op \in Jumps => i.v \in Word

HandlerKeeps(code, a) ==
  LET i == code[a]
  IN  IF i.op = "reti" THEN Depth[a] = 0
      ELSE /\ i.op \in Straight \cup Jumps
           /\ ~ WritesMemory(i)
           /\ \A b \in NextOf(a, i) :
                /\ b \in DOMAIN Depth /\ Depth[b] = DepthAfter(Depth[a], i)
                /\ i.op = "ei" => code[b].op = "reti"

ProgramKeeps(code, a) ==
  LET i == code[a]
  IN  /\ i.op \in ((Straight \cup Jumps) \ (Grows \cup Shrinks)) \cup Blocks
      /\ NextOf(a, i) \cap DOMAIN Depth = {}

ASSUME DepthAssumption ==
  /\ Depth \in [DOMAIN Depth -> {0, 2, 4}] /\ Handler \in DOMAIN Depth /\ Depth[Handler] = 0
  /\ Top >= 6 /\ Top - 6 .. Top - 1 \subseteq Cells /\ Top - 6 >= RomSize
ASSUME GuestAssumption ==
  \A name \in DOMAIN Programs :
    LET code == Programs[name]
    IN  /\ Origin \notin DOMAIN Depth /\ DOMAIN Depth \subseteq DOMAIN code
        /\ \A a \in DOMAIN code : a \in Word /\ WellFormed(code[a])
        /\ \A a \in DOMAIN Depth : HandlerKeeps(code, a)
        /\ \A a \in DOMAIN code \ DOMAIN Depth : ProgramKeeps(code, a)

-----------------------------------------------------------------------------
\* Further, the handler saves AF before it changes A or a flag, and HL on top of
\* AF before it changes H or L; it changes nothing else; and it returns with
\* interrupts open, from the RETI after EI.

\* The registers an instruction of a handler writes; "f" for the flags.
Sets(i) ==
  CASE i.op \in {"ld", "ldn"} -> {i.k}
    [] i.op \in {"alu", "neg", "cpl", "daa", "shifta"} -> {"a", "f"}
    [] i.op \in {"inc", "dec", "shift", "bit"} -> {i.x, "f"}
    [] i.op \in {"res", "set"} -> {i.x}
    [] i.op \in {"scf", "ccf"} -> {"f"}
    [] i.op \in {"incp", "decp"} -> {Halves[i.x][1], Halves[i.x][2]}
    [] i.op \in {"addhl", "adchl", "sbchl"} -> {"h", "l", "f"}
    [] i.op = "in" -> {"a"}
    [] i.op = "djnz" -> {"b"}
    [] OTHER -> {}

\* What it may write with d bytes on the stack.
Free(d) == (IF d >= 2 THEN {"a", "f"} ELSE {}) \cup (IF d = 4 THEN {"h", "l"} ELSE {})

HandlerSaves(i, d) ==
  CASE i.op = "pushaf" -> d = 0
    [] i.op = "push" -> d = 2 /\ i.x = "hl"
    [] i.op = "pop" -> d = 4 /\ i.x = "hl"
    [] i.op = "popaf" -> d = 2
    [] OTHER -> i.op # "rom" /\ Sets(i) \subseteq Free(d)

ASSUME SavesAssumption ==
  \A name \in DOMAIN Programs :
    LET code == Programs[name]
    IN  /\ code[Handler].op # "reti"
        /\ \A a \in DOMAIN Depth :
             /\ HandlerSaves(code[a], Depth[a])
             /\ code[a].op \in {"ei", "reti"} \/ \A b \in NextOf(a, code[a]) : code[b].op # "reti"

ASSUME InputsAssumption ==
  \A name \in DOMAIN Programs : \A i \in Inputs[name] :
    i.r \in [Names -> Byte] /\ i.f \in Flags /\ i.romOut \in BOOLEAN

-----------------------------------------------------------------------------
\* Interrupts never nest, however fast they come: the handler's EI holds the
\* next one off until its RETI has run (z80.c:671), so the stack holds at most
\* one return address, AF and HL.
StackFlat == cpu.sp \in Top - 6 .. Top

\* BIT looks only: the byte it writes back (z80.c:1476) is the one it read, so
\* the program sees the same memory after it, ROM included.
BitReadsOnly ==
  [][Step /\ Programs[prog][cpu.pc].op = "bit" /\ cpu'.pc # Handler
       => View(cpu') = View(cpu)]_z80Vars

-----------------------------------------------------------------------------
\* The CPU as the program sees it.

Stack == Top - 6 .. Top - 1

\* Below its stack pointer the program sees nothing, and no request either.
Veil(z) == [z EXCEPT !.ram = [x \in Cells |-> IF x \in Stack THEN 0 ELSE z.ram[x]],
                     !.request = FALSE]

\* What comes back to the program when the handler has d bytes on the stack.
Resumed(z, d) ==
  LET af == rw(z, Top - 4)
      r == IF d = 4 THEN SetPair(z.r, "hl", rw(z, Top - 6)) ELSE z.r
  IN  [z EXCEPT !.pc = rw(z, Top - 2), !.sp = Top, !.iff = TRUE,
                !.r = IF d >= 2 THEN [r EXCEPT !.a = af \div 256] ELSE r,
                !.f = IF d >= 2 THEN SetF(af % 256) ELSE @]

Serving == cpu.pc \in DOMAIN Depth

Seen == Veil(IF Serving THEN Resumed(cpu, Depth[cpu.pc]) ELSE cpu)

\* The pairs through which an instruction reaches memory.
Pointers(i) == IF i.op \in Blocks /\ i.k = "ld" THEN {"hl", "de"}
               ELSE IF i.op \in Blocks \cup {"rld", "rrd"} \/ "m" \in {i.k, i.x} THEN {"hl"}
               ELSE {}

Trespasses == \E p \in Pointers(Programs[prog][cpu.pc]) : Pair(cpu.r, p) \in Stack

\* A program does not notice interrupts.  An instruction of the program does to
\* what the program sees what it would do with no interrupt, also if one is
\* served right after it (z80.c:668-700) and if EI or DI is that instruction;
\* a request, and each instruction of the handler, do nothing to it: a register,
\* a flag, the return address come back as they were.
InterruptsUnseen ==
  [][/\ Serving \/ Raise => Seen' = Seen
     /\ Step /\ ~ Serving /\ ~ Trespasses => Seen' = z80_step(Seen)]_z80Vars

-----------------------------------------------------------------------------
\* Programs of one repeating block instruction.

Lone(k) == LET i == Programs[prog][Origin]
           IN  /\ DOMAIN Programs[prog] \ DOMAIN Depth = {Origin}
               /\ i.op = "repeat" /\ i.k = k /\ i.len = 2

Was(p) == Pair(start.r, p)
Is(p) == Pair(cpu.r, p)

\* The address of round k; the number of rounds, when 0 counts for all values.
At(w, k) == (w + (IF Programs[prog][Origin].v = 1 THEN k ELSE 65536 - k)) % 65536
Rounds(count, all) == IF count = 0 THEN all ELSE count

OffStack(p, n) == \A k \in 0 .. n - 1 : At(Was(p), k) \notin Stack

Took(n, again) == cpu.cyc = 16 * n + again * (n - 1)
RamIsOld(targets) == \A x \in Cells \ (Stack \cup targets) : cpu.ram[x] = start.ram[x]

\* Each target holds what was in its source at its round: what an earlier round
\* put there, or what was there at the start.
Copied(n) ==
  LET from(k) == At(Was("hl"), k)
      to(k) == At(Was("de"), k)
      z(k) == IF \E j \in 0 .. k - 1 : to(j) = from(k) THEN cpu ELSE start
  IN  /\ \A k \in 0 .. n - 1 : cpu.ram[to(k)] = mem_read(z(k), from(k))
      /\ RamIsOld({to(k) : k \in 0 .. n - 1})
      /\ Is("hl") = from(n) /\ Is("de") = to(n) /\ Is("bc") = 0
      /\ cpu.f.p = 0 /\ Took(n, 5)

\* A search of at most n ends in its round m: at the first match, or after all.
Searched(n) ==
  LET match(k) == mem_read(start, At(Was("hl"), k)) = start.r.a
  IN  \E m \in 1 .. n :
        /\ m = n \/ match(m - 1)
        /\ \A k \in 0 .. m - 2 : ~ match(k)
        /\ Is("hl") = At(Was("hl"), m) /\ Is("bc") = n - m /\ Took(m, 5)
        /\ cpu.f.z = Truth(match(m - 1)) /\ cpu.f.p = Truth(m < n) /\ cpu.f.c = start.f.c
        /\ RamIsOld({})

Ported(n, again) == Is("hl") = At(Was("hl"), n) /\ cpu.r.b = 0 /\ Took(n, again)

Received(n) ==
  /\ \A k \in 0 .. n - 1 : cpu.ram[At(Was("hl"), k)] = (k + 1) % 256
  /\ RamIsOld({At(Was("hl"), k) : k \in 0 .. n - 1}) /\ Ported(n, 5)

Sent(n) ==
  /\ cpu.out = [k \in 1 .. n |-> mem_read(start, At(Was("hl"), k - 1))]
  /\ RamIsOld({}) /\ Ported(n, IF Programs[prog][Origin].v = 1 THEN 5 ELSE 0)

\* A block instruction does in its rounds, each of which an interrupt may
\* follow, what one sequential loop does: copies also when source and target
\* overlap or lie in the ROM, stops a search at the first match, leaves the
\* pointers one past the last byte, and takes 21 cycles for every round but the
\* last, 16 (z80.c:1577-1600, 1611-1692): OTDR alone takes 16 for all.
BlocksRight ==
  LET n == Rounds(Was("bc"), 65536)
      b == Rounds(start.r.b, 256)
  IN  ~ Running =>
        /\ Lone("ld") /\ OffStack("hl", n) /\ OffStack("de", n) => Copied(n)
        /\ Lone("cp") /\ OffStack("hl", n) => Searched(n)
        /\ Lone("in") /\ OffStack("hl", b) => Received(b)
        /\ Lone("ot") /\ OffStack("hl", b) => Sent(b)
=============================================================================
