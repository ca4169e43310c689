------------------------------- MODULE MCZ80 -------------------------------
(***************************************************************************)
(* Guest programs for Z80, each with the function it should compute: the   *)
(* reference is arithmetic on numbers, not on bits and carries.            *)
(***************************************************************************)
EXTENDS Guest, SequencesExt

\* Instructions: operation, which one of its group, operand, number, length.
I(op, k, x, v, len) == [op |-> op, k |-> k, x |-> x, v |-> v, len |-> len]
Ld(k, x) == I("ld", k, x, 0, 1)
LdN(k, v) == I("ldn", k, "", v, 2)
Op(k, x) == I("alu", k, x, 0, 1)
One(op) == I(op, "", "", 0, 1)
Inc(x) == I("inc", "", x, 0, 1)
Dec(x) == I("dec", "", x, 0, 1)
Hl(op, p) == I(op, "", p, 0, IF op = "addhl" THEN 1 ELSE 2)
Cb(k, x) == I("shift", k, x, 0, 2)
CbBit(op, x, n) == I(op, "", x, n, 2)
Rep(k, up) == I("repeat", k, "", up, 2)

\* The instructions one after the other, at their addresses.
Place(at, list) ==
  FoldLeft(LAMBDA acc, i : [at |-> acc.at + i.len, code |-> acc.code @@ (acc.at :> i)],
           [at |-> at, code |-> <<>>], list).code

MCHandler == 512
HandlerCode ==
  Place(MCHandler, <<One("pushaf"), I("push", "", "hl", 0, 1), I("in", "", "", 0, 2), Inc("l"),
                     Op("sub", "l"), One("ccf"), Ld("h", "a"), I("pop", "", "hl", 0, 1),
                     One("popaf"), One("ei"), I("reti", "", "", 0, 2)>>)

\* PUSH AF and PUSH HL are one byte long, the IN two, POP HL and POP AF one.
MCDepth == [a \in DOMAIN HandlerCode |-> IF a = MCHandler \/ a > MCHandler + 9 THEN 0
                                        ELSE IF a = MCHandler + 1 \/ a = MCHandler + 9 THEN 2
                                        ELSE 4]

\* HL op DE, a byte at a time, with f after each byte.
Bytes2(op1, op2, f) == <<Ld("a", "l"), Op(op1, "e")>> \o f \o <<Ld("l", "a"),
                         Ld("a", "h"), Op(op2, "d")>> \o f \o <<Ld("h", "a")>>

Nine(i) == [n \in 1 .. 9 |-> i]

MCPrograms == [name \in {"bcdadd", "bcdsub", "add", "sub", "addhl", "adchl", "sbchl", "negate",
                         "compare", "times", "right", "left", "asr", "turn", "turna", "digits",
                         "logic", "count", "bits", "ldi", "ldd", "cpi", "cpd", "ini", "ind",
                         "oti", "otd"} |->
  HandlerCode @@ Place(Origin,
    CASE name = "bcdadd" -> Bytes2("add", "adc", <<One("daa")>>)
      [] name = "bcdsub" -> Bytes2("sub", "sbc", <<One("daa")>>)
      [] name = "add" -> Bytes2("add", "adc", <<>>)
      [] name = "sub" -> Bytes2("sub", "sbc", <<>>)
      [] name \in {"addhl", "adchl", "sbchl"} -> <<Hl(name, "de")>>
      [] name = "negate" -> \* HL := -HL; L by NEG, which borrows unless L was 0
           <<Ld("a", "l"), One("neg"), Ld("l", "a"), LdN("a", 0), Op("sbc", "h"), Ld("h", "a")>>
      [] name = "compare" -> <<Ld("a", "l"), Op("cp", "e")>>
      [] name = "times" -> \* HL := H * E, shift and add
           <<LdN("l", 0), LdN("d", 0), LdN("b", 8), Hl("addhl", "hl"),
             I("jrnc", "", "", Origin + 10, 2), Hl("addhl", "de"),
             I("djnz", "", "", Origin + 6, 2)>>
      [] name = "right" -> <<Cb("srl", "h"), Cb("rr", "l")>>
      [] name = "left" -> <<Cb("sla", "l"), Cb("rl", "h")>>
      [] name = "asr" -> <<Cb("sra", "h"), Cb("rr", "l")>>
      [] name = "turn" -> Nine(Cb("rl", "l")) \o Nine(Cb("rr", "h"))
      [] name = "turna" -> <<Ld("a", "l")>> \o Nine(I("shifta", "rr", "", 0, 1))
                             \o Nine(I("shifta", "rlc", "", 0, 1)) \o <<Ld("l", "a")>>
      [] name = "digits" -> <<I("rld", "", "", 0, 2), I("rld", "", "", 0, 2), I("rrd", "", "", 0, 2),
                              I("rld", "", "", 0, 2), I("rld", "", "", 0, 2)>>
      [] name = "logic" -> \* H := L and E, D := L or E
           <<Ld("a", "l"), Op("and", "e"), Ld("h", "a"), Ld("a", "l"), Op("or", "e"),
             Ld("d", "a"), Op("xor", "h")>>
      [] name = "count" -> <<Inc("l"), Inc("l"), Dec("l"), Dec("h"), Dec("h"), Inc("h"),
                             Ld("a", "l"), One("cpl"), Inc("a"), Ld("d", "a"), I("decp", "", "bc", 0, 1),
                             I("decp", "", "bc", 0, 1), I("incp", "", "bc", 0, 1)>>
      [] name = "bits" -> <<CbBit("bit", "m", 7), CbBit("set", "m", 7), CbBit("bit", "m", 7),
                            CbBit("res", "m", 7), I("rom", "", "", 1, 2), CbBit("bit", "m", 0)>>
      [] name = "ldi" -> <<Rep("ld", 1)>> [] name = "ldd" -> <<Rep("ld", 0)>>
      [] name = "cpi" -> <<Rep("cp", 1)>> [] name = "cpd" -> <<Rep("cp", 0)>>
      [] name = "ini" -> <<Rep("in", 1)>> [] name = "ind" -> <<Rep("in", 0)>>
      [] name = "oti" -> <<Rep("ot", 1)>> [] name = "otd" -> <<Rep("ot", 0)>>)]

-----------------------------------------------------------------------------
(* The trace of F7 prints, for every instruction without IX and IY, as many  *)
(* bytes as the CPU takes and the place it goes on at: the tables of dasm80.c *)
(* have an entry for every opcode, in order, with the operands z80.c reads.  *)

Trace == INSTANCE Dasm

ASSUME TraceAssumption == \A b \in Trace!PlainCodes, at \in Trace!Places : Trace!Tells(b, at)

-----------------------------------------------------------------------------
\* Initial registers.

DataCells == {65534, 65535, 0, 1, 2, 3}
MCTop == 1024
MCCells == DataCells \cup (MCTop - 8 .. MCTop - 1)

\* ROM cells hold values no RAM cell starts with.
MCRomSize == 2
MCRom == [x \in 0 .. MCRomSize - 1 |-> 170 + x]
MCFirstRam == [x \in MCCells |-> IF x < 60000 THEN (37 * x + 1) % 128 ELSE x % 100]

Clear == [s |-> 0, z |-> 0, h |-> 0, p |-> 0, n |-> 0, c |-> 0]

Given(hl, de, bc, a, c, romOut) ==
  [r |-> SetPair(SetPair(SetPair([x \in {"a", "b", "c", "d", "e", "h", "l"} |-> a], "hl", hl),
                         "de", de), "bc", bc),
   f |-> [Clear EXCEPT !.c = c, !.h = c], romOut |-> romOut]

\* 0000, 0099, 0909, 1999, 4555, 9999 as decimal digits
DecimalWords == {0, 153, 2313, 6553, 17749, 39321}
Words == {0, 1, 255, 256, 32767, 32768, 65535}
MemoryBlocks == {"ldi", "ldd", "cpi", "cpd"}
PortBlocks == {"ini", "ind", "oti", "otd"}

\* Where a block of 3 can begin and stay within the cells; all wrap around 0.
BlockStarts(name) == IF name \in {"ldi", "cpi", "ini", "oti"} THEN {65534, 65535, 0, 1}
                     ELSE {0, 1, 2, 3}

MCInputs == [name \in DOMAIN MCPrograms |->
  IF name \in {"bcdadd", "bcdsub"} THEN
    {Given(hl, de, 0, 0, c, FALSE) : hl \in DecimalWords, de \in DecimalWords, c \in 0 .. 1}
  ELSE IF name = "times" THEN
    {Given(hl, de, 0, 0, 0, FALSE) : hl \in {256 * b : b \in {13, 128, 255}}, de \in {0, 5, 128, 255}}
  ELSE IF name \in {"turn", "turna"} THEN
    {Given(hl, 0, 0, 0, c, FALSE) : hl \in {1, 33023, 65408}, c \in 0 .. 1}
  ELSE IF name \in {"logic", "right", "left", "asr", "negate", "count"} THEN
    {Given(hl, 170, 0, 0, c, FALSE) : hl \in Words, c \in 0 .. 1}
  ELSE IF name \in {"digits", "bits"} THEN
    {Given(hl, 0, 0, a, 0, romOut) : hl \in DataCells, a \in {18, 255}, romOut \in BOOLEAN}
  ELSE IF name \in MemoryBlocks THEN
    {Given(hl, de, bc, 38, 1, romOut) : hl \in BlockStarts(name), de \in BlockStarts(name),
                                        bc \in {1, 3}, romOut \in BOOLEAN}
  ELSE IF name \in PortBlocks THEN
    {Given(hl, 0, 256 * b, 0, 1, FALSE) : hl \in BlockStarts(name), b \in 1 .. 3}
  ELSE {Given(hl, de, 0, 0, c, FALSE) : hl \in Words, de \in Words, c \in 0 .. 1}]

-----------------------------------------------------------------------------
\* What the programs should have computed when they end.

Signed(v, n) == IF v >= 2^(n - 1) THEN v - 2^n ELSE v
Overflows(v, n) == v \notin -(2^(n - 1)) .. 2^(n - 1) - 1

Digits(w) == <<w \div 4096, (w \div 256) % 16, (w \div 16) % 16, w % 16>>
Decimal(w) == FoldLeft(LAMBDA n, digit : 10 * n + digit, 0, Digits(w))

\* The word w as a result of n, its carry and its overflow.
Result16(n, signed) ==
  /\ Is("hl") = n % 65536
  /\ cpu.f.c = Truth(n \notin Word)
  /\ cpu.f.p = Truth(Overflows(signed, 16))
  /\ cpu.f.s = Truth((n % 65536) >= 32768)

DecimalResult(n) ==
  /\ \A i \in 1 .. 4 : Digits(Is("hl"))[i] \in 0 .. 9
  /\ Decimal(Is("hl")) = n % 10000
  /\ cpu.f.c = Truth(n \notin 0 .. 9999)

\* The arithmetic of numbers comes out of the arithmetic of bytes, carries and
\* decimal corrections (z80.c:246-345, 625-657), whatever interrupts come in
\* between: sums, differences, products, negation, comparison, in binary with
\* both overflows and in decimal.  Shifts and rotates through two registers are
\* division and multiplication of the pair; nine rotates through the carry, and
\* three digit rotates through A and a byte of RAM, bring everything back
\* (z80.c:408-523, 1077-1113, 1757-1787).
ArithmeticRight ==
  LET hl == Was("hl")
      de == Was("de")
      c == start.f.c
      s(w) == Signed(w, 16)
  IN  ~ Running =>
  CASE prog = "bcdadd" -> DecimalResult(Decimal(hl) + Decimal(de))
    [] prog = "bcdsub" -> DecimalResult(Decimal(hl) - Decimal(de))
    [] prog = "add" -> Result16(hl + de, s(hl) + s(de))
    [] prog = "sub" -> Result16(hl - de, s(hl) - s(de))
    [] prog = "addhl" -> /\ Is("hl") = (hl + de) % 65536 /\ cpu.f.c = Truth(hl + de > 65535)
                         /\ \A x \in {"s", "z", "p"} : cpu.f[x] = start.f[x]
    [] prog = "adchl" -> Result16(hl + de + c, s(hl) + s(de) + c)
                         /\ cpu.f.z = Truth(Is("hl") = 0)
    [] prog = "sbchl" -> Result16(hl - de - c, s(hl) - s(de) - c)
                         /\ cpu.f.z = Truth(Is("hl") = 0)
    [] prog = "negate" -> Is("hl") = (65536 - hl) % 65536 /\ cpu.f.c = Truth(hl # 0)
    [] prog = "compare" -> LET l == start.r.l
                               e == start.r.e
                           IN  /\ cpu.r.a = l /\ cpu.f.c = Truth(l < e) /\ cpu.f.z = Truth(l = e)
                               /\ (cpu.f.s # cpu.f.p) = (Signed(l, 8) < Signed(e, 8))
    [] prog = "times" -> Is("hl") = start.r.h * start.r.e
    [] prog = "logic" -> /\ cpu.r.h + cpu.r.d = start.r.l + start.r.e
                         /\ cpu.r.a = cpu.r.d - cpu.r.h /\ cpu.r.h <= start.r.l
                         /\ cpu.f.p = Truth(cpu.r.a \in {v \in Byte : parity(v) = 1})
    [] prog = "count" -> /\ cpu.r.l = (start.r.l + 1) % 256 /\ cpu.r.h = (start.r.h + 255) % 256
                         /\ cpu.r.d = (256 - cpu.r.l) % 256 /\ cpu.f.c = c
                         /\ Is("bc") = 65535
                         /\ cpu.f.p = Truth(cpu.r.d = 128) /\ cpu.f.z = Truth(cpu.r.d = 0)
    [] prog = "right" -> Is("hl") = hl \div 2 /\ cpu.f.c = hl % 2
    [] prog = "left" -> Is("hl") = (2 * hl) % 65536 /\ cpu.f.c = hl \div 32768
    [] prog = "asr" -> Is("hl") = (Signed(hl, 16) \div 2) % 65536 /\ cpu.f.c = hl % 2
    [] prog = "turn" -> Is("hl") = hl /\ cpu.f.c = start.f.c
    [] prog = "turna" -> /\ cpu.r.l = ((2 * start.r.l) % 256) + start.r.l \div 128
                         /\ cpu.r.h = start.r.h /\ cpu.f.c = start.r.l \div 128
                         /\ \A x \in {"s", "z", "p"} : cpu.f[x] = start.f[x]
    [] prog = "digits" -> start.romOut \/ hl >= RomSize =>
                          cpu.r.a = start.r.a /\ \A x \in DataCells : cpu.ram[x] = start.ram[x]
    [] OTHER -> TRUE
=============================================================================
