-------------------------- MODULE Guest_proofs --------------------------
(***************************************************************************)
(* The CPU's parts keep their widths, a program does not notice the        *)
(* interrupts, and a repeating block instruction ends as one loop would,   *)
(* for every program whose handler keeps its discipline.                   *)
(*                                                                         *)
(* The memory is the machine's 64 KiB (main.c:218): Cells = Word.  The     *)
(* first invariant is Steady: the stack's (Sound, of Cpu_proofs), the      *)
(* widths, and open interrupts at the handler's RETI.  Each instruction    *)
(* gets a lemma on what it changes, from which follow its widths, what the *)
(* program sees after it (Veils), and, for an instruction of the handler,  *)
(* that what will come back to the program stays as it is (SameBack).  The *)
(* second, BlocksInv, says of what the program sees that it is the start   *)
(* after some number of rounds.                                            *)
(***************************************************************************)
EXTENDS Cpu_proofs

-----------------------------------------------------------------------------
\* Results: what the arithmetic of Z80Alu makes of bytes and flags are bytes and flags.

\* A result: a byte and flags.
Good(t) == t.val \in Byte /\ t.f \in Flags

LEMMA BitIs == ASSUME NEW v \in Byte, NEW n \in 0 .. 7 PROVE Bit(v, n) \in 0 .. 1
<1>1. v \in Nat
  BY ByteIs
<1>2. n \in {0, 1, 2, 3, 4, 5, 6, 7}
  OBVIOUS
<1> QED BY <1>1, <1>2 DEF Bit

LEMMA ResultGood ==
  ASSUME NEW v \in Byte, NEW h \in 0 .. 1, NEW c \in 0 .. 1
  PROVE  Good(Result(v, h, c))
<1>1. Bit(v, 7) \in 0 .. 1
  BY BitIs
<1>2. Truth(v = 0) \in 0 .. 1
  BY DEF Truth
<1>3. parity(v) \in 0 .. 1
  BY DEF parity, Truth
<1> QED BY <1>1, <1>2, <1>3 DEF Good, Result, Flags

LEMMA BitsMakeByte ==
  ASSUME NEW g \in [0 .. 7 -> 0 .. 1]
  PROVE  OfBits(g) \in Byte
<1>1. ASSUME NEW a \in 0 .. 1, NEW b \in 0 .. 1, NEW c \in 0 .. 1, NEW d \in 0 .. 1,
             NEW e \in 0 .. 1, NEW f \in 0 .. 1, NEW h \in 0 .. 1, NEW i \in 0 .. 1
      PROVE  a + 2 * b + 4 * c + 8 * d + 16 * e + 32 * f + 64 * h + 128 * i \in Byte
  BY DEF Byte
<1>2. /\ g[0] \in 0 .. 1 /\ g[1] \in 0 .. 1 /\ g[2] \in 0 .. 1 /\ g[3] \in 0 .. 1
      /\ g[4] \in 0 .. 1 /\ g[5] \in 0 .. 1 /\ g[6] \in 0 .. 1 /\ g[7] \in 0 .. 1
  OBVIOUS
<1> QED BY <1>1, <1>2 DEF OfBits

LEMMA LogicGood ==
  ASSUME NEW a \in Byte, NEW v \in Byte
  PROVE  Good(land(a, v)) /\ Good(lor(a, v)) /\ Good(lxor(a, v))
<1>1. \A i \in 0 .. 7 : Bit(a, i) \in 0 .. 1 /\ Bit(v, i) \in 0 .. 1
  BY BitIs
<1>2. [i \in 0 .. 7 |-> Bit(a, i) * Bit(v, i)] \in [0 .. 7 -> 0 .. 1]
  <2>1. \A x \in 0 .. 1, y \in 0 .. 1 : x * y \in 0 .. 1
    <3>1. ASSUME NEW x \in {0, 1}, NEW y \in {0, 1} PROVE x * y \in {0, 1}
      OBVIOUS
    <3> QED BY <3>1
  <2> QED BY <1>1, <2>1
<1>3. [i \in 0 .. 7 |-> Truth(Bit(a, i) + Bit(v, i) > 0)] \in [0 .. 7 -> 0 .. 1]
  BY DEF Truth
<1>4. [i \in 0 .. 7 |-> (Bit(a, i) + Bit(v, i)) % 2] \in [0 .. 7 -> 0 .. 1]
  <2>1. \A x \in 0 .. 1, y \in 0 .. 1 : (x + y) % 2 \in 0 .. 1
    OBVIOUS
  <2> QED BY <1>1, <2>1
<1> QED BY <1>2, <1>3, <1>4, BitsMakeByte, ResultGood DEF land, lor, lxor

LEMMA SumsGood ==
  ASSUME NEW a \in Byte, NEW b \in Byte, NEW c \in 0 .. 1
  PROVE  /\ Good(addb(a, b, c)) /\ DOMAIN addb(a, b, c) = {"val", "f"}
         /\ Good(subb(a, b, c)) /\ DOMAIN subb(a, b, c) = {"val", "f"}
BY SumOfBytes, DifferenceOfBytes DEF AddsUp, TakesAway, Good

LEMMA FlagSet ==
  ASSUME NEW f \in Flags, NEW x \in {"s", "z", "h", "p", "n", "c"}, NEW v \in 0 .. 1
  PROVE  [f EXCEPT ![x] = v] \in Flags
BY DEF Flags

LEMMA FlagsAre ==
  ASSUME NEW f \in Flags
  PROVE  /\ f.s \in 0 .. 1 /\ f.z \in 0 .. 1 /\ f.h \in 0 .. 1 /\ f.p \in 0 .. 1 /\ f.n \in 0 .. 1
         /\ f.c \in 0 .. 1 /\ 1 - f.c \in 0 .. 1 /\ 0 \in 0 .. 1 /\ 1 \in 0 .. 1
BY DEF Flags

LEMMA WithFlag ==
  ASSUME NEW t, DOMAIN t = {"val", "f"}, Good(t), NEW v \in 0 .. 1,
         NEW x \in {"s", "z", "h", "p", "n", "c"}
  PROVE  Good([t EXCEPT !.f[x] = v]) /\ DOMAIN [t EXCEPT !.f[x] = v] = {"val", "f"}
BY FlagSet DEF Good

LEMMA AluGood ==
  ASSUME NEW k \in {"add", "adc", "sub", "sbc", "and", "xor", "or", "cp"},
         NEW a \in Byte, NEW v \in Byte, NEW f \in Flags
  PROVE  Good(Alu(k, a, v, f))
<1>1. f.c \in 0 .. 1 /\ 0 \in 0 .. 1
  BY DEF Flags
<1>2. Good(cp(a, v))
  BY <1>1, SumsGood DEF cp, Good
<1> QED BY <1>1, <1>2, SumsGood, LogicGood DEF Alu

LEMMA ShiftGood ==
  ASSUME NEW k \in {"rlc", "rrc", "rl", "rr", "sla", "sll", "sra", "srl"},
         NEW v \in Byte, NEW c \in 0 .. 1
  PROVE  Good(Shift(k, v, c)) /\ DOMAIN Shift(k, v, c) = {"val", "f"}
<1>1. Bit(v, 7) \in 0 .. 1 /\ Bit(v, 0) \in 0 .. 1
  BY BitIs
<1>2. ASSUME NEW in \in 0 .. 1
      PROVE  ((2 * v) % 256) + in \in Byte /\ (v \div 2) + 128 * in \in Byte
  BY DEF Byte
<1>3. ASSUME NEW in \in 0 .. 1
      PROVE  /\ Good(Result(((2 * v) % 256) + in, 0, Bit(v, 7)))
             /\ Good(Result((v \div 2) + 128 * in, 0, Bit(v, 0)))
  BY <1>1, <1>2, ResultGood
<1>4. PICK w \in Byte, o \in 0 .. 1 : Shift(k, v, c) = Result(w, 0, o)
  BY <1>1, <1>2 DEF Shift
<1>5. Good(Result(w, 0, o)) /\ DOMAIN Result(w, 0, o) = {"val", "f"}
  <2>1. 0 \in 0 .. 1
    OBVIOUS
  <2> QED BY <2>1, ResultGood DEF Result
<1> QED BY <1>4, <1>5

LEMMA OneByteGood ==
  ASSUME NEW a \in Byte, NEW f \in Flags
  PROVE  /\ Good(inc(a, f)) /\ Good(dec(a, f)) /\ Good(neg(a)) /\ Good(cpl(a, f)) /\ Good(daa(a, f))
         /\ scf(f) \in Flags /\ ccf(f) \in Flags
         /\ \A k \in {"rlc", "rrc", "rl", "rr", "sla", "sll", "sra", "srl"} : Good(ShiftA(k, a, f))
         /\ \A n \in 0 .. 7 : cb_bit(a, n, f) \in Flags
<1>2. 0 \in Byte /\ 1 \in Byte /\ 255 - a \in Byte
  BY ByteIs
<1>3. Good(inc(a, f)) /\ Good(dec(a, f)) /\ Good(neg(a))
  <2>1. /\ Good(addb(a, 1, 0)) /\ DOMAIN addb(a, 1, 0) = {"val", "f"}
        /\ Good(subb(a, 1, 0)) /\ DOMAIN subb(a, 1, 0) = {"val", "f"} /\ Good(subb(0, a, 0))
    BY <1>2, FlagsAre, SumsGood
  <2> QED BY <2>1, FlagsAre, WithFlag DEF inc, dec, neg
<1>4. Good(cpl(a, f))
  <2>1. [[f EXCEPT !.n = 1] EXCEPT !.h = 1] \in Flags
    BY FlagsAre, FlagSet
  <2> QED BY <1>2, <2>1 DEF cpl, Good
<1>5. scf(f) \in Flags /\ ccf(f) \in Flags
  <2>1. [[[f EXCEPT !.c = 1] EXCEPT !.n = 0] EXCEPT !.h = 0] \in Flags
    BY FlagsAre, FlagSet
  <2>2. [[[f EXCEPT !.h = f.c] EXCEPT !.c = 1 - f.c] EXCEPT !.n = 0] \in Flags
    BY FlagsAre, FlagSet
  <2>3. [f EXCEPT !.h = f.c].c = f.c
    BY DEF Flags
  <2> QED BY <2>1, <2>2, <2>3 DEF scf, ccf
<1>6. ASSUME NEW k \in {"rlc", "rrc", "rl", "rr", "sla", "sll", "sra", "srl"}
      PROVE  Good(ShiftA(k, a, f))
  <2> DEFINE t == Shift(k, a, f.c)
             u == [t EXCEPT !.f.s = f.s]
             w == [u EXCEPT !.f.z = f.z]
  <2>1. ShiftA(k, a, f) = [w EXCEPT !.f.p = f.p]
    BY DEF ShiftA
  <2>2. Good(t) /\ DOMAIN t = {"val", "f"}
    BY FlagsAre, ShiftGood
  <2> HIDE DEF t
  <2>3. Good(u) /\ DOMAIN u = {"val", "f"}
    BY <2>2, FlagsAre, WithFlag
  <2> HIDE DEF u
  <2>4. Good(w) /\ DOMAIN w = {"val", "f"}
    BY <2>3, FlagsAre, WithFlag
  <2> HIDE DEF w
  <2>5. PICK g \in 0 .. 1 : g = f.p
    BY FlagsAre
  <2>6. Good([w EXCEPT !.f.p = g])
    BY <2>4, WithFlag
  <2> QED BY <2>1, <2>5, <2>6
<1>7. ASSUME NEW n \in 0 .. 7 PROVE cb_bit(a, n, f) \in Flags
  <2>1. Bit(a, n) \in 0 .. 1 /\ Bit(a, 7) \in 0 .. 1
    BY BitIs
  <2>2. 1 - Bit(a, n) \in 0 .. 1
    BY <2>1
  <2>3. PICK b \in 0 .. 1 : b = IF n = 7 THEN Bit(a, 7) ELSE 0
    BY <2>1
  <2>4. PICK e \in 0 .. 1 : e = 1 - Bit(a, n)
    BY <2>2
  <2>5. cb_bit(a, n, f) = [[[[[f EXCEPT !.s = b] EXCEPT !.z = e] EXCEPT !.p = e] EXCEPT !.h = 1]
                             EXCEPT !.n = 0]
    BY <2>3, <2>4 DEF cb_bit
  <2>6. [[[f EXCEPT !.s = b] EXCEPT !.z = e] EXCEPT !.p = e] \in Flags
    BY FlagSet
  <2>7. [[[[[f EXCEPT !.s = b] EXCEPT !.z = e] EXCEPT !.p = e] EXCEPT !.h = 1]
           EXCEPT !.n = 0] \in Flags
    BY <2>6, FlagsAre, FlagSet
  <2> QED BY <2>5, <2>7
<1>8. Good(daa(a, f))
  <2> DEFINE low == a % 16 > 9 \/ f.h = 1
             high == a > 153 \/ f.c = 1
             fix == (IF low THEN 6 ELSE 0) + (IF high THEN 96 ELSE 0)
             h == IF f.n = 1 THEN Truth(f.h = 1 /\ a % 16 < 6) ELSE Truth(a % 16 > 9)
             v == (IF f.n = 1 THEN a - fix ELSE a + fix) % 256
  <2>1. h \in 0 .. 1 /\ Truth(high) \in 0 .. 1
    BY DEF Truth
  <2>2. v \in Byte
    <3>1. a \in Int /\ fix \in Int
      BY ByteIs
    <3> QED BY <3>1 DEF Byte
  <2>3. daa(a, f) = [Result(v, h, Truth(high)) EXCEPT !.f.n = f.n]
    BY Zenon DEF daa
  <2> HIDE DEF h, v, high
  <2>4. Good(Result(v, h, Truth(high))) /\ DOMAIN Result(v, h, Truth(high)) = {"val", "f"}
    BY <2>1, <2>2, ResultGood DEF Result
  <2>5. PICK g \in 0 .. 1 : g = f.n
    BY FlagsAre
  <2> DEFINE t == Result(v, h, Truth(high))
  <2> HIDE DEF t
  <2>6. Good([t EXCEPT !.f.n = g])
    BY <2>4, WithFlag DEF t
  <2> QED BY <2>3, <2>5, <2>6 DEF t
<1> QED BY <1>3, <1>4, <1>5, <1>6, <1>7, <1>8

LEMMA WordGood ==
  ASSUME NEW a \in Word, NEW b \in Word, NEW f \in Flags
  PROVE  \A t \in {addhl(a, b, f), adchl(a, b, f), sbchl(a, b, f)} : t.val \in Word /\ t.f \in Flags
<1>1. f.c \in 0 .. 1 /\ 0 \in 0 .. 1
  BY DEF Flags
<1>2. /\ addw(a, b, f.c).val \in Word /\ addw(a, b, f.c).f \in Flags
      /\ addw(a, b, 0).val \in Word /\ addw(a, b, 0).f \in Flags
      /\ subw(a, b, f.c).val \in Word /\ subw(a, b, f.c).f \in Flags
  BY <1>1, SumOfWords, DifferenceOfWords
<1>3. DOMAIN addw(a, b, 0) = {"val", "f"}
  <2>1. ASSUME NEW lo, NEW hi, DOMAIN hi = {"val", "f"} PROVE DOMAIN Wide(lo, hi) = {"val", "f"}
    BY <2>1 DEF Wide
  <2>2. ASSUME NEW x, NEW y, NEW c PROVE DOMAIN addb(x, y, c) = {"val", "f"}
    BY DEF addb
  <2> QED BY <2>1, <2>2 DEF addw
<1>4. addhl(a, b, f).val \in Word /\ addhl(a, b, f).f \in Flags
  BY <1>2, <1>3 DEF addhl, Flags
<1> QED BY <1>2, <1>4 DEF adchl, sbchl

LEMMA DigitsGood ==
  ASSUME NEW a \in Byte, NEW m \in Byte, NEW f \in Flags
  PROVE  \A t \in {rld(a, m, f), rrd(a, m, f)} : t.m \in Byte /\ Good(t.a)
<1>1. f.c \in 0 .. 1
  BY DEF Flags
<1>2. /\ 16 * (m % 16) + (a % 16) \in Byte /\ 16 * (a % 16) + (m \div 16) \in Byte
      /\ 16 * (a \div 16) + (m \div 16) \in Byte /\ 16 * (a \div 16) + (m % 16) \in Byte
  <2>1. ASSUME NEW v \in Byte
        PROVE  v % 16 \in 0 .. 15 /\ v \div 16 \in 0 .. 15
    BY DEF Byte
  <2>2. ASSUME NEW x \in 0 .. 15, NEW y \in 0 .. 15
        PROVE  16 * x + y \in Byte
    BY ByteIs
  <2> QED BY <2>1, <2>2
<1> QED BY <1>1, <1>2, ResultGood DEF rld, rrd, Turned

-----------------------------------------------------------------------------
\* Loads, arithmetic and bits: which registers, flags and byte an instruction changes.

\* The CPU with the memory the machine really has.
Machine == [pc : Word, sp : Word, r : Registers, f : Flags, ram : [Cells -> Byte],
            romOut : BOOLEAN, iff : BOOLEAN, delay : BOOLEAN, request : BOOLEAN,
            out : Seq(Byte), given : Byte, cyc : Nat]

\* What most instructions do: new registers q and flags g, and perhaps a byte w
\* where HL points.
Does(y, i, q, g, w) ==
  IF WritesMemory(i) THEN [y EXCEPT !.r = q, !.f = g, !.ram = [@ EXCEPT ![Pair(y.r, "hl")] = w]]
  ELSE [y EXCEPT !.r = q, !.f = g]

\* Only registers in S, and the flags if "f" is in S, are new.
Changes(r, f, S, q, g) == /\ q \in Registers /\ g \in Flags
                          /\ \A x \in Names \ S : q[x] = r[x]
                          /\ "f" \notin S => g = f

\* All that the instruction i looks at.
Alike(y, r, f, m, i) == /\ y \in Machine /\ y.r = r /\ y.f = f
                        /\ "hl" \in Pointers(i) => mem_read(y, Pair(r, "hl")) = m

LEMMA RegistersAre ==
  ASSUME NEW r \in Registers
  PROVE  /\ \A x \in Names : r[x] \in Byte /\ \A v \in Byte : [r EXCEPT ![x] = v] \in Registers
         /\ r.a \in Byte /\ r.b \in Byte
BY DEF Registers, Names

\* Putting v in x, with the flags g.
Puts(r, f, x, v, g, i) ==
  \E q \in Registers, w \in Byte :
    /\ Changes(r, f, {x, "f"}, q, g) /\ (g = f => Changes(r, f, {x}, q, g))
    /\ \A y \in Machine : y.r = r =>
         /\ [Put(y, x, v) EXCEPT !.f = g] = Does(y, i, q, g, w)
         /\ Put([y EXCEPT !.f = g], x, v) = Does(y, i, q, g, w)
         /\ y.f = g => Put(y, x, v) = Does(y, i, q, g, w)

LEMMA PutDoes ==
  ASSUME NEW r \in Registers, NEW f \in Flags, NEW x \in Operands, NEW v \in Byte, NEW g \in Flags,
         NEW i, x = "m" <=> WritesMemory(i)
  PROVE  Puts(r, f, x, v, g, i)
<1>1. CASE x = "m"
  <2>1. Changes(r, f, {x, "f"}, r, g) /\ (g = f => Changes(r, f, {x}, r, g))
    BY DEF Changes
  <2>2. ASSUME NEW y \in Machine, y.r = r
        PROVE  /\ [Put(y, x, v) EXCEPT !.f = g] = Does(y, i, r, g, v)
               /\ Put([y EXCEPT !.f = g], x, v) = Does(y, i, r, g, v)
               /\ y.f = g => Put(y, x, v) = Does(y, i, r, g, v)
    <3>1. PICK h : h = Pair(y.r, "hl")
      OBVIOUS
    <3>2. Pair([y EXCEPT !.f = g].r, "hl") = h
      BY <3>1 DEF Machine
    <3>3. [y EXCEPT !.f = g].ram = y.ram
      BY DEF Machine
    <3>4. /\ Put(y, x, v) = [y EXCEPT !.ram = [y.ram EXCEPT ![h] = v]]
          /\ Put([y EXCEPT !.f = g], x, v) = [[y EXCEPT !.f = g] EXCEPT !.ram = [y.ram EXCEPT ![h] = v]]
      BY <1>1, <3>1, <3>2, <3>3 DEF Put, mem_write
    <3>5. Does(y, i, r, g, v) = [y EXCEPT !.r = r, !.f = g, !.ram = [y.ram EXCEPT ![h] = v]]
      BY <1>1, <3>1 DEF Does
    <3>6. PICK c : c = [y.ram EXCEPT ![h] = v]
      OBVIOUS
    <3>7. /\ [[y EXCEPT !.ram = c] EXCEPT !.f = g] = [y EXCEPT !.r = r, !.f = g, !.ram = c]
          /\ [[y EXCEPT !.f = g] EXCEPT !.ram = c] = [y EXCEPT !.r = r, !.f = g, !.ram = c]
          /\ y.f = g => [y EXCEPT !.ram = c] = [y EXCEPT !.r = r, !.f = g, !.ram = c]
      BY <2>2 DEF Machine
    <3> QED BY <3>4, <3>5, <3>6, <3>7
  <2> QED BY <2>1, <2>2 DEF Puts
<1>2. CASE x # "m"
  <2> DEFINE q == [r EXCEPT ![x] = v]
  <2>1. x \in Names
    BY <1>2 DEF Operands
  <2>2. Changes(r, f, {x, "f"}, q, g) /\ (g = f => Changes(r, f, {x}, q, g))
    BY <2>1, RegistersAre DEF Changes, Registers, Names
  <2>3. q \in Registers
    BY <2>1, RegistersAre
  <2>4. ASSUME NEW y \in Machine, y.r = r
        PROVE  /\ [Put(y, x, v) EXCEPT !.f = g] = Does(y, i, q, g, v)
               /\ Put([y EXCEPT !.f = g], x, v) = Does(y, i, q, g, v)
               /\ y.f = g => Put(y, x, v) = Does(y, i, q, g, v)
    <3>1. /\ Put(y, x, v) = [y EXCEPT !.r = q]
          /\ Put([y EXCEPT !.f = g], x, v) = [[y EXCEPT !.f = g] EXCEPT !.r = q]
      BY <1>2, <2>4 DEF Put, Machine
    <3>2. Does(y, i, q, g, v) = [y EXCEPT !.r = q, !.f = g]
      BY <1>2 DEF Does
    <3> HIDE DEF q
    <3>3. /\ [[y EXCEPT !.r = q] EXCEPT !.f = g] = [y EXCEPT !.r = q, !.f = g]
          /\ [[y EXCEPT !.f = g] EXCEPT !.r = q] = [y EXCEPT !.r = q, !.f = g]
          /\ y.f = g => [y EXCEPT !.r = q] = [y EXCEPT !.r = q, !.f = g]
      BY DEF Machine
    <3> QED BY <3>1, <3>2, <3>3
  <2> HIDE DEF q
  <2> QED BY <2>2, <2>3, <2>4 DEF Puts
<1> QED BY <1>1, <1>2

LEMMA PairDoes ==
  ASSUME NEW r \in Registers, NEW f \in Flags, NEW p \in Pairs, NEW v \in Word, NEW g \in Flags
  PROVE  /\ Changes(r, f, {Halves[p][1], Halves[p][2], "f"}, SetPair(r, p, v), g)
         /\ g = f => Changes(r, f, {Halves[p][1], Halves[p][2]}, SetPair(r, p, v), g)
<1>1. SetPair(r, p, v) \in Registers
  BY PairSet
<1>2. \A x \in Names \ {Halves[p][1], Halves[p][2]} : SetPair(r, p, v)[x] = r[x]
  <2>1. PICK h : h = (v \div 256) % 256
    OBVIOUS
  <2>2. PICK l : l = v % 256
    OBVIOUS
  <2>3. SetPair(r, p, v) = [r EXCEPT ![Halves[p][1]] = h, ![Halves[p][2]] = l]
    BY <2>1, <2>2 DEF SetPair
  <2> QED BY <2>3 DEF Registers, Names
<1> QED BY <1>1, <1>2 DEF Changes

\* RES and SET.
LEMMA BitChanged ==
  ASSUME NEW v \in Byte, NEW n \in 0 .. 7, NEW b \in 0 .. 1
  PROVE  v + (b - Bit(v, n)) * 2^n \in Byte
<1>1. v \in Int /\ 0 <= v /\ v <= 255
  BY ByteIs
<1>2. PICK p \in {1, 2, 4, 8, 16, 32, 64, 128} : p = 2^n
  <2> DEFINE Power(k) == \E p \in {1, 2, 4, 8, 16, 32, 64, 128} : p = 2^k
  <2>1. /\ Power(0) /\ Power(1) /\ Power(2) /\ Power(3)
        /\ Power(4) /\ Power(5) /\ Power(6) /\ Power(7)
    OBVIOUS
  <2> HIDE DEF Power
  <2>2. n = 0 \/ n = 1 \/ n = 2 \/ n = 3 \/ n = 4 \/ n = 5 \/ n = 6 \/ n = 7
    OBVIOUS
  <2>3. Power(n)
    BY <2>1, <2>2
  <2> QED BY <2>3 DEF Power
<1>3. PICK d \in {0, 1} : d = (v \div p) % 2
  BY <1>1
<1>4. \A e \in {0, 1} : 0 <= v + (e - d) * p /\ v + (e - d) * p <= 255 /\ v + (e - d) * p \in Int
  BY <1>1, <1>3
<1>5. v + (b - Bit(v, n)) * 2^n = v + (b - d) * p
  BY <1>2, <1>3, Zenon DEF Bit
<1>6. b \in {0, 1}
  OBVIOUS
<1> QED BY <1>4, <1>5, <1>6, ByteIs

LEMMA PointsAt ==
  ASSUME NEW i, "m" \in {i.k, i.x} \/ i.op \in {"rld", "rrd"} \/ WritesMemory(i)
  PROVE  "hl" \in Pointers(i)
BY DEF Pointers, Blocks, WritesMemory

LEMMA LooksAlike ==
  ASSUME NEW r \in Registers, NEW f \in Flags, NEW m \in Byte, NEW i, i.x \in Operands
  PROVE  \E o \in Byte : \A y : Alike(y, r, f, m, i) => Operand(y, i.x) = o
<1>1. (IF i.x = "m" THEN m ELSE r[i.x]) \in Byte
  BY RegistersAre DEF Operands
<1>2. \A y : Alike(y, r, f, m, i) => Operand(y, i.x) = IF i.x = "m" THEN m ELSE r[i.x]
  <2>1. i.x = "m" => "hl" \in Pointers(i)
    BY PointsAt
  <2> QED BY <2>1 DEF Alike, Operand
<1> QED BY <1>1, <1>2

\* A result that goes to x.
Stores(r, f, m, x, t, i) ==
  \E q \in Registers, g \in Flags, w \in Byte :
    /\ Changes(r, f, {x, "f"}, q, g)
    /\ \A y : Alike(y, r, f, m, i) => Store(y, x, t) = Does(y, i, q, g, w)

LEMMA StoreDoes ==
  ASSUME NEW r \in Registers, NEW f \in Flags, NEW m \in Byte, NEW x \in Operands, NEW t, Good(t),
         NEW i, x = "m" <=> WritesMemory(i)
  PROVE  Stores(r, f, m, x, t, i)
<1>1. PICK v \in Byte, g \in Flags : v = t.val /\ g = t.f
  BY DEF Good
<1>2. PICK q \in Registers, w \in Byte :
        /\ Changes(r, f, {x, "f"}, q, g)
        /\ \A y \in Machine : y.r = r => [Put(y, x, v) EXCEPT !.f = g] = Does(y, i, q, g, w)
  <2>1. Puts(r, f, x, v, g, i)
    BY PutDoes
  <2> QED BY <2>1 DEF Puts
<1>3. \A y : Alike(y, r, f, m, i) => Store(y, x, t) = Does(y, i, q, g, w)
  BY <1>1, <1>2 DEF Store, Alike
<1> QED BY <1>2, <1>3 DEF Stores

LEMMA Reckons ==
  ASSUME NEW r \in Registers, NEW f \in Flags, NEW m \in Byte, NEW i, WellFormed(i), i.op \in Arithmetic
  PROVE  \E q \in Registers, g \in Flags, w \in Byte :
           /\ Changes(r, f, Sets(i), q, g)
           /\ \A y : Alike(y, r, f, m, i) => ExecArithmetic(y, i) = Does(y, i, q, g, w)
<1>1. \A y : Alike(y, r, f, m, i) => y.r = r /\ y.f = f
  BY DEF Alike
<1>2. r.a \in Byte
  BY RegistersAre
<1>3. CASE i.op \in {"alu", "neg", "cpl", "daa"}
  <2>1. PICK t : Good(t) /\ \A y : Alike(y, r, f, m, i) => ExecArithmetic(y, i) = Store(y, "a", t)
    <3>1. CASE i.op = "alu"
      <4>1. /\ i.k \in {"add", "adc", "sub", "sbc", "and", "xor", "or", "cp"} /\ i.x \in Operands
        BY <3>1 DEF WellFormed
      <4>2. PICK o \in Byte : \A y : Alike(y, r, f, m, i) => Operand(y, i.x) = o
        BY <4>1, LooksAlike
      <4>3. Good(Alu(i.k, r.a, o, f))
        BY <1>2, <4>1, AluGood
      <4>4. \A y : Alike(y, r, f, m, i) => ExecArithmetic(y, i) = Store(y, "a", Alu(i.k, r.a, o, f))
        BY <1>1, <3>1, <4>2 DEF ExecArithmetic
      <4> QED BY <4>3, <4>4
    <3>2. CASE i.op = "neg"
      <4>1. \A y : Alike(y, r, f, m, i) => ExecArithmetic(y, i) = Store(y, "a", neg(r.a))
        BY <1>1, <3>2 DEF ExecArithmetic
      <4> QED BY <1>2, <4>1, OneByteGood
    <3>3. CASE i.op = "cpl"
      <4>1. \A y : Alike(y, r, f, m, i) => ExecArithmetic(y, i) = Store(y, "a", cpl(r.a, f))
        BY <1>1, <3>3 DEF ExecArithmetic
      <4> QED BY <1>2, <4>1, OneByteGood
    <3>4. CASE i.op = "daa"
      <4>1. \A y : Alike(y, r, f, m, i) => ExecArithmetic(y, i) = Store(y, "a", daa(r.a, f))
        BY <1>1, <3>4 DEF ExecArithmetic
      <4> QED BY <1>2, <4>1, OneByteGood
    <3> QED BY <1>3, <3>1, <3>2, <3>3, <3>4
  <2>2. "a" \in Operands /\ ~ WritesMemory(i) /\ Sets(i) = {"a", "f"}
    BY <1>3 DEF Operands, Names, WritesMemory, Sets
  <2>3. PICK q \in Registers, g \in Flags, w \in Byte :
          /\ Changes(r, f, {"a", "f"}, q, g)
          /\ \A y : Alike(y, r, f, m, i) => Store(y, "a", t) = Does(y, i, q, g, w)
    <3>1. Stores(r, f, m, "a", t, i)
      BY <2>1, <2>2, StoreDoes
    <3> QED BY <3>1 DEF Stores
  <2> QED BY <2>1, <2>2, <2>3
<1>4. CASE i.op \in {"inc", "dec"}
  <2>1. i.x \in Operands
    BY <1>4 DEF WellFormed
  <2>2. PICK o \in Byte : \A y : Alike(y, r, f, m, i) => Operand(y, i.x) = o
    BY <2>1, LooksAlike
  <2>3. PICK t : Good(t) /\ \A y : Alike(y, r, f, m, i) => ExecArithmetic(y, i) = Store(y, i.x, t)
    <3>1. CASE i.op = "inc"
      <4>1. \A y : Alike(y, r, f, m, i) => ExecArithmetic(y, i) = Store(y, i.x, inc(o, f))
        BY <1>1, <3>1, <2>2 DEF ExecArithmetic
      <4> QED BY <4>1, OneByteGood
    <3>2. CASE i.op = "dec"
      <4>1. \A y : Alike(y, r, f, m, i) => ExecArithmetic(y, i) = Store(y, i.x, dec(o, f))
        BY <1>1, <3>2, <2>2 DEF ExecArithmetic
      <4> QED BY <4>1, OneByteGood
    <3> QED BY <1>4, <3>1, <3>2
  <2>4. (i.x = "m" <=> WritesMemory(i)) /\ Sets(i) = {i.x, "f"}
    BY <1>4 DEF WritesMemory, Sets
  <2>5. PICK q \in Registers, g \in Flags, w \in Byte :
          /\ Changes(r, f, {i.x, "f"}, q, g)
          /\ \A y : Alike(y, r, f, m, i) => Store(y, i.x, t) = Does(y, i, q, g, w)
    <3>1. Stores(r, f, m, i.x, t, i)
      BY <2>1, <2>3, <2>4, StoreDoes
    <3> QED BY <3>1 DEF Stores
  <2> QED BY <2>3, <2>4, <2>5
<1>5. CASE i.op \in {"scf", "ccf"}
  <2>1. PICK g \in Flags : \A y : Alike(y, r, f, m, i) => ExecArithmetic(y, i) = [y EXCEPT !.f = g]
    <3>1. CASE i.op = "scf"
      <4>1. \A y : Alike(y, r, f, m, i) => ExecArithmetic(y, i) = [y EXCEPT !.f = scf(f)]
        BY <1>1, <3>1 DEF ExecArithmetic
      <4> QED BY <1>2, <4>1, OneByteGood
    <3>2. CASE i.op = "ccf"
      <4>1. \A y : Alike(y, r, f, m, i) => ExecArithmetic(y, i) = [y EXCEPT !.f = ccf(f)]
        BY <1>1, <3>2 DEF ExecArithmetic
      <4> QED BY <1>2, <4>1, OneByteGood
    <3> QED BY <1>5, <3>1, <3>2
  <2>2. ~ WritesMemory(i) /\ Sets(i) = {"f"}
    BY <1>5 DEF WritesMemory, Sets
  <2>3. Changes(r, f, {"f"}, r, g)
    BY DEF Changes
  <2>4. \A y : Alike(y, r, f, m, i) => ExecArithmetic(y, i) = Does(y, i, r, g, 0)
    <3>1. ASSUME NEW y \in Machine, y.r = r PROVE [y EXCEPT !.f = g] = [y EXCEPT !.r = r, !.f = g]
      BY <3>1 DEF Machine
    <3> QED BY <2>1, <2>2, <3>1 DEF Does, Alike
  <2>5. 0 \in Byte
    BY ByteIs
  <2> QED BY <2>2, <2>3, <2>4, <2>5
<1>6. CASE i.op \in {"incp", "decp", "addhl", "adchl", "sbchl"}
  <2>1. i.x \in Pairs /\ Pair(r, i.x) \in Word /\ Pair(r, "hl") \in Word /\ "hl" \in Pairs
    BY <1>6, PairIs DEF WellFormed, Pairs
  <2>2. PICK p \in Pairs, v \in Word, g \in Flags :
          /\ \/ Sets(i) = {Halves[p][1], Halves[p][2], "f"}
             \/ Sets(i) = {Halves[p][1], Halves[p][2]} /\ g = f
          /\ \A y : Alike(y, r, f, m, i) =>
               ExecArithmetic(y, i) = [y EXCEPT !.r = SetPair(r, p, v), !.f = g]
    <3>1. ASSUME NEW y, Alike(y, r, f, m, i), NEW q PROVE [y EXCEPT !.r = q] = [y EXCEPT !.r = q, !.f = f]
      BY <3>1 DEF Alike, Machine
    <3>2. CASE i.op = "incp"
      <4> DEFINE n == Above(Pair(r, i.x), 1)
      <4>1. \A y : Alike(y, r, f, m, i) => ExecArithmetic(y, i) = [y EXCEPT !.r = SetPair(r, i.x, n)]
        BY <1>1, <3>2 DEF ExecArithmetic
      <4>2. n \in Word
        BY <2>1, StepWord
      <4> HIDE DEF n
      <4>3. \A y : Alike(y, r, f, m, i) => ExecArithmetic(y, i) = [y EXCEPT !.r = SetPair(r, i.x, n), !.f = f]
        BY <3>1, <4>1
      <4>4. Sets(i) = {Halves[i.x][1], Halves[i.x][2]}
        BY <3>2 DEF Sets
      <4> QED BY <2>1, <4>2, <4>3, <4>4
    <3>3. CASE i.op = "decp"
      <4> DEFINE n == Below(Pair(r, i.x), 1)
      <4>1. \A y : Alike(y, r, f, m, i) => ExecArithmetic(y, i) = [y EXCEPT !.r = SetPair(r, i.x, n)]
        BY <1>1, <3>3 DEF ExecArithmetic
      <4>2. n \in Word
        BY <2>1, StepWord
      <4> HIDE DEF n
      <4>3. \A y : Alike(y, r, f, m, i) => ExecArithmetic(y, i) = [y EXCEPT !.r = SetPair(r, i.x, n), !.f = f]
        BY <3>1, <4>1
      <4>4. Sets(i) = {Halves[i.x][1], Halves[i.x][2]}
        BY <3>3 DEF Sets
      <4> QED BY <2>1, <4>2, <4>3, <4>4
    <3>4. CASE i.op \in {"addhl", "adchl", "sbchl"}
      <4> DEFINE h == Pair(r, "hl")
                 x == Pair(r, i.x)
      <4>1. PICK t : /\ t \in {addhl(h, x, f), adchl(h, x, f), sbchl(h, x, f)}
                     /\ \A y : Alike(y, r, f, m, i) =>
                          ExecArithmetic(y, i) = [y EXCEPT !.r = SetPair(r, "hl", t.val), !.f = t.f]
        BY <1>1, <3>4 DEF ExecArithmetic
      <4>2. t.val \in Word /\ t.f \in Flags
        BY <2>1, <4>1, WordGood
      <4>3. Sets(i) = {Halves["hl"][1], Halves["hl"][2], "f"}
        BY <3>4 DEF Sets, Halves
      <4> QED BY <2>1, <4>1, <4>2, <4>3, ZenonT(40)
    <3> QED BY <1>6, <3>2, <3>3, <3>4
  <2>3. SetPair(r, p, v) \in Registers
    BY PairSet
  <2>4. Changes(r, f, Sets(i), SetPair(r, p, v), g)
    <3>1. /\ Changes(r, f, {Halves[p][1], Halves[p][2], "f"}, SetPair(r, p, v), g)
          /\ g = f => Changes(r, f, {Halves[p][1], Halves[p][2]}, SetPair(r, p, v), g)
      BY PairDoes
    <3> QED BY <2>2, <3>1, Zenon
  <2>5. \A y : Alike(y, r, f, m, i) => ExecArithmetic(y, i) = Does(y, i, SetPair(r, p, v), g, 0)
    <3>1. ~ WritesMemory(i)
      BY <1>6 DEF WritesMemory
    <3> QED BY <2>2, <3>1 DEF Does
  <2>6. 0 \in Byte
    BY ByteIs
  <2> QED BY <2>3, <2>4, <2>5, <2>6
<1> QED BY <1>3, <1>4, <1>5, <1>6 DEF Arithmetic

LEMMA Loads2 ==
  ASSUME NEW r \in Registers, NEW f \in Flags, NEW m \in Byte, NEW i, WellFormed(i),
         i.op \in {"ld", "ldn"}
  PROVE  \E q \in Registers, g \in Flags, w \in Byte :
           /\ Changes(r, f, Sets(i), q, g)
           /\ \A y : Alike(y, r, f, m, i) => ExecLoad(y, i) = Does(y, i, q, g, w)
<1>1. i.k \in Operands /\ (i.op = "ld" => i.x \in Operands) /\ (i.op = "ldn" => i.v \in Byte)
  BY DEF WellFormed
<1>2. PICK v \in Byte : \A y : Alike(y, r, f, m, i) => ExecLoad(y, i) = Put(y, i.k, v)
  <2>1. CASE i.op = "ld"
    <3>1. PICK o \in Byte : \A y : Alike(y, r, f, m, i) => Operand(y, i.x) = o
      BY <1>1, <2>1, LooksAlike
    <3> QED BY <2>1, <3>1 DEF ExecLoad
  <2>2. CASE i.op = "ldn"
    BY <1>1, <2>2 DEF ExecLoad
  <2> QED BY <2>1, <2>2
<1>3. (i.k = "m" <=> WritesMemory(i)) /\ Sets(i) = {i.k}
  BY DEF WritesMemory, Sets
<1>4. Puts(r, f, i.k, v, f, i)
  BY <1>1, <1>3, PutDoes
<1>5. PICK q \in Registers, w \in Byte :
        /\ Changes(r, f, {i.k}, q, f)
        /\ \A y \in Machine : y.r = r /\ y.f = f => Put(y, i.k, v) = Does(y, i, q, f, w)
  BY <1>4 DEF Puts
<1>6. \A y : Alike(y, r, f, m, i) => ExecLoad(y, i) = Does(y, i, q, f, w)
  BY <1>2, <1>5 DEF Alike
<1> QED BY <1>3, <1>5, <1>6

LEMMA Shifts ==
  ASSUME NEW r \in Registers, NEW f \in Flags, NEW m \in Byte, NEW i, WellFormed(i),
         i.op \in Bits
  PROVE  \E q \in Registers, g \in Flags, w \in Byte :
           /\ ~ WritesMemory(i) => Changes(r, f, Sets(i), q, g)
           /\ \A y : Alike(y, r, f, m, i) => ExecBits(y, i) = Does(y, i, q, g, w)
<1>1. \A y : Alike(y, r, f, m, i) => y.r = r /\ y.f = f
  BY DEF Alike
<1>2. r.a \in Byte /\ f.c \in 0 .. 1
  BY RegistersAre, FlagsAre
<1>3. i.op \in {"shift", "bit", "res", "set"} => i.x \in Operands
  BY DEF WellFormed
<1>4. CASE i.op = "shift"
  <2>1. i.k \in {"rlc", "rrc", "rl", "rr", "sla", "sll", "sra", "srl"}
    BY <1>4 DEF WellFormed
  <2>2. PICK o \in Byte : \A y : Alike(y, r, f, m, i) => Operand(y, i.x) = o
    BY <1>3, <1>4, LooksAlike
  <2> DEFINE t == Shift(i.k, o, f.c)
  <2>3. Good(t)
    BY <1>2, <2>1, ShiftGood
  <2>4. \A y : Alike(y, r, f, m, i) => ExecBits(y, i) = Store(y, i.x, t)
    BY <1>1, <1>4, <2>2 DEF ExecBits
  <2> HIDE DEF t
  <2>5. (i.x = "m" <=> WritesMemory(i)) /\ Sets(i) = {i.x, "f"}
    BY <1>4 DEF WritesMemory, Sets
  <2>6. Stores(r, f, m, i.x, t, i)
    BY <1>3, <1>4, <2>3, <2>5, StoreDoes
  <2>7. PICK q \in Registers, g \in Flags, w \in Byte :
          /\ Changes(r, f, {i.x, "f"}, q, g)
          /\ \A y : Alike(y, r, f, m, i) => Store(y, i.x, t) = Does(y, i, q, g, w)
    BY <2>6 DEF Stores
  <2> QED BY <2>4, <2>5, <2>7
<1>5. CASE i.op = "shifta"
  <2>1. i.k \in {"rlc", "rrc", "rl", "rr", "sla", "sll", "sra", "srl"}
    BY <1>5 DEF WellFormed
  <2> DEFINE t == ShiftA(i.k, r.a, f)
  <2>3. Good(t)
    BY <1>2, <2>1, OneByteGood
  <2>4. \A y : Alike(y, r, f, m, i) => ExecBits(y, i) = Store(y, "a", t)
    BY <1>1, <1>5 DEF ExecBits
  <2> HIDE DEF t
  <2>5. "a" \in Operands /\ ~ WritesMemory(i) /\ Sets(i) = {"a", "f"}
    BY <1>5 DEF WritesMemory, Sets, Operands, Names
  <2>6. Stores(r, f, m, "a", t, i)
    BY <2>3, <2>5, StoreDoes
  <2>7. PICK q \in Registers, g \in Flags, w \in Byte :
          /\ Changes(r, f, {"a", "f"}, q, g)
          /\ \A y : Alike(y, r, f, m, i) => Store(y, "a", t) = Does(y, i, q, g, w)
    BY <2>6 DEF Stores
  <2> QED BY <2>4, <2>5, <2>7
<1>6. CASE i.op \in {"bit", "res", "set"}
  <2>1. PICK o \in Byte : \A y : Alike(y, r, f, m, i) => Operand(y, i.x) = o
    BY <1>3, <1>6, LooksAlike
  <2>2. i.v \in 0 .. 7 /\ (i.x = "m" <=> WritesMemory(i))
    BY <1>6 DEF WellFormed, WritesMemory
  <2>3. CASE i.op = "bit"
    <3>1. PICK g \in Flags : g = cb_bit(o, i.v, f)
      BY <2>2, OneByteGood
    <3>2. \A y : Alike(y, r, f, m, i) => ExecBits(y, i) = Put([y EXCEPT !.f = g], i.x, o)
      BY <1>1, <2>1, <2>3, <3>1 DEF ExecBits, BitTest
    <3>3. Puts(r, f, i.x, o, g, i)
      BY <1>3, <2>2, <2>3, PutDoes
    <3>4. PICK q \in Registers, w \in Byte :
            /\ Changes(r, f, {i.x, "f"}, q, g)
            /\ \A y \in Machine : y.r = r => Put([y EXCEPT !.f = g], i.x, o) = Does(y, i, q, g, w)
      BY <3>3 DEF Puts
    <3>5. \A y : Alike(y, r, f, m, i) => ExecBits(y, i) = Does(y, i, q, g, w)
      BY <3>2, <3>4 DEF Alike
    <3>6. Sets(i) = {i.x, "f"}
      BY <2>3 DEF Sets
    <3> QED BY <3>4, <3>5, <3>6
  <2>4. CASE i.op \in {"res", "set"}
    <3>1. PICK v \in Byte : \A y : Alike(y, r, f, m, i) => ExecBits(y, i) = Put(y, i.x, v)
      <4> DEFINE b == IF i.op = "set" THEN 1 ELSE 0
                 v == o + (b - Bit(o, i.v)) * 2^i.v
      <4>1. b \in 0 .. 1
        OBVIOUS
      <4>2. v \in Byte
        BY <2>2, <4>1, BitChanged
      <4>3. \A y : Alike(y, r, f, m, i) => ExecBits(y, i) = Put(y, i.x, v)
        <5>1. \A y : Alike(y, r, f, m, i) => ExecBits(y, i) = BitPut(y, i.x, i.v, b)
          BY <2>4 DEF ExecBits
        <5> HIDE DEF b
        <5> QED BY <2>1, <5>1, Zenon DEF BitPut
      <4> HIDE DEF v
      <4> QED BY <4>2, <4>3
    <3>2. Puts(r, f, i.x, v, f, i)
      BY <1>3, <2>2, <2>4, PutDoes
    <3>3. PICK q \in Registers, w \in Byte :
            /\ Changes(r, f, {i.x}, q, f)
            /\ \A y \in Machine : y.r = r /\ y.f = f => Put(y, i.x, v) = Does(y, i, q, f, w)
      BY <3>2 DEF Puts
    <3>4. \A y : Alike(y, r, f, m, i) => ExecBits(y, i) = Does(y, i, q, f, w)
      BY <3>1, <3>3 DEF Alike
    <3>5. Sets(i) = {i.x}
      BY <2>4 DEF Sets
    <3> QED BY <3>3, <3>4, <3>5
  <2> QED BY <1>6, <2>3, <2>4
<1>7. CASE i.op \in {"rld", "rrd"}
  <2>1. PICK t : /\ t.m \in Byte /\ Good(t.a)
                 /\ \A y : Alike(y, r, f, m, i) => ExecBits(y, i) = TurnDigits(y, t)
    <3>1. \A y : Alike(y, r, f, m, i) => Operand(y, "m") = m
      BY <1>7, PointsAt DEF Alike, Operand
    <3>2. CASE i.op = "rld"
      <4>1. \A y : Alike(y, r, f, m, i) => ExecBits(y, i) = TurnDigits(y, rld(r.a, m, f))
        BY <1>1, <3>1, <3>2 DEF ExecBits
      <4> QED BY <1>2, <4>1, DigitsGood
    <3>3. CASE i.op = "rrd"
      <4>1. \A y : Alike(y, r, f, m, i) => ExecBits(y, i) = TurnDigits(y, rrd(r.a, m, f))
        BY <1>1, <3>1, <3>3 DEF ExecBits
      <4> QED BY <1>2, <4>1, DigitsGood
    <3> QED BY <1>7, <3>2, <3>3
  <2>2. PICK w \in Byte, v \in Byte, g \in Flags : w = t.m /\ v = t.a.val /\ g = t.a.f
    BY <2>1 DEF Good
  <2>3. WritesMemory(i)
    BY <1>7 DEF WritesMemory
  <2>4. PICK q \in Registers : q = [r EXCEPT !.a = v]
    BY RegistersAre DEF Names
  <2>5. ASSUME NEW y, Alike(y, r, f, m, i) PROVE TurnDigits(y, t) = Does(y, i, q, g, w)
    <3>1. y \in Machine /\ y.r = r
      BY <2>5 DEF Alike
    <3>2. PICK c : c = [y.ram EXCEPT ![Pair(y.r, "hl")] = w]
      OBVIOUS
    <3>3. TurnDigits(y, t) = [[y EXCEPT !.ram = c] EXCEPT !.r.a = v, !.f = g]
      BY <2>2, <3>2 DEF TurnDigits, mem_write
    <3>4. Does(y, i, q, g, w) = [y EXCEPT !.r = q, !.f = g, !.ram = c]
      BY <2>3, <3>2 DEF Does
    <3>5. [[y EXCEPT !.ram = c] EXCEPT !.r.a = v, !.f = g] = [y EXCEPT !.r = q, !.f = g, !.ram = c]
      BY <2>4, <3>1 DEF Machine
    <3> QED BY <3>3, <3>4, <3>5
  <2> QED BY <2>1, <2>3, <2>5
<1> QED BY <1>4, <1>5, <1>6, <1>7 DEF Bits

\* The instruction as a whole.
Plain == {"ld", "ldn"} \cup Arithmetic \cup Bits

HasEffect(r, f, m, i) ==
  \E q \in Registers, g \in Flags, w \in Byte :
    /\ ~ WritesMemory(i) => Changes(r, f, Sets(i), q, g)
    /\ \A z : Alike(z, r, f, m, i) =>
         exec_opcode(z, i) = Does([z EXCEPT !.pc = Above(z.pc, i.len)], i, q, g, w)

LEMMA PlainDoes ==
  ASSUME NEW r \in Registers, NEW f \in Flags, NEW m \in Byte, NEW i, WellFormed(i), i.op \in Plain
  PROVE  HasEffect(r, f, m, i)
<1>1. ASSUME NEW z, Alike(z, r, f, m, i)
      PROVE  Alike([z EXCEPT !.pc = Above(z.pc, i.len)], r, f, m, i)
  <2>1. z \in Machine /\ z.pc \in Word /\ i.len \in 1 .. 4
    BY <1>1 DEF Alike, Machine, WellFormed
  <2>2. Above(z.pc, i.len) \in Word
    <3>1. PICK a \in Int, n \in Int : a = z.pc /\ n = i.len /\ 0 <= a /\ 1 <= n
      BY <2>1, WordIs
    <3>2. Above(a, n) \in Int /\ 0 <= Above(a, n) /\ Above(a, n) <= 65535
      BY <3>1, Z3 DEF Above
    <3> QED BY <3>1, <3>2, WordIs
  <2>3. PICK p \in Word : p = Above(z.pc, i.len)
    BY <2>2
  <2> DEFINE y == [z EXCEPT !.pc = p]
  <2>4. /\ y \in Machine /\ y.r = z.r /\ y.f = z.f /\ y.ram = z.ram /\ y.romOut = z.romOut
    BY <2>1 DEF Machine
  <2> HIDE DEF y
  <2>5. Alike(y, r, f, m, i)
    BY <1>1, <2>4 DEF Alike, mem_read
  <2> QED BY <2>3, <2>5 DEF y
<1>2. ASSUME NEW z
      PROVE  LET y == [z EXCEPT !.pc = Above(z.pc, i.len)]
             IN  /\ i.op \in {"ld", "ldn"} => exec_opcode(z, i) = ExecLoad(y, i)
                 /\ i.op \in Arithmetic => exec_opcode(z, i) = ExecArithmetic(y, i)
                 /\ i.op \in Bits => exec_opcode(z, i) = ExecBits(y, i)
  <2>1. /\ i.op \in {"ld", "ldn"} => i.op \in Loads
        /\ i.op \in Arithmetic => i.op \notin Loads
        /\ i.op \in Bits => i.op \notin Loads /\ i.op \notin Arithmetic
    BY DEF Loads, Arithmetic, Bits
  <2> QED BY <2>1, Zenon DEF exec_opcode
<1>3. CASE i.op \in {"ld", "ldn"}
  <2>1. PICK q \in Registers, g \in Flags, w \in Byte :
          /\ ~ WritesMemory(i) => Changes(r, f, Sets(i), q, g)
          /\ \A y : Alike(y, r, f, m, i) => ExecLoad(y, i) = Does(y, i, q, g, w)
    BY <1>3, Loads2
  <2>2. \A z : Alike(z, r, f, m, i) =>
          exec_opcode(z, i) = Does([z EXCEPT !.pc = Above(z.pc, i.len)], i, q, g, w)
    BY <1>1, <1>2, <1>3, <2>1
  <2> QED BY <2>1, <2>2 DEF HasEffect
<1>4. CASE i.op \in Arithmetic
  <2>1. PICK q \in Registers, g \in Flags, w \in Byte :
          /\ ~ WritesMemory(i) => Changes(r, f, Sets(i), q, g)
          /\ \A y : Alike(y, r, f, m, i) => ExecArithmetic(y, i) = Does(y, i, q, g, w)
    BY <1>4, Reckons
  <2>2. \A z : Alike(z, r, f, m, i) =>
          exec_opcode(z, i) = Does([z EXCEPT !.pc = Above(z.pc, i.len)], i, q, g, w)
    BY <1>1, <1>2, <1>4, <2>1
  <2> QED BY <2>1, <2>2 DEF HasEffect
<1>5. CASE i.op \in Bits
  <2>1. PICK q \in Registers, g \in Flags, w \in Byte :
          /\ ~ WritesMemory(i) => Changes(r, f, Sets(i), q, g)
          /\ \A y : Alike(y, r, f, m, i) => ExecBits(y, i) = Does(y, i, q, g, w)
    BY <1>5, Shifts
  <2>2. \A z : Alike(z, r, f, m, i) =>
          exec_opcode(z, i) = Does([z EXCEPT !.pc = Above(z.pc, i.len)], i, q, g, w)
    BY <1>1, <1>2, <1>5, <2>1
  <2> QED BY <2>1, <2>2 DEF HasEffect
<1> QED BY <1>3, <1>4, <1>5 DEF Plain

-----------------------------------------------------------------------------
\* What the program sees of the memory.

LEMMA MemIs ==
  ASSUME Cells = Word, NEW z \in Machine, NEW x \in Word
  PROVE  mem_read(z, x) \in Byte
<1>1. z.ram[x] \in Byte
  BY DEF Machine
<1>2. x < RomSize => Rom[x] \in Byte
  <2>1. x \in Int /\ 0 <= x
    BY WordIs
  <2> QED BY <2>1, AddressAssumption, MemoryAssumption
<1> QED BY <1>1, <1>2 DEF mem_read

LEMMA AboveIs ==
  ASSUME NEW a \in Word, NEW n \in 0 .. 4
  PROVE  Above(a, n) \in Word /\ Below(a, n) \in Word
<1>1. PICK b \in Int, k \in Int : b = a /\ k = n /\ 0 <= b /\ b <= 65535 /\ 0 <= k /\ k <= 4
  BY WordIs
<1>2. PICK c \in Int, d \in Int : c = Above(b, k) /\ d = Below(b, k)
  BY <1>1 DEF Above, Below
<1>3. 0 <= c /\ c <= 65535 /\ 0 <= d /\ d <= 65535
  BY <1>1, <1>2, Z3 DEF Above, Below
<1> QED BY <1>1, <1>2, <1>3, WordIs

\* The memory without what is under the stack pointer.
Hidden(m) == [x \in Cells |-> IF x \in Stack THEN 0 ELSE m[x]]

LEMMA HiddenIs ==
  ASSUME Cells = Word, NEW m \in [Cells -> Byte]
  PROVE  /\ Hidden(m) \in [Cells -> Byte]
         /\ \A x \in Word \ Stack : Hidden(m)[x] = m[x]
<1>1. 0 \in Byte
  BY ByteIs
<1> QED BY <1>1 DEF Hidden

LEMMA HiddenPut ==
  ASSUME Cells = Word, NEW m \in [Cells -> Byte], NEW a \in Word, NEW w
  PROVE  Hidden([m EXCEPT ![a] = w]) = IF a \in Stack THEN Hidden(m) ELSE [Hidden(m) EXCEPT ![a] = w]
BY DEF Hidden

LEMMA VeilIs ==
  ASSUME Cells = Word, NEW z \in Machine
  PROVE  /\ Veil(z) = [z EXCEPT !.ram = Hidden(z.ram), !.request = FALSE]
         /\ Veil(z) \in Machine
         /\ \A x \in Word \ Stack : mem_read(Veil(z), x) = mem_read(z, x)
<1>1. Veil(z) = [z EXCEPT !.ram = Hidden(z.ram), !.request = FALSE]
  BY DEF Veil, Hidden
<1>2. PICK m \in [Cells -> Byte] : m = Hidden(z.ram) /\ \A x \in Word \ Stack : m[x] = z.ram[x]
  <2>1. z.ram \in [Cells -> Byte]
    BY DEF Machine
  <2> QED BY <2>1, HiddenIs
<1>3. /\ Veil(z) \in Machine /\ Veil(z).ram = m /\ Veil(z).romOut = z.romOut
  BY <1>1, <1>2 DEF Machine
<1> QED BY <1>1, <1>2, <1>3 DEF mem_read

LEMMA DoesIs ==
  ASSUME Cells = Word, NEW y \in Machine, NEW i, NEW q \in Registers, NEW g \in Flags, NEW w \in Byte
  PROVE  /\ Does(y, i, q, g, w) \in Machine
         /\ (WritesMemory(i) => Pair(y.r, "hl") \notin Stack)
              => Does(Veil(y), i, q, g, w) = Veil(Does(y, i, q, g, w))
<1>1. PICK h \in Word : h = Pair(y.r, "hl")
  <2>1. y.r \in Registers /\ "hl" \in Pairs
    BY DEF Machine, Pairs
  <2> QED BY <2>1, PairIs
<1>2. PICK m \in [Cells -> Byte] : m = y.ram
  BY DEF Machine
<1>3. PICK v \in [Cells -> Byte] : v = Hidden(m)
  BY HiddenIs
<1>4. /\ Veil(y) = [y EXCEPT !.ram = v, !.request = FALSE] /\ Veil(y) \in Machine
  BY <1>2, <1>3, VeilIs
<1>5. CASE WritesMemory(i)
  <2>1. PICK n \in [Cells -> Byte] : n = [m EXCEPT ![h] = w]
    OBVIOUS
  <2>2. Does(y, i, q, g, w) = [y EXCEPT !.r = q, !.f = g, !.ram = n]
    BY <1>1, <1>2, <1>5, <2>1 DEF Does
  <2>3. Does(y, i, q, g, w) \in Machine
    BY <2>2 DEF Machine
  <2>4. ASSUME h \notin Stack
        PROVE  Does(Veil(y), i, q, g, w) = Veil(Does(y, i, q, g, w))
    <3>1. Veil(y).r = y.r /\ Veil(y).ram = v
      BY <1>4 DEF Machine
    <3>2. PICK u \in [Cells -> Byte] : u = [v EXCEPT ![h] = w]
      OBVIOUS
    <3>3. Does(Veil(y), i, q, g, w) = [Veil(y) EXCEPT !.r = q, !.f = g, !.ram = u]
      BY <1>1, <1>5, <3>1, <3>2 DEF Does
    <3>4. u = Hidden(n)
      <4>1. Hidden([m EXCEPT ![h] = w]) = [Hidden(m) EXCEPT ![h] = w]
        BY <2>4, HiddenPut
      <4> QED BY <1>3, <2>1, <3>2, <4>1
    <3>5. Does(y, i, q, g, w).ram = n
      BY <2>2 DEF Machine
    <3>6. Veil(Does(y, i, q, g, w)) = [[y EXCEPT !.r = q, !.f = g, !.ram = n] EXCEPT !.ram = u, !.request = FALSE]
      BY <2>2, <2>3, <3>4, <3>5, VeilIs
    <3> QED BY <1>4, <3>3, <3>6 DEF Machine
  <2> QED BY <1>1, <1>5, <2>3, <2>4
<1>6. CASE ~ WritesMemory(i)
  <2>1. Does(y, i, q, g, w) = [y EXCEPT !.r = q, !.f = g] /\ Does(y, i, q, g, w).ram = m
    BY <1>2, <1>6 DEF Does, Machine
  <2>2. Does(y, i, q, g, w) \in Machine
    BY <2>1 DEF Machine
  <2>3. Veil(Does(y, i, q, g, w)) = [[y EXCEPT !.r = q, !.f = g] EXCEPT !.ram = v, !.request = FALSE]
    BY <1>3, <2>1, <2>2, VeilIs
  <2>4. Does(Veil(y), i, q, g, w) = [Veil(y) EXCEPT !.r = q, !.f = g]
    BY <1>6 DEF Does
  <2>5. Does(Veil(y), i, q, g, w) = Veil(Does(y, i, q, g, w))
    BY <1>4, <2>3, <2>4 DEF Machine
  <2> QED BY <2>2, <2>5
<1> QED BY <1>5, <1>6

\* What the program sees after an instruction.
Veils(z, i) == /\ exec_opcode(z, i) \in Machine
               /\ (\A p \in Pointers(i) : Pair(z.r, p) \notin Stack)
                    => exec_opcode(Veil(z), i) = Veil(exec_opcode(z, i))

LEMMA PlainVeils ==
  ASSUME Cells = Word, NEW z \in Machine, NEW i, WellFormed(i), i.op \in Plain
  PROVE  Veils(z, i)
<1>1. PICK r \in Registers, f \in Flags : r = z.r /\ f = z.f
  BY DEF Machine
<1>2. PICK m \in Byte : m = mem_read(z, Pair(r, "hl"))
  BY PairIs, MemIs DEF Pairs
<1>3. PICK q \in Registers, g \in Flags, w \in Byte :
        \A y : Alike(y, r, f, m, i) =>
          exec_opcode(y, i) = Does([y EXCEPT !.pc = Above(y.pc, i.len)], i, q, g, w)
  <2>1. HasEffect(r, f, m, i)
    BY PlainDoes
  <2> QED BY <2>1 DEF HasEffect
<1>4. PICK p \in Word : p = Above(z.pc, i.len)
  <2>1. z.pc \in Word /\ i.len \in 0 .. 4
    BY DEF Machine, WellFormed
  <2> QED BY <2>1, AboveIs
<1> DEFINE y == [z EXCEPT !.pc = p]
<1>5. y \in Machine /\ y.r = r /\ Veil(z).pc = z.pc /\ Veil(z).r = r /\ Veil(z).f = f
      /\ Veil(y) = [Veil(z) EXCEPT !.pc = p]
  <2>1. y \in Machine /\ y.r = r /\ y.ram = z.ram
    BY <1>1 DEF Machine
  <2>2. /\ Veil(z) = [z EXCEPT !.ram = Hidden(z.ram), !.request = FALSE]
        /\ Veil(y) = [y EXCEPT !.ram = Hidden(z.ram), !.request = FALSE]
    BY <2>1, VeilIs
  <2>3. PICK n : n = Hidden(z.ram)
    OBVIOUS
  <2> QED BY <1>1, <2>1, <2>2, <2>3 DEF Machine
<1> HIDE DEF y
<1>6. exec_opcode(z, i) = Does(y, i, q, g, w)
  BY <1>1, <1>2, <1>3, <1>4 DEF Alike, y
<1>7. ASSUME \A x \in Pointers(i) : Pair(z.r, x) \notin Stack
      PROVE  exec_opcode(Veil(z), i) = Veil(exec_opcode(z, i))
  <2>1. Alike(Veil(z), r, f, m, i)
    <3>1. "hl" \in Pointers(i) => mem_read(Veil(z), Pair(r, "hl")) = m
      BY <1>1, <1>2, <1>7, PairIs, VeilIs DEF Pairs
    <3> QED BY <1>5, <3>1, VeilIs DEF Alike
  <2>2. exec_opcode(Veil(z), i) = Does(Veil(y), i, q, g, w)
    BY <1>3, <1>4, <1>5, <2>1
  <2>3. WritesMemory(i) => Pair(y.r, "hl") \notin Stack
    BY <1>1, <1>5, <1>7, PointsAt
  <2> QED BY <1>5, <1>6, <2>2, <2>3, DoesIs
<1>8. exec_opcode(z, i) \in Machine
  <2>1. Does(y, i, q, g, w) \in Machine
    BY <1>5, DoesIs
  <2> QED BY <1>6, <2>1
<1> QED BY <1>7, <1>8 DEF Veils

-----------------------------------------------------------------------------
\* Jumps, EI, DI, IN and the switch of the ROM.

\* Jumps, EI and DI, the IN of a device, the switch of the ROM.
Control == Jumps \cup {"ei", "di", "in", "rom"}

Alter(y, i, p, q, d, e, o) ==
  IF i.op = "in"
  THEN [y EXCEPT !.pc = p, !.r = q, !.delay = d, !.iff = e, !.romOut = o, !.request = FALSE]
  ELSE [y EXCEPT !.pc = p, !.r = q, !.delay = d, !.iff = e, !.romOut = o]

\* All but memory, stack and devices.
SameCore(y, z) == /\ y \in Machine /\ y.pc = z.pc /\ y.r = z.r /\ y.f = z.f
                  /\ y.delay = z.delay /\ y.iff = z.iff /\ y.romOut = z.romOut

Alters(z, i) ==
  \E p \in Word, q \in Registers, d \in BOOLEAN, e \in BOOLEAN, o \in BOOLEAN :
    /\ i.op # "rom" => o = z.romOut
    /\ \A x \in Names \ Sets(i) : q[x] = z.r[x]
    /\ \A y : SameCore(y, z) => exec_opcode(y, i) = Alter(y, i, p, q, d, e, o)

LEMMA AltersIs ==
  ASSUME NEW z \in Machine, NEW i, NEW p \in Word, NEW q \in Registers, NEW d \in BOOLEAN,
         NEW e \in BOOLEAN, NEW o \in BOOLEAN, i.op # "rom" => o = z.romOut,
         \A x \in Names \ Sets(i) : q[x] = z.r[x],
         \A y : SameCore(y, z) => exec_opcode(y, i) = Alter(y, i, p, q, d, e, o)
  PROVE  Alters(z, i)
BY DEF Alters

LEMMA ControlAlters ==
  ASSUME NEW z \in Machine, NEW i, WellFormed(i), i.op \in Control
  PROVE  Alters(z, i)
<1>1. PICK p \in Word : p = Above(z.pc, i.len)
  <2>1. z.pc \in Word /\ i.len \in 0 .. 4
    BY DEF Machine, WellFormed
  <2> QED BY <2>1, AboveIs
<1>2. PICK r \in Registers, d \in BOOLEAN, e \in BOOLEAN, o \in BOOLEAN :
        r = z.r /\ d = z.delay /\ e = z.iff /\ o = z.romOut
  BY DEF Machine
<1>3. ASSUME NEW y, SameCore(y, z)
      PROVE  /\ exec_opcode(y, i) = ExecControl([y EXCEPT !.pc = p], i)
             /\ y \in Machine /\ y.r = r /\ y.f = z.f /\ y.delay = d /\ y.iff = e /\ y.romOut = o
  <2>1. i.op \notin Loads \cup Arithmetic \cup Bits
    BY DEF Control, Jumps, Loads, Arithmetic, Bits
  <2> QED BY <1>1, <1>2, <1>3, <2>1, Fetched DEF SameCore
<1>4. i.op \in Jumps => i.v \in Word
  BY DEF WellFormed
<1>5. CASE i.op = "jrnc"
  <2>1. PICK t \in Word : t = IF z.f.c = 0 THEN i.v ELSE p
    BY <1>4, <1>5 DEF Jumps
  <2>2. ASSUME NEW y, SameCore(y, z) PROVE exec_opcode(y, i) = Alter(y, i, t, r, d, e, o)
    <3>1. exec_opcode(y, i) = [y EXCEPT !.pc = t]
      <4>1. [y EXCEPT !.pc = p].f = z.f
        BY <1>3, <2>2 DEF Machine
      <4>2. exec_opcode(y, i) = IF z.f.c = 0 THEN [[y EXCEPT !.pc = p] EXCEPT !.pc = i.v]
                                ELSE [y EXCEPT !.pc = p]
        BY <1>3, <1>5, <2>2, <4>1 DEF ExecControl, Jump
      <4> QED BY <1>3, <2>1, <2>2, <4>2 DEF Machine
    <3>2. Alter(y, i, t, r, d, e, o) = [y EXCEPT !.pc = t, !.r = r, !.delay = d, !.iff = e, !.romOut = o]
      BY <1>5 DEF Alter
    <3>3. y \in Machine /\ y.r = r /\ y.delay = d /\ y.iff = e /\ y.romOut = o
      BY <1>3, <2>2
    <3>4. exec_opcode(y, i) = [y EXCEPT !.pc = t, !.r = r, !.delay = d, !.iff = e, !.romOut = o]
      BY <3>1, <3>3 DEF Machine
    <3> QED BY <3>2, <3>4
  <2> QED BY <1>2, <2>2, AltersIs
<1>6. CASE i.op = "djnz"
  <2>1. PICK b \in Byte : b = (r.b + 255) % 256
    <3>1. r.b \in Byte
      BY RegistersAre
    <3> QED BY <3>1 DEF Byte
  <2>2. PICK q \in Registers : q = [r EXCEPT !.b = b]
    BY RegistersAre DEF Names
  <2>3. PICK t \in Word : t = IF b # 0 THEN i.v ELSE p
    BY <1>4, <1>6 DEF Jumps
  <2>4. ASSUME NEW y, SameCore(y, z) PROVE exec_opcode(y, i) = Alter(y, i, t, q, d, e, o)
    <3> DEFINE x == [[y EXCEPT !.pc = p] EXCEPT !.r.b = (@ + 255) % 256]
    <3>1. x = [y EXCEPT !.pc = p, !.r = q]
      <4>1. x = [[y EXCEPT !.pc = p] EXCEPT !.r = [r EXCEPT !.b = (r.b + 255) % 256]]
        BY <1>3, <2>4, ZenonT(40) DEF Machine
      <4>2. x = [[y EXCEPT !.pc = p] EXCEPT !.r = q]
        BY <2>1, <2>2, <4>1
      <4> QED BY <1>3, <2>4, <4>2 DEF Machine
    <3>2. x.r.b = b /\ [x EXCEPT !.pc = i.v] = [y EXCEPT !.pc = i.v, !.r = q]
      <4> HIDE DEF x
      <4>1. q.b = b
        BY <2>2 DEF Registers
      <4> QED BY <1>3, <2>4, <3>1, <4>1 DEF Machine
    <3>3. exec_opcode(y, i) = Jump(x, i.v, x.r.b # 0)
      BY <1>3, <1>6, <2>4 DEF ExecControl
    <3> HIDE DEF x
    <3>4. exec_opcode(y, i) = [y EXCEPT !.pc = t, !.r = q]
      BY <2>3, <3>1, <3>2, <3>3 DEF Jump
    <3>5. Alter(y, i, t, q, d, e, o) = [y EXCEPT !.pc = t, !.r = q, !.delay = d, !.iff = e, !.romOut = o]
      BY <1>6 DEF Alter
    <3>6. y \in Machine /\ y.r = r /\ y.delay = d /\ y.iff = e /\ y.romOut = o
      BY <1>3, <2>4
    <3>7. exec_opcode(y, i) = [y EXCEPT !.pc = t, !.r = q, !.delay = d, !.iff = e, !.romOut = o]
      BY <3>4, <3>6 DEF Machine
    <3> QED BY <3>5, <3>7
  <2>5. \A x \in Names \ Sets(i) : q[x] = r[x]
    BY <1>6, <2>2 DEF Sets, Names, Registers
  <2> QED BY <1>2, <2>4, <2>5, AltersIs
<1>7. CASE i.op = "ei"
  <2>1. ASSUME NEW y, SameCore(y, z) PROVE exec_opcode(y, i) = Alter(y, i, p, r, TRUE, e, o)
    <3>1. exec_opcode(y, i) = [[y EXCEPT !.pc = p] EXCEPT !.delay = TRUE]
      BY <1>3, <1>7, <2>1 DEF ExecControl, Ei
    <3>2. Alter(y, i, p, r, TRUE, e, o) = [y EXCEPT !.pc = p, !.r = r, !.delay = TRUE, !.iff = e, !.romOut = o]
      BY <1>7 DEF Alter
    <3>3. y \in Machine /\ y.r = r /\ y.delay = d /\ y.iff = e /\ y.romOut = o
      BY <1>3, <2>1
    <3>4. exec_opcode(y, i) = [y EXCEPT !.pc = p, !.r = r, !.delay = TRUE, !.iff = e, !.romOut = o]
      BY <3>1, <3>3 DEF Machine
    <3> QED BY <3>2, <3>4
  <2> QED BY <1>2, <2>1, AltersIs
<1>8. CASE i.op = "di"
  <2>1. ASSUME NEW y, SameCore(y, z) PROVE exec_opcode(y, i) = Alter(y, i, p, r, d, FALSE, o)
    <3>1. exec_opcode(y, i) = [[y EXCEPT !.pc = p] EXCEPT !.iff = FALSE]
      BY <1>3, <1>8, <2>1 DEF ExecControl
    <3>2. Alter(y, i, p, r, d, FALSE, o) = [y EXCEPT !.pc = p, !.r = r, !.delay = d, !.iff = FALSE, !.romOut = o]
      BY <1>8 DEF Alter
    <3>3. y \in Machine /\ y.r = r /\ y.delay = d /\ y.iff = e /\ y.romOut = o
      BY <1>3, <2>1
    <3>4. exec_opcode(y, i) = [y EXCEPT !.pc = p, !.r = r, !.delay = d, !.iff = FALSE, !.romOut = o]
      BY <3>1, <3>3 DEF Machine
    <3> QED BY <3>2, <3>4
  <2> QED BY <1>2, <2>1, AltersIs
<1>9. CASE i.op = "in"
  <2>1. PICK q \in Registers : q = [r EXCEPT !.a = 0]
    <3>1. 0 \in Byte /\ "a" \in Names
      BY ByteIs DEF Names
    <3> QED BY <3>1, RegistersAre
  <2>2. ASSUME NEW y, SameCore(y, z) PROVE exec_opcode(y, i) = Alter(y, i, p, q, d, e, o)
    <3>1. exec_opcode(y, i) = [[y EXCEPT !.pc = p] EXCEPT !.request = FALSE, !.r = q]
      <4>1. exec_opcode(y, i) = [[y EXCEPT !.pc = p] EXCEPT !.request = FALSE,
                                 !.r = [[y EXCEPT !.pc = p].r EXCEPT !.a = 0]]
        BY <1>3, <1>9, <2>2 DEF ExecControl
      <4>2. [y EXCEPT !.pc = p].r = r
        BY <1>3, <2>2 DEF Machine
      <4> QED BY <2>1, <4>1, <4>2
    <3>2. Alter(y, i, p, q, d, e, o) = [y EXCEPT !.pc = p, !.r = q, !.delay = d, !.iff = e, !.romOut = o, !.request = FALSE]
      BY <1>9 DEF Alter
    <3>3. y \in Machine /\ y.r = r /\ y.delay = d /\ y.iff = e /\ y.romOut = o
      BY <1>3, <2>2
    <3>4. exec_opcode(y, i) = [y EXCEPT !.pc = p, !.r = q, !.delay = d, !.iff = e, !.romOut = o, !.request = FALSE]
      BY <3>1, <3>3 DEF Machine
    <3> QED BY <3>2, <3>4
  <2>3. \A x \in Names \ Sets(i) : q[x] = r[x]
    BY <1>9, <2>1 DEF Sets, Names, Registers
  <2> QED BY <1>2, <1>9, <2>2, <2>3, AltersIs
<1>10. CASE i.op = "rom"
  <2>1. PICK v \in BOOLEAN : v = (i.v = 1)
    OBVIOUS
  <2>2. ASSUME NEW y, SameCore(y, z) PROVE exec_opcode(y, i) = Alter(y, i, p, r, d, e, v)
    <3>1. exec_opcode(y, i) = [[y EXCEPT !.pc = p] EXCEPT !.romOut = v]
      <4>1. ExecControl([y EXCEPT !.pc = p], i) = [[y EXCEPT !.pc = p] EXCEPT !.romOut = (i.v = 1)]
        BY <1>10, Zenon DEF ExecControl
      <4> QED BY <1>3, <2>1, <2>2, <4>1, Zenon
    <3>2. Alter(y, i, p, r, d, e, v) = [y EXCEPT !.pc = p, !.r = r, !.delay = d, !.iff = e, !.romOut = v]
      BY <1>10 DEF Alter
    <3>3. y \in Machine /\ y.r = r /\ y.delay = d /\ y.iff = e /\ y.romOut = o
      BY <1>3, <2>2
    <3>4. exec_opcode(y, i) = [y EXCEPT !.pc = p, !.r = r, !.delay = d, !.iff = e, !.romOut = v]
      BY <3>1, <3>3 DEF Machine
    <3> QED BY <3>2, <3>4
  <2> QED BY <1>2, <1>10, <2>2, AltersIs
<1> QED BY <1>5, <1>6, <1>7, <1>8, <1>9, <1>10 DEF Control, Jumps

LEMMA ControlVeils ==
  ASSUME Cells = Word, NEW z \in Machine, NEW i, WellFormed(i), i.op \in Control
  PROVE  Veils(z, i)
<1>1. PICK p \in Word, q \in Registers, d \in BOOLEAN, e \in BOOLEAN, o \in BOOLEAN :
        \A y : SameCore(y, z) => exec_opcode(y, i) = Alter(y, i, p, q, d, e, o)
  BY ControlAlters DEF Alters
<1>2. PICK n \in [Cells -> Byte] :
        /\ n = Hidden(z.ram) /\ Veil(z) = [z EXCEPT !.ram = n, !.request = FALSE]
        /\ Veil(z) \in Machine
  BY VeilIs, HiddenIs DEF Machine
<1>3. exec_opcode(z, i) = Alter(z, i, p, q, d, e, o)
  BY <1>1 DEF SameCore
<1>4. exec_opcode(Veil(z), i) = Alter(Veil(z), i, p, q, d, e, o)
  BY <1>1, <1>2 DEF SameCore, Machine
<1> DEFINE x == Alter(z, i, p, q, d, e, o)
<1>5. x \in Machine /\ x.ram = z.ram
  BY DEF Machine, Alter
<1>6. Veil(x) = [x EXCEPT !.ram = n, !.request = FALSE]
  BY <1>2, <1>5, VeilIs
<1>7. Veil(x) = Alter(Veil(z), i, p, q, d, e, o)
  <2>1. CASE i.op = "in"
    <3>1. x = [z EXCEPT !.pc = p, !.r = q, !.delay = d, !.iff = e, !.romOut = o, !.request = FALSE]
      BY <2>1 DEF Alter
    <3>2. Alter(Veil(z), i, p, q, d, e, o) = [Veil(z) EXCEPT !.pc = p, !.r = q, !.delay = d,
                                              !.iff = e, !.romOut = o, !.request = FALSE]
      BY <2>1 DEF Alter
    <3> HIDE DEF x
    <3>3. [[z EXCEPT !.pc = p, !.r = q, !.delay = d, !.iff = e, !.romOut = o, !.request = FALSE]
              EXCEPT !.ram = n, !.request = FALSE]
          = [[z EXCEPT !.ram = n, !.request = FALSE]
              EXCEPT !.pc = p, !.r = q, !.delay = d, !.iff = e, !.romOut = o, !.request = FALSE]
      BY DEF Machine
    <3> QED BY <1>2, <1>6, <3>1, <3>2, <3>3
  <2>2. CASE i.op # "in"
    <3>1. x = [z EXCEPT !.pc = p, !.r = q, !.delay = d, !.iff = e, !.romOut = o]
      BY <2>2 DEF Alter
    <3>2. Alter(Veil(z), i, p, q, d, e, o) = [Veil(z) EXCEPT !.pc = p, !.r = q, !.delay = d,
                                              !.iff = e, !.romOut = o]
      BY <2>2 DEF Alter
    <3> HIDE DEF x
    <3>3. [[z EXCEPT !.pc = p, !.r = q, !.delay = d, !.iff = e, !.romOut = o]
              EXCEPT !.ram = n, !.request = FALSE]
          = [[z EXCEPT !.ram = n, !.request = FALSE]
              EXCEPT !.pc = p, !.r = q, !.delay = d, !.iff = e, !.romOut = o]
      BY DEF Machine
    <3> QED BY <1>2, <1>6, <3>1, <3>2, <3>3
  <2> QED BY <2>1, <2>2
<1> QED BY <1>3, <1>4, <1>5, <1>7 DEF Veils

-----------------------------------------------------------------------------
\* Block instructions: one round.

\* Registers and flags after a round of a block instruction that reads m.
Kinds == {"ld", "cp", "in", "ot"}

AfterRound(r, k, up) ==
  LET m == SetPair(r, "hl", Along(Pair(r, "hl"), up))
      n == SetPair(m, "de", Along(Pair(m, "de"), up))
      to == IF k = "ld" THEN n ELSE m
  IN  IF k \in {"ld", "cp"} THEN SetPair(to, "bc", Below(Pair(to, "bc"), 1))
      ELSE [m EXCEPT !.b = (m.b + 255) % 256]

Told(r, f, k, q, m) ==
  CASE k = "ld" -> [f EXCEPT !.n = 0, !.h = 0, !.p = Truth(Pair(q, "bc") > 0)]
    [] k = "cp" -> [subb(r.a, m, 0).f EXCEPT !.c = f.c, !.p = Truth(Pair(q, "bc") # 0)]
    [] k \in {"in", "ot"} -> [f EXCEPT !.z = Truth(q.b = 0), !.n = 1]

Effect(y, k, q, g, m) ==
  CASE k = "ld" -> [y EXCEPT !.r = q, !.f = g, !.ram = [y.ram EXCEPT ![Pair(y.r, "de")] = m]]
    [] k = "cp" -> [y EXCEPT !.r = q, !.f = g]
    [] k = "in" -> [y EXCEPT !.r = q, !.f = g, !.given = Gives(y.given),
                             !.ram = [y.ram EXCEPT ![Pair(y.r, "hl")] = Gives(y.given)]]
    [] k = "ot" -> [y EXCEPT !.r = q, !.f = g, !.out = Append(y.out, m)]

LEMMA AlongIs == ASSUME NEW w \in Word, NEW up PROVE Along(w, up) \in Word
BY StepWord DEF Along

LEMMA RegistersAfter ==
  ASSUME NEW r \in Registers, NEW k \in Kinds, NEW up
  PROVE  LET q == AfterRound(r, k, up)
         IN  /\ q \in Registers /\ q["a"] = r["a"]
             /\ Pair(q, "hl") = Along(Pair(r, "hl"), up)
             /\ k = "ld" => Pair(q, "de") = Along(Pair(r, "de"), up)
             /\ k \in {"ld", "cp"} => Pair(q, "bc") = Below(Pair(r, "bc"), 1)
             /\ k \in {"in", "ot"} => q.b = (r.b + 255) % 256
<1> DEFINE m == SetPair(r, "hl", Along(Pair(r, "hl"), up))
           n == SetPair(m, "de", Along(Pair(m, "de"), up))
           to == IF k = "ld" THEN n ELSE m
           q == AfterRound(r, k, up)
<1>1. "hl" \in Pairs /\ "de" \in Pairs /\ "bc" \in Pairs
  BY DEF Pairs
<1>2. /\ m \in Registers /\ Pair(m, "hl") = Along(Pair(r, "hl"), up) /\ Pair(m, "de") = Pair(r, "de")
      /\ Pair(m, "bc") = Pair(r, "bc") /\ m["a"] = r["a"] /\ m["b"] = r["b"]
  <2>1. PICK w \in Word : w = Along(Pair(r, "hl"), up)
    BY <1>1, PairIs, AlongIs
  <2> QED BY <1>1, <2>1, PairSet
<1>3. q = IF k \in {"ld", "cp"} THEN SetPair(to, "bc", Below(Pair(to, "bc"), 1))
          ELSE [m EXCEPT !.b = (m.b + 255) % 256]
  BY Zenon DEF AfterRound
<1> HIDE DEF m
<1>4. /\ n \in Registers /\ Pair(n, "hl") = Along(Pair(r, "hl"), up)
      /\ Pair(n, "de") = Along(Pair(r, "de"), up)
      /\ Pair(n, "bc") = Pair(r, "bc") /\ n["a"] = r["a"]
  <2>1. PICK w \in Word : w = Along(Pair(m, "de"), up)
    BY <1>1, <1>2, PairIs, AlongIs
  <2> QED BY <1>1, <1>2, <2>1, PairSet
<1> HIDE DEF n
<1>5. /\ to \in Registers /\ Pair(to, "hl") = Along(Pair(r, "hl"), up)
      /\ k = "ld" => Pair(to, "de") = Along(Pair(r, "de"), up)
      /\ Pair(to, "bc") = Pair(r, "bc") /\ to["a"] = r["a"]
  BY <1>2, <1>4
<1> HIDE DEF to, q
<1>6. CASE k \in {"ld", "cp"}
  <2>1. PICK w \in Word : w = Below(Pair(to, "bc"), 1)
    BY <1>1, <1>5, PairIs, StepWord
  <2>2. q = SetPair(to, "bc", w)
    BY <1>3, <1>6, <2>1
  <2>3. /\ q \in Registers /\ Pair(q, "bc") = w /\ q["a"] = to["a"]
        /\ Pair(q, "hl") = Pair(to, "hl") /\ Pair(q, "de") = Pair(to, "de")
    BY <1>1, <1>5, <2>2, PairSet
  <2> QED BY <1>5, <1>6, <2>1, <2>3 DEF q
<1>7. CASE k \in {"in", "ot"}
  <2>1. PICK b \in Byte : b = (m.b + 255) % 256
    <3>1. m.b \in Byte
      BY <1>2, RegistersAre
    <3> QED BY <3>1 DEF Byte
  <2>2. q = [m EXCEPT !.b = b]
    BY <1>3, <1>7, <2>1
  <2>3. q \in Registers /\ q.b = b /\ q["a"] = m["a"] /\ Pair(q, "hl") = Pair(m, "hl")
    BY <1>2, <2>2 DEF Registers, Pair, Halves
  <2> QED BY <1>2, <1>7, <2>1, <2>3 DEF q
<1> QED BY <1>6, <1>7 DEF Kinds

LEMMA FlagsAfter ==
  ASSUME NEW r \in Registers, NEW f \in Flags, NEW k \in Kinds, NEW q \in Registers, NEW m \in Byte
  PROVE  LET g == Told(r, f, k, q, m)
         IN  /\ g \in Flags
             /\ k = "ld" => g.p = Truth(Pair(q, "bc") > 0)
             /\ k = "cp" => g.c = f.c /\ g.p = Truth(Pair(q, "bc") # 0)
                            /\ g.z = subb(r.a, m, 0).f.z
<1> DEFINE g == Told(r, f, k, q, m)
<1>1. /\ Truth(Pair(q, "bc") > 0) \in 0 .. 1 /\ Truth(Pair(q, "bc") # 0) \in 0 .. 1
      /\ Truth(q.b = 0) \in 0 .. 1
  BY DEF Truth
<1>2. CASE k = "ld"
  <2>1. PICK p \in 0 .. 1 : p = Truth(Pair(q, "bc") > 0)
    BY <1>1
  <2>2. g = [f EXCEPT !.n = 0, !.h = 0, !.p = p]
    BY <1>2, <2>1, Zenon DEF Told
  <2>3. g \in Flags /\ g.p = p
    BY <2>2, FlagsAre DEF Flags
  <2> HIDE DEF g
  <2> QED BY <1>2, <2>1, <2>3 DEF g
<1>3. CASE k = "cp"
  <2>1. PICK p \in 0 .. 1 : p = Truth(Pair(q, "bc") # 0)
    BY <1>1
  <2>2. PICK t \in Flags : t = subb(r.a, m, 0).f
    <3>1. Good(subb(r.a, m, 0))
      BY RegistersAre, FlagsAre, SumsGood
    <3> QED BY <3>1 DEF Good
  <2>3. g = [t EXCEPT !.c = f.c, !.p = p]
    BY <1>3, <2>1, <2>2, Zenon DEF Told
  <2>4. g \in Flags /\ g.p = p /\ g.c = f.c /\ g.z = t.z
    BY <2>3 DEF Flags
  <2> HIDE DEF g
  <2> QED BY <1>3, <2>1, <2>2, <2>4 DEF g
<1>4. CASE k \in {"in", "ot"}
  <2>1. PICK p \in 0 .. 1 : p = Truth(q.b = 0)
    BY <1>1
  <2>2. g = [f EXCEPT !.z = p, !.n = 1]
    BY <1>4, <2>1, Zenon DEF Told
  <2>3. g \in Flags
    BY <2>2, FlagsAre DEF Flags
  <2> HIDE DEF g
  <2> QED BY <1>4, <2>3 DEF g
<1> QED BY <1>2, <1>3, <1>4 DEF Kinds

LEMMA Counted ==
  ASSUME NEW z \in Machine, NEW b, NEW t
  PROVE  [z EXCEPT !.r.b = b, !.f.z = t, !.f.n = 1]
           = [z EXCEPT !.r = [z.r EXCEPT !.b = b], !.f = [z.f EXCEPT !.z = t, !.n = 1]]
BY DEF Machine

LEMMA MoveIs ==
  ASSUME NEW z, NEW p, NEW up
  PROVE  /\ Move(z, p, up) = [z EXCEPT !.r = SetPair(z.r, p, Along(Pair(z.r, p), up))]
         /\ CountDown(z) = [z EXCEPT !.r = SetPair(z.r, "bc", Below(Pair(z.r, "bc"), 1))]
BY Zenon DEF Move, CountDown, Along

LEMMA BlockIs ==
  ASSUME Cells = Word, NEW y \in Machine, NEW k \in Kinds, NEW up
  PROVE  LET q == AfterRound(y.r, k, up)
             m == mem_read(y, Pair(y.r, "hl"))
         IN  Block(y, k, up) = Effect(y, k, q, Told(y.r, y.f, k, q, m), m)
<1> DEFINE q == AfterRound(y.r, k, up)
           m == mem_read(y, Pair(y.r, "hl"))
           g == Told(y.r, y.f, k, q, m)
<1>1. PICK r \in Registers, f \in Flags : r = y.r /\ f = y.f
  BY DEF Machine
<1>2. PICK h \in Word, d \in Word : h = Pair(r, "hl") /\ d = Pair(r, "de")
  BY PairIs DEF Pairs
<1>3. PICK v \in Byte : v = m
  BY <1>1, <1>2, MemIs
<1>4. PICK r1 \in Registers : r1 = SetPair(r, "hl", Along(h, up))
  BY <1>2, AlongIs, PairSet DEF Pairs
<1>5. CASE k = "ld"
  <2>1. PICK n \in [Cells -> Byte] : n = [y.ram EXCEPT ![d] = v]
    BY DEF Machine
  <2>2. PICK r2 : r2 = SetPair(r1, "de", Along(Pair(r1, "de"), up))
    OBVIOUS
  <2>3. PICK r3 : r3 = SetPair(r2, "bc", Below(Pair(r2, "bc"), 1))
    OBVIOUS
  <2>4. q = r3
    BY <1>1, <1>2, <1>4, <1>5, <2>2, <2>3 DEF AfterRound
  <2> DEFINE a == [y EXCEPT !.ram = n]
             b == [y EXCEPT !.ram = n, !.r = r1]
             c == [y EXCEPT !.ram = n, !.r = r2]
             e == [y EXCEPT !.ram = n, !.r = r3]
  <2>5. mem_write(y, d, v) = a /\ a.r = r
    BY <1>1, <2>1 DEF mem_write, Machine
  <2>6. Move(a, "hl", up) = b /\ b.r = r1
    <3> HIDE DEF a
    <3>1. Move(a, "hl", up) = [a EXCEPT !.r = SetPair(a.r, "hl", Along(Pair(a.r, "hl"), up))]
      BY MoveIs
    <3>2. Move(a, "hl", up) = [a EXCEPT !.r = r1]
      BY <1>2, <1>4, <2>5, <3>1
    <3> QED BY <3>2 DEF Machine, a
  <2>7. Move(b, "de", up) = c /\ c.r = r2
    <3> HIDE DEF b
    <3>1. Move(b, "de", up) = [b EXCEPT !.r = SetPair(b.r, "de", Along(Pair(b.r, "de"), up))]
      BY MoveIs
    <3>2. Move(b, "de", up) = [b EXCEPT !.r = r2]
      BY <2>2, <2>6, <3>1
    <3> QED BY <3>2 DEF Machine, b
  <2>8. CountDown(c) = e /\ e.r = r3 /\ e.f = f
    <3>1. CountDown(c) = [c EXCEPT !.r = r3]
      BY <2>3, <2>7, MoveIs
    <3> QED BY <1>1, <3>1 DEF Machine
  <2>9. PICK p : p = Truth(Pair(r3, "bc") > 0)
    OBVIOUS
  <2> HIDE DEF a, b, c
  <2>10. Copy(y, up) = [e EXCEPT !.f.n = 0, !.f.h = 0, !.f.p = p]
    <3> DEFINE final(x) == [x EXCEPT !.f.n = 0, !.f.h = 0, !.f.p = Truth(Pair(x.r, "bc") > 0)]
    <3>1. Copy(y, up) = final(CountDown(Move(Move(mem_write(y, Pair(y.r, "de"), m), "hl", up), "de", up)))
      BY Zenon DEF Copy
    <3>2. final(e) = [e EXCEPT !.f.n = 0, !.f.h = 0, !.f.p = p]
      BY <2>8, <2>9
    <3> HIDE DEF final, e
    <3>3. mem_write(y, Pair(y.r, "de"), m) = a
      BY <1>1, <1>2, <1>3, <2>5
    <3> QED BY <2>6, <2>7, <2>8, <3>1, <3>2, <3>3
  <2>11. [e EXCEPT !.f.n = 0, !.f.h = 0, !.f.p = p]
           = [e EXCEPT !.f = [f EXCEPT !.n = 0, !.h = 0, !.p = p]]
    BY <1>1, <2>8 DEF Machine
  <2>12. g = [f EXCEPT !.n = 0, !.h = 0, !.p = p]
    BY <1>1, <1>5, <2>4, <2>9, Zenon DEF Told
  <2>13. PICK u : u = g
    OBVIOUS
  <2>14. Effect(y, k, q, g, m) = [y EXCEPT !.r = r3, !.f = u, !.ram = n]
    BY <1>1, <1>2, <1>3, <1>5, <2>1, <2>4, <2>13 DEF Effect
  <2>15. [e EXCEPT !.f = u] = [y EXCEPT !.r = r3, !.f = u, !.ram = n]
    BY DEF Machine
  <2>16. Block(y, k, up) = [e EXCEPT !.f = u]
    BY <1>5, <2>10, <2>11, <2>12, <2>13 DEF Block
  <2> QED BY <2>14, <2>15, <2>16
<1>6. CASE k = "cp"
  <2>1. PICK r2 : r2 = SetPair(r1, "bc", Below(Pair(r1, "bc"), 1))
    OBVIOUS
  <2>2. q = r2
    BY <1>1, <1>2, <1>4, <1>6, <2>1 DEF AfterRound
  <2> DEFINE b == [y EXCEPT !.r = r1]
             e == [y EXCEPT !.r = r2]
  <2>3. Move(y, "hl", up) = b /\ b.r = r1
    <3>1. Move(y, "hl", up) = [y EXCEPT !.r = r1]
      BY <1>1, <1>2, <1>4, MoveIs
    <3> QED BY <3>1 DEF Machine
  <2>4. CountDown(b) = e /\ e.r = r2
    <3>1. CountDown(b) = [b EXCEPT !.r = r2]
      BY <2>1, <2>3, MoveIs
    <3> QED BY <3>1 DEF Machine
  <2>5. PICK u : u = [subb(r.a, v, 0).f EXCEPT !.c = f.c, !.p = Truth(Pair(r2, "bc") # 0)]
    OBVIOUS
  <2> HIDE DEF b
  <2>6. Compare(y, up) = [e EXCEPT !.f = u]
    <3> DEFINE final(x) == [x EXCEPT !.f = [subb(y.r.a, m, 0).f EXCEPT !.c = y.f.c,
                                           !.p = Truth(Pair(x.r, "bc") # 0)]]
    <3>1. Compare(y, up) = final(CountDown(Move(y, "hl", up)))
      BY Zenon DEF Compare
    <3>2. final(e) = [e EXCEPT !.f = u]
      BY <1>1, <1>3, <2>4, <2>5
    <3> HIDE DEF final, e
    <3> QED BY <2>3, <2>4, <3>1, <3>2
  <2>7. g = u
    BY <1>1, <1>3, <1>6, <2>2, <2>5, Zenon DEF Told
  <2>8. Effect(y, k, q, g, m) = [y EXCEPT !.r = r2, !.f = u]
    BY <1>6, <2>2, <2>7 DEF Effect
  <2>9. [e EXCEPT !.f = u] = [y EXCEPT !.r = r2, !.f = u]
    BY DEF Machine
  <2>10. Block(y, k, up) = [e EXCEPT !.f = u]
    BY <1>6, <2>6 DEF Block
  <2> QED BY <2>8, <2>9, <2>10
<1>7. CASE k \in {"in", "ot"}
  <2>1. PICK b : b = (r1.b + 255) % 256
    OBVIOUS
  <2>2. PICK r2 : r2 = [r1 EXCEPT !.b = b]
    OBVIOUS
  <2>3. q = r2
    BY <1>1, <1>2, <1>4, <1>7, <2>1, <2>2 DEF AfterRound
  <2>4. PICK u : u = [f EXCEPT !.z = Truth(b = 0), !.n = 1]
    OBVIOUS
  <2>5. g = u
    <3>1. r2.b = b
      BY <2>2 DEF Registers
    <3> QED BY <1>1, <1>7, <2>3, <2>4, <3>1, Zenon DEF Told
  <2>6. ASSUME NEW a \in Machine, a.r = r, a.f = f
        PROVE  CountB(Move(a, "hl", up)) = [a EXCEPT !.r = r2, !.f = u]
    <3> DEFINE x == [a EXCEPT !.r = r1]
    <3>1. Move(a, "hl", up) = x /\ x \in Machine /\ x.r = r1 /\ x.f = f
      <4>1. Move(a, "hl", up) = x
        BY <1>2, <1>4, <2>6, MoveIs
      <4> QED BY <2>6, <4>1 DEF Machine
    <3> HIDE DEF x
    <3>2. CountB(x) = [x EXCEPT !.r = r2, !.f = u]
      <4>1. PICK c : c = (x.r.b + 255) % 256
        OBVIOUS
      <4>2. PICK t : t = Truth(c = 0)
        OBVIOUS
      <4>3. CountB(x) = [x EXCEPT !.r.b = c, !.f.z = t, !.f.n = 1]
        BY <4>1, <4>2, Zenon DEF CountB
      <4>4. [x EXCEPT !.r.b = c, !.f.z = t, !.f.n = 1]
              = [x EXCEPT !.r = [x.r EXCEPT !.b = c], !.f = [x.f EXCEPT !.z = t, !.n = 1]]
        BY <3>1, Counted
      <4>5. c = b
        BY <2>1, <3>1, <4>1
      <4>6. x.r = r1 /\ x.f = f
        BY <3>1
      <4>7. u = [f EXCEPT !.z = t, !.n = 1]
        BY <2>4, <4>2, <4>5, Zenon
      <4> QED BY <2>2, <4>3, <4>4, <4>5, <4>6, <4>7
    <3>3. [x EXCEPT !.r = r2, !.f = u] = [a EXCEPT !.r = r2, !.f = u]
      BY DEF Machine, x
    <3> QED BY <3>1, <3>2, <3>3
  <2>7. CASE k = "in"
    <3>1. PICK w \in Byte : w = Gives(y.given)
      <4>1. PICK n \in Byte : n = y.given
        BY DEF Machine
      <4>2. Gives(n) \in Byte
        BY DEF Gives, Byte
      <4> QED BY <4>1, <4>2
    <3>2. PICK n \in [Cells -> Byte] : n = [y.ram EXCEPT ![h] = w]
      BY DEF Machine
    <3> DEFINE a == [y EXCEPT !.ram = n, !.given = w]
    <3>3. a \in Machine /\ a.r = r /\ a.f = f
      BY <1>1 DEF Machine
    <3>4. [mem_write(y, Pair(y.r, "hl"), Gives(y.given)) EXCEPT !.given = Gives(@)] = a
      <4>1. mem_write(y, Pair(y.r, "hl"), Gives(y.given)) = [y EXCEPT !.ram = n]
        BY <1>1, <1>2, <3>1, <3>2 DEF mem_write
      <4>2. [y EXCEPT !.ram = n].given = y.given
        BY DEF Machine
      <4> QED BY <3>1, <4>1, <4>2
    <3> HIDE DEF a
    <3>5. Block(y, k, up) = [a EXCEPT !.r = r2, !.f = u]
      <4>1. In(y, up) = CountB(Move(a, "hl", up))
        BY <3>4 DEF In
      <4> QED BY <2>6, <2>7, <3>3, <4>1 DEF Block
    <3>6. Effect(y, k, q, g, m) = [y EXCEPT !.r = r2, !.f = u, !.given = w, !.ram = n]
      BY <1>1, <1>2, <2>3, <2>5, <2>7, <3>1, <3>2 DEF Effect
    <3>7. [a EXCEPT !.r = r2, !.f = u] = [y EXCEPT !.r = r2, !.f = u, !.given = w, !.ram = n]
      BY DEF Machine, a
    <3> QED BY <3>5, <3>6, <3>7
  <2>8. CASE k = "ot"
    <3>1. PICK n \in Seq(Byte) : n = Append(y.out, v)
      <4>1. PICK s \in Seq(Byte) : s = y.out
        BY DEF Machine
      <4>2. Append(s, v) \in Seq(Byte)
        OBVIOUS
      <4> QED BY <4>1, <4>2
    <3> DEFINE a == [y EXCEPT !.out = n]
    <3>2. a \in Machine /\ a.r = r /\ a.f = f
      BY <1>1 DEF Machine
    <3>3. [y EXCEPT !.out = Append(@, m)] = a
      BY <1>3, <3>1
    <3> HIDE DEF a
    <3>4. Block(y, k, up) = [a EXCEPT !.r = r2, !.f = u]
      <4>1. Out(y, up) = CountB(Move(a, "hl", up))
        BY <3>3 DEF Out
      <4> QED BY <2>6, <2>8, <3>2, <4>1 DEF Block
    <3>5. Effect(y, k, q, g, m) = [y EXCEPT !.r = r2, !.f = u, !.out = n]
      BY <1>3, <2>3, <2>5, <2>8, <3>1 DEF Effect
    <3>6. [a EXCEPT !.r = r2, !.f = u] = [y EXCEPT !.r = r2, !.f = u, !.out = n]
      BY DEF Machine, a
    <3> QED BY <3>4, <3>5, <3>6
  <2> QED BY <1>7, <2>7, <2>8
<1> QED BY <1>5, <1>6, <1>7 DEF Kinds

\* The round of z: what it reads, and the registers, flags and next round it leads to.
ReadsAt(z) == mem_read(z, Pair(z.r, "hl"))
NewR(z, k, up) == AfterRound(z.r, k, up)
NewF(z, k, up) == Told(z.r, z.f, k, NewR(z, k, up), ReadsAt(z))
Due(z, k, up) == CASE k = "ld" -> Pair(NewR(z, k, up), "bc") # 0
                   [] k = "cp" -> Pair(NewR(z, k, up), "bc") # 0 /\ NewF(z, k, up).z = 0
                   [] k \in {"in", "ot"} -> NewR(z, k, up).b > 0
Round(z, k, up) == Effect(z, k, NewR(z, k, up), NewF(z, k, up), ReadsAt(z))

LEMMA RoundIs ==
  ASSUME Cells = Word, NEW z \in Machine, NEW k \in Kinds, NEW up
  PROVE  /\ ReadsAt(z) \in Byte /\ NewR(z, k, up) \in Registers /\ NewF(z, k, up) \in Flags
         /\ Block(z, k, up) = Round(z, k, up)
         /\ Round(z, k, up) \in Machine
         /\ Round(z, k, up).r = NewR(z, k, up) /\ Round(z, k, up).f = NewF(z, k, up)
         /\ Round(z, k, up).pc = z.pc /\ Round(z, k, up).cyc = z.cyc
<1>1. PICK r \in Registers, f \in Flags : r = z.r /\ f = z.f
  BY DEF Machine
<1>2. PICK h \in Word, d \in Word : h = Pair(r, "hl") /\ d = Pair(r, "de")
  BY PairIs DEF Pairs
<1>3. PICK m \in Byte : m = ReadsAt(z)
  BY <1>1, <1>2, MemIs DEF ReadsAt
<1>4. PICK q \in Registers : q = NewR(z, k, up)
  BY <1>1, RegistersAfter DEF NewR
<1>5. PICK g \in Flags : g = NewF(z, k, up)
  <2>1. Told(r, f, k, q, m) \in Flags
    BY FlagsAfter
  <2> QED BY <1>1, <1>3, <1>4, <2>1 DEF NewF
<1>6. Block(z, k, up) = Round(z, k, up)
  BY BlockIs DEF Round, NewF, NewR, ReadsAt
<1> DEFINE y == Round(z, k, up)
<1>7. y = Effect(z, k, q, g, m)
  BY <1>3, <1>4, <1>5 DEF Round
<1>8. y \in Machine /\ y.r = q /\ y.f = g /\ y.pc = z.pc /\ y.cyc = z.cyc
  <2>1. CASE k = "ld"
    <3>1. PICK n \in [Cells -> Byte] : n = [z.ram EXCEPT ![d] = m]
      BY DEF Machine
    <3>2. y = [z EXCEPT !.r = q, !.f = g, !.ram = n]
      BY <1>1, <1>2, <1>7, <2>1, <3>1 DEF Effect
    <3> HIDE DEF y
    <3> QED BY <3>2 DEF Machine
  <2>2. CASE k = "cp"
    <3>1. y = [z EXCEPT !.r = q, !.f = g]
      BY <1>7, <2>2 DEF Effect
    <3> HIDE DEF y
    <3> QED BY <3>1 DEF Machine
  <2>3. CASE k = "in"
    <3>1. PICK w \in Byte : w = Gives(z.given)
      <4>1. PICK n \in Byte : n = z.given
        BY DEF Machine
      <4>2. Gives(n) \in Byte
        BY DEF Gives, Byte
      <4> QED BY <4>1, <4>2
    <3>2. PICK n \in [Cells -> Byte] : n = [z.ram EXCEPT ![h] = w]
      BY DEF Machine
    <3>3. y = [z EXCEPT !.r = q, !.f = g, !.given = w, !.ram = n]
      BY <1>1, <1>2, <1>7, <2>3, <3>1, <3>2 DEF Effect
    <3> HIDE DEF y
    <3> QED BY <3>3 DEF Machine
  <2>4. CASE k = "ot"
    <3>1. PICK n \in Seq(Byte) : n = Append(z.out, m)
      <4>1. PICK s \in Seq(Byte) : s = z.out
        BY DEF Machine
      <4>2. Append(s, m) \in Seq(Byte)
        OBVIOUS
      <4> QED BY <4>1, <4>2
    <3>2. y = [z EXCEPT !.r = q, !.f = g, !.out = n]
      BY <1>7, <2>4, <3>1 DEF Effect
    <3> HIDE DEF y
    <3> QED BY <3>2 DEF Machine
  <2> QED BY <2>1, <2>2, <2>3, <2>4 DEF Kinds
<1> HIDE DEF y
<1> QED BY <1>3, <1>4, <1>5, <1>6, <1>8 DEF y

\* The instruction as a whole.
Ahead(z, i) == LET a == Above(z.pc, i.len)
               IN  IF i.op = "repeat" /\ Due(z, i.k, i.v = 1) THEN Below(a, 2) ELSE a
Costs(z, i) == IF i.op = "repeat" /\ Due(z, i.k, i.v = 1) /\ ~ (i.k = "ot" /\ i.v # 1) THEN 21 ELSE 16

LEMMA BlockRuns ==
  ASSUME Cells = Word, NEW z \in Machine, NEW i, WellFormed(i), i.op \in Blocks
  PROVE  /\ exec_opcode(z, i) = [Round(z, i.k, i.v = 1) EXCEPT !.pc = Ahead(z, i),
                                                               !.cyc = z.cyc + Costs(z, i)]
         /\ exec_opcode(z, i) \in Machine /\ i.k \in Kinds /\ Ahead(z, i) \in Word
<1> DEFINE k == i.k
<1>1. k \in Kinds
  BY DEF WellFormed, Kinds
<1>2. PICK up : up = (i.v = 1)
  OBVIOUS
<1>3. PICK a \in Word : a = Above(z.pc, i.len)
  <2>1. z.pc \in Word /\ i.len \in 0 .. 4
    BY DEF Machine, WellFormed
  <2> QED BY <2>1, AboveIs
<1>4. PICK b \in Word : b = Below(a, 2)
  BY AboveIs
<1>5. PICK n \in Nat : n = z.cyc
  BY DEF Machine
<1> DEFINE x == [z EXCEPT !.pc = a]
           y == Round(z, k, up)
           u == Round(x, k, up)
<1>6. x \in Machine /\ x.r = z.r /\ x.f = z.f /\ x.ram = z.ram /\ x.romOut = z.romOut /\ x.cyc = n
      /\ x.pc = a /\ x.given = z.given /\ x.out = z.out
  BY <1>5 DEF Machine
<1>7. /\ y \in Machine /\ y.r = NewR(z, k, up) /\ y.f = NewF(z, k, up) /\ y.cyc = n
  BY <1>1, <1>5, RoundIs
<1>8. u = [y EXCEPT !.pc = a]
  <2>1. ReadsAt(x) = ReadsAt(z)
    BY <1>6 DEF ReadsAt, mem_read
  <2>2. NewR(x, k, up) = NewR(z, k, up) /\ NewF(x, k, up) = NewF(z, k, up)
    BY <1>6, <2>1 DEF NewR, NewF
  <2>3. PICK q, g, m : q = NewR(z, k, up) /\ g = NewF(z, k, up) /\ m = ReadsAt(z)
    OBVIOUS
  <2>4. u = Effect(x, k, q, g, m) /\ y = Effect(z, k, q, g, m)
    BY <2>1, <2>2, <2>3 DEF Round
  <2>5. PICK c, e, w, o : /\ c = [z.ram EXCEPT ![Pair(z.r, "de")] = m] /\ w = Gives(z.given)
                         /\ e = [z.ram EXCEPT ![Pair(z.r, "hl")] = w] /\ o = Append(z.out, m)
    OBVIOUS
  <2>6. Effect(x, k, q, g, m) =
          CASE k = "ld" -> [x EXCEPT !.r = q, !.f = g, !.ram = c]
            [] k = "cp" -> [x EXCEPT !.r = q, !.f = g]
            [] k = "in" -> [x EXCEPT !.r = q, !.f = g, !.given = w, !.ram = e]
            [] k = "ot" -> [x EXCEPT !.r = q, !.f = g, !.out = o]
    <3> HIDE DEF x
    <3> QED BY <1>1, <1>6, <2>5 DEF Effect, Kinds
  <2>7. Effect(z, k, q, g, m) =
          CASE k = "ld" -> [z EXCEPT !.r = q, !.f = g, !.ram = c]
            [] k = "cp" -> [z EXCEPT !.r = q, !.f = g]
            [] k = "in" -> [z EXCEPT !.r = q, !.f = g, !.given = w, !.ram = e]
            [] k = "ot" -> [z EXCEPT !.r = q, !.f = g, !.out = o]
    BY <1>1, <2>5 DEF Effect, Kinds
  <2> HIDE DEF u, y, k
  <2>8. /\ [x EXCEPT !.r = q, !.f = g, !.ram = c] = [[z EXCEPT !.r = q, !.f = g, !.ram = c] EXCEPT !.pc = a]
        /\ [x EXCEPT !.r = q, !.f = g] = [[z EXCEPT !.r = q, !.f = g] EXCEPT !.pc = a]
        /\ [x EXCEPT !.r = q, !.f = g, !.given = w, !.ram = e]
             = [[z EXCEPT !.r = q, !.f = g, !.given = w, !.ram = e] EXCEPT !.pc = a]
        /\ [x EXCEPT !.r = q, !.f = g, !.out = o] = [[z EXCEPT !.r = q, !.f = g, !.out = o] EXCEPT !.pc = a]
    BY DEF Machine
  <2> QED BY <1>1, <2>4, <2>6, <2>7, <2>8 DEF Kinds
<1>9. exec_opcode(z, i) = ExecControl(x, i) /\ Block(x, k, up) = u
  <2>1. i.op \notin Loads \cup Arithmetic \cup Bits
    BY DEF Blocks, Loads, Arithmetic, Bits
  <2>2. exec_opcode(z, i) = ExecControl(x, i)
    BY <1>3, <2>1, Fetched
  <2> QED BY <1>1, <1>6, <2>2, RoundIs
<1> HIDE DEF x, y, u, k
<1>10. u.r = NewR(z, k, up) /\ u.f = NewF(z, k, up) /\ u.pc = a /\ u.cyc = n /\ u \in Machine
  BY <1>7, <1>8 DEF Machine
<1>11. More(u, k) <=> Due(z, k, up)
  BY <1>1, <1>10 DEF More, Due, Kinds
<1>12. PICK c \in Nat : c = n + Costs(z, i)
  BY DEF Costs
<1>13. ASSUME exec_opcode(z, i) = [y EXCEPT !.pc = Ahead(z, i), !.cyc = c], Ahead(z, i) \in Word
       PROVE  exec_opcode(z, i) \in Machine
  BY <1>7, <1>13 DEF Machine
<1>14. CASE i.op = "repeat" /\ Due(z, k, up)
  <2>1. PICK e \in Nat : e = n + (IF k = "ot" /\ ~ up THEN 0 ELSE 5)
    BY <1>5
  <2>2. Repeat(x, k, up) = [u EXCEPT !.pc = b, !.cyc = e]
    BY <1>4, <1>9, <1>10, <1>11, <1>14, <2>1 DEF Repeat
  <2>3. exec_opcode(z, i) = [[u EXCEPT !.pc = b, !.cyc = e] EXCEPT !.cyc = e + 16]
    <3>1. exec_opcode(z, i) = [Repeat(x, k, up) EXCEPT !.cyc = Repeat(x, k, up).cyc + 16]
      BY <1>2, <1>9, <1>14 DEF ExecControl, k
    <3>2. [u EXCEPT !.pc = b, !.cyc = e].cyc = e
      BY <1>10 DEF Machine
    <3> QED BY <2>2, <3>1, <3>2
  <2>4. e + 16 = c
    <3>1. Costs(z, i) = IF k = "ot" /\ ~ up THEN 16 ELSE 21
      <4>1. Due(z, i.k, i.v = 1)
        BY <1>2, <1>14, Zenon DEF k
      <4>2. i.v # 1 <=> ~ up
        BY <1>2
      <4> QED BY <1>14, <4>1, <4>2, Zenon DEF Costs, k
    <3> QED BY <1>12, <2>1, <3>1
  <2>5. exec_opcode(z, i) = [[[y EXCEPT !.pc = a] EXCEPT !.pc = b, !.cyc = e] EXCEPT !.cyc = c]
    BY <1>8, <2>3, <2>4
  <2>6. [[[y EXCEPT !.pc = a] EXCEPT !.pc = b, !.cyc = e] EXCEPT !.cyc = c] = [y EXCEPT !.pc = b, !.cyc = c]
    BY <1>7 DEF Machine
  <2>7. Ahead(z, i) = b
    BY <1>2, <1>3, <1>4, <1>14 DEF Ahead, k
  <2> QED BY <1>1, <1>2, <1>5, <1>12, <1>13, <2>5, <2>6, <2>7 DEF y, k
<1>15. CASE ~ (i.op = "repeat" /\ Due(z, k, up))
  <2>1. exec_opcode(z, i) = [u EXCEPT !.cyc = n + 16]
    <3>1. i.op = "repeat" => Repeat(x, k, up) = u
      BY <1>9, <1>11, <1>15 DEF Repeat
    <3>2. CASE i.op = "repeat"
      BY <1>2, <1>9, <1>10, <3>1, <3>2 DEF ExecControl, k
    <3>3. CASE i.op = "block"
      BY <1>2, <1>9, <1>10, <3>3 DEF ExecControl, k
    <3> QED BY <3>2, <3>3 DEF Blocks
  <2>2. n + 16 = c
    BY <1>2, <1>12, <1>15 DEF Costs, k
  <2>3. exec_opcode(z, i) = [[y EXCEPT !.pc = a] EXCEPT !.cyc = c]
    BY <1>8, <2>1, <2>2
  <2>4. [[y EXCEPT !.pc = a] EXCEPT !.cyc = c] = [y EXCEPT !.pc = a, !.cyc = c]
    BY <1>7 DEF Machine
  <2>5. Ahead(z, i) = a
    BY <1>2, <1>3, <1>15 DEF Ahead, k
  <2> QED BY <1>1, <1>2, <1>5, <1>12, <1>13, <2>3, <2>4, <2>5 DEF y, k
<1> QED BY <1>14, <1>15

\* A round writes at most one byte, where HL or DE points.
LEMMA RoundVeils ==
  ASSUME Cells = Word, NEW z \in Machine, NEW k \in Kinds, NEW up,
         Pair(z.r, "hl") \notin Stack, k = "ld" => Pair(z.r, "de") \notin Stack
  PROVE  /\ Round(Veil(z), k, up) = Veil(Round(z, k, up))
         /\ Due(Veil(z), k, up) = Due(z, k, up)
<1>1. PICK r \in Registers, f \in Flags : r = z.r /\ f = z.f
  BY DEF Machine
<1>2. PICK h \in Word, d \in Word : h = Pair(r, "hl") /\ d = Pair(r, "de")
  BY PairIs DEF Pairs
<1>3. PICK n \in [Cells -> Byte] : n = z.ram
  BY DEF Machine
<1>4. PICK c \in [Cells -> Byte] : c = Hidden(n)
  BY HiddenIs
<1> DEFINE v == Veil(z)
<1>5. v = [z EXCEPT !.ram = c, !.request = FALSE] /\ v \in Machine
  BY <1>3, <1>4, VeilIs
<1>6. v.r = r /\ v.f = f /\ v.ram = c /\ v.given = z.given /\ v.out = z.out
  BY <1>1, <1>5 DEF Machine
<1>7. ReadsAt(v) = ReadsAt(z)
  <2>1. mem_read(v, h) = mem_read(z, h)
    BY <1>1, <1>2, VeilIs
  <2> QED BY <1>1, <1>2, <1>6, <2>1 DEF ReadsAt
<1> HIDE DEF v
<1>8. NewR(v, k, up) = NewR(z, k, up)
  BY <1>1, <1>6 DEF NewR
<1>9. NewF(v, k, up) = NewF(z, k, up)
  BY <1>1, <1>6, <1>7, <1>8 DEF NewF
<1>10. Due(v, k, up) = Due(z, k, up)
  BY <1>8, <1>9 DEF Due
<1>11. PICK q \in Registers, g \in Flags, m \in Byte :
         q = NewR(z, k, up) /\ g = NewF(z, k, up) /\ m = ReadsAt(z)
  BY RoundIs
<1> DEFINE y == Effect(z, k, q, g, m)
<1>12. Round(v, k, up) = Effect(v, k, q, g, m) /\ Round(z, k, up) = y /\ y \in Machine
  BY <1>7, <1>8, <1>9, <1>11, RoundIs DEF Round
<1>13. Effect(v, k, q, g, m) = Veil(y)
  <2>1. CASE k = "ld"
    <3>1. PICK a \in [Cells -> Byte] : a = [n EXCEPT ![d] = m]
      OBVIOUS
    <3>2. PICK b \in [Cells -> Byte] : b = [c EXCEPT ![d] = m]
      OBVIOUS
    <3>3. b = Hidden(a)
      <4>1. Hidden([n EXCEPT ![d] = m]) = [Hidden(n) EXCEPT ![d] = m]
        <5>1. d \notin Stack
          BY <1>1, <1>2, <2>1
        <5> QED BY <5>1, HiddenPut
      <4> QED BY <1>4, <3>1, <3>2, <4>1
    <3>4. y = [z EXCEPT !.r = q, !.f = g, !.ram = a]
      BY <1>1, <1>2, <1>3, <2>1, <3>1 DEF Effect
    <3>5. Effect(v, k, q, g, m) = [v EXCEPT !.r = q, !.f = g, !.ram = b]
      BY <1>2, <1>6, <2>1, <3>2 DEF Effect
    <3> HIDE DEF y
    <3>6. Veil(y) = [y EXCEPT !.ram = b, !.request = FALSE]
      <4>1. y.ram = a
        BY <3>4 DEF Machine
      <4> QED BY <1>12, <3>3, <4>1, VeilIs
    <3>7. [[z EXCEPT !.r = q, !.f = g, !.ram = a] EXCEPT !.ram = b, !.request = FALSE]
            = [[z EXCEPT !.ram = c, !.request = FALSE] EXCEPT !.r = q, !.f = g, !.ram = b]
      BY DEF Machine
    <3> QED BY <1>5, <3>4, <3>5, <3>6, <3>7
  <2>2. CASE k = "cp"
    <3>4. y = [z EXCEPT !.r = q, !.f = g]
      BY <2>2 DEF Effect
    <3>5. Effect(v, k, q, g, m) = [v EXCEPT !.r = q, !.f = g]
      BY <2>2 DEF Effect
    <3> HIDE DEF y
    <3>6. Veil(y) = [y EXCEPT !.ram = c, !.request = FALSE]
      <4>1. y.ram = n
        BY <1>3, <3>4 DEF Machine
      <4> QED BY <1>4, <1>12, <4>1, VeilIs
    <3>7. [[z EXCEPT !.r = q, !.f = g] EXCEPT !.ram = c, !.request = FALSE]
            = [[z EXCEPT !.ram = c, !.request = FALSE] EXCEPT !.r = q, !.f = g]
      BY DEF Machine
    <3> QED BY <1>5, <3>4, <3>5, <3>6, <3>7
  <2>3. CASE k = "in"
    <3>1. PICK w \in Byte : w = Gives(z.given)
      <4>1. PICK b \in Byte : b = z.given
        BY DEF Machine
      <4>2. Gives(b) \in Byte
        BY DEF Gives, Byte
      <4> QED BY <4>1, <4>2
    <3>2. PICK a \in [Cells -> Byte] : a = [n EXCEPT ![h] = w]
      OBVIOUS
    <3>3. PICK b \in [Cells -> Byte] : b = [c EXCEPT ![h] = w]
      OBVIOUS
    <3>4. b = Hidden(a)
      <4>1. Hidden([n EXCEPT ![h] = w]) = [Hidden(n) EXCEPT ![h] = w]
        <5>1. h \notin Stack
          BY <1>1, <1>2
        <5> QED BY <5>1, HiddenPut
      <4> QED BY <1>4, <3>2, <3>3, <4>1
    <3>5. y = [z EXCEPT !.r = q, !.f = g, !.given = w, !.ram = a]
      BY <1>1, <1>2, <1>3, <2>3, <3>1, <3>2 DEF Effect
    <3>6. Effect(v, k, q, g, m) = [v EXCEPT !.r = q, !.f = g, !.given = w, !.ram = b]
      BY <1>2, <1>6, <2>3, <3>1, <3>3 DEF Effect
    <3> HIDE DEF y
    <3>7. Veil(y) = [y EXCEPT !.ram = b, !.request = FALSE]
      <4>1. y.ram = a
        BY <3>5 DEF Machine
      <4> QED BY <1>12, <3>4, <4>1, VeilIs
    <3>8. [[z EXCEPT !.r = q, !.f = g, !.given = w, !.ram = a] EXCEPT !.ram = b, !.request = FALSE]
            = [[z EXCEPT !.ram = c, !.request = FALSE] EXCEPT !.r = q, !.f = g, !.given = w, !.ram = b]
      BY DEF Machine
    <3> QED BY <1>5, <3>5, <3>6, <3>7, <3>8
  <2>4. CASE k = "ot"
    <3>1. PICK w : w = Append(z.out, m)
      OBVIOUS
    <3>4. y = [z EXCEPT !.r = q, !.f = g, !.out = w]
      BY <2>4, <3>1 DEF Effect
    <3>5. Effect(v, k, q, g, m) = [v EXCEPT !.r = q, !.f = g, !.out = w]
      BY <1>6, <2>4, <3>1 DEF Effect
    <3> HIDE DEF y
    <3>6. Veil(y) = [y EXCEPT !.ram = c, !.request = FALSE]
      <4>1. y.ram = n
        BY <1>3, <3>4 DEF Machine
      <4> QED BY <1>4, <1>12, <4>1, VeilIs
    <3>7. [[z EXCEPT !.r = q, !.f = g, !.out = w] EXCEPT !.ram = c, !.request = FALSE]
            = [[z EXCEPT !.ram = c, !.request = FALSE] EXCEPT !.r = q, !.f = g, !.out = w]
      BY DEF Machine
    <3> QED BY <1>5, <3>4, <3>5, <3>6, <3>7
  <2> QED BY <2>1, <2>2, <2>3, <2>4 DEF Kinds
<1> HIDE DEF y
<1> QED BY <1>10, <1>12, <1>13 DEF v

LEMMA BlockVeils ==
  ASSUME Cells = Word, NEW z \in Machine, NEW i, WellFormed(i), i.op \in Blocks
  PROVE  Veils(z, i)
<1>1. PICK up : up = (i.v = 1)
  OBVIOUS
<1>2. PICK p, c : p \in Word /\ p = Ahead(z, i) /\ c = z.cyc + Costs(z, i)
  BY BlockRuns
<1> DEFINE y == Round(z, i.k, up)
<1>3. exec_opcode(z, i) = [y EXCEPT !.pc = p, !.cyc = c] /\ exec_opcode(z, i) \in Machine /\ i.k \in Kinds
  BY <1>1, <1>2, BlockRuns
<1>4. y \in Machine
  BY <1>3, RoundIs
<1>5. ASSUME \A x \in Pointers(i) : Pair(z.r, x) \notin Stack
      PROVE  exec_opcode(Veil(z), i) = Veil(exec_opcode(z, i))
  <2>1. Pair(z.r, "hl") \notin Stack /\ (i.k = "ld" => Pair(z.r, "de") \notin Stack)
    BY <1>5 DEF Pointers
  <2>2. Round(Veil(z), i.k, up) = Veil(y) /\ Due(Veil(z), i.k, up) = Due(z, i.k, up)
    BY <1>3, <2>1, RoundVeils
  <2>3. Veil(z) \in Machine /\ Veil(z).pc = z.pc /\ Veil(z).cyc = z.cyc
    <3>1. PICK n : n = Hidden(z.ram)
      OBVIOUS
    <3>2. Veil(z) = [z EXCEPT !.ram = n, !.request = FALSE] /\ Veil(z) \in Machine
      BY <3>1, VeilIs
    <3> QED BY <3>2 DEF Machine
  <2>4. Due(Veil(z), i.k, i.v = 1) = Due(z, i.k, i.v = 1)
    BY <1>1, <2>2, Zenon
  <2>5. Ahead(Veil(z), i) = p
    BY <1>2, <2>3, <2>4, Zenon DEF Ahead
  <2>6. Veil(z).cyc + Costs(Veil(z), i) = c
    BY <1>2, <2>3, <2>4, Zenon DEF Costs
  <2>7. exec_opcode(Veil(z), i) = [Veil(y) EXCEPT !.pc = p, !.cyc = c]
    <3>1. exec_opcode(Veil(z), i) = [Round(Veil(z), i.k, i.v = 1) EXCEPT !.pc = Ahead(Veil(z), i),
                                                         !.cyc = Veil(z).cyc + Costs(Veil(z), i)]
      BY <2>3, BlockRuns
    <3>2. Round(Veil(z), i.k, i.v = 1) = Veil(y)
      BY <1>1, <2>2, Zenon
    <3> QED BY <2>5, <2>6, <3>1, <3>2
  <2> HIDE DEF y
  <2>8. PICK n : n = Hidden(y.ram)
    OBVIOUS
  <2>9. Veil(y) = [y EXCEPT !.ram = n, !.request = FALSE]
    BY <1>4, <2>8, VeilIs
  <2>10. exec_opcode(z, i).ram = y.ram
    BY <1>3, <1>4 DEF Machine
  <2>11. Veil(exec_opcode(z, i)) = [[y EXCEPT !.pc = p, !.cyc = c] EXCEPT !.ram = n, !.request = FALSE]
    BY <1>3, <2>8, <2>10, VeilIs
  <2>12. [[y EXCEPT !.pc = p, !.cyc = c] EXCEPT !.ram = n, !.request = FALSE]
           = [[y EXCEPT !.ram = n, !.request = FALSE] EXCEPT !.pc = p, !.cyc = c]
    BY <1>4 DEF Machine
  <2> QED BY <2>7, <2>9, <2>11, <2>12
<1> QED BY <1>3, <1>5 DEF Veils

-----------------------------------------------------------------------------
\* The stack: pushes, pops, RETI and an interrupt.

\* Push and pop as changes of the struct.
Pushed(z, l, h) == [z EXCEPT !.sp = z.sp - 2,
                             !.ram = [z.ram EXCEPT ![z.sp - 2] = l, ![z.sp - 1] = h]]

LEMMA PushIs ==
  ASSUME Cells = Word, NEW z \in Machine, 2 <= z.sp, NEW l \in Byte, NEW h \in Byte
  PROVE  pushw(z, 256 * h + l) = Pushed(z, l, h) /\ Pushed(z, l, h) \in Machine
<1>1. PICK s \in Int : s = z.sp /\ 2 <= s /\ s <= 65535
  BY WordIs DEF Machine
<1>2. (256 * h + l) % 256 = l /\ (256 * h + l) \div 256 = h
  <2>1. l \in Int /\ 0 <= l /\ l <= 255 /\ h \in Int /\ 0 <= h /\ h <= 255
    BY ByteIs
  <2> QED BY <2>1, Z3
<1>3. s - 2 \in Word /\ s - 1 \in Word /\ Below(s, 2) = s - 2 /\ Above(s - 2, 1) = s - 1
  <2>1. s - 2 \in Int /\ 0 <= s - 2 /\ s - 2 <= 65535 /\ (s - 2) + 1 = s - 1 /\ 1 \in 0 .. 4
        /\ (s - 2) + 1 <= 65535 /\ 0 <= s
    BY <1>1
  <2> QED BY <1>1, <2>1, Wraps, WordIs
<1> DEFINE With(a, b, c, d) == [z EXCEPT !.sp = a, !.ram = [z.ram EXCEPT ![a] = b, ![c] = d]]
<1>4. PICK w : w = 256 * h + l
  OBVIOUS
<1>5. pushw(z, w) = With(Below(z.sp, 2), w % 256, Above(Below(z.sp, 2), 1), w \div 256)
  BY DEF pushw
<1>6. With(s - 2, l, s - 1, h) = Pushed(z, l, h)
  BY <1>1 DEF Pushed
<1>7. PICK m \in [Cells -> Byte] : m = [z.ram EXCEPT ![s - 2] = l, ![s - 1] = h]
  BY DEF Machine
<1>8. Pushed(z, l, h) \in Machine
  <2>1. Pushed(z, l, h) = [z EXCEPT !.sp = s - 2, !.ram = m]
    BY <1>1, <1>7 DEF Pushed
  <2> QED BY <1>3, <2>1 DEF Machine
<1> HIDE DEF With
<1>9. pushw(z, w) = With(s - 2, l, s - 1, h)
  BY <1>1, <1>2, <1>3, <1>4, <1>5
<1> QED BY <1>4, <1>6, <1>8, <1>9

\* A word of the RAM.
LEMMA WordRead ==
  ASSUME Cells = Word, NEW z \in Machine, NEW x \in Int, RomSize <= x, x <= 65534
  PROVE  rw(z, x) = z.ram[x] + 256 * z.ram[x + 1] /\ rw(z, x) \in Word
<1>1. RomSize \in Int /\ 0 <= RomSize
  BY AddressAssumption
<1>2. x \in Int /\ 0 <= x /\ x <= 65535 /\ x + 1 <= 65535 /\ 1 \in 0 .. 4 /\ x + 1 \in Int /\ 0 <= x + 1
      /\ ~ x < RomSize /\ ~ x + 1 < RomSize
  BY <1>1
<1>3. Above(x, 1) = x + 1 /\ x \in Word /\ x + 1 \in Word
  BY <1>2, Wraps, WordIs
<1>4. mem_read(z, x) = z.ram[x] /\ mem_read(z, x + 1) = z.ram[x + 1]
  BY <1>2 DEF mem_read
<1>5. PICK l \in Byte, h \in Byte : l = z.ram[x] /\ h = z.ram[x + 1]
  BY <1>3 DEF Machine
<1>6. l + 256 * h \in Word
  <2>1. l + 256 * h \in Int /\ 0 <= l + 256 * h /\ l + 256 * h <= 65535
    BY ByteIs
  <2> QED BY <2>1, WordIs
<1>7. rw(z, x) = l + 256 * h
  BY <1>3, <1>4, <1>5 DEF rw
<1> QED BY <1>5, <1>6, <1>7

LEMMA SetFIs ==
  ASSUME NEW v \in Int
  PROVE  SetF(v) \in Flags
<1>1. /\ Bit(v, 7) \in {0, 1} /\ Bit(v, 6) \in {0, 1} /\ Bit(v, 4) \in {0, 1}
      /\ Bit(v, 2) \in {0, 1} /\ Bit(v, 1) \in {0, 1} /\ Bit(v, 0) \in {0, 1}
  BY Z3 DEF Bit
<1> QED BY <1>1 DEF SetF, Flags

LEMMA GetFIs ==
  ASSUME NEW f \in Flags
  PROVE  GetF(f) \in Byte
<1>1. PICK a \in 0 .. 1, b \in 0 .. 1, h \in 0 .. 1, d \in 0 .. 1, e \in 0 .. 1, g \in 0 .. 1 :
        f = [s |-> a, z |-> b, h |-> h, p |-> d, n |-> e, c |-> g]
  BY DEF Flags
<1>2. GetF(f) = 128 * a + 64 * b + 16 * h + 4 * d + 2 * e + g
  BY <1>1 DEF GetF
<1>3. PICK v \in Int : v = 128 * a + 64 * b + 16 * h + 4 * d + 2 * e + g /\ 0 <= v /\ v <= 255
  OBVIOUS
<1> QED BY <1>2, <1>3, ByteIs

\* A word in two bytes.
LEMMA Split ==
  ASSUME NEW w \in Word
  PROVE  w \div 256 \in Byte /\ w % 256 \in Byte /\ w = 256 * (w \div 256) + (w % 256)
<1>1. w \in Int /\ 0 <= w /\ w <= 65535
  BY WordIs
<1>2. PICK h \in Int, l \in Int : h = w \div 256 /\ l = w % 256
  BY <1>1
<1>3. 0 <= h /\ h <= 255 /\ 0 <= l /\ l <= 255 /\ w = 256 * h + l
  BY <1>1, <1>2, Z3
<1> QED BY <1>2, <1>3, ByteIs

\* PUSH AF and PUSH.
GrowsTo(z, i, y) ==
  \E p \in Word, l \in Byte, h \in Byte :
    /\ y = [z EXCEPT !.pc = p, !.sp = z.sp - 2,
                     !.ram = [z.ram EXCEPT ![z.sp - 2] = l, ![z.sp - 1] = h]]
    /\ i.op = "pushaf" => l = GetF(z.f) /\ h = z.r.a
    /\ i.op = "push" => 256 * h + l = Pair(z.r, i.x)

LEMMA GrowsIs ==
  ASSUME Cells = Word, NEW z \in Machine, 2 <= z.sp, NEW i, WellFormed(i), i.op \in Grows
  PROVE  GrowsTo(z, i, exec_opcode(z, i)) /\ exec_opcode(z, i) \in Machine
<1>1. PICK p \in Word : p = Above(z.pc, i.len)
  <2>1. z.pc \in Word /\ i.len \in 0 .. 4
    BY DEF Machine, WellFormed
  <2> QED BY <2>1, AboveIs
<1> DEFINE x == [z EXCEPT !.pc = p]
<1>2. x \in Machine /\ x.sp = z.sp /\ x.r = z.r /\ x.f = z.f /\ x.ram = z.ram
  BY DEF Machine
<1>3. exec_opcode(z, i) = ExecLoad(x, i)
  <2>1. i.op \in Loads
    BY DEF Loads, Grows
  <2> QED BY <1>1, <2>1, Fetched
<1> HIDE DEF x
<1>4. PICK l \in Byte, h \in Byte :
        /\ exec_opcode(z, i) = pushw(x, 256 * h + l)
        /\ i.op = "pushaf" => l = GetF(z.f) /\ h = z.r.a
        /\ i.op = "push" => 256 * h + l = Pair(z.r, i.x)
  <2>1. CASE i.op = "pushaf"
    <3>1. z.r.a \in Byte /\ GetF(z.f) \in Byte
      BY RegistersAre, GetFIs DEF Machine
    <3>2. exec_opcode(z, i) = pushw(x, 256 * z.r.a + GetF(z.f))
      BY <1>2, <1>3, <2>1 DEF ExecLoad
    <3> QED BY <2>1, <3>1, <3>2
  <2>2. CASE i.op = "push"
    <3>1. PICK w \in Word : w = Pair(z.r, i.x)
      BY <2>2, PairIs DEF Machine, WellFormed
    <3>2. exec_opcode(z, i) = pushw(x, w)
      BY <1>2, <1>3, <2>2, <3>1 DEF ExecLoad
    <3>3. PICK l \in Byte, h \in Byte : w = 256 * h + l
      BY Split
    <3> QED BY <2>2, <3>1, <3>2, <3>3
  <2> QED BY <2>1, <2>2 DEF Grows
<1>5. exec_opcode(z, i) = Pushed(x, l, h) /\ Pushed(x, l, h) \in Machine
  BY <1>2, <1>4, PushIs
<1>6. PICK s, m : s = z.sp - 2 /\ m = [z.ram EXCEPT ![z.sp - 2] = l, ![z.sp - 1] = h]
  OBVIOUS
<1>7. Pushed(x, l, h) = [x EXCEPT !.sp = s, !.ram = m]
  BY <1>2, <1>6 DEF Pushed
<1>8. [x EXCEPT !.sp = s, !.ram = m] = [z EXCEPT !.pc = p, !.sp = s, !.ram = m]
  BY DEF Machine, x
<1>9. exec_opcode(z, i) = [z EXCEPT !.pc = p, !.sp = z.sp - 2,
                     !.ram = [z.ram EXCEPT ![z.sp - 2] = l, ![z.sp - 1] = h]]
  BY <1>5, <1>6, <1>7, <1>8
<1> QED BY <1>4, <1>5, <1>9 DEF GrowsTo

\* The stack is in the RAM, and holds a word.
Holds(z) == RomSize <= z.sp /\ z.sp <= 65533

\* POP AF, POP and RETI.
Brings(i, r, f, v, p, q, g) ==
  /\ i.op = "popaf" => q = [r EXCEPT !.a = v \div 256] /\ g = SetF(v % 256)
  /\ i.op = "pop" => q = SetPair(r, i.x, v) /\ g = f
  /\ i.op = "reti" => p = v /\ q = r /\ g = f

ShrinksTo(z, i, y) ==
  \E p \in Word, q \in Registers, g \in Flags :
    /\ y = [z EXCEPT !.pc = p, !.sp = z.sp + 2, !.r = q, !.f = g]
    /\ Brings(i, z.r, z.f, rw(z, z.sp), p, q, g)

LEMMA NewA ==
  ASSUME NEW r \in Registers, NEW b \in Byte
  PROVE  \E q \in Registers : q = [r EXCEPT !.a = b]
<1>1. [r EXCEPT !["a"] = b] \in Registers
  BY DEF Registers
<1> QED BY <1>1

LEMMA Spread ==
  ASSUME NEW d \in Machine, NEW b, NEW g
  PROVE  [d EXCEPT !.r.a = b, !.f = g] = [d EXCEPT !.r = [d.r EXCEPT !.a = b], !.f = g]
BY DEF Machine

LEMMA ShrinksIs ==
  ASSUME Cells = Word, NEW z \in Machine, Holds(z),
         NEW i, WellFormed(i), i.op \in Shrinks \cup {"reti"}
  PROVE  ShrinksTo(z, i, exec_opcode(z, i)) /\ exec_opcode(z, i) \in Machine
<1>1. PICK a \in Word : a = Above(z.pc, i.len)
  <2>1. z.pc \in Word /\ i.len \in 0 .. 4
    BY DEF Machine, WellFormed
  <2> QED BY <2>1, AboveIs
<1>2. PICK s \in Int : s = z.sp /\ 0 <= s /\ RomSize <= s /\ s <= 65533
  BY WordIs DEF Machine, Holds
<1>3. PICK v \in Word : v = rw(z, s)
  <2>1. s <= 65534
    BY <1>2
  <2> QED BY <1>2, <2>1, WordRead
<1>4. PICK t \in Word : t = s + 2 /\ Above(s, 2) = t
  <2>1. s + 2 \in Int /\ 0 <= s + 2 /\ s + 2 <= 65535 /\ s <= 65535 /\ 2 \in 0 .. 4
    BY <1>2
  <2> QED BY <1>2, <2>1, Wraps, WordIs
<1>5. PICK r \in Registers, f \in Flags : r = z.r /\ f = z.f
  BY DEF Machine
<1> DEFINE x == [z EXCEPT !.pc = a]
           d == [z EXCEPT !.pc = a, !.sp = t]
<1>6. x.sp = s /\ x.ram = z.ram /\ x.romOut = z.romOut
  BY <1>2 DEF Machine
<1>7. Popped(x) = v /\ Drop(x) = d
  <2>1. rw(x, s) = v
    BY <1>3, <1>6 DEF rw, mem_read
  <2>2. Drop(x) = [x EXCEPT !.sp = t]
    BY <1>4, <1>6 DEF Drop
  <2> QED BY <1>6, <2>1, <2>2 DEF Popped, Machine
<1>8. exec_opcode(z, i) = IF i.op = "reti" THEN ret(x) ELSE ExecLoad(x, i)
  <2>1. CASE i.op = "reti"
    <3>1. i.op \notin Loads \cup Arithmetic \cup Bits
      BY <2>1 DEF Loads, Arithmetic, Bits
    <3>2. exec_opcode(z, i) = ExecControl(x, i)
      BY <1>1, <3>1, Fetched
    <3> QED BY <2>1, <3>2 DEF ExecControl
  <2>2. CASE i.op \in Shrinks
    <3>1. i.op \in Loads /\ i.op # "reti"
      BY <2>2 DEF Loads, Shrinks
    <3> QED BY <1>1, <3>1, Fetched
  <2> QED BY <2>1, <2>2
<1>9. d \in Machine /\ d.r = r /\ d.f = f
  BY <1>5 DEF Machine
<1> HIDE DEF x, d
<1>10. PICK hi \in Byte, lo \in Byte : hi = v \div 256 /\ lo = v % 256
  BY Split
<1>11. PICK p \in Word, q \in Registers, g \in Flags :
        /\ exec_opcode(z, i) = [d EXCEPT !.pc = p, !.r = q, !.f = g]
        /\ Brings(i, r, f, v, p, q, g)
  <2>0. d.pc = a
    BY DEF Machine, d
  <2>1. CASE i.op = "popaf"
    <3>1. PICK q \in Registers : q = [r EXCEPT !.a = hi]
      BY NewA
    <3>2. PICK g \in Flags : g = SetF(lo)
      <4>1. lo \in Int
        BY ByteIs
      <4> QED BY <4>1, SetFIs
    <3>3. exec_opcode(z, i) = [d EXCEPT !.r = q, !.f = g]
      <4>1. ExecLoad(x, i) = [Drop(x) EXCEPT !.r.a = Popped(x) \div 256, !.f = SetF(Popped(x) % 256)]
        BY <2>1, Zenon DEF ExecLoad
      <4>2. exec_opcode(z, i) = ExecLoad(x, i)
        BY <1>8, <2>1
      <4>3. exec_opcode(z, i) = [d EXCEPT !.r.a = hi, !.f = g]
        BY <1>7, <1>10, <3>2, <4>1, <4>2, Zenon
      <4>4. [d EXCEPT !.r.a = hi, !.f = g] = [d EXCEPT !.r = [d.r EXCEPT !.a = hi], !.f = g]
        BY <1>9, Spread
      <4> QED BY <1>9, <3>1, <4>3, <4>4
    <3>4. [d EXCEPT !.r = q, !.f = g] = [d EXCEPT !.pc = a, !.r = q, !.f = g]
      BY <1>9, <2>0 DEF Machine
    <3>5. Brings(i, r, f, v, a, q, g)
      BY <1>10, <2>1, <3>1, <3>2, Zenon DEF Brings
    <3> QED BY <3>3, <3>4, <3>5
  <2>2. CASE i.op = "pop"
    <3>1. PICK q \in Registers : q = SetPair(r, i.x, v)
      BY <2>2, PairSet DEF WellFormed
    <3>3. exec_opcode(z, i) = [d EXCEPT !.r = q]
      <4>1. exec_opcode(z, i) = [d EXCEPT !.r = SetPair(d.r, i.x, v)]
        <5>1. ExecLoad(x, i) = [Drop(x) EXCEPT !.r = SetPair(Drop(x).r, i.x, Popped(x))]
          BY <2>2, Zenon DEF ExecLoad
        <5>2. exec_opcode(z, i) = ExecLoad(x, i)
          BY <1>8, <2>2
        <5> QED BY <1>7, <5>1, <5>2, Zenon
      <4> QED BY <1>9, <3>1, <4>1
    <3>4. [d EXCEPT !.r = q] = [d EXCEPT !.pc = a, !.r = q, !.f = f]
      BY <1>9, <2>0 DEF Machine
    <3>5. Brings(i, r, f, v, a, q, f)
      BY <2>2, <3>1, Zenon DEF Brings
    <3> QED BY <3>3, <3>4, <3>5
  <2>3. CASE i.op = "reti"
    <3>3. exec_opcode(z, i) = [d EXCEPT !.pc = v]
      <4>1. exec_opcode(z, i) = ret(x)
        BY <1>8, <2>3
      <4>2. ret(x) = [Drop(x) EXCEPT !.pc = Popped(x)]
        BY Zenon DEF ret
      <4> QED BY <1>7, <4>1, <4>2, Zenon
    <3>4. [d EXCEPT !.pc = v] = [d EXCEPT !.pc = v, !.r = r, !.f = f]
      BY <1>9 DEF Machine
    <3>5. Brings(i, r, f, v, v, r, f)
      BY <2>3, Zenon DEF Brings
    <3> QED BY <3>3, <3>4, <3>5
  <2> QED BY <2>1, <2>2, <2>3 DEF Shrinks
<1>12. [d EXCEPT !.pc = p, !.r = q, !.f = g] = [z EXCEPT !.pc = p, !.sp = t, !.r = q, !.f = g]
  BY DEF Machine, d
<1>13. exec_opcode(z, i) = [d EXCEPT !.pc = p, !.r = q, !.f = g]
  BY <1>11
<1>14. exec_opcode(z, i) \in Machine
  <2>1. [d EXCEPT !.pc = p, !.r = q, !.f = g] \in Machine
    BY <1>9 DEF Machine
  <2> QED BY <1>13, <2>1
<1>16. exec_opcode(z, i) = [z EXCEPT !.pc = p, !.sp = z.sp + 2, !.r = q, !.f = g]
  <2>1. t = z.sp + 2
    BY <1>2, <1>4
  <2> QED BY <1>12, <1>13, <2>1
<1>15. Brings(i, z.r, z.f, rw(z, z.sp), p, q, g)
  BY <1>2, <1>3, <1>5, <1>11
<1> QED BY <1>14, <1>15, <1>16, Zenon DEF ShrinksTo

-----------------------------------------------------------------------------
\* What the handler gives back.

LEMMA ExecTyped ==
  ASSUME Cells = Word, NEW z \in Machine, NEW i, WellFormed(i),
         i.op \in Grows => 2 <= z.sp, i.op \in Shrinks \cup {"reti"} => Holds(z)
  PROVE  exec_opcode(z, i) \in Machine
<1>1. i.op \in Plain \cup Control \cup Blocks \cup Grows \cup Shrinks \cup {"reti"}
  BY DEF WellFormed, Plain, Control, Straight, Loads, Grows, Shrinks
<1>2. CASE i.op \in Plain
  BY <1>2, PlainVeils DEF Veils
<1>3. CASE i.op \in Control
  BY <1>3, ControlVeils DEF Veils
<1>4. CASE i.op \in Blocks
  BY <1>4, BlockVeils DEF Veils
<1>5. CASE i.op \in Grows
  BY <1>5, GrowsIs
<1>6. CASE i.op \in Shrinks \cup {"reti"}
  BY <1>6, ShrinksIs
<1> QED BY <1>1, <1>2, <1>3, <1>4, <1>5, <1>6

\* An interrupt is served.
Interrupted(y, x) ==
  \E l \in Byte, h \in Byte :
    /\ x = [y EXCEPT !.pc = Handler, !.iff = FALSE, !.sp = y.sp - 2,
                     !.ram = [y.ram EXCEPT ![y.sp - 2] = l, ![y.sp - 1] = h]]
    /\ 256 * h + l = y.pc

LEMMA ServedIs ==
  ASSUME Cells = Word, Handler \in Word, NEW y \in Machine,
         y.request /\ y.iff /\ ~ y.delay => 2 <= y.sp
  PROVE  LET x == process_interrupts(y)
         IN  /\ x \in Machine
             /\ y.delay => x = [y EXCEPT !.delay = FALSE, !.iff = TRUE]
             /\ y.request /\ y.iff /\ ~ y.delay => Interrupted(y, x)
             /\ ~ y.delay /\ ~ (y.request /\ y.iff) => x = y
<1> DEFINE x == process_interrupts(y)
<1>1. CASE y.delay
  <2>1. x = [y EXCEPT !.delay = FALSE, !.iff = TRUE]
    BY <1>1 DEF process_interrupts
  <2> HIDE DEF x
  <2>2. x \in Machine
    BY <2>1 DEF Machine
  <2> QED BY <1>1, <2>1, <2>2 DEF x
<1>2. CASE ~ y.delay /\ y.request /\ y.iff
  <2>1. PICK a \in Word : a = y.pc
    BY DEF Machine
  <2>2. PICK l \in Byte, h \in Byte : 256 * h + l = a
    BY Split
  <2>3. pushw(y, a) = Pushed(y, l, h) /\ Pushed(y, l, h) \in Machine
    BY <1>2, <2>2, PushIs
  <2>4. x = [Pushed(y, l, h) EXCEPT !.pc = Handler, !.iff = FALSE]
    <3>1. x = [[pushw(y, a) EXCEPT !.pc = Handler] EXCEPT !.iff = FALSE]
      BY <1>2, <2>1 DEF process_interrupts, call
    <3> QED BY <2>3, <3>1
  <2>5. PICK s, m : s = y.sp - 2 /\ m = [y.ram EXCEPT ![y.sp - 2] = l, ![y.sp - 1] = h]
    OBVIOUS
  <2>6. Pushed(y, l, h) = [y EXCEPT !.sp = s, !.ram = m]
    BY <2>5 DEF Pushed
  <2> HIDE DEF x
  <2>7. x \in Machine
    BY <2>3, <2>4 DEF Machine
  <2>8. [[y EXCEPT !.sp = s, !.ram = m] EXCEPT !.pc = Handler, !.iff = FALSE]
          = [y EXCEPT !.pc = Handler, !.iff = FALSE, !.sp = s, !.ram = m]
    BY DEF Machine
  <2>9. Interrupted(y, x)
    BY <2>1, <2>2, <2>4, <2>5, <2>6, <2>8 DEF Interrupted
  <2> QED BY <1>2, <2>7, <2>9 DEF x
<1>3. CASE ~ y.delay /\ ~ (y.request /\ y.iff)
  BY <1>3 DEF process_interrupts
<1> QED BY <1>1, <1>2, <1>3

\* What the handler gives back.
BackR(y, d) == LET r == IF d = 4 THEN SetPair(y.r, "hl", rw(y, Top - 6)) ELSE y.r
               IN  IF d >= 2 THEN [r EXCEPT !.a = rw(y, Top - 4) \div 256] ELSE r
BackF(y, d) == IF d >= 2 THEN SetF(rw(y, Top - 4) % 256) ELSE y.f

LEMMA StackWords ==
  ASSUME Cells = Word, NEW z \in Machine, NEW k \in {2, 4, 6}
  PROVE  /\ rw(z, Top - k) = z.ram[Top - k] + 256 * z.ram[Top - k + 1]
         /\ rw(z, Top - k) \in Word
<1>1. Top - k \in Int /\ RomSize <= Top - k /\ Top - k <= 65534
  BY StackPlace
<1> QED BY <1>1, WordRead

LEMMA BackIs ==
  ASSUME Cells = Word, NEW z \in Machine, NEW d \in {0, 2, 4}
  PROVE  BackR(z, d) \in Registers /\ BackF(z, d) \in Flags /\ rw(z, Top - 2) \in Word
<1>1. PICK r \in Registers, f \in Flags : r = z.r /\ f = z.f
  BY DEF Machine
<1>2. PICK u \in Word, v \in Word, w \in Word : u = rw(z, Top - 2) /\ v = rw(z, Top - 4) /\ w = rw(z, Top - 6)
  BY StackWords
<1>3. PICK hi \in Byte, lo \in Byte : hi = v \div 256 /\ lo = v % 256
  BY Split
<1>4. PICK q \in Registers : q = IF d = 4 THEN SetPair(r, "hl", w) ELSE r
  BY PairSet DEF Pairs
<1>5. PICK q2 \in Registers : q2 = [q EXCEPT !.a = hi]
  BY NewA
<1>6. BackR(z, d) \in {q, q2}
  <2>1. BackR(z, d) = IF d >= 2 THEN [q EXCEPT !.a = hi] ELSE q
    BY <1>1, <1>2, <1>3, <1>4, Zenon DEF BackR
  <2> QED BY <1>5, <2>1
<1>7. SetF(lo) \in Flags
  <2>1. lo \in Int
    BY ByteIs
  <2> QED BY <2>1, SetFIs
<1>8. BackF(z, d) = IF d >= 2 THEN SetF(lo) ELSE f
  BY <1>1, <1>2, <1>3, Zenon DEF BackF
<1> QED BY <1>2, <1>6, <1>7, <1>8

LEMMA ResumedIs ==
  ASSUME Cells = Word, NEW z \in Machine, NEW d \in {0, 2, 4}
  PROVE  LET y == Resumed(z, d)
         IN  /\ y = [z EXCEPT !.pc = rw(z, Top - 2), !.sp = Top, !.iff = TRUE,
                              !.r = BackR(z, d), !.f = BackF(z, d)]
             /\ y \in Machine
             /\ Veil(y) = [z EXCEPT !.pc = rw(z, Top - 2), !.sp = Top, !.iff = TRUE,
                              !.r = BackR(z, d), !.f = BackF(z, d),
                              !.ram = Hidden(z.ram), !.request = FALSE]
<1> DEFINE y == Resumed(z, d)
<1>1. PICK p \in Word, q \in Registers, g \in Flags :
        p = rw(z, Top - 2) /\ q = BackR(z, d) /\ g = BackF(z, d)
  BY BackIs
<1>2. y = [z EXCEPT !.pc = p, !.sp = Top, !.iff = TRUE, !.r = q, !.f = g]
  <2>1. y = [z EXCEPT !.pc = rw(z, Top - 2), !.sp = Top, !.iff = TRUE,
                              !.r = BackR(z, d), !.f = BackF(z, d)]
    BY Zenon DEF Resumed, BackR, BackF
  <2> QED BY <1>1, <2>1
<1>3. PICK t \in Word : t = Top
  BY AddressAssumption
<1> HIDE DEF y
<1>4. y \in Machine /\ y.ram = z.ram
  BY <1>2, <1>3 DEF Machine
<1>5. PICK n : n = Hidden(z.ram)
  OBVIOUS
<1>6. Veil(y) = [y EXCEPT !.ram = n, !.request = FALSE]
  BY <1>4, <1>5, VeilIs
<1>7. [[z EXCEPT !.pc = p, !.sp = Top, !.iff = TRUE, !.r = q, !.f = g] EXCEPT !.ram = n, !.request = FALSE]
        = [z EXCEPT !.pc = p, !.sp = Top, !.iff = TRUE, !.r = q, !.f = g, !.ram = n, !.request = FALSE]
  BY DEF Machine
<1> QED BY <1>1, <1>2, <1>4, <1>5, <1>6, <1>7 DEF y

\* Two states from which the handler gives back the same.
SameRest(y, z) == /\ Hidden(y.ram) = Hidden(z.ram) /\ y.romOut = z.romOut
                  /\ y.out = z.out /\ y.given = z.given /\ y.cyc = z.cyc
SameBack(y, d, z, e) == /\ SameRest(y, z) /\ rw(y, Top - 2) = rw(z, Top - 2)
                        /\ BackR(y, d) = BackR(z, e) /\ BackF(y, d) = BackF(z, e)

LEMMA SameResumed ==
  ASSUME Cells = Word, NEW y \in Machine, NEW z \in Machine, NEW d \in {0, 2, 4},
         NEW e \in {0, 2, 4}, SameBack(y, d, z, e), y.delay = z.delay
  PROVE  Veil(Resumed(y, d)) = Veil(Resumed(z, e))
<1>1. PICK p, q, g, n : /\ p = rw(z, Top - 2) /\ q = BackR(z, e) /\ g = BackF(z, e)
                        /\ n = Hidden(z.ram)
  OBVIOUS
<1>2. Veil(Resumed(z, e)) = [z EXCEPT !.pc = p, !.sp = Top, !.iff = TRUE, !.r = q, !.f = g,
                                      !.ram = n, !.request = FALSE]
  <2>1. Veil(Resumed(z, e)) = [z EXCEPT !.pc = rw(z, Top - 2), !.sp = Top, !.iff = TRUE,
                              !.r = BackR(z, e), !.f = BackF(z, e),
                              !.ram = Hidden(z.ram), !.request = FALSE]
    BY ResumedIs, Zenon
  <2> QED BY <1>1, <2>1, Zenon
<1>3. Veil(Resumed(y, d)) = [y EXCEPT !.pc = p, !.sp = Top, !.iff = TRUE, !.r = q, !.f = g,
                                      !.ram = n, !.request = FALSE]
  <2>1. /\ p = rw(y, Top - 2) /\ q = BackR(y, d) /\ g = BackF(y, d) /\ n = Hidden(y.ram)
    BY <1>1 DEF SameBack, SameRest
  <2>2. Veil(Resumed(y, d)) = [y EXCEPT !.pc = rw(y, Top - 2), !.sp = Top, !.iff = TRUE,
                              !.r = BackR(y, d), !.f = BackF(y, d),
                              !.ram = Hidden(y.ram), !.request = FALSE]
    BY ResumedIs, Zenon
  <2> QED BY <2>1, <2>2, Zenon
<1>4. [y EXCEPT !.pc = p, !.sp = Top, !.iff = TRUE, !.r = q, !.f = g, !.ram = n, !.request = FALSE]
        = [z EXCEPT !.pc = p, !.sp = Top, !.iff = TRUE, !.r = q, !.f = g, !.ram = n, !.request = FALSE]
  BY DEF SameBack, SameRest, Machine
<1> QED BY <1>2, <1>3, <1>4

\* The handler changes only what it has saved.
LEMMA FreeBack ==
  ASSUME Cells = Word, NEW y \in Machine, NEW z \in Machine, NEW d \in {0, 2, 4},
         y.ram = z.ram, SameRest(y, z), \A x \in Names \ Free(d) : y.r[x] = z.r[x],
         "f" \in Free(d) \/ y.f = z.f
  PROVE  SameBack(y, d, z, d)
<1>1. PICK r \in Registers, q \in Registers : r = z.r /\ q = y.r
  BY DEF Machine
<1>2. PICK u, v, w \in Word : u = rw(z, Top - 2) /\ v = rw(z, Top - 4) /\ w = rw(z, Top - 6)
  BY StackWords
<1>3. u = rw(y, Top - 2) /\ v = rw(y, Top - 4) /\ w = rw(y, Top - 6)
  BY <1>2 DEF SameRest, rw, mem_read
<1>4. \A x \in Names \ Free(d) : q[x] = r[x]
  BY <1>1
<1>5. CASE d = 0
  <2>1. q = r /\ y.f = z.f
    BY <1>4, <1>5 DEF Free, Registers, Names
  <2> QED BY <1>1, <1>2, <1>3, <1>5, <2>1 DEF SameBack, BackR, BackF
<1>6. CASE d = 2
  <2>1. PICK b : b = v \div 256
    OBVIOUS
  <2>2. [q EXCEPT !.a = b] = [r EXCEPT !.a = b]
    BY <1>4, <1>6 DEF Free, Registers, Names
  <2>3. BackR(y, d) = [q EXCEPT !.a = b] /\ BackR(z, d) = [r EXCEPT !.a = b]
    BY <1>1, <1>2, <1>3, <1>6, <2>1 DEF BackR
  <2>4. BackF(y, d) = BackF(z, d)
    BY <1>2, <1>3, <1>6 DEF BackF
  <2> QED BY <1>2, <1>3, <2>2, <2>3, <2>4 DEF SameBack
<1>7. CASE d = 4
  <2>1. PICK b : b = v \div 256
    OBVIOUS
  <2>2. PICK h, l : h = (w \div 256) % 256 /\ l = w % 256
    OBVIOUS
  <2>3. SetPair(q, "hl", w) = [q EXCEPT !["h"] = h, !["l"] = l] /\ SetPair(r, "hl", w) = [r EXCEPT !["h"] = h, !["l"] = l]
    BY <2>2 DEF SetPair, Halves
  <2>4. [[q EXCEPT !["h"] = h, !["l"] = l] EXCEPT !["a"] = b] = [[r EXCEPT !["h"] = h, !["l"] = l] EXCEPT !["a"] = b]
    BY <1>4, <1>7 DEF Free, Registers, Names
  <2>5. BackR(y, d) = [SetPair(q, "hl", w) EXCEPT !.a = b] /\ BackR(z, d) = [SetPair(r, "hl", w) EXCEPT !.a = b]
    BY <1>1, <1>2, <1>3, <1>7, <2>1 DEF BackR
  <2>6. BackF(y, d) = BackF(z, d)
    BY <1>2, <1>3, <1>7 DEF BackF
  <2> QED BY <1>2, <1>3, <2>3, <2>4, <2>5, <2>6 DEF SameBack
<1> QED BY <1>5, <1>6, <1>7

LEMMA PairComesBack ==
  ASSUME NEW r \in Registers
  PROVE  SetPair(r, "hl", Pair(r, "hl")) = r
<1>1. PICK h \in Byte, l \in Byte : h = r["h"] /\ l = r["l"]
  BY DEF Registers
<1>2. PICK w : w = 256 * h + l
  OBVIOUS
<1>3. (w \div 256) % 256 = h /\ w % 256 = l
  <2>1. h \in Int /\ 0 <= h /\ h <= 255 /\ l \in Int /\ 0 <= l /\ l <= 255
    BY ByteIs
  <2> QED BY <1>2, <2>1, Z3
<1>4. Pair(r, "hl") = w
  BY <1>1, <1>2 DEF Pair, Halves
<1>5. PICK a, b : a = (w \div 256) % 256 /\ b = w % 256
  OBVIOUS
<1>6. SetPair(r, "hl", w) = [r EXCEPT !["h"] = a, !["l"] = b]
  BY <1>5 DEF SetPair, Halves
<1>7. [r EXCEPT !["h"] = h, !["l"] = l] = r
  BY <1>1 DEF Registers
<1> QED BY <1>3, <1>4, <1>5, <1>6, <1>7

\* Two bytes more on the stack.
PutsBytes(m, n, k, l, h) == n = [m EXCEPT ![Top - k] = l, ![Top - k + 1] = h]

PutsWord(m, n, k, l, h) ==
  /\ Hidden(n) = Hidden(m)
  /\ n[Top - k] = l /\ n[Top - k + 1] = h
  /\ \A j \in {2, 4} : j # k => n[Top - j] = m[Top - j] /\ n[Top - j + 1] = m[Top - j + 1]

LEMMA StackPut ==
  ASSUME Cells = Word, NEW m \in [Cells -> Byte], NEW l \in Byte, NEW h \in Byte, NEW k \in {2, 4, 6},
         NEW n, PutsBytes(m, n, k, l, h)
  PROVE  PutsWord(m, n, k, l, h)
<1>1. PICK a \in Word, b \in Word : a = Top - k /\ b = Top - k + 1 /\ a # b
  <2>1. Top - k \in Cells /\ Top - (k - 1) \in Cells /\ Top - (k - 1) = Top - k + 1 /\ Top - k # Top - k + 1
    BY StackPlace
  <2> QED BY <2>1
<1>2. a \in Stack /\ b \in Stack
  BY <1>1, StackPlace DEF Stack
<1>7. n = [m EXCEPT ![a] = l, ![b] = h]
  BY <1>1 DEF PutsBytes
<1>3. \A x \in Cells : n[x] = IF x = b THEN h ELSE IF x = a THEN l ELSE m[x]
  BY <1>1, <1>7
<1>4. Hidden(n) = Hidden(m)
  <2> QED BY <1>2, <1>3 DEF Hidden
<1>5. ASSUME NEW j \in {2, 4}, j # k
      PROVE  n[Top - j] = m[Top - j] /\ n[Top - j + 1] = m[Top - j + 1]
  <2>1. Top - j \in Cells /\ Top - (j - 1) \in Cells /\ Top - (j - 1) = Top - j + 1
    BY StackPlace
  <2>2. Top - j \notin {a, b} /\ Top - j + 1 \notin {a, b}
    BY <1>1, <1>5, StackPlace
  <2> QED BY <1>3, <2>1, <2>2
<1>6. n[a] = l /\ n[b] = h
  BY <1>1, <1>3
<1> QED BY <1>1, <1>4, <1>5, <1>6 DEF PutsWord

LEMMA ReadAlike ==
  ASSUME Cells = Word, NEW y \in Machine, NEW z \in Machine, NEW k \in {2, 4, 6},
         y.ram[Top - k] = z.ram[Top - k], y.ram[Top - k + 1] = z.ram[Top - k + 1]
  PROVE  rw(y, Top - k) = rw(z, Top - k)
<1>1. rw(y, Top - k) = y.ram[Top - k] + 256 * y.ram[Top - k + 1]
  BY StackWords
<1>2. rw(z, Top - k) = z.ram[Top - k] + 256 * z.ram[Top - k + 1]
  BY StackWords
<1> QED BY <1>1, <1>2

LEMMA PlainBack ==
  ASSUME Cells = Word, NEW z \in Machine, NEW i, WellFormed(i), i.op \in Plain, ~ WritesMemory(i),
         NEW d \in {0, 2, 4}, Sets(i) \subseteq Free(d)
  PROVE  SameBack(exec_opcode(z, i), d, z, d) /\ exec_opcode(z, i).delay = z.delay
<1> DEFINE y == exec_opcode(z, i)
<1>1. PICK r \in Registers, f \in Flags : r = z.r /\ f = z.f
  BY DEF Machine
<1>2. PICK m \in Byte : m = mem_read(z, Pair(r, "hl"))
  BY PairIs, MemIs DEF Pairs
<1>3. PICK q \in Registers, g \in Flags, w \in Byte :
        /\ Changes(r, f, Sets(i), q, g)
        /\ \A x : Alike(x, r, f, m, i) =>
             exec_opcode(x, i) = Does([x EXCEPT !.pc = Above(x.pc, i.len)], i, q, g, w)
  <2>1. HasEffect(r, f, m, i)
    BY PlainDoes
  <2> QED BY <2>1 DEF HasEffect
<1>4. PICK p \in Word : p = Above(z.pc, i.len)
  <2>1. z.pc \in Word /\ i.len \in 0 .. 4
    BY DEF Machine, WellFormed
  <2> QED BY <2>1, AboveIs
<1>5. y = Does([z EXCEPT !.pc = p], i, q, g, w)
  BY <1>1, <1>2, <1>3, <1>4 DEF Alike
<1>6. y = [[z EXCEPT !.pc = p] EXCEPT !.r = q, !.f = g]
  BY <1>5 DEF Does
<1> HIDE DEF y
<1>7. /\ y \in Machine /\ y.ram = z.ram /\ y.romOut = z.romOut /\ y.delay = z.delay
      /\ y.out = z.out /\ y.given = z.given /\ y.cyc = z.cyc /\ y.r = q /\ y.f = g
  BY <1>6 DEF Machine
<1>8. SameRest(y, z)
  BY <1>7 DEF SameRest
<1>9. (\A x \in Names \ Free(d) : y.r[x] = z.r[x]) /\ ("f" \in Free(d) \/ y.f = z.f)
  BY <1>1, <1>3, <1>7 DEF Changes
<1>10. SameBack(y, d, z, d)
  BY <1>7, <1>8, <1>9, FreeBack
<1> QED BY <1>7, <1>10 DEF y

LEMMA ControlBack ==
  ASSUME Cells = Word, NEW z \in Machine, NEW i, WellFormed(i), i.op \in Control \ {"rom"},
         NEW d \in {0, 2, 4}, Sets(i) \subseteq Free(d)
  PROVE  SameBack(exec_opcode(z, i), d, z, d)
<1> DEFINE y == exec_opcode(z, i)
<1>1. PICK p \in Word, q \in Registers, e \in BOOLEAN, o \in BOOLEAN :
        /\ \A x \in Names \ Sets(i) : q[x] = z.r[x]
        /\ \E t \in BOOLEAN : y = Alter(z, i, p, q, t, e, z.romOut)
  <2>1. PICK p \in Word, q \in Registers, t \in BOOLEAN, e \in BOOLEAN, o \in BOOLEAN :
          /\ i.op # "rom" => o = z.romOut
          /\ \A x \in Names \ Sets(i) : q[x] = z.r[x]
          /\ \A x : SameCore(x, z) => exec_opcode(x, i) = Alter(x, i, p, q, t, e, o)
    BY ControlAlters DEF Alters
  <2>2. SameCore(z, z)
    BY DEF SameCore
  <2>3. y = Alter(z, i, p, q, t, e, z.romOut)
    BY <2>1, <2>2
  <2> HIDE DEF y
  <2> QED BY <2>1, <2>3
<1>2. PICK t \in BOOLEAN : y = Alter(z, i, p, q, t, e, z.romOut)
  BY <1>1
<1> HIDE DEF y
<1>3. y \in {[z EXCEPT !.pc = p, !.r = q, !.delay = t, !.iff = e, !.romOut = z.romOut, !.request = FALSE],
             [z EXCEPT !.pc = p, !.r = q, !.delay = t, !.iff = e, !.romOut = z.romOut]}
  BY <1>2 DEF Alter
<1>4. /\ y \in Machine /\ y.ram = z.ram /\ y.romOut = z.romOut
      /\ y.out = z.out /\ y.given = z.given /\ y.cyc = z.cyc /\ y.r = q /\ y.f = z.f
  BY <1>3, ZenonT(40) DEF Machine
<1>5. SameRest(y, z)
  BY <1>4 DEF SameRest
<1>6. (\A x \in Names \ Free(d) : y.r[x] = z.r[x])
  BY <1>1, <1>4
<1> QED BY <1>4, <1>5, <1>6, FreeBack DEF y

\* PUSH AF on the empty stack, PUSH HL on top of it.
LEMMA GrowsBack ==
  ASSUME Cells = Word, NEW z \in Machine, NEW i, WellFormed(i), i.op \in Grows,
         NEW d \in {0, 2}, z.sp = Top - 2 - d,
         d = 0 => i.op = "pushaf", d = 2 => i.op = "push" /\ i.x = "hl"
  PROVE  SameBack(exec_opcode(z, i), d + 2, z, d) /\ exec_opcode(z, i).delay = z.delay
<1> DEFINE y == exec_opcode(z, i)
<1>1. 2 <= z.sp
  BY StackPlace
<1>2. PICK k \in {4, 6} : k = d + 4 /\ z.sp - 2 = Top - k /\ z.sp - 1 = Top - k + 1
  BY StackPlace
<1>3. PICK p \in Word, l \in Byte, h \in Byte :
    /\ y = [z EXCEPT !.pc = p, !.sp = z.sp - 2,
                     !.ram = [z.ram EXCEPT ![z.sp - 2] = l, ![z.sp - 1] = h]]
    /\ i.op = "pushaf" => l = GetF(z.f) /\ h = z.r.a
    /\ i.op = "push" => 256 * h + l = Pair(z.r, i.x)
  <2>1. GrowsTo(z, i, y)
    BY <1>1, GrowsIs
  <2> HIDE DEF y
  <2> QED BY <2>1 DEF GrowsTo
<1>4. y \in Machine
  BY <1>1, GrowsIs
<1>5. PICK r \in Registers, f \in Flags, m \in [Cells -> Byte] : r = z.r /\ f = z.f /\ m = z.ram
  BY DEF Machine
<1>6. PICK n : n = [m EXCEPT ![Top - k] = l, ![Top - k + 1] = h]
  OBVIOUS
<1>7. PICK s : s = z.sp - 2
  OBVIOUS
<1>8. y = [z EXCEPT !.pc = p, !.sp = s, !.ram = n]
  BY <1>2, <1>3, <1>5, <1>6, <1>7
<1> HIDE DEF y
<1>9. /\ y.ram = n /\ y.r = r /\ y.f = f /\ y.romOut = z.romOut /\ y.delay = z.delay
      /\ y.out = z.out /\ y.given = z.given /\ y.cyc = z.cyc
  BY <1>5, <1>8 DEF Machine
<1>10. /\ Hidden(n) = Hidden(m)
       /\ n[Top - k] = l /\ n[Top - k + 1] = h
       /\ \A j \in {2, 4} : j # k => n[Top - j] = m[Top - j] /\ n[Top - j + 1] = m[Top - j + 1]
  <2>1. PutsBytes(m, n, k, l, h)
    BY <1>6 DEF PutsBytes
  <2>2. PutsWord(m, n, k, l, h)
    BY <2>1, StackPut
  <2> QED BY <2>2 DEF PutsWord
<1>11. SameRest(y, z)
  BY <1>5, <1>9, <1>10 DEF SameRest
<1>12. rw(y, Top - 2) = rw(z, Top - 2)
  BY <1>4, <1>5, <1>9, <1>10, ReadAlike
<1>13. rw(y, Top - k) = 256 * h + l
  <2>1. rw(y, Top - k) = y.ram[Top - k] + 256 * y.ram[Top - k + 1]
    BY <1>4, StackWords
  <2> QED BY <1>9, <1>10, <2>1, ByteIs
<1>14. (256 * h + l) \div 256 = h /\ (256 * h + l) % 256 = l
  <2>1. h \in Int /\ 0 <= h /\ h <= 255 /\ l \in Int /\ 0 <= l /\ l <= 255
    BY ByteIs
  <2> QED BY <2>1, Z3
<1>15. CASE d = 0
  <2>1. k = 4 /\ d + 2 = 2 /\ h = r.a /\ l = GetF(f)
    BY <1>2, <1>3, <1>5, <1>15
  <2>2. BackR(y, 2) = [r EXCEPT !.a = h] /\ BackF(y, 2) = SetF(l)
    <3>1. rw(y, Top - 4) \div 256 = h /\ rw(y, Top - 4) % 256 = l
      BY <1>13, <1>14, <2>1
    <3> QED BY <1>9, <3>1 DEF BackR, BackF
  <2>3. BackR(z, 0) = r /\ BackF(z, 0) = f
    BY <1>5 DEF BackR, BackF
  <2>4. [r EXCEPT !.a = h] = r
    BY <2>1 DEF Registers
  <2>5. SetF(l) = f
    BY <2>1, FlagsComeBack
  <2> QED BY <1>9, <1>11, <1>12, <1>15, <2>1, <2>2, <2>3, <2>4, <2>5 DEF SameBack, y
<1>16. CASE d = 2
  <2>1. k = 6 /\ d + 2 = 4 /\ 256 * h + l = Pair(r, "hl")
    BY <1>2, <1>3, <1>5, <1>16
  <2>2. PICK v : v = rw(z, Top - 4)
    OBVIOUS
  <2>3. rw(y, Top - 4) = v
    BY <1>4, <1>5, <1>9, <1>10, <2>1, <2>2, ReadAlike
  <2>4. PICK b, g : b = v \div 256 /\ g = SetF(v % 256)
    OBVIOUS
  <2>5. rw(y, Top - 6) = Pair(r, "hl")
    BY <1>13, <2>1
  <2>6. BackR(y, 4) = [SetPair(r, "hl", Pair(r, "hl")) EXCEPT !.a = b] /\ BackF(y, 4) = g
    BY <1>9, <2>3, <2>4, <2>5 DEF BackR, BackF
  <2>7. BackR(z, 2) = [r EXCEPT !.a = b] /\ BackF(z, 2) = g
    BY <1>5, <2>2, <2>4 DEF BackR, BackF
  <2>8. SetPair(r, "hl", Pair(r, "hl")) = r
    BY PairComesBack
  <2> QED BY <1>9, <1>11, <1>12, <1>16, <2>1, <2>6, <2>7, <2>8 DEF SameBack, y
<1> QED BY <1>15, <1>16

\* POP HL with the stack full, POP AF after it.
LEMMA ShrinksBack ==
  ASSUME Cells = Word, NEW z \in Machine, NEW i, WellFormed(i), i.op \in Shrinks,
         NEW d \in {2, 4}, z.sp = Top - 2 - d,
         d = 2 => i.op = "popaf", d = 4 => i.op = "pop" /\ i.x = "hl"
  PROVE  SameBack(exec_opcode(z, i), d - 2, z, d) /\ exec_opcode(z, i).delay = z.delay
<1> DEFINE y == exec_opcode(z, i)
<1>1. Holds(z)
  BY StackPlace DEF Holds
<1>2. PICK p \in Word, q \in Registers, g \in Flags :
    /\ y = [z EXCEPT !.pc = p, !.sp = z.sp + 2, !.r = q, !.f = g]
    /\ Brings(i, z.r, z.f, rw(z, z.sp), p, q, g)
  <2>1. ShrinksTo(z, i, y)
    BY <1>1, ShrinksIs
  <2> HIDE DEF y
  <2> QED BY <2>1 DEF ShrinksTo
<1>3. y \in Machine
  BY <1>1, ShrinksIs
<1>4. PICK s : s = z.sp + 2
  OBVIOUS
<1>5. y = [z EXCEPT !.pc = p, !.sp = s, !.r = q, !.f = g]
  BY <1>2, <1>4
<1> HIDE DEF y
<1>6. /\ y.ram = z.ram /\ y.r = q /\ y.f = g /\ y.romOut = z.romOut /\ y.delay = z.delay
      /\ y.out = z.out /\ y.given = z.given /\ y.cyc = z.cyc
  BY <1>5 DEF Machine
<1>7. SameRest(y, z)
  BY <1>6 DEF SameRest
<1>8. PICK v, b, e : v = rw(z, Top - 4) /\ b = v \div 256 /\ e = SetF(v % 256)
  OBVIOUS
<1>9. rw(y, Top - 2) = rw(z, Top - 2) /\ rw(y, Top - 4) = v
  BY <1>3, <1>6, <1>8, ReadAlike
<1>10. CASE d = 2
  <2>1. z.sp = Top - 4 /\ d - 2 = 0
    BY <1>10, StackPlace
  <2>2. q = [z.r EXCEPT !.a = v \div 256] /\ g = SetF(v % 256)
    BY <1>2, <1>8, <1>10, <2>1, Zenon DEF Brings
  <2>3. BackR(y, 0) = q /\ BackF(y, 0) = g
    BY <1>6 DEF BackR, BackF
  <2>4. BackR(z, 2) = q /\ BackF(z, 2) = g
    <3>1. BackR(z, 2) = [z.r EXCEPT !.a = v \div 256] /\ BackF(z, 2) = SetF(v % 256)
      BY <1>8 DEF BackR, BackF
    <3> QED BY <2>2, <3>1, Zenon
  <2> QED BY <1>6, <1>7, <1>8, <1>9, <1>10, <2>1, <2>3, <2>4 DEF SameBack, y
<1>11. CASE d = 4
  <2>1. z.sp = Top - 6 /\ d - 2 = 2
    BY <1>11, StackPlace
  <2>2. q = SetPair(z.r, "hl", rw(z, Top - 6)) /\ g = z.f
    BY <1>2, <1>11, <2>1, Zenon DEF Brings
  <2>3. BackR(y, 2) = [q EXCEPT !.a = b] /\ BackF(y, 2) = e
    BY <1>6, <1>8, <1>9 DEF BackR, BackF
  <2>4. BackR(z, 4) = [q EXCEPT !.a = b] /\ BackF(z, 4) = e
    <3>1. BackR(z, 4) = [SetPair(z.r, "hl", rw(z, Top - 6)) EXCEPT !.a = b] /\ BackF(z, 4) = e
      BY <1>8 DEF BackR, BackF
    <3> QED BY <2>2, <3>1, Zenon
  <2> QED BY <1>6, <1>7, <1>8, <1>9, <1>11, <2>1, <2>3, <2>4 DEF SameBack, y
<1> QED BY <1>10, <1>11

-----------------------------------------------------------------------------
\* What the program sees, from one instruction to the next.

\* The CPU as the program sees it; Seen is Look(cpu).
Look(z) == Veil(IF z.pc \in DOMAIN Depth THEN Resumed(z, Depth[z.pc]) ELSE z)

LEMMA HandlerPlace == Handler \in DOMAIN Depth /\ Depth[Handler] = 0
BY DepthAssumption

\* What the program sees after the check for an interrupt: what it would see if
\* none was requested.
LEMMA ServeUnseen ==
  ASSUME Cells = Word, Handler \in Word, NEW y \in Machine, InProgram(y)
  PROVE  Look(process_interrupts(y)) = process_interrupts(Veil(y))
<1> DEFINE x == process_interrupts(y)
<1>1. /\ x \in Machine
      /\ y.delay => x = [y EXCEPT !.delay = FALSE, !.iff = TRUE]
      /\ y.request /\ y.iff /\ ~ y.delay => Interrupted(y, x)
      /\ ~ y.delay /\ ~ (y.request /\ y.iff) => x = y
  <2>1. y.request /\ y.iff /\ ~ y.delay => 2 <= y.sp
    BY StackPlace DEF InProgram
  <2> QED BY <2>1, ServedIs
<1> HIDE DEF x
<1>2. PICK m \in [Cells -> Byte] : m = y.ram
  BY DEF Machine
<1>3. PICK n \in [Cells -> Byte] : n = Hidden(m)
  BY HiddenIs
<1>4. PICK t \in BOOLEAN, e \in BOOLEAN, s \in Word : t = y.delay /\ e = y.iff /\ s = y.sp
  BY DEF Machine
<1>5. Veil(y) = [y EXCEPT !.ram = n, !.request = FALSE]
  BY <1>2, <1>3, VeilIs
<1>6. y.pc \notin DOMAIN Depth /\ s = Top
  BY <1>4 DEF InProgram, Elsewhere
<1>7. Veil(y).delay = y.delay /\ Veil(y).request = FALSE
  BY <1>5 DEF Machine
<1>8. CASE y.delay
  <2>1. x = [y EXCEPT !.delay = FALSE, !.iff = TRUE]
    BY <1>1, <1>8
  <2>2. x.pc = y.pc /\ x.ram = m
    BY <1>2, <2>1 DEF Machine
  <2>3. Look(x) = Veil(x)
    BY <1>6, <2>2 DEF Look
  <2>4. Veil(x) = [x EXCEPT !.ram = n, !.request = FALSE]
    BY <1>1, <1>3, <2>2, VeilIs
  <2>5. process_interrupts(Veil(y)) = [Veil(y) EXCEPT !.delay = FALSE, !.iff = TRUE]
    BY <1>7, <1>8 DEF process_interrupts
  <2>6. [[y EXCEPT !.ram = n, !.request = FALSE] EXCEPT !.delay = FALSE, !.iff = TRUE]
          = [[y EXCEPT !.delay = FALSE, !.iff = TRUE] EXCEPT !.ram = n, !.request = FALSE]
    BY DEF Machine
  <2> QED BY <1>5, <2>1, <2>3, <2>4, <2>5, <2>6 DEF x
<1>9. CASE ~ y.delay
  <2>1. process_interrupts(Veil(y)) = Veil(y)
    BY <1>7, <1>9 DEF process_interrupts
  <2>2. CASE y.request /\ y.iff
    <3>1. PICK l \in Byte, h \in Byte :
            /\ x = [y EXCEPT !.pc = Handler, !.iff = FALSE, !.sp = y.sp - 2,
                             !.ram = [y.ram EXCEPT ![y.sp - 2] = l, ![y.sp - 1] = h]]
            /\ 256 * h + l = y.pc
      BY <1>1, <1>9, <2>2 DEF Interrupted
    <3>2. PICK u : u = [m EXCEPT ![Top - 2] = l, ![Top - 2 + 1] = h]
      OBVIOUS
    <3>3. PICK v : v = y.sp - 2
      OBVIOUS
    <3>4. x = [y EXCEPT !.pc = Handler, !.iff = FALSE, !.sp = v, !.ram = u]
      <4>1. Top - 2 + 1 = Top - 1
        BY StackPlace
      <4> QED BY <1>2, <1>4, <1>6, <3>1, <3>2, <3>3, <4>1
    <3>5. PutsWord(m, u, 2, l, h)
      <4>1. PutsBytes(m, u, 2, l, h)
        BY <3>2 DEF PutsBytes
      <4> QED BY <4>1, StackPut
    <3>6. Hidden(u) = n /\ u[Top - 2] = l /\ u[Top - 2 + 1] = h
      BY <1>3, <3>5 DEF PutsWord
    <3>7. x.pc = Handler /\ x.ram = u /\ x.r = y.r /\ x.f = y.f
      BY <3>4 DEF Machine
    <3>8. Look(x) = Veil(Resumed(x, 0))
      BY <3>7, HandlerPlace DEF Look
    <3>9. rw(x, Top - 2) = y.pc
      <4>1. rw(x, Top - 2) = x.ram[Top - 2] + 256 * x.ram[Top - 2 + 1]
        BY <1>1, StackWords
      <4>2. rw(x, Top - 2) = l + 256 * h
        BY <3>6, <3>7, <4>1
      <4>3. l + 256 * h = 256 * h + l
        BY ByteIs
      <4> QED BY <3>1, <4>2, <4>3
    <3>10. BackR(x, 0) = y.r /\ BackF(x, 0) = y.f
      BY <3>7 DEF BackR, BackF
    <3>11. PICK p, r, f : p = y.pc /\ r = y.r /\ f = y.f
      OBVIOUS
    <3>12. Veil(Resumed(x, 0)) = [x EXCEPT !.pc = p, !.sp = s, !.iff = TRUE, !.r = r,
                                           !.f = f, !.ram = n, !.request = FALSE]
      <4>1. Veil(Resumed(x, 0)) = [x EXCEPT !.pc = rw(x, Top - 2), !.sp = Top, !.iff = TRUE,
                              !.r = BackR(x, 0), !.f = BackF(x, 0),
                              !.ram = Hidden(x.ram), !.request = FALSE]
        BY <1>1, ResumedIs, Zenon
      <4> QED BY <1>6, <3>6, <3>7, <3>9, <3>10, <3>11, <4>1, Zenon
    <3>13. [x EXCEPT !.pc = p, !.sp = s, !.iff = TRUE, !.r = r, !.f = f, !.ram = n,
                     !.request = FALSE]
             = [y EXCEPT !.ram = n, !.request = FALSE]
      BY <1>4, <2>2, <3>4, <3>11 DEF Machine
    <3> QED BY <1>5, <2>1, <3>8, <3>12, <3>13 DEF x
  <2>3. CASE ~ (y.request /\ y.iff)
    <3>1. x = y
      BY <1>1, <1>9, <2>3
    <3>2. Look(x) = Veil(y)
      BY <1>6, <3>1 DEF Look
    <3> QED BY <2>1, <3>2 DEF x
  <2> QED BY <2>2, <2>3
<1> QED BY <1>8, <1>9

\* RETI, with interrupts open, brings the program back.
LEMMA ReturnUnseen ==
  ASSUME Cells = Word, Handler \in Word, NEW z \in Machine, NEW i, WellFormed(i), i.op = "reti",
         z.pc \in DOMAIN Depth, Depth[z.pc] = 0, z.sp = Top - 2, z.iff = TRUE, z.delay = FALSE,
         InProgram(exec_opcode(z, i))
  PROVE  Look(process_interrupts(exec_opcode(z, i))) = Look(z)
<1> DEFINE y == exec_opcode(z, i)
<1>1. Holds(z)
  BY StackPlace DEF Holds
<1>2. PICK p \in Word, q \in Registers, g \in Flags :
    /\ y = [z EXCEPT !.pc = p, !.sp = z.sp + 2, !.r = q, !.f = g]
    /\ Brings(i, z.r, z.f, rw(z, z.sp), p, q, g)
  <2>1. ShrinksTo(z, i, y)
    BY <1>1, ShrinksIs
  <2> HIDE DEF y
  <2> QED BY <2>1 DEF ShrinksTo
<1>3. y \in Machine
  BY <1>1, ShrinksIs
<1>4. PICK s : s = z.sp + 2
  OBVIOUS
<1>5. y = [z EXCEPT !.pc = p, !.sp = s, !.r = q, !.f = g]
  BY <1>2, <1>4
<1>6. s = Top
  BY <1>4, StackPlace
<1>7. p = rw(z, Top - 2) /\ q = z.r /\ g = z.f
  BY <1>2, Zenon DEF Brings
<1> HIDE DEF y
<1>8. y = Resumed(z, 0)
  <2>1. Resumed(z, 0) = [z EXCEPT !.pc = rw(z, Top - 2), !.sp = Top, !.iff = TRUE,
                                  !.r = BackR(z, 0), !.f = BackF(z, 0)]
    BY ResumedIs, Zenon
  <2>2. BackR(z, 0) = z.r /\ BackF(z, 0) = z.f
    BY DEF BackR, BackF
  <2>4. PICK e \in BOOLEAN : e = TRUE /\ e = z.iff
    OBVIOUS
  <2>3. Resumed(z, 0) = [z EXCEPT !.pc = p, !.sp = s, !.iff = e, !.r = q, !.f = g]
    BY <1>6, <1>7, <2>1, <2>2, <2>4, Zenon
  <2>5. [z EXCEPT !.pc = p, !.sp = s, !.r = q, !.f = g]
          = [z EXCEPT !.pc = p, !.sp = s, !.iff = e, !.r = q, !.f = g]
    <3>1. e = z.iff
      BY <2>4
    <3> QED BY <3>1 DEF Machine
  <2> QED BY <1>5, <2>3, <2>5, Zenon
<1>9. Look(z) = Veil(y)
  BY <1>8 DEF Look
<1>10. process_interrupts(Veil(y)) = Veil(y)
  <2>1. Veil(y) = [y EXCEPT !.ram = Hidden(y.ram), !.request = FALSE] /\ y.delay = FALSE
    BY <1>3, <1>5, VeilIs DEF Machine
  <2>2. PICK n : n = Hidden(y.ram)
    OBVIOUS
  <2>3. Veil(y).delay = FALSE /\ Veil(y).request = FALSE
    BY <1>3, <2>1, <2>2 DEF Machine
  <2> QED BY <2>3 DEF process_interrupts
<1>11. Look(process_interrupts(y)) = process_interrupts(Veil(y))
  BY <1>3, ServeUnseen DEF y
<1> QED BY <1>9, <1>10, <1>11 DEF y

\* The discipline of SavesAssumption, for one program.
Saves(code) ==
  /\ code[Handler].op # "reti"
  /\ \A a \in DOMAIN Depth :
       /\ HandlerSaves(code[a], Depth[a])
       /\ code[a].op \in {"ei", "reti"} \/ \A b \in NextOf(a, code[a]) : code[b].op # "reti"

\* The handler returns with interrupts open.
Ready(z, code) == z.pc \in DOMAIN Depth /\ code[z.pc].op = "reti" => z.iff

\* y and z give the same back also when interrupts open in y.
LEMMA OpenBack ==
  ASSUME NEW y \in Machine, NEW z, NEW d, NEW e, SameBack(y, d, z, e)
  PROVE  LET w == [y EXCEPT !.delay = FALSE, !.iff = TRUE]
         IN  w \in Machine /\ w.pc = y.pc /\ w.delay = FALSE /\ SameBack(w, d, z, e)
<1> DEFINE w == [y EXCEPT !.delay = FALSE, !.iff = TRUE]
<1>1. /\ w \in Machine /\ w.pc = y.pc /\ w.delay = FALSE
      /\ w.ram = y.ram /\ w.romOut = y.romOut /\ w.r = y.r /\ w.f = y.f
      /\ w.out = y.out /\ w.given = y.given /\ w.cyc = y.cyc
  BY DEF Machine
<1> HIDE DEF w
<1>2. \A x : rw(w, x) = rw(y, x)
  BY <1>1 DEF rw, mem_read
<1>3. SameRest(w, z)
  BY <1>1 DEF SameBack, SameRest
<1>4. BackR(w, d) = BackR(y, d) /\ BackF(w, d) = BackF(y, d)
  <2>1. rw(w, Top - 4) = rw(y, Top - 4) /\ rw(w, Top - 6) = rw(y, Top - 6)
    BY <1>2
  <2>2. PICK u, v : u = rw(y, Top - 4) /\ v = rw(y, Top - 6)
    OBVIOUS
  <2> QED BY <1>1, <2>1, <2>2, Zenon DEF BackR, BackF
<1>5. rw(w, Top - 2) = rw(y, Top - 2)
  BY <1>2
<1> QED BY <1>1, <1>3, <1>4, <1>5 DEF SameBack, w

\* What an instruction of the handler, other than RETI, leaves to give back.
LEMMA HandlerBack ==
  ASSUME Cells = Word, NEW z \in Machine, NEW i, WellFormed(i), i.op \in Straight \cup Jumps,
         ~ WritesMemory(i), NEW d \in {0, 2, 4}, HandlerSaves(i, d), z.sp = Top - 2 - d,
         DepthAfter(d, i) \in {0, 2, 4}
  PROVE  SameBack(exec_opcode(z, i), DepthAfter(d, i), z, d)
<1>1. CASE i.op \in Plain
  <2>1. i.op \notin Grows \cup Shrinks
    BY <1>1 DEF Plain, Arithmetic, Bits, Grows, Shrinks
  <2>2. DepthAfter(d, i) = d /\ Sets(i) \subseteq Free(d)
    BY <2>1 DEF DepthAfter, HandlerSaves, Grows, Shrinks
  <2> QED BY <1>1, <2>2, PlainBack
<1>2. CASE i.op \in Control
  <2>1. i.op \notin Grows \cup Shrinks
    BY <1>2 DEF Control, Jumps, Grows, Shrinks
  <2>2. DepthAfter(d, i) = d /\ Sets(i) \subseteq Free(d) /\ i.op # "rom"
    BY <2>1 DEF DepthAfter, HandlerSaves, Grows, Shrinks
  <2> QED BY <1>2, <2>2, ControlBack
<1>3. CASE i.op \in Grows
  <2>1. DepthAfter(d, i) = d + 2
    BY <1>3 DEF DepthAfter
  <2>2. (d = 0 /\ i.op = "pushaf") \/ (d = 2 /\ i.op = "push" /\ i.x = "hl")
    BY <1>3 DEF HandlerSaves, Grows
  <2> QED BY <1>3, <2>1, <2>2, GrowsBack
<1>4. CASE i.op \in Shrinks
  <2>1. DepthAfter(d, i) = d - 2
    BY <1>4 DEF DepthAfter, Grows, Shrinks
  <2>2. (d = 2 /\ i.op = "popaf") \/ (d = 4 /\ i.op = "pop" /\ i.x = "hl")
    BY <1>4 DEF HandlerSaves, Shrinks
  <2> QED BY <1>4, <2>1, <2>2, ShrinksBack
<1> QED BY <1>1, <1>2, <1>3, <1>4 DEF Plain, Control, Straight, Loads, Grows, Shrinks

\* The invariant of one program that runs.
Steady(z, code) == z \in Machine /\ Sound(z, code) /\ Ready(z, code)

LEMMA HandlerUnseen ==
  ASSUME Cells = Word, NEW code, Obeys(code), Saves(code), NEW z, Steady(z, code),
         InHandler(z, code), code[z.pc].op # "reti"
  PROVE  LET x == process_interrupts(exec_opcode(z, code[z.pc]))
         IN  Look(x) = Look(z) /\ x \in Machine /\ Ready(x, code)
<1> DEFINE i == code[z.pc]
           y == exec_opcode(z, i)
           x == process_interrupts(y)
<1>1. z \in Machine /\ Sound(z, code) /\ z.delay = FALSE
  BY DEF Steady, Sound
<1>2. z.pc \in DOMAIN Depth /\ z.pc \in DOMAIN code /\ WellFormed(i)
  BY DEF InHandler, Obeys
<1>3. /\ i.op \in Straight \cup Jumps /\ ~ WritesMemory(i)
      /\ z.sp = Top - 2 - Depth[z.pc] /\ Depth[z.pc] \in {0, 2, 4}
      /\ InHandler(y, code) /\ y.pc \in NextOf(z.pc, i)
      /\ Depth[y.pc] = DepthAfter(Depth[z.pc], i) /\ Depth[y.pc] \in {0, 2, 4}
      /\ y.iff = FALSE /\ y.request \in BOOLEAN /\ y.delay = (i.op = "ei")
  BY <1>1, <1>2, HandlerRuns
<1>4. PICK d \in {0, 2, 4}, e \in {0, 2, 4} : d = Depth[z.pc] /\ e = Depth[y.pc]
  BY <1>3
<1>5. HandlerSaves(i, d) /\ (i.op = "ei" \/ code[y.pc].op # "reti")
  BY <1>2, <1>3, <1>4 DEF Saves
<1>6. SameBack(y, e, z, d)
  <2>1. z.sp = Top - 2 - d /\ DepthAfter(d, i) = e
    BY <1>3, <1>4
  <2> HIDE DEF i, y
  <2>2. SameBack(exec_opcode(z, i), DepthAfter(d, i), z, d)
    BY <1>1, <1>2, <1>3, <1>5, <2>1, HandlerBack
  <2> QED BY <2>1, <2>2 DEF y
<1>7. y \in Machine
  <2>1. i.op \in Grows => 2 <= z.sp
    <3>1. i.op \in Grows => d \in {0, 2}
      BY <1>5 DEF HandlerSaves, Grows
    <3> QED BY <1>3, <1>4, <3>1, StackPlace
  <2>2. i.op \in Shrinks \cup {"reti"} => Holds(z)
    BY <1>3, <1>4, StackPlace DEF Holds
  <2> HIDE DEF i
  <2> QED BY <1>1, <1>2, <2>1, <2>2, ExecTyped
<1> HIDE DEF i, y
<1>8. x \in Machine /\ x.pc = y.pc /\ x.delay = FALSE /\ SameBack(x, e, z, d)
      /\ (i.op = "ei" => x.iff = TRUE)
  <2>1. CASE i.op = "ei"
    <3>1. y.delay
      BY <1>3, <2>1
    <3>2. x = [y EXCEPT !.delay = FALSE, !.iff = TRUE]
      BY <3>1 DEF process_interrupts
    <3>3. x.iff = TRUE
      BY <1>7, <3>2 DEF Machine
    <3> HIDE DEF x
    <3>4. LET w == [y EXCEPT !.delay = FALSE, !.iff = TRUE]
          IN  w \in Machine /\ w.pc = y.pc /\ w.delay = FALSE /\ SameBack(w, e, z, d)
      BY <1>6, <1>7, OpenBack, Zenon
    <3> QED BY <3>2, <3>3, <3>4, Zenon
  <2>2. CASE i.op # "ei"
    <3>1. ~ y.delay /\ ~ y.iff
      BY <1>3, <2>2
    <3>2. x = y
      BY <3>1 DEF process_interrupts
    <3>3. x.delay = FALSE
      BY <1>7, <3>1, <3>2 DEF Machine
    <3> QED BY <1>6, <1>7, <2>2, <3>2, <3>3
  <2> QED BY <2>1, <2>2
<1> HIDE DEF x
<1>9. Veil(Resumed(x, e)) = Veil(Resumed(z, d))
  <2>1. x.delay = z.delay
    BY <1>1, <1>8, Zenon
  <2> QED BY <1>1, <1>8, <2>1, SameResumed
<1>10. x.pc \in DOMAIN Depth
  BY <1>3, <1>8 DEF InHandler
<1>11. Look(x) = Look(z)
  BY <1>2, <1>4, <1>8, <1>9, <1>10 DEF Look
<1>12. Ready(x, code)
  BY <1>5, <1>8 DEF Ready
<1> QED BY <1>8, <1>11, <1>12 DEF i, y, x

LEMMA ServedReady ==
  ASSUME Cells = Word, Handler \in Word, NEW code, Saves(code), NEW y \in Machine, InProgram(y)
  PROVE  process_interrupts(y) \in Machine /\ Ready(process_interrupts(y), code)
<1> DEFINE x == process_interrupts(y)
<1>1. /\ x \in Machine
      /\ y.delay => x = [y EXCEPT !.delay = FALSE, !.iff = TRUE]
      /\ y.request /\ y.iff /\ ~ y.delay => Interrupted(y, x)
      /\ ~ y.delay /\ ~ (y.request /\ y.iff) => x = y
  <2>1. y.request /\ y.iff /\ ~ y.delay => 2 <= y.sp
    BY StackPlace DEF InProgram
  <2> QED BY <2>1, ServedIs
<1> HIDE DEF x
<1>2. x.pc = y.pc \/ x.pc = Handler
  <2>1. y.delay \in BOOLEAN
    BY DEF Machine
  <2>2. CASE y.delay
    BY <1>1, <2>2 DEF Machine
  <2>3. CASE ~ y.delay /\ y.request /\ y.iff
    <3>1. PICK l \in Byte, h \in Byte :
            x = [y EXCEPT !.pc = Handler, !.iff = FALSE, !.sp = y.sp - 2,
                          !.ram = [y.ram EXCEPT ![y.sp - 2] = l, ![y.sp - 1] = h]]
      BY <1>1, <2>3 DEF Interrupted
    <3>2. PICK s, m : s = y.sp - 2 /\ m = [y.ram EXCEPT ![y.sp - 2] = l, ![y.sp - 1] = h]
      OBVIOUS
    <3>3. x = [y EXCEPT !.pc = Handler, !.iff = FALSE, !.sp = s, !.ram = m]
      BY <3>1, <3>2
    <3> QED BY <3>3 DEF Machine
  <2>4. CASE ~ y.delay /\ ~ (y.request /\ y.iff)
    BY <1>1, <2>4
  <2> QED BY <2>1, <2>2, <2>3, <2>4
<1>3. Ready(x, code)
  BY <1>2 DEF Ready, Saves, InProgram, Elsewhere
<1> QED BY <1>1, <1>3 DEF x

\* The program's instruction reaches the stack.
Reaches(z, i) == \E p \in Pointers(i) : Pair(z.r, p) \in Stack

LEMMA ProgramSeen ==
  ASSUME Cells = Word, Handler \in Word, NEW code, Obeys(code), Saves(code), NEW z, Steady(z, code),
         z.pc \in DOMAIN code, InProgram(z)
  PROVE  LET x == process_interrupts(exec_opcode(z, code[z.pc]))
         IN  /\ x \in Machine /\ Ready(x, code)
             /\ ~ Reaches(z, code[z.pc])
                  => Look(x) = process_interrupts(exec_opcode(Look(z), code[Look(z).pc]))
<1> DEFINE i == code[z.pc]
           y == exec_opcode(z, i)
<1>1. z \in Machine /\ Sound(z, code) /\ WellFormed(i) /\ z.pc \notin DOMAIN Depth
  BY DEF Steady, Obeys, InProgram, Elsewhere
<1>2. i.op \in ((Straight \cup Jumps) \ (Grows \cup Shrinks)) \cup Blocks
  BY <1>1 DEF Obeys, ProgramKeeps
<1>3. Veils(z, i)
  <2> HIDE DEF i
  <2>1. i.op \in Plain \cup Control \cup Blocks
    BY <1>2 DEF Plain, Control, Straight, Loads, Grows, Shrinks
  <2> QED BY <1>1, <2>1, PlainVeils, ControlVeils, BlockVeils
<1>4. InProgram(y)
  BY <1>1, ProgramRuns
<1>5. y \in Machine
  BY <1>3 DEF Veils
<1>6. Look(z) = Veil(z) /\ Look(z).pc = z.pc
  <2>1. Look(z) = Veil(z)
    BY <1>1 DEF Look
  <2>2. PICK n : n = Hidden(z.ram)
    OBVIOUS
  <2>3. Veil(z) = [z EXCEPT !.ram = n, !.request = FALSE]
    BY <1>1, <2>2, VeilIs
  <2>4. Veil(z).pc = z.pc
    BY <1>1, <2>3 DEF Machine
  <2> QED BY <2>1, <2>4
<1> HIDE DEF i, y
<1>7. Look(process_interrupts(y)) = process_interrupts(Veil(y))
  BY <1>4, <1>5, ServeUnseen
<1>8. process_interrupts(y) \in Machine /\ Ready(process_interrupts(y), code)
  BY <1>4, <1>5, ServedReady
<1>9. ASSUME ~ Reaches(z, i)
      PROVE  Look(process_interrupts(y)) = process_interrupts(exec_opcode(Look(z), i))
  <2>1. exec_opcode(Veil(z), i) = Veil(y)
    BY <1>3, <1>9 DEF Veils, Reaches, y
  <2> QED BY <1>6, <1>7, <2>1
<1> QED BY <1>6, <1>8, <1>9 DEF i, y

LEMMA StepUnseen ==
  ASSUME Cells = Word, NEW code, Obeys(code), Saves(code), NEW z, Steady(z, code),
         z.pc \in DOMAIN code
  PROVE  LET x == process_interrupts(exec_opcode(z, code[z.pc]))
         IN  /\ Steady(x, code)
             /\ z.pc \in DOMAIN Depth => Look(x) = Look(z)
             /\ z.pc \notin DOMAIN Depth /\ ~ Reaches(z, code[z.pc])
                  => Look(x) = process_interrupts(exec_opcode(Look(z), code[Look(z).pc]))
<1> DEFINE i == code[z.pc]
           y == exec_opcode(z, i)
           x == process_interrupts(y)
<1>1. z \in Machine /\ Sound(z, code) /\ Ready(z, code) /\ WellFormed(i)
  BY DEF Steady, Obeys
<1>2. Handler \in Word
  BY HandlerPlace DEF Obeys
<1>3. Sound(x, code)
  BY <1>1, StepSound
<1>4. CASE InProgram(z)
  <2>1. z.pc \notin DOMAIN Depth
    BY <1>4 DEF InProgram, Elsewhere
  <2>2. /\ x \in Machine /\ Ready(x, code)
        /\ ~ Reaches(z, code[z.pc])
             => Look(x) = process_interrupts(exec_opcode(Look(z), code[Look(z).pc]))
    BY <1>2, <1>4, ProgramSeen, Zenon
  <2> HIDE DEF x
  <2> QED BY <1>3, <2>1, <2>2, Zenon DEF Steady, x
<1>5. CASE InHandler(z, code) /\ i.op # "reti"
  <2>1. z.pc \in DOMAIN Depth
    BY <1>5 DEF InHandler
  <2>2. Look(x) = Look(z) /\ x \in Machine /\ Ready(x, code)
    BY <1>5, HandlerUnseen, Zenon
  <2> HIDE DEF x
  <2> QED BY <1>3, <2>1, <2>2, Zenon DEF Steady, x
<1>6. CASE InHandler(z, code) /\ i.op = "reti"
  <2>1. z.pc \in DOMAIN Depth
    BY <1>6 DEF InHandler
  <2>2. z.iff = TRUE /\ z.delay = FALSE
    BY <1>1, <1>6, <2>1 DEF Ready, Sound
  <2>3. Depth[z.pc] = 0 /\ z.sp = Top - 2 /\ InProgram(y)
    BY <1>1, <1>6, HandlerReturns
  <2>4. y \in Machine
    <3>1. Holds(z)
      BY <2>3, StackPlace DEF Holds
    <3> QED BY <1>1, <1>6, <3>1, ShrinksIs
  <2>5. Look(x) = Look(z)
    <3> HIDE DEF i
    <3> QED BY <1>1, <1>2, <1>6, <2>1, <2>2, <2>3, ReturnUnseen
  <2> HIDE DEF i, y
  <2>6. x \in Machine /\ Ready(x, code)
    BY <1>2, <2>3, <2>4, ServedReady
  <2> HIDE DEF x
  <2> QED BY <1>3, <2>1, <2>5, <2>6, Zenon DEF Steady, i, y, x
<1> QED BY <1>1, <1>4, <1>5, <1>6 DEF Sound

-----------------------------------------------------------------------------
\* The first invariant, and its theorems.

SteadyInv == prog \in DOMAIN Programs /\ Steady(cpu, Programs[prog])

LEMMA Kept == \A p \in DOMAIN Programs : Obeys(Programs[p]) /\ Saves(Programs[p])
<1> SUFFICES ASSUME NEW p \in DOMAIN Programs PROVE Obeys(Programs[p]) /\ Saves(Programs[p])
  OBVIOUS
<1>1. Obeys(Programs[p])
  BY GuestAssumption, Zenon DEF Obeys
<1>2. Saves(Programs[p])
  BY SavesAssumption, Zenon DEF Saves
<1> QED BY <1>1, <1>2

LEMMA SteadyInit ==
  ASSUME Cells = Word
  PROVE  Z80Init => SteadyInv
<1> SUFFICES ASSUME Z80Init PROVE SteadyInv
  OBVIOUS
<1>1. StackInv
  BY StackInvInit
<1>2. prog \in DOMAIN Programs /\ prog \in DOMAIN Inputs
  BY NamesAssumption DEF Z80Init
<1>3. PICK i \in Inputs[prog] : cpu = Fresh(i)
  BY DEF Z80Init
<1>4. i.r \in Registers /\ i.f \in Flags /\ i.romOut \in BOOLEAN
  BY <1>2, <1>3, InputsAssumption DEF Registers, Names
<1>5. Origin \in Word /\ Top \in Word /\ FirstRam \in [Cells -> Byte] /\ 0 \in Byte
  BY AddressAssumption, MemoryAssumption, ByteIs, WordIs DEF Origin
<1>6. PICK r \in Registers, f \in Flags, o \in BOOLEAN : r = i.r /\ f = i.f /\ o = i.romOut
  BY <1>4
<1>7. PICK p \in Word, e \in Seq(Byte) : p = Origin /\ e = <<>>
  <2>1. <<>> \in Seq(Byte)
    OBVIOUS
  <2> QED BY <1>5, <2>1
<1>8. cpu = [pc |-> p, sp |-> Top, r |-> r, f |-> f, ram |-> FirstRam,
             romOut |-> o, iff |-> TRUE, delay |-> FALSE, request |-> FALSE,
             out |-> e, given |-> 0, cyc |-> 0]
  BY <1>3, <1>6, <1>7, Zenon DEF Fresh
<1>9. cpu \in Machine /\ cpu.pc = p
  BY <1>5, <1>8 DEF Machine
<1>10. Ready(cpu, Programs[prog])
  BY <1>2, <1>7, <1>9, GuestAssumption DEF Ready
<1> QED BY <1>1, <1>9, <1>10 DEF SteadyInv, Steady, StackInv

LEMMA RaiseUnseen ==
  ASSUME Cells = Word, NEW code, NEW z, Steady(z, code)
  PROVE  LET x == [z EXCEPT !.request = TRUE]
         IN  Look(x) = Look(z) /\ x \in Machine /\ Ready(x, code)
<1> DEFINE x == [z EXCEPT !.request = TRUE]
<1>1. z \in Machine /\ Ready(z, code)
  BY DEF Steady
<1>2. /\ x \in Machine /\ x.pc = z.pc /\ x.ram = z.ram /\ x.romOut = z.romOut /\ x.r = z.r
      /\ x.f = z.f /\ x.out = z.out /\ x.given = z.given /\ x.cyc = z.cyc
  BY <1>1 DEF Machine
<1>3. x.iff = z.iff /\ x.delay = z.delay
  BY <1>1 DEF Machine
<1>4. ASSUME z.pc \in DOMAIN Depth PROVE Look(x) = Look(z)
  <2> HIDE DEF x
  <2>1. PICK d \in {0, 2, 4} : d = Depth[z.pc]
    BY <1>4, StackPlace
  <2>2. SameRest(x, z)
    BY <1>2 DEF SameRest
  <2>3. \A a \in Names \ Free(d) : x.r[a] = z.r[a]
    BY <1>2
  <2>4. SameBack(x, d, z, d)
    BY <1>1, <1>2, <2>2, <2>3, FreeBack
  <2>5. Veil(Resumed(x, d)) = Veil(Resumed(z, d))
    BY <1>1, <1>2, <1>3, <2>4, SameResumed
  <2> QED BY <1>2, <1>4, <2>1, <2>5 DEF Look
<1>5. ASSUME z.pc \notin DOMAIN Depth PROVE Look(x) = Look(z)
  <2>1. Look(x) = Veil(x) /\ Look(z) = Veil(z)
    BY <1>2, <1>5 DEF Look
  <2>2. PICK n : n = Hidden(z.ram)
    OBVIOUS
  <2>3. Veil(z) = [z EXCEPT !.ram = n, !.request = FALSE]
    BY <1>1, <2>2, VeilIs
  <2>4. Veil(x) = [x EXCEPT !.ram = n, !.request = FALSE]
    BY <1>2, <2>2, VeilIs
  <2>5. [x EXCEPT !.ram = n, !.request = FALSE] = [z EXCEPT !.ram = n, !.request = FALSE]
    BY <1>1 DEF Machine
  <2> QED BY <2>1, <2>3, <2>4, <2>5
<1>6. Ready(x, code)
  <2> HIDE DEF x
  <2> QED BY <1>1, <1>2, <1>3, Zenon DEF Ready
<1> QED BY <1>2, <1>4, <1>5, <1>6

LEMMA SteadyNext ==
  ASSUME Cells = Word
  PROVE  SteadyInv /\ [Z80Next]_z80Vars => SteadyInv'
<1> SUFFICES ASSUME SteadyInv, [Z80Next]_z80Vars PROVE SteadyInv'
  OBVIOUS
<1> DEFINE code == Programs[prog]
<1>1. prog \in DOMAIN Programs /\ Steady(cpu, code)
  BY DEF SteadyInv
<1>2. CASE Step
  <2>1. prog' = prog /\ cpu.pc \in DOMAIN code
        /\ cpu' = process_interrupts(exec_opcode(cpu, code[cpu.pc]))
    BY <1>2 DEF Step, Running, z80_step
  <2>2. Obeys(code) /\ Saves(code)
    BY <1>1, Kept
  <2> HIDE DEF code
  <2>3. Steady(process_interrupts(exec_opcode(cpu, code[cpu.pc])), code)
    BY <1>1, <2>1, <2>2, StepUnseen
  <2> QED BY <1>1, <2>1, <2>3 DEF SteadyInv, code
<1>3. CASE Raise
  <2>1. prog' = prog /\ cpu' = [cpu EXCEPT !.request = TRUE]
    BY <1>3 DEF Raise
  <2>2. cpu' \in Machine /\ Ready(cpu', code)
    <3> HIDE DEF code
    <3>1. LET x == [cpu EXCEPT !.request = TRUE] IN x \in Machine /\ Ready(x, code)
      BY <1>1, RaiseUnseen, Zenon
    <3> QED BY <2>1, <3>1, Zenon
  <2>3. StackInv'
    BY <1>1, StackInvNext DEF StackInv, Steady
  <2> QED BY <1>1, <2>1, <2>2, <2>3 DEF SteadyInv, Steady, StackInv
<1>4. CASE UNCHANGED z80Vars
  BY <1>4 DEF z80Vars, SteadyInv
<1> QED BY <1>2, <1>3, <1>4 DEF Z80Next

\* Whatever the program and whenever interrupts come, every part of the CPU keeps
\* its width (z80.h:14-46): an 8-bit register holds a byte, a pointer a word, and
\* a flag a bit, through all of the instructions modelled (z80.c:1103-1692).
THEOREM CpuKeepsWidths ==
  ASSUME Cells = Word
  PROVE  Z80Spec => [](cpu \in Machine)
<1>1. SteadyInv => cpu \in Machine
  BY DEF SteadyInv, Steady
<1>2. Z80Init => SteadyInv
  BY SteadyInit
<1>3. SteadyInv /\ [Z80Next]_z80Vars => SteadyInv'
  BY SteadyNext
<1> QED BY <1>1, <1>2, <1>3, PTL DEF Z80Spec

\* A program does not notice interrupts, of any number and at any time.  Each of
\* its instructions, those that open or close interrupts included, does to what it
\* sees what it does when no interrupt comes, also if one is served right after it
\* (z80.c:668-700); and neither a request nor an instruction of the handler, which
\* pushes, changes and pops AF and HL, changes anything it sees.
THEOREM ProgramsSeeNoInterrupt ==
  ASSUME Cells = Word
  PROVE  Z80Spec => InterruptsUnseen
<1> DEFINE Unseen == /\ Serving \/ Raise => Seen' = Seen
                     /\ Step /\ ~ Serving /\ ~ Trespasses => Seen' = z80_step(Seen)
<1>1. SteadyInv /\ [Z80Next]_z80Vars => [Unseen]_z80Vars
  <2> SUFFICES ASSUME SteadyInv, [Z80Next]_z80Vars, ~ UNCHANGED z80Vars PROVE Unseen
    OBVIOUS
  <2> DEFINE code == Programs[prog]
  <2>1. prog \in DOMAIN Programs /\ Steady(cpu, code)
    BY DEF SteadyInv
  <2>2. Seen = Look(cpu) /\ Seen' = Look(cpu')
    BY DEF Seen, Serving, Look
  <2>3. Obeys(code) /\ Saves(code)
    BY <2>1, Kept
  <2>4. Trespasses = Reaches(cpu, code[cpu.pc]) /\ (Serving = (cpu.pc \in DOMAIN Depth))
    BY DEF Trespasses, Reaches, Serving
  <2>5. z80_step(Seen) = process_interrupts(exec_opcode(Seen, code[Seen.pc]))
    BY DEF z80_step
  <2> HIDE DEF code
  <2>6. ASSUME Step
        PROVE  /\ Serving => Seen' = Seen
               /\ ~ Serving /\ ~ Trespasses => Seen' = z80_step(Seen)
    <3>1. cpu.pc \in DOMAIN code /\ cpu' = process_interrupts(exec_opcode(cpu, code[cpu.pc]))
      BY <2>6 DEF Step, Running, z80_step, code
    <3>2. LET x == process_interrupts(exec_opcode(cpu, code[cpu.pc]))
          IN  /\ Steady(x, code)
              /\ cpu.pc \in DOMAIN Depth => Look(x) = Look(cpu)
              /\ cpu.pc \notin DOMAIN Depth /\ ~ Reaches(cpu, code[cpu.pc])
                  => Look(x) = process_interrupts(exec_opcode(Look(cpu), code[Look(cpu).pc]))
      BY <2>1, <2>3, <3>1, StepUnseen, Zenon
    <3> QED BY <2>2, <2>4, <2>5, <3>1, <3>2, Zenon
  <2>7. ASSUME Raise PROVE Seen' = Seen
    <3>1. cpu' = [cpu EXCEPT !.request = TRUE]
      BY <2>7 DEF Raise
    <3>2. LET x == [cpu EXCEPT !.request = TRUE] IN Look(x) = Look(cpu)
      BY <2>1, RaiseUnseen, Zenon
    <3> QED BY <2>2, <3>1, <3>2, Zenon
  <2>8. Step \/ Raise
    BY DEF Z80Next
  <2> QED BY <2>6, <2>7, <2>8
<1>2. Z80Init => SteadyInv
  BY SteadyInit
<1>3. SteadyInv /\ [Z80Next]_z80Vars => SteadyInv'
  BY SteadyNext
<1> QED BY <1>1, <1>2, <1>3, PTL DEF Z80Spec, InterruptsUnseen

-----------------------------------------------------------------------------
\* A program of one repeating block instruction: the places of its rounds.

\* The address of round k, as At has it.
Spot(v, w, k) == (w + (IF v = 1 THEN k ELSE 65536 - k)) % 65536

LEMMA SpotIs ==
  ASSUME NEW v, NEW w \in Word, NEW m \in Word, NEW up, up <=> v = 1
  PROVE  /\ Spot(v, w, m) \in Word /\ Spot(v, w, 0) = w
         /\ Along(Spot(v, w, m), up) = Spot(v, w, m + 1)
         /\ \A j \in Int : 0 <= j /\ j < m => Spot(v, w, j) # Spot(v, w, m)
<1>1. PICK a \in Int : a = w /\ 0 <= a /\ a <= 65535
  BY WordIs
<1> m \in Int /\ 0 <= m /\ m <= 65535
  BY WordIs
<1>2. CASE v = 1
  <2>1. \A j : Spot(v, w, j) = (a + j) % 65536
    BY <1>1, <1>2 DEF Spot
  <2>2. PICK x \in Int, y \in Int : x = (a + m) % 65536 /\ y = (a + (m + 1)) % 65536
    BY <1>1
  <2>3. 0 <= x /\ x <= 65535 /\ (x + 1) % 65536 = y /\ (a + 0) % 65536 = a
    BY <1>1, <2>2, Z3
  <2>4. ASSUME NEW j \in Int, 0 <= j, j < m PROVE (a + j) % 65536 # (a + m) % 65536
    BY <1>1, <2>4, Z3
  <2>5. Along(x, up) = y
    <3>1. Above(x, 1) = y
      BY <2>3 DEF Above
    <3>2. up
      BY <1>2
    <3> QED BY <3>1, <3>2 DEF Along
  <2>6. x \in Word
    BY <2>2, <2>3, WordIs
  <2> QED BY <1>1, <2>1, <2>2, <2>3, <2>4, <2>5, <2>6
<1>3. CASE v # 1
  <2>1. \A j : Spot(v, w, j) = (a + (65536 - j)) % 65536
    BY <1>1, <1>3 DEF Spot
  <2>2. PICK x \in Int, y \in Int : x = (a + (65536 - m)) % 65536 /\ y = (a + (65536 - (m + 1))) % 65536
    BY <1>1
  <2>3. 0 <= x /\ x <= 65535 /\ (x + 65536 - 1) % 65536 = y /\ (a + (65536 - 0)) % 65536 = a
    BY <1>1, <2>2, Z3
  <2>4. ASSUME NEW j \in Int, 0 <= j, j < m PROVE (a + (65536 - j)) % 65536 # (a + (65536 - m)) % 65536
    BY <1>1, <2>4, Z3
  <2>5. Along(x, up) = y
    <3>1. Below(x, 1) = y
      BY <2>3 DEF Below
    <3>2. ~ up
      BY <1>3
    <3> QED BY <3>1, <3>2 DEF Along
  <2>6. x \in Word
    BY <2>2, <2>3, WordIs
  <2>7. Spot(v, w, m) = x /\ Spot(v, w, m + 1) = y
    BY <2>1, <2>2
  <2>8. Spot(v, w, 0) = w
    BY <1>1, <2>1, <2>3
  <2>9. ASSUME NEW j \in Int, 0 <= j, j < m PROVE Spot(v, w, j) # Spot(v, w, m)
    BY <2>1, <2>4, <2>9
  <2> QED BY <2>5, <2>6, <2>7, <2>8, <2>9
<1> QED BY <1>2, <1>3

Loops(i) == WellFormed(i) /\ i.op = "repeat" /\ i.len = 2

Quiet(s) == s \in Machine /\ s.pc = Origin /\ s.delay = FALSE /\ s.request = FALSE

\* What a round does, between two interrupts.
RoundFrom(s, i, up, x) ==
  LET due == Due(s, i.k, up)
  IN  /\ x \in Machine /\ x.r = NewR(s, i.k, up) /\ x.f = NewF(s, i.k, up) /\ x.romOut = s.romOut
      /\ x.pc = IF due THEN Origin ELSE Origin + 2
      /\ x.cyc = s.cyc + (IF due /\ ~ (i.k = "ot" /\ ~ up) THEN 21 ELSE 16)
      /\ i.k = "ld" => x.ram = [s.ram EXCEPT ![Pair(s.r, "de")] = ReadsAt(s)]
      /\ i.k = "in" => /\ x.ram = [s.ram EXCEPT ![Pair(s.r, "hl")] = Gives(s.given)]
                       /\ x.given = Gives(s.given)
      /\ i.k \in {"cp", "ot"} => x.ram = s.ram
      /\ i.k = "ot" => x.out = Append(s.out, ReadsAt(s))

LEMMA Loop ==
  ASSUME Cells = Word, NEW s, Quiet(s), NEW i, Loops(i), NEW up, up = (i.v = 1)
  PROVE  RoundFrom(s, i, up, process_interrupts(exec_opcode(s, i))) /\ i.k \in Kinds
<1>1. s \in Machine /\ s.pc = Origin /\ WellFormed(i) /\ i.op \in Blocks
  BY DEF Quiet, Loops, Blocks
<1> DEFINE k == i.k
           e == exec_opcode(s, i)
           y == Round(s, k, up)
<1>2. /\ e = [y EXCEPT !.pc = Ahead(s, i), !.cyc = s.cyc + Costs(s, i)]
      /\ e \in Machine /\ k \in Kinds
  BY <1>1, BlockRuns
<1>3. /\ y \in Machine /\ y.r = NewR(s, k, up) /\ y.f = NewF(s, k, up)
  BY <1>1, <1>2, RoundIs
<1>4. PICK t \in BOOLEAN : t = Due(s, k, up)
  <2> HIDE DEF k
  <2>1. PICK n, b : n = Pair(NewR(s, k, up), "bc") /\ b = NewR(s, k, up).b
    OBVIOUS
  <2>2. PICK g : g = NewF(s, k, up).z
    OBVIOUS
  <2>3. /\ (n # 0) \in BOOLEAN /\ (n # 0 /\ g = 0) \in BOOLEAN /\ (b > 0) \in BOOLEAN
    OBVIOUS
  <2>4. CASE k = "ld"
    <3>1. Due(s, k, up) = (n # 0)
      BY <2>1, <2>4 DEF Due
    <3> QED BY <2>3, <3>1
  <2>5. CASE k = "cp"
    <3>1. Due(s, k, up) = (n # 0 /\ g = 0)
      BY <2>1, <2>2, <2>5 DEF Due
    <3> QED BY <2>3, <3>1
  <2>6. CASE k \in {"in", "ot"}
    <3>1. Due(s, k, up) = (b > 0)
      BY <2>1, <2>6 DEF Due
    <3> QED BY <2>3, <3>1
  <2> QED BY <1>2, <2>4, <2>5, <2>6 DEF Kinds
<1>5. Ahead(s, i) = IF t THEN Origin ELSE Origin + 2
  <2>1. PICK a : a = Above(s.pc, 2)
    OBVIOUS
  <2>2. a = Origin + 2 /\ Below(a, 2) = Origin
    BY <1>1, <2>1 DEF Above, Below, Origin
  <2>3. Ahead(s, i) = IF t THEN Below(a, 2) ELSE a
    BY <1>4, <2>1 DEF Ahead, Loops
  <2> QED BY <2>2, <2>3
<1>6. Costs(s, i) = IF t /\ ~ (k = "ot" /\ ~ up) THEN 21 ELSE 16
  BY <1>4 DEF Costs, Loops
<1>7. PICK p, c : p = Ahead(s, i) /\ c = s.cyc + Costs(s, i)
  OBVIOUS
<1>8. PICK q, g, m : q = NewR(s, k, up) /\ g = NewF(s, k, up) /\ m = ReadsAt(s)
  OBVIOUS
<1>9. y = Effect(s, k, q, g, m)
  BY <1>8 DEF Round
<1> HIDE DEF y, e
<1>10. e = [y EXCEPT !.pc = p, !.cyc = c]
  BY <1>2, <1>7
<1>11. PICK d, h, w : /\ d = [s.ram EXCEPT ![Pair(s.r, "de")] = m]
                      /\ h = [s.ram EXCEPT ![Pair(s.r, "hl")] = Gives(s.given)]
                      /\ w = Append(s.out, m)
  OBVIOUS
<1>12. PICK u : u = Gives(s.given)
  OBVIOUS
<1>13. /\ y.delay = s.delay /\ y.request = s.request /\ y.romOut = s.romOut
       /\ k = "ld" => y.ram = d
       /\ k = "in" => y.ram = h /\ y.given = u
       /\ k \in {"cp", "ot"} => y.ram = s.ram
       /\ k = "ot" => y.out = w
  <2>1. CASE k = "ld"
    <3>1. y = [s EXCEPT !.r = q, !.f = g, !.ram = d]
      BY <1>9, <1>11, <2>1 DEF Effect
    <3> QED BY <1>1, <2>1, <3>1 DEF Machine
  <2>2. CASE k = "cp"
    <3>1. y = [s EXCEPT !.r = q, !.f = g]
      BY <1>9, <2>2 DEF Effect
    <3> QED BY <1>1, <2>2, <3>1 DEF Machine
  <2>3. CASE k = "in"
    <3>1. y = [s EXCEPT !.r = q, !.f = g, !.given = u, !.ram = h]
      BY <1>9, <1>11, <1>12, <2>3 DEF Effect
    <3> QED BY <1>1, <2>3, <3>1 DEF Machine
  <2>4. CASE k = "ot"
    <3>1. y = [s EXCEPT !.r = q, !.f = g, !.out = w]
      BY <1>9, <1>11, <2>4 DEF Effect
    <3> QED BY <1>1, <2>4, <3>1 DEF Machine
  <2> QED BY <1>2, <2>1, <2>2, <2>3, <2>4 DEF Kinds
<1>14. /\ e.pc = p /\ e.cyc = c /\ e.r = y.r /\ e.f = y.f /\ e.ram = y.ram /\ e.romOut = y.romOut
       /\ e.given = y.given /\ e.out = y.out /\ e.delay = y.delay
  BY <1>3, <1>10 DEF Machine
<1>15. process_interrupts(e) = e
  <2>1. e.request = y.request
    BY <1>3, <1>10 DEF Machine
  <2>2. ~ e.delay /\ ~ e.request
    BY <1>13, <1>14, <2>1 DEF Quiet
  <2> QED BY <2>2 DEF process_interrupts
<1> HIDE DEF k
<1>16. RoundFrom(s, i, up, e)
  BY <1>2, <1>3, <1>4, <1>5, <1>6, <1>7, <1>8, <1>11, <1>12, <1>13, <1>14 DEF RoundFrom, k
<1> QED BY <1>2, <1>15, <1>16 DEF e, k

LEMMA SpotInWord ==
  ASSUME NEW v, NEW w \in Word, NEW m \in Word
  PROVE  Spot(v, w, m) \in Word
BY SpotIs

LEMMA SpotsApart ==
  ASSUME NEW v, NEW w \in Word, NEW m \in Word
  PROVE  \A j \in Int : 0 <= j /\ j < m => Spot(v, w, j) # Spot(v, w, m)
BY SpotIs

LEMMA ReadSame ==
  ASSUME NEW y, NEW z, NEW x, y.romOut = z.romOut, y.ram[x] = z.ram[x]
  PROVE  mem_read(y, x) = mem_read(z, x)
BY DEF mem_read

\* How many rounds are left of n after m, in a counter of 16 or 8 bits.
Left(n, m) == (n - m) % 65536
LeftInByte(n, m) == (n - m) % 256
WordCount(n) == n \in Int /\ 1 <= n /\ n <= 65536
ByteCount(n) == n \in Int /\ 1 <= n /\ n <= 256

LEMMA WordsLeft ==
  ASSUME NEW n, WordCount(n), NEW m \in Int, 0 <= m, m < n, NEW c, c = Left(n, m)
  PROVE  Below(c, 1) = Left(n, m + 1) /\ (Left(n, m + 1) = 0 <=> m + 1 = n)
         /\ Left(n, m + 1) = n - (m + 1)
<1>1. PICK k \in Int : k = n - m /\ 1 <= k /\ k <= 65536
  BY DEF WordCount
<1>2. c = k % 65536 /\ n - (m + 1) = k - 1
  BY <1>1 DEF WordCount, Left
<1>3. ((k % 65536) + 65536 - 1) % 65536 = (k - 1) % 65536 /\ (k - 1) % 65536 = k - 1
  BY <1>1, Z3
<1>4. m + 1 = n <=> k - 1 = 0
  BY <1>1 DEF WordCount
<1> QED BY <1>1, <1>2, <1>3, <1>4 DEF Below, Left

LEMMA BytesLeft ==
  ASSUME NEW n, ByteCount(n), NEW m \in Int, 0 <= m, m < n, NEW c, c = LeftInByte(n, m)
  PROVE  /\ (c + 255) % 256 = LeftInByte(n, m + 1)
         /\ (LeftInByte(n, m + 1) > 0 <=> m + 1 < n) /\ LeftInByte(n, m + 1) = n - (m + 1)
<1>1. PICK k \in Int : k = n - m /\ 1 <= k /\ k <= 256
  BY DEF ByteCount
<1>2. c = k % 256 /\ n - (m + 1) = k - 1
  BY <1>1 DEF ByteCount, LeftInByte
<1>3. ((k % 256) + 255) % 256 = (k - 1) % 256 /\ (k - 1) % 256 = k - 1
  BY <1>1, Z3
<1>4. m + 1 < n <=> k - 1 > 0
  BY <1>1 DEF ByteCount
<1> QED BY <1>1, <1>2, <1>3, <1>4 DEF LeftInByte

\* The memory after m rounds of a copy from h to d.
CopiedSoFar(s, st, v, h, d, m) ==
  /\ \A j \in Int : 0 <= j /\ j < m =>
       LET z == IF \E i \in 0 .. j - 1 : Spot(v, d, i) = Spot(v, h, j) THEN s ELSE st
       IN  s.ram[Spot(v, d, j)] = mem_read(z, Spot(v, h, j))
  /\ \A x \in Cells \ Stack :
       (\A j \in Int : 0 <= j /\ j < m => x # Spot(v, d, j)) => s.ram[x] = st.ram[x]

LEMMA CopyGoesOn ==
  ASSUME Cells = Word, NEW s \in Machine, NEW st \in Machine, NEW x, NEW v, NEW h \in Word, NEW d \in Word,
         NEW m \in Word, s.romOut = st.romOut, x.romOut = s.romOut,
         CopiedSoFar(s, st, v, h, d, m), Spot(v, h, m) \notin Stack,
         x.ram = [s.ram EXCEPT ![Spot(v, d, m)] = mem_read(s, Spot(v, h, m))]
  PROVE  CopiedSoFar(x, st, v, h, d, m + 1)
<1> m \in Int /\ 0 <= m
  BY WordIs
<1>1. /\ Spot(v, h, m) \in Word /\ Spot(v, d, m) \in Word
      /\ \A j \in Int : 0 <= j /\ j < m => Spot(v, d, j) # Spot(v, d, m)
  BY SpotInWord, SpotsApart, Zenon
<1>2. DOMAIN s.ram = Word
  BY DEF Machine
<1>3. x.ram[Spot(v, d, m)] = mem_read(s, Spot(v, h, m))
  BY <1>1, <1>2
<1>4. \A y \in Word : y # Spot(v, d, m) => x.ram[y] = s.ram[y]
  BY <1>2
<1>5. \A j \in Int : 0 <= j /\ j < m => Spot(v, d, j) \in Word
  <2> SUFFICES ASSUME NEW j \in Int, 0 <= j, j < m PROVE Spot(v, d, j) \in Word
    OBVIOUS
  <2>1. j \in Word
    BY WordIs
  <2> QED BY <2>1, SpotInWord
<1>6. ASSUME NEW j \in Int, 0 <= j, j < m + 1
      PROVE  LET z == IF \E i \in 0 .. j - 1 : Spot(v, d, i) = Spot(v, h, j) THEN x ELSE st
             IN  x.ram[Spot(v, d, j)] = mem_read(z, Spot(v, h, j))
  <2>1. CASE \E i \in 0 .. j - 1 : Spot(v, d, i) = Spot(v, h, j)
    <3>1. PICK i \in Int : 0 <= i /\ i < j /\ Spot(v, d, i) = Spot(v, h, j)
      BY <1>6, <2>1
    <3>2. 0 <= i /\ i < m
      BY <1>6, <3>1
    <3>3. x.ram[Spot(v, h, j)] = s.ram[Spot(v, h, j)]
      BY <1>1, <1>4, <1>5, <3>1, <3>2
    <3>4. mem_read(x, Spot(v, h, j)) = mem_read(s, Spot(v, h, j))
      BY <3>3, ReadSame, Zenon
    <3>5. x.ram[Spot(v, d, j)] = mem_read(s, Spot(v, h, j))
      <4>1. CASE j = m
        BY <1>3, <4>1
      <4>2. CASE j < m
        <5>1. x.ram[Spot(v, d, j)] = s.ram[Spot(v, d, j)]
          BY <1>1, <1>4, <1>5, <1>6, <4>2
        <5>2. s.ram[Spot(v, d, j)] = mem_read(s, Spot(v, h, j))
          BY <1>6, <2>1, <4>2 DEF CopiedSoFar
        <5> QED BY <5>1, <5>2
      <4> QED BY <1>6, <4>1, <4>2
    <3> QED BY <2>1, <3>4, <3>5
  <2>2. CASE ~ \E i \in 0 .. j - 1 : Spot(v, d, i) = Spot(v, h, j)
    <3>1. x.ram[Spot(v, d, j)] = mem_read(st, Spot(v, h, j))
      <4>1. CASE j = m
        <5>1. \A i \in Int : 0 <= i /\ i < m => Spot(v, h, m) # Spot(v, d, i)
          BY <2>2, <4>1
        <5>2. s.ram[Spot(v, h, m)] = st.ram[Spot(v, h, m)]
          BY <1>1, <5>1 DEF CopiedSoFar
        <5>3. mem_read(s, Spot(v, h, m)) = mem_read(st, Spot(v, h, m))
          BY <5>2, ReadSame, Zenon
        <5> QED BY <1>3, <4>1, <5>3
      <4>2. CASE j < m
        <5>1. x.ram[Spot(v, d, j)] = s.ram[Spot(v, d, j)]
          BY <1>1, <1>4, <1>5, <1>6, <4>2
        <5>2. s.ram[Spot(v, d, j)] = mem_read(st, Spot(v, h, j))
          BY <1>6, <2>2, <4>2 DEF CopiedSoFar
        <5> QED BY <5>1, <5>2
      <4> QED BY <1>6, <4>1, <4>2
    <3> QED BY <2>2, <3>1
  <2> QED BY <2>1, <2>2
<1>7. ASSUME NEW y \in Cells \ Stack, \A j \in Int : 0 <= j /\ j < m + 1 => y # Spot(v, d, j)
      PROVE  x.ram[y] = st.ram[y]
  <2>1. y # Spot(v, d, m) /\ \A j \in Int : 0 <= j /\ j < m => y # Spot(v, d, j)
    BY <1>7
  <2>2. s.ram[y] = st.ram[y]
    BY <2>1 DEF CopiedSoFar
  <2> QED BY <1>4, <2>1, <2>2
<1> QED BY <1>6, <1>7 DEF CopiedSoFar

\* The memory after m rounds of input to h.
ReceivedSoFar(s, st, v, h, m) ==
  /\ \A j \in Int : 0 <= j /\ j < m => s.ram[Spot(v, h, j)] = (j + 1) % 256
  /\ \A x \in Cells \ Stack :
       (\A j \in Int : 0 <= j /\ j < m => x # Spot(v, h, j)) => s.ram[x] = st.ram[x]

LEMMA InputGoesOn ==
  ASSUME Cells = Word, NEW s \in Machine, NEW st, NEW x, NEW v, NEW h \in Word,
         NEW m \in Word, ReceivedSoFar(s, st, v, h, m),
         x.ram = [s.ram EXCEPT ![Spot(v, h, m)] = (m + 1) % 256]
  PROVE  ReceivedSoFar(x, st, v, h, m + 1)
<1> m \in Int /\ 0 <= m
  BY WordIs
<1>1. /\ Spot(v, h, m) \in Word
      /\ \A j \in Int : 0 <= j /\ j < m => Spot(v, h, j) # Spot(v, h, m)
  BY SpotInWord, SpotsApart, Zenon
<1>2. DOMAIN s.ram = Word
  BY DEF Machine
<1>3. x.ram[Spot(v, h, m)] = (m + 1) % 256
  BY <1>1, <1>2
<1>4. \A y \in Word : y # Spot(v, h, m) => x.ram[y] = s.ram[y]
  BY <1>2
<1>5. \A j \in Int : 0 <= j /\ j < m => Spot(v, h, j) \in Word
  <2> SUFFICES ASSUME NEW j \in Int, 0 <= j, j < m PROVE Spot(v, h, j) \in Word
    OBVIOUS
  <2>1. j \in Word
    BY WordIs
  <2> QED BY <2>1, SpotInWord
<1>6. ASSUME NEW j \in Int, 0 <= j, j < m + 1 PROVE x.ram[Spot(v, h, j)] = (j + 1) % 256
  <2>1. CASE j = m
    BY <1>3, <2>1
  <2>2. CASE j < m
    <3>1. x.ram[Spot(v, h, j)] = s.ram[Spot(v, h, j)]
      BY <1>1, <1>4, <1>5, <1>6, <2>2
    <3>2. s.ram[Spot(v, h, j)] = (j + 1) % 256
      BY <1>6, <2>2 DEF ReceivedSoFar
    <3> QED BY <3>1, <3>2
  <2> QED BY <1>6, <2>1, <2>2
<1>7. ASSUME NEW y \in Cells \ Stack, \A j \in Int : 0 <= j /\ j < m + 1 => y # Spot(v, h, j)
      PROVE  x.ram[y] = st.ram[y]
  <2>1. y # Spot(v, h, m) /\ \A j \in Int : 0 <= j /\ j < m => y # Spot(v, h, j)
    BY <1>7
  <2>2. s.ram[y] = st.ram[y]
    BY <2>1 DEF ReceivedSoFar
  <2> QED BY <1>4, <2>1, <2>2
<1> QED BY <1>6, <1>7 DEF ReceivedSoFar

LEMMA SpotNext ==
  ASSUME NEW v, NEW w \in Word, NEW m \in Word, NEW up, up <=> v = 1
  PROVE  Along(Spot(v, w, m), up) = Spot(v, w, m + 1)
BY SpotIs

LEMMA SpotFirst == ASSUME NEW v, NEW w \in Word PROVE Spot(v, w, 0) = w
<1>1. 0 \in Word
  BY WordIs
<1> QED BY <1>1, SpotIs

\* One round, by kind.
Goes(s, up, x, due, cost) ==
  /\ x \in Machine /\ x.romOut = s.romOut /\ x.r["a"] = s.r["a"]
  /\ Pair(x.r, "hl") = Along(Pair(s.r, "hl"), up)
  /\ due => x.pc = Origin /\ x.cyc = s.cyc + cost
  /\ ~ due => x.pc = Origin + 2 /\ x.cyc = s.cyc + 16

CopyGoes(s, up, x) ==
  /\ Goes(s, up, x, Pair(x.r, "bc") # 0, 21)
  /\ Pair(x.r, "de") = Along(Pair(s.r, "de"), up)
  /\ Pair(x.r, "bc") = Below(Pair(s.r, "bc"), 1) /\ x.f.p = Truth(Pair(x.r, "bc") > 0)
  /\ x.ram = [s.ram EXCEPT ![Pair(s.r, "de")] = ReadsAt(s)]
SearchGoes(s, up, x) ==
  /\ Goes(s, up, x, Pair(x.r, "bc") # 0 /\ x.f.z = 0, 21)
  /\ Pair(x.r, "bc") = Below(Pair(s.r, "bc"), 1) /\ x.f.p = Truth(Pair(x.r, "bc") # 0)
  /\ x.f.c = s.f.c /\ x.f.z = subb(s.r["a"], ReadsAt(s), 0).f.z /\ x.ram = s.ram
InputGoes(s, up, x) ==
  /\ Goes(s, up, x, x.r.b > 0, 21) /\ x.r.b = (s.r.b + 255) % 256
  /\ x.ram = [s.ram EXCEPT ![Pair(s.r, "hl")] = Gives(s.given)] /\ x.given = Gives(s.given)
OutputGoes(s, up, x) ==
  /\ Goes(s, up, x, x.r.b > 0, IF up THEN 21 ELSE 16) /\ x.r.b = (s.r.b + 255) % 256
  /\ x.ram = s.ram /\ x.out = Append(s.out, ReadsAt(s))

LEMMA RoundGoes ==
  ASSUME Cells = Word, NEW s, Quiet(s), NEW i, Loops(i), NEW up, up = (i.v = 1), NEW x,
         RoundFrom(s, i, up, x), i.k \in Kinds
  PROVE  /\ i.k = "ld" => CopyGoes(s, up, x)
         /\ i.k = "cp" => SearchGoes(s, up, x)
         /\ i.k = "in" => InputGoes(s, up, x)
         /\ i.k = "ot" => OutputGoes(s, up, x)
<1>1. s \in Machine
  BY DEF Quiet
<1>2. PICK r \in Registers, f \in Flags : r = s.r /\ f = s.f
  BY <1>1 DEF Machine
<1>3. PICK m \in Byte : m = ReadsAt(s)
  BY <1>1, RoundIs, Zenon
<1>4. PICK k \in Kinds : k = i.k
  OBVIOUS
<1>5. PICK q \in Registers : q = AfterRound(r, k, up)
  BY RegistersAfter
<1>6. PICK g \in Flags : g = Told(r, f, k, q, m)
  BY FlagsAfter
<1>7. /\ q["a"] = r["a"] /\ Pair(q, "hl") = Along(Pair(r, "hl"), up)
      /\ k = "ld" => Pair(q, "de") = Along(Pair(r, "de"), up)
      /\ k \in {"ld", "cp"} => Pair(q, "bc") = Below(Pair(r, "bc"), 1)
      /\ k \in {"in", "ot"} => q.b = (r.b + 255) % 256
  BY <1>5, RegistersAfter
<1>8. /\ k = "ld" => g.p = Truth(Pair(q, "bc") > 0)
      /\ k = "cp" => g.c = f.c /\ g.p = Truth(Pair(q, "bc") # 0) /\ g.z = subb(r["a"], m, 0).f.z
  BY <1>6, FlagsAfter
<1>9. q = NewR(s, k, up) /\ g = NewF(s, k, up)
  BY <1>2, <1>3, <1>5, <1>6, Zenon DEF NewR, NewF
<1>10. /\ k = "ld" => (Due(s, k, up) <=> Pair(q, "bc") # 0)
       /\ k = "cp" => (Due(s, k, up) <=> Pair(q, "bc") # 0 /\ g.z = 0)
       /\ k \in {"in", "ot"} => (Due(s, k, up) <=> q.b > 0)
  BY <1>9, Zenon DEF Due, Kinds
<1>11. /\ x \in Machine /\ x.r = q /\ x.f = g /\ x.romOut = s.romOut
       /\ Due(s, k, up) => x.pc = Origin
       /\ ~ Due(s, k, up) => x.pc = Origin + 2 /\ x.cyc = s.cyc + 16
       /\ Due(s, k, up) /\ ~ (k = "ot" /\ ~ up) => x.cyc = s.cyc + 21
       /\ k = "ot" /\ ~ up => x.cyc = s.cyc + 16
       /\ k = "ld" => x.ram = [s.ram EXCEPT ![Pair(s.r, "de")] = ReadsAt(s)]
       /\ k = "in" => /\ x.ram = [s.ram EXCEPT ![Pair(s.r, "hl")] = Gives(s.given)]
                      /\ x.given = Gives(s.given)
       /\ k \in {"cp", "ot"} => x.ram = s.ram
       /\ k = "ot" => x.out = Append(s.out, ReadsAt(s))
  BY <1>4, <1>9, Zenon DEF RoundFrom
<1>12. CASE k = "ld"
  BY <1>2, <1>4, <1>7, <1>8, <1>10, <1>11, <1>12, Zenon DEF Goes, CopyGoes
<1>13. CASE k = "cp"
  BY <1>2, <1>3, <1>4, <1>7, <1>8, <1>10, <1>11, <1>13, Zenon DEF Goes, SearchGoes
<1>14. CASE k = "in"
  BY <1>2, <1>4, <1>7, <1>8, <1>10, <1>11, <1>14, Zenon DEF Goes, InputGoes
<1>15. CASE k = "ot"
  BY <1>2, <1>4, <1>7, <1>8, <1>10, <1>11, <1>15, Zenon DEF Goes, OutputGoes
<1> QED BY <1>4, <1>12, <1>13, <1>14, <1>15, Zenon DEF Kinds

LEMMA Direction == ASSUME NEW v PROVE \E up : up = (v = 1) /\ (up <=> v = 1)
<1>1. CASE v = 1
  <2>1. (v = 1) = TRUE
    BY <1>1, Zenon
  <2> QED BY <1>1, <2>1, Zenon
<1>2. CASE v # 1
  <2>1. (v = 1) = FALSE
    BY <1>2, Zenon
  <2> QED BY <1>2, <2>1, Zenon
<1> QED BY <1>1, <1>2, Zenon

-----------------------------------------------------------------------------
\* Its rounds, one by one.

\* What all kinds have in common after m rounds from the state st; the place and the
\* cycles before round m of n, and after the last, of which the others cost so much.
OnTrack(s, st, v, m) == /\ Pair(s.r, "hl") = Spot(v, Pair(st.r, "hl"), m)
                        /\ s.r["a"] = st.r["a"] /\ s.romOut = st.romOut
Before(s, m, n, cost) == s.pc = Origin /\ m < n /\ s.cyc = cost * m
Past(s, m, cost) == s.pc = Origin + 2 /\ 1 <= m /\ s.cyc = cost * (m - 1) + 16

LEMMA RoundMoves ==
  ASSUME NEW s, NEW st \in Machine, NEW v, NEW m \in Word, NEW n \in Int, NEW cost \in {16, 21},
         NEW up, up <=> v = 1, NEW x, NEW due \in BOOLEAN, Goes(s, up, x, due, cost),
         OnTrack(s, st, v, m), Before(s, m, n, cost)
  PROVE  /\ OnTrack(x, st, v, m + 1)
         /\ due /\ m + 1 < n => Before(x, m + 1, n, cost)
         /\ ~ due => Past(x, m + 1, cost)
<1>1. m \in Int /\ 0 <= m
  BY WordIs
<1>2. PICK h \in Word : h = Pair(st.r, "hl")
  <2>1. st.r \in Registers
    BY DEF Machine
  <2> QED BY <2>1, PairIs DEF Pairs
<1>3. Along(Spot(v, h, m), up) = Spot(v, h, m + 1)
  BY SpotNext
<1>4. OnTrack(x, st, v, m + 1)
  BY <1>2, <1>3, Zenon DEF OnTrack, Goes
<1>5. ASSUME due, m + 1 < n PROVE Before(x, m + 1, n, cost)
  <2>1. x.pc = Origin /\ x.cyc = cost * m + cost
    BY <1>5, Zenon DEF Goes, Before
  <2>2. cost * m + cost = cost * (m + 1)
    BY <1>1
  <2> QED BY <1>5, <2>1, <2>2 DEF Before
<1>6. ASSUME ~ due PROVE Past(x, m + 1, cost)
  <2>1. x.pc = Origin + 2 /\ x.cyc = cost * m + 16
    BY <1>6, Zenon DEF Goes, Before
  <2>2. 1 <= m + 1 /\ (m + 1) - 1 = m
    BY <1>1
  <2> QED BY <2>1, <2>2 DEF Past
<1> QED BY <1>4, <1>5, <1>6, Zenon

\* A place to come to is free of the stack.
Free0(v, w, n) == \A k \in Int : 0 <= k /\ k < n => Spot(v, w, k) \notin Stack

-----------------------------------------------------------------------------
\* Copies.

CopyRuns(s, st, v, n) ==
  \E m \in Int :
    /\ 0 <= m /\ OnTrack(s, st, v, m)
    /\ Pair(s.r, "de") = Spot(v, Pair(st.r, "de"), m) /\ Pair(s.r, "bc") = Left(n, m)
    /\ CopiedSoFar(s, st, v, Pair(st.r, "hl"), Pair(st.r, "de"), m)
    /\ Before(s, m, n, 21) \/ (Past(s, m, 21) /\ m = n /\ s.f.p = 0)

LEMMA CopyRound ==
  ASSUME Cells = Word, NEW s, Quiet(s), NEW i, Loops(i), i.k = "ld", NEW st \in Machine,
         NEW n, WordCount(n), Free0(i.v, Pair(st.r, "hl"), n), CopyRuns(s, st, i.v, n)
  PROVE  CopyRuns(process_interrupts(exec_opcode(s, i)), st, i.v, n)
<1>1. PICK x : x = process_interrupts(exec_opcode(s, i))
  OBVIOUS
<1>2. PICK up : up = (i.v = 1) /\ (up <=> i.v = 1)
  BY Direction
<1>3. RoundFrom(s, i, up, x) /\ i.k \in Kinds
  BY <1>1, <1>2, Loop
<1>4. CopyGoes(s, up, x)
  BY <1>2, <1>3, RoundGoes
<1> USE DEF CopyGoes
<1>5. PICK v : v = i.v
  OBVIOUS
<1>6. PICK h \in Word, d \in Word : h = Pair(st.r, "hl") /\ d = Pair(st.r, "de")
  <2>1. st.r \in Registers
    BY DEF Machine
  <2> QED BY <2>1, PairIs DEF Pairs
<1>7. n \in Int
  BY DEF WordCount
<1>8. s.pc # Origin + 2
  <2>1. s.pc = Origin
    BY DEF Quiet
  <2> QED BY <2>1 DEF Origin
<1>9. PICK m \in Int :
        /\ 0 <= m /\ OnTrack(s, st, v, m)
        /\ Pair(s.r, "de") = Spot(v, d, m) /\ Pair(s.r, "bc") = Left(n, m)
        /\ CopiedSoFar(s, st, v, h, d, m) /\ Before(s, m, n, 21)
  BY <1>5, <1>6, <1>8, Zenon DEF CopyRuns, Past
<1>10. m \in Word /\ m < n
  <2>1. m < n
    BY <1>9 DEF Before
  <2> QED BY <1>9, <2>1, WordIs DEF WordCount
<1>11. PICK c : c = Pair(x.r, "bc")
  OBVIOUS
<1>12. c = Left(n, m + 1) /\ (c = 0 <=> m + 1 = n)
  BY <1>4, <1>9, <1>10, <1>11, WordsLeft
<1>13. /\ OnTrack(x, st, v, m + 1)
       /\ c # 0 /\ m + 1 < n => Before(x, m + 1, n, 21)
       /\ c = 0 => Past(x, m + 1, 21)
  <2>1. PICK due \in BOOLEAN : due = (c # 0)
    OBVIOUS
  <2>2. Goes(s, up, x, due, 21)
    BY <1>4, <1>11, <2>1
  <2>3. /\ OnTrack(x, st, v, m + 1)
        /\ due /\ m + 1 < n => Before(x, m + 1, n, 21)
        /\ ~ due => Past(x, m + 1, 21)
    <3>1. (up <=> v = 1) /\ 21 \in {16, 21}
      BY <1>2, <1>5
    <3> QED BY <1>7, <1>9, <1>10, <2>2, <3>1, RoundMoves
  <2> QED BY <2>1, <2>3
<1>14. Pair(x.r, "de") = Spot(v, d, m + 1)
  <2>1. Along(Spot(v, d, m), up) = Spot(v, d, m + 1)
    BY <1>2, <1>5, <1>10, SpotNext
  <2> QED BY <1>4, <1>9, <2>1, Zenon
<1>15. CopiedSoFar(x, st, v, h, d, m + 1)
  <2>1. s \in Machine /\ s.romOut = st.romOut /\ x.romOut = s.romOut
    BY <1>4, <1>9 DEF Quiet, OnTrack, Goes
  <2>2. x.ram = [s.ram EXCEPT ![Spot(v, d, m)] = mem_read(s, Spot(v, h, m))]
    BY <1>4, <1>6, <1>9 DEF ReadsAt, OnTrack
  <2>3. Spot(v, h, m) \notin Stack
    BY <1>5, <1>6, <1>9, <1>10 DEF Free0
  <2> QED BY <1>9, <1>10, <2>1, <2>2, <2>3, CopyGoesOn
<1>16. Before(x, m + 1, n, 21) \/ (Past(x, m + 1, 21) /\ m + 1 = n /\ x.f.p = 0)
  <2>1. CASE m + 1 = n
    <3>1. ~ (c > 0)
      BY <1>12, <2>1
    <3>2. x.f.p = 0
      BY <1>4, <1>11, <3>1 DEF Truth
    <3> QED BY <1>12, <1>13, <2>1, <3>2
  <2>2. CASE m + 1 # n
    <3>1. m + 1 < n
      BY <1>7, <1>10, <2>2
    <3> QED BY <1>12, <1>13, <2>2, <3>1
  <2> QED BY <2>1, <2>2
<1>17. m + 1 \in Int /\ 0 <= m + 1
  BY <1>9
<1>18. CopyRuns(x, st, v, n)
  <2>1. PICK k \in Int : k = m + 1
    BY <1>17
  <2> QED BY <1>6, <1>11, <1>12, <1>13, <1>14, <1>15, <1>16, <1>17, <2>1, Zenon DEF CopyRuns
<1> QED BY <1>1, <1>5, <1>18

\* CP A,byte sets Z exactly if they are equal.
LEMMA ZeroTells ==
  ASSUME NEW a \in Byte, NEW b \in Byte
  PROVE  subb(a, b, 0).f.z = Truth(b = a)
<1> DEFINE s == subb(a, b, 0)
<1>1. TakesAway(s, a, b, 0)
  BY DifferenceOfBytes
<1> HIDE DEF s
<1>2. PICK v \in Int, c \in 0 .. 1 : v = s.val /\ c = s.f.c /\ 0 <= v /\ v <= 255
  BY <1>1, ByteIs DEF TakesAway, Flags
<1>3. v - 256 * c = a - b /\ (s.f.z = 1 <=> v = 0) /\ s.f \in Flags
  BY <1>1, <1>2, ByteIs DEF TakesAway
<1>4. v = 0 <=> a = b
  <2>1. PICK i \in Int, j \in Int :
          i = a /\ j = b /\ 0 <= i /\ i <= 255 /\ 0 <= j /\ j <= 255
    BY ByteIs
  <2>2. v - 256 * c = i - j
    BY <1>3, <2>1
  <2>3. v = 0 <=> i = j
    <3>1. 0 <= v /\ v <= 255
      BY <1>2
    <3>2. 0 <= i /\ i <= 255 /\ 0 <= j /\ j <= 255
      BY <2>1
    <3> QED BY <2>2, <3>1, <3>2, BorrowTells, Zenon
  <2> QED BY <2>1, <2>3
<1>5. s.f.z \in 0 .. 1
  BY <1>3 DEF Flags
<1>6. s.f.z = Truth(b = a)
  BY <1>3, <1>4, <1>5 DEF Truth
<1> QED BY <1>6 DEF s

-----------------------------------------------------------------------------
\* Searches.

Matches(st, v, w, j) == mem_read(st, Spot(v, w, j)) = st.r["a"]

OldRam(s, st) == \A x \in Cells \ Stack : s.ram[x] = st.ram[x]

NotFound(st, v, w, m) == \A j \in Int : 0 <= j /\ j < m => ~ Matches(st, v, w, j)

Ended(s, st, v, n, m) ==
  LET w == Pair(st.r, "hl")
  IN  /\ Past(s, m, 21) /\ m <= n /\ (m = n \/ Matches(st, v, w, m - 1))
      /\ NotFound(st, v, w, m - 1)
      /\ s.f.z = Truth(Matches(st, v, w, m - 1)) /\ s.f.p = Truth(m < n)

SearchRuns(s, st, v, n) ==
  \E m \in Int :
    /\ 0 <= m /\ OnTrack(s, st, v, m) /\ Pair(s.r, "bc") = Left(n, m)
    /\ s.f.c = st.f.c /\ OldRam(s, st)
    /\ (Before(s, m, n, 21) /\ NotFound(st, v, Pair(st.r, "hl"), m)) \/ Ended(s, st, v, n, m)

LEMMA SearchRound ==
  ASSUME Cells = Word, NEW s, Quiet(s), NEW i, Loops(i), i.k = "cp", NEW st \in Machine,
         NEW n, WordCount(n), Free0(i.v, Pair(st.r, "hl"), n), SearchRuns(s, st, i.v, n)
  PROVE  SearchRuns(process_interrupts(exec_opcode(s, i)), st, i.v, n)
<1>1. PICK x : x = process_interrupts(exec_opcode(s, i))
  OBVIOUS
<1>2. PICK up : up = (i.v = 1) /\ (up <=> i.v = 1)
  BY Direction
<1>3. RoundFrom(s, i, up, x) /\ i.k \in Kinds
  BY <1>1, <1>2, Loop
<1>4. SearchGoes(s, up, x)
  BY <1>2, <1>3, RoundGoes
<1> USE DEF SearchGoes
<1>5. PICK v : v = i.v
  OBVIOUS
<1>6. PICK h \in Word : h = Pair(st.r, "hl")
  <2>1. st.r \in Registers
    BY DEF Machine
  <2> QED BY <2>1, PairIs DEF Pairs
<1>7. n \in Int
  BY DEF WordCount
<1>8. s.pc # Origin + 2
  <2>1. s.pc = Origin
    BY DEF Quiet
  <2> QED BY <2>1 DEF Origin
<1>9. PICK m \in Int :
        /\ 0 <= m /\ OnTrack(s, st, v, m) /\ Pair(s.r, "bc") = Left(n, m)
        /\ s.f.c = st.f.c /\ OldRam(s, st)
        /\ Before(s, m, n, 21) /\ NotFound(st, v, h, m)
  BY <1>5, <1>6, <1>8, Zenon DEF SearchRuns, Past, Ended
<1>10. m \in Word /\ m < n
  <2>1. m < n
    BY <1>9 DEF Before
  <2> QED BY <1>9, <2>1, WordIs DEF WordCount
<1>11. PICK c : c = Pair(x.r, "bc")
  OBVIOUS
<1>12. c = Left(n, m + 1) /\ (c = 0 <=> m + 1 = n)
  BY <1>4, <1>9, <1>10, <1>11, WordsLeft
<1>13. x.f.z = Truth(Matches(st, v, h, m))
  <2>1. s \in Machine /\ s.romOut = st.romOut /\ s.r["a"] = st.r["a"] /\ Pair(s.r, "hl") = Spot(v, h, m)
    BY <1>6, <1>9 DEF Quiet, OnTrack
  <2>2. Spot(v, h, m) \in Word \ Stack
    <3>1. Spot(v, h, m) \in Word
      BY <1>10, SpotInWord
    <3> QED BY <1>5, <1>6, <1>9, <1>10, <3>1 DEF Free0
  <2>3. PICK b \in Byte : b = mem_read(s, Spot(v, h, m))
    BY <2>1, <2>2, MemIs
  <2>4. b = mem_read(st, Spot(v, h, m))
    <3>1. s.ram[Spot(v, h, m)] = st.ram[Spot(v, h, m)]
      BY <1>9, <2>2 DEF OldRam
    <3> QED BY <2>1, <2>3, <3>1, ReadSame
  <2>5. PICK a \in Byte : a = s.r["a"]
    <3>1. s.r \in Registers
      BY <2>1 DEF Machine
    <3> QED BY <3>1 DEF Registers
  <2>6. x.f.z = subb(a, b, 0).f.z
    BY <1>4, <2>1, <2>3, <2>5 DEF ReadsAt
  <2>7. x.f.z = Truth(b = a)
    BY <2>6, ZeroTells
  <2>8. PICK t : t = (b = a)
    OBVIOUS
  <2>9. b = a <=> Matches(st, v, h, m)
    BY <2>1, <2>4, <2>5 DEF Matches
  <2> QED BY <2>7, <2>9 DEF Truth
<1>14. PICK found \in BOOLEAN : (found <=> Matches(st, v, h, m)) /\ x.f.z = Truth(found)
  BY <1>13 DEF Matches
<1>15. /\ OnTrack(x, st, v, m + 1)
       /\ c # 0 /\ ~ found /\ m + 1 < n => Before(x, m + 1, n, 21)
       /\ c = 0 \/ found => Past(x, m + 1, 21)
  <2>1. PICK due \in BOOLEAN : due = (c # 0 /\ ~ found)
    OBVIOUS
  <2>2. x.f.z = 0 <=> ~ found
    BY <1>14 DEF Truth
  <2>3. Goes(s, up, x, due, 21)
    <3>1. Goes(s, up, x, c # 0 /\ x.f.z = 0, 21)
      BY <1>4, <1>11
    <3> QED BY <2>1, <2>2, <3>1 DEF Goes
  <2>4. /\ OnTrack(x, st, v, m + 1)
        /\ due /\ m + 1 < n => Before(x, m + 1, n, 21)
        /\ ~ due => Past(x, m + 1, 21)
    <3>1. (up <=> v = 1) /\ 21 \in {16, 21}
      BY <1>2, <1>5
    <3> QED BY <1>7, <1>9, <1>10, <2>3, <3>1, RoundMoves
  <2> QED BY <2>1, <2>4
<1>16. OldRam(x, st) /\ x.f.c = st.f.c
  BY <1>4, <1>9 DEF OldRam
<1>17. PICK k \in Int : k = m + 1 /\ 0 <= k /\ k - 1 = m /\ k <= n
  BY <1>7, <1>9, <1>10
<1>18. ASSUME c # 0 /\ ~ found PROVE SearchRuns(x, st, v, n)
  <2>1. Before(x, k, n, 21)
    <3>1. m + 1 < n
      BY <1>7, <1>10, <1>12, <1>18
    <3> QED BY <1>15, <1>17, <1>18, <3>1
  <2>2. NotFound(st, v, h, k)
    <3> SUFFICES ASSUME NEW j \in Int, 0 <= j, j < k PROVE ~ Matches(st, v, h, j)
      BY DEF NotFound
    <3>1. j = m \/ j < m
      BY <1>17
    <3> QED BY <1>9, <1>14, <1>18, <3>1 DEF NotFound
  <2> QED BY <1>6, <1>11, <1>12, <1>15, <1>16, <1>17, <2>1, <2>2, Zenon DEF SearchRuns
<1>19. ASSUME c = 0 \/ found PROVE SearchRuns(x, st, v, n)
  <2>1. Past(x, k, 21) /\ NotFound(st, v, h, k - 1)
    BY <1>9, <1>15, <1>17, <1>19
  <2>2. k = n \/ Matches(st, v, h, k - 1)
    BY <1>12, <1>14, <1>17, <1>19
  <2>3. x.f.z = Truth(Matches(st, v, h, k - 1))
    BY <1>13, <1>17
  <2>4. x.f.p = Truth(k < n)
    <3>1. c # 0 <=> k < n
      BY <1>7, <1>12, <1>17
    <3> QED BY <1>4, <1>11, <3>1 DEF Truth
  <2>5. Ended(x, st, v, n, k)
    BY <1>6, <1>17, <2>1, <2>2, <2>3, <2>4, Zenon DEF Ended
  <2> QED BY <1>6, <1>11, <1>12, <1>15, <1>16, <1>17, <2>5, Zenon DEF SearchRuns
<1>20. SearchRuns(x, st, v, n)
  BY <1>14, <1>18, <1>19
<1> QED BY <1>1, <1>5, <1>20

-----------------------------------------------------------------------------
\* Block input and output.

InputRuns(s, st, v, n) ==
  \E m \in Int :
    /\ 0 <= m /\ OnTrack(s, st, v, m) /\ s.r.b = LeftInByte(n, m) /\ s.given = m % 256
    /\ ReceivedSoFar(s, st, v, Pair(st.r, "hl"), m)
    /\ Before(s, m, n, 21) \/ (Past(s, m, 21) /\ m = n)

OutputCost(v) == IF v = 1 THEN 21 ELSE 16

OutputRuns(s, st, v, n) ==
  \E m \in Int :
    /\ 0 <= m /\ OnTrack(s, st, v, m) /\ s.r.b = LeftInByte(n, m) /\ OldRam(s, st)
    /\ s.out = [k \in 1 .. m |-> mem_read(st, Spot(v, Pair(st.r, "hl"), k - 1))]
    /\ Before(s, m, n, OutputCost(v)) \/ (Past(s, m, OutputCost(v)) /\ m = n)

LEMMA Decided == ASSUME NEW c \in Int PROVE \E due \in BOOLEAN : due = (c > 0) /\ (due <=> c > 0)
<1>1. CASE c > 0
  <2>1. (c > 0) = TRUE
    BY <1>1, Zenon
  <2> QED BY <1>1, <2>1, Zenon
<1>2. CASE ~ (c > 0)
  <2>1. (c > 0) = FALSE
    BY <1>2
  <2> QED BY <1>2, <2>1, Zenon
<1> QED BY <1>1, <1>2, Zenon

LEMMA InputRound ==
  ASSUME Cells = Word, NEW s, Quiet(s), NEW i, Loops(i), i.k = "in", NEW st \in Machine,
         NEW n, ByteCount(n), InputRuns(s, st, i.v, n)
  PROVE  InputRuns(process_interrupts(exec_opcode(s, i)), st, i.v, n)
<1>1. PICK x : x = process_interrupts(exec_opcode(s, i))
  OBVIOUS
<1>2. PICK up : up = (i.v = 1) /\ (up <=> i.v = 1)
  BY Direction
<1>3. RoundFrom(s, i, up, x) /\ i.k \in Kinds
  BY <1>1, <1>2, Loop
<1>4. InputGoes(s, up, x)
  BY <1>2, <1>3, RoundGoes
<1> USE DEF InputGoes
<1>5. PICK v : v = i.v
  OBVIOUS
<1>6. PICK h \in Word : h = Pair(st.r, "hl")
  <2>1. st.r \in Registers
    BY DEF Machine
  <2> QED BY <2>1, PairIs DEF Pairs
<1>7. n \in Int
  BY DEF ByteCount
<1>8. s.pc # Origin + 2
  <2>1. s.pc = Origin
    BY DEF Quiet
  <2> QED BY <2>1 DEF Origin
<1>9. PICK m \in Int :
        /\ 0 <= m /\ OnTrack(s, st, v, m) /\ s.r.b = LeftInByte(n, m) /\ s.given = m % 256
        /\ ReceivedSoFar(s, st, v, h, m) /\ Before(s, m, n, 21)
  BY <1>5, <1>6, <1>8, Zenon DEF InputRuns, Past
<1>10. m \in Word /\ m < n
  <2>1. m < n
    BY <1>9 DEF Before
  <2> QED BY <1>9, <2>1, WordIs DEF ByteCount
<1>11. PICK c : c = x.r.b
  OBVIOUS
<1>12. c \in Int /\ c = LeftInByte(n, m + 1) /\ (c > 0 <=> m + 1 < n)
  <2>1. c = LeftInByte(n, m + 1) /\ (c > 0 <=> m + 1 < n) /\ c = n - (m + 1)
    BY <1>4, <1>9, <1>10, <1>11, BytesLeft
  <2>2. n - (m + 1) \in Int
    BY <1>7
  <2> QED BY <2>1, <2>2
<1>13. /\ OnTrack(x, st, v, m + 1)
       /\ m + 1 < n => Before(x, m + 1, n, 21)
       /\ ~ (m + 1 < n) => Past(x, m + 1, 21)
  <2>1. PICK due \in BOOLEAN : due = (c > 0) /\ (due <=> c > 0)
    BY <1>12, Decided
  <2>2. Goes(s, up, x, due, 21)
    BY <1>4, <1>11, <2>1
  <2>3. /\ OnTrack(x, st, v, m + 1)
        /\ due /\ m + 1 < n => Before(x, m + 1, n, 21)
        /\ ~ due => Past(x, m + 1, 21)
    <3>1. (up <=> v = 1) /\ 21 \in {16, 21}
      BY <1>2, <1>5
    <3>2. OnTrack(s, st, v, m) /\ Before(s, m, n, 21)
      BY <1>9
    <3> QED BY <1>7, <1>10, <2>2, <3>1, <3>2, RoundMoves
  <2> QED BY <1>12, <2>1, <2>3
<1>14. Gives(s.given) = (m + 1) % 256
  <2>1. ((m % 256) + 1) % 256 = (m + 1) % 256
    BY Z3
  <2> QED BY <1>9, <2>1 DEF Gives
<1>15. ReceivedSoFar(x, st, v, h, m + 1)
  <2>1. s \in Machine /\ Pair(s.r, "hl") = Spot(v, h, m)
    BY <1>6, <1>9 DEF Quiet, OnTrack
  <2>2. PICK g : g = (m + 1) % 256
    OBVIOUS
  <2>3. x.ram = [s.ram EXCEPT ![Spot(v, h, m)] = g]
    BY <1>4, <1>14, <2>1, <2>2
  <2> QED BY <1>9, <1>10, <2>1, <2>2, <2>3, InputGoesOn
<1>16. PICK k \in Int : k = m + 1 /\ 0 <= k /\ k <= n
  BY <1>7, <1>9, <1>10
<1>17. Before(x, k, n, 21) \/ (Past(x, k, 21) /\ k = n)
  BY <1>7, <1>13, <1>16
<1>18. x.given = k % 256
  BY <1>4, <1>14, <1>16
<1>19. InputRuns(x, st, v, n)
  BY <1>6, <1>11, <1>12, <1>13, <1>15, <1>16, <1>17, <1>18, Zenon DEF InputRuns
<1> QED BY <1>1, <1>5, <1>19

LEMMA OutGrows ==
  ASSUME NEW m \in Int, 0 <= m, NEW F(_)
  PROVE  Append([k \in 1 .. m |-> F(k)], F(m + 1)) = [k \in 1 .. m + 1 |-> F(k)]
<1> DEFINE s == [k \in 1 .. m |-> F(k)]
           t == [k \in 1 .. m + 1 |-> F(k)]
           a == Append(s, F(m + 1))
<1>1. Len(s) = m
  OBVIOUS
<1> QED OBVIOUS

LEMMA OutputRound ==
  ASSUME Cells = Word, NEW s, Quiet(s), NEW i, Loops(i), i.k = "ot", NEW st \in Machine,
         NEW n, ByteCount(n), Free0(i.v, Pair(st.r, "hl"), n), OutputRuns(s, st, i.v, n)
  PROVE  OutputRuns(process_interrupts(exec_opcode(s, i)), st, i.v, n)
<1>1. PICK x : x = process_interrupts(exec_opcode(s, i))
  OBVIOUS
<1>2. PICK up : up = (i.v = 1) /\ (up <=> i.v = 1)
  BY Direction
<1>3. RoundFrom(s, i, up, x) /\ i.k \in Kinds
  BY <1>1, <1>2, Loop
<1>4. OutputGoes(s, up, x)
  BY <1>2, <1>3, RoundGoes
<1> USE DEF OutputGoes
<1>5. PICK v : v = i.v
  OBVIOUS
<1>6. PICK h \in Word : h = Pair(st.r, "hl")
  <2>1. st.r \in Registers
    BY DEF Machine
  <2> QED BY <2>1, PairIs DEF Pairs
<1>7. n \in Int
  BY DEF ByteCount
<1>8. s.pc # Origin + 2
  <2>1. s.pc = Origin
    BY DEF Quiet
  <2> QED BY <2>1 DEF Origin
<1>9. PICK m \in Int :
        /\ 0 <= m /\ OnTrack(s, st, v, m) /\ s.r.b = LeftInByte(n, m) /\ OldRam(s, st)
        /\ s.out = [k \in 1 .. m |-> mem_read(st, Spot(v, h, k - 1))]
        /\ Before(s, m, n, OutputCost(v))
  BY <1>5, <1>6, <1>8, Zenon DEF OutputRuns, Past
<1>10. m \in Word /\ m < n
  <2>1. m < n
    BY <1>9 DEF Before
  <2> QED BY <1>9, <2>1, WordIs DEF ByteCount
<1>11. PICK c : c = x.r.b
  OBVIOUS
<1>12. c \in Int /\ c = LeftInByte(n, m + 1) /\ (c > 0 <=> m + 1 < n)
  <2>1. c = LeftInByte(n, m + 1) /\ (c > 0 <=> m + 1 < n) /\ c = n - (m + 1)
    BY <1>4, <1>9, <1>10, <1>11, BytesLeft
  <2>2. n - (m + 1) \in Int
    BY <1>7
  <2> QED BY <2>1, <2>2
<1>13. PICK cost \in {16, 21} : cost = OutputCost(v) /\ cost = IF up THEN 21 ELSE 16
  BY <1>2, <1>5 DEF OutputCost
<1>14. /\ OnTrack(x, st, v, m + 1)
       /\ m + 1 < n => Before(x, m + 1, n, cost)
       /\ ~ (m + 1 < n) => Past(x, m + 1, cost)
  <2>1. PICK due \in BOOLEAN : due = (c > 0) /\ (due <=> c > 0)
    BY <1>12, Decided
  <2>2. Goes(s, up, x, due, cost)
    BY <1>4, <1>11, <1>13, <2>1
  <2>3. /\ OnTrack(x, st, v, m + 1)
        /\ due /\ m + 1 < n => Before(x, m + 1, n, cost)
        /\ ~ due => Past(x, m + 1, cost)
    <3>1. up <=> v = 1
      BY <1>2, <1>5
    <3>2. OnTrack(s, st, v, m) /\ Before(s, m, n, cost)
      BY <1>9, <1>13
    <3> QED BY <1>7, <1>10, <2>2, <3>1, <3>2, RoundMoves
  <2> QED BY <1>12, <2>1, <2>3
<1>15. ReadsAt(s) = mem_read(st, Spot(v, h, m))
  <2>1. s.romOut = st.romOut /\ Pair(s.r, "hl") = Spot(v, h, m)
    BY <1>6, <1>9 DEF OnTrack
  <2>2. Spot(v, h, m) \in Word \ Stack
    <3>1. Spot(v, h, m) \in Word
      BY <1>10, SpotInWord
    <3> QED BY <1>5, <1>6, <1>9, <1>10, <3>1 DEF Free0
  <2>3. s.ram[Spot(v, h, m)] = st.ram[Spot(v, h, m)]
    BY <1>9, <2>2 DEF OldRam
  <2> QED BY <2>1, <2>3, ReadSame DEF ReadsAt
<1>16. PICK k \in Int : k = m + 1 /\ 0 <= k /\ k <= n
  BY <1>7, <1>9, <1>10
<1>17. x.out = [j \in 1 .. k |-> mem_read(st, Spot(v, h, j - 1))]
  <2> DEFINE F(j) == mem_read(st, Spot(v, h, j - 1))
  <2>1. (m + 1) - 1 = m
    OBVIOUS
  <2>2. F(m + 1) = mem_read(st, Spot(v, h, m))
    BY <2>1
  <2>3. x.out = Append([j \in 1 .. m |-> F(j)], F(m + 1))
    BY <1>4, <1>9, <1>15, <2>2
  <2> HIDE DEF F
  <2>4. x.out = [j \in 1 .. k |-> F(j)]
    BY <1>9, <1>16, <2>3, OutGrows
  <2> QED BY <2>4 DEF F
<1>18. Before(x, k, n, cost) \/ (Past(x, k, cost) /\ k = n)
  BY <1>7, <1>14, <1>16
<1>19. OldRam(x, st)
  BY <1>4, <1>9 DEF OldRam
<1>20. OutputRuns(x, st, v, n)
  BY <1>6, <1>11, <1>12, <1>13, <1>14, <1>16, <1>17, <1>18, <1>19, Zenon DEF OutputRuns
<1> QED BY <1>1, <1>5, <1>20

-----------------------------------------------------------------------------
\* From the first round to the last, between interrupts.

\* The program is one repeating block instruction of kind k.
Only(code, k) == LET i == code[Origin]
                 IN  /\ DOMAIN code \ DOMAIN Depth = {Origin}
                     /\ i.op = "repeat" /\ i.k = k /\ i.len = 2

LEMMA Quietly ==
  ASSUME Cells = Word, NEW code, Obeys(code), Saves(code), NEW z, Steady(z, code),
         z.pc \in DOMAIN code, z.pc \notin DOMAIN Depth, NEW k, Only(code, k)
  PROVE  LET s == Look(z)
             i == code[Origin]
             x == process_interrupts(exec_opcode(z, code[z.pc]))
         IN  /\ Quiet(s) /\ Loops(i) /\ i.k = k
             /\ (\A p \in Pointers(i) : Pair(s.r, p) \notin Stack)
                  => Look(x) = process_interrupts(exec_opcode(s, i))
<1> DEFINE i == code[Origin]
           x == process_interrupts(exec_opcode(z, code[z.pc]))
<1>1. z.pc = Origin
  BY DEF Only
<1>2. PICK s : s = Look(z)
  OBVIOUS
<1>3. z \in Machine /\ z.delay = FALSE
  BY DEF Steady, Sound
<1>4. s = Veil(z)
  BY <1>2 DEF Look
<1>5. PICK n \in [Cells -> Byte] : n = Hidden(z.ram)
  <2>1. z.ram \in [Cells -> Byte]
    BY <1>3 DEF Machine
  <2> QED BY <2>1, HiddenIs
<1>6. s = [z EXCEPT !.ram = n, !.request = FALSE] /\ s \in Machine
  BY <1>3, <1>4, <1>5, VeilIs
<1>7. s.pc = Origin /\ s.delay = FALSE /\ s.request = FALSE /\ s.r = z.r
  BY <1>1, <1>3, <1>6 DEF Machine
<1>8. Quiet(s)
  BY <1>6, <1>7 DEF Quiet
<1>9. Loops(i) /\ i.k = k
  <2>1. Origin \in DOMAIN code
    BY <1>1
  <2>2. WellFormed(i)
    BY <2>1 DEF Obeys
  <2> QED BY <2>2 DEF Loops, Only
<1>10. ASSUME \A p \in Pointers(i) : Pair(s.r, p) \notin Stack
       PROVE  Look(x) = process_interrupts(exec_opcode(s, i))
  <2>1. ~ Reaches(z, code[z.pc])
    BY <1>1, <1>7, <1>10 DEF Reaches
  <2>2. Look(x) = process_interrupts(exec_opcode(Look(z), code[Look(z).pc]))
    BY <2>1, StepUnseen, Zenon
  <2> QED BY <1>2, <1>7, <2>2, Zenon
<1> QED BY <1>2, <1>8, <1>9, <1>10, Zenon

\* How many rounds: BC counts for memory, B for a port.
WordRounds(st) == Rounds(Pair(st.r, "bc"), 65536)
ByteRounds(st) == Rounds(st.r.b, 256)

\* What each kind does, so long as it keeps off the stack.
RunsFrom(s, st, code) ==
  LET v == code[Origin].v
      h == Pair(st.r, "hl")
      n == WordRounds(st)
      b == ByteRounds(st)
  IN  /\ Only(code, "ld") /\ Free0(v, h, n) /\ Free0(v, Pair(st.r, "de"), n) => CopyRuns(s, st, v, n)
      /\ Only(code, "cp") /\ Free0(v, h, n) => SearchRuns(s, st, v, n)
      /\ Only(code, "in") /\ Free0(v, h, b) => InputRuns(s, st, v, b)
      /\ Only(code, "ot") /\ Free0(v, h, b) => OutputRuns(s, st, v, b)

LEMMA RoundsAre ==
  ASSUME NEW st \in Machine
  PROVE  WordCount(WordRounds(st)) /\ ByteCount(ByteRounds(st))
<1>1. PICK w \in Word, b \in Byte : w = Pair(st.r, "bc") /\ b = st.r.b
  <2>1. st.r \in Registers
    BY DEF Machine
  <2>2. Pair(st.r, "bc") \in Word
    BY <2>1, PairIs DEF Pairs
  <2>3. st.r.b \in Byte
    BY <2>1 DEF Registers
  <2> QED BY <2>2, <2>3
<1>2. w \in Int /\ 0 <= w /\ w <= 65535
  BY WordIs
<1>3. b \in Int /\ 0 <= b /\ b <= 255
  BY ByteIs
<1> QED BY <1>1, <1>2, <1>3 DEF WordRounds, ByteRounds, Rounds, WordCount, ByteCount

LEMMA RunsGoOn ==
  ASSUME Cells = Word, NEW code, Obeys(code), Saves(code), NEW z, Steady(z, code),
         z.pc \in DOMAIN code, NEW st \in Machine, RunsFrom(Look(z), st, code)
  PROVE  RunsFrom(Look(process_interrupts(exec_opcode(z, code[z.pc]))), st, code)
<1> DEFINE x == process_interrupts(exec_opcode(z, code[z.pc]))
<1>1. CASE z.pc \in DOMAIN Depth
  <2>1. Look(x) = Look(z)
    BY <1>1, StepUnseen, Zenon
  <2> HIDE DEF x
  <2>2. RunsFrom(Look(x), st, code)
    BY <2>1
  <2> QED BY <2>2 DEF x
<1>2. CASE z.pc \notin DOMAIN Depth
  <2>1. PICK s : s = Look(z)
    OBVIOUS
  <2>2. PICK y : y = Look(x)
    OBVIOUS
  <2>3. PICK i : i = code[Origin]
    OBVIOUS
  <2>4. ASSUME NEW k, Only(code, k)
        PROVE  /\ Quiet(s) /\ Loops(i) /\ i.k = k
               /\ (\A p \in Pointers(i) : Pair(s.r, p) \notin Stack)
                    => y = process_interrupts(exec_opcode(s, i))
    <3>1. LET u == Look(z)
              j == code[Origin]
              w == process_interrupts(exec_opcode(z, code[z.pc]))
          IN  /\ Quiet(u) /\ Loops(j) /\ j.k = k
              /\ (\A p \in Pointers(j) : Pair(u.r, p) \notin Stack)
                   => Look(w) = process_interrupts(exec_opcode(u, j))
      BY <1>2, <2>4, Quietly
    <3> QED BY <2>1, <2>2, <2>3, <3>1, Zenon
  <2>5. PICK v, h, n, b : /\ v = i.v /\ h = Pair(st.r, "hl")
                          /\ n = WordRounds(st) /\ b = ByteRounds(st)
    OBVIOUS
  <2>6. WordCount(n) /\ ByteCount(b)
    BY <2>5, RoundsAre
  <2>7. ASSUME NEW q \in Int, 0 <= q, OnTrack(s, st, v, q), NEW t, NEW cost, Before(s, q, t, cost),
               Free0(v, h, t)
        PROVE  Pair(s.r, "hl") \notin Stack
    BY <2>5, <2>7 DEF OnTrack, Before, Free0
  <2>8. s.pc = Origin => ~ (\E q, cost : Past(s, q, cost))
    BY DEF Past, Origin
  <2> HIDE DEF x
  <2>9. ASSUME Only(code, "ld"), Free0(v, h, n), Free0(v, Pair(st.r, "de"), n)
        PROVE  CopyRuns(y, st, v, n)
    <3>1. CopyRuns(s, st, v, n)
      BY <2>1, <2>3, <2>5, <2>9, Zenon DEF RunsFrom
    <3>2. Quiet(s) /\ Loops(i) /\ i.k = "ld" /\ s.pc = Origin
      BY <2>4, <2>9 DEF Quiet
    <3>3. PICK q \in Int : /\ 0 <= q /\ OnTrack(s, st, v, q) /\ Before(s, q, n, 21)
                           /\ Pair(s.r, "de") = Spot(v, Pair(st.r, "de"), q)
      BY <2>8, <3>1, <3>2 DEF CopyRuns
    <3>4. Pair(s.r, "hl") \notin Stack /\ Pair(s.r, "de") \notin Stack
      BY <2>7, <2>9, <3>3 DEF Before, Free0
    <3>5. y = process_interrupts(exec_opcode(s, i))
      BY <2>4, <2>9, <3>4 DEF Pointers
    <3> QED BY <2>5, <2>6, <2>9, <3>1, <3>2, <3>5, CopyRound
  <2>10. ASSUME Only(code, "cp"), Free0(v, h, n) PROVE SearchRuns(y, st, v, n)
    <3>1. SearchRuns(s, st, v, n)
      BY <2>1, <2>3, <2>5, <2>10, Zenon DEF RunsFrom
    <3>2. Quiet(s) /\ Loops(i) /\ i.k = "cp" /\ s.pc = Origin
      BY <2>4, <2>10 DEF Quiet
    <3>3. PICK q \in Int : 0 <= q /\ OnTrack(s, st, v, q) /\ Before(s, q, n, 21)
      BY <2>8, <3>1, <3>2 DEF SearchRuns, Ended
    <3>4. y = process_interrupts(exec_opcode(s, i))
      BY <2>4, <2>7, <2>10, <3>2, <3>3 DEF Pointers
    <3> QED BY <2>5, <2>6, <2>10, <3>1, <3>2, <3>4, SearchRound
  <2>11. ASSUME Only(code, "in"), Free0(v, h, b) PROVE InputRuns(y, st, v, b)
    <3>1. InputRuns(s, st, v, b)
      BY <2>1, <2>3, <2>5, <2>11, Zenon DEF RunsFrom
    <3>2. Quiet(s) /\ Loops(i) /\ i.k = "in" /\ s.pc = Origin
      BY <2>4, <2>11 DEF Quiet
    <3>3. PICK q \in Int : 0 <= q /\ OnTrack(s, st, v, q) /\ Before(s, q, b, 21)
      BY <2>8, <3>1, <3>2 DEF InputRuns
    <3>4. y = process_interrupts(exec_opcode(s, i))
      BY <2>4, <2>7, <2>11, <3>2, <3>3 DEF Pointers
    <3> QED BY <2>5, <2>6, <2>11, <3>1, <3>2, <3>4, InputRound
  <2>12. ASSUME Only(code, "ot"), Free0(v, h, b) PROVE OutputRuns(y, st, v, b)
    <3>1. OutputRuns(s, st, v, b)
      BY <2>1, <2>3, <2>5, <2>12, Zenon DEF RunsFrom
    <3>2. Quiet(s) /\ Loops(i) /\ i.k = "ot" /\ s.pc = Origin
      BY <2>4, <2>12 DEF Quiet
    <3>3. PICK q \in Int : 0 <= q /\ OnTrack(s, st, v, q) /\ Before(s, q, b, OutputCost(v))
      BY <2>8, <3>1, <3>2 DEF OutputRuns
    <3>4. y = process_interrupts(exec_opcode(s, i))
      BY <2>4, <2>7, <2>12, <3>2, <3>3 DEF Pointers
    <3> QED BY <2>5, <2>6, <2>12, <3>1, <3>2, <3>4, OutputRound
  <2>13. RunsFrom(y, st, code)
    BY <2>3, <2>5, <2>9, <2>10, <2>11, <2>12, Zenon DEF RunsFrom
  <2> QED BY <2>2, <2>13 DEF x
<1> QED BY <1>1, <1>2

BlocksInv == SteadyInv /\ start \in Machine /\ RunsFrom(Look(cpu), start, Programs[prog])

\* Before the first round.
LEMMA AllLeft ==
  ASSUME NEW st \in Machine
  PROVE  Left(WordRounds(st), 0) = Pair(st.r, "bc") /\ LeftInByte(ByteRounds(st), 0) = st.r.b
<1>1. PICK w \in Word, b \in Byte : w = Pair(st.r, "bc") /\ b = st.r.b
  <2>1. st.r \in Registers
    BY DEF Machine
  <2>2. Pair(st.r, "bc") \in Word
    BY <2>1, PairIs DEF Pairs
  <2>3. st.r.b \in Byte
    BY <2>1 DEF Registers
  <2> QED BY <2>2, <2>3
<1>2. w \in Int /\ 0 <= w /\ w <= 65535
  BY WordIs
<1>3. b \in Int /\ 0 <= b /\ b <= 255
  BY ByteIs
<1>4. Left(WordRounds(st), 0) = w
  <2>1. CASE w = 0
    BY <1>1, <2>1 DEF WordRounds, Rounds, Left
  <2>2. CASE w # 0
    BY <1>1, <1>2, <2>2 DEF WordRounds, Rounds, Left
  <2> QED BY <2>1, <2>2
<1>5. LeftInByte(ByteRounds(st), 0) = b
  <2>1. CASE b = 0
    BY <1>1, <2>1 DEF ByteRounds, Rounds, LeftInByte
  <2>2. CASE b # 0
    BY <1>1, <1>3, <2>2 DEF ByteRounds, Rounds, LeftInByte
  <2> QED BY <2>1, <2>2
<1> QED BY <1>1, <1>4, <1>5

LEMMA NothingOut == ASSUME NEW F(_) PROVE <<>> = [k \in 1 .. 0 |-> F(k)]
OBVIOUS

LEMMA RunsBegin ==
  ASSUME Cells = Word, NEW code, NEW z \in Machine, z.pc = Origin, Origin \notin DOMAIN Depth,
         z.cyc = 0, z.out = <<>>, z.given = 0
  PROVE  RunsFrom(Look(z), z, code)
<1>1. PICK s : s = Look(z)
  OBVIOUS
<1>2. s = Veil(z)
  BY <1>1 DEF Look
<1>3. PICK n \in [Cells -> Byte] : n = Hidden(z.ram) /\ \A x \in Word \ Stack : n[x] = z.ram[x]
  <2>1. z.ram \in [Cells -> Byte]
    BY DEF Machine
  <2> QED BY <2>1, HiddenIs
<1>4. s = [z EXCEPT !.ram = n, !.request = FALSE]
  BY <1>2, <1>3, VeilIs
<1>5. /\ s.pc = Origin /\ s.cyc = 0 /\ s.out = <<>> /\ s.given = 0 /\ s.r = z.r /\ s.f = z.f
      /\ s.romOut = z.romOut /\ s.ram = n
  BY <1>4 DEF Machine
<1>6. OldRam(s, z)
  BY <1>3, <1>5 DEF OldRam
<1>7. PICK v, w, b : v = code[Origin].v /\ w = WordRounds(z) /\ b = ByteRounds(z)
  OBVIOUS
<1>8. w \in Int /\ 0 < w /\ b \in Int /\ 0 < b
  <2>1. WordCount(w) /\ ByteCount(b)
    BY <1>7, RoundsAre
  <2> QED BY <2>1 DEF WordCount, ByteCount
<1>9. Left(w, 0) = Pair(s.r, "bc") /\ LeftInByte(b, 0) = s.r.b
  BY <1>5, <1>7, AllLeft
<1>10. PICK h \in Word, d \in Word : h = Pair(z.r, "hl") /\ d = Pair(z.r, "de")
  <2>1. z.r \in Registers
    BY DEF Machine
  <2> QED BY <2>1, PairIs DEF Pairs
<1>11. OnTrack(s, z, v, 0) /\ Pair(s.r, "de") = Spot(v, d, 0)
  BY <1>5, <1>10, SpotFirst DEF OnTrack
<1>12. ASSUME NEW c \in Int, NEW t, 0 < t PROVE Before(s, 0, t, c)
  <2>1. c * 0 = 0
    OBVIOUS
  <2> QED BY <1>5, <1>12, <2>1 DEF Before
<1>13. CopiedSoFar(s, z, v, h, d, 0) /\ ReceivedSoFar(s, z, v, h, 0) /\ NotFound(z, v, h, 0)
  BY <1>6 DEF CopiedSoFar, ReceivedSoFar, NotFound, OldRam
<1>14. Before(s, 0, w, 21) /\ Before(s, 0, b, 21) /\ Before(s, 0, b, OutputCost(v))
  BY <1>8, <1>12 DEF OutputCost
<1>15. PICK o \in Int : o = 0
  OBVIOUS
<1>16. 0 <= o
  BY <1>15
<1>17. CopyRuns(s, z, v, w)
  BY <1>9, <1>10, <1>11, <1>13, <1>14, <1>15, <1>16, Zenon DEF CopyRuns
<1>18. SearchRuns(s, z, v, w)
  BY <1>5, <1>6, <1>9, <1>10, <1>11, <1>13, <1>14, <1>15, <1>16, Zenon DEF SearchRuns
<1>19. InputRuns(s, z, v, b)
  <2>1. s.given = 0 % 256
    BY <1>5
  <2> QED BY <1>9, <1>10, <1>11, <1>13, <1>14, <1>15, <1>16, <2>1, Zenon DEF InputRuns
<1>20. OutputRuns(s, z, v, b)
  <2>1. s.out = [k \in 1 .. 0 |-> mem_read(z, Spot(v, Pair(z.r, "hl"), k - 1))]
    BY <1>5
  <2> QED BY <1>6, <1>9, <1>11, <1>14, <1>15, <1>16, <2>1, Zenon DEF OutputRuns
<1>21. RunsFrom(s, z, code)
  BY <1>7, <1>17, <1>18, <1>19, <1>20, Zenon DEF RunsFrom
<1> QED BY <1>1, <1>21

LEMMA BlocksInit ==
  ASSUME Cells = Word
  PROVE  Z80Init => BlocksInv
<1> SUFFICES ASSUME Z80Init PROVE BlocksInv
  OBVIOUS
<1>1. SteadyInv
  BY SteadyInit
<1>2. prog \in DOMAIN Programs /\ cpu \in Machine
  BY <1>1 DEF SteadyInv, Steady
<1>3. PICK i : cpu = Fresh(i) /\ start = cpu
  BY DEF Z80Init
<1>4. cpu.pc = Origin /\ cpu.cyc = 0 /\ cpu.out = <<>> /\ cpu.given = 0
  BY <1>3 DEF Fresh
<1>5. Origin \notin DOMAIN Depth
  BY <1>2, GuestAssumption, Zenon
<1>6. RunsFrom(Look(cpu), cpu, Programs[prog])
  BY <1>2, <1>4, <1>5, RunsBegin
<1> QED BY <1>1, <1>2, <1>3, <1>6 DEF BlocksInv

LEMMA BlocksNext ==
  ASSUME Cells = Word
  PROVE  BlocksInv /\ [Z80Next]_z80Vars => BlocksInv'
<1> SUFFICES ASSUME BlocksInv, [Z80Next]_z80Vars PROVE BlocksInv'
  OBVIOUS
<1> DEFINE code == Programs[prog]
<1>1. SteadyInv /\ start \in Machine /\ RunsFrom(Look(cpu), start, code)
  BY DEF BlocksInv
<1>2. SteadyInv'
  BY <1>1, SteadyNext
<1>3. prog \in DOMAIN Programs /\ Steady(cpu, code)
  BY <1>1 DEF SteadyInv
<1>4. CASE Step
  <2>1. /\ prog' = prog /\ start' = start /\ cpu.pc \in DOMAIN code
        /\ cpu' = process_interrupts(exec_opcode(cpu, code[cpu.pc]))
    BY <1>4 DEF Step, Running, z80_step
  <2>2. Obeys(code) /\ Saves(code)
    BY <1>3, Kept
  <2> HIDE DEF code
  <2>3. RunsFrom(Look(process_interrupts(exec_opcode(cpu, code[cpu.pc]))), start, code)
    BY <1>1, <1>3, <2>1, <2>2, RunsGoOn
  <2>4. RunsFrom(Look(cpu'), start, code)
    BY <2>1, <2>3, Zenon
  <2> QED BY <1>1, <1>2, <2>1, <2>4 DEF BlocksInv, code
<1>5. CASE Raise
  <2>1. prog' = prog /\ start' = start /\ cpu' = [cpu EXCEPT !.request = TRUE]
    BY <1>5 DEF Raise
  <2> HIDE DEF code
  <2>2. LET x == [cpu EXCEPT !.request = TRUE] IN Look(x) = Look(cpu)
    BY <1>3, RaiseUnseen, Zenon
  <2>3. Look(cpu') = Look(cpu)
    BY <2>1, <2>2, Zenon
  <2>4. RunsFrom(Look(cpu'), start, code)
    BY <1>1, <2>3, Zenon
  <2> QED BY <1>1, <1>2, <2>1, <2>4 DEF BlocksInv, code
<1>6. CASE UNCHANGED z80Vars
  <2>1. prog' = prog /\ start' = start /\ cpu' = cpu
    BY <1>6 DEF z80Vars
  <2> QED BY <1>1, <1>2, <2>1 DEF BlocksInv
<1> QED BY <1>4, <1>5, <1>6 DEF Z80Next

\* At the end of the program it shows what the CPU holds, outside the stack.
LEMMA EndSeen ==
  ASSUME Cells = Word, BlocksInv, ~ Running
  PROVE  LET s == Look(cpu)
         IN  /\ s.pc \notin DOMAIN Programs[prog] /\ s.r = cpu.r /\ s.f = cpu.f /\ s.cyc = cpu.cyc
             /\ s.out = cpu.out
             /\ \A x \in Word \ Stack : s.ram[x] = cpu.ram[x] /\ mem_read(s, x) = mem_read(cpu, x)
             /\ start \in Machine /\ RunsFrom(s, start, Programs[prog])
<1>1. PICK s : s = Look(cpu)
  OBVIOUS
<1>2. cpu \in Machine /\ prog \in DOMAIN Programs
  BY DEF BlocksInv, SteadyInv, Steady
<1>3. s = Veil(cpu)
  <2>1. DOMAIN Depth \subseteq DOMAIN Programs[prog]
    BY <1>2, GuestAssumption, Zenon
  <2>2. cpu.pc \notin DOMAIN Depth
    BY <2>1 DEF Running
  <2> QED BY <1>1, <2>2 DEF Look
<1>4. PICK n \in [Cells -> Byte] : n = Hidden(cpu.ram) /\ \A x \in Word \ Stack : n[x] = cpu.ram[x]
  <2>1. cpu.ram \in [Cells -> Byte]
    BY <1>2 DEF Machine
  <2> QED BY <2>1, HiddenIs
<1>5. /\ s = [cpu EXCEPT !.ram = n, !.request = FALSE]
      /\ \A x \in Word \ Stack : mem_read(s, x) = mem_read(cpu, x)
  BY <1>2, <1>3, <1>4, VeilIs
<1>6. s.pc = cpu.pc /\ s.r = cpu.r /\ s.f = cpu.f /\ s.cyc = cpu.cyc /\ s.out = cpu.out /\ s.ram = n
  BY <1>2, <1>5 DEF Machine
<1>7. s.pc \notin DOMAIN Programs[prog]
  BY <1>6 DEF Running
<1>8. start \in Machine /\ RunsFrom(s, start, Programs[prog])
  BY <1>1 DEF BlocksInv
<1> QED BY <1>1, <1>4, <1>5, <1>6, <1>7, <1>8

-----------------------------------------------------------------------------
\* At its end.

\* The program is over, and s is what it sees of the CPU.
Over(s) == /\ s.pc # Origin /\ s.r = cpu.r /\ s.f = cpu.f /\ s.cyc = cpu.cyc /\ s.out = cpu.out
           /\ \A x \in Word \ Stack : s.ram[x] = cpu.ram[x] /\ mem_read(s, x) = mem_read(cpu, x)

LEMMA AtIsSpot == ASSUME NEW v, v = Programs[prog][Origin].v PROVE \A w, k : At(w, k) = Spot(v, w, k)
BY DEF At, Spot

LEMMA OffTheStack ==
  ASSUME NEW v, v = Programs[prog][Origin].v, NEW n \in Int, 0 .. n - 1 \subseteq Word,
         NEW p, OffStack(p, n), NEW w \in Word, w = Pair(start.r, p)
  PROVE  /\ Free0(v, w, n)
         /\ \A k \in 0 .. n - 1 : Spot(v, w, k) \in Word \ Stack
<1>1. \A k \in 0 .. n - 1 : At(Was(p), k) \notin Stack
  BY Zenon DEF OffStack
<1>2. \A k : At(Was(p), k) = Spot(v, w, k)
  BY AtIsSpot, Zenon DEF Was
<1>3. \A k \in 0 .. n - 1 : Spot(v, w, k) \in Word
  BY SpotInWord, Zenon
<1>4. \A k \in Int : 0 <= k /\ k < n => k \in 0 .. n - 1
  OBVIOUS
<1>5. \A k \in 0 .. n - 1 : Spot(v, w, k) \in Word \ Stack
  BY <1>1, <1>2, <1>3, Zenon
<1>6. Free0(v, w, n)
  BY <1>4, <1>5, Zenon DEF Free0
<1> QED BY <1>5, <1>6

LEMMA TimeTaken ==
  ASSUME NEW m \in Int, NEW cost \in {16, 21}, NEW s, Over(s), Past(s, m, cost)
  PROVE  Took(m, cost - 16)
<1>1. cpu.cyc = cost * (m - 1) + 16
  BY DEF Over, Past
<1>2. cost * (m - 1) + 16 = 16 * m + (cost - 16) * (m - 1)
  OBVIOUS
<1> QED BY <1>1, <1>2 DEF Took

LEMMA CopyEnds ==
  ASSUME Cells = Word, NEW s, Over(s), start \in Machine, NEW v, v = Programs[prog][Origin].v,
         NEW n, WordCount(n), OffStack("hl", n), OffStack("de", n), CopyRuns(s, start, v, n)
  PROVE  Copied(n)
<1>1. PICK h \in Word, d \in Word : h = Pair(start.r, "hl") /\ d = Pair(start.r, "de")
  <2>1. start.r \in Registers
    BY DEF Machine
  <2> QED BY <2>1, PairIs DEF Pairs
<1>2. n \in Int /\ 0 .. n - 1 \subseteq Word
  BY WordIs DEF WordCount
<1>3. \A k \in 0 .. n - 1 : Spot(v, h, k) \in Word \ Stack /\ Spot(v, d, k) \in Word \ Stack
  <2>1. \A k \in 0 .. n - 1 : Spot(v, h, k) \in Word \ Stack
    BY <1>1, <1>2, OffTheStack
  <2>2. \A k \in 0 .. n - 1 : Spot(v, d, k) \in Word \ Stack
    BY <1>1, <1>2, OffTheStack
  <2> QED BY <2>1, <2>2, Zenon
<1>4. /\ OnTrack(s, start, v, n) /\ Pair(s.r, "de") = Spot(v, d, n) /\ Pair(s.r, "bc") = Left(n, n)
      /\ CopiedSoFar(s, start, v, h, d, n) /\ Past(s, n, 21) /\ s.f.p = 0
  BY <1>1, Zenon DEF CopyRuns, Over, Before
<1>5. Left(n, n) = 0
  BY <1>2 DEF Left
<1>6. Is("hl") = Spot(v, h, n) /\ Is("de") = Spot(v, d, n) /\ Is("bc") = 0 /\ cpu.f.p = 0
  BY <1>1, <1>4, <1>5 DEF Is, OnTrack, Over
<1>7. Took(n, 5)
  <2>1. Took(n, 21 - 16)
    BY <1>2, <1>4, TimeTaken
  <2> QED BY <2>1
<1>8. ASSUME NEW k \in 0 .. n - 1
      PROVE  LET z == IF \E j \in 0 .. k - 1 : Spot(v, d, j) = Spot(v, h, k) THEN cpu ELSE start
             IN  cpu.ram[Spot(v, d, k)] = mem_read(z, Spot(v, h, k))
  <2>1. PICK a \in Word \ Stack, b \in Word \ Stack : a = Spot(v, h, k) /\ b = Spot(v, d, k)
    BY <1>3
  <2>2. k \in Int /\ 0 <= k /\ k < n
    BY <1>2
  <2>3. PICK t : t = (\E j \in 0 .. k - 1 : Spot(v, d, j) = Spot(v, h, k))
    OBVIOUS
  <2>4. s.ram[b] = mem_read(IF t THEN s ELSE start, a)
    BY <1>4, <2>1, <2>2, <2>3 DEF CopiedSoFar
  <2>5. s.ram[b] = cpu.ram[b] /\ mem_read(s, a) = mem_read(cpu, a)
    BY DEF Over
  <2>6. cpu.ram[b] = mem_read(IF t THEN cpu ELSE start, a)
    BY <2>4, <2>5
  <2> QED BY <2>1, <2>3, <2>6
<1>9. RamIsOld({Spot(v, d, k) : k \in 0 .. n - 1})
  <2> SUFFICES ASSUME NEW x \in Word, x \notin Stack, x \notin {Spot(v, d, k) : k \in 0 .. n - 1}
               PROVE  cpu.ram[x] = start.ram[x]
    BY DEF RamIsOld
  <2>1. \A j \in Int : 0 <= j /\ j < n => x # Spot(v, d, j)
    BY <1>2
  <2>2. s.ram[x] = start.ram[x]
    BY <1>4, <2>1, Zenon DEF CopiedSoFar
  <2> QED BY <2>2 DEF Over
<1>10. \A w, k : At(w, k) = Spot(v, w, k)
  BY AtIsSpot
<1>11. Was("hl") = h /\ Was("de") = d
  BY <1>1 DEF Was
<1> QED BY <1>6, <1>7, <1>8, <1>9, <1>10, <1>11 DEF Copied

LEMMA SearchEnds ==
  ASSUME Cells = Word, NEW s, Over(s), start \in Machine, NEW v, v = Programs[prog][Origin].v,
         NEW n, WordCount(n), SearchRuns(s, start, v, n)
  PROVE  Searched(n)
<1>1. PICK h : h = Pair(start.r, "hl")
  OBVIOUS
<1>2. n \in Int
  BY DEF WordCount
<1>3. PICK m \in Int :
        /\ OnTrack(s, start, v, m) /\ Pair(s.r, "bc") = Left(n, m)
        /\ s.f.c = start.f.c /\ OldRam(s, start) /\ Ended(s, start, v, n, m)
  BY Zenon DEF SearchRuns, Over, Before
<1>4. /\ Past(s, m, 21) /\ m <= n /\ (m = n \/ Matches(start, v, h, m - 1))
      /\ NotFound(start, v, h, m - 1)
      /\ s.f.z = Truth(Matches(start, v, h, m - 1)) /\ s.f.p = Truth(m < n)
  BY <1>1, <1>3, Zenon DEF Ended
<1>5. m \in 1 .. n
  BY <1>2, <1>4 DEF Past
<1>6. Left(n, m) = n - m
  BY <1>2, <1>5 DEF Left, WordCount
<1>7. Is("hl") = Spot(v, h, m) /\ Is("bc") = n - m
  BY <1>1, <1>3, <1>6 DEF Is, OnTrack, Over
<1>8. Took(m, 5)
  <2>1. Took(m, 21 - 16)
    BY <1>4, TimeTaken
  <2> QED BY <2>1
<1>9. \A k : Matches(start, v, h, k) = (mem_read(start, At(Was("hl"), k)) = start.r.a)
  BY <1>1, AtIsSpot DEF Matches, Was
<1>10. \A k \in 0 .. m - 2 : ~ Matches(start, v, h, k)
  BY <1>4, <1>5 DEF NotFound
<1>11. cpu.f.z = s.f.z /\ cpu.f.p = Truth(m < n) /\ cpu.f.c = start.f.c
  BY <1>3, <1>4 DEF Over
<1>12. RamIsOld({})
  BY <1>3 DEF OldRam, Over, RamIsOld
<1>13. Is("hl") = At(Was("hl"), m)
  BY <1>1, <1>7, AtIsSpot DEF Was
<1> QED BY <1>4, <1>5, <1>7, <1>8, <1>9, <1>10, <1>11, <1>12, <1>13 DEF Searched

LEMMA InputEnds ==
  ASSUME Cells = Word, NEW s, Over(s), start \in Machine, NEW v, v = Programs[prog][Origin].v,
         NEW n, ByteCount(n), OffStack("hl", n), InputRuns(s, start, v, n)
  PROVE  Received(n)
<1>1. PICK h \in Word : h = Pair(start.r, "hl")
  <2>1. start.r \in Registers
    BY DEF Machine
  <2> QED BY <2>1, PairIs DEF Pairs
<1>2. n \in Int /\ 0 .. n - 1 \subseteq Word
  BY WordIs DEF ByteCount
<1>3. \A k \in 0 .. n - 1 : Spot(v, h, k) \in Word \ Stack
  BY <1>1, <1>2, OffTheStack
<1>4. /\ OnTrack(s, start, v, n) /\ s.r.b = LeftInByte(n, n)
      /\ ReceivedSoFar(s, start, v, h, n) /\ Past(s, n, 21)
  BY <1>1, Zenon DEF InputRuns, Over, Before
<1>5. LeftInByte(n, n) = 0
  BY <1>2 DEF LeftInByte
<1>6. Is("hl") = Spot(v, h, n) /\ cpu.r.b = 0
  BY <1>1, <1>4, <1>5 DEF Is, OnTrack, Over
<1>7. Took(n, 5)
  <2>1. Took(n, 21 - 16)
    BY <1>2, <1>4, TimeTaken
  <2> QED BY <2>1
<1>8. \A k \in 0 .. n - 1 : cpu.ram[Spot(v, h, k)] = (k + 1) % 256
  BY <1>2, <1>3, <1>4 DEF ReceivedSoFar, Over
<1>9. RamIsOld({Spot(v, h, k) : k \in 0 .. n - 1})
  <2> SUFFICES ASSUME NEW x \in Word, x \notin Stack, x \notin {Spot(v, h, k) : k \in 0 .. n - 1}
               PROVE  cpu.ram[x] = start.ram[x]
    BY DEF RamIsOld
  <2>1. \A j \in Int : 0 <= j /\ j < n => x # Spot(v, h, j)
    BY <1>2
  <2>2. s.ram[x] = start.ram[x]
    BY <1>4, <2>1, Zenon DEF ReceivedSoFar
  <2> QED BY <2>2 DEF Over
<1>10. \A w, k : At(w, k) = Spot(v, w, k)
  BY AtIsSpot
<1>11. Was("hl") = h
  BY <1>1 DEF Was
<1> QED BY <1>6, <1>7, <1>8, <1>9, <1>10, <1>11 DEF Received, Ported

LEMMA OutputEnds ==
  ASSUME Cells = Word, NEW s, Over(s), NEW v, v = Programs[prog][Origin].v,
         NEW n, ByteCount(n), OutputRuns(s, start, v, n)
  PROVE  Sent(n)
<1>1. PICK h : h = Pair(start.r, "hl")
  OBVIOUS
<1>2. n \in Int
  BY DEF ByteCount
<1>3. PICK cost \in {16, 21} : cost = OutputCost(v) /\ cost - 16 = IF v = 1 THEN 5 ELSE 0
  BY DEF OutputCost
<1>4. /\ OnTrack(s, start, v, n) /\ s.r.b = LeftInByte(n, n) /\ OldRam(s, start)
      /\ s.out = [k \in 1 .. n |-> mem_read(start, Spot(v, h, k - 1))] /\ Past(s, n, cost)
  BY <1>1, <1>3, Zenon DEF OutputRuns, Over, Before
<1>5. LeftInByte(n, n) = 0
  BY <1>2 DEF LeftInByte
<1>6. Is("hl") = Spot(v, h, n) /\ cpu.r.b = 0
  BY <1>1, <1>4, <1>5 DEF Is, OnTrack, Over
<1>7. Took(n, IF v = 1 THEN 5 ELSE 0)
  BY <1>2, <1>3, <1>4, TimeTaken
<1>8. RamIsOld({})
  BY <1>4 DEF OldRam, Over, RamIsOld
<1>9. \A w, k : At(w, k) = Spot(v, w, k)
  BY AtIsSpot
<1>10. Was("hl") = h
  BY <1>1 DEF Was
<1>11. cpu.out = [k \in 1 .. n |-> mem_read(start, At(Was("hl"), k - 1))]
  BY <1>4, <1>9, <1>10 DEF Over
<1> QED BY <1>6, <1>7, <1>8, <1>9, <1>10, <1>11 DEF Sent, Ported

LEMMA BlocksEnd ==
  ASSUME Cells = Word, BlocksInv
  PROVE  BlocksRight
<1> SUFFICES ASSUME ~ Running PROVE BlocksRight
  BY DEF BlocksRight
<1>1. PICK s : s = Look(cpu)
  OBVIOUS
<1> DEFINE code == Programs[prog]
<1>2. /\ s.pc \notin DOMAIN code /\ s.r = cpu.r /\ s.f = cpu.f /\ s.cyc = cpu.cyc
      /\ s.out = cpu.out
      /\ \A x \in Word \ Stack : s.ram[x] = cpu.ram[x] /\ mem_read(s, x) = mem_read(cpu, x)
      /\ start \in Machine /\ RunsFrom(s, start, code)
  BY <1>1, EndSeen, Zenon
<1>3. PICK v, n, b : v = code[Origin].v /\ n = WordRounds(start) /\ b = ByteRounds(start)
  OBVIOUS
<1>4. WordCount(n) /\ ByteCount(b) /\ 0 .. n - 1 \subseteq Word /\ 0 .. b - 1 \subseteq Word
  <2>1. WordCount(n) /\ ByteCount(b)
    BY <1>2, <1>3, RoundsAre
  <2> QED BY <2>1, WordIs DEF WordCount, ByteCount
<1>5. \A k : Lone(k) = Only(code, k)
  BY DEF Lone, Only
<1> HIDE DEF code
<1>6. ASSUME NEW k, Only(code, k) PROVE Over(s)
  <2>1. s.pc # Origin
    BY <1>2, <1>6 DEF Only
  <2> QED BY <1>2, <2>1, Zenon DEF Over
<1>7. PICK h \in Word, d \in Word : h = Pair(start.r, "hl") /\ d = Pair(start.r, "de")
  <2>1. start.r \in Registers
    BY <1>2 DEF Machine
  <2> QED BY <2>1, PairIs DEF Pairs
<1>8. n \in Int /\ b \in Int
  BY <1>4 DEF WordCount, ByteCount
<1>9. /\ OffStack("hl", n) => Free0(v, h, n)
      /\ OffStack("de", n) => Free0(v, d, n)
      /\ OffStack("hl", b) => Free0(v, h, b)
  BY <1>3, <1>4, <1>7, <1>8, OffTheStack DEF code
<1>10. ASSUME Only(code, "ld"), OffStack("hl", n), OffStack("de", n) PROVE Copied(n)
  <2>1. CopyRuns(s, start, v, n)
    BY <1>2, <1>3, <1>7, <1>9, <1>10, Zenon DEF RunsFrom
  <2>2. Over(s)
    BY <1>6, <1>10
  <2> QED BY <1>2, <1>3, <1>4, <1>10, <2>1, <2>2, CopyEnds DEF code
<1>11. ASSUME Only(code, "cp"), OffStack("hl", n) PROVE Searched(n)
  <2>1. SearchRuns(s, start, v, n)
    BY <1>2, <1>3, <1>7, <1>9, <1>11, Zenon DEF RunsFrom
  <2>2. Over(s)
    BY <1>6, <1>11
  <2> QED BY <1>2, <1>3, <1>4, <1>11, <2>1, <2>2, SearchEnds DEF code
<1>12. ASSUME Only(code, "in"), OffStack("hl", b) PROVE Received(b)
  <2>1. InputRuns(s, start, v, b)
    BY <1>2, <1>3, <1>7, <1>9, <1>12, Zenon DEF RunsFrom
  <2>2. Over(s)
    BY <1>6, <1>12
  <2> QED BY <1>2, <1>3, <1>4, <1>12, <2>1, <2>2, InputEnds DEF code
<1>13. ASSUME Only(code, "ot"), OffStack("hl", b) PROVE Sent(b)
  <2>1. OutputRuns(s, start, v, b)
    BY <1>2, <1>3, <1>7, <1>9, <1>13, Zenon DEF RunsFrom
  <2>2. Over(s)
    BY <1>6, <1>13
  <2> QED BY <1>2, <1>3, <1>4, <1>13, <2>1, <2>2, OutputEnds DEF code
<1>14. n = Rounds(Was("bc"), 65536) /\ b = Rounds(start.r.b, 256)
  BY <1>3 DEF WordRounds, ByteRounds, Was
<1> QED BY <1>5, <1>10, <1>11, <1>12, <1>13, <1>14 DEF BlocksRight

\* A repeating block instruction does in its rounds what one sequential loop does,
\* whatever the pointers and counts, whether source and target overlap, wrap
\* around or lie under the ROM, and with interrupts after any of the rounds
\* (z80.c:1577-1600, 1611-1692): at its end memory, pointers, counter, flags, the
\* bytes sent and the cycles are those of the loop.
THEOREM BlocksRunRight ==
  ASSUME Cells = Word
  PROVE  Z80Spec => []BlocksRight
<1>1. BlocksInv => BlocksRight
  BY BlocksEnd
<1>2. Z80Init => BlocksInv
  BY BlocksInit
<1>3. BlocksInv /\ [Z80Next]_z80Vars => BlocksInv'
  BY BlocksNext
<1> QED BY <1>1, <1>2, <1>3, PTL DEF Z80Spec

=============================================================================
