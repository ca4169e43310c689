------------------------------- MODULE Z80Alu -------------------------------
(***************************************************************************)
(* The arithmetic of z80.c: what an operation returns and the flags it     *)
(* leaves.  A flag is 0 or 1, as in the struct.  The two copies of result  *)
(* bits (XF, YF) and the internal mem_ptr they sometimes come from are left *)
(* out: nothing but PUSH AF shows them.                                    *)
(***************************************************************************)
EXTENDS Integers

Byte == 0 .. 255
Word == 0 .. 65535

Bit(v, n) == (v \div 2^n) % 2

\* s sign, z zero, h half carry, p parity or overflow, n subtraction, c carry
Flags == [{"s", "z", "h", "p", "n", "c"} -> 0 .. 1]

Truth(b) == IF b THEN 1 ELSE 0

parity(v) == Truth((Bit(v, 0) + Bit(v, 1) + Bit(v, 2) + Bit(v, 3) + Bit(v, 4) + Bit(v, 5)
                    + Bit(v, 6) + Bit(v, 7)) % 2 = 0)

\* The carry into bit n of a + b + cy, read off the exclusive or of the three.
carry(n, a, b, cy) == (Bit(a + b + cy, n) + Bit(a, n) + Bit(b, n)) % 2

addb(a, b, cy) ==
  LET r == (a + b + cy) % 256
  IN  [val |-> r,
       f |-> [s |-> Bit(r, 7), z |-> Truth(r = 0), h |-> carry(4, a, b, cy),
              p |-> Truth(carry(7, a, b, cy) # carry(8, a, b, cy)),
              n |-> 0, c |-> carry(8, a, b, cy)]]

\* A subtraction that leaves the borrow as the adder gives it.
SubUninverted(a, b, cy) == [addb(a, 255 - b, 1 - cy) EXCEPT !.f.n = 1]

subb(a, b, cy) ==
  LET t == addb(a, 255 - b, 1 - cy)
  IN  [t EXCEPT !.f.c = 1 - @, !.f.h = 1 - @, !.f.n = 1]

\* Words go through the byte operation twice; only Z is of the whole result.
Wide(lo, hi) == [hi EXCEPT !.val = 256 * @ + lo.val,
                           !.f.z = Truth(hi.val = 0 /\ lo.val = 0)]

\* The high byte added without the carry of the low one.
AddwNoCarry(a, b, cy) ==
  Wide(addb(a % 256, b % 256, cy), addb(a \div 256, b \div 256, 0))

addw(a, b, cy) ==
  LET lo == addb(a % 256, b % 256, cy)
  IN  Wide(lo, addb(a \div 256, b \div 256, lo.f.c))

subw(a, b, cy) ==
  LET lo == subb(a % 256, b % 256, cy)
  IN  Wide(lo, subb(a \div 256, b \div 256, lo.f.c))

\* ADD HL and ADD IX keep S, Z and P; ADC HL and SBC HL set them all.
addhl(hl, v, f) == [addw(hl, v, 0) EXCEPT !.f.s = f.s, !.f.z = f.z, !.f.p = f.p]
adchl(hl, v, f) == addw(hl, v, f.c)
sbchl(hl, v, f) == subw(hl, v, f.c)

inc(v, f) == [addb(v, 1, 0) EXCEPT !.f.c = f.c]
dec(v, f) == [subb(v, 1, 0) EXCEPT !.f.c = f.c]

-----------------------------------------------------------------------------
\* The byte whose bit i is bits[i].
OfBits(bits) == bits[0] + 2 * bits[1] + 4 * bits[2] + 8 * bits[3] + 16 * bits[4]
                + 32 * bits[5] + 64 * bits[6] + 128 * bits[7]

\* A result with its S, Z and P; H and C as given; N is 0.
Result(v, h, c) == [val |-> v, f |-> [s |-> Bit(v, 7), z |-> Truth(v = 0), h |-> h,
                                   p |-> parity(v), n |-> 0, c |-> c]]

land(a, v) == Result(OfBits([i \in 0 .. 7 |-> Bit(a, i) * Bit(v, i)]), 1, 0)
lor(a, v) == Result(OfBits([i \in 0 .. 7 |-> Truth(Bit(a, i) + Bit(v, i) > 0)]), 0, 0)
lxor(a, v) == Result(OfBits([i \in 0 .. 7 |-> (Bit(a, i) + Bit(v, i)) % 2]), 0, 0)

\* CP is a subtraction whose result is dropped.
cp(a, v) == [subb(a, v, 0) EXCEPT !.val = a]

\* The eight operations of an arithmetic instruction on A.
Alu(op, a, v, f) ==
  CASE op = "add" -> addb(a, v, 0)
    [] op = "adc" -> addb(a, v, f.c)
    [] op = "sub" -> subb(a, v, 0)
    [] op = "sbc" -> subb(a, v, f.c)
    [] op = "and" -> land(a, v)
    [] op = "xor" -> lxor(a, v)
    [] op = "or" -> lor(a, v)
    [] op = "cp" -> cp(a, v)

neg(a) == subb(0, a, 0)

\* cb_rlc ... cb_srl: what comes in at one end, and what goes out at the other.
Shift(op, v, c) ==
  LET left(in) == Result(((2 * v) % 256) + in, 0, Bit(v, 7))
      right(in) == Result(v \div 2 + 128 * in, 0, Bit(v, 0))
  IN  CASE op = "rlc" -> left(Bit(v, 7))
        [] op = "rrc" -> right(Bit(v, 0))
        [] op = "rl" -> left(c)
        [] op = "rr" -> right(c)
        [] op = "sla" -> left(0)
        [] op = "sll" -> left(1)
        [] op = "sra" -> right(Bit(v, 7))
        [] op = "srl" -> right(0)

\* RLCA, RRCA, RLA and RRA do the same to A but keep S, Z and P.
ShiftA(op, v, f) == [Shift(op, v, f.c) EXCEPT !.f.s = f.s, !.f.z = f.z, !.f.p = f.p]

\* BIT n: Z and P say that the bit is 0; S only for bit 7.
cb_bit(v, n, f) == [f EXCEPT !.s = IF n = 7 THEN Bit(v, 7) ELSE 0,
                             !.z = 1 - Bit(v, n), !.p = 1 - Bit(v, n), !.h = 1, !.n = 0]

cpl(a, f) == [val |-> 255 - a, f |-> [f EXCEPT !.n = 1, !.h = 1]]
scf(f) == [f EXCEPT !.c = 1, !.n = 0, !.h = 0]
ccf(f) == [f EXCEPT !.h = f.c, !.c = 1 - f.c, !.n = 0]

\* RLD and RRD turn the low digit of A and the two digits of a byte m in memory.
Turned(a, digit, m, f) == [a |-> Result(16 * (a \div 16) + digit, 0, f.c), m |-> m]
rld(a, m, f) == Turned(a, m \div 16, 16 * (m % 16) + (a % 16), f)
rrd(a, m, f) == Turned(a, m % 16, 16 * (a % 16) + m \div 16, f)

\* DAA without looking at the half carry that the operation before left.
DaaDigitsOnly(a, f) ==
  LET fix == (IF a % 16 > 9 THEN 6 ELSE 0) + (IF a > 153 \/ f.c = 1 THEN 96 ELSE 0)
  IN  [Result((IF f.n = 1 THEN a - fix ELSE a + fix) % 256, 0, Truth(fix >= 96))
         EXCEPT !.f.n = f.n]

\* A corrected to two decimal digits after an addition or a subtraction.
daa(a, f) ==
  LET low == a % 16 > 9 \/ f.h = 1
      high == a > 153 \/ f.c = 1
      fix == (IF low THEN 6 ELSE 0) + (IF high THEN 96 ELSE 0)
      h == IF f.n = 1 THEN Truth(f.h = 1 /\ a % 16 < 6) ELSE Truth(a % 16 > 9)
  IN  [Result((IF f.n = 1 THEN a - fix ELSE a + fix) % 256, h, Truth(high))
         EXCEPT !.f.n = f.n]
=============================================================================
