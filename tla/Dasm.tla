-------------------------------- MODULE Dasm --------------------------------
(***************************************************************************)
(* The CPU trace of F7: before every instruction the main loop prints what *)
(* dasm80.c finds at pc, from five tables of its own; then z80.c decodes   *)
(* and runs the same bytes.  The two accounts of an instruction, and what  *)
(* it takes for them to agree.                                             *)
(*                                                                         *)
(* An instruction is its four bytes.  Of what it does only its length and  *)
(* the way to the next instruction is told; a condition may be true or     *)
(* false.                                                                  *)
(***************************************************************************)
EXTENDS Integers, Sequences

Byte == 0 .. 255

\* Every eighth opcode from c on: c with each register, condition or operation.
Column(c) == {c + 8 * i : i \in 0 .. 7}

Signed(e) == IF e >= 128 THEN e - 256 ELSE e
Wrap(a) == a % 65536

-----------------------------------------------------------------------------
\* dasm80.c: which arguments the tables give an opcode; NOTHING for the others.

tabmain == [ARG8 |-> Column(\h06) \cup Column(\hC6) \cup {\hD3, \hDB},
            ARG16 |-> {\h01, \h11, \h21, \h31, \h22, \h2A, \h32, \h3A, \hC3, \hCD}
                      \cup Column(\hC2) \cup Column(\hC4),
            ARGREL |-> {\h10, \h18, \h20, \h28, \h30, \h38}]

tabcb == [ARG8 |-> {}, ARG16 |-> {}, ARGREL |-> {}]

tabed == [tabcb EXCEPT !.ARG16 = Column(\h43)]

\* Seven entries short, and from 0x21 on not at the places of their opcodes.
tabdd == [tabcb EXCEPT
            !.ARG8 = {\h27, \h2F, \h35, \h36, \h70} \cup \h69 .. \h6E
                     \cup ({\h47 + 8 * i : i \in 0 .. 14} \ {\h6F}),
            !.ARG16 = {\h22, \h23, \h2B}]

\* Entries for the 80 opcodes that exist, without the gaps between them.
tabfd == [tabcb EXCEPT
            !.ARG8 = {\h07, \h0D, \h0E, \h0F, \h13, \h16, \h19, \h20, \h28} \cup
                     \h2A .. \h30 \cup {\h33, \h36, \h39, \h3C, \h3F, \h42, \h45, \h48, \h4B},
            !.ARG16 = {\h02, \h03, \h09}]

Prefixes == {\hCB, \hDD, \hED, \hFD}

Table(c) == CASE c = \hCB -> tabcb [] c = \hDD -> tabdd [] c = \hED -> tabed
              [] c = \hFD -> tabfd [] OTHER -> tabmain

\* What the text of an entry says of the way on.
JumpText == {\h10, \h18, \h20, \h28, \h30, \h38, \hC3, \hCD} \cup Column(\hC2) \cup Column(\hC4)
LeaveText == {\hC9, \hE9} \cup Column(\hC0) \cup Column(\hC7)
ReturnText == Column(\h45)
RepeatText == {\hB0, \hB1, \hB2, \hB3, \hB8, \hB9, \hBA, \hBB}

Says(b) == IF b[1] \notin Prefixes
           THEN IF b[1] \in JumpText THEN "jumps" ELSE IF b[1] \in LeaveText THEN "leaves"
                ELSE "goes on"
           ELSE IF b[1] # \hED THEN "goes on"
           ELSE IF b[2] \in ReturnText THEN "leaves" ELSE IF b[2] \in RepeatText THEN "repeats"
                ELSE "goes on"

\* a runs over the bytes; g is the argument printed.
dasm(b, addr) ==
  LET op == IF b[1] \in Prefixes THEN 2 ELSE 1
      z == Table(b[1])
      a == addr + op
      line(end, g) == [says |-> Says(b), end |-> Wrap(end), g |-> Wrap(g)]
  IN  CASE b[op] \in z.ARG8 -> line(a + 1, b[op + 1])
        [] b[op] \in z.ARG16 -> line(a + 2, b[op + 1] + 256 * b[op + 2])
        [] b[op] \in z.ARGREL -> line(a + 1, a + 1 + Signed(b[op + 1]))
        [] OTHER -> line(a, 0)

-----------------------------------------------------------------------------
\* z80.c: what the CPU takes from the memory, and where it goes on.

NextByte == Column(\h06) \cup Column(\hC6)
            \cup {\hD3, \hDB, \h10, \h18, \h20, \h28, \h30, \h38}
NextWord == {\h01, \h11, \h21, \h31, \h22, \h2A, \h32, \h3A, \hC3, \hCD}
            \cup Column(\hC2) \cup Column(\hC4)

\* exec_opcode
LengthMain(c) == IF c \in NextWord THEN 3 ELSE IF c \in NextByte THEN 2 ELSE 1

\* exec_opcode_ddfd: a displacement, a byte or a word, or else the plain opcode.
IzDisplaced == {\h34, \h35} \cup (Column(\h46) \ {\h76}) \cup (\h70 .. \h77 \ {\h76})
               \cup Column(\h86)
LengthIndex(c) == IF c \in {\hCB, \h36, \h21, \h22, \h2A} THEN 4
                  ELSE IF c \in IzDisplaced \cup {\h26, \h2E} THEN 3
                  ELSE 1 + LengthMain(c)

\* exec_opcode_ed
LengthEd(c) == IF c \in Column(\h43) THEN 4 ELSE 2

Length(b) == CASE b[1] = \hCB -> 2
               [] b[1] = \hED -> LengthEd(b[2])
               [] b[1] \in {\hDD, \hFD} -> LengthIndex(b[2])
               [] OTHER -> LengthMain(b[1])

Conditional == {\h10, \h20, \h28, \h30, \h38} \cup Column(\hC2) \cup Column(\hC4) \cup Column(\hC0)

\* RST goes to one of the eight places in page 0; a return, or JP (HL), anywhere.
Restart(c) == c - \hC7
Returns(b) == \/ b[1] \in {\hC9, \hE9} \cup Column(\hC0)
              \/ b[1] = \hED /\ b[2] \in Column(\h45)

\* The places an instruction other than these may leave pc at.
Goes(b, at) ==
  LET behind == Wrap(at + Length(b))
      unless == IF b[1] \in Conditional THEN {behind} ELSE {}
  IN  CASE b[1] \in {\h10, \h18, \h20, \h28, \h30, \h38} ->
             {Wrap(behind + Signed(b[2]))} \cup unless
        [] b[1] \in {\hC3, \hCD} \cup Column(\hC2) \cup Column(\hC4) ->
             {b[2] + 256 * b[3]} \cup unless
        [] b[1] \in Column(\hC7) -> {Restart(b[1])}
        [] b[1] = \hED /\ b[2] \in {\hB0, \hB1, \hB2, \hB3, \hB8, \hB9, \hBA, \hBB} ->
             {behind, at}
        [] OTHER -> {behind}

-----------------------------------------------------------------------------
\* The line printed for b shows as many bytes as the CPU takes, and the place where
\* the CPU goes on unless it says that the program leaves: behind those bytes, at
\* the target of a jump, or at the block instruction once more.
Tells(b, at) ==
  LET shown == dasm(b, at) IN
  /\ shown.end = Wrap(at + Length(b))
  /\ (shown.says = "leaves") = (Returns(b) \/ b[1] \in Column(\hC7))
  /\ shown.says # "leaves" =>
       Goes(b, at) \subseteq {shown.end} \cup (IF shown.says = "jumps" THEN {shown.g} ELSE {})
                            \cup (IF shown.says = "repeats" THEN {at} ELSE {})
  /\ shown.says = "jumps" => shown.g \in Goes(b, at)

\* Operands that count upwards and backwards.
Operands == {<<2, 0>>, <<251, 255>>}

\* Every opcode without a prefix, of the CB page and of the ED page.
PlainCodes == {<<c>> \o x \o <<0>> : c \in Byte \ Prefixes, x \in Operands}
              \cup {<<\hCB, c, 0, 0>> : c \in Byte}
              \cup {<<\hED, c>> \o x : c \in \h40 .. \h7F \cup \hA0 .. \hBF, x \in Operands}

\* The instructions on IX.
IndexCodes == {<<\hDD, c>> \o x : c \in Byte \ Prefixes, x \in Operands}

\* The places the instructions are tried at.
Places == {0, 3, 56, 65533, 65535}
=============================================================================
