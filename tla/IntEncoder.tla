----------------------------- MODULE IntEncoder -----------------------------
(***************************************************************************)
(* The interrupt priority encoder of main.c (a 74148 on the board): eight  *)
(* active-low request lines in, a group-select flag, three output bits and *)
(* an enable output out.  Request latches sit on bits 7 to 4.              *)
(***************************************************************************)
EXTENDS Naturals

Bit == {0, 1}
LineNo == 0 .. 7
Lines == [LineNo -> Bit]

Sources == {"hccarint", "hccatint", "keybdint", "vdpint"}

\* The bit of `interrupts` each latch drives.
BitOf == [s \in Sources |-> IF s = "hccarint" THEN 7 ELSE
                          IF s = "hccatint" THEN 6 ELSE
                          IF s = "keybdint" THEN 5 ELSE 4]

Output(gs, q, eo) == [GS |-> gs, Q |-> q, EO |-> eo]

\* <<Q0, Q1, Q2>> when the keyboard line is tested before the HCCA lines.
QBitsKeyboardFirst(I) ==
  CASE I[5] = 0 -> <<0, 1, 0>>
    [] I[5] = 1 /\ I[7] = 0 -> <<0, 0, 0>>
    [] I[5] = 1 /\ I[7] = 1 /\ I[6] = 0 -> <<1, 0, 0>>
    [] OTHER -> <<1, 1, 0>>

\* <<Q0, Q1, Q2>> when some line is low: the cascade of tests from I7 down.
QBits(I) ==
  IF I[7] = 0 THEN <<0, 0, 0>> ELSE
  IF I[6] = 0 THEN <<1, 0, 0>> ELSE
  IF I[5] = 0 THEN <<0, 1, 0>> ELSE
  IF I[4] = 0 THEN <<1, 1, 0>> ELSE
  IF I[3] = 0 THEN <<0, 0, 1>> ELSE
  IF I[2] = 0 THEN <<1, 0, 1>> ELSE
  IF I[1] = 0 THEN <<0, 1, 1>> ELSE <<1, 1, 1>>

int_prio_enc(EI, I) ==
  IF EI = 1 THEN Output(1, <<1, 1, 1>>, 1) ELSE
  IF \A k \in LineNo : I[k] = 1 THEN Output(1, <<1, 1, 1>>, 0)
                                ELSE Output(0, QBits(I), 1)

QValue(out) == out.Q[1] + 2 * out.Q[2] + 4 * out.Q[3]

\* Low nibble of psg_portb: EO | (Q0 << 1) | (Q1 << 2) | (Q2 << 3).
Nibble(out) == out.EO + 2 * QValue(out)

\* The lines seen by the encoder: ~(interrupts & psg_porta).
ActiveLow(lat, porta) ==
  [k \in LineNo |-> IF \E s \in lat \cap porta : BitOf[s] = k THEN 0 ELSE 1]

Encode(lat, porta) == int_prio_enc(0, ActiveLow(lat, porta))

-----------------------------------------------------------------------------
\* Reference: which request wins, and the vector byte the CPU is given for it
\* (bits 1 to 3 of the nibble).
Wins(s, req) == s \in req /\ \A t \in req : BitOf[t] <= BitOf[s]
Vector(s) == 2 * (7 - BitOf[s])
=============================================================================
