----------------------------- MODULE Nabu_proofs ----------------------------
(***************************************************************************)
(* Proofs about the interrupt network for every capacity of the keyboard   *)
(* buffer, watchdog period, mask and port B value the guest may write, and *)
(* with or without resets and a peer that hangs up.                        *)
(***************************************************************************)
EXTENDS Nabu, TLAPS

USE CapacityAssumption, MasksAssumption, PortBAssumption, DogAssumption,
    MaxRxAssumption, ChoicesAssumption, CodesAssumption

-----------------------------------------------------------------------------
(* The encoder. *)

\* Some request wins whenever there is one.
LEMMA SomeoneWins ==
  ASSUME NEW req \in SUBSET Sources, req # {}
  PROVE  \E s \in Sources : Wins(s, req)
<1>1. CASE "hccarint" \in req
  BY <1>1 DEF Wins, BitOf, Sources
<1>2. CASE "hccarint" \notin req /\ "hccatint" \in req
  BY <1>2 DEF Wins, BitOf, Sources
<1>3. CASE req \cap {"hccarint", "hccatint"} = {} /\ "keybdint" \in req
  BY <1>3 DEF Wins, BitOf, Sources
<1>4. CASE req = {"vdpint"}
  BY <1>4 DEF Wins, BitOf, Sources
<1> QED
  BY <1>1, <1>2, <1>3, <1>4 DEF Sources

\* The encoder reports a request exactly when a latch passes the mask, and its
\* output bits spell the vector of the winner (main.c:408-469).
LEMMA EncoderPicksHighest ==
  ASSUME NEW l \in SUBSET Sources, NEW a \in SUBSET Sources
  PROVE  LET out == Encode(l, a)
         IN  /\ out.GS = 0 <=> l \cap a # {}
             /\ \A s \in Sources : Wins(s, l \cap a) => 2 * QValue(out) = Vector(s)
             /\ Nibble(out) \in 0 .. 15
             /\ 2 * QValue(out) \in 0 .. 14
<1> DEFINE I == ActiveLow(l, a)
           out == Encode(l, a)
<1>1. \A k \in LineNo : I[k] = IF \E s \in l \cap a : BitOf[s] = k THEN 0 ELSE 1
  BY DEF ActiveLow
<1>2. \A s \in Sources : BitOf[s] \in LineNo
  BY DEF BitOf, Sources, LineNo
<1>3. /\ I[7] = IF "hccarint" \in l \cap a THEN 0 ELSE 1
      /\ I[6] = IF "hccatint" \in l \cap a THEN 0 ELSE 1
      /\ I[5] = IF "keybdint" \in l \cap a THEN 0 ELSE 1
      /\ I[4] = IF "vdpint" \in l \cap a THEN 0 ELSE 1
      /\ I[3] = 1 /\ I[2] = 1 /\ I[1] = 1 /\ I[0] = 1
  <2>1. \A k \in 4 .. 7 : \A s \in l \cap a : BitOf[s] = k <=>
           s = IF k = 7 THEN "hccarint" ELSE IF k = 6 THEN "hccatint"
               ELSE IF k = 5 THEN "keybdint" ELSE "vdpint"
    BY DEF BitOf, Sources
  <2>2. \A k \in 0 .. 3 : \A s \in l \cap a : BitOf[s] # k
    BY DEF BitOf, Sources
  <2>3. I[7] = IF "hccarint" \in l \cap a THEN 0 ELSE 1
    BY <1>1, <2>1 DEF LineNo
  <2>4. I[6] = IF "hccatint" \in l \cap a THEN 0 ELSE 1
    BY <1>1, <2>1 DEF LineNo
  <2>5. I[5] = IF "keybdint" \in l \cap a THEN 0 ELSE 1
    BY <1>1, <2>1 DEF LineNo
  <2>6. I[4] = IF "vdpint" \in l \cap a THEN 0 ELSE 1
    BY <1>1, <2>1 DEF LineNo
  <2>7. I[3] = 1 /\ I[2] = 1 /\ I[1] = 1 /\ I[0] = 1
    BY <1>1, <2>2 DEF LineNo
  <2> QED
    BY <2>3, <2>4, <2>5, <2>6, <2>7
<1>4. out = IF l \cap a = {} THEN Output(1, <<1, 1, 1>>, 0) ELSE Output(0, QBits(I), 1)
  <2>1. (\A k \in LineNo : I[k] = 1) <=> l \cap a = {}
    BY <1>1, <1>2
  <2> QED
    BY <2>1 DEF Encode, int_prio_enc
<1>5. CASE l \cap a = {}
  <2>1. out.GS = 1 /\ out.EO = 0 /\ QValue(out) = 7
    BY <1>4, <1>5 DEF Output, QValue
  <2> QED
    BY <1>5, <2>1 DEF Wins, Nibble
<1>6. CASE l \cap a # {}
  <2>1. out.GS = 0 /\ out.EO = 1 /\ out.Q = QBits(I)
    BY <1>4, <1>6 DEF Output
  <2>2. PICK w \in Sources : Wins(w, l \cap a)
    BY <1>6, SomeoneWins
  <2>3. QValue(out) = 7 - BitOf[w]
    <3>1. /\ w \in l \cap a
          /\ \A t \in l \cap a : BitOf[t] <= BitOf[w]
      BY <2>2 DEF Wins
    <3>2. BitOf["hccarint"] = 7 /\ BitOf["hccatint"] = 6
            /\ BitOf["keybdint"] = 5 /\ BitOf["vdpint"] = 4
      BY DEF BitOf, Sources
    <3>3. CASE w = "hccarint"
      <4>2. I[7] = 0
        BY <3>1, <3>3, <1>3
      <4>3. out.Q = <<0, 0, 0>>
        BY <4>2, <2>1 DEF QBits
      <4> QED
        BY <4>3, <3>2, <3>3 DEF QValue
    <3>4. CASE w = "hccatint"
      <4>1. "hccarint" \notin l \cap a
        BY <3>1, <3>2, <3>4
      <4>2. I[7] = 1 /\ I[6] = 0
        BY <4>1, <3>1, <3>4, <1>3
      <4>3. out.Q = <<1, 0, 0>>
        BY <4>2, <2>1 DEF QBits
      <4> QED
        BY <4>3, <3>2, <3>4 DEF QValue
    <3>5. CASE w = "keybdint"
      <4>1. "hccarint" \notin l \cap a /\ "hccatint" \notin l \cap a
        BY <3>1, <3>2, <3>5
      <4>2. I[7] = 1 /\ I[6] = 1 /\ I[5] = 0
        BY <4>1, <3>1, <3>5, <1>3
      <4>3. out.Q = <<0, 1, 0>>
        BY <4>2, <2>1 DEF QBits
      <4> QED
        BY <4>3, <3>2, <3>5 DEF QValue
    <3>6. CASE w = "vdpint"
      <4>1. "hccarint" \notin l \cap a /\ "hccatint" \notin l \cap a /\ "keybdint" \notin l \cap a
        BY <3>1, <3>2, <3>6
      <4>2. I[7] = 1 /\ I[6] = 1 /\ I[5] = 1 /\ I[4] = 0
        BY <4>1, <3>1, <3>6, <1>3
      <4>3. out.Q = <<1, 1, 0>>
        BY <4>2, <2>1 DEF QBits
      <4> QED
        BY <4>3, <3>2, <3>6 DEF QValue
    <3> QED
      BY <3>3, <3>4, <3>5, <3>6 DEF Sources
  <2>4. \A s \in Sources : Wins(s, l \cap a) => BitOf[s] = BitOf[w]
    BY <2>2, <1>2 DEF Wins, LineNo
  <2>5. BitOf[w] \in 4 .. 7
    BY DEF BitOf, Sources
  <2>6. \A s \in Sources : Wins(s, l \cap a) => 2 * QValue(out) = Vector(s)
    BY <2>3, <2>4 DEF Vector
  <2>7. QValue(out) \in 0 .. 3
    BY <2>3, <2>5
  <2>8. Nibble(out) \in 0 .. 15 /\ 2 * QValue(out) \in 0 .. 14
    BY <2>1, <2>7 DEF Nibble
  <2> QED
    BY <1>6, <2>1, <2>6, <2>8
<1> QED
  BY <1>5, <1>6

\* Different sources have different vectors.
LEMMA VectorsDiffer ==
  \A s, t \in Sources : Vector(s) = Vector(t) => s = t
  BY DEF Vector, BitOf, Sources

-----------------------------------------------------------------------------
(* The keyboard buffer. *)

\* The two operations on the buffer keep it a bounded sequence of codes.
LEMMA QueueClosed ==
  ASSUME NEW q \in Queues, NEW c \in Codes
  PROVE  KeyPut(q, c) \in Queues /\ KeyRest(q) \in Queues
<1>1. q \in Seq(Codes) /\ Len(q) <= Capacity /\ Len(q) \in Nat
  BY DEF Queues
<1>2. KeyPut(q, c) \in Queues
  BY <1>1 DEF KeyPut, Queues
<1>3. KeyRest(q) \in Queues
  BY <1>1 DEF KeyRest, Queues
<1> QED
  BY <1>2, <1>3

-----------------------------------------------------------------------------
(* The inductive invariant.  InterruptCoherence relates the CPU's inputs to *)
(* the requests only; to be inductive it must say that they, and port B,   *)
(* are what the encoder would output now.                                  *)

Coherent == LET out == Encode(lat, psg_porta)
            IN  /\ int_pending = (out.GS = 0)
                /\ int_data = 2 * QValue(out)
                /\ psg_portb = Nibble(out)

\* The part of the invariant about the variables update_interrupts touches.
NetOK == /\ lat \in SUBSET Sources /\ "hccatint" \in lat
         /\ psg_porta \in SUBSET Sources
         /\ psg_portb \in 0 .. 15 /\ reg15 \in 0 .. 15
         /\ int_pending \in BOOLEAN /\ int_data \in 0 .. 14
         /\ Coherent

\* The part about every other variable.
RestOK == /\ pc \in {"top", "poll", "cpu", "int"}
          /\ reg14 \in SUBSET Sources
          /\ psg_reg_address \in {"porta", "portb", "other"}
          /\ iff1 \in BOOLEAN /\ iff_delay \in {0, 1} /\ halted \in BOOLEAN
          /\ ei \in BOOLEAN /\ taken \in Sources \cup {"none"}
          /\ kbd \in Queues
          /\ next_watchdog \in 0 .. DogSpeed - 1
          /\ rx \in 0 .. MaxRx /\ status \in BOOLEAN /\ hup \in BOOLEAN
          /\ vdp_flag \in BOOLEAN /\ vdp_enable \in BOOLEAN

IInv == NetOK /\ RestOK

\* A call of update_interrupts establishes the network's part.
LEMMA UpdateEstablishes ==
  ASSUME NEW l \in SUBSET Sources, NEW a \in SUBSET Sources,
         "hccatint" \in l, UpdateInterrupts(l, a)
  PROVE  NetOK'
<1> DEFINE out == Encode(l, a)
<1>1. /\ lat' = l /\ psg_porta' = a /\ psg_portb' = Nibble(out)
      /\ reg15' = Nibble(out) /\ int_pending' = (out.GS = 0)
      /\ int_data' = 2 * QValue(out)
  BY DEF UpdateInterrupts
<1>2. Nibble(out) \in 0 .. 15 /\ 2 * QValue(out) \in 0 .. 14
  BY EncoderPicksHighest
<1>3. Coherent'
  BY <1>1 DEF Coherent
<1> QED
  BY <1>1, <1>2, <1>3 DEF NetOK

\* Steps that leave the network alone keep its part.
LEMMA UnchangedKeeps == NetOK /\ UNCHANGED netVars => NetOK'
  BY DEF NetOK, netVars, Coherent

\* A latch change behind a test keeps it, changed or not.
LEMMA SetLatchesKeeps ==
  ASSUME NetOK, NEW l \in SUBSET Sources, "hccatint" \in l, SetLatches(l)
  PROVE  NetOK'
<1>1. CASE l = lat
  BY <1>1, UnchangedKeeps DEF SetLatches
<1>2. CASE l # lat
  <2>1. psg_porta \in SUBSET Sources
    BY DEF NetOK
  <2> QED
    BY <1>2, <2>1, UpdateEstablishes DEF SetLatches
<1> QED
  BY <1>1, <1>2

\* The latches a scanline sets are latches, and the transmit one stays set.
LEMMA LatchSets ==
  ASSUME NetOK
  PROVE  /\ ScanLatches \in SUBSET Sources /\ "hccatint" \in ScanLatches
         /\ \A flag \in BOOLEAN : /\ VdpLatch(flag) \in SUBSET Sources
                                  /\ "hccatint" \in VdpLatch(flag)
         /\ \A s \in {"hccarint", "keybdint", "vdpint"} :
               lat \ {s} \in SUBSET Sources /\ "hccatint" \in lat \ {s}
         /\ ResetLatches \in SUBSET Sources /\ "hccatint" \in ResetLatches
         /\ PowerUp \in SUBSET Sources /\ "hccatint" \in PowerUp
  BY DEF NetOK, ScanLatches, VdpLatch, ResetLatches, PowerUp, Sources

\* The initial state satisfies the invariant.
LEMMA InitIInv == Init => IInv
<1> SUFFICES ASSUME Init PROVE IInv
  OBVIOUS
<1> DEFINE out == Encode(PowerUp, {})
<1>1. PowerUp \in SUBSET Sources /\ {} \in SUBSET Sources /\ "hccatint" \in PowerUp
  BY DEF PowerUp, Sources
<1>2. Nibble(out) \in 0 .. 15 /\ 2 * QValue(out) \in 0 .. 14
  BY <1>1, EncoderPicksHighest
<1>3. NetOK
  BY <1>1, <1>2 DEF Init, NetOK, Coherent
<1>4. kbd \in Queues
  <2>1. <<>> \in Queues /\ "key" \in Codes
    BY DEF Queues
  <2> QED
    BY <2>1, QueueClosed DEF Init
<1>5. next_watchdog \in 0 .. DogSpeed - 1 /\ rx \in 0 .. MaxRx
  BY DEF Init
<1>6. {} \in SUBSET Sources
  OBVIOUS
<1>7. /\ pc = "top" /\ reg14 = {} /\ psg_reg_address = "other"
      /\ iff1 = FALSE /\ iff_delay = 0 /\ halted = FALSE /\ ei = FALSE
      /\ taken = "none" /\ status \in BOOLEAN /\ hup = FALSE
      /\ vdp_flag = FALSE /\ vdp_enable = FALSE
  BY DEF Init
<1> QED
  BY <1>3, <1>4, <1>5, <1>6, <1>7 DEF IInv, RestOK

-----------------------------------------------------------------------------
(* Every step keeps the invariant: one step of the proof per action.       *)

\* An opcode that leaves the network, the keyboard and the sockets alone.
LEMMA QuietOpcode ==
  ASSUME IInv, Fetch, UNCHANGED <<netVars, kbdVars, modemVars>>,
         reg14' = reg14, psg_reg_address' \in {"porta", "portb", "other"},
         iff1' \in BOOLEAN, iff_delay' \in {0, 1}, halted' \in BOOLEAN,
         ei' \in BOOLEAN, vdp_flag' = vdp_flag, vdp_enable' \in BOOLEAN
  PROVE  IInv'
<1>1. NetOK'
  BY UnchangedKeeps DEF IInv
<1>2. RestOK'
  BY DEF IInv, RestOK, Fetch, kbdVars, modemVars
<1> QED
  BY <1>1, <1>2 DEF IInv

\* The opcodes of the guest keep the invariant.
LEMMA OpcodeIInv == IInv /\ Opcode => IInv'
<1> SUFFICES ASSUME IInv, Opcode PROVE IInv'
  OBVIOUS
<1>1. NetOK /\ RestOK
  BY DEF IInv
<1>2. CASE Nop
  BY <1>1, <1>2, QuietOpcode DEF Nop, RestOK, psgVars, vdpVars
<1>3. CASE EnableInt
  BY <1>1, <1>3, QuietOpcode DEF EnableInt, Running, RestOK, psgVars, vdpVars
<1>4. CASE DisableInt
  BY <1>1, <1>4, QuietOpcode DEF DisableInt, Running, RestOK, psgVars, vdpVars
<1>5. CASE Halt
  BY <1>1, <1>5, QuietOpcode DEF Halt, Running, RestOK, psgVars, vdpVars
<1>6. CASE ReadHcca
  <2>1. NetOK'
    <3>1. CASE Readable /\ rx > 0
      <4>1. UpdateInterrupts(lat \ {"hccarint"}, psg_porta)
        BY <1>6, <3>1 DEF ReadHcca
      <4> QED
        BY <1>1, <4>1, LatchSets, UpdateEstablishes DEF NetOK
    <3>2. CASE ~(Readable /\ rx > 0)
      <4>1. UNCHANGED netVars
        BY <1>6, <3>2 DEF ReadHcca
      <4> QED
        BY <1>1, <4>1, UnchangedKeeps
    <3> QED
      BY <3>1, <3>2
  <2>2. rx' \in 0 .. MaxRx /\ status' \in BOOLEAN
    <3>1. rx \in 0 .. MaxRx /\ status \in BOOLEAN /\ hup \in BOOLEAN
      BY <1>1 DEF RestOK
    <3>2. CASE Readable /\ rx > 0
      <4>1. rx' = rx - 1 /\ status' = status
        BY <1>6, <3>2 DEF ReadHcca
      <4> QED
        BY <3>1, <3>2, <4>1
    <3>3. CASE ~(Readable /\ rx > 0)
      <4>1. rx' = rx /\ status' = (status /\ ~hup)
        BY <1>6, <3>3 DEF ReadHcca
      <4>2. (status /\ ~hup) \in BOOLEAN
        BY <3>1
      <4> QED
        BY <3>1, <4>1, <4>2
    <3> QED
      BY <3>2, <3>3
  <2>3. RestOK'
    BY <1>1, <1>6, <2>2 DEF ReadHcca, PortAccess, Running, Fetch, RestOK,
                            psgVars, kbdVars, vdpVars
  <2> QED
    BY <2>1, <2>3 DEF IInv
<1>7. CASE ReadKeyboard
  <2>1. NetOK'
    BY <1>1, <1>7, LatchSets, UpdateEstablishes DEF ReadKeyboard, NetOK
  <2>2. kbd' \in Queues
    BY <1>1, <1>7, QueueClosed DEF ReadKeyboard, RestOK
  <2>3. RestOK'
    BY <1>1, <1>7, <2>2 DEF ReadKeyboard, PortAccess, Running, Fetch, RestOK,
                            psgVars, modemVars, vdpVars
  <2> QED
    BY <2>1, <2>3 DEF IInv
<1>8. CASE ReadVdpStatus
  <2>1. NetOK'
    BY <1>1, <1>8, LatchSets, UpdateEstablishes DEF ReadVdpStatus, NetOK
  <2>2. RestOK'
    BY <1>1, <1>8 DEF ReadVdpStatus, PortAccess, Running, Fetch, RestOK,
                      psgVars, kbdVars, modemVars
  <2> QED
    BY <2>1, <2>2 DEF IInv
<1>9. ASSUME NEW r \in {"porta", "portb", "other"}, SelectPsg(r) PROVE IInv'
  BY <1>1, <1>9, QuietOpcode DEF SelectPsg, PortAccess, Running, RestOK, vdpVars
<1>10. ASSUME NEW m \in Masks, WritePortA(m) PROVE IInv'
  <2>1. m \in SUBSET Sources
    OBVIOUS
  <2>2. NetOK'
    <3>1. CASE psg_porta # m
      <4>1. UpdateInterrupts(lat, m)
        BY <1>10, <3>1 DEF WritePortA
      <4> QED
        BY <1>1, <2>1, <4>1, UpdateEstablishes DEF NetOK
    <3>2. CASE psg_porta = m
      BY <1>1, <1>10, <3>2, UnchangedKeeps DEF WritePortA
    <3> QED
      BY <3>1, <3>2
  <2>3. RestOK'
    BY <1>1, <1>10, <2>1 DEF WritePortA, PortAccess, Running, Fetch, RestOK,
                             kbdVars, modemVars, vdpVars
  <2> QED
    BY <2>2, <2>3 DEF IInv
<1>11. ASSUME NEW n \in PortBWrites, WritePortB(n) PROVE IInv'
  <2>1. NetOK'
    BY <1>1, <1>11 DEF WritePortB, NetOK, Coherent
  <2>2. RestOK'
    BY <1>1, <1>11 DEF WritePortB, PortAccess, Running, Fetch, RestOK,
                       psgVars, kbdVars, modemVars, vdpVars
  <2> QED
    BY <2>1, <2>2 DEF IInv
<1>12. ASSUME NEW on \in BOOLEAN, WriteVdpEnable(on) PROVE IInv'
  BY <1>1, <1>12, QuietOpcode DEF WriteVdpEnable, PortAccess, Running, RestOK, psgVars
<1> QED
  BY <1>2, <1>3, <1>4, <1>5, <1>6, <1>7, <1>8, <1>9, <1>10, <1>11, <1>12 DEF Opcode

\* The scanline, the poll and the second half of z80_step keep it.
LEMMA LoopIInv == IInv /\ Loop => IInv'
<1> SUFFICES ASSUME IInv, Loop PROVE IInv'
  OBVIOUS
<1>1. NetOK /\ RestOK
  BY DEF IInv
<1>2. CASE ScanBegin
  <2>1. NetOK'
    <3>1. CASE Readable \/ ScanLatches # lat
      <4>1. UpdateInterrupts(ScanLatches, psg_porta)
        BY <1>2, <3>1 DEF ScanBegin
      <4> QED
        BY <1>1, <4>1, LatchSets, UpdateEstablishes DEF NetOK
    <3>2. CASE ~(Readable \/ ScanLatches # lat)
      BY <1>1, <1>2, <3>2, UnchangedKeeps DEF ScanBegin
    <3> QED
      BY <3>1, <3>2
  <2>2. RestOK'
    BY <1>1, <1>2 DEF ScanBegin, RestOK, psgVars, kbdVars, modemVars, vdpVars
  <2> QED
    BY <2>1, <2>2 DEF IInv
<1>3. CASE PollKey
  <2>1. NetOK'
    BY <1>1, <1>3, UnchangedKeeps DEF PollKey
  <2>2. kbd' \in Queues
    BY <1>1, <1>3, QueueClosed DEF PollKey, RestOK
  <2>3. RestOK'
    BY <1>1, <1>3, <2>2 DEF PollKey, RestOK, psgVars, cpuVars, modemVars, vdpVars
  <2> QED
    BY <2>1, <2>3 DEF IInv
<1>4. CASE PollReset
  <2>1. NetOK'
    <3>1. UpdateInterrupts(ResetLatches, {})
      BY <1>4 DEF PollReset
    <3> QED
      BY <1>1, <3>1, LatchSets, UpdateEstablishes
  <2>2. kbd' \in Queues
    BY <1>1, <1>4, QueueClosed DEF PollReset, RestOK
  <2>3. rx' \in 0 .. MaxRx /\ status' \in BOOLEAN
    BY <1>1, <1>4 DEF PollReset, RestOK
  <2>4. RestOK'
    BY <1>1, <1>4, <2>2, <2>3 DEF PollReset, RestOK, psgVars
  <2> QED
    BY <2>1, <2>4 DEF IInv
<1>5. CASE ScanEnd
  <2>1. PICK flag \in {vdp_flag, TRUE} : vdp_flag' = flag /\ SetLatches(VdpLatch(flag))
    BY <1>5 DEF ScanEnd
  <2>2. flag \in BOOLEAN
    BY <1>1 DEF RestOK
  <2>3. NetOK'
    BY <1>1, <2>1, <2>2, LatchSets, SetLatchesKeeps
  <2>4. kbd' \in Queues
    BY <1>1, <1>5, QueueClosed DEF ScanEnd, RestOK
  <2>5. next_watchdog' \in 0 .. DogSpeed - 1
    BY <1>1, <1>5 DEF ScanEnd, NextWatchdog, RestOK
  <2>6. RestOK'
    BY <1>1, <1>5, <2>1, <2>2, <2>4, <2>5
       DEF ScanEnd, RestOK, psgVars, cpuVars, modemVars
  <2> QED
    BY <2>3, <2>6 DEF IInv
<1>6. CASE Opcode
  BY <1>6, OpcodeIInv
<1>7. CASE ProcessInterrupts
  <2>1. NetOK'
    BY <1>1, <1>7, UnchangedKeeps DEF ProcessInterrupts
  <2>2. taken' \in Sources \cup {"none"}
    <3>1. CASE Accept
      <4>1. lat \cap psg_porta \in SUBSET Sources /\ lat \cap psg_porta # {}
        BY <1>1, <3>1, EncoderPicksHighest DEF Accept, NetOK, Coherent
      <4>2. PICK w \in Sources : Wins(w, lat \cap psg_porta)
        BY <4>1, SomeoneWins
      <4>3. Vector(w) = int_data
        BY <1>1, <4>2, EncoderPicksHighest DEF NetOK, Coherent
      <4> QED
        BY <1>7, <3>1, <4>3 DEF ProcessInterrupts
    <3>2. CASE ~Accept
      BY <1>7, <3>2 DEF ProcessInterrupts
    <3> QED
      BY <3>1, <3>2
  <2>3. iff1' \in BOOLEAN /\ iff_delay' \in {0, 1} /\ halted' \in BOOLEAN
    BY <1>1, <1>7 DEF ProcessInterrupts, RestOK, HaltedAfter
  <2>4. RestOK'
    BY <1>1, <1>7, <2>2, <2>3
       DEF ProcessInterrupts, RestOK, psgVars, kbdVars, modemVars, vdpVars
  <2> QED
    BY <2>1, <2>4 DEF IInv
<1> QED
  BY <1>2, <1>3, <1>4, <1>5, <1>6, <1>7 DEF Loop

\* The invariant is inductive.
LEMMA NextIInv == IInv /\ [Next]_vars => IInv'
<1> SUFFICES ASSUME IInv, [Next]_vars PROVE IInv'
  OBVIOUS
<1>1. NetOK /\ RestOK
  BY DEF IInv
<1>2. CASE Loop
  BY <1>2, LoopIInv
<1>3. CASE PeerSend
  <2>1. NetOK'
    BY <1>1, <1>3, UnchangedKeeps DEF PeerSend
  <2>2. RestOK'
    BY <1>1, <1>3 DEF PeerSend, RestOK, psgVars, cpuVars, kbdVars, vdpVars
  <2> QED
    BY <2>1, <2>2 DEF IInv
<1>4. CASE PeerClose
  <2>1. NetOK'
    BY <1>1, <1>4, UnchangedKeeps DEF PeerClose
  <2>2. RestOK'
    BY <1>1, <1>4 DEF PeerClose, RestOK, psgVars, cpuVars, kbdVars, vdpVars
  <2> QED
    BY <2>1, <2>2 DEF IInv
<1>5. CASE UNCHANGED vars
  <2>1. NetOK'
    BY <1>1, <1>5, UnchangedKeeps DEF vars
  <2>2. RestOK'
    BY <1>1, <1>5 DEF vars, RestOK, psgVars, cpuVars, kbdVars, modemVars, vdpVars
  <2> QED
    BY <2>1, <2>2 DEF IInv
<1> QED
  BY <1>2, <1>3, <1>4, <1>5 DEF Next

\* The invariant holds in every reachable state.
LEMMA AlwaysIInv == Spec => []IInv
  BY InitIInv, NextIInv, PTL DEF Spec

-----------------------------------------------------------------------------
\* Type correctness: in particular the watchdog counter stays below dog_speed
\* and the keyboard buffer within its capacity (main.c:539-550, 2443-2454).
THEOREM TypeCorrect == Spec => []TypeOK
<1>1. IInv => TypeOK
  BY DEF IInv, NetOK, RestOK, TypeOK
<1> QED
  BY <1>1, AlwaysIInv, PTL

\* At every point of the main loop the Z80 is asked to interrupt exactly when
\* an unmasked latch is set, with the vector of the highest-priority one: no
\* handler of main.c changes a latch or the mask and leaves the CPU with a
\* stale request, whatever the guest, the keyboard and the adapter do.
THEOREM Coherence == Spec => []InterruptCoherence
<1>1. IInv => InterruptCoherence
  <2> SUFFICES ASSUME IInv PROVE InterruptCoherence
    OBVIOUS
  <2>1. /\ lat \in SUBSET Sources /\ psg_porta \in SUBSET Sources
        /\ int_pending = (Encode(lat, psg_porta).GS = 0)
        /\ int_data = 2 * QValue(Encode(lat, psg_porta))
    BY DEF IInv, NetOK, Coherent
  <2> QED
    BY <2>1, EncoderPicksHighest DEF InterruptCoherence, Requests
<1> QED
  BY <1>1, AlwaysIInv, PTL

\* The vector of an accepted interrupt is that of the highest-priority request
\* latched and unmasked at the moment process_interrupts accepts it.
THEOREM AcceptedIsHighest == Spec => AcceptsHighest
<1> DEFINE P == taken' # "none" /\ taken' # taken => Wins(taken', Requests)
<1>1. IInv /\ [Next]_vars => [P]_vars
  <2> SUFFICES ASSUME IInv, [Next]_vars PROVE P \/ UNCHANGED vars
    OBVIOUS
  <2>1. CASE ProcessInterrupts
    <3>1. CASE Accept
      <4>1. /\ lat \in SUBSET Sources /\ psg_porta \in SUBSET Sources
            /\ int_pending = (Encode(lat, psg_porta).GS = 0)
            /\ int_data = 2 * QValue(Encode(lat, psg_porta))
        BY DEF IInv, NetOK, Coherent
      <4>2. Requests # {} /\ Requests \in SUBSET Sources
        BY <3>1, <4>1, EncoderPicksHighest DEF Accept, Requests
      <4>3. PICK w \in Sources : Wins(w, Requests)
        BY <4>2, SomeoneWins
      <4>4. Vector(w) = int_data
        BY <4>1, <4>3, EncoderPicksHighest DEF Requests
      <4>5. taken' = CHOOSE s \in Sources : Vector(s) = int_data
        BY <2>1, <3>1 DEF ProcessInterrupts
      <4>6. taken' \in Sources /\ Vector(taken') = int_data
        BY <4>4, <4>5
      <4>7. taken' = w
        BY <4>4, <4>6, VectorsDiffer
      <4> QED
        BY <4>3, <4>7
    <3>2. CASE ~Accept
      BY <2>1, <3>2 DEF ProcessInterrupts
    <3> QED
      BY <3>1, <3>2
  <2>2. CASE ScanBegin \/ Opcode
    <3>1. taken' = "none"
      BY <2>2 DEF ScanBegin, Opcode, Fetch, Running, PortAccess, Nop, EnableInt,
            DisableInt, Halt, ReadHcca, ReadKeyboard, ReadVdpStatus, SelectPsg,
            WritePortA, WritePortB, WriteVdpEnable
    <3> QED
      BY <3>1
  <2>3. CASE PollKey \/ PollReset \/ ScanEnd \/ PeerSend \/ PeerClose
    <3>1. taken' = taken
      BY <2>3 DEF PollKey, PollReset, ScanEnd, PeerSend, PeerClose, cpuVars
    <3> QED
      BY <3>1
  <2> QED
    BY <2>1, <2>2, <2>3 DEF Next, Loop
<1> QED
  BY <1>1, AlwaysIInv, PTL DEF Spec, AcceptsHighest, TakesHighest

\* A VDP request never outlives the scanline in which the guest masked the
\* VDP's interrupt: the release at main.c:2473-2477 reaches every such case.
THEOREM MaskReleases == Spec => []VdpMaskReleases
<1>1. Init => VdpMaskReleases
  BY DEF Init, VdpMaskReleases
<1>2. VdpMaskReleases /\ IInv /\ [Next]_vars => VdpMaskReleases'
  <2> SUFFICES ASSUME VdpMaskReleases, IInv, [Next]_vars PROVE VdpMaskReleases'
    OBVIOUS
  <2>1. CASE ScanEnd
    <3>1. PICK flag \in {vdp_flag, TRUE} : SetLatches(VdpLatch(flag))
      BY <2>1 DEF ScanEnd
    <3>2. lat' = VdpLatch(flag)
      BY <3>1 DEF SetLatches, UpdateInterrupts, netVars
    <3>3. vdp_enable' = vdp_enable
      BY <2>1 DEF ScanEnd
    <3>4. "vdpint" \in VdpLatch(flag) => vdp_enable
      BY DEF VdpLatch
    <3> QED
      BY <3>2, <3>3, <3>4 DEF VdpMaskReleases
  <2>2. CASE ScanBegin \/ PollKey \/ PollReset \/ Opcode \/ ProcessInterrupts
    <3>1. pc' # "cpu"
      BY <2>2 DEF ScanBegin, PollKey, PollReset, ProcessInterrupts, Opcode, Fetch,
            Running, PortAccess, Nop, EnableInt, DisableInt, Halt, ReadHcca,
            ReadKeyboard, ReadVdpStatus, SelectPsg, WritePortA, WritePortB,
            WriteVdpEnable
    <3> QED
      BY <3>1 DEF VdpMaskReleases
  <2>3. CASE PeerSend \/ PeerClose \/ UNCHANGED vars
    BY <2>3 DEF PeerSend, PeerClose, vars, VdpMaskReleases, netVars, vdpVars
  <2> QED
    BY <2>1, <2>2, <2>3 DEF Next, Loop
<1> QED
  BY <1>1, <1>2, AlwaysIInv, PTL DEF Spec

-----------------------------------------------------------------------------
\* What EiShieldsNext needs: between the opcode and process_interrupts an EI
\* has its delay running.
EiInv == /\ EiShieldsNext
         /\ pc = "int" /\ ei => iff_delay = 1

\* No interrupt is accepted in the step that executed EI: the instruction after
\* it always runs first (z80.c:668-678).
THEOREM EiShields == Spec => []EiShieldsNext
<1>1. Init => EiInv
  BY DEF Init, EiInv, EiShieldsNext
<1>2. EiInv /\ IInv /\ [Next]_vars => EiInv'
  <2> SUFFICES ASSUME EiInv, IInv, [Next]_vars PROVE EiInv'
    OBVIOUS
  <2>1. CASE ProcessInterrupts
    BY <2>1 DEF ProcessInterrupts, Accept, EiInv, EiShieldsNext
  <2>2. CASE EnableInt
    BY <2>2 DEF EnableInt, Running, Fetch, EiInv, EiShieldsNext
  <2>3. CASE Opcode /\ ~EnableInt
    <3>1. taken' = "none" /\ ei' = FALSE
      BY <2>3 DEF Opcode, Fetch, Running, PortAccess, Nop, DisableInt, Halt,
            ReadHcca, ReadKeyboard, ReadVdpStatus, SelectPsg, WritePortA,
            WritePortB, WriteVdpEnable
    <3> QED
      BY <3>1 DEF EiInv, EiShieldsNext
  <2>4. CASE ScanBegin \/ PollReset \/ ScanEnd
    <3>1. pc' # "int" /\ ei' = ei /\ taken' \in {taken, "none"}
      BY <2>4 DEF ScanBegin, PollReset, ScanEnd, cpuVars
    <3> QED
      BY <3>1 DEF EiInv, EiShieldsNext
  <2>5. CASE PollKey \/ PeerSend \/ PeerClose \/ UNCHANGED vars
    BY <2>5 DEF PollKey, PeerSend, PeerClose, vars, cpuVars, EiInv, EiShieldsNext
  <2> QED
    BY <2>1, <2>2, <2>3, <2>4, <2>5 DEF Next, Loop
<1>3. EiInv => EiShieldsNext
  BY DEF EiInv
<1> QED
  BY <1>1, <1>2, <1>3, AlwaysIInv, PTL DEF Spec

\* While the peer is connected, the receive request is up only while a byte
\* waits: reads and resets take both away together (main.c:587-599,
\* 1625-1636, 2426-2431).
THEOREM RequestHasData == Spec => []RequestHasByte
<1> DEFINE Inv == ~hup => ("hccarint" \in lat => status /\ rx > 0)
<1>1. Init => Inv
  BY DEF Init, PowerUp
<1>2. Inv /\ IInv /\ [Next]_vars => Inv'
  <2> SUFFICES ASSUME Inv, IInv, [Next]_vars PROVE Inv'
    OBVIOUS
  <2>1. hup \in BOOLEAN /\ status \in BOOLEAN /\ rx \in 0 .. MaxRx
    BY DEF IInv, RestOK
  <2>2. CASE ScanBegin
    <3>1. "hccarint" \in lat' => "hccarint" \in lat \/ Readable
      BY <2>2 DEF ScanBegin, UpdateInterrupts, netVars, ScanLatches
    <3> QED
      BY <2>1, <2>2, <3>1 DEF ScanBegin, Readable, modemVars
  <2>3. CASE PollReset
    <3>1. lat' = {"keybdint", "hccatint"} /\ hup' = hup
      BY <2>3 DEF PollReset, UpdateInterrupts, ResetLatches, PowerUp
    <3> QED
      BY <3>1
  <2>4. CASE ScanEnd
    <3>1. PICK flag \in {vdp_flag, TRUE} : SetLatches(VdpLatch(flag))
      BY <2>4 DEF ScanEnd
    <3>2. lat' = VdpLatch(flag)
      BY <3>1 DEF SetLatches, UpdateInterrupts, netVars
    <3>3. "hccarint" \in VdpLatch(flag) => "hccarint" \in lat
      BY DEF VdpLatch
    <3> QED
      BY <2>4, <3>2, <3>3 DEF ScanEnd, modemVars
  <2>5. CASE ReadHcca
    <3>1. CASE Readable /\ rx > 0
      <4>1. lat' = lat \ {"hccarint"} /\ hup' = hup
        BY <2>5, <3>1 DEF ReadHcca, UpdateInterrupts
      <4> QED
        BY <4>1
    <3>2. CASE ~(Readable /\ rx > 0)
      <4>1. /\ status' = (status /\ ~hup) /\ rx' = rx /\ hup' = hup /\ lat' = lat
        BY <2>5, <3>2 DEF ReadHcca, netVars
      <4> QED
        BY <4>1
    <3> QED
      BY <3>1, <3>2
  <2>6. CASE Opcode /\ ~ReadHcca
    <3>1. lat' \subseteq lat
      BY <2>6 DEF Opcode, Nop, EnableInt, DisableInt, Halt, ReadKeyboard,
            ReadVdpStatus, SelectPsg, WritePortA, WritePortB, WriteVdpEnable,
            UpdateInterrupts, netVars
    <3>2. UNCHANGED modemVars
      BY <2>6 DEF Opcode, Nop, EnableInt, DisableInt, Halt, ReadKeyboard,
            ReadVdpStatus, SelectPsg, WritePortA, WritePortB, WriteVdpEnable
    <3> QED
      BY <3>1, <3>2 DEF modemVars
  <2>7. CASE PeerSend
    BY <2>1, <2>7 DEF PeerSend, netVars
  <2>8. CASE PeerClose
    BY <2>8 DEF PeerClose
  <2>9. CASE PollKey \/ ProcessInterrupts \/ UNCHANGED vars
    BY <2>9 DEF PollKey, ProcessInterrupts, vars, netVars, modemVars
  <2> QED
    BY <2>2, <2>3, <2>4, <2>5, <2>6, <2>7, <2>8, <2>9 DEF Next, Loop
<1>3. Inv => RequestHasByte
  BY DEF RequestHasByte
<1> QED
  BY <1>1, <1>2, <1>3, AlwaysIInv, PTL DEF Spec

\* Whatever the machine does, port B keeps showing the request with the highest
\* priority; only the guest's own write makes it differ.
THEOREM PortBFresh == Spec => PortBShows
<1>1. [Next]_vars =>
        [reg15 = Shown /\ ~ (\E n \in PortBWrites : WritePortB(n)) => reg15' = Shown']_vars
  <2> SUFFICES ASSUME [Next]_vars, reg15 = Shown,
                      ~ (\E n \in PortBWrites : WritePortB(n))
               PROVE  reg15' = Shown'
    OBVIOUS
  <2>1. ASSUME NEW l, NEW a, UpdateInterrupts(l, a) PROVE reg15' = Shown'
    BY <2>1 DEF UpdateInterrupts, Shown
  <2>2. ASSUME UNCHANGED netVars PROVE reg15' = Shown'
    BY <2>2 DEF netVars, Shown
  <2>3. UNCHANGED netVars \/ \E l, a : UpdateInterrupts(l, a)
    BY DEF Next, Loop, ScanBegin, PollKey, PollReset, ScanEnd, SetLatches, Opcode,
       Nop, EnableInt, DisableInt, Halt, ReadHcca, ReadKeyboard, ReadVdpStatus,
       SelectPsg, WritePortA, WriteVdpEnable, ProcessInterrupts,
       PeerSend, PeerClose, vars
  <2> QED
    BY <2>1, <2>2, <2>3
<1> QED
  BY <1>1, PTL DEF Spec, PortBShows, KeepsPortB

\* No request is latched without a byte behind it, or with the VDP masked.
THEOREM CausesHold == Spec => []RequestsHaveCause
  BY RequestHasData, MaskReleases, PTL DEF RequestsHaveCause

\* An interrupt handler finds the source in its vector and in port B.
THEOREM SourceFound == Spec => HandlerFindsSource
  BY AcceptedIsHighest, PortBFresh, PTL DEF AcceptsHighest, PortBShows, HandlerFindsSource
=============================================================================
