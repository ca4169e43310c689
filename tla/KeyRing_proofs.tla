---------------------------- MODULE KeyRing_proofs --------------------------
(***************************************************************************)
(* Proofs about KeyRing for a ring of any size: it stays well formed and   *)
(* it implements the bounded FIFO of module KeyFifo.                       *)
(***************************************************************************)
EXTENDS KeyRing, SequenceTheorems, TLAPS

USE SizeAssumption, DropWrapAssumption, PrefixAssumption

\* A well-formed ring: what TypeOK says of the variable ring.
GoodRing(r) == /\ r \in Rings
               /\ \A i \in 1 .. Used(r) : Content(r)[i] \in Codes

\* The index arithmetic stays inside the ring.
LEMMA WrapInSlots == \A n \in 0 .. 2 * Size - 1 : Wrap(n) \in Slots
  BY DEF Wrap, Slots

\* The number of queued codes is at most one short of the number of slots.
LEMMA UsedBounds ==
  ASSUME NEW r \in Rings
  PROVE  /\ Used(r) \in 0 .. Size - 1
         /\ Full(r) <=> Used(r) = Size - 1
         /\ keyboard_buffer_empty(r) <=> Used(r) = 0
  BY DEF Rings, Used, Wrap, Slots, Full, keyboard_buffer_empty

\* The queued codes are a sequence as long as the indices say.
LEMMA ContentSeq ==
  ASSUME NEW r \in Rings, \A i \in 1 .. Used(r) : Content(r)[i] \in Codes
  PROVE  Content(r) \in Seq(Codes) /\ Len(Content(r)) = Used(r)
<1>1. Content(r) = [i \in 1 .. Used(r) |-> Content(r)[i]]
  BY DEF Content
<1>2. Used(r) \in Nat
  BY UsedBounds
<1> QED
  BY <1>1, <1>2, SeqDef

\* A put into a ring that is not full appends the code; into a full ring it
\* changes nothing but the drop counter.
LEMMA PutAppends ==
  ASSUME NEW r, GoodRing(r), NEW c \in Codes
  PROVE  LET p == keyboard_buffer_put(r, c)
         IN  /\ GoodRing(p)
             /\ Content(p) = IF Len(Content(r)) < Size - 1
                               THEN Append(Content(r), c) ELSE Content(r)
             /\ p.drops = IF Len(Content(r)) < Size - 1
                            THEN r.drops ELSE (r.drops + 1) % DropWrap
             /\ Content(r) \in Seq(Codes)
             /\ Len(Content(r)) = Used(r)
<1> DEFINE p == keyboard_buffer_put(r, c)
<1>1. r \in Rings
  BY DEF GoodRing
<1>2. Content(r) \in Seq(Codes) /\ Len(Content(r)) = Used(r)
  BY ContentSeq DEF GoodRing
<1>3. CASE Full(r)
  <2>1. p = [r EXCEPT !.drops = (@ + 1) % DropWrap]
    BY <1>3 DEF keyboard_buffer_put
  <2>2. p \in Rings /\ p.drops = (r.drops + 1) % DropWrap
    BY <2>1, <1>1 DEF Rings
  <2>3. Used(p) = Used(r) /\ Content(p) = Content(r)
    BY <2>1, <1>1 DEF Rings, Used, Content
  <2>4. ~(Len(Content(r)) < Size - 1)
    BY <1>1, <1>2, <1>3, UsedBounds
  <2> QED
    BY <1>2, <2>2, <2>3, <2>4 DEF GoodRing
<1>4. CASE ~Full(r)
  <2>1. p = [r EXCEPT !.slot[r.wr] = c, !.wr = Wrap(r.wr + 1)]
    BY <1>4 DEF keyboard_buffer_put
  <2>2. /\ p \in Rings /\ p.drops = r.drops /\ p.rd = r.rd
        /\ p.slot = [r.slot EXCEPT ![r.wr] = c]
        /\ p.wr = Wrap(r.wr + 1)
    <3>1. /\ r.slot \in [Slots -> Codes \cup {0}] /\ r.wr \in Slots
          /\ r.rd \in Slots /\ r.drops \in 0 .. DropWrap - 1
          /\ r = [slot |-> r.slot, wr |-> r.wr, rd |-> r.rd, drops |-> r.drops]
      BY <1>1 DEF Rings
    <3>2. r.wr + 1 \in 0 .. 2 * Size - 1
      BY <3>1 DEF Slots
    <3>3. Wrap(r.wr + 1) \in Slots
      BY <3>2, WrapInSlots
    <3>4. [r.slot EXCEPT ![r.wr] = c] \in [Slots -> Codes \cup {0}]
      BY <3>1
    <3>5. p = [slot |-> [r.slot EXCEPT ![r.wr] = c], wr |-> Wrap(r.wr + 1),
               rd |-> r.rd, drops |-> r.drops]
      BY <2>1, <3>1
    <3> QED
      BY <3>1, <3>3, <3>4, <3>5 DEF Rings
  <2>3. Used(r) < Size - 1 /\ Used(r) \in Nat
    BY <1>1, <1>4, UsedBounds
  <2>4. Used(p) = Used(r) + 1
    BY <1>1, <1>4, <2>2, SMTT(20) DEF Rings, Used, Wrap, Slots, Full
  <2>5. Wrap(r.rd + Used(r)) = r.wr
    BY <1>1 DEF Rings, Used, Wrap, Slots
  <2>6. \A i \in 1 .. Used(r) : /\ Wrap(r.rd + i - 1) \in Slots
                                /\ Wrap(r.rd + i - 1) # r.wr
    BY <1>1, <2>3, SMTT(20) DEF Rings, Used, Wrap, Slots
  <2>7. \A i \in 1 .. Used(r) : p.slot[Wrap(r.rd + i - 1)] = r.slot[Wrap(r.rd + i - 1)]
    BY <1>1, <2>2, <2>6 DEF Rings
  <2>8. p.slot[r.wr] = c
    BY <1>1, <2>2 DEF Rings
  <2>10. \A i \in 1 .. Used(r) + 1 :
            p.slot[Wrap(p.rd + i - 1)] = IF i <= Used(r) THEN Content(r)[i] ELSE c
    <3> SUFFICES ASSUME NEW i \in 1 .. Used(r) + 1
                 PROVE  p.slot[Wrap(p.rd + i - 1)]
                          = IF i <= Used(r) THEN Content(r)[i] ELSE c
      OBVIOUS
    <3>1. CASE i <= Used(r)
      <4>1. i \in 1 .. Used(r)
        BY <3>1, <2>3
      <4>2. Content(r)[i] = r.slot[Wrap(r.rd + i - 1)]
        BY <4>1 DEF Content
      <4> QED
        BY <3>1, <4>1, <4>2, <2>2, <2>7
    <3>2. CASE ~(i <= Used(r))
      <4>1. i - 1 = Used(r)
        BY <3>2, <2>3
      <4>2. p.rd + i - 1 = r.rd + Used(r)
        BY <4>1, <2>2, <2>3, <1>1 DEF Rings, Slots
      <4> QED
        BY <3>2, <4>2, <2>5, <2>8
    <3> QED
      BY <3>1, <3>2
  <2>11. \A i \in 1 .. Used(p) : Content(p)[i] = IF i <= Used(r) THEN Content(r)[i] ELSE c
    BY <2>4, <2>10 DEF Content
  <2>12. \A i \in 1 .. Used(p) : Content(p)[i] \in Codes
    <3>1. \A i \in 1 .. Used(r) : Content(r)[i] \in Codes
      BY DEF GoodRing
    <3> QED
      BY <3>1, <2>3, <2>4, <2>11
  <2>13. Content(p) \in Seq(Codes) /\ Len(Content(p)) = Used(r) + 1
    BY <2>2, <2>4, <2>12, ContentSeq
  <2>14. /\ Append(Content(r), c) \in Seq(Codes)
         /\ Len(Append(Content(r), c)) = Used(r) + 1
         /\ \A i \in 1 .. Used(r) : Append(Content(r), c)[i] = Content(r)[i]
         /\ Append(Content(r), c)[Used(r) + 1] = c
    BY <1>2, AppendProperties
  <2>15. \A i \in 1 .. Used(r) + 1 : Content(p)[i] = Append(Content(r), c)[i]
    BY <2>3, <2>4, <2>11, <2>14
  <2>16. Content(p) = Append(Content(r), c)
    BY <2>13, <2>14, <2>15, SeqEqual
  <2> QED
    BY <1>2, <2>2, <2>3, <2>12, <2>16 DEF GoodRing
<1> QED
  BY <1>3, <1>4

-----------------------------------------------------------------------------
\* A read takes the oldest code, or returns Empty and changes nothing.
LEMMA GetTakesHead ==
  ASSUME GoodRing(ring), Get
  PROVE  /\ GoodRing(ring')
         /\ got' = IF Content(ring) = <<>> THEN Empty ELSE Head(Content(ring))
         /\ Content(ring') = IF Content(ring) = <<>> THEN Content(ring)
                                                    ELSE Tail(Content(ring))
         /\ ring'.drops = ring.drops
         /\ got' \in Codes \cup {Empty}
<1>1. /\ ring \in Rings /\ Content(ring) \in Seq(Codes)
      /\ Len(Content(ring)) = Used(ring) /\ Used(ring) \in Nat
      /\ \A i \in 1 .. Used(ring) : Content(ring)[i] \in Codes
  BY ContentSeq, UsedBounds DEF GoodRing
<1>2. keyboard_buffer_empty(ring) <=> Content(ring) = <<>>
  BY <1>1, UsedBounds, EmptySeq
<1>3. CASE keyboard_buffer_empty(ring)
  BY <1>2, <1>3 DEF Get
<1>4. CASE ~keyboard_buffer_empty(ring)
  <2>1. /\ got' = ring.slot[ring.rd]
        /\ ring' = [ring EXCEPT !.rd = Wrap(ring.rd + 1)]
    BY <1>4 DEF Get
  <2>2. /\ ring.slot \in [Slots -> Codes \cup {0}] /\ ring.wr \in Slots
        /\ ring.rd \in Slots /\ ring.drops \in 0 .. DropWrap - 1
        /\ ring = [slot |-> ring.slot, wr |-> ring.wr, rd |-> ring.rd,
                   drops |-> ring.drops]
    BY <1>1 DEF Rings
  <2>3. Wrap(ring.rd + 1) \in Slots
    BY <2>2, WrapInSlots DEF Slots
  <2>4. ring' = [slot |-> ring.slot, wr |-> ring.wr, rd |-> Wrap(ring.rd + 1),
                 drops |-> ring.drops]
    BY <2>1, <2>2
  <2>5. ring' \in Rings /\ ring'.drops = ring.drops /\ ring'.slot = ring.slot
        /\ ring'.wr = ring.wr /\ ring'.rd = Wrap(ring.rd + 1)
    BY <2>2, <2>3, <2>4 DEF Rings
  <2>6. Used(ring') = Used(ring) - 1 /\ Used(ring) > 0
    <3>1. /\ Used(ring) = Wrap(ring.wr + Size - ring.rd)
          /\ Used(ring') = Wrap(ring.wr + Size - Wrap(ring.rd + 1))
      BY <2>5 DEF Used
    <3>2. ring.wr # ring.rd
      BY <1>4 DEF keyboard_buffer_empty
    <3>3. ring.wr \in 0 .. Size - 1 /\ ring.rd \in 0 .. Size - 1
      BY <2>2 DEF Slots
    <3> QED
      BY <3>1, <3>2, <3>3 DEF Wrap
  <2>7. \A i \in 1 .. Used(ring') :
           Wrap(Wrap(ring.rd + 1) + i - 1) = Wrap(ring.rd + (i + 1) - 1)
    BY <2>2, <2>6, UsedBounds, <1>1 DEF Wrap, Slots
  <2>8. \A i \in 1 .. Used(ring') : Content(ring')[i] = Content(ring)[i + 1]
    <3> SUFFICES ASSUME NEW i \in 1 .. Used(ring')
                 PROVE  Content(ring')[i] = Content(ring)[i + 1]
      OBVIOUS
    <3>1. Content(ring')[i] = ring.slot[Wrap(Wrap(ring.rd + 1) + i - 1)]
      BY <2>5 DEF Content
    <3>2. i + 1 \in 1 .. Used(ring)
      BY <2>6, <1>1
    <3>3. Content(ring)[i + 1] = ring.slot[Wrap(ring.rd + (i + 1) - 1)]
      BY <3>2 DEF Content
    <3> QED
      BY <3>1, <3>3, <2>7
  <2>9. \A i \in 1 .. Used(ring') : Content(ring')[i] \in Codes
    BY <2>6, <2>8, <1>1
  <2>10. Content(ring') \in Seq(Codes) /\ Len(Content(ring')) = Used(ring')
    BY <2>5, <2>9, ContentSeq
  <2>11. Content(ring) # <<>>
    BY <1>2, <1>4
  <2>12. /\ Tail(Content(ring)) \in Seq(Codes)
         /\ Len(Tail(Content(ring))) = Used(ring')
         /\ \A i \in 1 .. Used(ring') : Tail(Content(ring))[i] = Content(ring)[i + 1]
    BY <1>1, <2>6, <2>11, HeadTailProperties
  <2>13. Content(ring') = Tail(Content(ring))
    <3>1. \A i \in 1 .. Len(Content(ring')) : Content(ring')[i] = Tail(Content(ring))[i]
      BY <2>8, <2>10, <2>12
    <3> QED
      BY <3>1, <2>10, <2>12, SeqEqual
  <2>14. Head(Content(ring)) = Content(ring)[1]
    BY <1>1, <2>11
  <2>15. Content(ring)[1] = ring.slot[ring.rd]
    <3>1. 1 \in 1 .. Used(ring)
      BY <2>6, <1>1
    <3>2. Content(ring)[1] = ring.slot[Wrap(ring.rd + 1 - 1)]
      BY <3>1 DEF Content
    <3>3. Wrap(ring.rd + 1 - 1) = ring.rd
      BY <2>2 DEF Wrap, Slots
    <3> QED
      BY <3>2, <3>3
  <2>16. got' \in Codes
    BY <2>1, <2>15, <2>6, <1>1
  <2> QED
    BY <2>1, <2>5, <2>9, <2>11, <2>13, <2>14, <2>15, <2>16 DEF GoodRing
<1> QED
  BY <1>3, <1>4

-----------------------------------------------------------------------------
\* Type correctness: for every ring size the indices stay in range and every
\* slot between them holds a code that was put there (main.c:534-568).
THEOREM TypeCorrect == Spec => []TypeOK
<1>1. Init => TypeOK
  <2> SUFFICES ASSUME Init PROVE TypeOK
    OBVIOUS
  <2>1. /\ ring = [slot |-> [i \in Slots |-> 0], wr |-> 0, rd |-> 0, drops |-> 0]
        /\ got = Empty
    BY DEF Init
  <2>2. ring \in Rings
    BY <2>1 DEF Rings, Slots
  <2>3. Used(ring) = 0
    BY <2>1 DEF Used, Wrap
  <2> QED
    BY <2>1, <2>2, <2>3 DEF TypeOK
<1>2. TypeOK /\ [Next]_vars => TypeOK'
  <2> SUFFICES ASSUME TypeOK, [Next]_vars PROVE TypeOK'
    OBVIOUS
  <2>1. GoodRing(ring) /\ got \in Codes \cup {Empty}
    BY DEF TypeOK, GoodRing
  <2>2. CASE Get
    BY <2>1, <2>2, GetTakesHead DEF TypeOK, GoodRing
  <2>3. ASSUME NEW c \in Codes, Put(c) PROVE TypeOK'
    BY <2>1, <2>3, PutAppends DEF TypeOK, GoodRing, Put
  <2>4. ASSUME NEW c \in Codes, PutPair(c) PROVE TypeOK'
    <3>1. GoodRing(keyboard_buffer_put(ring, Prefix))
      BY <2>1, PutAppends
    <3>2. GoodRing(ring')
      BY <2>4, <3>1, PutAppends DEF PutPair
    <3> QED
      BY <2>1, <2>4, <3>2 DEF TypeOK, GoodRing, PutPair
  <2>5. CASE UNCHANGED vars
    BY <2>5 DEF vars, TypeOK, Content, Used
  <2> QED
    BY <2>2, <2>3, <2>4, <2>5 DEF Next
<1> QED
  BY <1>1, <1>2, PTL DEF Spec

\* The ring implements the FIFO for every size: each step of the ring is the
\* same step of the queue of its content, so order is kept, no code is read
\* twice, and only a code that meets a full buffer is lost (main.c:534-568).
THEOREM RingIsFifo == Spec => RefinesFifo
<1>1. Init => Fifo!FifoInit
  <2> SUFFICES ASSUME Init PROVE Fifo!FifoInit
    OBVIOUS
  <2>1. /\ ring = [slot |-> [i \in Slots |-> 0], wr |-> 0, rd |-> 0, drops |-> 0]
        /\ got = Empty
    BY DEF Init
  <2>2. ring \in Rings /\ Used(ring) = 0 /\ ring.drops = 0
    BY <2>1 DEF Rings, Slots, Used, Wrap
  <2>3. Content(ring) \in Seq(Codes) /\ Len(Content(ring)) = 0
    BY <2>2, ContentSeq
  <2>4. Content(ring) = <<>>
    BY <2>3, EmptySeq
  <2> QED
    BY <2>1, <2>2, <2>4 DEF Fifo!FifoInit
<1>2. TypeOK /\ [Next]_vars => [Fifo!FifoNext]_(Fifo!fifoVars)
  <2> SUFFICES ASSUME TypeOK, [Next]_vars PROVE [Fifo!FifoNext]_(Fifo!fifoVars)
    OBVIOUS
  <2>1. GoodRing(ring)
    BY DEF TypeOK, GoodRing
  <2>2. CASE Get
    <3>1. Fifo!Take
      BY <2>1, <2>2, GetTakesHead DEF Fifo!Take, Fifo!KeyRest
    <3> QED
      BY <3>1 DEF Fifo!FifoNext
  <2>3. ASSUME NEW c \in Codes, Put(c) PROVE Fifo!PutOne(c)
    BY <2>1, <2>3, PutAppends DEF Put, Fifo!PutOne, Fifo!KeyPut, Fifo!Bump
  <2>4. ASSUME NEW c \in Codes, PutPair(c) PROVE Fifo!PutTwo(c)
    <3> DEFINE mid == keyboard_buffer_put(ring, Prefix)
    <3>1. /\ GoodRing(mid)
          /\ Content(mid) = Fifo!KeyPut(Content(ring), Prefix)
          /\ mid.drops = IF Len(Content(ring)) < Size - 1
                           THEN ring.drops ELSE (ring.drops + 1) % DropWrap
          /\ Content(ring) \in Seq(Codes)
      BY <2>1, PutAppends DEF Fifo!KeyPut
    <3>2. /\ Content(ring') = Fifo!KeyPut(Content(mid), c)
          /\ ring'.drops = IF Len(Content(mid)) < Size - 1
                             THEN mid.drops ELSE (mid.drops + 1) % DropWrap
          /\ got' = got
      BY <2>4, <3>1, PutAppends DEF PutPair, Fifo!KeyPut
    <3>3. Len(Content(mid)) = IF Len(Content(ring)) < Size - 1
                                THEN Len(Content(ring)) + 1 ELSE Len(Content(ring))
      BY <3>1, AppendProperties DEF Fifo!KeyPut
    <3>4. Len(Content(ring)) \in 0 .. Size - 1 /\ ring.drops \in 0 .. DropWrap - 1
      BY <2>1, <3>1, ContentSeq, UsedBounds DEF GoodRing, Rings
    <3>5. ring'.drops = CASE Len(Content(ring)) + 1 < Size - 1 -> ring.drops
                          [] Len(Content(ring)) + 1 = Size - 1 -> Fifo!Bump(ring.drops)
                          [] OTHER -> Fifo!Bump(Fifo!Bump(ring.drops))
      BY <3>1, <3>2, <3>3, <3>4 DEF Fifo!Bump
    <3> QED
      BY <3>1, <3>2, <3>5 DEF Fifo!PutTwo
  <2>5. CASE UNCHANGED vars
    BY <2>5 DEF vars, Fifo!fifoVars, Content, Used
  <2> QED
    BY <2>2, <2>3, <2>4, <2>5 DEF Next, Fifo!FifoNext
<1> QED
  BY <1>1, <1>2, TypeCorrect, PTL DEF Spec, RefinesFifo, Fifo!FifoSpec
=============================================================================
