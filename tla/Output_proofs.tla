---------------------------- MODULE Output_proofs ----------------------------
(***************************************************************************)
(* Proofs about what is heard and what is shown.  Psg: for every width of   *)
(* the counters, every number of steps of the envelope, and every shift     *)
(* register whose taps are above its bits.  Scan: for every geometry of the *)
(* picture, every length of a scanline and of the instructions, and every   *)
(* width of the cycle counters.                                            *)
(***************************************************************************)
EXTENDS Psg, Scan, TLAPS

-----------------------------------------------------------------------------
(* Division by a number that is not known. *)

LEMMA Remainder ==
  ASSUME NEW m \in Nat \ {0}, NEW x \in Int
  PROVE  /\ x % m \in 0 .. m - 1
         /\ 0 <= x /\ x < m => x % m = x
         /\ m <= x /\ x < 2 * m => x % m = x - m
         /\ -m <= x /\ x < 0 => x % m = x + m
OBVIOUS

LEMMA Quotient ==
  ASSUME NEW m \in Nat \ {0}, NEW x \in Nat
  PROVE  /\ x < m => x \div m = 0 /\ x % m = x
         /\ m <= x /\ x < 2 * m => x \div m = 1 /\ x % m = x - m
         /\ 2 * m <= x /\ x < 3 * m => x \div m = 2 /\ x % m = x - 2 * m
         /\ 3 * m <= x /\ x < 4 * m => x \div m = 3 /\ x % m = x - 3 * m
OBVIOUS

-----------------------------------------------------------------------------
(* The life of the chip, and the noise. *)

\* Above every bit the register ever has.
Top == CHOOSE top \in Taps \ {0} : \A b \in Seed \cup (Taps \ {top}) : b < top

LEMMA TopTap == /\ Top \in Taps /\ Top \in Nat \ {0}
                /\ \A b \in Seed \cup (Taps \ {Top}) : b < Top
  BY NoiseAssumption DEF Top

\* A register that has a bit, all below the top, has one after the shift.
LEMMA ShiftedLives ==
  ASSUME NEW s \in SUBSET Nat, s # {}, \A b \in s : b < Top
  PROVE  /\ Shifted(s) \in SUBSET Nat /\ Shifted(s) # {}
         /\ \A b \in Shifted(s) : b < Top
<1> DEFINE t == IF 0 \in s THEN (s \ Taps) \cup (Taps \ s) ELSE s
<1>1. t \subseteq Nat /\ \A b \in t : b <= Top
  BY TopTap, NoiseAssumption
<1>2. \E b \in t : b # 0
  <2>1. CASE 0 \in s
    <3>1. Top \in t /\ Top # 0
      BY <2>1, TopTap
    <3> QED
      BY <3>1
  <2>2. CASE 0 \notin s
    BY <2>2
  <2> QED
    BY <2>1, <2>2
<1>3. Shifted(s) = {b - 1 : b \in t \ {0}}
  BY DEF Shifted
<1> HIDE DEF t
<1>4. \A b \in t \ {0} : b - 1 \in Nat /\ b - 1 < Top
  BY <1>1, TopTap
<1> QED
  BY <1>2, <1>3, <1>4

Alive == \A b \in seed : b < Top

ChipOK ==
  /\ pc \in {"start", "new", "ready", "run", "paused", "deleted", "end"}
  /\ IF pc = "run" THEN device = TRUE ELSE device = FALSE
  /\ phase # "out" => pc = "run"
  /\ pc \in {"ready", "run", "paused"} => psg = "reset"
  /\ psg # "null" /\ pc = "run" => psg = "reset"
  /\ seed \subseteq Nat /\ Alive
  /\ psg = "reset" => seed # {}
  /\ psg \in {"null", "raw", "reset", "freed"}

LEMMA InitChip == Init => ChipOK
  BY NoiseAssumption DEF Init, ChipOK, Alive

LEMMA NextChip ==
  ASSUME ChipOK, [Next]_vars
  PROVE  ChipOK'
<1> USE DEF ChipOK
<1>1. CASE PSG_new \/ Unpause \/ Pause \/ PSG_delete \/ Forget
  <2>1. /\ pc \in {"start", "ready", "run", "paused", "deleted"} /\ UNCHANGED <<phase, seed>>
        /\ pc = "start" => pc' = "new" /\ psg' = "raw" /\ device' = device
        /\ pc = "ready" => pc' = "run" /\ psg' = psg /\ device' = TRUE
        /\ pc = "run" => pc' = "paused" /\ psg' = psg /\ device' = FALSE /\ phase = "out"
        /\ pc = "paused" => pc' = "deleted" /\ psg' = "freed" /\ device' = device
        /\ pc = "deleted" => pc' = "end" /\ psg' = "null" /\ device' = device
    BY <1>1 DEF PSG_new, Unpause, Pause, PSG_delete, Forget, MainStep, voice
  <2> QED
    BY <2>1 DEF Alive
<1>2. CASE PSG_reset
  BY <1>2, TopTap, NoiseAssumption DEF PSG_reset, MainStep, Alive
<1>3. CASE WritePeriod \/ WriteShape
  BY <1>3 DEF WritePeriod, WriteShape, GuestWrite, Alive
<1>4. CASE Enter
  BY <1>4 DEF Enter, CallBack, SampleStep, voice, Alive
<1>5. CASE Tick \/ ToneEvent \/ EnvRead \/ EnvMove \/ EnvTurn \/ Subtract
  BY <1>5 DEF Tick, ToneEvent, EnvRead, EnvMove, EnvTurn, Subtract, SampleStep, EnvStep, Done, Alive
<1>6. CASE NoiseEvent
  <2>1. pc = "run" /\ psg = "reset" /\ UNCHANGED <<pc, psg, device>>
    BY <1>6 DEF NoiseEvent, SampleStep
  <2>2. seed' \subseteq Nat /\ seed' # {} /\ Alive'
    <3>1. seed \in SUBSET Nat /\ seed # {} /\ \A b \in seed : b < Top
      BY <2>1 DEF Alive
    <3>2. seed' = seed \/ seed' = Shifted(seed)
      BY <1>6 DEF NoiseEvent
    <3> QED
      BY <3>1, <3>2, ShiftedLives DEF Alive
  <2> QED
    BY <2>1, <2>2
<1>7. CASE UNCHANGED vars
  BY <1>7 DEF vars, voice, Alive
<1> QED
  BY <1>1, <1>2, <1>3, <1>4, <1>5, <1>6, <1>7 DEF Next, AudioStep

LEMMA Chip == Spec => []ChipOK
<1>1. ChipOK /\ [Next]_vars => ChipOK'
  BY NextChip
<1> QED
  BY InitChip, <1>1, PTL DEF Spec

\* The audio thread never runs in a chip that was not reset or was deleted, and
\* the noise goes on for ever.
THEOREM CallbackHasChip == Spec => []ChipOutlivesCallback
<1>1. ChipOK => ChipOutlivesCallback
  BY DEF ChipOK, ChipOutlivesCallback
<1> QED
  BY <1>1, Chip, PTL
-----------------------------------------------------------------------------
(***************************************************************************)
(* The envelope.  A slope has Steps places; the steps from the last write  *)
(* of register 13 are counted in n, which goes from the fourth slope back   *)
(* to the third.                                                           *)
(***************************************************************************)
Counts == 0 .. 4 * Steps - 1
Envs == [ptr : 0 .. 2 * Steps - 1, face : BOOLEAN, pause : BOOLEAN, shape : Shapes]

\* Where step k is on its slope, and whether that is a second or a fourth slope.
Place(k) == IF k < Steps THEN k ELSE IF k < 2 * Steps THEN k - Steps
            ELSE IF k < 3 * Steps THEN k - 2 * Steps ELSE k - 3 * Steps
Odd(k) == (Steps <= k /\ k < 2 * Steps) \/ 3 * Steps <= k

\* The slope of step k goes up; or there is none, and the level is held.
Up(s, k) == s.attack # (s.alternate /\ Odd(k))
Resting(s, k) == k >= Steps /\ (~ s.continue \/ s.hold)
RestLevel(s) == IF s.continue /\ s.attack # s.alternate THEN Steps - 1 ELSE 0

\* The data sheet's shape in these terms.
LEMMA ShapeIs ==
  ASSUME NEW s \in Shapes, NEW k \in Counts
  PROVE  Shape(s, k) = IF Resting(s, k) THEN RestLevel(s)
                       ELSE IF Up(s, k) THEN Place(k) ELSE Steps - 1 - Place(k)
<1> DEFINE c == (k \div Steps) % 2
           i == k % Steps
           up(d) == s.attack # (s.alternate /\ d = 1)
           level(u, j) == IF u THEN j ELSE Steps - 1 - j
<1>0. Steps \in Nat \ {0} /\ k \in Nat /\ k < 4 * Steps
  BY StepsAssumption DEF Counts
<1>1. c = (IF Odd(k) THEN 1 ELSE 0) /\ i = Place(k)
  <2>1. /\ 0 % 2 = 0 /\ 1 % 2 = 1 /\ 2 % 2 = 0 /\ 3 % 2 = 1
    OBVIOUS
  <2>2. CASE k < Steps
    <3>1. k \div Steps = 0 /\ i = k
      BY <1>0, <2>2, Quotient
    <3>2. ~ Odd(k) /\ Place(k) = k
      BY <1>0, <2>2 DEF Odd, Place
    <3> QED
      BY <2>1, <3>1, <3>2
  <2>3. CASE Steps <= k /\ k < 2 * Steps
    <3>1. k \div Steps = 1 /\ i = k - Steps
      BY <1>0, <2>3, Quotient
    <3>2. Odd(k) /\ Place(k) = k - Steps
      BY <1>0, <2>3 DEF Odd, Place
    <3> QED
      BY <2>1, <3>1, <3>2
  <2>4. CASE 2 * Steps <= k /\ k < 3 * Steps
    <3>1. k \div Steps = 2 /\ i = k - 2 * Steps
      BY <1>0, <2>4, Quotient
    <3>2. ~ Odd(k) /\ Place(k) = k - 2 * Steps
      BY <1>0, <2>4 DEF Odd, Place
    <3> QED
      BY <2>1, <3>1, <3>2
  <2>5. CASE 3 * Steps <= k
    <3>1. k \div Steps = 3 /\ i = k - 3 * Steps
      BY <1>0, <2>5, Quotient
    <3>2. Odd(k) /\ Place(k) = k - 3 * Steps
      BY <1>0, <2>5 DEF Odd, Place
    <3> QED
      BY <2>1, <3>1, <3>2
  <2> QED
    BY <1>0, <2>2, <2>3, <2>4, <2>5
<1>2. Shape(s, k) =
        IF k < Steps THEN level(up(0), k)
        ELSE IF ~ s.continue THEN 0
        ELSE IF s.hold THEN IF s.attack # s.alternate THEN Steps - 1 ELSE 0
        ELSE level(up(c), i)
  BY Zenon DEF Shape
<1> HIDE DEF c, i
<1>3. up(c) = Up(s, k)
  BY <1>1 DEF Up
<1>4. CASE k < Steps
  <2>1. ~ Odd(k) /\ Place(k) = k /\ ~ Resting(s, k)
    BY <1>0, <1>4 DEF Odd, Place, Resting
  <2>2. up(0) = Up(s, k)
    BY <2>1 DEF Up
  <2> QED
    BY <1>2, <1>4, <2>1, <2>2
<1>5. CASE ~ k < Steps
  <2>1. k >= Steps
    BY <1>0, <1>5
  <2>2. Shape(s, k) =
          IF ~ s.continue THEN 0
          ELSE IF s.hold THEN IF s.attack # s.alternate THEN Steps - 1 ELSE 0
          ELSE level(Up(s, k), Place(k))
    BY <1>1, <1>2, <1>3, <1>5, Zenon
  <2> HIDE DEF level, up
  <2>3. CASE ~ s.continue
    BY <2>1, <2>2, <2>3, Zenon DEF Resting, RestLevel
  <2>4. CASE s.continue /\ s.hold
    BY <2>1, <2>2, <2>4, Zenon DEF Resting, RestLevel
  <2>5. CASE s.continue /\ ~ s.hold
    BY <2>2, <2>5, Zenon DEF Resting, level
  <2> QED
    BY <2>3, <2>4, <2>5
<1> QED
  BY <1>4, <1>5

\* Envelope e is where step k belongs.
Follows(e, k) ==
  IF Resting(e.shape, k)
    THEN e.pause = TRUE /\ e.ptr = RestLevel(e.shape)
    ELSE /\ e.pause = FALSE /\ (e.face <=> Up(e.shape, k))
         /\ e.ptr = IF e.face THEN Place(k) ELSE Steps - 1 - Place(k)

\* ... or it has just left the slope before step k.
Turning(e, k) ==
  /\ k \in {Steps, 2 * Steps, 3 * Steps}
  /\ ~ Resting(e.shape, k - 1) /\ e.pause = FALSE /\ (e.face <=> Up(e.shape, k - 1))
  /\ e.ptr = IF e.face THEN Steps ELSE 2 * Steps - 1

\* Register 13 starts with step 0.
LEMMA Starts ==
  ASSUME NEW s \in Shapes,
         NEW e, e = [ptr |-> IF s.attack THEN 0 ELSE Steps - 1,
                     face |-> s.attack, pause |-> FALSE, shape |-> s]
  PROVE  e \in Envs /\ e.ptr < Steps /\ Follows(e, 0) /\ 0 \in Counts
<1>0. Steps \in Nat \ {0}
  BY StepsAssumption
<1>1. s.attack \in BOOLEAN
  BY DEF Shapes
<1>2. e.ptr \in 0 .. Steps - 1 /\ (s.attack => e.ptr = 0) /\ (~ s.attack => e.ptr = Steps - 1)
  BY <1>0
<1>3. e \in Envs
  BY <1>0, <1>1, <1>2 DEF Envs
<1>4. ~ Resting(s, 0) /\ Place(0) = 0 /\ ~ Odd(0)
  BY <1>0 DEF Resting, Place, Odd
<1>5. Up(s, 0) <=> s.attack
  BY <1>1, <1>4 DEF Up
<1>6. Follows(e, 0)
  BY <1>0, <1>2, <1>4, <1>5 DEF Follows
<1> QED
  BY <1>0, <1>2, <1>3, <1>6 DEF Counts

LEMMA FollowsInTable ==
  ASSUME NEW e \in Envs, NEW k \in Counts, Follows(e, k)
  PROVE  e.ptr \in 0 .. Steps - 1 /\ e.ptr = Shape(e.shape, k)
<1>0. Steps \in Nat \ {0} /\ k \in Nat /\ k < 4 * Steps /\ e.shape \in Shapes
  BY StepsAssumption DEF Counts, Envs
<1>1. Place(k) \in 0 .. Steps - 1 /\ RestLevel(e.shape) \in 0 .. Steps - 1
  BY <1>0 DEF Place, RestLevel
<1>2. e.ptr \in 0 .. Steps - 1
  BY <1>0, <1>1 DEF Follows
<1>3. e.ptr = Shape(e.shape, k)
  BY <1>0, ShapeIs DEF Follows
<1> QED
  BY <1>2, <1>3

-----------------------------------------------------------------------------
(* A step moves the envelope along its slope or off its end. *)

After(k) == IF k + 1 < 4 * Steps THEN k + 1 ELSE 2 * Steps

LEMMA AfterIs ==
  ASSUME NEW k \in Counts
  PROVE  /\ Place(k) \in 0 .. Steps - 1 /\ After(k) \in Counts
         /\ Place(k) < Steps - 1 =>
              /\ Place(After(k)) = Place(k) + 1
              /\ Odd(After(k)) <=> Odd(k)
              /\ After(k) >= Steps <=> k >= Steps
         /\ Place(k) = Steps - 1 =>
              /\ After(k) \in {Steps, 2 * Steps, 3 * Steps}
              /\ Odd(After(k) - 1) <=> Odd(k)
              /\ After(k) - 1 >= Steps <=> k >= Steps
<1>0. Steps \in Nat \ {0} /\ k \in Nat /\ k < 4 * Steps
  BY StepsAssumption DEF Counts
<1>1. Place(k) \in 0 .. Steps - 1 /\ After(k) \in Counts
  BY <1>0 DEF Place, After, Counts
<1>2. CASE Place(k) < Steps - 1
  <2>1. After(k) = k + 1
    BY <1>0, <1>2 DEF Place, After
  <2>2. Place(k + 1) = Place(k) + 1 /\ (Odd(k + 1) <=> Odd(k)) /\ (k + 1 >= Steps <=> k >= Steps)
    BY <1>0, <1>2 DEF Place, Odd
  <2> QED
    BY <1>0, <1>1, <1>2, <2>1, <2>2
<1>3. CASE Place(k) = Steps - 1
  <2>1. k + 1 \in {Steps, 2 * Steps, 3 * Steps, 4 * Steps}
    BY <1>0, <1>3 DEF Place
  <2>2. After(k) \in {Steps, 2 * Steps, 3 * Steps}
        /\ (After(k) - 1 = k \/ (k = 4 * Steps - 1 /\ After(k) - 1 = 2 * Steps - 1))
    BY <1>0, <2>1 DEF After
  <2>3. (Odd(After(k) - 1) <=> Odd(k)) /\ (After(k) - 1 >= Steps <=> k >= Steps)
    BY <1>0, <2>2 DEF Odd
  <2> QED
    BY <1>0, <1>1, <1>3, <2>2, <2>3
<1> QED
  BY <1>0, <1>1, <1>2, <1>3

LEMMA Move ==
  ASSUME NEW e \in Envs, NEW k \in Counts, Follows(e, k), NEW f,
         f = IF e.pause THEN e
             ELSE [e EXCEPT !.ptr = (e.ptr + (IF e.face THEN 1 ELSE 2 * Steps - 1)) % (2 * Steps)]
  PROVE  /\ f \in Envs /\ After(k) \in Counts
         /\ \/ Follows(f, After(k)) /\ f.ptr < Steps
            \/ Turning(f, After(k)) /\ f.ptr >= Steps
<1>0. Steps \in Nat \ {0} /\ k \in Nat /\ k < 4 * Steps
  BY StepsAssumption DEF Counts
<1>1. e.ptr \in 0 .. 2 * Steps - 1 /\ {e.face, e.pause} \subseteq BOOLEAN /\ e.shape \in Shapes
  BY DEF Envs
<1>2. After(k) \in Counts
  BY AfterIs
<1>3. CASE Resting(e.shape, k)
  <2>1. f = e /\ f.ptr = RestLevel(e.shape) /\ f.pause = TRUE
    BY <1>3 DEF Follows
  <2>2. k >= Steps => After(k) >= Steps
    BY <1>0 DEF After
  <2>3. Resting(f.shape, After(k))
    BY <1>3, <2>1, <2>2 DEF Resting
  <2>4. RestLevel(e.shape) < Steps
    BY <1>0 DEF RestLevel
  <2> QED
    BY <1>2, <2>1, <2>3, <2>4 DEF Follows
<1>4. CASE ~ Resting(e.shape, k)
  <2> DEFINE p == (e.ptr + (IF e.face THEN 1 ELSE 2 * Steps - 1)) % (2 * Steps)
  <2>1. /\ e.pause = FALSE /\ (e.face <=> Up(e.shape, k))
        /\ e.ptr = IF e.face THEN Place(k) ELSE Steps - 1 - Place(k)
    BY <1>4 DEF Follows
  <2>2. Place(k) \in 0 .. Steps - 1
    BY AfterIs
  <2>3. p = IF e.face THEN Place(k) + 1
            ELSE IF Place(k) < Steps - 1 THEN Steps - 2 - Place(k) ELSE 2 * Steps - 1
    <3>1. CASE e.face
      <4>1. Place(k) + 1 \in Nat /\ Place(k) + 1 < 2 * Steps /\ 2 * Steps \in Nat \ {0}
        BY <1>0, <2>2
      <4>2. (Place(k) + 1) % (2 * Steps) = Place(k) + 1
        BY <4>1, Remainder
      <4> QED
        BY <2>1, <3>1, <4>2
    <3>2. CASE ~ e.face
      <4> DEFINE x == Steps - 1 - Place(k) + (2 * Steps - 1)
      <4>1. x \in Nat /\ 2 * Steps \in Nat \ {0} /\ x < 2 * (2 * Steps)
            /\ (Place(k) < Steps - 1 => 2 * Steps <= x)
            /\ (Place(k) = Steps - 1 => x = 2 * Steps - 1)
        BY <1>0, <2>2
      <4>2. x % (2 * Steps) = IF Place(k) < Steps - 1 THEN x - 2 * Steps ELSE x
        <5> HIDE DEF x
        <5>1. CASE Place(k) < Steps - 1
          BY <4>1, <5>1, Remainder
        <5>2. CASE Place(k) = Steps - 1
          BY <1>0, <4>1, <5>2, Remainder
        <5> QED
          BY <1>0, <2>2, <5>1, <5>2
      <4>3. p = x % (2 * Steps)
        BY <2>1, <3>2
      <4>4. x - 2 * Steps = Steps - 2 - Place(k) /\ (Place(k) = Steps - 1 => x = 2 * Steps - 1)
        BY <1>0, <2>2
      <4> HIDE DEF p, x
      <4> QED
        BY <1>0, <2>2, <3>2, <4>2, <4>3, <4>4
    <3> QED
      BY <3>1, <3>2
  <2>4. f = [e EXCEPT !.ptr = p]
    BY <2>1
  <2> HIDE DEF p
  <2>5. f.ptr = p /\ f.face = e.face /\ f.pause = FALSE /\ f.shape = e.shape
    BY <2>1, <2>4 DEF Envs
  <2>6. f \in Envs
    <3>1. p \in 0 .. 2 * Steps - 1
      BY <1>0, <2>2, <2>3
    <3> QED
      BY <2>4, <3>1 DEF Envs
  <2>7. CASE Place(k) < Steps - 1
    <3>1. ~ Resting(f.shape, After(k)) /\ (Up(f.shape, After(k)) <=> Up(e.shape, k))
      BY <1>4, <2>5, <2>7, AfterIs DEF Resting, Up
    <3>2. Place(After(k)) = Place(k) + 1
      BY <2>7, AfterIs
    <3>3. f.ptr = (IF f.face THEN Place(After(k)) ELSE Steps - 1 - Place(After(k))) /\ f.ptr < Steps
      BY <1>0, <2>2, <2>3, <2>5, <2>7, <3>2
    <3>4. Follows(f, After(k))
      BY <2>1, <2>5, <3>1, <3>3 DEF Follows
    <3> QED
      BY <1>2, <2>6, <3>3, <3>4
  <2>8. CASE Place(k) = Steps - 1
    <3>1. ~ Resting(f.shape, After(k) - 1) /\ (Up(f.shape, After(k) - 1) <=> Up(e.shape, k))
      BY <1>4, <2>5, <2>8, AfterIs DEF Resting, Up
    <3>2. f.ptr = (IF f.face THEN Steps ELSE 2 * Steps - 1) /\ f.ptr >= Steps
      BY <1>0, <2>2, <2>3, <2>5, <2>8
    <3>3. After(k) \in {Steps, 2 * Steps, 3 * Steps}
      BY <2>8, AfterIs
    <3>4. Turning(f, After(k))
      BY <2>1, <2>5, <3>1, <3>2, <3>3 DEF Turning
    <3> QED
      BY <1>2, <2>6, <3>2, <3>4
  <2> QED
    BY <1>0, <2>2, <2>7, <2>8
<1> QED
  BY <1>3, <1>4

(* What follows on the slope: another, or the level at which it rests. *)

TurnOf(e, r) ==
  IF r.shape.continue
    THEN [e EXCEPT !.face = Turn(r), !.pause = @ \/ r.shape.hold,
                   !.ptr = IF Turn(r) THEN 0 ELSE Steps - 1]
    ELSE [e EXCEPT !.pause = TRUE, !.ptr = 0]

\* Whatever is turned, the pointer is in the table.
LEMMA TurnInTable ==
  ASSUME NEW e \in Envs, NEW r \in Envs
  PROVE  TurnOf(e, r) \in Envs /\ TurnOf(e, r).ptr < Steps
<1> DEFINE face == Turn(r)
           pause == e.pause \/ r.shape.hold
           ptr == IF Turn(r) THEN 0 ELSE Steps - 1
<1>0. Steps \in Nat \ {0}
  BY StepsAssumption
<1>1. face \in BOOLEAN /\ pause \in BOOLEAN
  BY DEF Envs, Shapes, Turn
<1>2. ptr \in 0 .. 2 * Steps - 1 /\ ptr < Steps
  BY <1>0
<1>3. TurnOf(e, r) = IF r.shape.continue
                     THEN [e EXCEPT !.face = face, !.pause = pause, !.ptr = ptr]
                     ELSE [e EXCEPT !.pause = TRUE, !.ptr = 0]
  BY DEF TurnOf
<1> HIDE DEF face, pause, ptr
<1>4. CASE r.shape.continue
  <2>1. TurnOf(e, r) = [e EXCEPT !.face = face, !.pause = pause, !.ptr = ptr]
    BY <1>3, <1>4
  <2> QED
    BY <1>1, <1>2, <2>1 DEF Envs
<1>5. CASE ~ r.shape.continue
  <2>1. TurnOf(e, r) = [e EXCEPT !.pause = TRUE, !.ptr = 0]
    BY <1>3, <1>5
  <2>2. 0 \in 0 .. 2 * Steps - 1 /\ 0 < Steps
    BY <1>0
  <2> QED
    BY <2>1, <2>2 DEF Envs
<1> QED
  BY <1>4, <1>5

LEMMA TurnFollows ==
  ASSUME NEW e \in Envs, NEW k \in Counts, Turning(e, k)
  PROVE  Follows(TurnOf(e, e), k)
<1> DEFINE s == e.shape
           f == TurnOf(e, e)
<1>0. Steps \in Nat \ {0}
  BY StepsAssumption
<1>1. /\ s \in Shapes /\ {e.face, e.pause} \subseteq BOOLEAN
      /\ {s.continue, s.attack, s.alternate, s.hold} \subseteq BOOLEAN
  BY DEF Envs, Shapes
<1>2. k >= Steps /\ Place(k) = 0 /\ k - 1 < k /\ k \in {Steps, 2 * Steps, 3 * Steps}
  BY <1>0 DEF Turning, Place
<1>3. (Odd(k) <=> ~ Odd(k - 1)) /\ (k = Steps => ~ Odd(k - 1)) /\ (k - 1 >= Steps <=> k # Steps)
  BY <1>0, <1>2 DEF Odd
<1>4. f.shape = s
  BY DEF TurnOf, Envs
<1>5. ~ Resting(s, k - 1) /\ e.pause = FALSE /\ (e.face <=> Up(s, k - 1))
  BY DEF Turning
<1>6. CASE ~ s.continue
  <2>1. f.pause = TRUE /\ f.ptr = 0
    BY <1>6 DEF TurnOf, Envs
  <2>2. Resting(s, k) /\ RestLevel(s) = 0
    BY <1>2, <1>6 DEF Resting, RestLevel
  <2> QED
    BY <1>4, <2>1, <2>2 DEF Follows
<1>7. CASE s.continue /\ s.hold
  <2>1. f.pause = TRUE /\ f.ptr = (IF Turn(e) THEN 0 ELSE Steps - 1)
    BY <1>7 DEF TurnOf, Envs
  <2>2. Resting(s, k) /\ RestLevel(s) = (IF s.attack # s.alternate THEN Steps - 1 ELSE 0)
    BY <1>2, <1>7 DEF Resting, RestLevel
  <2>3. e.face <=> s.attack
    <3>1. k = Steps
      BY <1>3, <1>5, <1>7 DEF Resting
    <3> QED
      BY <1>1, <1>3, <1>5, <3>1 DEF Up
  <2>4. Turn(e) <=> ~ (s.attack # s.alternate)
    BY <1>1, <1>7, <2>3 DEF Turn
  <2> QED
    BY <1>4, <2>1, <2>2, <2>4 DEF Follows
<1>8. CASE s.continue /\ ~ s.hold
  <2>1. f.pause = FALSE /\ f.ptr = (IF Turn(e) THEN 0 ELSE Steps - 1) /\ f.face = Turn(e)
    BY <1>5, <1>8 DEF TurnOf, Envs
  <2>2. ~ Resting(s, k)
    BY <1>8 DEF Resting
  <2>3. Turn(e) <=> Up(s, k)
    BY <1>1, <1>3, <1>5, <1>8 DEF Turn, Up
  <2>4. f.ptr = IF f.face THEN Place(k) ELSE Steps - 1 - Place(k)
    BY <1>0, <1>2, <2>1
  <2> QED
    BY <1>4, <2>1, <2>2, <2>3, <2>4 DEF Follows
<1> QED
  BY <1>1, <1>6, <1>7, <1>8

-----------------------------------------------------------------------------
(* The invariant: between the statements of a sample, too. *)

EnvOK ==
  part = "envelope" =>
    /\ env \in Envs /\ read \in Envs /\ n \in Counts
    /\ pc \in {"start", "new"} => torn = TRUE
    /\ phase \in {"out", "in", "event", "move", "carry", "turn", "subtract"}
    /\ phase \notin {"carry", "turn"} => env.ptr < Steps
    /\ torn = FALSE =>
         /\ phase \notin {"carry", "turn"} => Follows(env, n)
         /\ phase = "carry" => \/ Follows(env, n) /\ env.ptr < Steps
                               \/ Turning(env, n) /\ env.ptr >= Steps
         /\ phase = "turn" => Turning(env, n)
         /\ phase \in {"move", "turn"} => read = env

LEMMA InitEnv == Init => EnvOK
<1> SUFFICES ASSUME Init PROVE EnvOK
  OBVIOUS
<1>1. Steps \in Nat \ {0}
  BY StepsAssumption
<1>2. env \in Envs /\ env.ptr = 0 /\ read = env
  BY <1>1 DEF Init, Envs, Shapes
<1>3. n \in Counts
  BY <1>1 DEF Init, Counts
<1> QED
  BY <1>1, <1>2, <1>3 DEF Init, EnvOK

LEMMA NextEnv ==
  ASSUME EnvOK, ChipOK, [Next]_vars
  PROVE  EnvOK'
<1> SUFFICES ASSUME part' = "envelope" PROVE EnvOK'
  BY DEF EnvOK
<1>0. part = "envelope" /\ Steps \in Nat \ {0}
  BY StepsAssumption DEF Next, AudioStep, PSG_new, PSG_reset, Unpause, Pause, PSG_delete, Forget,
     WritePeriod, WriteShape, GuestWrite, MainStep, Enter, Tick, ToneEvent, NoiseEvent, EnvRead,
     EnvMove, EnvTurn, EnvStep, Subtract, SampleStep, vars
<1>1. /\ env \in Envs /\ read \in Envs /\ n \in Counts
      /\ pc \in {"start", "new"} => torn = TRUE
      /\ phase \in {"out", "in", "event", "move", "carry", "turn", "subtract"}
      /\ phase \notin {"carry", "turn"} => env.ptr < Steps
      /\ torn = FALSE =>
           /\ phase \notin {"carry", "turn"} => Follows(env, n)
           /\ phase = "carry" => \/ Follows(env, n) /\ env.ptr < Steps
                                 \/ Turning(env, n) /\ env.ptr >= Steps
           /\ phase = "turn" => Turning(env, n)
           /\ phase \in {"move", "turn"} => read = env
  BY <1>0 DEF EnvOK
<1>2. CASE PSG_reset
  <2>1. /\ pc = "new" /\ pc' = "ready" /\ env' = [env EXCEPT !.pause = TRUE]
        /\ UNCHANGED <<phase, n, torn, read>>
    BY <1>2 DEF PSG_reset, MainStep
  <2>2. torn' = TRUE /\ phase = "out"
    BY <1>1, <2>1 DEF ChipOK
  <2>3. env' \in Envs /\ env'.ptr = env.ptr
    BY <1>1, <2>1 DEF Envs
  <2> QED
    BY <1>1, <2>1, <2>2, <2>3 DEF EnvOK
<1>3. CASE \/ PSG_new \/ Unpause \/ Pause \/ PSG_delete \/ Forget \/ WritePeriod
           \/ Enter \/ Tick \/ Subtract \/ UNCHANGED vars
  <2>1. /\ UNCHANGED <<env, read, n, torn>>
        /\ phase' = phase \/ (phase \in {"out", "in", "subtract"} /\ phase' \in {"in", "out", "event"})
        /\ pc' \in {"start", "new"} => pc \in {"start", "new"}
    BY <1>3 DEF PSG_new, Unpause, Pause, PSG_delete, Forget, MainStep, WritePeriod, GuestWrite,
       Enter, CallBack, Tick, Subtract, Done, SampleStep, vars, voice
  <2> QED
    BY <1>1, <2>1 DEF EnvOK
<1>4. CASE ToneEvent \/ NoiseEvent
  BY <1>0, <1>4 DEF ToneEvent, NoiseEvent
<1>5. CASE WriteShape
  <2>1. PICK s \in Shapes : env' = [ptr |-> IF s.attack THEN 0 ELSE Steps - 1,
                                    face |-> s.attack, pause |-> FALSE, shape |-> s]
    BY <1>5 DEF WriteShape
  <2>2. /\ n' = 0 /\ torn' = (phase \notin {"out", "in"}) /\ UNCHANGED <<phase, read, pc>> /\ pc = "run"
    BY <1>5 DEF WriteShape, GuestWrite
  <2>3. env' \in Envs /\ env'.ptr < Steps /\ Follows(env, n)' /\ n' \in Counts
    <3> DEFINE e == env'
    <3>1. e = [ptr |-> IF s.attack THEN 0 ELSE Steps - 1,
               face |-> s.attack, pause |-> FALSE, shape |-> s]
      BY <2>1
    <3> HIDE DEF e
    <3>2. e \in Envs /\ e.ptr < Steps /\ Follows(e, 0) /\ 0 \in Counts
      BY <3>1, Starts
    <3> QED
      BY <2>2, <3>2 DEF e, Follows, Resting, RestLevel, Up, Odd, Place
  <2>4. torn' = FALSE => phase' \in {"out", "in"}
    BY <2>2
  <2> QED
    BY <1>1, <2>2, <2>3, <2>4 DEF EnvOK
<1>6. CASE EnvRead
  <2>1. /\ UNCHANGED <<env, n, torn, pc>> /\ read' = env
        /\ \/ phase = "event" /\ phase' = "move"
           \/ phase = "carry" /\ phase' = IF env.ptr < Steps THEN "subtract" ELSE "turn"
    BY <1>6 DEF EnvRead, EnvStep, SampleStep
  <2>2. env.ptr \in 0 .. 2 * Steps - 1
    BY <1>1 DEF Envs
  <2>3. CASE phase = "event"
    BY <1>1, <2>1, <2>3 DEF EnvOK
  <2>4. CASE phase = "carry" /\ env.ptr < Steps
    BY <1>0, <1>1, <2>1, <2>2, <2>4 DEF EnvOK
  <2>5. CASE phase = "carry" /\ ~ env.ptr < Steps
    BY <1>0, <1>1, <2>1, <2>2, <2>5 DEF EnvOK
  <2> QED
    BY <2>1, <2>3, <2>4, <2>5
<1>7. CASE EnvMove
  <2> DEFINE p == (read.ptr + (IF read.face THEN 1 ELSE 2 * Steps - 1)) % (2 * Steps)
  <2>1. /\ phase = "move" /\ phase' = "carry" /\ UNCHANGED <<read, torn, pc>>
        /\ env' = (IF read.pause THEN env ELSE [env EXCEPT !.ptr = p]) /\ n' = After(n)
    BY <1>7 DEF EnvMove, EnvStep, SampleStep, After
  <2>2. p \in 0 .. 2 * Steps - 1
    <3>1. 2 * Steps \in Nat \ {0} /\ read.ptr + (IF read.face THEN 1 ELSE 2 * Steps - 1) \in Int
      BY <1>0, <1>1 DEF Envs
    <3> QED
      BY <3>1, Remainder
  <2>3. env' \in Envs /\ n' \in Counts
    <3> HIDE DEF p
    <3>1. After(n) \in Counts
      BY <1>1, AfterIs
    <3> QED
      BY <1>1, <2>1, <2>2, <3>1 DEF Envs
  <2>4. ASSUME torn = FALSE
        PROVE  \/ Follows(env, n)' /\ env'.ptr < Steps
               \/ Turning(env, n)' /\ env'.ptr >= Steps
    <3> DEFINE f == env'
               k == n'
    <3>1. read = env /\ Follows(env, n)
      BY <1>1, <2>1, <2>4
    <3>2. f = IF env.pause THEN env
              ELSE [env EXCEPT !.ptr = (env.ptr + (IF env.face THEN 1 ELSE 2 * Steps - 1)) % (2 * Steps)]
      BY <2>1, <3>1
    <3>3. k = After(n)
      BY <2>1
    <3> HIDE DEF f, k
    <3>4. \/ Follows(f, k) /\ f.ptr < Steps
          \/ Turning(f, k) /\ f.ptr >= Steps
      BY <1>1, <3>1, <3>2, <3>3, Move
    <3> QED
      BY <3>4 DEF f, k, Follows, Turning, Resting, RestLevel, Up, Odd, Place
  <2> HIDE DEF p
  <2> QED
    BY <1>1, <2>1, <2>3, <2>4 DEF EnvOK
<1>8. CASE EnvTurn
  <2>1. /\ phase = "turn" /\ phase' = "subtract" /\ UNCHANGED <<read, n, torn, pc>>
        /\ env' = TurnOf(env, read)
    BY <1>8 DEF EnvTurn, EnvStep, SampleStep, TurnOf
  <2>2. env' \in Envs /\ env'.ptr < Steps
    BY <1>1, <2>1, TurnInTable
  <2>3. ASSUME torn = FALSE PROVE Follows(env, n)'
    <3> DEFINE f == env'
    <3>1. f = TurnOf(env, env) /\ Turning(env, n)
      BY <1>1, <2>1, <2>3
    <3> HIDE DEF f
    <3>2. Follows(f, n)
      BY <1>1, <3>1, TurnFollows
    <3> QED
      BY <2>1, <3>2 DEF f, Follows, Resting, RestLevel, Up, Odd, Place
  <2> QED
    BY <1>1, <2>1, <2>2, <2>3 DEF EnvOK
<1> QED
  BY <1>2, <1>3, <1>4, <1>5, <1>6, <1>7, <1>8 DEF Next, AudioStep

\* Whatever the guest writes and whenever, the envelope stays in the table of volumes;
\* and unless register 13 was written in the course of a sample, it takes the shape of
\* the data sheet step by step, for ever.
THEOREM EnvelopeFollowsShape == Spec => []EnvFollowsShape
<1>1. EnvOK /\ ChipOK /\ [Next]_vars => EnvOK'
  BY NextEnv
<1>2. EnvOK => EnvFollowsShape
  <2> SUFFICES ASSUME EnvOK, part = "envelope", phase \in {"in", "out"}
      PROVE  env.ptr < Steps /\ (~ torn => env.ptr = Shape(env.shape, n))
    BY DEF EnvFollowsShape
  <2>1. env \in Envs /\ n \in Counts /\ env.ptr < Steps /\ (torn = FALSE => Follows(env, n))
    BY DEF EnvOK
  <2>2. torn = FALSE => env.ptr = Shape(env.shape, n)
    BY <2>1, FollowsInTable
  <2> QED
    BY <2>1, <2>2
<1> QED
  BY <1>1, <1>2, InitEnv, Chip, PTL DEF Spec
-----------------------------------------------------------------------------
(* The chip's counters stay in their ranges. *)

\* The ticks of a sample, and the fraction that is left.
LEMMA Ticks ==
  ASSUME NEW b \in 0 .. Geta - 1
  PROVE  (b + BaseIncr) % Geta \in 0 .. Geta - 1 /\ (b + BaseIncr) \div Geta \in 0 .. BaseIncr
<1>0. Geta \in Nat \ {0} /\ BaseIncr \in Nat
  BY TickAssumption
<1> PICK x \in Nat : x = b + BaseIncr
  BY <1>0
<1> PICK q : q = x \div Geta
  OBVIOUS
<1>1. x % Geta \in 0 .. Geta - 1 /\ q \in Nat /\ q * Geta <= x /\ x <= Geta - 1 + BaseIncr
  BY <1>0
<1>2. q <= BaseIncr
  <2> SUFFICES ASSUME q >= BaseIncr + 1 PROVE FALSE
    BY <1>0, <1>1
  <2>1. q * Geta >= (BaseIncr + 1) * Geta
    BY <1>0, <1>1
  <2>2. (BaseIncr + 1) * Geta = BaseIncr * Geta + Geta /\ BaseIncr * Geta >= BaseIncr
    BY <1>0
  <2> QED
    BY <1>0, <1>1, <2>1, <2>2
<1> QED
  BY <1>0, <1>1, <1>2

LEMMA WordIs == Word \in Nat \ {0} /\ 0 \in Periods /\ \A p \in Periods : p \in 0 .. Word - 1
  BY WordAssumption

LEMMA Counted ==
  ASSUME NEW x \in Int
  PROVE  x % Word \in 0 .. Word - 1
  BY WordIs, Remainder

\* What the actions of either thread do to the variables they do not share.
MainTypes == /\ pc \in {"start", "new", "ready", "run", "paused", "deleted", "end"}
             /\ psg \in {"null", "raw", "reset", "freed"} /\ device \in BOOLEAN
             /\ writes \in 0 .. MaxWrites
StateTypes == /\ phase \in {"out", "in", "event", "move", "carry", "turn", "subtract"}
              /\ part \in Parts /\ edge \in BOOLEAN /\ torn \in BOOLEAN
              /\ scaler \in {0, 1} /\ seed \subseteq Nat
CountTypes == /\ base_count \in 0 .. Geta - 1 /\ incr \in 0 .. BaseIncr
              /\ count \in 0 .. Word - 1 /\ freq \in Periods /\ seen \in Periods
EnvTypes == env \in Envs /\ read \in Envs /\ n \in Counts

LEMMA TypeParts == TypeOK <=> MainTypes /\ StateTypes /\ CountTypes /\ EnvTypes
  BY DEF TypeOK, MainTypes, StateTypes, CountTypes, EnvTypes, Envs, Counts

LEMMA InitTypes == Init => MainTypes /\ StateTypes /\ CountTypes /\ EnvTypes
<1> SUFFICES ASSUME Init PROVE MainTypes /\ StateTypes /\ CountTypes /\ EnvTypes
  OBVIOUS
<1>1. MainTypes
  <2>1. device \in BOOLEAN /\ pc = "start" /\ psg = "null"
    BY DEF Init
  <2>2. writes \in 0 .. MaxWrites
    BY WritesAssumption DEF Init
  <2> QED
    BY <2>1, <2>2 DEF MainTypes
<1>2. StateTypes
  BY DEF Init, StateTypes
<1>3. CountTypes
  BY WordIs, TickAssumption DEF Init, CountTypes
<1>4. EnvTypes
  <2>1. env \in Envs
    BY StepsAssumption DEF Init, Envs, Shapes
  <2>2. n \in Counts
    BY StepsAssumption DEF Init, Counts
  <2> QED
    BY <2>1, <2>2 DEF Init, EnvTypes
<1> QED
  BY <1>1, <1>2, <1>3, <1>4

LEMMA NextTypes ==
  ASSUME MainTypes, StateTypes, CountTypes, EnvTypes, [Next]_vars
  PROVE  MainTypes' /\ StateTypes' /\ CountTypes' /\ EnvTypes'
<1>1. CASE PSG_new \/ Unpause \/ Pause \/ PSG_delete \/ Forget
  <2>1. UNCHANGED <<phase, part, voice, n, torn, writes>>
    BY <1>1 DEF PSG_new, Unpause, Pause, PSG_delete, Forget, MainStep
  <2>2. MainTypes'
    BY <1>1, <2>1 DEF PSG_new, Unpause, Pause, PSG_delete, Forget, MainTypes
  <2> QED
    BY <2>1, <2>2 DEF voice, StateTypes, CountTypes, EnvTypes
<1>2. CASE PSG_reset
  <2>1. /\ pc' = "ready" /\ psg' = "reset" /\ seed' = Seed /\ env' = [env EXCEPT !.pause = TRUE]
        /\ UNCHANGED <<phase, part, n, torn, writes, device, base_count, incr, count, freq, seen,
                       edge, scaler, read>>
    BY <1>2 DEF PSG_reset, MainStep
  <2>2. env' \in Envs
    BY <2>1 DEF EnvTypes, Envs
  <2> QED
    BY <2>1, <2>2, NoiseAssumption DEF MainTypes, StateTypes, CountTypes, EnvTypes
<1>3. CASE WritePeriod \/ WriteShape
  <2>1. /\ writes < MaxWrites /\ writes' = writes + 1
        /\ UNCHANGED <<pc, psg, device, phase, part,
                       base_count, incr, count, seen, edge, scaler, seed, read>>
    BY <1>3 DEF WritePeriod, WriteShape, GuestWrite
  <2>2. MainTypes'
    <3>1. writes' \in 0 .. MaxWrites
      BY <2>1, WritesAssumption DEF MainTypes
    <3> QED
      BY <2>1, <3>1 DEF MainTypes
  <2>3. CASE WritePeriod
    BY <2>1, <2>2, <2>3 DEF WritePeriod, StateTypes, CountTypes, EnvTypes
  <2>4. CASE WriteShape
    <3>1. torn' \in BOOLEAN /\ n' = 0 /\ freq' = freq
      BY <2>4 DEF WriteShape
    <3>2. PICK s \in Shapes : env' = [ptr |-> IF s.attack THEN 0 ELSE Steps - 1,
                                      face |-> s.attack, pause |-> FALSE, shape |-> s]
      BY <2>4 DEF WriteShape
    <3>3. env' \in Envs /\ 0 \in Counts
      BY <3>2, Starts
    <3> QED
      BY <2>1, <2>2, <3>1, <3>3 DEF StateTypes, CountTypes, EnvTypes
  <2> QED
    BY <1>3, <2>3, <2>4
<1>4. CASE Enter
  BY <1>4 DEF Enter, SampleStep, voice, MainTypes, StateTypes, CountTypes, EnvTypes
<1>5. CASE Tick
  <2> DEFINE b == base_count + BaseIncr
             c == (count + b \div Geta) % Word
  <2>1. /\ base_count' = b % Geta /\ incr' = b \div Geta /\ count' = c /\ seen' = freq
        /\ phase' \in {"event", "in", "out"}
        /\ UNCHANGED <<pc, psg, device, part, writes, freq, edge, scaler, seed, env, read, n, torn>>
    BY <1>5 DEF Tick, SampleStep, Done
  <2>2. base_count' \in 0 .. Geta - 1 /\ incr' \in 0 .. BaseIncr
    BY <2>1, Ticks DEF CountTypes
  <2>3. count' \in 0 .. Word - 1
    <3>1. count + incr' \in Int /\ count' = (count + incr') % Word
      BY <2>1, <2>2, TickAssumption, WordIs DEF CountTypes
    <3> QED
      BY <3>1, Counted
  <2> HIDE DEF b, c
  <2> QED
    BY <2>1, <2>2, <2>3 DEF MainTypes, StateTypes, CountTypes, EnvTypes
<1>6. CASE ToneEvent
  <2>1. /\ phase' = "subtract" /\ edge' = ~ edge
        /\ UNCHANGED <<pc, psg, device, part, writes, base_count, incr, count, freq, seen,
                       scaler, seed, env, read, n, torn>>
    BY <1>6 DEF ToneEvent, SampleStep
  <2>2. edge' \in BOOLEAN
    BY <2>1
  <2> QED
    BY <2>1, <2>2 DEF MainTypes, StateTypes, CountTypes, EnvTypes
<1>7. CASE NoiseEvent
  <2>1. /\ phase' = "subtract" /\ scaler' = 1 - scaler
        /\ seed' = seed \/ seed' = Shifted(seed)
        /\ UNCHANGED <<pc, psg, device, part, writes, base_count, incr, count, freq, seen,
                       edge, env, read, n, torn>>
    BY <1>7 DEF NoiseEvent, SampleStep
  <2>2. Shifted(seed) \subseteq Nat
    BY NoiseAssumption DEF Shifted, StateTypes
  <2>3. scaler' \in {0, 1}
    BY <2>1 DEF StateTypes
  <2> QED
    BY <2>1, <2>2, <2>3 DEF MainTypes, StateTypes, CountTypes, EnvTypes
<1>8. CASE EnvRead
  <2>1. /\ phase' \in {"move", "subtract", "turn"} /\ read' = env
        /\ UNCHANGED <<pc, psg, device, part, writes, base_count, incr, count, freq, seen,
                       edge, scaler, seed, torn, env, n>>
    BY <1>8 DEF EnvRead, EnvStep, SampleStep
  <2> QED
    BY <2>1 DEF MainTypes, StateTypes, CountTypes, EnvTypes
<1>9. CASE EnvMove
  <2> DEFINE p == (read.ptr + (IF read.face THEN 1 ELSE 2 * Steps - 1)) % (2 * Steps)
  <2>1. /\ phase' = "carry" /\ n' = After(n)
        /\ env' = (IF read.pause THEN env ELSE [env EXCEPT !.ptr = p])
        /\ UNCHANGED <<pc, psg, device, part, writes, base_count, incr, count, freq, seen,
                       edge, scaler, seed, torn, read>>
    BY <1>9 DEF EnvMove, EnvStep, SampleStep, After
  <2>2. p \in 0 .. 2 * Steps - 1
    <3>1. 2 * Steps \in Nat \ {0} /\ read.ptr + (IF read.face THEN 1 ELSE 2 * Steps - 1) \in Int
      BY StepsAssumption DEF EnvTypes, Envs
    <3> QED
      BY <3>1, Remainder
  <2> HIDE DEF p
  <2>3. env' \in Envs /\ n' \in Counts
    BY <2>1, <2>2, AfterIs DEF EnvTypes, Envs
  <2> QED
    BY <2>1, <2>3 DEF MainTypes, StateTypes, CountTypes, EnvTypes
<1>10. CASE EnvTurn
  <2>1. /\ phase' = "subtract" /\ env' = TurnOf(env, read)
        /\ UNCHANGED <<pc, psg, device, part, writes, base_count, incr, count, freq, seen,
                       edge, scaler, seed, torn, read, n>>
    BY <1>10 DEF EnvTurn, EnvStep, SampleStep, TurnOf
  <2>2. env' \in Envs
    BY <2>1, TurnInTable DEF EnvTypes
  <2> QED
    BY <2>1, <2>2 DEF MainTypes, StateTypes, CountTypes, EnvTypes
<1>11. CASE Subtract
  <2>1. PICK p \in {seen, freq}, q \in {seen, freq} : count' = Taken(count, p, q, incr)
    BY <1>11 DEF Subtract
  <2>2. /\ phase' \in {"in", "out"}
        /\ UNCHANGED <<pc, psg, device, part, writes, base_count, incr, freq, seen,
                       edge, scaler, seed, env, read, n, torn>>
    BY <1>11 DEF Subtract, Done, SampleStep
  <2>3. count' \in 0 .. Word - 1
    <3>1. count + Word - q \in Int
      BY WordIs DEF CountTypes
    <3>2. (count + Word - q) % Word \in 0 .. Word - 1 /\ 0 \in 0 .. Word - 1
      BY <3>1, Counted, WordIs
    <3> QED
      BY <2>1, <3>2 DEF Taken
  <2> QED
    BY <2>2, <2>3 DEF MainTypes, StateTypes, CountTypes, EnvTypes
<1>12. CASE UNCHANGED vars
  BY <1>12 DEF vars, voice, MainTypes, StateTypes, CountTypes, EnvTypes
<1> QED
  BY <1>1, <1>2, <1>3, <1>4, <1>5, <1>6, <1>7, <1>8, <1>9, <1>10, <1>11, <1>12 DEF Next, AudioStep

\* The chip's counters, its shift register and its envelope stay in their ranges.
THEOREM PsgTypeCorrect == Spec => []TypeOK
<1> DEFINE Types == MainTypes /\ StateTypes /\ CountTypes /\ EnvTypes
<1>1. Init => Types
  BY InitTypes
<1>2. Types /\ [Next]_vars => Types'
  BY NextTypes
<1>3. Types => TypeOK
  BY TypeParts
<1> HIDE DEF Types
<1> QED
  BY <1>1, <1>2, <1>3, PTL DEF Spec

-----------------------------------------------------------------------------
(***************************************************************************)
(* Scan.  The bridge runs the virtual lines of one scanline at a time: its  *)
(* line is that of phase ph times per, and the rows it draws are 2 * ph and *)
(* the next, in short modes and long.                                      *)
(***************************************************************************)
Ages == [0 .. Rows - 1 -> 0 .. Oldest]
Bridges == [line : Int, per : {1, 2}, age : Ages]

LEMMA Geometry == Lines \in Nat /\ Lines >= 2 /\ Visible \in 1 .. Lines - 1 /\ Rows = 2 * Visible
  BY GeometryAssumption

LEMMA VirtualLine ==
  ASSUME NEW v \in Bridges, NEW mode \in {1, 2}, NEW w, w = vdp_bridge_virtual_line(v, mode)
  PROVE  /\ w \in Bridges
         /\ w.line = IF v.line + 1 < Lines * v.per THEN v.line + 1 ELSE 0
         /\ w.per = IF v.line + 1 < Lines * v.per THEN v.per ELSE mode
         /\ w.age = [r \in 0 .. Rows - 1 |-> IF r \in RowsOf(v) THEN 0 ELSE v.age[r]]
<1> DEFINE drawn == RowsOf(v)
           u == [v EXCEPT !.line = v.line + 1,
                          !.age = [r \in DOMAIN v.age |-> IF r \in drawn THEN 0 ELSE v.age[r]]]
<1>1. w = IF u.line < Lines * v.per THEN u ELSE [u EXCEPT !.line = 0, !.per = mode]
  BY DEF vdp_bridge_virtual_line
<1> HIDE DEF drawn
<1>2. /\ u \in Bridges /\ u.line = v.line + 1 /\ u.per = v.per
      /\ u.age = [r \in 0 .. Rows - 1 |-> IF r \in drawn THEN 0 ELSE v.age[r]]
  <2> DEFINE a == [r \in 0 .. Rows - 1 |-> IF r \in drawn THEN 0 ELSE v.age[r]]
  <2>1. 0 \in 0 .. Oldest
    BY Geometry DEF Oldest
  <2>2. v.age \in [0 .. Rows - 1 -> 0 .. Oldest] /\ DOMAIN v.age = 0 .. Rows - 1
    BY DEF Bridges, Ages
  <2>3. a \in Ages
    BY <2>1, <2>2 DEF Ages
  <2>4. u = [v EXCEPT !.line = v.line + 1, !.age = a]
    BY <2>2
  <2> HIDE DEF a, u
  <2>5. u = [line |-> v.line + 1, per |-> v.per, age |-> a]
    BY <2>4 DEF Bridges
  <2>6. v.line + 1 \in Int /\ v.per \in {1, 2}
    BY DEF Bridges
  <2>7. u \in Bridges /\ u.line = v.line + 1 /\ u.per = v.per /\ u.age = a
    BY <2>3, <2>5, <2>6 DEF Bridges
  <2> QED
    BY <2>7 DEF a
<1> HIDE DEF u
<1>3. CASE u.line < Lines * v.per
  <2>1. w = u
    BY <1>1, <1>3
  <2> QED
    BY <1>2, <1>3, <2>1 DEF drawn
<1>4. CASE ~ u.line < Lines * v.per
  <2>1. w = [u EXCEPT !.line = 0, !.per = mode]
    BY <1>1, <1>4
  <2>2. w = [line |-> 0, per |-> mode, age |-> u.age] /\ u.age \in Ages
    BY <1>2, <2>1 DEF Bridges
  <2>3. w \in Bridges /\ w.line = 0 /\ w.per = mode /\ w.age = u.age
    BY <2>2 DEF Bridges
  <2> QED
    BY <1>2, <1>4, <2>3 DEF drawn
<1> QED
  BY <1>3, <1>4

LEMMA LoopIs ==
  ASSUME NEW v \in Bridges, NEW mode \in {1, 2}, NEW ph \in 0 .. Lines - 1, v.line = v.per * ph,
         NEW w, w = vdp_bridge_loop(v, mode)
  PROVE  /\ w \in Bridges
         /\ w.line = IF ph + 1 < Lines THEN v.per * (ph + 1) ELSE 0
         /\ w.per = IF ph + 1 < Lines THEN v.per ELSE mode
         /\ w.age = [r \in 0 .. Rows - 1 |-> IF r \div 2 = ph THEN 0 ELSE v.age[r]]
<1> DEFINE u == vdp_bridge_virtual_line(v, mode)
<1>1. /\ u \in Bridges
      /\ u.line = IF v.line + 1 < Lines * v.per THEN v.line + 1 ELSE 0
      /\ u.per = IF v.line + 1 < Lines * v.per THEN v.per ELSE mode
      /\ u.age = [r \in 0 .. Rows - 1 |-> IF r \in RowsOf(v) THEN 0 ELSE v.age[r]]
  BY VirtualLine
<1>2. w = IF v.per = 2 THEN vdp_bridge_virtual_line(u, mode) ELSE u
  BY DEF vdp_bridge_loop
<1> HIDE DEF u
<1>3. CASE v.per = 1
  <2>1. w = u /\ v.line = ph
    BY <1>2, <1>3
  <2>2. \A r \in 0 .. Rows - 1 : r \in RowsOf(v) <=> r \div 2 = ph
    <3>1. RowsOf(v) = IF ph >= Visible THEN {} ELSE {dy \in 0 .. Rows - 1 : dy \div 2 = ph}
      BY <1>3, <2>1, Geometry DEF RowsOf
    <3> QED
      BY <3>1, Geometry
  <2>3. u.age = [r \in 0 .. Rows - 1 |-> IF r \div 2 = ph THEN 0 ELSE v.age[r]]
    BY <1>1, <2>2
  <2> QED
    BY <1>1, <1>3, <2>1, <2>3, Geometry
<1>4. CASE v.per = 2
  <2>1. v.line = 2 * ph /\ v.line + 1 < Lines * v.per
    BY <1>4, Geometry
  <2>2. u.line = 2 * ph + 1 /\ u.per = 2
    BY <1>1, <1>4, <2>1
  <2>3. /\ w \in Bridges
        /\ w.line = IF u.line + 1 < Lines * u.per THEN u.line + 1 ELSE 0
        /\ w.per = IF u.line + 1 < Lines * u.per THEN u.per ELSE mode
        /\ w.age = [r \in 0 .. Rows - 1 |-> IF r \in RowsOf(u) THEN 0 ELSE u.age[r]]
    <3>1. w = vdp_bridge_virtual_line(u, mode)
      BY <1>2, <1>4
    <3>2. u \in Bridges
      BY <1>1
    <3> QED
      BY <3>1, <3>2, VirtualLine, Zenon
  <2>4. \A r \in 0 .. Rows - 1 :
          (r \in RowsOf(v) <=> r = 2 * ph) /\ (r \in RowsOf(u) <=> r = 2 * ph + 1)
    <3>1. RowsOf(v) = IF 2 * ph >= Visible * 2 THEN {} ELSE {dy \in 0 .. Rows - 1 : dy \div 1 = 2 * ph}
      BY <1>4, <2>1 DEF RowsOf
    <3>2. RowsOf(u) = IF 2 * ph + 1 >= Visible * 2 THEN {} ELSE {dy \in 0 .. Rows - 1 : dy \div 1 = 2 * ph + 1}
      BY <2>2 DEF RowsOf
    <3> QED
      BY <3>1, <3>2, Geometry
  <2>5. \A r \in 0 .. Rows - 1 : r \div 2 = ph <=> (r = 2 * ph \/ r = 2 * ph + 1)
    BY Geometry
  <2>6. w.age = [r \in 0 .. Rows - 1 |-> IF r \div 2 = ph THEN 0 ELSE v.age[r]]
    <3>1. \A r \in 0 .. Rows - 1 :
            (IF r \in RowsOf(u) THEN 0 ELSE u.age[r]) = IF r \div 2 = ph THEN 0 ELSE v.age[r]
      <4>1. \A r \in 0 .. Rows - 1 : u.age[r] = IF r \in RowsOf(v) THEN 0 ELSE v.age[r]
        BY <1>1
      <4> TAKE r \in 0 .. Rows - 1
      <4>2. r \div 2 = ph <=> (r \in RowsOf(v) \/ r \in RowsOf(u))
        BY <2>4, <2>5, Zenon
      <4>3. u.age[r] = IF r \in RowsOf(v) THEN 0 ELSE v.age[r]
        BY <4>1
      <4> QED
        BY <4>2, <4>3, Zenon
    <3> QED
      BY <2>3, <3>1
  <2> QED
    BY <1>4, <2>2, <2>3, <2>6, Geometry
<1> QED
  BY <1>3, <1>4 DEF Bridges

\* Scanlines since the bridge was last at the top.
Phase == IF scanline >= skew THEN scanline - skew ELSE scanline + Lines - skew

FrameOK ==
  /\ scanline \in 0 .. Lines - 1 /\ skew \in 0 .. Lines - 1 /\ per \in {1, 2}
  /\ age \in Ages /\ cut \in BOOLEAN
  /\ line = per * Phase

\* A row the bridge has passed since the top was drawn then; of the others, unless F3
\* cut a frame off, none is older than from the frame before.
RowOK(r) ==
  LET q == r \div 2
  IN  IF q < Phase THEN age[r] = Phase - 1 - q
      ELSE scanline >= skew /\ cut = FALSE => age[r] <= Phase + Lines - 1 - q

LEMMA PhaseBounds == FrameOK => Phase \in 0 .. Lines - 1
  BY Geometry DEF FrameOK, Phase

LEMMA BridgeIs ==
  ASSUME FrameOK
  PROVE  /\ Bridge \in Bridges /\ Bridge.line = line /\ Bridge.per = per
         /\ \A r \in 0 .. Rows - 1 : Bridge.age[r] = IF age[r] = Oldest THEN Oldest ELSE age[r] + 1
         /\ vdp_bridge_reset(Bridge) \in Bridges /\ vdp_bridge_reset(Bridge).line = 0
         /\ vdp_bridge_reset(Bridge).per = 1 /\ vdp_bridge_reset(Bridge).age = Bridge.age
<1> DEFINE a == [r \in DOMAIN age |-> IF age[r] = Oldest THEN Oldest ELSE age[r] + 1]
<1>0. Oldest \in Nat /\ DOMAIN age = 0 .. Rows - 1 /\ \A r \in 0 .. Rows - 1 : age[r] \in 0 .. Oldest
  BY Geometry DEF FrameOK, Ages, Oldest
<1>1. \A r \in 0 .. Rows - 1 : (IF age[r] = Oldest THEN Oldest ELSE age[r] + 1) \in 0 .. Oldest
  BY <1>0
<1>2. a \in Ages /\ \A r \in 0 .. Rows - 1 : a[r] = IF age[r] = Oldest THEN Oldest ELSE age[r] + 1
  BY <1>0, <1>1 DEF Ages
<1>3. Bridge = [line |-> line, per |-> per, age |-> a]
  BY DEF Bridge
<1> HIDE DEF a
<1>4. line \in Int /\ per \in {1, 2}
  <2>1. Phase \in 0 .. Lines - 1
    BY PhaseBounds
  <2>2. per = 1 \/ per = 2
    BY DEF FrameOK
  <2> QED
    BY <2>1, <2>2, Geometry DEF FrameOK
<1>5. Bridge \in Bridges /\ Bridge.line = line /\ Bridge.per = per /\ Bridge.age = a
  BY <1>2, <1>3, <1>4 DEF Bridges
<1>6. vdp_bridge_reset(Bridge) = [line |-> 0, per |-> 1, age |-> a]
  <2> DEFINE b == Bridge
             c == vdp_bridge_reset(b)
  <2>1. c = [b EXCEPT !.line = 0, !.per = 1]
    BY DEF vdp_bridge_reset
  <2>2. b \in Bridges /\ b.age = a
    BY <1>5
  <2> HIDE DEF b, c
  <2>3. c = [line |-> 0, per |-> 1, age |-> a]
    BY <2>1, <2>2 DEF Bridges
  <2> QED
    BY <2>3 DEF b, c
<1> QED
  BY <1>2, <1>5, <1>6 DEF Bridges

\* What a scanline that finds the bridge in phase ph draws, and where it leaves the
\* counters.
LEMMA Advances ==
  ASSUME NEW b \in Bridges, NEW ph \in 0 .. Lines - 1, b.line = b.per * ph, Advance(b)
  PROVE  /\ scanline' = IF scanline + 1 > Lines - 1 THEN 0 ELSE scanline + 1
         /\ line' = IF ph + 1 < Lines THEN b.per * (ph + 1) ELSE 0
         /\ per' \in {1, 2} /\ (ph + 1 < Lines => per' = b.per)
         /\ age' \in Ages
         /\ \A r \in 0 .. Rows - 1 : age'[r] = IF r \div 2 = ph THEN 0 ELSE b.age[r]
<1>1. scanline' = IF scanline + 1 > Lines - 1 THEN 0 ELSE scanline + 1
  BY DEF Advance, Shows
<1>2. PICK mode \in {1, 2} : LET v == vdp_bridge_loop(b, mode)
                             IN  line' = v.line /\ per' = v.per /\ age' = v.age
  BY DEF Advance
<1> DEFINE w == vdp_bridge_loop(b, mode)
<1>3. line' = w.line /\ per' = w.per /\ age' = w.age
  BY <1>2
<1>4. /\ w \in Bridges
      /\ w.line = IF ph + 1 < Lines THEN b.per * (ph + 1) ELSE 0
      /\ w.per = IF ph + 1 < Lines THEN b.per ELSE mode
      /\ w.age = [r \in 0 .. Rows - 1 |-> IF r \div 2 = ph THEN 0 ELSE b.age[r]]
  BY LoopIs
<1> HIDE DEF w
<1>5. per' \in {1, 2} /\ age' \in Ages
  BY <1>3, <1>4 DEF Bridges
<1>6. \A r \in 0 .. Rows - 1 : age'[r] = IF r \div 2 = ph THEN 0 ELSE b.age[r]
  BY <1>3, <1>4
<1> QED
  BY <1>1, <1>3, <1>4, <1>5, <1>6

\* One scanline without F3, and one with it, row by row.
LEMMA ScanlineDraws ==
  ASSUME FrameOK, Scanline
  PROVE  /\ scanline' = IF scanline + 1 > Lines - 1 THEN 0 ELSE scanline + 1
         /\ skew' = skew /\ cut' \in BOOLEAN
         /\ scanline + 1 > Lines - 1 => cut' = FALSE
         /\ ~ scanline + 1 > Lines - 1 => cut' = cut
         /\ Phase' = IF Phase + 1 < Lines THEN Phase + 1 ELSE 0
         /\ FrameOK'
         /\ \A r \in 0 .. Rows - 1 :
              age'[r] = IF r \div 2 = Phase THEN 0
                        ELSE IF age[r] = Oldest THEN Oldest ELSE age[r] + 1
<1> DEFINE b == Bridge
<1>0. Phase \in 0 .. Lines - 1
  BY PhaseBounds
<1>1. /\ b \in Bridges /\ b.line = line /\ b.per = per
      /\ \A r \in 0 .. Rows - 1 : b.age[r] = IF age[r] = Oldest THEN Oldest ELSE age[r] + 1
  BY BridgeIs
<1>2. Advance(b) /\ skew' = skew /\ cut' = (cut /\ ~ Shows)
  BY DEF Scanline
<1> HIDE DEF b
<1>3. b.line = b.per * Phase
  BY <1>1 DEF FrameOK
<1>4. /\ scanline' = IF scanline + 1 > Lines - 1 THEN 0 ELSE scanline + 1
      /\ line' = IF Phase + 1 < Lines THEN b.per * (Phase + 1) ELSE 0
      /\ per' \in {1, 2} /\ (Phase + 1 < Lines => per' = b.per)
      /\ age' \in Ages
      /\ \A r \in 0 .. Rows - 1 : age'[r] = IF r \div 2 = Phase THEN 0 ELSE b.age[r]
  BY <1>0, <1>1, <1>2, <1>3, Advances
<1>5. /\ cut' \in BOOLEAN /\ (scanline + 1 > Lines - 1 => cut' = FALSE)
      /\ (~ scanline + 1 > Lines - 1 => cut' = cut)
  BY <1>2, Zenon DEF Shows, FrameOK
<1>6. scanline \in 0 .. Lines - 1 /\ skew \in 0 .. Lines - 1
  BY DEF FrameOK
<1>7. Phase' = (IF Phase + 1 < Lines THEN Phase + 1 ELSE 0) /\ scanline' \in 0 .. Lines - 1
  BY <1>2, <1>4, <1>6, Geometry DEF Phase
<1>8. line' = per' * Phase'
  <2> HIDE DEF Phase
  <2>1. CASE Phase + 1 < Lines
    BY <1>4, <1>7, <2>1
  <2>2. CASE ~ Phase + 1 < Lines
    <3>1. line' = 0 /\ Phase' = 0 /\ (per' = 1 \/ per' = 2)
      BY <1>4, <1>7, <2>2
    <3> QED
      BY <3>1
  <2> QED
    BY <2>1, <2>2
<1>9. \A r \in 0 .. Rows - 1 :
        age'[r] = IF r \div 2 = Phase THEN 0 ELSE IF age[r] = Oldest THEN Oldest ELSE age[r] + 1
  BY <1>1, <1>4
<1>10. FrameOK'
  BY <1>2, <1>4, <1>5, <1>6, <1>7, <1>8 DEF FrameOK
<1> QED
  BY <1>2, <1>4, <1>5, <1>7, <1>9, <1>10

LEMMA ResetDraws ==
  ASSUME FrameOK, ResetScanline
  PROVE  /\ Phase' = 1 /\ cut' = TRUE /\ FrameOK'
         /\ \A r \in 0 .. Rows - 1 : r \div 2 = 0 => age'[r] = 0
<1> DEFINE b == vdp_bridge_reset(Bridge)
<1>1. b \in Bridges /\ b.line = 0 /\ b.per = 1
  BY BridgeIs
<1>2. Advance(b) /\ skew' = scanline /\ cut' = TRUE
  BY DEF ResetScanline
<1> HIDE DEF b
<1>3. b.line = b.per * 0 /\ 0 \in 0 .. Lines - 1
  BY <1>1, Geometry
<1>4. /\ scanline' = IF scanline + 1 > Lines - 1 THEN 0 ELSE scanline + 1
      /\ line' = IF 0 + 1 < Lines THEN b.per * (0 + 1) ELSE 0
      /\ per' \in {1, 2} /\ (0 + 1 < Lines => per' = b.per)
      /\ age' \in Ages
      /\ \A r \in 0 .. Rows - 1 : age'[r] = IF r \div 2 = 0 THEN 0 ELSE b.age[r]
  BY <1>1, <1>2, <1>3, Advances
<1>5. scanline \in 0 .. Lines - 1
  BY DEF FrameOK
<1>6. Phase' = 1 /\ scanline' \in 0 .. Lines - 1
  BY <1>2, <1>4, <1>5, Geometry DEF Phase
<1>7. line' = 1 /\ per' = 1
  BY <1>1, <1>4, Geometry
<1>8. FrameOK'
  BY <1>2, <1>4, <1>5, <1>6, <1>7 DEF FrameOK
<1> QED
  BY <1>2, <1>4, <1>6, <1>8

RowsOK == FrameOK /\ \A r \in 0 .. Rows - 1 : RowOK(r)

LEMMA InitRows == ScanInit => RowsOK
<1> SUFFICES ASSUME ScanInit PROVE RowsOK
  OBVIOUS
<1>1. Phase = 0 /\ age = [r \in 0 .. Rows - 1 |-> 0] /\ line = 0 /\ per = 1
      /\ scanline = 0 /\ skew = 0 /\ cut = FALSE
  BY Geometry DEF ScanInit, Phase
<1>2. FrameOK
  <2>1. age \in Ages
    BY <1>1, Geometry DEF Ages, Oldest
  <2> QED
    <3>1. cut \in BOOLEAN
      BY <1>1
    <3>2. /\ scanline \in 0 .. Lines - 1 /\ skew \in 0 .. Lines - 1 /\ per \in {1, 2}
          /\ line = per * Phase
      BY <1>1, Geometry
    <3> QED
      BY <2>1, <3>1, <3>2 DEF FrameOK
<1>3. ASSUME NEW r \in 0 .. Rows - 1 PROVE RowOK(r)
  <2>1. r \div 2 \in 0 .. Visible - 1 /\ age[r] = 0
    BY <1>1, Geometry
  <2> QED
    BY <1>1, <2>1, Geometry DEF RowOK
<1> QED
  BY <1>2, <1>3 DEF RowsOK

LEMMA NextRows == RowsOK /\ [ScanNext]_scanVars => RowsOK'
<1> SUFFICES ASSUME RowsOK, [ScanNext]_scanVars PROVE RowsOK'
  OBVIOUS
<1>0. FrameOK /\ Phase \in 0 .. Lines - 1 /\ \A r \in 0 .. Rows - 1 : RowOK(r)
  BY PhaseBounds DEF RowsOK
<1>1. CASE Scanline
  <2>1. /\ scanline' = IF scanline + 1 > Lines - 1 THEN 0 ELSE scanline + 1
        /\ skew' = skew /\ cut' \in BOOLEAN
        /\ scanline + 1 > Lines - 1 => cut' = FALSE
        /\ ~ scanline + 1 > Lines - 1 => cut' = cut
        /\ Phase' = IF Phase + 1 < Lines THEN Phase + 1 ELSE 0
        /\ FrameOK'
        /\ \A r \in 0 .. Rows - 1 :
             age'[r] = IF r \div 2 = Phase THEN 0
                       ELSE IF age[r] = Oldest THEN Oldest ELSE age[r] + 1
    BY <1>0, <1>1, ScanlineDraws
  <2>2. ASSUME NEW r \in 0 .. Rows - 1 PROVE RowOK(r)'
    <3> DEFINE q == r \div 2
    <3>1. q \in 0 .. Visible - 1
      BY Geometry
    <3>2. age[r] \in 0 .. Oldest
      BY <1>0 DEF FrameOK, Ages
    <3>3. age'[r] = IF q = Phase THEN 0 ELSE IF age[r] = Oldest THEN Oldest ELSE age[r] + 1
      BY <2>1
    <3>4. IF q < Phase THEN age[r] = Phase - 1 - q
          ELSE scanline >= skew /\ cut = FALSE => age[r] <= Phase + Lines - 1 - q
      BY <1>0 DEF RowOK
    <3>5. scanline \in 0 .. Lines - 1 /\ skew \in 0 .. Lines - 1
      BY <1>0 DEF FrameOK
    <3> HIDE DEF q
    <3>6. CASE q < Phase
      <4>1. age'[r] = Phase - q
        BY <1>0, <3>1, <3>2, <3>3, <3>4, <3>6, Geometry DEF Oldest
      <4>2. IF q < Phase' THEN age'[r] = Phase' - 1 - q ELSE age'[r] <= Phase' + Lines - 1 - q
        BY <1>0, <2>1, <3>1, <3>6, <4>1, Geometry
      <4> QED
        BY <4>2 DEF RowOK, q
    <3>7. CASE q = Phase
      <4>1. Phase' = Phase + 1 /\ age'[r] = 0
        BY <1>0, <2>1, <3>1, <3>3, <3>7, Geometry
      <4>2. q < Phase' /\ age'[r] = Phase' - 1 - q
        BY <1>0, <3>7, <4>1
      <4> QED
        BY <4>2 DEF RowOK, q
    <3>8. CASE q > Phase
      <4>1. Phase' = Phase + 1 /\ ~ q < Phase'
        BY <1>0, <2>1, <3>1, <3>8, Geometry
      <4>2. ASSUME scanline' >= skew', cut' = FALSE
            PROVE  age'[r] <= Phase' + Lines - 1 - q
        <5>1. ~ scanline + 1 > Lines - 1 /\ scanline >= skew
          BY <2>1, <3>1, <3>5, <3>8, <4>1, <4>2, Geometry DEF Phase
        <5>2. age[r] <= Phase + Lines - 1 - q
          <6>1. cut = FALSE
            BY <2>1, <4>2, <5>1
          <6>2. ~ q < Phase
            BY <1>0, <3>1, <3>8
          <6> QED
            BY <3>4, <5>1, <6>1, <6>2, Zenon
        <5> QED
          BY <1>0, <3>1, <3>2, <3>3, <3>8, <4>1, <5>2, Geometry
      <4> QED
        BY <4>1, <4>2 DEF RowOK, q
    <3> QED
      BY <1>0, <3>1, <3>6, <3>7, <3>8
  <2> QED
    BY <2>1, <2>2 DEF RowsOK
<1>2. CASE ResetScanline
  <2>1. /\ Phase' = 1 /\ cut' = TRUE /\ FrameOK'
        /\ \A r \in 0 .. Rows - 1 : r \div 2 = 0 => age'[r] = 0
    BY <1>0, <1>2, ResetDraws
  <2>2. ASSUME NEW r \in 0 .. Rows - 1 PROVE RowOK(r)'
    <3>1. r \div 2 \in 0 .. Visible - 1
      BY Geometry
    <3>2. r \div 2 < Phase' => age'[r] = Phase' - 1 - (r \div 2)
      BY <2>1, <3>1
    <3> QED
      BY <2>1, <3>2 DEF RowOK
  <2> QED
    BY <2>1, <2>2 DEF RowsOK
<1>3. CASE z80_step \/ UNCHANGED scanVars
  <2>1. UNCHANGED <<scanline, line, per, age, skew, cut>>
    BY <1>3 DEF z80_step, scanVars
  <2> QED
    BY <1>0, <2>1 DEF RowsOK, FrameOK, RowOK, Phase
<1> QED
  BY <1>1, <1>2, <1>3 DEF ScanNext

LEMMA ScanRows == ScanSpec => []RowsOK
  BY InitRows, NextRows, PTL DEF ScanSpec

\* The lines of the bridge and the scanlines of the loop stay in step, whatever the
\* modes of the VDP and wherever in a frame F3 is pressed.
THEOREM LinesInStep == ScanSpec => []FramesInStep
<1>1. RowsOK => FramesInStep
  <2> SUFFICES ASSUME RowsOK PROVE FramesInStep
    OBVIOUS
  <2>1. scanline \in 0 .. Lines - 1 /\ skew \in 0 .. Lines - 1 /\ line = per * Phase
    BY DEF RowsOK, FrameOK
  <2>2. (scanline - skew) % Lines = Phase
    <3>1. Lines \in Nat \ {0} /\ scanline - skew \in Int
      BY <2>1, Geometry
    <3>2. CASE scanline >= skew
      <4>1. 0 <= scanline - skew /\ scanline - skew < Lines /\ Phase = scanline - skew
        BY <2>1, <3>2, Geometry DEF Phase
      <4> QED
        BY <3>1, <4>1, Remainder
    <3>3. CASE ~ scanline >= skew
      <4>1. - Lines <= scanline - skew /\ scanline - skew < 0 /\ Phase = scanline - skew + Lines
        BY <2>1, <3>3, Geometry DEF Phase
      <4> QED
        BY <3>1, <4>1, Remainder
    <3> QED
      BY <3>2, <3>3
  <2> QED
    BY <2>1, <2>2 DEF FramesInStep
<1> QED
  BY <1>1, ScanRows, PTL

\* What is shown has been drawn within the last field, every row of it; and without F3
\* it is one frame from top to bottom.
THEOREM PictureIsFresh == ScanSpec => RowsFresh
<1>1. RowsOK /\ [ScanNext]_scanVars =>
        [scanline # 0 /\ scanline' = 0 =>
           \/ cut' \/ cut
           \/ /\ \A r \in DOMAIN age : age'[r] < Lines
              /\ skew = 0 => \A r, q \in DOMAIN age : r < q => age'[q] <= age'[r]]_scanVars
  <2> SUFFICES ASSUME RowsOK, ScanNext, scanline # 0, scanline' = 0, ~ cut', ~ cut
      PROVE  /\ \A r \in DOMAIN age : age'[r] < Lines
             /\ skew = 0 => \A r, q \in DOMAIN age : r < q => age'[q] <= age'[r]
    OBVIOUS
  <2>0. FrameOK /\ Phase \in 0 .. Lines - 1 /\ \A r \in 0 .. Rows - 1 : RowOK(r)
    BY PhaseBounds DEF RowsOK
  <2>1. /\ scanline \in 0 .. Lines - 1 /\ skew \in 0 .. Lines - 1
        /\ DOMAIN age = 0 .. Rows - 1 /\ cut = FALSE
        /\ \A r \in 0 .. Rows - 1 : age[r] \in 0 .. Oldest
    BY <2>0 DEF FrameOK, Ages
  <2>2. Scanline
    <3>1. ~ z80_step
      BY DEF z80_step
    <3>2. ~ ResetScanline
      BY <2>0, ResetDraws
    <3> QED
      BY <3>1, <3>2 DEF ScanNext
  <2>3. /\ scanline = Lines - 1 /\ Phase = Lines - 1 - skew
        /\ \A r \in 0 .. Rows - 1 :
             age'[r] = IF r \div 2 = Phase THEN 0
                       ELSE IF age[r] = Oldest THEN Oldest ELSE age[r] + 1
    <3>1. /\ scanline' = IF scanline + 1 > Lines - 1 THEN 0 ELSE scanline + 1
          /\ \A r \in 0 .. Rows - 1 :
               age'[r] = IF r \div 2 = Phase THEN 0
                         ELSE IF age[r] = Oldest THEN Oldest ELSE age[r] + 1
      BY <2>0, <2>2, ScanlineDraws
    <3>2. scanline = Lines - 1
      BY <2>1, <3>1, Geometry
    <3> QED
      BY <2>1, <3>1, <3>2, Geometry DEF Phase
  <2>4. ASSUME NEW r \in 0 .. Rows - 1
        PROVE  /\ age'[r] < Lines
               /\ skew = 0 => age'[r] = Lines - 1 - (r \div 2)
    <3> DEFINE q == r \div 2
    <3>1. q \in 0 .. Visible - 1
      BY Geometry
    <3>2. IF q < Phase THEN age[r] = Phase - 1 - q ELSE age[r] <= Phase + Lines - 1 - q
      <4>1. IF q < Phase THEN age[r] = Phase - 1 - q
            ELSE scanline >= skew /\ cut = FALSE => age[r] <= Phase + Lines - 1 - q
        BY <2>0 DEF RowOK
      <4>2. scanline >= skew /\ cut = FALSE
        BY <2>1, <2>3, Geometry
      <4> HIDE DEF q
      <4> QED
        BY <4>1, <4>2, Zenon
    <3>3. age'[r] = IF q = Phase THEN 0 ELSE IF age[r] = Oldest THEN Oldest ELSE age[r] + 1
      BY <2>3
    <3>4. age[r] \in 0 .. Oldest
      BY <2>1
    <3> HIDE DEF q
    <3>5. age'[r] < Lines /\ (skew = 0 => age'[r] = Lines - 1 - q)
      <4>1. CASE q < Phase
        <5>1. age'[r] = Phase - q
          BY <2>0, <3>1, <3>2, <3>3, <3>4, <4>1, Geometry DEF Oldest
        <5> QED
          BY <2>1, <2>3, <3>1, <4>1, <5>1, Geometry
      <4>2. CASE q = Phase
        <5>1. age'[r] = 0
          BY <3>3, <4>2
        <5> QED
          BY <2>1, <2>3, <3>1, <4>2, <5>1, Geometry
      <4>3. CASE q > Phase
        <5>1. age[r] <= Phase + Lines - 1 - q /\ age'[r] <= age[r] + 1 /\ age'[r] \in Int
          BY <2>0, <3>1, <3>2, <3>3, <3>4, <4>3, Geometry DEF Oldest
        <5> QED
          BY <2>1, <2>3, <3>1, <3>4, <4>3, <5>1, Geometry
      <4> QED
        BY <2>0, <3>1, <4>1, <4>2, <4>3
    <3> QED
      BY <3>5 DEF q
  <2>5. ASSUME skew = 0, NEW r \in 0 .. Rows - 1, NEW q \in 0 .. Rows - 1, r < q
        PROVE  age'[q] <= age'[r]
    <3>1. age'[q] = Lines - 1 - (q \div 2) /\ age'[r] = Lines - 1 - (r \div 2)
      BY <2>4, <2>5
    <3>2. r \div 2 <= q \div 2
      BY <2>5, Geometry
    <3> QED
      BY <3>1, <3>2, Geometry
  <2> QED
    BY <2>1, <2>4, <2>5
<1> QED
  BY <1>1, ScanRows, PTL DEF ScanSpec, RowsFresh

-----------------------------------------------------------------------------
(***************************************************************************)
(* The rate of the scanlines.  Between two wraps lead is the distance from  *)
(* cyc to next, less a scanline.  When next has wrapped and cyc has not,    *)
(* every instruction brings a scanline, and there is only a scanline's time *)
(* left for instructions until cyc wraps too.                               *)
(***************************************************************************)
Early == Period * (1 + Period \div Cheapest)

LEMMA CostsAre ==
  /\ Period \in Nat /\ Dearest \in Nat \ {0} /\ Cheapest \in Nat \ {0} /\ Dearest < Period
  /\ \A c \in Costs : c \in Nat /\ Cheapest <= c /\ c <= Dearest
<1>1. Dearest \in Costs /\ \A c \in Costs : c <= Dearest
  BY CostsAssumption DEF Dearest
<1>2. Cheapest \in Costs /\ \A c \in Costs : Cheapest <= c
  BY CostsAssumption DEF Cheapest
<1> QED
  BY <1>1, <1>2, CostsAssumption

LEMMA WrapIs == /\ Wrap \in Nat /\ Period \in Nat /\ Period * Period \in Nat
                /\ Wrap > Period * Period + 3 * Period
<1>1. Period \in Nat /\ Period * (Period + 3) = Period * Period + 3 * Period
  BY CostsAssumption
<1> QED
  BY <1>1, WrapAssumption

LEMMA EarlyIs == Early \in Nat /\ Early >= Period
<1> DEFINE q == Period \div Cheapest
<1>1. q \in Nat /\ Period \in Nat
  BY CostsAre
<1> HIDE DEF q
<1>2. Period * (1 + q) = Period + Period * q /\ Period * q \in Nat
  BY <1>1
<1> QED
  BY <1>1, <1>2 DEF Early, q

\* A burst of j scanlines, each after an instruction.
LEMMA Bursts ==
  ASSUME NEW j \in Nat, j * Cheapest <= Period - 2
  PROVE  /\ j * Period \in Nat /\ (j + 1) * Period = j * Period + Period
         /\ j * Cheapest \in Nat /\ (j + 1) * Cheapest = j * Cheapest + Cheapest
         /\ j * Period + 2 * Period <= Period * Period
         /\ j * Period + Period <= Early
<1> DEFINE q == Period \div Cheapest
<1>0. Period \in Nat /\ Cheapest \in Nat \ {0}
  BY CostsAre
<1>1. /\ j * Period \in Nat /\ (j + 1) * Period = j * Period + Period
      /\ j * Cheapest \in Nat /\ (j + 1) * Cheapest = j * Cheapest + Cheapest
  BY <1>0
<1>2. j <= j * Cheapest
  BY <1>0
<1>3. j * Period + 2 * Period <= Period * Period
  <2>1. j + 2 <= Period
    BY <1>0, <1>1, <1>2
  <2>2. (j + 2) * Period <= Period * Period
    BY <1>0, <2>1
  <2>3. (j + 2) * Period = j * Period + 2 * Period
    BY <1>0
  <2> QED
    BY <2>2, <2>3
<1>4. q \in Nat /\ Period < (q + 1) * Cheapest
  BY <1>0
<1> HIDE DEF q
<1>5. j <= q
  <2> SUFFICES ASSUME j >= q + 1 PROVE FALSE
    BY <1>4
  <2>1. j * Cheapest >= (q + 1) * Cheapest
    BY <1>0, <1>4
  <2> QED
    BY <1>0, <1>1, <1>4, <2>1
<1>6. Period * (1 + q) >= Period * (1 + j)
  BY <1>0, <1>4, <1>5
<1>7. Period * (1 + j) = j * Period + Period
  BY <1>0
<1>8. Early = Period * (1 + q)
  BY DEF Early, q
<1> QED
  BY <1>1, <1>3, <1>6, <1>7, <1>8

SameLap == /\ lead = next - cyc - Period
           /\ cyc <= IF due = TRUE THEN next + Dearest - Period ELSE next + Dearest

\* next has gone j scanlines on since it wrapped.
Burst(j) ==
  /\ next <= Period - 1 + j * Period
  /\ cyc > Wrap - Period + (IF due = TRUE THEN j * Cheapest ELSE j * Cheapest + Cheapest)

Ahead == lead = next + Wrap - cyc - Period /\ \E j \in Nat : Burst(j)

RateOK ==
  /\ due \in BOOLEAN /\ missed \in BOOLEAN
  /\ cyc \in 0 .. Wrap - 1 /\ next \in 0 .. Wrap - 1 /\ lead \in Int
  /\ missed = FALSE => lead <= Early /\ (SameLap \/ Ahead)

\* Addition of less than a lap.
LEMMA Wraps ==
  ASSUME NEW x \in 0 .. Wrap - 1, NEW y \in 0 .. Period
  PROVE  (x + y) % Wrap = IF x + y < Wrap THEN x + y ELSE x + y - Wrap
<1>1. Wrap \in Nat \ {0} /\ x + y \in Int /\ 0 <= x + y /\ x + y < 2 * Wrap
  BY WrapIs
<1> PICK z \in Int : z = x + y
  BY <1>1
<1>2. z \in Int /\ 0 <= z /\ z < 2 * Wrap /\ Wrap \in Nat \ {0}
  BY <1>1
<1>3. /\ 0 <= z /\ z < Wrap => z % Wrap = z
      /\ Wrap <= z /\ z < 2 * Wrap => z % Wrap = z - Wrap
  BY <1>2, Remainder
<1>4. z % Wrap = IF z < Wrap THEN z ELSE z - Wrap
  BY <1>2, <1>3
<1> QED
  BY <1>1, <1>2, <1>4

LEMMA InitRate == ScanInit => RateOK
<1> SUFFICES ASSUME ScanInit PROVE RateOK
  OBVIOUS
<1>1. due = FALSE /\ missed = FALSE /\ cyc = 0 /\ next = Period /\ lead = 0
  BY DEF ScanInit
<1>2. cyc \in 0 .. Wrap - 1 /\ next \in 0 .. Wrap - 1 /\ lead \in Int /\ lead <= Early
  BY <1>1, WrapIs, CostsAre, EarlyIs
<1>3. SameLap
  BY <1>1, CostsAre DEF SameLap
<1> QED
  BY <1>1, <1>2, <1>3 DEF RateOK

LEMMA ScanlineRate ==
  ASSUME RateOK, Scanline
  PROVE  RateOK'
<1>0. /\ Wrap \in Nat /\ Period \in Nat /\ Period * Period \in Nat
      /\ Wrap > Period * Period + 3 * Period
      /\ Dearest \in Nat \ {0} /\ Cheapest \in Nat \ {0} /\ Dearest < Period
  BY WrapIs, CostsAre
<1>1. /\ due = FALSE /\ due' = TRUE /\ cyc > next /\ cyc' = cyc /\ missed' = missed
      /\ next' = (next + Period) % Wrap
      /\ lead' = IF missed THEN 0 ELSE lead + Period
  BY DEF RateOK, Scanline, Advance, Due
<1>2. cyc \in 0 .. Wrap - 1 /\ next \in 0 .. Wrap - 1 /\ lead \in Int /\ missed \in BOOLEAN
  BY DEF RateOK
<1>3. next' = IF next + Period < Wrap THEN next + Period ELSE next + Period - Wrap
  <2>1. Period \in 0 .. Period
    BY <1>0
  <2>2. (next + Period) % Wrap = IF next + Period < Wrap THEN next + Period ELSE next + Period - Wrap
    BY <1>2, <2>1, Wraps
  <2> QED
    BY <1>1, <2>2
<1>4. /\ due' \in BOOLEAN /\ missed' \in BOOLEAN
      /\ cyc' \in 0 .. Wrap - 1 /\ next' \in 0 .. Wrap - 1 /\ lead' \in Int
  <2>1. next' \in 0 .. Wrap - 1
    BY <1>0, <1>2, <1>3
  <2>2. lead' \in Int
    BY <1>0, <1>1, <1>2
  <2> QED
    BY <1>1, <1>2, <2>1, <2>2
<1>5. ASSUME missed' = FALSE
      PROVE  lead' <= Early /\ (SameLap' \/ Ahead')
  <2>1. missed = FALSE /\ lead' = lead + Period /\ (SameLap \/ Ahead)
    BY <1>1, <1>5 DEF RateOK
  <2>2. CASE SameLap /\ next + Period < Wrap
    <3>1. lead = next - cyc - Period /\ cyc <= next + Dearest
      BY <1>1, <2>2 DEF SameLap
    <3>2. next' = next + Period
      BY <1>3, <2>2
    <3>3. lead' = next' - cyc' - Period /\ cyc' <= next' + Dearest - Period
      BY <1>0, <1>1, <1>2, <2>1, <3>1, <3>2
    <3>4. lead' <= Early
      BY <1>0, <1>1, <1>2, <2>1, <3>1, EarlyIs
    <3> QED
      BY <1>1, <3>3, <3>4 DEF SameLap
  <2>3. CASE SameLap /\ ~ next + Period < Wrap
    <3>1. lead = next - cyc - Period
      BY <2>3 DEF SameLap
    <3>2. next' = next + Period - Wrap
      BY <1>3, <2>3
    <3>3. lead' = next' + Wrap - cyc' - Period
      BY <1>0, <1>1, <1>2, <2>1, <3>1, <3>2
    <3>4. lead' <= Early
      BY <1>0, <1>1, <1>2, <2>1, <3>1, EarlyIs
    <3>5. Burst(0)'
      <4>1. next' <= Period - 1 /\ cyc' > Wrap - Period
        BY <1>0, <1>1, <1>2, <2>3, <3>2
      <4>2. Period - 1 + 0 * Period = Period - 1 /\ Wrap - Period + 0 * Cheapest = Wrap - Period
        BY <1>0
      <4> QED
        BY <1>1, <4>1, <4>2 DEF Burst
    <3>6. 0 \in Nat
      OBVIOUS
    <3> QED
      BY <3>3, <3>4, <3>5, <3>6 DEF Ahead
  <2>4. CASE Ahead
    <3>1. PICK j \in Nat : Burst(j)
      BY <2>4 DEF Ahead
    <3>2. /\ next <= Period - 1 + j * Period
          /\ cyc > Wrap - Period + (j * Cheapest + Cheapest)
          /\ lead = next + Wrap - cyc - Period
      BY <1>1, <2>4, <3>1 DEF Burst, Ahead
    <3> DEFINE k == j + 1
               goneP == j * Period
               goneC == j * Cheapest
    <3>3. k \in Nat /\ goneP \in Int /\ goneC \in Int /\ k * Period = goneP + Period
          /\ k * Cheapest = goneC + Cheapest
      BY <1>0
    <3>4. k * Cheapest <= Period - 2
      <4> HIDE DEF k
      <4>1. cyc > Wrap - Period + (goneC + Cheapest)
        BY <3>2
      <4> HIDE DEF goneC
      <4> QED
        BY <1>0, <1>2, <3>3, <4>1
    <3>5. k * Period + 2 * Period <= Period * Period /\ k * Period + Period <= Early
      <4> HIDE DEF k
      <4> QED
        BY <3>3, <3>4, Bursts
    <3>6. next <= Period - 1 + goneP /\ cyc > Wrap - Period + (goneC + Cheapest)
      BY <3>2
    <3> HIDE DEF k, goneP, goneC
    <3>7. next' = next + Period
      BY <1>0, <1>2, <1>3, <3>3, <3>5, <3>6
    <3>8. next' <= Period - 1 + k * Period /\ cyc' > Wrap - Period + k * Cheapest
      BY <1>0, <1>1, <1>2, <3>3, <3>6, <3>7
    <3>9. lead' = next' + Wrap - cyc' - Period
      BY <1>0, <1>1, <1>2, <2>1, <3>2, <3>7
    <3>10. cyc' >= Wrap - Period + 1
      BY <1>0, <1>1, <1>2, <3>3, <3>4, <3>6
    <3>11. lead' <= Early
      BY <1>0, <1>1, <1>2, <1>4, <3>3, <3>5, <3>8, <3>9, <3>10, EarlyIs
    <3>12. Burst(k)'
      BY <1>1, <3>8 DEF Burst
    <3> QED
      BY <3>3, <3>9, <3>11, <3>12 DEF Ahead
  <2> QED
    BY <2>1, <2>2, <2>3, <2>4
<1> QED
  BY <1>4, <1>5 DEF RateOK

LEMMA ResetRate ==
  ASSUME RateOK, ResetScanline
  PROVE  RateOK'
<1>0. /\ Wrap \in Nat /\ Period \in Nat /\ Period * Period \in Nat
      /\ Wrap > Period * Period + 3 * Period /\ Dearest \in Nat \ {0} /\ Dearest < Period
  BY WrapIs, CostsAre
<1>1. /\ due' = TRUE /\ cyc' = 0 /\ missed' = FALSE /\ lead' = Period
      /\ next' = (Period + Period) % Wrap
  BY DEF ResetScanline, Advance, Due
<1>2. next' = Period + Period
  <2>1. Period \in 0 .. Period /\ Period \in 0 .. Wrap - 1 /\ Period + Period < Wrap
    BY <1>0
  <2> QED
    BY <1>1, <2>1, Wraps
<1>3. cyc' \in 0 .. Wrap - 1 /\ next' \in 0 .. Wrap - 1 /\ lead' \in Int /\ lead' <= Early
  BY <1>0, <1>1, <1>2, EarlyIs
<1>4. SameLap'
  <2>1. lead' = next' - cyc' - Period /\ cyc' <= next' + Dearest - Period
    BY <1>0, <1>1, <1>2
  <2> QED
    BY <1>1, <2>1 DEF SameLap
<1> QED
  BY <1>1, <1>3, <1>4 DEF RateOK

LEMMA StepRate ==
  ASSUME RateOK, z80_step
  PROVE  RateOK'
<1>0. /\ Wrap \in Nat /\ Period \in Nat /\ Period * Period \in Nat
      /\ Wrap > Period * Period + 3 * Period
      /\ Dearest \in Nat \ {0} /\ Cheapest \in Nat \ {0} /\ Dearest < Period
  BY WrapIs, CostsAre
<1>1. PICK c \in Costs : /\ cyc' = (cyc + c) % Wrap
                        /\ missed' = (missed \/ Misses(c))
                        /\ lead' = IF missed' THEN 0 ELSE lead - c
  BY DEF z80_step
<1>2. due' = FALSE /\ next' = next /\ (due = TRUE \/ ~ cyc > next)
  BY DEF z80_step, RateOK
<1>3. /\ cyc \in 0 .. Wrap - 1 /\ next \in 0 .. Wrap - 1 /\ lead \in Int
      /\ missed \in BOOLEAN /\ due \in BOOLEAN
  BY DEF RateOK
<1>4. c \in Nat /\ Cheapest <= c /\ c <= Dearest
  BY CostsAre
<1>5. cyc' = IF cyc + c < Wrap THEN cyc + c ELSE cyc + c - Wrap
  <2>1. c \in 0 .. Period
    BY <1>0, <1>4
  <2> QED
    BY <1>1, <1>3, <2>1, Wraps
<1>6. missed' \in BOOLEAN
  BY <1>1, <1>3 DEF Misses
<1>7. cyc' \in 0 .. Wrap - 1 /\ lead' \in Int
  <2>1. cyc' \in 0 .. Wrap - 1
    BY <1>0, <1>3, <1>4, <1>5
  <2>2. lead' \in Int
    BY <1>1, <1>3, <1>4
  <2> QED
    BY <2>1, <2>2
<1>8. ASSUME missed' = FALSE
      PROVE  lead' <= Early /\ (SameLap' \/ Ahead')
  <2>1. missed = FALSE /\ ~ Misses(c)
    BY <1>1, <1>3, <1>8
  <2>2. lead' = lead - c /\ lead <= Early /\ (SameLap \/ Ahead)
    BY <1>1, <1>8, <2>1 DEF RateOK
  <2>3. cyc + c < Wrap \/ next + Period < Wrap
    BY <1>0, <1>3, <1>4, <2>1 DEF Misses
  <2>4. lead' <= Early
    BY <1>3, <1>4, <2>2, EarlyIs
  <2>5. CASE SameLap
    <3>1. lead = next - cyc - Period
      BY <2>5 DEF SameLap
    <3>2. cyc <= next \/ cyc <= next + Dearest - Period
      BY <1>2, <1>3, <2>5 DEF SameLap
    <3>3. cyc <= next
      BY <1>0, <1>3, <3>2
    <3>4. cyc + c < Wrap
      BY <1>0, <1>3, <1>4, <2>3, <3>3
    <3>5. lead' = next' - cyc' - Period /\ cyc' <= next' + Dearest
      BY <1>0, <1>2, <1>3, <1>4, <1>5, <2>2, <3>1, <3>3, <3>4
    <3>6. SameLap'
      BY <1>2, <3>5 DEF SameLap
    <3> QED
      BY <2>4, <3>6
  <2>6. CASE Ahead /\ ~ cyc + c < Wrap
    <3>1. lead = next + Wrap - cyc - Period
      BY <2>6 DEF Ahead
    <3>2. lead' = next' - cyc' - Period /\ cyc' <= next' + Dearest
      BY <1>0, <1>2, <1>3, <1>4, <1>5, <2>2, <2>6, <3>1
    <3>3. SameLap'
      BY <1>2, <3>2 DEF SameLap
    <3> QED
      BY <2>4, <3>3
  <2>7. CASE Ahead /\ cyc + c < Wrap
    <3>1. PICK j \in Nat : Burst(j)
      BY <2>7 DEF Ahead
    <3> DEFINE goneP == j * Period
               goneC == j * Cheapest
    <3>2. goneP \in Int /\ goneC \in Int
      BY <1>0
    <3>3. next <= Period - 1 + goneP /\ lead = next + Wrap - cyc - Period
      BY <2>7, <3>1 DEF Burst, Ahead
    <3>4. cyc > Wrap - Period + (IF due = TRUE THEN goneC ELSE goneC + Cheapest)
      BY <3>1 DEF Burst
    <3> HIDE DEF goneP, goneC
    <3>5. cyc' > Wrap - Period + (goneC + Cheapest)
      BY <1>0, <1>3, <1>4, <1>5, <2>7, <3>2, <3>4
    <3>6. lead' = next' + Wrap - cyc' - Period
      BY <1>0, <1>2, <1>3, <1>4, <1>5, <2>2, <2>7, <3>3
    <3>7. Burst(j)'
      BY <1>2, <3>3, <3>5 DEF Burst, goneP, goneC
    <3> QED
      BY <2>4, <3>6, <3>7 DEF Ahead
  <2> QED
    BY <2>2, <2>5, <2>6, <2>7
<1> QED
  BY <1>2, <1>3, <1>6, <1>7, <1>8 DEF RateOK

LEMMA NextRate == RateOK /\ [ScanNext]_scanVars => RateOK'
<1> SUFFICES ASSUME RateOK, [ScanNext]_scanVars PROVE RateOK'
  OBVIOUS
<1>1. CASE UNCHANGED scanVars
  BY <1>1 DEF scanVars, RateOK, SameLap, Ahead, Burst
<1> QED
  BY <1>1, ScanlineRate, ResetRate, StepRate DEF ScanNext

LEMMA Rate == ScanSpec => []RateOK
  BY InitRate, NextRate, PTL DEF ScanSpec

\* The scanlines keep up with the CPU whatever its instructions take and wherever its
\* count of cycles wraps, until it wraps within an instruction of a scanline.
THEOREM ScanlinesKeepUp == ScanSpec => []LineRate
<1>1. RateOK => LineRate
  <2> SUFFICES ASSUME RateOK, ~ missed
      PROVE  lead \in -(Period + Dearest) .. Period * (1 + Period \div Cheapest)
    BY DEF LineRate
  <2>0. /\ Wrap \in Nat /\ Period \in Nat /\ Dearest \in Nat \ {0} /\ Cheapest \in Nat \ {0}
        /\ Dearest < Period /\ Early \in Nat
    BY WrapIs, CostsAre, EarlyIs
  <2>1. /\ cyc \in 0 .. Wrap - 1 /\ next \in 0 .. Wrap - 1 /\ lead \in Int
        /\ lead <= Early /\ (SameLap \/ Ahead)
    BY DEF RateOK
  <2>2. lead >= -(Period + Dearest)
    <3>1. CASE SameLap
      <4>1. lead = next - cyc - Period /\ (cyc <= next + Dearest - Period \/ cyc <= next + Dearest)
        BY <3>1 DEF SameLap
      <4> QED
        BY <2>0, <2>1, <4>1
    <3>2. CASE Ahead
      <4>1. lead = next + Wrap - cyc - Period
        BY <3>2 DEF Ahead
      <4> QED
        BY <2>0, <2>1, <4>1
    <3> QED
      BY <2>1, <3>1, <3>2
  <2>3. lead \in -(Period + Dearest) .. Early
    BY <2>0, <2>1, <2>2
  <2> QED
    BY <2>3 DEF Early
<1> QED
  BY <1>1, Rate, PTL

\* The counters of the loop and the bridge stay in their ranges.
THEOREM ScanTypeCorrect == ScanSpec => []ScanTypeOK
<1>1. RowsOK /\ RateOK => ScanTypeOK
  <2> SUFFICES ASSUME RowsOK, RateOK PROVE ScanTypeOK
    OBVIOUS
  <2>1. FrameOK /\ Phase \in 0 .. Lines - 1
    BY PhaseBounds DEF RowsOK
  <2>2. line \in 0 .. Lines * per - 1
    <3>1. (per = 1 \/ per = 2) /\ line = per * Phase
      BY <2>1 DEF FrameOK
    <3> HIDE DEF Phase
    <3> QED
      BY <2>1, <3>1, Geometry
  <2>3. {due, missed, cut} \subseteq BOOLEAN
    BY <2>1 DEF FrameOK, RateOK
  <2>4. /\ cyc \in 0 .. Wrap - 1 /\ next \in 0 .. Wrap - 1 /\ lead \in Int
        /\ scanline \in 0 .. Lines - 1 /\ skew \in 0 .. Lines - 1 /\ per \in {1, 2}
        /\ age \in [0 .. Rows - 1 -> 0 .. Oldest]
    BY <2>1 DEF FrameOK, RateOK, Ages
  <2> QED
    BY <2>2, <2>3, <2>4 DEF ScanTypeOK
<1> QED
  BY <1>1, Rate, ScanRows, PTL
=============================================================================
