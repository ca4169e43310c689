----------------------------- MODULE Cpu_proofs -----------------------------
(***************************************************************************)
(* Proofs about the CPU.  Pacing, the pace it is held to: for every length  *)
(* of a scanline and of a second that SecondAssumption allows.  Z80Alu,     *)
(* what its arithmetic computes: for all bytes, words and carries.  Z80,    *)
(* its stack and memory: for every guest program that keeps the discipline  *)
(* GuestAssumption asks of it, every memory, and interrupts at any time.    *)
(***************************************************************************)
EXTENDS Pacing, Guest, TLAPS

-----------------------------------------------------------------------------
(* The pace. *)

(***************************************************************************)
(* The inductive invariant.  next_fire - Tick is when next_fire was set;   *)
(* the clock is age later, less the second it has fallen back.             *)
(***************************************************************************)
ClockTypes == /\ tv_nsec \in 0 .. Second - 1 /\ next_fire \in Tick .. Second - 1 + Tick
              /\ age \in 0 .. Second /\ rolled \in BOOLEAN
SetAt == next_fire - Tick
Follows == /\ ~ rolled => tv_nsec = SetAt + age
           /\ rolled /\ age < Second => tv_nsec = SetAt + age - Second
ClockOK == ClockTypes /\ Follows

HccaOK == /\ hcca_recent \in 0 .. Window /\ quiet \in 0 .. Window
          /\ hcca_dry \in BOOLEAN /\ hcca_recent = Window - quiet
RestOK == /\ pc \in {"cpu", "poll"} /\ unthrottled \in BOOLEAN
          /\ rx \in 0 .. MaxRx /\ waiting \in BOOLEAN
LastOK == last \in Calls
\* A throttled machine sets next_fire in every line and when F8 throttles it.
GapOK == gap \in 0 .. Second /\ (~ unthrottled => age <= gap)
IInv == ClockOK /\ HccaOK /\ RestOK /\ LastOK /\ GapOK

LEMMA InitIInv == Init => IInv
<1> SUFFICES ASSUME Init PROVE IInv
  OBVIOUS
<1>1. ClockOK
  <2>1. tv_nsec \in 0 .. Second - 1 /\ next_fire = tv_nsec + Tick /\ age = 0 /\ rolled = FALSE
    BY DEF Init
  <2>2. rolled \in BOOLEAN
    BY <2>1
  <2>3. /\ next_fire \in Tick .. Second - 1 + Tick /\ age \in 0 .. Second
        /\ tv_nsec = next_fire - Tick + age
    BY <2>1, TickAssumption
  <2>4. Follows
    BY <2>1, <2>3 DEF Follows, SetAt
  <2> QED
    BY <2>1, <2>2, <2>3, <2>4 DEF ClockOK, ClockTypes
<1>2. HccaOK /\ RestOK
  <2>1. hcca_dry \in BOOLEAN /\ unthrottled \in BOOLEAN /\ waiting \in BOOLEAN
    BY DEF Init
  <2>2. /\ hcca_recent \in 0 .. Window /\ quiet \in 0 .. Window /\ rx \in 0 .. MaxRx
        /\ hcca_recent = Window - quiet
    BY WindowAssumption DEF Init
  <2>3. pc \in {"cpu", "poll"}
    BY DEF Init
  <2> QED
    BY <2>1, <2>2, <2>3 DEF HccaOK, RestOK
<1>3. LastOK /\ GapOK
  <2>1. 0 \in 0 .. Second /\ 0 \in 0 .. Second - 1
    BY TickAssumption, SecondAssumption
  <2> QED
    BY <2>1 DEF Init, Calls, LastOK, GapOK
<1> QED
  BY <1>1, <1>2, <1>3 DEF IInv

\* Setting next_fire t nanoseconds into the second makes the clock follow it.
LEMMA Arming ==
  ASSUME NEW t \in 0 .. Second - 1, NEW d \in 0 .. Second - 1, Armed(t, d)
  PROVE  ClockOK'
<1>1. next_fire' = t + Tick /\ age' = d /\ tv_nsec' = Later(t, d)
  BY DEF Armed
<1>2. /\ next_fire' \in Tick .. Second - 1 + Tick /\ age' \in 0 .. Second
      /\ tv_nsec' \in 0 .. Second - 1
  BY <1>1, TickAssumption DEF Later
<1>3. rolled' \in BOOLEAN
  BY DEF Armed
<1>4. ASSUME rolled' PROVE tv_nsec' = SetAt' + age' - Second
  <2>1. t + d >= Second
    BY <1>4 DEF Armed
  <2> QED
    BY <1>1, <2>1, TickAssumption DEF Later, SetAt
<1>5. ASSUME ~ rolled' PROVE tv_nsec' = SetAt' + age'
  <2>1. ~ (t + d >= Second)
    BY <1>5 DEF Armed
  <2> QED
    BY <1>1, <2>1, TickAssumption DEF Later, SetAt
<1>6. Follows'
  BY <1>4, <1>5 DEF Follows
<1> QED
  BY <1>2, <1>3, <1>6 DEF ClockOK, ClockTypes

\* Time that goes by.
LEMMA Ages ==
  ASSUME IInv, NEW d \in 0 .. MaxWork, LineDone(d)
  PROVE  ClockOK'
<1>1. /\ tv_nsec' = Later(tv_nsec, d) /\ age' = Least(age + d, Second)
      /\ rolled' = (rolled \/ tv_nsec + d >= Second) /\ next_fire' = next_fire
  BY DEF LineDone
<1>2. /\ tv_nsec \in 0 .. Second - 1 /\ next_fire \in Tick .. Second - 1 + Tick
      /\ age \in 0 .. Second /\ rolled \in BOOLEAN /\ Follows
  BY DEF IInv, ClockOK, ClockTypes
<1>3. rolled' \in BOOLEAN
  BY <1>1, <1>2
<1>4. /\ tv_nsec' \in 0 .. Second - 1 /\ age' \in 0 .. Second
      /\ next_fire' \in Tick .. Second - 1 + Tick
  BY <1>1, <1>2, TickAssumption, WorkAssumption DEF Later, Least
<1>5. ASSUME ~ rolled' PROVE tv_nsec' = SetAt' + age'
  <2>1. ~ rolled /\ ~ (tv_nsec + d >= Second)
    BY <1>1, <1>2, <1>5
  <2>2. tv_nsec = SetAt + age
    BY <1>2, <2>1 DEF Follows
  <2> QED
    BY <1>1, <1>2, <2>1, <2>2, TickAssumption DEF SetAt, Least, Later
<1>6. ASSUME rolled', age' < Second PROVE tv_nsec' = SetAt' + age' - Second
  <2>1. rolled \/ tv_nsec + d >= Second
    BY <1>1, <1>2, <1>6
  <2>2. age' = age + d /\ age < Second
    BY <1>1, <1>2, <1>6, TickAssumption DEF Least
  <2>3. ASSUME rolled PROVE tv_nsec' = SetAt' + age' - Second
    <3>1. tv_nsec = SetAt + age - Second
      BY <1>2, <2>2, <2>3 DEF Follows
    <3> QED
      BY <1>1, <1>2, <2>2, <3>1, <1>6, TickAssumption DEF SetAt, Later
  <2>4. ASSUME ~ rolled, tv_nsec + d >= Second PROVE tv_nsec' = SetAt' + age' - Second
    <3>1. tv_nsec = SetAt + age
      BY <1>2, <2>4 DEF Follows
    <3> QED
      BY <1>1, <1>2, <2>2, <2>4, <3>1, TickAssumption DEF SetAt, Later
  <2> QED
    BY <2>1, <2>3, <2>4
<1>7. Follows'
  BY <1>5, <1>6 DEF Follows
<1> QED
  BY <1>3, <1>4, <1>7 DEF ClockOK, ClockTypes

\* A call of throttle that paces: how long it sleeps, and what has gone by then.
LEMMA Sleeping ==
  ASSUME IInv, NEW o \in 0 .. Slack
  PROVE  LET s == IF Sleeps THEN Wanted + o ELSE 0
         IN  /\ s \in 0 .. Second - 1
             /\ s > Tick + Slack => 2 * age > Second
             /\ ~ rolled /\ age > 0 => age + s >= Tick
<1>1. /\ tv_nsec \in 0 .. Second - 1 /\ next_fire \in Tick .. Second - 1 + Tick
      /\ age \in 0 .. Second /\ Follows
  BY DEF IInv, ClockOK, ClockTypes
<1>2. CASE Sleeps
  <2>1. Wanted >= 0 /\ tv_nsec + Tick > Wanted /\ Wanted = next_fire - tv_nsec
    BY <1>2 DEF Sleeps, Wanted
  <2>2. Wanted + o \in 0 .. Second - 1
    BY <1>1, <2>1, TickAssumption, SecondAssumption
  <2>3. ASSUME Wanted + o > Tick + Slack PROVE 2 * age > Second
    <3>1. CASE ~ rolled
      BY <1>1, <2>1, <2>3, <3>1, TickAssumption, SecondAssumption DEF Follows, SetAt
    <3>2. CASE rolled
      BY <1>1, <2>1, <2>3, <3>2, TickAssumption, SecondAssumption DEF Follows, SetAt
    <3> QED
      BY <3>1, <3>2
  <2>4. ASSUME ~ rolled PROVE age + Wanted = Tick
    BY <1>1, <2>1, <2>4, TickAssumption DEF Follows, SetAt
  <2>5. ~ rolled => age + (Wanted + o) >= Tick
    BY <1>1, <2>1, <2>4
  <2> QED
    BY <1>2, <2>2, <2>3, <2>5
<1>3. CASE ~ Sleeps
  <2>1. ASSUME ~ rolled, age > 0 PROVE age >= Tick
    <3>1. tv_nsec = SetAt + age
      BY <1>1, <2>1 DEF Follows
    <3>2. Wanted < 0 \/ tv_nsec + Tick <= Wanted
      BY <1>1, <1>3, TickAssumption DEF Sleeps, Wanted
    <3> QED
      BY <1>1, <2>1, <3>1, <3>2, TickAssumption DEF Wanted, SetAt
  <2> QED
    BY <1>1, <1>3, <2>1, TickAssumption, SecondAssumption
<1> QED
  BY <1>2, <1>3

LEMMA Throttles ==
  ASSUME IInv, throttle
  PROVE  IInv'
<1>1. HccaOK' /\ RestOK'
  BY DEF throttle, IInv, HccaOK, RestOK, hccaVars
<1>2. ASSUME ~ Paces, UNCHANGED clockVars, gap' = 0,
             last' = [paced |-> FALSE, slept |-> 0]
      PROVE  IInv'
  <2>1. ClockOK'
    BY <1>2 DEF IInv, ClockOK, ClockTypes, Follows, SetAt, clockVars
  <2>2. unthrottled' /\ 0 \in 0 .. Second /\ 0 \in 0 .. Second - 1
    BY <1>2, TickAssumption, SecondAssumption DEF Paces, throttle
  <2>3. LastOK' /\ GapOK'
    BY <1>2, <2>2 DEF LastOK, GapOK, Calls
  <2> QED
    BY <1>1, <2>1, <2>3 DEF IInv
<1>3. ASSUME NEW s \in 0 .. Second - 1, Armed(tv_nsec, s), gap' = s,
             last' = [paced |-> TRUE, slept |-> s]
      PROVE  IInv'
  <2>1. ClockOK'
    BY <1>3, Arming DEF IInv, ClockOK, ClockTypes
  <2>2. age' = s /\ s \in 0 .. Second /\ s <= s
    BY <1>3, TickAssumption DEF Armed
  <2>3. LastOK' /\ GapOK'
    BY <1>3, <2>2 DEF LastOK, GapOK, Calls
  <2> QED
    BY <1>1, <2>1, <2>3 DEF IInv
<1>4. ASSUME Paces, NEW o \in 0 .. Slack,
             LET s == IF Sleeps THEN Wanted + o ELSE 0 IN
             /\ Armed(tv_nsec, s) /\ gap' = s
             /\ last' = [paced |-> TRUE, slept |-> s]
      PROVE  IInv'
  <2> DEFINE s == IF Sleeps THEN Wanted + o ELSE 0
  <2>1. s \in 0 .. Second - 1
    BY Sleeping
  <2>2. Armed(tv_nsec, s) /\ gap' = s /\ last' = [paced |-> TRUE, slept |-> s]
    BY <1>4
  <2> HIDE DEF s
  <2> QED
    BY <1>3, <2>1, <2>2
<1> QED
  BY <1>2, <1>4 DEF throttle

LEMMA NextIInv == IInv /\ [Next]_vars => IInv'
<1> SUFFICES ASSUME IInv, [Next]_vars PROVE IInv'
  OBVIOUS
<1> USE DEF IInv
<1>1. ASSUME NEW d \in 0 .. MaxWork, LineDone(d) PROVE IInv'
  <2>1. ClockOK'
    BY <1>1, Ages
  <2>2. HccaOK'
    <3>1. /\ hcca_recent' = Countdown(hcca_recent) /\ hcca_dry' = (rx = 0)
          /\ quiet' = Least(quiet + 1, Window)
      BY <1>1 DEF LineDone
    <3>2. hcca_dry' \in BOOLEAN
      BY <3>1
    <3>3. hcca_recent \in 0 .. Window /\ quiet \in 0 .. Window /\ hcca_recent = Window - quiet
      BY DEF HccaOK
    <3>4. /\ hcca_recent' \in 0 .. Window /\ quiet' \in 0 .. Window
          /\ hcca_recent' = Window - quiet'
      BY <3>1, <3>3, WindowAssumption DEF Countdown, Least
    <3> QED
      BY <3>2, <3>4 DEF HccaOK
  <2>3. RestOK' /\ LastOK'
    BY <1>1 DEF LineDone, RestOK, LastOK
  <2>4. GapOK'
    <3>1. /\ age' = Least(age + d, Second) /\ gap' = Least(gap + d, Second)
          /\ unthrottled' = unthrottled
      BY <1>1 DEF LineDone
    <3>2. age \in 0 .. Second /\ gap \in 0 .. Second
      BY DEF ClockOK, ClockTypes, GapOK
    <3>3. gap' \in 0 .. Second /\ (age <= gap => age' <= gap')
      BY <3>1, <3>2, TickAssumption, WorkAssumption DEF Least
    <3> QED
      BY <3>1, <3>3 DEF GapOK
  <2> QED
    BY <2>1, <2>2, <2>3, <2>4
<1>2. ASSUME F8 \/ F3 PROVE IInv'
  <2>1. HccaOK' /\ LastOK'
    BY <1>2 DEF F8, F3, hccaVars, HccaOK, LastOK
  <2>2. RestOK'
    <3>1. (waiting' = waiting \/ waiting' = FALSE) /\ (rx' = rx \/ rx' = 0) /\ pc' = pc
      BY <1>2 DEF F8, F3
    <3>2. waiting' \in BOOLEAN /\ unthrottled' \in BOOLEAN
      BY <1>2, <3>1 DEF RestOK, F8, F3
    <3>3. rx' \in 0 .. MaxRx
      BY <3>1, WindowAssumption DEF RestOK
    <3> QED
      BY <3>1, <3>2, <3>3 DEF RestOK
  <2>3. ASSUME Armed(tv_nsec, 0) PROVE ClockOK'
    <3>1. tv_nsec \in 0 .. Second - 1 /\ 0 \in 0 .. Second - 1
      BY TickAssumption, SecondAssumption DEF ClockOK, ClockTypes
    <3> QED
      BY <2>3, <3>1, Arming
  <2>4. ASSUME UNCHANGED clockVars PROVE ClockOK'
    BY <2>4 DEF ClockOK, ClockTypes, Follows, SetAt, clockVars
  <2>5. ClockOK'
    BY <1>2, <2>3, <2>4 DEF F8, F3, throttle_resync
  <2>6. GapOK'
    <3>1. gap' = gap /\ gap \in 0 .. Second
      BY <1>2 DEF F8, F3, GapOK
    <3>2. age' = 0 \/ (age' = age /\ unthrottled' = ~ unthrottled /\ ~ unthrottled)
      BY <1>2 DEF F8, F3, throttle_resync, Armed, clockVars
    <3>3. 0 <= gap
      BY <3>1, TickAssumption
    <3> QED
      BY <3>1, <3>2, <3>3 DEF GapOK
  <2> QED
    BY <2>1, <2>2, <2>5, <2>6
<1>3. CASE throttle
  BY <1>3, Throttles
<1>4. ASSUME GuestRead \/ GuestRequest \/ Reply PROVE IInv'
  <2>1. ClockOK'
    <3>1. UNCHANGED clockVars
      BY <1>4 DEF GuestRead, GuestRequest, Reply
    <3> QED
      BY <3>1 DEF clockVars, ClockOK, ClockTypes, Follows, SetAt
  <2>2. LastOK'
    <3>1. UNCHANGED last
      BY <1>4 DEF GuestRead, GuestRequest, Reply
    <3> QED
      BY <3>1 DEF LastOK
  <2>3. HccaOK'
    <3>1. CASE UNCHANGED hccaVars
      BY <3>1 DEF hccaVars, HccaOK
    <3>2. CASE hcca_recent' = Window /\ quiet' = 0 /\ hcca_dry' = hcca_dry
      <4>1. hcca_dry' \in BOOLEAN
        BY <3>2 DEF HccaOK
      <4>2. /\ hcca_recent' \in 0 .. Window /\ quiet' \in 0 .. Window
            /\ hcca_recent' = Window - quiet'
        BY <3>2, WindowAssumption
      <4> QED
        BY <4>1, <4>2 DEF HccaOK
    <3> QED
      BY <1>4, <3>1, <3>2 DEF GuestRead, GuestRequest, Reply
  <2>4. RestOK'
    <3>1. /\ waiting' \in {waiting, TRUE, FALSE} /\ unthrottled' = unthrottled /\ pc' = pc
          /\ rx' = rx \/ (rx > 0 /\ rx' = rx - 1) \/ (rx < MaxRx /\ rx' = rx + 1)
      BY <1>4 DEF GuestRead, GuestRequest, Reply
    <3>2. waiting' \in BOOLEAN /\ unthrottled' \in BOOLEAN
      BY <3>1 DEF RestOK
    <3>3. rx' \in 0 .. MaxRx
      BY <3>1, WindowAssumption DEF RestOK
    <3> QED
      BY <3>1, <3>2, <3>3 DEF RestOK
  <2>5. GapOK'
    BY <1>4 DEF GuestRead, GuestRequest, Reply, clockVars, GapOK
  <2> QED
    BY <2>1, <2>2, <2>3, <2>4, <2>5
<1>5. CASE UNCHANGED vars
  BY <1>5 DEF vars, ClockOK, ClockTypes, Follows, SetAt, HccaOK, RestOK, LastOK, GapOK
<1> QED
  BY <1>1, <1>2, <1>3, <1>4, <1>5 DEF Next

LEMMA Invariant == Spec => []IInv
BY InitIInv, NextIInv, PTL DEF Spec

\* The clock keeps to its second, the countdown to its window.
THEOREM TypeCorrect == Spec => []TypeOK
<1>1. IInv => TypeOK
  BY DEF IInv, ClockOK, ClockTypes, HccaOK, RestOK, LastOK, GapOK, TypeOK
<1> QED
  BY <1>1, Invariant, PTL

\* What a call that paces has slept, and when next_fire was set.
LEMMA PacedCall ==
  ASSUME IInv, throttle, Paces
  PROVE  /\ last'.slept > Tick + Slack => 2 * age > Second
         /\ ~ rolled /\ age > 0 => age + last'.slept >= Tick
<1>1. PICK o \in 0 .. Slack :
        last' = [paced |-> TRUE, slept |-> IF Sleeps THEN Wanted + o ELSE 0]
  BY DEF throttle
<1> DEFINE s == IF Sleeps THEN Wanted + o ELSE 0
<1>2. /\ s > Tick + Slack => 2 * age > Second
      /\ ~ rolled /\ age > 0 => age + s >= Tick
  BY Sleeping
<1>3. last'.slept = s
  BY <1>1
<1> HIDE DEF s
<1> QED
  BY <1>2, <1>3

\* A throttled machine does not mistake the end of a second, or what unpaced
\* lines left in next_fire, for time to sleep away, unless the host lost half a
\* second.
THEOREM SleepIsShort == Spec => SleepsOneLine
<1>1. IInv /\ [Next]_vars =>
        [~ unthrottled /\ throttle /\ last'.slept > Tick + Slack => 2 * gap > Second]_vars
  <2> SUFFICES ASSUME IInv, ~ unthrottled, throttle, last'.slept > Tick + Slack
               PROVE  2 * gap > Second
    OBVIOUS
  <2>1. 2 * age > Second
    BY PacedCall DEF Paces
  <2>2. age <= gap /\ gap \in 0 .. Second /\ age \in 0 .. Second
    BY DEF IInv, GapOK, ClockOK, ClockTypes
  <2> QED
    BY <2>1, <2>2, TickAssumption
<1> QED
  BY <1>1, Invariant, PTL DEF Spec, SleepsOneLine

\* A paced machine takes at least a scanline's time from call to return.
THEOREM NotAhead == Spec => NeverAhead
<1>1. IInv /\ [Next]_vars =>
        [throttle /\ Paces /\ ~ rolled /\ age > 0 => age + last'.slept >= Tick]_vars
  BY PacedCall
<1> QED
  BY <1>1, Invariant, PTL DEF Spec, NeverAhead, TakesItsTime

\* With the throttle off, a guest in the middle of an answer waits in real time;
\* one that asks for nothing, or has a byte waiting, does not.
THEOREM TurboPaces == Spec => TurboWaits
<1>1. IInv /\ [Next]_vars => [PacesWhenDry]_vars
  <2> SUFFICES ASSUME IInv, unthrottled, throttle
               PROVE  /\ hcca_dry /\ quiet < Window => last'.paced
                      /\ ~ hcca_dry \/ (~ waiting /\ quiet = Window) => ~ last'.paced
    BY DEF PacesWhenDry
  <2>1. hcca_recent > 0 <=> quiet < Window
    BY WindowAssumption DEF IInv, HccaOK
  <2>2. Paces <=> hcca_dry /\ quiet < Window
    BY <2>1 DEF Paces
  <2>3. last'.paced <=> Paces
    BY DEF throttle
  <2>4. ~ (quiet = Window /\ quiet < Window)
    BY WindowAssumption
  <2> QED
    BY <2>2, <2>3, <2>4
<1> QED
  BY <1>1, Invariant, PTL DEF Spec, TurboWaits

\* A guest in the middle of an answer is paced, and no paced line runs ahead.
THEOREM PacingKeepsTime == Spec => PacedLinesKeepTime
  BY NotAhead, TurboPaces, PTL DEF NeverAhead, TurboWaits, PacedLinesKeepTime

-----------------------------------------------------------------------------
(* The arithmetic. *)

\* A byte and a word read as numbers in two's complement.
Signed8(v) == IF v >= 128 THEN v - 256 ELSE v
Signed16(v) == IF v >= 32768 THEN v - 65536 ELSE v
Fits8(n) == -128 <= n /\ n <= 127
Fits16(n) == -32768 <= n /\ n <= 32767

\* The carry into the place of weight w is what the exclusive or of the three
\* digits of that place tells.
LEMMA CarryInto ==
  ASSUME NEW a \in Nat, NEW b \in Nat, NEW cy \in 0 .. 1, NEW w \in {16, 128, 256},
         NEW k \in 0 .. 1, k = 1 <=> (a % w) + (b % w) + cy >= w
  PROVE  ((((a + b + cy) \div w) % 2) + ((a \div w) % 2) + ((b \div w) % 2)) % 2 = k
<1>1. (a + b + cy) \div w = (a \div w) + (b \div w) + k
  OBVIOUS
<1>2. ASSUME NEW x \in Nat, NEW y \in Nat
      PROVE  (((x + y + k) % 2) + (x % 2) + (y % 2)) % 2 = k
  OBVIOUS
<1>3. a \div w \in Nat /\ b \div w \in Nat
  OBVIOUS
<1> QED BY <1>1, <1>2, <1>3

LEMMA Places == \A v \in Nat : /\ Bit(v, 4) = (v \div 16) % 2
                               /\ Bit(v, 7) = (v \div 128) % 2
                               /\ Bit(v, 8) = (v \div 256) % 2
BY DEF Bit

LEMMA Carries ==
  ASSUME NEW a \in Byte, NEW b \in Byte, NEW cy \in 0 .. 1
  PROVE /\ \A n \in {4, 7, 8} : carry(n, a, b, cy) \in 0 .. 1
        /\ carry(4, a, b, cy) = 1 <=> (a % 16) + (b % 16) + cy > 15
        /\ carry(7, a, b, cy) = 1 <=> (a % 128) + (b % 128) + cy > 127
        /\ carry(8, a, b, cy) = 1 <=> a + b + cy > 255
<1>0. a \in Nat /\ b \in Nat /\ a + b + cy \in Nat /\ a % 256 = a /\ b % 256 = b
  BY DEF Byte
<1>5. a \in Nat /\ b \in Nat /\ a + b + cy \in Nat
  BY <1>0
<1> DEFINE xor(w) == ((((a + b + cy) \div w) % 2) + ((a \div w) % 2) + ((b \div w) % 2)) % 2
<1>1. ASSUME NEW w \in {16, 128, 256}
      PROVE  xor(w) \in 0 .. 1 /\ (xor(w) = 1 <=> (a % w) + (b % w) + cy >= w)
  <2>1. CASE (a % w) + (b % w) + cy >= w
    <3>1. xor(w) = 1
      BY <1>0, <2>1, CarryInto
    <3> QED BY <2>1, <3>1
  <2>2. CASE ~ ((a % w) + (b % w) + cy >= w)
    <3>1. xor(w) = 0
      BY <1>0, <2>2, CarryInto
    <3> QED BY <2>2, <3>1
  <2> QED BY <2>1, <2>2
<1>2. carry(4, a, b, cy) = xor(16)
  <2>1. /\ Bit(a + b + cy, 4) = ((a + b + cy) \div 16) % 2
        /\ Bit(a, 4) = (a \div 16) % 2 /\ Bit(b, 4) = (b \div 16) % 2
    BY <1>5, Places
  <2> QED BY <2>1 DEF carry
<1>3. carry(7, a, b, cy) = xor(128)
  <2>1. /\ Bit(a + b + cy, 7) = ((a + b + cy) \div 128) % 2
        /\ Bit(a, 7) = (a \div 128) % 2 /\ Bit(b, 7) = (b \div 128) % 2
    BY <1>5, Places
  <2> QED BY <2>1 DEF carry
<1>4. carry(8, a, b, cy) = xor(256)
  <2>1. /\ Bit(a + b + cy, 8) = ((a + b + cy) \div 256) % 2
        /\ Bit(a, 8) = (a \div 256) % 2 /\ Bit(b, 8) = (b \div 256) % 2
    BY <1>5, Places
  <2> QED BY <2>1 DEF carry
<1> HIDE DEF xor
<1> QED BY <1>0, <1>1, <1>2, <1>3, <1>4

\* The byte operation as arithmetic on numbers.
AddsUp(t, a, b, cy) ==
  /\ DOMAIN t = {"val", "f"} /\ t.val \in Byte /\ t.f \in Flags
  /\ t.val + 256 * t.f.c = a + b + cy
  /\ t.f.p = 1 <=> ~ Fits8(Signed8(a) + Signed8(b) + cy)
  /\ t.f.h = 1 <=> (a % 16) + (b % 16) + cy > 15
  /\ t.f.s = 1 <=> t.val >= 128
  /\ t.f.z = 1 <=> t.val = 0

LEMMA FlagsOf ==
  ASSUME NEW s \in 0 .. 1, NEW z \in 0 .. 1, NEW h \in 0 .. 1, NEW p \in 0 .. 1,
         NEW n \in 0 .. 1, NEW c \in 0 .. 1
  PROVE  [s |-> s, z |-> z, h |-> h, p |-> p, n |-> n, c |-> c] \in Flags
BY DEF Flags

\* addb: sum, carry, half carry, signed overflow, sign and zero of every two
\* bytes and carry are those of the numbers (z80.c:248-259).
THEOREM SumOfBytes ==
  ASSUME NEW a \in Byte, NEW b \in Byte, NEW cy \in 0 .. 1
  PROVE  AddsUp(addb(a, b, cy), a, b, cy) /\ addb(a, b, cy).f.n = 0
<1> DEFINE t == addb(a, b, cy)
           r == (a + b + cy) % 256
           over == carry(7, a, b, cy) # carry(8, a, b, cy)
<1>1. /\ DOMAIN t = {"val", "f"} /\ t.val = r
      /\ t.f = [s |-> Bit(r, 7), z |-> Truth(r = 0), h |-> carry(4, a, b, cy),
                p |-> Truth(over), n |-> 0, c |-> carry(8, a, b, cy)]
  BY DEF addb
<1>2. r \in Byte /\ r = IF a + b + cy > 255 THEN a + b + cy - 256 ELSE a + b + cy
  <2>1. \A sum \in 0 .. 511 :
          sum % 256 \in 0 .. 255 /\ sum % 256 = IF sum > 255 THEN sum - 256 ELSE sum
    OBVIOUS
  <2>2. a + b + cy \in 0 .. 511
    BY DEF Byte
  <2> DEFINE sum == a + b + cy
  <2>3. r = sum % 256 /\ sum \in 0 .. 511
    BY <2>2
  <2> HIDE DEF r, sum, t, over
  <2>4. r \in 0 .. 255 /\ r = IF sum > 255 THEN sum - 256 ELSE sum
    BY <2>1, <2>3
  <2> QED BY <2>4 DEF Byte, sum
<1> HIDE DEF r
<1>3. Bit(r, 7) \in 0 .. 1 /\ (Bit(r, 7) = 1 <=> r >= 128)
  BY <1>2 DEF Byte, Bit
<1>4. over <=> ~ Fits8(Signed8(a) + Signed8(b) + cy)
  <2>1. ASSUME NEW v \in Byte
        PROVE  v % 128 = IF v >= 128 THEN v - 128 ELSE v
    BY DEF Byte
  <2>2. over <=> ~ ((a % 128) + (b % 128) + cy > 127 <=> a + b + cy > 255)
    BY Carries
  <2> HIDE DEF over
  <2> QED BY <2>1, <2>2 DEF Signed8, Fits8, Byte
<1> HIDE DEF over
<1>5. Truth(over) \in 0 .. 1 /\ (Truth(over) = 1 <=> over)
  BY DEF Truth
<1>6. Truth(r = 0) \in 0 .. 1 /\ (Truth(r = 0) = 1 <=> r = 0)
  BY DEF Truth
<1>7. t.f \in Flags
  <2>1. carry(4, a, b, cy) \in 0 .. 1 /\ carry(8, a, b, cy) \in 0 .. 1
    BY Carries
  <2> HIDE DEF t
  <2> QED BY <1>1, <1>3, <1>5, <1>6, <2>1, FlagsOf
<1>8. t.val + 256 * t.f.c = a + b + cy
  <2>1. carry(8, a, b, cy) \in 0 .. 1 /\ (carry(8, a, b, cy) = 1 <=> a + b + cy > 255)
    BY Carries
  <2>2. t.f.c = carry(8, a, b, cy)
    BY <1>1
  <2> QED BY <1>1, <1>2, <2>1, <2>2 DEF Byte
<1>9. /\ t.f.s = Bit(r, 7) /\ t.f.z = Truth(r = 0) /\ t.f.h = carry(4, a, b, cy)
      /\ t.f.p = Truth(over) /\ t.f.n = 0
  BY <1>1
<1>10. t.f.h = 1 <=> (a % 16) + (b % 16) + cy > 15
  BY <1>9, Carries
<1> HIDE DEF t
<1> QED BY <1>1, <1>2, <1>3, <1>4, <1>5, <1>6, <1>7, <1>8, <1>9, <1>10 DEF AddsUp, t

TakesAway(t, a, b, cy) ==
  /\ DOMAIN t = {"val", "f"} /\ t.val \in Byte /\ t.f \in Flags
  /\ t.val - 256 * t.f.c = a - b - cy
  /\ t.f.p = 1 <=> ~ Fits8(Signed8(a) - Signed8(b) - cy)
  /\ t.f.h = 1 <=> a % 16 < (b % 16) + cy
  /\ t.f.s = 1 <=> t.val >= 128
  /\ t.f.z = 1 <=> t.val = 0

\* subb: adding the complement with the carry turned, and turning carry and half
\* carry of the result, is subtraction (z80.c:262-268).
THEOREM DifferenceOfBytes ==
  ASSUME NEW a \in Byte, NEW b \in Byte, NEW cy \in 0 .. 1
  PROVE  TakesAway(subb(a, b, cy), a, b, cy) /\ subb(a, b, cy).f.n = 1
<1> DEFINE u == addb(a, 255 - b, 1 - cy)
           t == subb(a, b, cy)
<1>1. 255 - b \in Byte /\ 1 - cy \in 0 .. 1
  BY DEF Byte
<1>2. AddsUp(u, a, 255 - b, 1 - cy)
  BY <1>1, SumOfBytes
<1>3. t = [u EXCEPT !.f.c = 1 - @, !.f.h = 1 - @, !.f.n = 1]
  BY DEF subb
<1>4. DOMAIN u = {"val", "f"}
  BY DEF addb
<1> HIDE DEF u, t
<1>5. /\ DOMAIN t = {"val", "f"} /\ t.val = u.val
      /\ t.f = [[[u.f EXCEPT !.c = 1 - @] EXCEPT !.h = 1 - @] EXCEPT !.n = 1]
  BY <1>3, <1>4
<1>6. u.f \in Flags
  BY <1>2 DEF AddsUp
<1>7. /\ t.f \in Flags /\ t.f.c = 1 - u.f.c /\ t.f.h = 1 - u.f.h /\ t.f.n = 1
      /\ t.f.s = u.f.s /\ t.f.z = u.f.z /\ t.f.p = u.f.p
  <2>1. \A x \in {"s", "z", "h", "p", "n", "c"} : u.f[x] \in 0 .. 1
    BY <1>6 DEF Flags
  <2>2. u.f = [x \in {"s", "z", "h", "p", "n", "c"} |-> u.f[x]]
    BY <1>6 DEF Flags
  <2>3. t.f = [x \in {"s", "z", "h", "p", "n", "c"} |->
                 IF x = "n" THEN 1 ELSE IF x \in {"c", "h"} THEN 1 - u.f[x] ELSE u.f[x]]
    BY <1>5, <2>2
  <2>4. t.f \in Flags
    BY <2>1, <2>3 DEF Flags
  <2> QED BY <2>3, <2>4
<1>8. t.val - 256 * t.f.c = a - b - cy
  <2>1. u.val + 256 * u.f.c = a + (255 - b) + (1 - cy) /\ u.val \in Byte
    BY <1>2 DEF AddsUp
  <2>2. u.f.c \in 0 .. 1
    BY <1>6 DEF Flags
  <2>3. \A v, c, x, y, k \in Int :
          v + 256 * c = x + (255 - y) + (1 - k) => v - 256 * (1 - c) = x - y - k
    OBVIOUS
  <2>4. u.val \in Int /\ a \in Int /\ b \in Int
    BY <2>1 DEF Byte
  <2>5. t.val = u.val /\ t.f.c = 1 - u.f.c
    BY <1>5, <1>7
  <2> QED BY <2>1, <2>2, <2>3, <2>4, <2>5
<1>9. t.f.p = 1 <=> ~ Fits8(Signed8(a) - Signed8(b) - cy)
  <2>1. Signed8(a) + Signed8(255 - b) + (1 - cy) = Signed8(a) - Signed8(b) - cy
    BY DEF Signed8, Byte
  <2>2. u.f.p = 1 <=> ~ Fits8(Signed8(a) + Signed8(255 - b) + (1 - cy))
    BY <1>2 DEF AddsUp
  <2> QED BY <1>7, <2>1, <2>2
<1>10. t.f.h = 1 <=> a % 16 < (b % 16) + cy
  <2>1. u.f.h = 1 <=> (a % 16) + ((255 - b) % 16) + (1 - cy) > 15
    BY <1>2 DEF AddsUp
  <2>2. (255 - b) % 16 = 15 - (b % 16) /\ a % 16 \in 0 .. 15 /\ b % 16 \in 0 .. 15
    BY SMTT(20) DEF Byte
  <2>3. u.f.h \in 0 .. 1
    BY <1>6 DEF Flags
  <2> QED BY <1>7, <2>1, <2>2, <2>3, SMTT(20)
<1>11. (t.f.s = 1 <=> t.val >= 128) /\ (t.f.z = 1 <=> t.val = 0) /\ t.val \in Byte
  BY <1>2, <1>5, <1>7 DEF AddsUp
<1> QED BY <1>5, <1>7, <1>8, <1>9, <1>10, <1>11 DEF TakesAway, t

\* A difference of signed numbers is negative if its sign says so and it did not
\* overflow, or the other way round.
LEMMA SignAndOverflow ==
  ASSUME NEW a \in 0 .. 255, NEW b \in 0 .. 255, NEW v \in 0 .. 255, NEW c \in 0 .. 1,
         v - 256 * c = a - b
  PROVE  Signed8(a) < Signed8(b) <=> ~ (v >= 128 <=> ~ Fits8(Signed8(a) - Signed8(b)))
<1>1. CASE c = 0
  BY <1>1 DEF Signed8, Fits8
<1>2. CASE c = 1
  BY <1>2 DEF Signed8, Fits8
<1> QED BY <1>1, <1>2

\* CP, on signed and on unsigned bytes (z80.c:396-405).
THEOREM CompareOrders ==
  ASSUME NEW a \in Byte, NEW b \in Byte
  PROVE  LET f == cp(a, b).f
         IN  /\ f.c = 1 <=> a < b
             /\ f.z = 1 <=> a = b
             /\ f.s # f.p <=> Signed8(a) < Signed8(b)
             /\ cp(a, b).val = a
<1> DEFINE t == subb(a, b, 0)
<1>1. TakesAway(t, a, b, 0)
  BY DifferenceOfBytes
<1>2. cp(a, b).f = t.f /\ cp(a, b).val = a
  BY DEF cp, subb, addb
<1> HIDE DEF t
<1>3. t.f.c \in 0 .. 1 /\ t.f.s \in 0 .. 1 /\ t.f.p \in 0 .. 1 /\ t.f.z \in 0 .. 1
  BY <1>1 DEF TakesAway, Flags
<1>4. t.val \in 0 .. 255 /\ t.val - 256 * t.f.c = a - b
  BY <1>1, <1>3 DEF TakesAway, Byte
<1>5. t.f.c = 1 <=> a < b
  <2>1. PICK v \in Int, c \in 0 .. 1 : v = t.val /\ c = t.f.c /\ 0 <= v /\ v <= 255
    BY <1>3, <1>4
  <2>2. a \in Int /\ b \in Int /\ 0 <= a /\ a <= 255 /\ 0 <= b /\ b <= 255
    BY DEF Byte
  <2>3. v - 256 * c = a - b
    BY <1>4, <2>1
  <2>4. c = 1 <=> a < b
    BY <2>1, <2>2, <2>3
  <2> QED BY <2>1, <2>4
<1>6. t.f.z = 1 <=> a = b
  BY <1>1, <1>3, <1>4 DEF TakesAway, Byte
<1>7. t.f.s # t.f.p <=> Signed8(a) < Signed8(b)
  <2>1. /\ t.f.s = 1 <=> t.val >= 128
        /\ t.f.p = 1 <=> ~ Fits8(Signed8(a) - Signed8(b))
    BY <1>1 DEF TakesAway, Signed8, Byte
  <2>2. Signed8(a) < Signed8(b) <=> ~ (t.val >= 128 <=> ~ Fits8(Signed8(a) - Signed8(b)))
    <3>1. PICK v \in 0 .. 255, c \in 0 .. 1 : v = t.val /\ c = t.f.c
      BY <1>3, <1>4
    <3>2. a \in 0 .. 255 /\ b \in 0 .. 255
      BY DEF Byte
    <3>3. v - 256 * c = a - b
      BY <1>4, <3>1, Zenon
    <3>4. Signed8(a) < Signed8(b) <=> ~ (v >= 128 <=> ~ Fits8(Signed8(a) - Signed8(b)))
      BY <3>2, <3>3, SignAndOverflow, Zenon
    <3> QED BY <3>1, <3>4, Zenon
  <2> QED BY <1>3, <2>1, <2>2
<1> QED BY <1>2, <1>5, <1>6, <1>7

LEMMA WordIs == Word = {w \in Int : 0 <= w /\ w <= 65535}
<1>1. PICK n \in Int : n = 65535
  OBVIOUS
<1>2. Word = 0 .. n
  BY <1>1, Z3 DEF Word
<1>3. \A w \in Int : w <= 65535 <=> w <= n
  BY <1>1
<1> QED BY <1>2, <1>3

LEMMA Halved ==
  ASSUME NEW w \in Word
  PROVE  /\ w \in Int /\ w \div 256 \in 0 .. 255 /\ w % 256 \in 0 .. 255
         /\ w = 256 * (w \div 256) + (w % 256)
         /\ Signed8(w \div 256) \in Int
         /\ Signed16(w) = 256 * Signed8(w \div 256) + (w % 256)
<1>1. w \in Int /\ 0 <= w /\ w <= 65535
  BY WordIs
<1>2. w \div 256 \in 0 .. 255 /\ w % 256 \in 0 .. 255 /\ w = 256 * (w \div 256) + (w % 256)
  BY <1>1
<1>3. w >= 32768 <=> w \div 256 >= 128
  BY <1>1, <1>2
<1> QED BY <1>1, <1>2, <1>3 DEF Signed8, Signed16

\* Two bytes put together: the flags are those of the high one but for Z.
LEMMA WideIs ==
  ASSUME NEW lo, lo.val \in 0 .. 255,
         NEW hi, hi.val \in 0 .. 255, DOMAIN hi = {"val", "f"}, hi.f \in Flags,
         NEW t, t = Wide(lo, hi)
  PROVE  /\ t.val = 256 * hi.val + lo.val /\ t.val \in Word
         /\ t.f \in Flags /\ t.f.n = hi.f.n
         /\ t.f.c = hi.f.c /\ t.f.p = hi.f.p /\ t.f.s = hi.f.s
         /\ t.f.z = 1 <=> t.val = 0
<1>0. PICK l \in 0 .. 255, h \in 0 .. 255 : l = lo.val /\ h = hi.val
  BY Zenon
<1> DEFINE z == Truth(h = 0 /\ l = 0)
<1>1. t = [[hi EXCEPT !.val = 256 * @ + l] EXCEPT !.f.z = z]
  BY <1>0 DEF Wide
<1>2. z \in 0 .. 1 /\ (z = 1 <=> h = 0 /\ l = 0)
  BY DEF Truth
<1> HIDE DEF z
<1>3. t.val = 256 * h + l /\ t.f = [hi.f EXCEPT !.z = z]
  BY <1>0, <1>1
<1>4. /\ t.f \in Flags /\ t.f.z = z /\ t.f.n = hi.f.n
      /\ t.f.c = hi.f.c /\ t.f.p = hi.f.p /\ t.f.s = hi.f.s
  BY <1>2, <1>3 DEF Flags
<1>5. 256 * h + l \in Word /\ (256 * h + l = 0 <=> h = 0 /\ l = 0)
  BY WordIs
<1> QED BY <1>0, <1>2, <1>3, <1>4, <1>5

\* A word overflows exactly if its high byte does, given the carry of the low one.
LEMMA OverflowAbove ==
  ASSUME NEW n \in Int, NEW v \in 0 .. 255
  PROVE  Fits16(256 * n + v) <=> Fits8(n)
BY DEF Fits16, Fits8

\* addw, behind ADC HL, ADD HL and ADD IX: two byte operations, the second with
\* the carry of the first, add words (z80.c:271-279).
THEOREM SumOfWords ==
  ASSUME NEW a \in Word, NEW b \in Word, NEW cy \in 0 .. 1
  PROVE  LET t == addw(a, b, cy)
         IN  /\ t.val \in Word /\ t.f \in Flags /\ t.f.n = 0
             /\ t.val + 65536 * t.f.c = a + b + cy
             /\ t.f.p = 1 <=> ~ Fits16(Signed16(a) + Signed16(b) + cy)
             /\ t.f.s = 1 <=> t.val >= 32768
             /\ t.f.z = 1 <=> t.val = 0
<1> DEFINE lo == addb(a % 256, b % 256, cy)
           hi == addb(a \div 256, b \div 256, lo.f.c)
           t == addw(a, b, cy)
<1>0. /\ a \div 256 \in Byte /\ a % 256 \in Byte
      /\ b \div 256 \in Byte /\ b % 256 \in Byte
  BY Halved DEF Byte
<1>1. AddsUp(lo, a % 256, b % 256, cy)
  BY <1>0, SumOfBytes
<1>2. lo.f.c \in 0 .. 1
  BY <1>1 DEF AddsUp, Flags
<1>3. AddsUp(hi, a \div 256, b \div 256, lo.f.c) /\ hi.f.n = 0
  BY <1>0, <1>2, SumOfBytes
<1>4. t = Wide(lo, hi)
  BY DEF addw
<1> HIDE DEF lo, hi, t
<1>5. PICK l \in 0 .. 255, h \in 0 .. 255, c \in 0 .. 1, d \in 0 .. 1 :
           l = lo.val /\ h = hi.val /\ c = lo.f.c /\ d = hi.f.c
  <2>1. lo.val \in 0 .. 255 /\ hi.val \in 0 .. 255 /\ lo.f \in Flags /\ hi.f \in Flags
    BY <1>1, <1>3 DEF AddsUp, Byte
  <2>2. hi.f.c \in 0 .. 1
    BY <2>1 DEF Flags
  <2> QED BY <1>2, <2>1, <2>2, Zenon
<1>6. PICK x \in 0 .. 255, y \in 0 .. 255, u \in 0 .. 255, v \in 0 .. 255 :
           x = a \div 256 /\ y = a % 256 /\ u = b \div 256 /\ v = b % 256
  <2>1. /\ a \div 256 \in 0 .. 255 /\ a % 256 \in 0 .. 255
        /\ b \div 256 \in 0 .. 255 /\ b % 256 \in 0 .. 255
    BY Halved
  <2> QED BY <2>1, Zenon
<1>7. /\ t.val = 256 * h + l /\ t.val \in Word
      /\ t.f \in Flags /\ t.f.n = hi.f.n
      /\ t.f.c = hi.f.c /\ t.f.p = hi.f.p /\ t.f.s = hi.f.s
      /\ t.f.z = 1 <=> t.val = 0
  <2>1. /\ lo.val \in 0 .. 255
        /\ hi.val \in 0 .. 255 /\ DOMAIN hi = {"val", "f"} /\ hi.f \in Flags
    BY <1>1, <1>3 DEF AddsUp, Byte
  <2>2. /\ t.val = 256 * hi.val + lo.val /\ t.val \in Word
        /\ t.f \in Flags /\ t.f.n = hi.f.n
        /\ t.f.c = hi.f.c /\ t.f.p = hi.f.p /\ t.f.s = hi.f.s
        /\ t.f.z = 1 <=> t.val = 0
    BY <1>4, <2>1, WideIs
  <2> QED BY <1>5, <2>2
<1>8. l + 256 * c = y + v + cy /\ h + 256 * d = x + u + c
  BY <1>1, <1>3, <1>5, <1>6 DEF AddsUp
<1>9. t.val + 65536 * t.f.c = a + b + cy
  <2>1. a = 256 * x + y /\ b = 256 * u + v
    BY <1>6, Halved
  <2>2. (256 * h + l) + 65536 * d = (256 * x + y) + (256 * u + v) + cy
    BY <1>8
  <2> QED BY <1>5, <1>7, <2>1, <2>2
<1>10. t.f.p = 1 <=> ~ Fits16(Signed16(a) + Signed16(b) + cy)
  <2>1. PICK m \in Int, n \in Int : m = Signed8(x) /\ n = Signed8(u)
    BY DEF Signed8
  <2>2. Signed16(a) = 256 * m + y /\ Signed16(b) = 256 * n + v
    BY <1>6, <2>1, Halved
  <2>3. (256 * m + y) + (256 * n + v) + cy = 256 * (m + n + c) + l
    BY <1>8
  <2>4. Fits16(256 * (m + n + c) + l) <=> Fits8(m + n + c)
    <3>1. m + n + c \in Int
      OBVIOUS
    <3> QED BY <3>1, OverflowAbove, Zenon
  <2>5. hi.f.p = 1 <=> ~ Fits8(m + n + c)
    BY <1>3, <1>5, <1>6, <2>1 DEF AddsUp
  <2> QED BY <1>7, <2>2, <2>3, <2>4, <2>5
<1>11. t.f.s = 1 <=> t.val >= 32768
  <2>1. hi.f.s = 1 <=> h >= 128
    BY <1>3, <1>5 DEF AddsUp
  <2>2. h >= 128 <=> 256 * h + l >= 32768
    OBVIOUS
  <2> QED BY <1>7, <2>1, <2>2
<1> QED BY <1>3, <1>7, <1>9, <1>10, <1>11 DEF t

\* subw, behind SBC HL (z80.c:282-290).
THEOREM DifferenceOfWords ==
  ASSUME NEW a \in Word, NEW b \in Word, NEW cy \in 0 .. 1
  PROVE  LET t == subw(a, b, cy)
         IN  /\ t.val \in Word /\ t.f \in Flags /\ t.f.n = 1
             /\ t.val - 65536 * t.f.c = a - b - cy
             /\ t.f.p = 1 <=> ~ Fits16(Signed16(a) - Signed16(b) - cy)
             /\ t.f.s = 1 <=> t.val >= 32768
             /\ t.f.z = 1 <=> t.val = 0
<1> DEFINE lo == subb(a % 256, b % 256, cy)
           hi == subb(a \div 256, b \div 256, lo.f.c)
           t == subw(a, b, cy)
<1>0. /\ a \div 256 \in Byte /\ a % 256 \in Byte
      /\ b \div 256 \in Byte /\ b % 256 \in Byte
  BY Halved DEF Byte
<1>1. TakesAway(lo, a % 256, b % 256, cy)
  BY <1>0, DifferenceOfBytes
<1>2. lo.f.c \in 0 .. 1
  BY <1>1 DEF TakesAway, Flags
<1>3. TakesAway(hi, a \div 256, b \div 256, lo.f.c) /\ hi.f.n = 1
  BY <1>0, <1>2, DifferenceOfBytes
<1>4. t = Wide(lo, hi)
  BY DEF subw
<1> HIDE DEF lo, hi, t
<1>5. PICK l \in 0 .. 255, h \in 0 .. 255, c \in 0 .. 1, d \in 0 .. 1 :
           l = lo.val /\ h = hi.val /\ c = lo.f.c /\ d = hi.f.c
  <2>1. lo.val \in 0 .. 255 /\ hi.val \in 0 .. 255 /\ lo.f \in Flags /\ hi.f \in Flags
    BY <1>1, <1>3 DEF TakesAway, Byte
  <2>2. hi.f.c \in 0 .. 1
    BY <2>1 DEF Flags
  <2> QED BY <1>2, <2>1, <2>2, Zenon
<1>6. PICK x \in 0 .. 255, y \in 0 .. 255, u \in 0 .. 255, v \in 0 .. 255 :
           x = a \div 256 /\ y = a % 256 /\ u = b \div 256 /\ v = b % 256
  <2>1. /\ a \div 256 \in 0 .. 255 /\ a % 256 \in 0 .. 255
        /\ b \div 256 \in 0 .. 255 /\ b % 256 \in 0 .. 255
    BY Halved
  <2> QED BY <2>1, Zenon
<1>7. /\ t.val = 256 * h + l /\ t.val \in Word
      /\ t.f \in Flags /\ t.f.n = hi.f.n
      /\ t.f.c = hi.f.c /\ t.f.p = hi.f.p /\ t.f.s = hi.f.s
      /\ t.f.z = 1 <=> t.val = 0
  <2>1. /\ lo.val \in 0 .. 255
        /\ hi.val \in 0 .. 255 /\ DOMAIN hi = {"val", "f"} /\ hi.f \in Flags
    BY <1>1, <1>3 DEF TakesAway, Byte
  <2>2. /\ t.val = 256 * hi.val + lo.val /\ t.val \in Word
        /\ t.f \in Flags /\ t.f.n = hi.f.n
        /\ t.f.c = hi.f.c /\ t.f.p = hi.f.p /\ t.f.s = hi.f.s
        /\ t.f.z = 1 <=> t.val = 0
    BY <1>4, <2>1, WideIs
  <2> QED BY <1>5, <2>2
<1>8. l - 256 * c = y - v - cy /\ h - 256 * d = x - u - c
  BY <1>1, <1>3, <1>5, <1>6 DEF TakesAway
<1>9. t.val - 65536 * t.f.c = a - b - cy
  <2>1. a = 256 * x + y /\ b = 256 * u + v
    BY <1>6, Halved
  <2>2. (256 * h + l) - 65536 * d = (256 * x + y) - (256 * u + v) - cy
    BY <1>8
  <2> QED BY <1>5, <1>7, <2>1, <2>2
<1>10. t.f.p = 1 <=> ~ Fits16(Signed16(a) - Signed16(b) - cy)
  <2>1. PICK m \in Int, n \in Int : m = Signed8(x) /\ n = Signed8(u)
    BY DEF Signed8
  <2>2. Signed16(a) = 256 * m + y /\ Signed16(b) = 256 * n + v
    BY <1>6, <2>1, Halved
  <2>3. (256 * m + y) - (256 * n + v) - cy = 256 * (m - n - c) + l
    BY <1>8
  <2>4. Fits16(256 * (m - n - c) + l) <=> Fits8(m - n - c)
    <3>1. m - n - c \in Int
      OBVIOUS
    <3> QED BY <3>1, OverflowAbove, Zenon
  <2>5. hi.f.p = 1 <=> ~ Fits8(m - n - c)
    BY <1>3, <1>5, <1>6, <2>1 DEF TakesAway
  <2> QED BY <1>7, <2>2, <2>3, <2>4, <2>5
<1>11. t.f.s = 1 <=> t.val >= 32768
  <2>1. hi.f.s = 1 <=> h >= 128
    BY <1>3, <1>5 DEF TakesAway
  <2>2. h >= 128 <=> 256 * h + l >= 32768
    OBVIOUS
  <2> QED BY <1>7, <2>1, <2>2
<1> QED BY <1>3, <1>7, <1>9, <1>10, <1>11 DEF t

\* A shift or rotate moves a byte and the bit that comes in like the digits of a
\* number: left, the double of the byte; right, its half (z80.c:408-523).
THEOREM ShiftsMoveBits ==
  ASSUME NEW v \in Byte, NEW c \in 0 .. 1
  PROVE  /\ \A op \in {"rlc", "rl", "sla", "sll"} :
              LET t == Shift(op, v, c)
                  in == CASE op = "rlc" -> v \div 128 [] op = "rl" -> c
                          [] op = "sla" -> 0 [] op = "sll" -> 1
              IN  t.val + 256 * t.f.c = 2 * v + in
         /\ \A op \in {"rrc", "rr", "sra", "srl"} :
              LET t == Shift(op, v, c)
                  in == CASE op = "rrc" -> v % 2 [] op = "rr" -> c
                          [] op = "sra" -> v \div 128 [] op = "srl" -> 0
              IN  2 * t.val + t.f.c = v + 256 * in
<1>1. v \in 0 .. 255
  BY DEF Byte
<1>2. Bit(v, 0) = v % 2 /\ Bit(v, 7) = v \div 128
  BY <1>1 DEF Bit
<1>3. ASSUME NEW i \in 0 .. 1
      PROVE  /\ ((2 * v) % 256) + i + 256 * (v \div 128) = 2 * v + i
             /\ 2 * ((v \div 2) + 128 * i) + (v % 2) = v + 256 * i
  BY <1>1
<1>4. v \div 128 \in 0 .. 1 /\ v % 2 \in 0 .. 1
  BY <1>1
<1>5. ASSUME NEW op \in {"rlc", "rl", "sla", "sll"}
      PROVE  LET t == Shift(op, v, c)
                 in == CASE op = "rlc" -> v \div 128 [] op = "rl" -> c
                         [] op = "sla" -> 0 [] op = "sll" -> 1
             IN  t.val = ((2 * v) % 256) + in /\ t.f.c = v \div 128 /\ in \in 0 .. 1
  BY <1>2, <1>4 DEF Shift, Result
<1>6. ASSUME NEW op \in {"rrc", "rr", "sra", "srl"}
      PROVE  LET t == Shift(op, v, c)
                 in == CASE op = "rrc" -> v % 2 [] op = "rr" -> c
                         [] op = "sra" -> v \div 128 [] op = "srl" -> 0
             IN  t.val = (v \div 2) + 128 * in /\ t.f.c = v % 2 /\ in \in 0 .. 1
  BY <1>2, <1>4 DEF Shift, Result
<1> QED BY <1>3, <1>5, <1>6

\* Two decimal digits in a byte, and the number they say.
Decimals == {v \in Byte : v \div 16 <= 9 /\ v % 16 <= 9}
Says(v) == 10 * (v \div 16) + (v % 16)

LEMMA TwoDigits ==
  ASSUME NEW v \in Decimals
  PROVE  \E x, y \in 0 .. 9 : v = 16 * x + y /\ Says(v) = 10 * x + y
<1>1. v \in 0 .. 255 /\ v \div 16 <= 9 /\ v % 16 <= 9
  BY DEF Decimals, Byte
<1>2. v \div 16 \in 0 .. 9 /\ v % 16 \in 0 .. 9 /\ v = 16 * (v \div 16) + (v % 16)
  BY <1>1
<1> QED BY <1>2 DEF Says

LEMMA SaysOf ==
  ASSUME NEW x \in 0 .. 9, NEW y \in 0 .. 9
  PROVE  16 * x + y \in Decimals /\ Says(16 * x + y) = 10 * x + y
<1>1. (16 * x + y) \div 16 = x /\ (16 * x + y) % 16 = y
  OBVIOUS
<1> QED BY <1>1 DEF Decimals, Byte, Says

\* The value DAA leaves, by the correction it adds or takes away.
Corrected(v, f) ==
  LET low == v % 16 > 9 \/ f.h = 1
      high == v > 153 \/ f.c = 1
      fix == (IF low THEN 6 ELSE 0) + (IF high THEN 96 ELSE 0)
  IN  (IF f.n = 1 THEN v - fix ELSE v + fix) % 256

LEMMA DaaIs ==
  ASSUME NEW v, NEW f
  PROVE  /\ daa(v, f).val = Corrected(v, f)
         /\ daa(v, f).f.c = IF v > 153 \/ f.c = 1 THEN 1 ELSE 0
BY DEF daa, Result, Corrected, Truth

\* DAA after an addition of decimal digits leaves the digits of the sum, and in
\* the carry the hundreds (z80.c:625-657).
THEOREM DecimalSum ==
  ASSUME NEW a \in Decimals, NEW b \in Decimals, NEW cy \in 0 .. 1
  PROVE  LET t == addb(a, b, cy)
             d == daa(t.val, t.f)
         IN  /\ d.val \in Decimals
             /\ Says(d.val) + 100 * d.f.c = Says(a) + Says(b) + cy
<1> DEFINE t == addb(a, b, cy)
           d == daa(t.val, t.f)
<1>1. a \in Byte /\ b \in Byte
  BY DEF Decimals
<1>2. AddsUp(t, a, b, cy) /\ t.f.n = 0
  BY <1>1, SumOfBytes
<1> HIDE DEF t
<1>3. PICK x, y \in 0 .. 9 : a = 16 * x + y /\ Says(a) = 10 * x + y
  BY TwoDigits
<1>4. PICK u, v \in 0 .. 9 : b = 16 * u + v /\ Says(b) = 10 * u + v
  BY TwoDigits
<1>5. PICK w \in 0 .. 255, c \in 0 .. 1, h \in 0 .. 1 : w = t.val /\ c = t.f.c /\ h = t.f.h
  <2>1. t.val \in 0 .. 255 /\ t.f \in Flags
    BY <1>2 DEF AddsUp, Byte
  <2>2. t.f.c \in 0 .. 1 /\ t.f.h \in 0 .. 1
    BY <2>1 DEF Flags
  <2> QED BY <2>1, <2>2, Zenon
<1>6. w + 256 * c = 16 * (x + u) + (y + v + cy)
  <2>1. w + 256 * c = a + b + cy
    BY <1>2, <1>5 DEF AddsUp
  <2> QED BY <1>3, <1>4, <2>1
<1>7. h = 1 <=> y + v + cy > 15
  <2>1. a % 16 = y /\ b % 16 = v
    BY <1>3, <1>4
  <2> QED BY <1>2, <1>5, <2>1 DEF AddsUp
<1>8. c = 0 => w = 16 * (x + u) + (y + v + cy)
  BY <1>6
<1>9. c = 1 => w = 16 * (x + u) + (y + v + cy) - 256
  BY <1>6
<1> DEFINE low == w % 16 > 9 \/ h = 1
           high == w > 153 \/ c = 1
           fix == (IF low THEN 6 ELSE 0) + (IF high THEN 96 ELSE 0)
           carried == IF y + v + cy > 9 THEN 1 ELSE 0
           over == IF x + u + carried > 9 THEN 1 ELSE 0
<1>10. low <=> carried = 1
  <2>1. c = 0 \/ c = 1
    OBVIOUS
  <2>2. w % 16 = (y + v + cy) % 16
    BY <1>8, <1>9, <2>1
  <2> QED BY <1>7, <2>2
<1>11. high <=> over = 1
  BY <1>6
<1>12. (w + fix) % 256 = 16 * (x + u + carried - 10 * over) + (y + v + cy - 10 * carried)
  <2>1. PICK k, o \in 0 .. 1 : k = carried /\ o = over
    OBVIOUS
  <2>2. fix = 6 * k + 96 * o
    BY <1>10, <1>11, <2>1
  <2>3. o = 1 <=> x + u + k > 9
    BY <2>1
  <2>4. k = 1 <=> y + v + cy > 9
    BY <2>1
  <2> HIDE DEF fix, over, carried
  <2>5. PICK n \in 0 .. 255 : n = 16 * (x + u + k - 10 * o) + (y + v + cy - 10 * k)
    BY <2>3, <2>4
  <2>6. w + fix = n + 256 * (o - c)
    BY <1>6, <2>2, <2>5
  <2>7. o - c = 0 \/ o - c = 1
    BY <1>6, <2>3, <2>4
  <2>8. \A i \in 0 .. 255 : i % 256 = i /\ (i + 256) % 256 = i
    OBVIOUS
  <2>9. (w + fix) % 256 = n
    BY <2>6, <2>7, <2>8
  <2> QED BY <2>1, <2>5, <2>9
<1>13. d.val = (w + fix) % 256 /\ d.f.c = over
  <2>1. d.val = Corrected(w, t.f) /\ d.f.c = IF w > 153 \/ c = 1 THEN 1 ELSE 0
    BY <1>5, DaaIs
  <2>2. Corrected(w, t.f) = (w + fix) % 256
    BY <1>2, <1>5 DEF Corrected
  <2> QED BY <1>11, <2>1, <2>2
<1>14. x + u + carried - 10 * over \in 0 .. 9 /\ y + v + cy - 10 * carried \in 0 .. 9
  OBVIOUS
<1> HIDE DEF d, fix
<1>15. /\ d.val \in Decimals
       /\ Says(d.val) = 10 * (x + u + carried - 10 * over) + (y + v + cy - 10 * carried)
  <2> HIDE DEF over, carried
  <2> QED BY <1>12, <1>13, <1>14, SaysOf
<1> QED BY <1>3, <1>4, <1>13, <1>15 DEF d, t

\* DAA after a subtraction: the carry is the hundred borrowed.
THEOREM DecimalDifference ==
  ASSUME NEW a \in Decimals, NEW b \in Decimals, NEW cy \in 0 .. 1
  PROVE  LET t == subb(a, b, cy)
             d == daa(t.val, t.f)
         IN  /\ d.val \in Decimals
             /\ Says(d.val) - 100 * d.f.c = Says(a) - Says(b) - cy
<1> DEFINE t == subb(a, b, cy)
           d == daa(t.val, t.f)
<1>1. a \in Byte /\ b \in Byte
  BY DEF Decimals
<1>2. TakesAway(t, a, b, cy) /\ t.f.n = 1
  BY <1>1, DifferenceOfBytes
<1> HIDE DEF t
<1>3. PICK x, y \in 0 .. 9 : a = 16 * x + y /\ Says(a) = 10 * x + y
  BY TwoDigits
<1>4. PICK u, v \in 0 .. 9 : b = 16 * u + v /\ Says(b) = 10 * u + v
  BY TwoDigits
<1>5. PICK w \in 0 .. 255, c \in 0 .. 1, h \in 0 .. 1 : w = t.val /\ c = t.f.c /\ h = t.f.h
  <2>1. t.val \in 0 .. 255 /\ t.f \in Flags
    BY <1>2 DEF TakesAway, Byte
  <2>2. t.f.c \in 0 .. 1 /\ t.f.h \in 0 .. 1
    BY <2>1 DEF Flags
  <2> QED BY <2>1, <2>2, Zenon
<1>6. w - 256 * c = 16 * (x - u) + (y - v - cy)
  <2>1. w - 256 * c = a - b - cy
    BY <1>2, <1>5 DEF TakesAway
  <2> QED BY <1>3, <1>4, <2>1
<1>7. h = 1 <=> y < v + cy
  <2>1. a % 16 = y /\ b % 16 = v
    BY <1>3, <1>4
  <2> QED BY <1>2, <1>5, <2>1 DEF TakesAway
<1>8. PICK k \in 0 .. 1 : k = 1 <=> y < v + cy
  <2>1. CASE y < v + cy
    BY <2>1
  <2>2. CASE ~ (y < v + cy)
    BY <2>2
  <2> QED BY <2>1, <2>2
<1> DEFINE tens == x - u - k + 10 * c
           ones == y - v - cy + 10 * k
           fix == 6 * k + 96 * c
<1>9. tens \in 0 .. 9 /\ ones \in 0 .. 9
  BY <1>6, <1>8
<1>10. w = 16 * tens + ones + fix
  BY <1>6
<1>11. (w % 16 > 9 \/ h = 1) <=> k = 1
  <2>1. CASE k = 1
    BY <1>7, <1>8, <2>1
  <2>2. CASE k = 0
    <3>1. w = 16 * (tens + 6 * c) + ones
      BY <1>10, <2>2
    <3>2. tens + 6 * c \in 0 .. 15
      BY <1>9
    <3> HIDE DEF tens, ones
    <3>3. w % 16 = ones
      BY <1>9, <3>1, <3>2
    <3> QED BY <1>7, <1>8, <1>9, <2>2, <3>3
  <2> QED BY <2>1, <2>2
<1>12. (w > 153 \/ c = 1) <=> c = 1
  BY <1>8, <1>9, <1>10
<1>13. d.val = 16 * tens + ones /\ d.f.c = c
  <2>1. d.val = Corrected(w, t.f) /\ d.f.c = IF w > 153 \/ c = 1 THEN 1 ELSE 0
    BY <1>5, DaaIs
  <2>2. Corrected(w, t.f) = (w - fix) % 256
    BY <1>2, <1>5, <1>11, <1>12 DEF Corrected
  <2>3. w - fix = 16 * tens + ones
    BY <1>10
  <2>4. (16 * tens + ones) % 256 = 16 * tens + ones
    <3> HIDE DEF tens, ones
    <3> QED BY <1>9
  <2> QED BY <1>12, <2>1, <2>2, <2>3, <2>4, SMTT(20)
<1> HIDE DEF d
<1>14. d.val \in Decimals /\ Says(d.val) = 10 * tens + ones
  <2> HIDE DEF tens, ones
  <2> QED BY <1>9, <1>13, SaysOf
<1> QED BY <1>3, <1>4, <1>13, <1>14 DEF d, t

\* The two digits of a byte.
Tens(v) == v \div 16
Ones(v) == v % 16

LEMMA Turns ==
  ASSUME NEW a \in Byte, NEW m \in Byte, NEW f
  PROVE  LET l == rld(a, m, f)
             r == rrd(a, m, f)
         IN  /\ l.a.val \in Byte /\ Tens(l.a.val) = Tens(a) /\ Ones(l.a.val) = Tens(m)
             /\ l.m \in Byte /\ Tens(l.m) = Ones(m) /\ Ones(l.m) = Ones(a)
             /\ r.a.val \in Byte /\ Tens(r.a.val) = Tens(a) /\ Ones(r.a.val) = Ones(m)
             /\ r.m \in Byte /\ Tens(r.m) = Ones(a) /\ Ones(r.m) = Tens(m)
<1>1. \A i, j \in 0 .. 15 : /\ 16 * i + j \in 0 .. 255
                           /\ (16 * i + j) \div 16 = i /\ (16 * i + j) % 16 = j
  OBVIOUS
<1>2. /\ a \div 16 \in 0 .. 15 /\ a % 16 \in 0 .. 15
      /\ m \div 16 \in 0 .. 15 /\ m % 16 \in 0 .. 15
  BY DEF Byte
<1>3. /\ rld(a, m, f).a.val = 16 * (a \div 16) + (m \div 16)
      /\ rld(a, m, f).m = 16 * (m % 16) + (a % 16)
      /\ rrd(a, m, f).a.val = 16 * (a \div 16) + (m % 16)
      /\ rrd(a, m, f).m = 16 * (a % 16) + (m \div 16)
  BY DEF rld, rrd, Turned, Result
<1> QED BY <1>1, <1>2, <1>3 DEF Byte, Tens, Ones

LEMMA SameDigits ==
  ASSUME NEW a \in Byte, NEW b \in Byte, Tens(a) = Tens(b), Ones(a) = Ones(b)
  PROVE  a = b
BY DEF Byte, Tens, Ones

\* RRD undoes RLD and RLD undoes RRD, and three of either bring the digits back
\* (z80.c:1757-1787).
THEOREM DigitsComeBack ==
  ASSUME NEW a \in Byte, NEW m \in Byte, NEW f
  PROVE  LET left(t) == rld(t.a.val, t.m, f)
             right(t) == rrd(t.a.val, t.m, f)
             back(t) == t.a.val = a /\ t.m = m
         IN  /\ back(right(rld(a, m, f))) /\ back(left(left(rld(a, m, f))))
             /\ back(left(rrd(a, m, f))) /\ back(right(right(rrd(a, m, f))))
<1> DEFINE l == rld(a, m, f)
           r == rrd(a, m, f)
           ll == rld(l.a.val, l.m, f)
           rr == rrd(r.a.val, r.m, f)
<1>2. /\ l.a.val \in Byte /\ Tens(l.a.val) = Tens(a) /\ Ones(l.a.val) = Tens(m)
      /\ l.m \in Byte /\ Tens(l.m) = Ones(m) /\ Ones(l.m) = Ones(a)
      /\ r.a.val \in Byte /\ Tens(r.a.val) = Tens(a) /\ Ones(r.a.val) = Ones(m)
      /\ r.m \in Byte /\ Tens(r.m) = Ones(a) /\ Ones(r.m) = Tens(m)
  BY Turns
<1> HIDE DEF l, r
<1>3. /\ ll.a.val \in Byte /\ Tens(ll.a.val) = Tens(a) /\ Ones(ll.a.val) = Ones(m)
      /\ ll.m \in Byte /\ Tens(ll.m) = Ones(a) /\ Ones(ll.m) = Tens(m)
      /\ rr.a.val \in Byte /\ Tens(rr.a.val) = Tens(a) /\ Ones(rr.a.val) = Tens(m)
      /\ rr.m \in Byte /\ Tens(rr.m) = Ones(m) /\ Ones(rr.m) = Ones(a)
  BY <1>2, Turns
<1>4. rrd(l.a.val, l.m, f).a.val = a /\ rrd(l.a.val, l.m, f).m = m
  BY <1>2, Turns, SameDigits
<1>5. rld(r.a.val, r.m, f).a.val = a /\ rld(r.a.val, r.m, f).m = m
  BY <1>2, Turns, SameDigits
<1> HIDE DEF ll, rr
<1>6. rld(ll.a.val, ll.m, f).a.val = a /\ rld(ll.a.val, ll.m, f).m = m
  BY <1>3, Turns, SameDigits
<1>7. rrd(rr.a.val, rr.m, f).a.val = a /\ rrd(rr.a.val, rr.m, f).m = m
  BY <1>3, Turns, SameDigits
<1> QED BY <1>4, <1>5, <1>6, <1>7 DEF l, r, ll, rr

-----------------------------------------------------------------------------
(* The instructions. *)

\* The struct z80 and its memory.
Fields == {"pc", "sp", "r", "f", "ram", "romOut", "iff", "delay", "request", "out", "given",
           "cyc"}
Shape(z) == DOMAIN z = Fields /\ DOMAIN z.ram = Cells

\* y is z but for registers, flags and devices; or for the memory too.
Keeps(y, z) == /\ Shape(y) /\ y.sp = z.sp /\ y.pc = z.pc
               /\ y.iff = z.iff /\ y.delay = z.delay /\ y.request = z.request
KeepsRam(y, z) == Keeps(y, z) /\ y.ram = z.ram

LEMMA Transitive ==
  ASSUME NEW x, NEW y, NEW z
  PROVE  /\ Keeps(x, y) /\ Keeps(y, z) => Keeps(x, z)
         /\ KeepsRam(x, y) /\ KeepsRam(y, z) => KeepsRam(x, z)
         /\ KeepsRam(x, y) => Keeps(x, y)
BY DEF Keeps, KeepsRam

LEMMA KeepsItself == ASSUME NEW z, Shape(z) PROVE KeepsRam(z, z)
BY DEF Keeps, KeepsRam

LEMMA Assigned ==
  ASSUME NEW z, Shape(z), NEW v
  PROVE  /\ KeepsRam([z EXCEPT !.r = v], z) /\ KeepsRam([z EXCEPT !.f = v], z)
         /\ KeepsRam([z EXCEPT !.out = v], z) /\ KeepsRam([z EXCEPT !.given = v], z)
         /\ KeepsRam([z EXCEPT !.cyc = v], z) /\ KeepsRam([z EXCEPT !.romOut = v], z)
BY DEF Shape, Fields, Keeps, KeepsRam

LEMMA Written ==
  ASSUME NEW z, Shape(z), NEW x, NEW v
  PROVE  Keeps(mem_write(z, x, v), z)
<1> DEFINE y == mem_write(z, x, v)
<1>1. y = [z EXCEPT !.ram = [z.ram EXCEPT ![x] = v]]
  BY DEF mem_write
<1> QED BY <1>1 DEF Shape, Fields, Keeps

\* What the operations are made of.
LEMMA Stored ==
  ASSUME NEW z, Shape(z), NEW x, NEW v, NEW t
  PROVE  /\ Keeps(Put(z, x, v), z) /\ (x # "m" => KeepsRam(Put(z, x, v), z))
         /\ Keeps(Store(z, x, t), z) /\ (x # "m" => KeepsRam(Store(z, x, t), z))
<1>1. ASSUME NEW w
      PROVE  Keeps(Put(z, x, w), z) /\ (x # "m" => KeepsRam(Put(z, x, w), z))
  <2>1. CASE x = "m"
    BY <2>1, Written DEF Put
  <2>2. CASE x # "m"
    <3>1. Put(z, x, w) = [z EXCEPT !.r = [z.r EXCEPT ![x] = w]]
      BY <2>2 DEF Put
    <3> QED BY <3>1, Assigned, Transitive
  <2> QED BY <2>1, <2>2
<1>2. KeepsRam(Store(z, x, t), Put(z, x, t.val))
  <2>1. Shape(Put(z, x, t.val))
    BY <1>1 DEF Keeps
  <2> QED BY <2>1, Assigned DEF Store
<1> QED BY <1>1, <1>2, Transitive

LEMMA Moved ==
  ASSUME NEW z, Shape(z), NEW p, NEW up
  PROVE  KeepsRam(Move(z, p, up), z) /\ KeepsRam(CountDown(z), z) /\ KeepsRam(CountB(z), z)
<1>1. KeepsRam(Move(z, p, up), z) /\ KeepsRam(CountDown(z), z)
  BY Assigned DEF Move, CountDown
<1>2. KeepsRam(CountB(z), z)
  <2>1. PICK b : b = (z.r.b + 255) % 256
    OBVIOUS
  <2>2. PICK t : t = Truth(b = 0)
    OBVIOUS
  <2>3. CountB(z) = [z EXCEPT !.r.b = b, !.f.z = t, !.f.n = 1]
    BY <2>1, <2>2, Zenon DEF CountB
  <2> QED BY <2>3 DEF Shape, Fields, Keeps, KeepsRam
<1> QED BY <1>1, <1>2

LEMMA Blocked ==
  ASSUME NEW z, Shape(z), NEW up
  PROVE  Keeps(Copy(z, up), z) /\ Keeps(Compare(z, up), z) /\ Keeps(In(z, up), z)
         /\ Keeps(Out(z, up), z)
<1>1. Keeps(Copy(z, up), z)
  <2> DEFINE v == mem_read(z, Pair(z.r, "hl"))
             w == mem_write(z, Pair(z.r, "de"), v)
             m == Move(w, "hl", up)
             n == Move(m, "de", up)
             y == CountDown(n)
  <2>1. Keeps(w, z) /\ Shape(w)
    BY Written DEF Keeps
  <2> HIDE DEF w
  <2>2. Keeps(m, w) /\ Shape(m)
    BY <2>1, Moved DEF Keeps, KeepsRam
  <2> HIDE DEF m
  <2>3. Keeps(n, m) /\ Shape(n)
    BY <2>2, Moved DEF Keeps, KeepsRam
  <2> HIDE DEF n
  <2>4. Keeps(y, n) /\ Shape(y)
    BY <2>3, Moved DEF Keeps, KeepsRam
  <2>5. PICK t : t = Truth(Pair(y.r, "bc") > 0)
    OBVIOUS
  <2>6. Copy(z, up) = [y EXCEPT !.f.n = 0, !.f.h = 0, !.f.p = t]
    BY <2>5, Zenon DEF Copy, y, n, m, w
  <2> HIDE DEF y
  <2>7. Keeps(Copy(z, up), y)
    BY <2>4, <2>6 DEF Shape, Fields, Keeps
  <2> QED BY <2>1, <2>2, <2>3, <2>4, <2>7, Transitive
<1>2. Keeps(Compare(z, up), z)
  <2> DEFINE m == Move(z, "hl", up)
             y == CountDown(m)
  <2>1. Keeps(m, z) /\ Shape(m)
    BY Moved DEF Keeps, KeepsRam
  <2> HIDE DEF m
  <2>2. Keeps(y, m) /\ Shape(y)
    BY <2>1, Moved DEF Keeps, KeepsRam
  <2>3. \E g : Compare(z, up) = [y EXCEPT !.f = g]
    <3> DEFINE g == [subb(z.r.a, mem_read(z, Pair(z.r, "hl")), 0).f
                       EXCEPT !.c = z.f.c, !.p = Truth(Pair(y.r, "bc") # 0)]
    <3>1. Compare(z, up) = [y EXCEPT !.f = g]
      BY Zenon DEF Compare, y, m
    <3> HIDE DEF g
    <3> QED BY <3>1, Zenon
  <2> HIDE DEF y
  <2>4. Keeps(Compare(z, up), y)
    BY <2>2, <2>3, Assigned DEF KeepsRam
  <2> QED BY <2>1, <2>2, <2>4, Transitive
<1>3. Keeps(In(z, up), z)
  <2> DEFINE w == mem_write(z, Pair(z.r, "hl"), Gives(z.given))
             g == [w EXCEPT !.given = Gives(w.given)]
             m == Move(g, "hl", up)
  <2>1. Keeps(w, z) /\ Shape(w)
    BY Written DEF Keeps
  <2>2. In(z, up) = CountB(m)
    BY DEF In
  <2> HIDE DEF w
  <2>3. Keeps(g, w) /\ Shape(g)
    <3> KeepsRam(g, w)
      BY <2>1, Assigned, Zenon
    <3> QED BY DEF Keeps, KeepsRam
  <2> HIDE DEF g
  <2>4. Keeps(m, g) /\ Shape(m)
    BY <2>3, Moved DEF Keeps, KeepsRam
  <2> HIDE DEF m
  <2>5. Keeps(CountB(m), m)
    BY <2>4, Moved DEF KeepsRam
  <2> QED BY <2>1, <2>2, <2>3, <2>4, <2>5, Transitive
<1>4. Keeps(Out(z, up), z)
  <2> DEFINE o == [z EXCEPT !.out = Append(z.out, mem_read(z, Pair(z.r, "hl")))]
             m == Move(o, "hl", up)
  <2>1. Out(z, up) = CountB(m)
    BY DEF Out
  <2>2. Keeps(o, z) /\ Shape(o)
    <3>1. PICK w : w = Append(z.out, mem_read(z, Pair(z.r, "hl")))
      OBVIOUS
    <3>2. o = [z EXCEPT !.out = w]
      BY <3>1
    <3>3. KeepsRam([z EXCEPT !.out = w], z)
      BY Assigned, Zenon
    <3> HIDE DEF o
    <3>4. KeepsRam(o, z)
      BY <3>2, <3>3, Zenon
    <3> QED BY <3>4 DEF Keeps, KeepsRam
  <2> HIDE DEF o
  <2>3. Keeps(m, o) /\ Shape(m)
    BY <2>2, Moved DEF Keeps, KeepsRam
  <2> HIDE DEF m
  <2>4. Keeps(CountB(m), m)
    BY <2>3, Moved DEF KeepsRam
  <2> QED BY <2>1, <2>2, <2>3, <2>4, Transitive
<1> QED BY <1>1, <1>2, <1>3, <1>4

LEMMA AnyBlock ==
  ASSUME NEW z, Shape(z), NEW up, NEW k \in {"ld", "cp", "in", "ot"}
  PROVE  /\ Keeps(Block(z, k, up), z)
         /\ \/ Keeps(Repeat(z, k, up), z)
            \/ /\ Shape(Repeat(z, k, up))
               /\ Repeat(z, k, up).sp = z.sp /\ Repeat(z, k, up).pc = Below(z.pc, 2)
               /\ Repeat(z, k, up).iff = z.iff /\ Repeat(z, k, up).delay = z.delay
               /\ Repeat(z, k, up).request = z.request
<1>1. Keeps(Block(z, k, up), z)
  BY Blocked DEF Block
<1> DEFINE
      y == Block(z, k, up)
      n == y.cyc + (IF k = "ot" /\ ~ up THEN 0 ELSE 5)
<1>2. Repeat(z, k, up) = IF ~ More(y, k) THEN y
                         ELSE [y EXCEPT !.pc = Below(y.pc, 2), !.cyc = n]
  BY Zenon DEF Repeat
<1> HIDE DEF y, n
<1>3. Keeps(y, z)
  BY <1>1 DEF y
<1>4. CASE More(y, k)
  BY <1>1, <1>2, <1>3, <1>4 DEF Keeps, Shape, Fields
<1>5. CASE ~ More(y, k)
  BY <1>1, <1>2, <1>3, <1>5
<1> QED BY <1>1, <1>4, <1>5

LEMMA Loaded ==
  ASSUME NEW z, Shape(z), NEW i, i.op \in {"ld", "ldn"}
  PROVE  Keeps(ExecLoad(z, i), z) /\ (~ WritesMemory(i) => KeepsRam(ExecLoad(z, i), z))
<1>1. ExecLoad(z, i) = IF i.op = "ld" THEN Put(z, i.k, Operand(z, i.x)) ELSE Put(z, i.k, i.v)
  BY DEF ExecLoad
<1> QED BY <1>1, Stored DEF WritesMemory

LEMMA Reckoned ==
  ASSUME NEW z, Shape(z), NEW i, i.op \in Arithmetic
  PROVE  /\ Keeps(ExecArithmetic(z, i), z)
         /\ ~ WritesMemory(i) => KeepsRam(ExecArithmetic(z, i), z)
<1> DEFINE y == ExecArithmetic(z, i)
<1>1. CASE i.op \in {"alu", "inc", "dec", "neg", "cpl", "daa"}
  <2>1. \E x, t : y = Store(z, x, t) /\ (~ WritesMemory(i) => x # "m")
    <3>1. CASE i.op = "alu"
      <4>1. y = Store(z, "a", Alu(i.k, z.r.a, Operand(z, i.x), z.f))
        BY <3>1 DEF ExecArithmetic
      <4> QED BY <4>1
    <3>2. CASE i.op = "inc"
      <4>1. y = Store(z, i.x, inc(Operand(z, i.x), z.f))
        BY <3>2 DEF ExecArithmetic
      <4> QED BY <3>2, <4>1 DEF WritesMemory
    <3>3. CASE i.op = "dec"
      <4>1. y = Store(z, i.x, dec(Operand(z, i.x), z.f))
        BY <3>3 DEF ExecArithmetic
      <4> QED BY <3>3, <4>1 DEF WritesMemory
    <3>4. CASE i.op = "neg"
      <4>1. y = Store(z, "a", neg(z.r.a))
        BY <3>4 DEF ExecArithmetic
      <4> QED BY <4>1
    <3>5. CASE i.op = "cpl"
      <4>1. y = Store(z, "a", cpl(z.r.a, z.f))
        BY <3>5 DEF ExecArithmetic
      <4> QED BY <4>1
    <3>6. CASE i.op = "daa"
      <4>1. y = Store(z, "a", daa(z.r.a, z.f))
        BY <3>6 DEF ExecArithmetic
      <4> QED BY <4>1
    <3> QED BY <1>1, <3>1, <3>2, <3>3, <3>4, <3>5, <3>6
  <2> QED BY <2>1, Stored
<1>2. CASE i.op \in {"scf", "ccf"}
  <2>1. y = IF i.op = "scf" THEN [z EXCEPT !.f = scf(z.f)] ELSE [z EXCEPT !.f = ccf(z.f)]
    BY <1>2 DEF ExecArithmetic
  <2> QED BY <2>1, Assigned, Transitive
<1>3. CASE i.op \in {"incp", "decp"}
  <2>1. \E v : y = [z EXCEPT !.r = v]
    <3>1. CASE i.op = "incp"
      <4>1. y = [z EXCEPT !.r = SetPair(z.r, i.x, Above(Pair(z.r, i.x), 1))]
        BY <3>1 DEF ExecArithmetic
      <4> QED BY <4>1
    <3>2. CASE i.op = "decp"
      <4>1. y = [z EXCEPT !.r = SetPair(z.r, i.x, Below(Pair(z.r, i.x), 1))]
        BY <3>2 DEF ExecArithmetic
      <4> QED BY <4>1
    <3> QED BY <1>3, <3>1, <3>2
  <2> QED BY <2>1, Assigned, Transitive
<1>4. CASE i.op \in {"addhl", "adchl", "sbchl"}
  <2>1. \E v, g : y = [z EXCEPT !.r = v, !.f = g]
    <3> DEFINE Hl(t) == [z EXCEPT !.r = SetPair(z.r, "hl", t.val), !.f = t.f]
    <3>1. \E t : y = Hl(t)
      <4>1. CASE i.op = "addhl"
        <5>1. y = Hl(addhl(Pair(z.r, "hl"), Pair(z.r, i.x), z.f))
          BY <4>1 DEF ExecArithmetic
        <5> HIDE DEF Hl, y
        <5> QED BY <5>1
      <4>2. CASE i.op = "adchl"
        <5>1. y = Hl(adchl(Pair(z.r, "hl"), Pair(z.r, i.x), z.f))
          BY <4>2 DEF ExecArithmetic
        <5> HIDE DEF Hl, y
        <5> QED BY <5>1
      <4>3. CASE i.op = "sbchl"
        <5>1. y = Hl(sbchl(Pair(z.r, "hl"), Pair(z.r, i.x), z.f))
          BY <4>3 DEF ExecArithmetic
        <5> HIDE DEF Hl, y
        <5> QED BY <5>1
      <4> QED BY <1>4, <4>1, <4>2, <4>3
    <3> HIDE DEF y
    <3> QED BY <3>1
  <2>2. PICK v, g : y = [[z EXCEPT !.r = v] EXCEPT !.f = g]
    BY <2>1
  <2>3. KeepsRam([z EXCEPT !.r = v], z)
    BY Assigned
  <2>4. KeepsRam(y, [z EXCEPT !.r = v])
    <3> DEFINE x == [z EXCEPT !.r = v]
    <3>1. Shape(x)
      BY <2>3 DEF Keeps, KeepsRam
    <3>2. y = [x EXCEPT !.f = g]
      BY <2>2
    <3> HIDE DEF x, y
    <3> KeepsRam(y, x)
      BY <3>1, <3>2, Assigned
    <3> QED BY DEF x
  <2> HIDE DEF y
  <2> KeepsRam(y, z)
    BY <2>3, <2>4, Transitive
  <2> QED BY Transitive DEF y
<1> QED BY <1>1, <1>2, <1>3, <1>4 DEF Arithmetic

LEMMA DigitsTurned ==
  ASSUME NEW z, Shape(z), NEW t
  PROVE  Keeps(TurnDigits(z, t), z)
<1> DEFINE w == mem_write(z, Pair(z.r, "hl"), t.m)
<1>1. TurnDigits(z, t) = [w EXCEPT !.r.a = t.a.val, !.f = t.a.f]
  BY DEF TurnDigits
<1>2. Keeps(w, z)
  BY Written
<1> HIDE DEF w
<1> QED BY <1>1, <1>2 DEF Keeps, Shape, Fields

LEMMA Tested ==
  ASSUME NEW z, Shape(z), NEW g, NEW x, NEW v
  PROVE  LET y == Put([z EXCEPT !.f = g], x, v)
         IN  Keeps(y, z) /\ (x # "m" => KeepsRam(y, z))
<1>1. PICK w : w = [z EXCEPT !.f = g]
  OBVIOUS
<1>2. KeepsRam(w, z) /\ Shape(w)
  <2>1. KeepsRam(w, z)
    BY <1>1, Assigned, Zenon
  <2> QED BY <2>1 DEF Keeps, KeepsRam
<1>3. Keeps(Put(w, x, v), z) /\ (x # "m" => KeepsRam(Put(w, x, v), z))
  BY <1>2, Stored, Transitive
<1> QED BY <1>1, <1>3

LEMMA BitsTurned ==
  ASSUME NEW z, Shape(z), NEW i, i.op \in Bits
  PROVE  /\ Keeps(ExecBits(z, i), z)
         /\ ~ WritesMemory(i) => KeepsRam(ExecBits(z, i), z)
<1> DEFINE y == ExecBits(z, i)
<1>1. CASE i.op \in {"shift", "shifta"}
  <2>1. \E x, t : y = Store(z, x, t) /\ (~ WritesMemory(i) => x # "m")
    <3>1. CASE i.op = "shift"
      <4>1. y = Store(z, i.x, Shift(i.k, Operand(z, i.x), z.f.c))
        BY <3>1 DEF ExecBits
      <4> QED BY <3>1, <4>1 DEF WritesMemory
    <3>2. CASE i.op = "shifta"
      <4>1. y = Store(z, "a", ShiftA(i.k, z.r.a, z.f))
        BY <3>2 DEF ExecBits
      <4> QED BY <4>1
    <3> QED BY <1>1, <3>1, <3>2
  <2> QED BY <2>1, Stored
<1>2. CASE i.op = "bit"
  <2>1. y = Put([z EXCEPT !.f = cb_bit(Operand(z, i.x), i.v, z.f)], i.x, Operand(z, i.x))
    BY <1>2 DEF ExecBits, BitTest
  <2>2. PICK g, v : y = Put([z EXCEPT !.f = g], i.x, v)
    BY <2>1
  <2> HIDE DEF y
  <2>3. Keeps(y, z) /\ (i.x # "m" => KeepsRam(y, z))
    BY <2>2, Tested
  <2> QED BY <1>2, <2>3 DEF WritesMemory, y
<1>3. CASE i.op \in {"res", "set"}
  <2>1. PICK v : y = Put(z, i.x, v)
    <3>1. y = BitPut(z, i.x, i.v, IF i.op = "set" THEN 1 ELSE 0)
      BY <1>3 DEF ExecBits
    <3> QED BY <3>1 DEF BitPut
  <2> QED BY <1>3, <2>1, Stored DEF WritesMemory
<1>4. CASE i.op \in {"rld", "rrd"}
  <2>1. PICK t : y = TurnDigits(z, t)
    <3>1. y = TurnDigits(z, IF i.op = "rld" THEN rld(z.r.a, Operand(z, "m"), z.f)
                                            ELSE rrd(z.r.a, Operand(z, "m"), z.f))
      BY <1>4 DEF ExecBits
    <3> HIDE DEF y
    <3> QED BY <3>1
  <2> QED BY <1>4, <2>1, DigitsTurned DEF WritesMemory
<1> QED BY <1>1, <1>2, <1>3, <1>4 DEF Bits

\* What an instruction other than a push, a pop, RETI or a block leaves alone.
LEMMA Controlled ==
  ASSUME NEW z, Shape(z), NEW i, i.op \in Jumps \cup {"ei", "di", "in", "rom"}
  PROVE  LET y == ExecControl(z, i)
         IN  /\ Shape(y) /\ y.sp = z.sp /\ y.ram = z.ram
             /\ y.pc = z.pc \/ (i.op \in Jumps /\ y.pc = i.v)
             /\ y.iff = z.iff \/ y.iff = FALSE
             /\ i.op = "ei" => y.delay = TRUE
             /\ i.op # "ei" => y.delay = z.delay
             /\ y.request = z.request \/ y.request = FALSE
<1> DEFINE y == ExecControl(z, i)
<1>1. CASE i.op = "jrnc"
  <2>1. y = IF z.f.c = 0 THEN [z EXCEPT !.pc = i.v] ELSE z
    BY <1>1 DEF ExecControl, Jump
  <2> HIDE DEF y
  <2>2. y = [z EXCEPT !.pc = i.v] \/ y = z
    BY <2>1
  <2> USE DEF Jumps
  <2>3. CASE y = z
    BY <1>1, <2>3 DEF y
  <2>4. CASE y = [z EXCEPT !.pc = i.v]
    <3>1. /\ Shape(y) /\ y.sp = z.sp /\ y.ram = z.ram /\ y.pc = i.v /\ y.iff = z.iff
          /\ y.delay = z.delay /\ y.request = z.request
      BY <2>4 DEF Shape, Fields
    <3> QED BY <1>1, <3>1 DEF y
  <2> QED BY <2>2, <2>3, <2>4
<1>2. CASE i.op = "djnz"
  <2> DEFINE x == [z EXCEPT !.r = [z.r EXCEPT !.b = (z.r.b + 255) % 256]]
  <2>1. y = Jump(x, i.v, x.r.b # 0)
    BY <1>2 DEF ExecControl
  <2>2. KeepsRam(x, z)
    BY Assigned
  <2> HIDE DEF x, y
  <2>3. y = [x EXCEPT !.pc = i.v] \/ y = x
    BY <2>1 DEF Jump
  <2>4. CASE y = x
    BY <1>2, <2>2, <2>4 DEF y, Keeps, KeepsRam
  <2>5. CASE y = [x EXCEPT !.pc = i.v]
    <3>1. /\ Shape(y) /\ y.sp = x.sp /\ y.ram = x.ram /\ y.pc = i.v /\ y.iff = x.iff
          /\ y.delay = x.delay /\ y.request = x.request
      BY <2>2, <2>5 DEF Shape, Fields, Keeps, KeepsRam
    <3> QED BY <1>2, <2>2, <3>1 DEF y, Keeps, KeepsRam, Jumps
  <2> QED BY <2>3, <2>4, <2>5
<1>3. CASE i.op = "ei"
  <2>1. y = [z EXCEPT !.delay = TRUE]
    BY <1>3 DEF ExecControl, Ei
  <2>2. /\ Shape(y) /\ y.sp = z.sp /\ y.ram = z.ram /\ y.pc = z.pc /\ y.iff = z.iff
        /\ y.delay = TRUE /\ y.request = z.request
    BY <2>1 DEF Shape, Fields
  <2> HIDE DEF y
  <2> QED BY <1>3, <2>2 DEF y
<1>4. CASE i.op = "di"
  <2>1. y = [z EXCEPT !.iff = FALSE]
    BY <1>4 DEF ExecControl
  <2>2. /\ Shape(y) /\ y.sp = z.sp /\ y.ram = z.ram /\ y.pc = z.pc /\ y.iff = FALSE
        /\ y.delay = z.delay /\ y.request = z.request
    BY <2>1 DEF Shape, Fields
  <2> HIDE DEF y
  <2> QED BY <1>4, <2>2 DEF y
<1>5. CASE i.op = "in"
  <2>1. y = [z EXCEPT !.request = FALSE, !.r = [z.r EXCEPT !.a = 0]]
    BY <1>5 DEF ExecControl
  <2>2. /\ Shape(y) /\ y.sp = z.sp /\ y.ram = z.ram /\ y.pc = z.pc /\ y.iff = z.iff
        /\ y.delay = z.delay /\ y.request = FALSE
    BY <2>1 DEF Shape, Fields
  <2> HIDE DEF y
  <2> QED BY <1>5, <2>2 DEF y
<1>6. CASE i.op = "rom"
  <2>1. PICK v : v = (i.v = 1)
    OBVIOUS
  <2>2. y = [z EXCEPT !.romOut = v]
    BY <1>6, <2>1, Zenon DEF ExecControl
  <2> HIDE DEF y
  <2>3. KeepsRam(y, z)
    <3>1. KeepsRam([z EXCEPT !.romOut = v], z)
      BY Assigned, Zenon
    <3> QED BY <2>2, <3>1, Zenon
  <2> QED BY <1>6, <2>3 DEF y, Keeps, KeepsRam
<1> QED BY <1>1, <1>2, <1>3, <1>4, <1>5, <1>6 DEF Jumps

LEMMA Wraps ==
  ASSUME NEW w \in Int, 0 <= w, w <= 65535
  PROVE  /\ w >= 2 => Below(w, 2) = w - 2
         /\ \A k \in 0 .. 4 : w + k <= 65535 => Above(w, k) = w + k
         /\ \A k \in 0 .. 4 : Above(w, k) \in Nat /\ Below(Above(w, k), 2) \in Nat
BY Z3 DEF Below, Above

LEMMA Pushes ==
  ASSUME NEW z, Shape(z), z.sp \in Int, 2 <= z.sp, z.sp <= 65535, NEW w
  PROVE  LET y == pushw(z, w)
         IN  /\ Shape(y) /\ y.sp = z.sp - 2 /\ y.pc = z.pc /\ y.iff = z.iff
             /\ y.delay = z.delay /\ y.request = z.request
             /\ \A x \in Cells \ {z.sp - 2, z.sp - 1} : y.ram[x] = z.ram[x]
             /\ z.sp - 2 \in Cells /\ z.sp - 1 \in Cells
                  => y.ram[z.sp - 2] = w % 256 /\ y.ram[z.sp - 1] = w \div 256
<1>1. PICK l : l = w % 256
  OBVIOUS
<1>2. PICK h : h = w \div 256
  OBVIOUS
<1>3. Below(z.sp, 2) = z.sp - 2 /\ Above(z.sp - 2, 1) = z.sp - 1
  <2> DEFINE s == z.sp
  <2>1. s \in Int /\ 2 <= s /\ s <= 65535
    OBVIOUS
  <2> HIDE DEF s
  <2>2. s - 2 \in Int /\ 0 <= s - 2 /\ s - 2 <= 65535 /\ (s - 2) + 1 = s - 1 /\ 1 \in 0 .. 4
        /\ (s - 2) + 1 <= 65535 /\ 0 <= s
    BY <2>1
  <2> QED BY <2>1, <2>2, Wraps DEF s
<1>4. pushw(z, w) = [z EXCEPT !.sp = z.sp - 2,
                              !.ram = [z.ram EXCEPT ![z.sp - 2] = l, ![z.sp - 1] = h]]
  <2>1. PICK s : s = z.sp - 2
    OBVIOUS
  <2>2. PICK u : u = z.sp - 1
    OBVIOUS
  <2>3. Below(z.sp, 2) = s /\ Above(s, 1) = u
    BY <1>3, <2>1, <2>2
  <2> DEFINE With(a, b, c, d) == [z EXCEPT !.sp = a, !.ram = [z.ram EXCEPT ![a] = b, ![c] = d]]
  <2>4. pushw(z, w) = With(Below(z.sp, 2), w % 256, Above(Below(z.sp, 2), 1), w \div 256)
    BY DEF pushw
  <2>5. With(z.sp - 2, l, z.sp - 1, h) = [z EXCEPT !.sp = z.sp - 2,
                                !.ram = [z.ram EXCEPT ![z.sp - 2] = l, ![z.sp - 1] = h]]
    OBVIOUS
  <2> HIDE DEF With
  <2>6. pushw(z, w) = With(s, l, u, h)
    BY <1>1, <1>2, <2>3, <2>4
  <2> QED BY <2>1, <2>2, <2>5, <2>6
<1> DEFINE y == pushw(z, w)
<1>5. /\ Shape(y) /\ y.sp = z.sp - 2 /\ y.pc = z.pc /\ y.iff = z.iff
      /\ y.delay = z.delay /\ y.request = z.request
      /\ y.ram = [z.ram EXCEPT ![z.sp - 2] = l, ![z.sp - 1] = h]
  BY <1>4 DEF Shape, Fields
<1> HIDE DEF y
<1>6. \A x \in Cells \ {z.sp - 2, z.sp - 1} : y.ram[x] = z.ram[x]
  BY <1>5 DEF Shape
<1>7. z.sp - 2 \in Cells /\ z.sp - 1 \in Cells
        => y.ram[z.sp - 2] = l /\ y.ram[z.sp - 1] = h
  BY <1>5 DEF Shape
<1> QED BY <1>1, <1>2, <1>5, <1>6, <1>7 DEF y

LEMMA Drops ==
  ASSUME NEW z, Shape(z), z.sp \in Int, 0 <= z.sp, z.sp <= 65533
  PROVE  LET y == Drop(z)
         IN  /\ Shape(y) /\ y.sp = z.sp + 2 /\ y.pc = z.pc /\ y.iff = z.iff
             /\ y.delay = z.delay /\ y.request = z.request /\ y.ram = z.ram
<1>1. Above(z.sp, 2) = z.sp + 2
  <2>1. PICK s : s = z.sp
    OBVIOUS
  <2>2. s \in Int /\ 0 <= s /\ s + 2 <= 65535 /\ s <= 65535 /\ 2 \in 0 .. 4
    BY <2>1
  <2> QED BY <2>1, <2>2, Wraps
<1>2. Drop(z) = [z EXCEPT !.sp = z.sp + 2]
  BY <1>1 DEF Drop
<1> QED BY <1>2 DEF Shape, Fields

-----------------------------------------------------------------------------
\* The inductive invariant: outside the handler the stack is empty; inside, it
\* holds the address to return to, which is the program's, and what the handler
\* says; interrupts are open there for the RETI alone.
Elsewhere(a) == a \in Nat /\ a \notin DOMAIN Depth

InProgram(z) == Elsewhere(z.pc) /\ z.sp = Top

InHandler(z, code) == /\ z.pc \in DOMAIN Depth /\ z.sp = Top - 2 - Depth[z.pc]
                      /\ z.iff => code[z.pc].op = "reti"
                      /\ Elsewhere(z.ram[Top - 2] + 256 * z.ram[Top - 1])

Sound(z, code) == /\ Shape(z) /\ z.iff \in BOOLEAN /\ z.request \in BOOLEAN /\ z.delay = FALSE
                  /\ InProgram(z) \/ InHandler(z, code)

StackInv == prog \in DOMAIN Programs /\ Sound(cpu, Programs[prog])

LEMMA StackPlace ==
  /\ Top \in Int /\ 6 <= Top /\ Top <= 65535 /\ RomSize \in Nat /\ RomSize <= Top - 6
  /\ \A k \in 1 .. 6 : Top - k \in Cells
  /\ \A a \in DOMAIN Depth : Depth[a] \in {0, 2, 4}
<1>1. Top \in Int /\ 6 <= Top /\ Top <= 65535 /\ RomSize \in Nat /\ RomSize <= Top - 6
  BY AddressAssumption, DepthAssumption, WordIs
<1>2. ASSUME NEW k \in 1 .. 6 PROVE Top - k \in Cells
  <2>1. Top - k \in Top - 6 .. Top - 1
    BY <1>1
  <2> QED BY <2>1, DepthAssumption
<1>3. \A a \in DOMAIN Depth : Depth[a] \in {0, 2, 4}
  BY DepthAssumption
<1> QED BY <1>1, <1>2, <1>3

LEMMA ServesRight ==
  ASSUME NEW y, Shape(y), y.iff \in BOOLEAN, y.request \in BOOLEAN, y.delay \in BOOLEAN,
         NEW code,
         \/ InProgram(y)
         \/ /\ InHandler(y, code) /\ (y.delay => code[y.pc].op = "reti") /\ ~ y.iff
  PROVE  Sound(process_interrupts(y), code)
<1> DEFINE z == process_interrupts(y)
<1>1. CASE y.delay
  <2>1. z = [y EXCEPT !.delay = FALSE, !.iff = TRUE]
    BY <1>1 DEF process_interrupts
  <2>2. /\ Shape(z) /\ z.delay = FALSE /\ z.iff = TRUE /\ z.pc = y.pc /\ z.sp = y.sp
        /\ z.ram = y.ram /\ z.request = y.request
    BY <2>1 DEF Shape, Fields
  <2> HIDE DEF z
  <2> QED BY <1>1, <2>2 DEF z, Sound, InProgram, InHandler
<1>2. CASE ~ y.delay /\ y.request /\ y.iff
  <2>1. InProgram(y)
    BY <1>2
  <2> DEFINE p == pushw(y, y.pc)
  <2>2. /\ Shape(p) /\ p.sp = Top - 2 /\ p.delay = y.delay /\ p.request = y.request
        /\ p.ram[Top - 2] = y.pc % 256 /\ p.ram[Top - 1] = y.pc \div 256
    BY <2>1, StackPlace, Pushes DEF InProgram
  <2>3. z = [[p EXCEPT !.pc = Handler] EXCEPT !.iff = FALSE]
    BY <1>2 DEF process_interrupts, call
  <2> HIDE DEF p
  <2>4. /\ Shape(z) /\ z.delay = FALSE /\ z.iff = FALSE /\ z.pc = Handler /\ z.sp = Top - 2
        /\ z.ram = p.ram /\ z.request = y.request
    BY <1>2, <2>2, <2>3 DEF Shape, Fields
  <2> HIDE DEF z
  <2>5. z.ram[Top - 2] + 256 * z.ram[Top - 1] = y.pc
    <3>1. y.pc \in Nat
      BY <2>1 DEF InProgram, Elsewhere
    <3>2. PICK a \in Nat : a = y.pc
      BY <3>1
    <3>3. (a % 256) + 256 * (a \div 256) = a
      BY Z3
    <3> QED BY <2>2, <2>4, <3>2, <3>3
  <2>6. InHandler(z, code)
    <3>1. z.pc \in DOMAIN Depth /\ Depth[z.pc] = 0
      BY <2>4, DepthAssumption
    <3>2. z.sp = Top - 2 - Depth[z.pc]
      BY <2>4, <3>1, StackPlace
    <3> QED BY <2>1, <2>4, <2>5, <3>1, <3>2 DEF InHandler, InProgram
  <2> QED BY <2>4, <2>6 DEF z, Sound
<1>3. CASE ~ y.delay /\ ~ (y.request /\ y.iff)
  <2>1. z = y
    BY <1>3 DEF process_interrupts
  <2> HIDE DEF z
  <2> QED BY <1>3, <2>1 DEF z, Sound
<1> QED BY <1>1, <1>2, <1>3

\* The instructions that leave the stack pointer alone.
Level == (Straight \cup Jumps) \ (Grows \cup Shrinks)

LEMMA Executes ==
  ASSUME NEW z, Shape(z), NEW i, i.op \in Level
  PROVE  LET y == exec_opcode(z, i)
         IN  /\ Shape(y) /\ y.sp = z.sp /\ (~ WritesMemory(i) => y.ram = z.ram)
             /\ y.pc = Above(z.pc, i.len) \/ (i.op \in Jumps /\ y.pc = i.v)
             /\ y.iff = z.iff \/ y.iff = FALSE
             /\ i.op = "ei" => y.delay = TRUE
             /\ i.op # "ei" => y.delay = z.delay
             /\ y.request = z.request \/ y.request = FALSE
<1> DEFINE x == [z EXCEPT !.pc = Above(z.pc, i.len)]
           y == exec_opcode(z, i)
<1>1. /\ Shape(x) /\ x.sp = z.sp /\ x.pc = Above(z.pc, i.len) /\ x.ram = z.ram
      /\ x.iff = z.iff /\ x.delay = z.delay /\ x.request = z.request
  BY DEF Shape, Fields
<1>2. y = IF i.op \in Loads THEN ExecLoad(x, i)
          ELSE IF i.op \in Arithmetic THEN ExecArithmetic(x, i)
          ELSE IF i.op \in Bits THEN ExecBits(x, i)
          ELSE ExecControl(x, i)
  BY Zenon DEF exec_opcode
<1> HIDE DEF x, y
<1>3. CASE i.op \in {"ld", "ldn"} \cup Arithmetic \cup Bits
  <2>1. Keeps(y, x) /\ (~ WritesMemory(i) => KeepsRam(y, x))
    <3>1. CASE i.op \in {"ld", "ldn"}
      BY <1>1, <1>2, <3>1, Loaded DEF Loads
    <3>2. CASE i.op \in Arithmetic
      <4>1. i.op \notin Loads
        BY <3>2 DEF Arithmetic, Loads
      <4> QED BY <1>1, <1>2, <3>2, <4>1, Reckoned
    <3>3. CASE i.op \in Bits
      <4>1. i.op \notin Loads /\ i.op \notin Arithmetic
        BY <3>3 DEF Arithmetic, Loads, Bits
      <4> QED BY <1>1, <1>2, <3>3, <4>1, BitsTurned
    <3> QED BY <1>3, <3>1, <3>2, <3>3
  <2>2. i.op # "ei"
    BY <1>3 DEF Arithmetic, Bits
  <2> QED BY <1>1, <2>1, <2>2 DEF Keeps, KeepsRam, y
<1>4. CASE i.op \in Jumps \cup {"ei", "di", "in", "rom"}
  <2>1. y = ExecControl(x, i)
    BY <1>2, <1>4 DEF Loads, Arithmetic, Bits, Jumps
  <2>2. /\ Shape(y) /\ y.sp = x.sp /\ y.ram = x.ram
        /\ y.pc = x.pc \/ (i.op \in Jumps /\ y.pc = i.v)
        /\ y.iff = x.iff \/ y.iff = FALSE
        /\ i.op = "ei" => y.delay = TRUE
        /\ i.op # "ei" => y.delay = x.delay
        /\ y.request = x.request \/ y.request = FALSE
    BY <1>1, <1>4, <2>1, Controlled, Zenon
  <2> QED BY <1>1, <2>2 DEF y
<1>5. i.op \in ({"ld", "ldn"} \cup Arithmetic \cup Bits) \cup (Jumps \cup {"ei", "di", "in", "rom"})
  BY DEF Level, Straight, Loads, Grows, Shrinks
<1> QED BY <1>3, <1>4, <1>5

LEMMA ExecutesBlock ==
  ASSUME NEW z, Shape(z), NEW i, i.op \in {"block", "repeat"},
         i.k \in {"ld", "cp", "in", "ot"}
  PROVE  LET y == exec_opcode(z, i)
             a == Above(z.pc, i.len)
         IN  /\ Shape(y) /\ y.sp = z.sp
             /\ y.pc = a \/ (i.op = "repeat" /\ y.pc = Below(a, 2))
             /\ y.iff = z.iff /\ y.delay = z.delay /\ y.request = z.request
<1> DEFINE x == [z EXCEPT !.pc = Above(z.pc, i.len)]
           y == exec_opcode(z, i)
<1>1. /\ Shape(x) /\ x.sp = z.sp /\ x.pc = Above(z.pc, i.len) /\ x.ram = z.ram
      /\ x.iff = z.iff /\ x.delay = z.delay /\ x.request = z.request
  BY DEF Shape, Fields
<1>2. y = ExecControl(x, i)
  <2>1. i.op \notin Loads /\ i.op \notin Arithmetic /\ i.op \notin Bits
    BY DEF Loads, Arithmetic, Bits
  <2> QED BY <2>1, Zenon DEF exec_opcode
<1> HIDE DEF x, y
<1>3. PICK up : up = (i.v = 1)
  OBVIOUS
<1>4. CASE i.op = "block"
  <2> DEFINE b == Block(x, i.k, up)
  <2>1. y = [b EXCEPT !.cyc = b.cyc + 16]
    BY <1>2, <1>3, <1>4, Zenon DEF ExecControl
  <2>2. PICK n : n = b.cyc + 16
    OBVIOUS
  <2>3. Keeps(b, x) /\ Shape(b)
    BY <1>1, AnyBlock DEF Keeps
  <2> HIDE DEF b
  <2>4. y = [b EXCEPT !.cyc = n]
    BY <2>1, <2>2
  <2>5. Keeps(y, b)
    BY <2>3, <2>4, Assigned DEF KeepsRam
  <2> QED BY <1>1, <1>4, <2>3, <2>5 DEF Keeps, y
<1>5. CASE i.op = "repeat"
  <2> DEFINE b == Repeat(x, i.k, up)
  <2>1. y = [b EXCEPT !.cyc = b.cyc + 16]
    BY <1>2, <1>3, <1>5, Zenon DEF ExecControl
  <2>2. PICK n : n = b.cyc + 16
    OBVIOUS
  <2>3. /\ Shape(b) /\ b.sp = x.sp /\ (b.pc = x.pc \/ b.pc = Below(x.pc, 2))
        /\ b.iff = x.iff /\ b.delay = x.delay /\ b.request = x.request
    BY <1>1, AnyBlock DEF Keeps
  <2> HIDE DEF b
  <2>4. y = [b EXCEPT !.cyc = n]
    BY <2>1, <2>2
  <2>5. Keeps(y, b)
    <3>1. KeepsRam(y, b)
      BY <2>3, <2>4, Assigned, Zenon
    <3> QED BY <3>1 DEF KeepsRam
  <2>6. /\ Shape(y) /\ y.sp = b.sp /\ y.pc = b.pc
        /\ y.iff = b.iff /\ y.delay = b.delay /\ y.request = b.request
    BY <2>5 DEF Keeps
  <2> QED BY <1>1, <1>5, <2>3, <2>6 DEF y
<1> QED BY <1>4, <1>5

LEMMA Fetched ==
  ASSUME NEW z, NEW i
  PROVE  LET x == [z EXCEPT !.pc = Above(z.pc, i.len)]
         IN  /\ i.op \in Loads => exec_opcode(z, i) = ExecLoad(x, i)
             /\ i.op \notin Loads \cup Arithmetic \cup Bits
                  => exec_opcode(z, i) = ExecControl(x, i)
BY Zenon DEF exec_opcode

LEMMA ExecutesPush ==
  ASSUME NEW z, Shape(z), z.sp \in Int, 2 <= z.sp, z.sp <= 65535, NEW i, i.op \in Grows
  PROVE  LET y == exec_opcode(z, i)
         IN  /\ Shape(y) /\ y.sp = z.sp - 2 /\ y.pc = Above(z.pc, i.len)
             /\ y.iff = z.iff /\ y.delay = z.delay /\ y.request = z.request
             /\ \A x \in Cells \ {z.sp - 2, z.sp - 1} : y.ram[x] = z.ram[x]
<1> DEFINE x == [z EXCEPT !.pc = Above(z.pc, i.len)]
           y == exec_opcode(z, i)
<1>1. /\ Shape(x) /\ x.sp = z.sp /\ x.pc = Above(z.pc, i.len) /\ x.ram = z.ram
      /\ x.iff = z.iff /\ x.delay = z.delay /\ x.request = z.request
  BY DEF Shape, Fields
<1>2. y = ExecLoad(x, i)
  <2>1. i.op \in Loads
    BY DEF Loads, Grows
  <2> QED BY <2>1, Fetched
<1> HIDE DEF x, y
<1>3. PICK w : y = pushw(x, w)
  <2>1. y = pushw(x, IF i.op = "push" THEN Pair(x.r, i.x) ELSE 256 * x.r.a + GetF(x.f))
    BY <1>2 DEF ExecLoad, Grows
  <2> QED BY <2>1
<1>4. /\ Shape(y) /\ y.sp = x.sp - 2 /\ y.pc = x.pc /\ y.iff = x.iff
      /\ y.delay = x.delay /\ y.request = x.request
      /\ \A c \in Cells \ {x.sp - 2, x.sp - 1} : y.ram[c] = x.ram[c]
  BY <1>1, <1>3, Pushes
<1> QED BY <1>1, <1>4 DEF y

LEMMA ExecutesPop ==
  ASSUME NEW z, Shape(z), z.sp \in Int, 0 <= z.sp, z.sp <= 65533, NEW i, i.op \in Shrinks
  PROVE  LET y == exec_opcode(z, i)
         IN  /\ Shape(y) /\ y.sp = z.sp + 2 /\ y.pc = Above(z.pc, i.len)
             /\ y.iff = z.iff /\ y.delay = z.delay /\ y.request = z.request /\ y.ram = z.ram
<1> DEFINE x == [z EXCEPT !.pc = Above(z.pc, i.len)]
           y == exec_opcode(z, i)
           d == Drop(x)
<1>1. /\ Shape(x) /\ x.sp = z.sp /\ x.pc = Above(z.pc, i.len) /\ x.ram = z.ram
      /\ x.iff = z.iff /\ x.delay = z.delay /\ x.request = z.request
  BY DEF Shape, Fields
<1>2. y = ExecLoad(x, i)
  <2>1. i.op \in Loads
    BY DEF Loads, Shrinks
  <2> QED BY <2>1, Fetched
<1> HIDE DEF x, y
<1>3. /\ Shape(d) /\ d.sp = x.sp + 2 /\ d.pc = x.pc /\ d.iff = x.iff
      /\ d.delay = x.delay /\ d.request = x.request /\ d.ram = x.ram
  BY <1>1, Drops
<1>4. KeepsRam(y, d)
  <2>1. CASE i.op = "pop"
    <3>1. y = [d EXCEPT !.r = SetPair(d.r, i.x, Popped(x))]
      BY <1>2, <2>1 DEF ExecLoad
    <3>2. PICK v : v = SetPair(d.r, i.x, Popped(x))
      OBVIOUS
    <3> HIDE DEF d
    <3>3. y = [d EXCEPT !.r = v]
      BY <3>1, <3>2
    <3> QED BY <1>3, <3>3 DEF Shape, Fields, Keeps, KeepsRam
  <2>2. CASE i.op = "popaf"
    <3>1. PICK a : a = Popped(x) \div 256
      OBVIOUS
    <3>2. PICK g : g = SetF(Popped(x) % 256)
      OBVIOUS
    <3>3. y = [d EXCEPT !.r.a = a, !.f = g]
      BY <1>2, <2>2, <3>1, <3>2 DEF ExecLoad
    <3> HIDE DEF d
    <3> QED BY <1>3, <3>3 DEF Shape, Fields, Keeps, KeepsRam
  <2> QED BY <2>1, <2>2 DEF Shrinks
<1> HIDE DEF d
<1> QED BY <1>1, <1>3, <1>4 DEF Keeps, KeepsRam, y

LEMMA ExecutesReturn ==
  ASSUME NEW z, Shape(z), z.sp \in Int, 0 <= z.sp, RomSize <= z.sp, z.sp <= 65533,
         NEW i, i.op = "reti"
  PROVE  LET y == exec_opcode(z, i)
         IN  /\ Shape(y) /\ y.sp = z.sp + 2 /\ y.pc = z.ram[z.sp] + 256 * z.ram[z.sp + 1]
             /\ y.iff = z.iff /\ y.delay = z.delay /\ y.request = z.request /\ y.ram = z.ram
<1> DEFINE x == [z EXCEPT !.pc = Above(z.pc, i.len)]
           y == exec_opcode(z, i)
           d == Drop(x)
<1>1. /\ Shape(x) /\ x.sp = z.sp /\ x.ram = z.ram
      /\ x.iff = z.iff /\ x.delay = z.delay /\ x.request = z.request
  BY DEF Shape, Fields
<1>2. y = ret(x)
  <2>1. y = ExecControl(x, i)
    <3>1. i.op \notin Loads \cup Arithmetic \cup Bits
      BY DEF Loads, Arithmetic, Bits
    <3> QED BY <3>1, Fetched
  <2> HIDE DEF x, y
  <2> QED BY <2>1 DEF ExecControl
<1> HIDE DEF x, y
<1>3. /\ Shape(d) /\ d.sp = x.sp + 2 /\ d.iff = x.iff
      /\ d.delay = x.delay /\ d.request = x.request /\ d.ram = x.ram
  BY <1>1, Drops
<1>4. y = [d EXCEPT !.pc = Popped(x)]
  BY <1>2 DEF ret
<1> HIDE DEF d
<1>5. /\ Shape(y) /\ y.sp = d.sp /\ y.pc = Popped(x) /\ y.iff = d.iff
      /\ y.delay = d.delay /\ y.request = d.request /\ y.ram = d.ram
  BY <1>3, <1>4 DEF Shape, Fields
<1>6. Popped(x) = z.ram[z.sp] + 256 * z.ram[z.sp + 1]
  <2>1. PICK s : s = z.sp
    OBVIOUS
  <2>2. /\ s \in Int /\ 0 <= s /\ s + 1 <= 65535 /\ s <= 65535 /\ 1 \in 0 .. 4
        /\ ~ s < RomSize /\ ~ s + 1 < RomSize
    BY <2>1, AddressAssumption
  <2>3. Above(x.sp, 1) = z.sp + 1
    BY <1>1, <2>1, <2>2, Wraps
  <2>4. mem_read(x, z.sp) = z.ram[z.sp] /\ mem_read(x, z.sp + 1) = z.ram[z.sp + 1]
    BY <1>1, <2>1, <2>2 DEF mem_read
  <2> QED BY <1>1, <2>3, <2>4 DEF Popped, rw
<1> QED BY <1>1, <1>3, <1>5, <1>6 DEF y

LEMMA WhereTo ==
  ASSUME NEW a \in Word, NEW i, i.len \in 1 .. 4, i.op \in Jumps => i.v \in Word,
         NEW b \in NextOf(a, i)
  PROVE  b \in Nat
<1>1. PICK n : n = i.len
  OBVIOUS
<1>2. n \in 0 .. 4 /\ a \in Int /\ 0 <= a /\ a <= 65535
  BY <1>1, WordIs
<1>3. Above(a, n) \in Nat /\ Below(Above(a, n), 2) \in Nat
  BY <1>2, Wraps
<1>4. i.op \in Jumps => i.v \in Nat
  BY WordIs
<1> QED BY <1>1, <1>3, <1>4 DEF NextOf

\* The discipline of GuestAssumption, for one program.
Obeys(code) == /\ DOMAIN Depth \subseteq DOMAIN code
               /\ \A a \in DOMAIN code : a \in Word /\ WellFormed(code[a])
               /\ \A a \in DOMAIN Depth : HandlerKeeps(code, a)
               /\ \A a \in DOMAIN code \ DOMAIN Depth : ProgramKeeps(code, a)

\* One instruction: of the program, the RETI, of the rest of the handler.
LEMMA ProgramRuns ==
  ASSUME NEW code, Obeys(code), NEW z, Sound(z, code), z.pc \in DOMAIN code, InProgram(z)
  PROVE  LET y == exec_opcode(z, code[z.pc])
         IN  /\ Shape(y) /\ InProgram(y)
             /\ y.iff \in BOOLEAN /\ y.delay \in BOOLEAN /\ y.request \in BOOLEAN
<1> DEFINE i == code[z.pc]
           y == exec_opcode(z, i)
<1>1. Shape(z) /\ z.iff \in BOOLEAN /\ z.request \in BOOLEAN /\ z.delay = FALSE
  BY DEF Sound
<1>2. /\ z.pc \in Word /\ i.len \in 1 .. 4 /\ (i.op \in Jumps => i.v \in Word)
      /\ i.op \in Blocks => i.k \in {"ld", "cp", "in", "ot"}
  BY DEF WellFormed, Obeys
<1>3. z.pc \notin DOMAIN Depth /\ z.sp = Top
  BY DEF InProgram, Elsewhere
<1>4. ProgramKeeps(code, z.pc)
  BY <1>3 DEF Obeys
<1>5. \A b \in NextOf(z.pc, i) : Elsewhere(b)
  BY <1>2, <1>4, WhereTo DEF ProgramKeeps, Elsewhere
<1>6. /\ Shape(y) /\ y.sp = Top /\ y.pc \in NextOf(z.pc, i) /\ y.iff \in BOOLEAN
      /\ y.delay \in BOOLEAN /\ y.request \in BOOLEAN
  <2>1. CASE i.op \in Level
    <3>1. /\ Shape(y) /\ y.sp = z.sp
          /\ y.pc = Above(z.pc, i.len) \/ (i.op \in Jumps /\ y.pc = i.v)
          /\ y.iff = z.iff \/ y.iff = FALSE
          /\ i.op = "ei" => y.delay = TRUE
          /\ i.op # "ei" => y.delay = z.delay
          /\ y.request = z.request \/ y.request = FALSE
      BY <1>1, <2>1, Executes
    <3> HIDE DEF i, y
    <3> QED BY <1>1, <1>3, <3>1 DEF NextOf
  <2>2. CASE i.op \in {"block", "repeat"}
    <3>1. i.k \in {"ld", "cp", "in", "ot"}
      BY <1>2, <2>2 DEF Blocks
    <3>2. /\ Shape(y) /\ y.sp = z.sp
          /\ \/ y.pc = Above(z.pc, i.len)
             \/ i.op = "repeat" /\ y.pc = Below(Above(z.pc, i.len), 2)
          /\ y.iff = z.iff /\ y.delay = z.delay /\ y.request = z.request
      BY <1>1, <2>2, <3>1, ExecutesBlock
    <3> HIDE DEF i, y
    <3> QED BY <1>1, <1>3, <3>2 DEF NextOf
  <2> QED BY <1>4, <2>1, <2>2 DEF ProgramKeeps, Level, Blocks
<1>7. InProgram(y)
  BY <1>5, <1>6 DEF InProgram
<1> QED BY <1>6, <1>7

LEMMA HandlerReturns ==
  ASSUME NEW code, Obeys(code), NEW z, Sound(z, code), z.pc \in DOMAIN code, InHandler(z, code),
         code[z.pc].op = "reti"
  PROVE  LET y == exec_opcode(z, code[z.pc])
         IN  /\ Depth[z.pc] = 0 /\ z.sp = Top - 2 /\ Shape(y) /\ InProgram(y)
             /\ y.iff = z.iff /\ y.delay = z.delay /\ y.request = z.request
<1> DEFINE i == code[z.pc]
           y == exec_opcode(z, i)
<1>1. Shape(z) /\ z.iff \in BOOLEAN /\ z.request \in BOOLEAN /\ z.delay = FALSE
  BY DEF Sound
<1>2. /\ z.pc \in DOMAIN Depth /\ z.sp = Top - 2 - Depth[z.pc]
      /\ z.iff => i.op = "reti"
      /\ Elsewhere(z.ram[Top - 2] + 256 * z.ram[Top - 1])
  BY DEF InHandler
<1>3. HandlerKeeps(code, z.pc) /\ Depth[z.pc] \in {0, 2, 4}
  BY <1>2, StackPlace DEF Obeys
<1>4. z.sp = Top - 2
  BY <1>2, <1>3, StackPlace DEF HandlerKeeps
<1>5. /\ Shape(y) /\ y.sp = z.sp + 2 /\ y.pc = z.ram[z.sp] + 256 * z.ram[z.sp + 1]
      /\ y.iff = z.iff /\ y.delay = z.delay /\ y.request = z.request
  BY <1>1, <1>4, StackPlace, ExecutesReturn
<1>6. y.sp = Top /\ z.sp + 1 = Top - 1
  BY <1>4, <1>5, StackPlace
<1>7. InProgram(y)
  BY <1>2, <1>4, <1>5, <1>6 DEF InProgram
<1>8. Depth[z.pc] = 0
  BY <1>3 DEF HandlerKeeps
<1> HIDE DEF y
<1> QED BY <1>4, <1>5, <1>7, <1>8 DEF y

LEMMA HandlerRuns ==
  ASSUME NEW code, Obeys(code), NEW z, Sound(z, code), z.pc \in DOMAIN code, InHandler(z, code),
         code[z.pc].op # "reti"
  PROVE  LET i == code[z.pc]
             y == exec_opcode(z, i)
         IN  /\ i.op \in Straight \cup Jumps /\ ~ WritesMemory(i)
             /\ z.sp = Top - 2 - Depth[z.pc] /\ Depth[z.pc] \in {0, 2, 4}
             /\ Shape(y) /\ InHandler(y, code) /\ y.pc \in NextOf(z.pc, i)
             /\ Depth[y.pc] = DepthAfter(Depth[z.pc], i) /\ Depth[y.pc] \in {0, 2, 4}
             /\ z.iff = FALSE /\ y.iff = FALSE /\ y.request \in BOOLEAN
             /\ y.delay = (i.op = "ei") /\ (y.delay => code[y.pc].op = "reti")
<1> DEFINE i == code[z.pc]
           y == exec_opcode(z, i)
<1>1. Shape(z) /\ z.iff \in BOOLEAN /\ z.request \in BOOLEAN /\ z.delay = FALSE
  BY DEF Sound
<1>2. /\ z.pc \in DOMAIN Depth /\ z.sp = Top - 2 - Depth[z.pc]
      /\ z.iff => i.op = "reti"
      /\ Elsewhere(z.ram[Top - 2] + 256 * z.ram[Top - 1])
  BY DEF InHandler
<1>3. HandlerKeeps(code, z.pc) /\ Depth[z.pc] \in {0, 2, 4}
  BY <1>2, StackPlace DEF Obeys
<1>4. /\ i.op \in Straight \cup Jumps /\ ~ WritesMemory(i)
      /\ \A b \in NextOf(z.pc, i) :
           /\ b \in DOMAIN Depth /\ Depth[b] = DepthAfter(Depth[z.pc], i)
           /\ i.op = "ei" => code[b].op = "reti"
  BY <1>3 DEF HandlerKeeps
<1>5. z.iff = FALSE
  BY <1>1, <1>2
<1>6. PICK d \in {0, 2, 4} : d = Depth[z.pc]
  BY <1>3
<1>7. z.sp = Top - 2 - d /\ z.sp \in Int /\ 0 <= z.sp /\ z.sp <= 65533
  BY <1>2, <1>6, StackPlace
<1>8. /\ Shape(y) /\ y.pc \in NextOf(z.pc, i)
      /\ y.sp = Top - 2 - DepthAfter(d, i)
      /\ y.iff = FALSE /\ y.request \in BOOLEAN /\ y.delay = (i.op = "ei")
      /\ y.ram[Top - 2] = z.ram[Top - 2] /\ y.ram[Top - 1] = z.ram[Top - 1]
  <2>1. CASE i.op \in Level
    <3>1. /\ Shape(y) /\ y.sp = z.sp /\ y.ram = z.ram
          /\ y.pc = Above(z.pc, i.len) \/ (i.op \in Jumps /\ y.pc = i.v)
          /\ y.iff = z.iff \/ y.iff = FALSE
          /\ i.op = "ei" => y.delay = TRUE
          /\ i.op # "ei" => y.delay = z.delay
          /\ y.request = z.request \/ y.request = FALSE
      BY <1>1, <1>4, <2>1, Executes
    <3>2. DepthAfter(d, i) = d
      BY <2>1 DEF DepthAfter, Level
    <3> HIDE DEF i, y
    <3>3. y.pc \in NextOf(z.pc, i)
      BY <3>1 DEF NextOf
    <3>4. y.iff = FALSE /\ y.request \in BOOLEAN /\ y.delay = (i.op = "ei")
      BY <1>1, <1>5, <3>1
    <3>5. y.sp = Top - 2 - DepthAfter(d, i)
      BY <1>7, <3>1, <3>2
    <3> QED BY <3>1, <3>3, <3>4, <3>5
  <2>2. CASE i.op \in Grows
    <3>1. DepthAfter(d, i) = d + 2 /\ d + 2 <= 4
      <4>1. DepthAfter(d, i) = d + 2
        BY <2>2 DEF DepthAfter
      <4>2. Above(z.pc, i.len) \in NextOf(z.pc, i)
        BY DEF NextOf
      <4>3. d + 2 \in {0, 2, 4}
        BY <1>4, <1>6, <4>1, <4>2, StackPlace
      <4> QED BY <4>1, <4>3
    <3>2. 2 <= z.sp
      BY <1>7, <3>1, StackPlace
    <3>3. /\ Shape(y) /\ y.sp = z.sp - 2 /\ y.pc = Above(z.pc, i.len)
          /\ y.iff = z.iff /\ y.delay = z.delay /\ y.request = z.request
          /\ \A x \in Cells \ {z.sp - 2, z.sp - 1} : y.ram[x] = z.ram[x]
      BY <1>1, <1>7, <2>2, <3>2, ExecutesPush
    <3>4. y.ram[Top - 2] = z.ram[Top - 2] /\ y.ram[Top - 1] = z.ram[Top - 1]
      <4>1. Top - 2 \in Cells /\ Top - 1 \in Cells
        BY StackPlace
      <4>2. Top - 2 \notin {z.sp - 2, z.sp - 1} /\ Top - 1 \notin {z.sp - 2, z.sp - 1}
        BY <1>7, StackPlace
      <4> QED BY <3>3, <4>1, <4>2
    <3>5. y.sp = Top - 2 - (d + 2)
      BY <1>7, <3>3, StackPlace
    <3>6. i.op # "ei"
      BY <2>2 DEF Grows
    <3> HIDE DEF i, y
    <3> QED BY <1>1, <1>5, <3>1, <3>3, <3>4, <3>5, <3>6 DEF NextOf
  <2>3. CASE i.op \in Shrinks
    <3>1. DepthAfter(d, i) = d - 2
      BY <2>3 DEF DepthAfter, Grows, Shrinks
    <3>2. /\ Shape(y) /\ y.sp = z.sp + 2 /\ y.pc = Above(z.pc, i.len)
          /\ y.iff = z.iff /\ y.delay = z.delay /\ y.request = z.request /\ y.ram = z.ram
      BY <1>1, <1>7, <2>3, ExecutesPop
    <3>3. y.sp = Top - 2 - (d - 2)
      BY <1>7, <3>2, StackPlace
    <3>4. i.op # "ei"
      BY <2>3 DEF Shrinks
    <3> HIDE DEF i, y
    <3> QED BY <1>1, <1>5, <3>1, <3>2, <3>3, <3>4 DEF NextOf
  <2> QED BY <1>4, <2>1, <2>2, <2>3 DEF Level
<1>9. InHandler(y, code) /\ (y.delay => code[y.pc].op = "reti")
  <2> HIDE DEF i, y
  <2>1. y.pc \in DOMAIN Depth /\ Depth[y.pc] = DepthAfter(Depth[z.pc], i)
    BY <1>4, <1>8
  <2>2. y.sp = Top - 2 - Depth[y.pc]
    BY <1>6, <1>8, <2>1
  <2>3. y.delay => code[y.pc].op = "reti"
    BY <1>4, <1>8
  <2> QED BY <1>2, <1>8, <2>1, <2>2, <2>3 DEF InHandler
<1>10. Depth[y.pc] = DepthAfter(Depth[z.pc], i) /\ Depth[y.pc] \in {0, 2, 4}
  <2> HIDE DEF i, y
  <2> QED BY <1>4, <1>8, StackPlace
<1> HIDE DEF i, y
<1> QED BY <1>2, <1>3, <1>4, <1>5, <1>8, <1>9, <1>10 DEF i, y

LEMMA StepSound ==
  ASSUME NEW code, Obeys(code), NEW z, Sound(z, code), z.pc \in DOMAIN code
  PROVE  Sound(process_interrupts(exec_opcode(z, code[z.pc])), code)
<1> DEFINE i == code[z.pc]
           y == exec_opcode(z, i)
<1>1. z.iff \in BOOLEAN /\ z.request \in BOOLEAN /\ z.delay = FALSE
  BY DEF Sound
<1>2. CASE InProgram(z)
  <2>1. /\ Shape(y) /\ InProgram(y)
        /\ y.iff \in BOOLEAN /\ y.delay \in BOOLEAN /\ y.request \in BOOLEAN
    BY <1>2, ProgramRuns
  <2> HIDE DEF y
  <2> QED BY <2>1, ServesRight DEF y
<1>3. CASE InHandler(z, code) /\ i.op = "reti"
  <2>1. /\ Shape(y) /\ InProgram(y)
        /\ y.iff = z.iff /\ y.delay = z.delay /\ y.request = z.request
    BY <1>3, HandlerReturns
  <2> HIDE DEF y
  <2> QED BY <1>1, <2>1, ServesRight DEF y
<1>4. CASE InHandler(z, code) /\ i.op # "reti"
  <2>1. /\ Shape(y) /\ InHandler(y, code) /\ y.iff = FALSE /\ y.request \in BOOLEAN
        /\ y.delay = (i.op = "ei") /\ (y.delay => code[y.pc].op = "reti")
    BY <1>4, HandlerRuns
  <2> HIDE DEF y
  <2> QED BY <2>1, ServesRight DEF y
<1> QED BY <1>2, <1>3, <1>4 DEF Sound

LEMMA StackInvInit == Z80Init => StackInv
<1> SUFFICES ASSUME Z80Init PROVE StackInv
  OBVIOUS
<1>1. prog \in DOMAIN Programs
  BY DEF Z80Init
<1>2. PICK i : cpu = Fresh(i)
  BY DEF Z80Init
<1>3. DOMAIN FirstRam = Cells
  BY MemoryAssumption
<1>4. /\ DOMAIN cpu = Fields /\ cpu.ram = FirstRam /\ cpu.iff = TRUE /\ cpu.request = FALSE
      /\ cpu.delay = FALSE /\ cpu.pc = Origin /\ cpu.sp = Top
  BY <1>2 DEF Fresh, Fields
<1>5. Origin \in Nat /\ Origin \notin DOMAIN Depth
  BY <1>1, GuestAssumption DEF Origin
<1> QED BY <1>1, <1>3, <1>4, <1>5 DEF StackInv, Sound, Shape, InProgram, Elsewhere

LEMMA StackInvNext == StackInv /\ [Z80Next]_z80Vars => StackInv'
<1> SUFFICES ASSUME StackInv, [Z80Next]_z80Vars PROVE StackInv'
  OBVIOUS
<1> DEFINE code == Programs[prog]
<1>1. prog \in DOMAIN Programs /\ Sound(cpu, code)
  BY DEF StackInv
<1>2. CASE Step
  <2>1. prog' = prog /\ cpu.pc \in DOMAIN code
        /\ cpu' = process_interrupts(exec_opcode(cpu, code[cpu.pc]))
    BY <1>2 DEF Step, Running, z80_step
  <2>2. Obeys(code)
    BY <1>1, GuestAssumption, Zenon DEF Obeys
  <2> HIDE DEF code
  <2>3. Sound(cpu', code)
    BY <1>1, <2>1, <2>2, StepSound
  <2> QED BY <1>1, <2>1, <2>3 DEF StackInv, code
<1>3. CASE Raise
  <2>1. prog' = prog /\ cpu' = [cpu EXCEPT !.request = TRUE]
    BY <1>3 DEF Raise
  <2>2. Shape(cpu)
    BY <1>1 DEF Sound
  <2>3. /\ Shape(cpu') /\ cpu'.request = TRUE /\ cpu'.pc = cpu.pc /\ cpu'.sp = cpu.sp
        /\ cpu'.ram = cpu.ram /\ cpu'.iff = cpu.iff /\ cpu'.delay = cpu.delay
    BY <2>1, <2>2 DEF Shape, Fields
  <2>4. Sound(cpu', code)
    BY <1>1, <2>3 DEF Sound, InProgram, InHandler
  <2> QED BY <1>1, <2>1, <2>4 DEF StackInv
<1>4. CASE UNCHANGED z80Vars
  BY <1>4 DEF z80Vars, StackInv
<1> QED BY <1>2, <1>3, <1>4 DEF Z80Next

\* The stack never holds more than one return address, AF and HL, whatever the
\* program and whenever interrupts come: process_interrupts serves none between
\* EI and the RETI after it (z80.c:671-678).
THEOREM StackStaysFlat == Z80Spec => []StackFlat
<1>1. StackInv => StackFlat
  BY StackPlace DEF StackInv, Sound, InProgram, InHandler, StackFlat
<1> QED BY <1>1, StackInvInit, StackInvNext, PTL DEF Z80Spec

\* BIT n,(HL) writes back what it read, and the program sees no change, whether
\* HL points to RAM or to the ROM over it (z80.c:1476-1478).
THEOREM BitOnlyReads == Z80Spec => BitReadsOnly
<1>1. ASSUME StackInv, Step, Programs[prog][cpu.pc].op = "bit", cpu'.pc # Handler
      PROVE  View(cpu') = View(cpu)
  <2> DEFINE i == Programs[prog][cpu.pc]
             x == [cpu EXCEPT !.pc = Above(cpu.pc, i.len)]
             y == exec_opcode(cpu, i)
  <2>1. Shape(cpu)
    BY <1>1 DEF StackInv, Sound
  <2>2. Shape(x) /\ x.ram = cpu.ram /\ x.romOut = cpu.romOut
    BY <2>1 DEF Shape, Fields
  <2>3. y = BitTest(x, i.x, i.v)
    <3>1. i.op \notin Loads /\ i.op \notin Arithmetic /\ i.op \in Bits
      BY <1>1 DEF Loads, Arithmetic, Bits
    <3>2. y = ExecBits(x, i)
      BY <3>1, Zenon DEF exec_opcode
    <3> HIDE DEF x, y
    <3> QED BY <1>1, <3>2 DEF ExecBits
  <2>4. cpu' = process_interrupts(y)
    BY <1>1 DEF Step, z80_step
  <2> HIDE DEF x, y
  <2>5. PICK g : g = cb_bit(Operand(x, i.x), i.v, x.f)
    OBVIOUS
  <2> DEFINE w == [x EXCEPT !.f = g]
  <2>6. Shape(w) /\ w.ram = cpu.ram /\ w.romOut = cpu.romOut /\ w.r = x.r
    BY <2>2 DEF Shape, Fields
  <2>7. y = Put(w, i.x, Operand(x, i.x))
    BY <2>3, <2>5 DEF BitTest
  <2> HIDE DEF w
  <2> DEFINE hl == Pair(x.r, "hl")
  <2>8. /\ Shape(y) /\ y.romOut = cpu.romOut
        /\ y.ram = cpu.ram \/ y.ram = [cpu.ram EXCEPT ![hl] = mem_read(cpu, hl)]
    <3>1. CASE i.x = "m"
      <4>1. mem_read(x, hl) = mem_read(cpu, hl)
        BY <2>2 DEF mem_read
      <4> HIDE DEF hl
      <4>2. y = [w EXCEPT !.ram = [w.ram EXCEPT ![hl] = mem_read(cpu, hl)]]
        BY <2>6, <2>7, <3>1, <4>1 DEF Put, mem_write, Operand, hl
      <4> QED BY <2>6, <4>2 DEF Shape, Fields
    <3>2. CASE i.x # "m"
      <4>1. y = [w EXCEPT !.r = [w.r EXCEPT ![i.x] = Operand(x, i.x)]]
        BY <2>7, <3>2 DEF Put
      <4> QED BY <2>6, <4>1 DEF Shape, Fields
    <3> QED BY <3>1, <3>2
  <2> HIDE DEF hl
  <2>9. View(y) = View(cpu)
    <3>1. ASSUME NEW c \in Cells PROVE mem_read(y, c) = mem_read(cpu, c)
      BY <2>1, <2>8, <3>1 DEF mem_read, Shape
    <3> QED BY <3>1 DEF View
  <2>10. cpu'.ram = y.ram /\ cpu'.romOut = y.romOut
    <3>1. CASE y.delay
      <4>1. cpu' = [y EXCEPT !.delay = FALSE, !.iff = TRUE]
        BY <2>4, <3>1 DEF process_interrupts
      <4> QED BY <2>8, <4>1 DEF Shape, Fields
    <3>2. CASE ~ y.delay /\ y.request /\ y.iff
      <4>1. cpu' = [call(y, Handler) EXCEPT !.iff = FALSE]
        BY <2>4, <3>2 DEF process_interrupts
      <4>2. cpu'.pc = Handler
        <5>1. Shape(pushw(y, y.pc)) \/ DOMAIN pushw(y, y.pc) = Fields
          BY <2>8 DEF pushw, Shape
        <5> QED BY <4>1, <5>1 DEF call, Shape, Fields
      <4> QED BY <1>1, <4>2
    <3>3. CASE ~ y.delay /\ ~ (y.request /\ y.iff)
      BY <2>4, <3>3 DEF process_interrupts
    <3> QED BY <3>1, <3>2, <3>3
  <2> QED BY <2>9, <2>10 DEF View, mem_read
<1>2. StackInv /\ [Z80Next]_z80Vars
        => [Step /\ Programs[prog][cpu.pc].op = "bit" /\ cpu'.pc # Handler
              => View(cpu') = View(cpu)]_z80Vars
  BY <1>1
<1> QED BY <1>2, StackInvInit, StackInvNext, PTL DEF Z80Spec, BitReadsOnly

\* The byte PUSH AF writes holds every flag that POP AF reads (z80.c:133-153).
THEOREM FlagsComeBack ==
  ASSUME NEW f \in Flags
  PROVE  SetF(GetF(f)) = f
<1> DEFINE v == GetF(f)
<1>1. PICK a \in 0 .. 1, b \in 0 .. 1, h \in 0 .. 1, d \in 0 .. 1, e \in 0 .. 1, g \in 0 .. 1 :
        f = [s |-> a, z |-> b, h |-> h, p |-> d, n |-> e, c |-> g]
  BY DEF Flags
<1>2. v = 128 * a + 64 * b + 16 * h + 4 * d + 2 * e + g
  BY <1>1 DEF GetF
<1> HIDE DEF v
<1>3. /\ Bit(v, 7) = a /\ Bit(v, 6) = b /\ Bit(v, 4) = h /\ Bit(v, 2) = d
      /\ Bit(v, 1) = e /\ Bit(v, 0) = g
  BY <1>2, Z3 DEF Bit
<1> QED BY <1>1, <1>3 DEF SetF, v

\* A word pushed comes back with popw and leaves the stack pointer where it was,
\* also when the stack wraps around the end of the memory, unless the ROM covers
\* one of its bytes (z80.c:87-96).
THEOREM PopUndoesPush ==
  ASSUME NEW z, Shape(z), z.sp \in Word, NEW w \in Word,
         Below(z.sp, 2) \in Cells, Below(z.sp, 1) \in Cells,
         z.romOut \/ (RomSize <= Below(z.sp, 2) /\ RomSize <= Below(z.sp, 1))
  PROVE  Popped(pushw(z, w)) = w /\ Drop(pushw(z, w)).sp = z.sp
<1>1. PICK s \in Int : s = z.sp /\ 0 <= s /\ s <= 65535
  BY WordIs
<1>2. w \in Int /\ 0 <= w
  BY WordIs
<1>3. /\ Above(Below(s, 2), 1) = Below(s, 1) /\ Above(Below(s, 2), 2) = s
      /\ Below(s, 2) # Below(s, 1)
  BY <1>1, Z3 DEF Above, Below
<1>4. PICK l \in Int, h \in Int : l = w % 256 /\ h = w \div 256 /\ l + 256 * h = w
  BY <1>2, Z3
<1> DEFINE With(a, b, c, d) == [z EXCEPT !.sp = a, !.ram = [z.ram EXCEPT ![a] = b, ![c] = d]]
           y == pushw(z, w)
           t == Below(s, 2)
           u == Below(s, 1)
<1>5. y = With(Below(z.sp, 2), w % 256, Above(Below(z.sp, 2), 1), w \div 256)
  BY DEF pushw
<1>6. With(t, l, u, h) = [z EXCEPT !.sp = t, !.ram = [z.ram EXCEPT ![t] = l, ![u] = h]]
  OBVIOUS
<1> HIDE DEF With, y, t, u
<1>7. y = With(t, l, u, h)
  BY <1>1, <1>3, <1>4, <1>5 DEF t, u
<1>8. t \in Cells /\ u \in Cells /\ t # u
  BY <1>1, <1>3 DEF t, u
<1>9. y.sp = t /\ y.ram[t] = l /\ y.ram[u] = h /\ y.romOut = z.romOut /\ DOMAIN y = Fields
  BY <1>6, <1>7, <1>8 DEF Shape, Fields
<1>10. Above(y.sp, 1) = u /\ Above(y.sp, 2) = s
  BY <1>3, <1>9 DEF t, u
<1>11. Popped(y) = l + 256 * h
  <2>1. t \in Int /\ u \in Int
    BY <1>1, <1>8, AddressAssumption, WordIs
  <2>2. z.romOut \/ (RomSize <= t /\ RomSize <= u)
    <3>1. s = z.sp
      BY <1>1
    <3> QED BY <3>1, Zenon DEF t, u
  <2>3. y.romOut \/ (~ t < RomSize /\ ~ u < RomSize)
    BY <1>9, <2>1, <2>2, AddressAssumption
  <2>4. mem_read(y, t) = l /\ mem_read(y, u) = h
    BY <1>9, <2>3 DEF mem_read
  <2> QED BY <1>9, <1>10, <2>4 DEF Popped, rw
<1>12. Drop(y).sp = s
  <2>1. Drop(y) = [y EXCEPT !.sp = s]
    BY <1>10 DEF Drop
  <2> QED BY <1>9, <2>1 DEF Fields
<1> QED BY <1>1, <1>4, <1>11, <1>12 DEF y

-----------------------------------------------------------------------------
(* One round of a block instruction. *)

Registers == [{"a", "b", "c", "d", "e", "h", "l"} -> Byte]

LEMMA ByteIs == \A v : v \in Byte <=> v \in Int /\ 0 <= v /\ v <= 255
BY Z3 DEF Byte

LEMMA PairIs ==
  ASSUME NEW r \in Registers, NEW p \in Pairs
  PROVE  Pair(r, p) \in Word
<1>1. PICK h \in Byte, l \in Byte : h = r[Halves[p][1]] /\ l = r[Halves[p][2]]
  BY DEF Halves, Pairs, Registers
<1>2. 256 * h + l \in Int /\ 0 <= 256 * h + l /\ 256 * h + l <= 65535
  BY ByteIs
<1> QED BY <1>1, <1>2, WordIs DEF Pair

LEMMA PairSet ==
  ASSUME NEW r \in Registers, NEW p \in Pairs, NEW w \in Word
  PROVE  /\ SetPair(r, p, w) \in Registers /\ Pair(SetPair(r, p, w), p) = w
         /\ \A q \in Pairs \ {p} : Pair(SetPair(r, p, w), q) = Pair(r, q)
         /\ SetPair(r, p, w)["a"] = r["a"]
         /\ p # "bc" => SetPair(r, p, w)["b"] = r["b"]
<1>1. PICK h \in Byte, l \in Byte : h = (w \div 256) % 256 /\ l = w % 256 /\ 256 * h + l = w
  <2>1. w \in Int /\ 0 <= w /\ w <= 65535
    BY WordIs
  <2>2. PICK h \in Int, l \in Int : h = (w \div 256) % 256 /\ l = w % 256
    BY <2>1
  <2>3. 0 <= h /\ h <= 255 /\ 0 <= l /\ l <= 255 /\ 256 * h + l = w
    BY <2>1, <2>2, Z3
  <2> QED BY <2>2, <2>3, ByteIs
<1> DEFINE hi == Halves[p][1]
           lo == Halves[p][2]
           Set(u, v) == [r EXCEPT ![hi] = u, ![lo] = v]
<1>2. SetPair(r, p, w) = Set((w \div 256) % 256, w % 256)
  BY DEF SetPair
<1> HIDE DEF Set
<1>3. SetPair(r, p, w) = Set(h, l)
  BY <1>1, <1>2
<1>4. SetPair(r, p, w) = [r EXCEPT ![hi] = h, ![lo] = l]
  BY <1>3 DEF Set
<1>5. CASE p = "bc"
  BY <1>1, <1>4, <1>5 DEF Halves, Pairs, Registers, Pair
<1>6. CASE p = "de"
  BY <1>1, <1>4, <1>6 DEF Halves, Pairs, Registers, Pair
<1>7. CASE p = "hl"
  BY <1>1, <1>4, <1>7 DEF Halves, Pairs, Registers, Pair
<1> QED BY <1>5, <1>6, <1>7 DEF Pairs

LEMMA StepWord ==
  ASSUME NEW w \in Word
  PROVE  Above(w, 1) \in Word /\ Below(w, 1) \in Word
<1>1. w \in Int /\ 0 <= w /\ w <= 65535
  BY WordIs
<1>2. PICK a \in Int, b \in Int : a = Above(w, 1) /\ b = Below(w, 1)
  BY <1>1 DEF Above, Below
<1>3. 0 <= a /\ a <= 65535 /\ 0 <= b /\ b <= 65535
  BY <1>1, <1>2, Z3 DEF Above, Below
<1> QED BY <1>2, <1>3, WordIs

Along(w, up) == IF up THEN Above(w, 1) ELSE Below(w, 1)

LEMMA PairMoved ==
  ASSUME NEW z, Shape(z), z.r \in Registers, NEW p \in Pairs, NEW up
  PROVE  LET y == Move(z, p, up)
         IN  /\ Shape(y) /\ y.r \in Registers /\ Pair(y.r, p) = Along(Pair(z.r, p), up)
             /\ \A q \in Pairs \ {p} : Pair(y.r, q) = Pair(z.r, q)
             /\ y.r["a"] = z.r["a"] /\ (p # "bc" => y.r["b"] = z.r["b"])
             /\ y.ram = z.ram /\ y.f = z.f /\ y.out = z.out /\ y.given = z.given
             /\ y.romOut = z.romOut /\ y.pc = z.pc
<1> DEFINE w == Along(Pair(z.r, p), up)
           y == Move(z, p, up)
<1>1. w \in Word
  BY PairIs, StepWord DEF Along
<1>2. y = [z EXCEPT !.r = SetPair(z.r, p, w)]
  BY Zenon DEF Move, Along
<1> HIDE DEF w
<1>3. PICK r : r = SetPair(z.r, p, w)
  OBVIOUS
<1>4. /\ Shape(y) /\ y.r = r /\ y.ram = z.ram /\ y.f = z.f /\ y.out = z.out
      /\ y.given = z.given /\ y.romOut = z.romOut /\ y.pc = z.pc
  BY <1>2, <1>3 DEF Shape, Fields
<1> HIDE DEF y
<1>5. /\ r \in Registers /\ Pair(r, p) = w
      /\ \A q \in Pairs \ {p} : Pair(r, q) = Pair(z.r, q)
      /\ r["a"] = z.r["a"] /\ (p # "bc" => r["b"] = z.r["b"])
  BY <1>1, <1>3, PairSet
<1> QED BY <1>4, <1>5 DEF w, y

LEMMA CountsDown ==
  ASSUME NEW z, Shape(z), z.r \in Registers
  PROVE  LET y == CountDown(z)
         IN  /\ Shape(y) /\ y.r \in Registers /\ Pair(y.r, "bc") = Below(Pair(z.r, "bc"), 1)
             /\ Pair(y.r, "hl") = Pair(z.r, "hl") /\ Pair(y.r, "de") = Pair(z.r, "de")
             /\ y.r["a"] = z.r["a"] /\ y.ram = z.ram /\ y.f = z.f /\ y.pc = z.pc
             /\ y.romOut = z.romOut
<1>1. CountDown(z) = Move(z, "bc", FALSE)
  BY DEF CountDown, Move
<1>2. PICK up : up = FALSE
  OBVIOUS
<1>3. CountDown(z) = Move(z, "bc", up)
  BY <1>1, <1>2
<1>4. Along(Pair(z.r, "bc"), up) = Below(Pair(z.r, "bc"), 1)
  BY <1>2 DEF Along
<1>5. "bc" \in Pairs /\ "hl" \in Pairs \ {"bc"} /\ "de" \in Pairs \ {"bc"}
  BY DEF Pairs
<1> DEFINE y == Move(z, "bc", up)
<1>6. /\ Shape(y) /\ y.r \in Registers /\ Pair(y.r, "bc") = Along(Pair(z.r, "bc"), up)
      /\ \A q \in Pairs \ {"bc"} : Pair(y.r, q) = Pair(z.r, q)
      /\ y.r["a"] = z.r["a"] /\ y.ram = z.ram /\ y.f = z.f /\ y.pc = z.pc
      /\ y.romOut = z.romOut
  BY <1>5, PairMoved
<1> HIDE DEF y
<1> QED BY <1>3, <1>4, <1>5, <1>6 DEF y

LEMMA CountIs ==
  ASSUME NEW w \in Word
  PROVE  /\ Below(w, 2) # w
         /\ \E k \in Int : k = Below(w, 1) /\ 0 <= k /\ (k = 0 <=> w = 1)
<1>1. PICK u \in Int : u = w /\ 0 <= u /\ u <= 65535
  BY WordIs
<1>2. PICK k \in Int, l \in Int : k = Below(u, 1) /\ l = Below(u, 2)
  BY <1>1 DEF Below
<1>3. 0 <= k /\ (k = 0 <=> u = 1) /\ l # u
  BY <1>1, <1>2, Z3 DEF Below
<1> QED BY <1>1, <1>2, <1>3

\* A round of LDI, LDD, LDIR, LDDR moves one byte as the program sees it, the two
\* pointers by one and the count down, also around the ends of the memory; the
\* instruction is fetched again until the count is 0 (z80.c:537-564, 1579-1599).
THEOREM RoundCopies ==
  ASSUME NEW z, Shape(z), z.r \in Registers, z.f \in Flags, z.pc \in Word, NEW up
  PROVE  LET y == Repeat(z, "ld", up)
             hl == Pair(z.r, "hl")
             de == Pair(z.r, "de")
             bc == Pair(z.r, "bc")
         IN  /\ y.ram = [z.ram EXCEPT ![de] = mem_read(z, hl)]
             /\ Pair(y.r, "hl") = Along(hl, up) /\ Pair(y.r, "de") = Along(de, up)
             /\ Pair(y.r, "bc") = Below(bc, 1) /\ y.r["a"] = z.r["a"]
             /\ y.f.c = z.f.c /\ y.f.z = z.f.z
             /\ y.pc = z.pc <=> bc = 1
             /\ y.f.p = 0 <=> bc = 1
<1> DEFINE hl == Pair(z.r, "hl")
           de == Pair(z.r, "de")
           bc == Pair(z.r, "bc")
           w == mem_write(z, de, mem_read(z, hl))
           m == Move(w, "hl", up)
           n == Move(m, "de", up)
           y == CountDown(n)
<1>1. hl \in Word /\ de \in Word /\ bc \in Word
  BY PairIs DEF Pairs
<1>2. /\ Shape(w) /\ w.ram = [z.ram EXCEPT ![de] = mem_read(z, hl)] /\ w.r = z.r /\ w.f = z.f
      /\ w.pc = z.pc
  <2>1. PICK v : v = mem_read(z, hl)
    OBVIOUS
  <2>2. PICK a : a = de
    OBVIOUS
  <2>3. w = [z EXCEPT !.ram = [z.ram EXCEPT ![a] = v]]
    BY <2>1, <2>2 DEF mem_write
  <2>4. /\ Shape(w) /\ w.ram = [z.ram EXCEPT ![a] = v] /\ w.r = z.r /\ w.f = z.f
        /\ w.pc = z.pc
    BY <2>3 DEF Shape, Fields
  <2> QED BY <2>1, <2>2, <2>4
<1>3. PICK p : p = Truth(Pair(y.r, "bc") > 0)
  OBVIOUS
<1>4. Copy(z, up) = [y EXCEPT !.f.n = 0, !.f.h = 0, !.f.p = p]
  BY <1>3, Zenon DEF Copy, y, n, m, w, hl, de
<1> HIDE DEF w, hl, de, bc
<1>5. /\ Shape(m) /\ m.r \in Registers /\ Pair(m.r, "hl") = Along(hl, up)
      /\ Pair(m.r, "de") = de /\ Pair(m.r, "bc") = bc /\ m.r["a"] = z.r["a"]
      /\ m.ram = w.ram /\ m.f = z.f /\ m.pc = z.pc
  <2>1. "hl" \in Pairs /\ "de" \in Pairs \ {"hl"} /\ "bc" \in Pairs \ {"hl"}
    BY DEF Pairs
  <2>2. Pair(w.r, "hl") = hl /\ Pair(w.r, "de") = de /\ Pair(w.r, "bc") = bc
    BY <1>2 DEF hl, de, bc
  <2>3. /\ Shape(m) /\ m.r \in Registers /\ Pair(m.r, "hl") = Along(Pair(w.r, "hl"), up)
        /\ \A q \in Pairs \ {"hl"} : Pair(m.r, q) = Pair(w.r, q)
        /\ m.r["a"] = w.r["a"] /\ m.ram = w.ram /\ m.f = w.f /\ m.pc = w.pc
    BY <1>2, <2>1, PairMoved
  <2> HIDE DEF m
  <2> QED BY <1>2, <2>1, <2>2, <2>3
<1> HIDE DEF m
<1>6. /\ Shape(n) /\ n.r \in Registers /\ Pair(n.r, "hl") = Along(hl, up)
      /\ Pair(n.r, "de") = Along(de, up) /\ Pair(n.r, "bc") = bc /\ n.r["a"] = z.r["a"]
      /\ n.ram = w.ram /\ n.f = z.f /\ n.pc = z.pc
  <2>1. "de" \in Pairs /\ "hl" \in Pairs \ {"de"} /\ "bc" \in Pairs \ {"de"}
    BY DEF Pairs
  <2>3. /\ Shape(n) /\ n.r \in Registers /\ Pair(n.r, "de") = Along(Pair(m.r, "de"), up)
        /\ \A q \in Pairs \ {"de"} : Pair(n.r, q) = Pair(m.r, q)
        /\ n.r["a"] = m.r["a"] /\ n.ram = m.ram /\ n.f = m.f /\ n.pc = m.pc
    BY <1>5, <2>1, PairMoved
  <2> HIDE DEF n
  <2> QED BY <1>5, <2>1, <2>3
<1> HIDE DEF n
<1>7. /\ Shape(y) /\ y.r \in Registers /\ Pair(y.r, "hl") = Along(hl, up)
      /\ Pair(y.r, "de") = Along(de, up) /\ Pair(y.r, "bc") = Below(bc, 1)
      /\ y.r["a"] = z.r["a"] /\ y.ram = w.ram /\ y.f = z.f /\ y.pc = z.pc
  BY <1>6, CountsDown
<1> HIDE DEF y
<1> DEFINE b == Copy(z, up)
<1>8. /\ b.r = y.r /\ b.ram = y.ram /\ b.pc = y.pc /\ DOMAIN b = Fields
      /\ b.f.c = y.f.c /\ b.f.z = y.f.z /\ b.f.p = p
  <2>1. y.f \in Flags /\ DOMAIN y = Fields
    BY <1>7 DEF Shape
  <2>2. b.r = y.r /\ b.ram = y.ram /\ b.pc = y.pc /\ DOMAIN b = Fields
    BY <1>4, <2>1 DEF Fields
  <2>3. DOMAIN y.f = {"s", "z", "h", "p", "n", "c"}
    BY <2>1 DEF Flags
  <2>4. b.f.c = y.f.c /\ b.f.z = y.f.z /\ b.f.p = p
    <3> DEFINE u == [y EXCEPT !.f.n = 0]
               v == [u EXCEPT !.f.h = 0]
    <3>1. b = [v EXCEPT !.f.p = p]
      BY <1>4, Zenon
    <3>2. u.f = [y.f EXCEPT !.n = 0] /\ DOMAIN u = Fields
      BY <2>1 DEF Fields
    <3> HIDE DEF u
    <3>3. v.f = [u.f EXCEPT !.h = 0] /\ DOMAIN v = Fields
      BY <3>2 DEF Fields
    <3> HIDE DEF v
    <3>4. b.f = [v.f EXCEPT !.p = p]
      BY <3>1, <3>3 DEF Fields
    <3> QED BY <2>3, <3>2, <3>3, <3>4
  <2> QED BY <2>2, <2>4
<1>9. PICK k \in Int : k = Below(bc, 1) /\ 0 <= k /\ (k = 0 <=> bc = 1)
  BY <1>1, CountIs
<1>10. p = 0 <=> bc = 1
  <2>1. p = IF k > 0 THEN 1 ELSE 0
    BY <1>3, <1>7, <1>9 DEF Truth
  <2> QED BY <1>9, <2>1
<1> DEFINE t == Repeat(z, "ld", up)
<1>11. t = IF Pair(b.r, "bc") = 0 THEN b
           ELSE [b EXCEPT !.pc = Below(b.pc, 2), !.cyc = b.cyc + 5]
  BY DEF Repeat, Block, More
<1> HIDE DEF b
<1>12. Pair(b.r, "bc") = k
  BY <1>7, <1>8, <1>9
<1>13. Below(z.pc, 2) # z.pc
  BY CountIs
<1>14. /\ t.r = b.r /\ t.ram = b.ram /\ t.f = b.f
       /\ t.pc = z.pc <=> bc = 1
  <2>1. PICK c : c = b.cyc + 5
    OBVIOUS
  <2>2. CASE k = 0
    BY <1>7, <1>8, <1>9, <1>11, <1>12, <2>2
  <2>3. CASE k # 0
    <3>1. t = [b EXCEPT !.pc = Below(b.pc, 2), !.cyc = c]
      BY <1>11, <1>12, <2>1, <2>3
    <3>2. t.r = b.r /\ t.ram = b.ram /\ t.f = b.f /\ t.pc = Below(b.pc, 2)
      BY <1>8, <3>1 DEF Fields
    <3> QED BY <1>7, <1>8, <1>9, <1>13, <2>3, <3>2
  <2> QED BY <2>2, <2>3
<1> HIDE DEF t
<1> QED BY <1>2, <1>7, <1>8, <1>10, <1>14 DEF t, hl, de, bc

LEMMA BorrowTells ==
  ASSUME NEW i \in Int, NEW j \in Int, NEW v \in Int, NEW c \in 0 .. 1,
         0 <= i, i <= 255, 0 <= j, j <= 255, 0 <= v, v <= 255,
         v - 256 * c = i - j
  PROVE  v = 0 <=> i = j
OBVIOUS

\* A round of CPI, CPD, CPIR, CPDR changes no memory, tells in Z whether A is the
\* byte and leaves the carry; the instruction is fetched again until they are equal
\* or the count is 0 (z80.c:566-582, 1601-1629).
THEOREM RoundSearches ==
  ASSUME NEW z, Shape(z), z.r \in Registers, z.f \in Flags, z.pc \in Word, NEW up,
         mem_read(z, Pair(z.r, "hl")) \in Byte
  PROVE  LET y == Repeat(z, "cp", up)
             hl == Pair(z.r, "hl")
             bc == Pair(z.r, "bc")
             found == mem_read(z, hl) = z.r["a"]
         IN  /\ y.ram = z.ram /\ y.r["a"] = z.r["a"] /\ y.f.c = z.f.c
             /\ Pair(y.r, "hl") = Along(hl, up) /\ Pair(y.r, "de") = Pair(z.r, "de")
             /\ Pair(y.r, "bc") = Below(bc, 1)
             /\ y.f.z = 1 <=> found
             /\ y.f.p = 0 <=> bc = 1
             /\ y.pc = z.pc <=> bc = 1 \/ found
<1> DEFINE hl == Pair(z.r, "hl")
           bc == Pair(z.r, "bc")
           found == mem_read(z, hl) = z.r["a"]
           s == subb(z.r["a"], mem_read(z, hl), 0)
           m == Move(z, "hl", up)
           y == CountDown(m)
<1>1. bc \in Word
  BY PairIs DEF Pairs
<1>2. s.f \in Flags /\ (s.f.z = 1 <=> found) /\ s.f.z \in 0 .. 1
  <2>1. PICK a \in Byte, b \in Byte : a = z.r["a"] /\ b = mem_read(z, hl)
    BY DEF Registers
  <2>2. TakesAway(s, a, b, 0)
    BY <2>1, DifferenceOfBytes
  <2> HIDE DEF s
  <2>3. PICK v \in Int, c \in 0 .. 1 : v = s.val /\ c = s.f.c /\ 0 <= v /\ v <= 255
    BY <2>2, ByteIs DEF TakesAway, Flags
  <2>4. v - 256 * c = a - b /\ (s.f.z = 1 <=> v = 0) /\ s.f \in Flags
    BY <2>1, <2>2, <2>3, ByteIs DEF TakesAway
  <2>5. v = 0 <=> a = b
    <3>1. PICK i \in Int, j \in Int :
            i = a /\ j = b /\ 0 <= i /\ i <= 255 /\ 0 <= j /\ j <= 255
      BY ByteIs
    <3>2. v - 256 * c = i - j /\ (c = 0 \/ c = 1)
      BY <2>3, <2>4, <3>1
    <3>3. v = 0 <=> i = j
      <4>1. 0 <= v /\ v <= 255
        BY <2>3
      <4>2. 0 <= i /\ i <= 255 /\ 0 <= j /\ j <= 255
        BY <3>1
      <4>3. v - 256 * c = i - j
        BY <3>2
      <4> HIDE DEF m, y, hl, bc, found
      <4> QED BY <4>1, <4>2, <4>3, BorrowTells, Zenon
    <3> QED BY <3>1, <3>3
  <2> QED BY <2>1, <2>4, <2>5 DEF Flags
<1>3. PICK p : p = Truth(Pair(y.r, "bc") # 0)
  OBVIOUS
<1>4. Compare(z, up) = [y EXCEPT !.f = [s.f EXCEPT !.c = z.f.c, !.p = p]]
  BY <1>3, Zenon DEF Compare
<1> HIDE DEF s, hl, bc, found
<1>5. /\ Shape(m) /\ m.r \in Registers /\ Pair(m.r, "hl") = Along(hl, up)
      /\ Pair(m.r, "de") = Pair(z.r, "de") /\ Pair(m.r, "bc") = bc /\ m.r["a"] = z.r["a"]
      /\ m.ram = z.ram /\ m.pc = z.pc
  <2>1. "hl" \in Pairs /\ "de" \in Pairs \ {"hl"} /\ "bc" \in Pairs \ {"hl"}
    BY DEF Pairs
  <2>2. /\ Shape(m) /\ m.r \in Registers /\ Pair(m.r, "hl") = Along(Pair(z.r, "hl"), up)
        /\ \A q \in Pairs \ {"hl"} : Pair(m.r, q) = Pair(z.r, q)
        /\ m.r["a"] = z.r["a"] /\ m.ram = z.ram /\ m.pc = z.pc
    BY <2>1, PairMoved
  <2> HIDE DEF m
  <2> QED BY <2>1, <2>2 DEF hl, bc
<1> HIDE DEF m
<1>6. /\ Shape(y) /\ y.r \in Registers /\ Pair(y.r, "hl") = Along(hl, up)
      /\ Pair(y.r, "de") = Pair(z.r, "de") /\ Pair(y.r, "bc") = Below(bc, 1)
      /\ y.r["a"] = z.r["a"] /\ y.ram = z.ram /\ y.pc = z.pc
  BY <1>5, CountsDown
<1> HIDE DEF y
<1> DEFINE b == Compare(z, up)
<1>7. /\ b.r = y.r /\ b.ram = y.ram /\ b.pc = y.pc /\ DOMAIN b = Fields
      /\ b.f = [s.f EXCEPT !.c = z.f.c, !.p = p]
  BY <1>4, <1>6 DEF Shape, Fields
<1>8. b.f.c = z.f.c /\ b.f.p = p /\ b.f.z = s.f.z
  BY <1>2, <1>7 DEF Flags
<1>9. PICK k \in Int : k = Below(bc, 1) /\ 0 <= k /\ (k = 0 <=> bc = 1)
  BY <1>1, CountIs
<1>10. p = 0 <=> bc = 1
  <2>1. p = IF k # 0 THEN 1 ELSE 0
    BY <1>3, <1>6, <1>9 DEF Truth
  <2> QED BY <1>9, <2>1
<1> DEFINE t == Repeat(z, "cp", up)
<1>11. t = IF Pair(b.r, "bc") # 0 /\ b.f.z = 0
           THEN [b EXCEPT !.pc = Below(b.pc, 2), !.cyc = b.cyc + 5] ELSE b
  BY DEF Repeat, Block, More
<1> HIDE DEF b
<1>12. Pair(b.r, "bc") # 0 /\ b.f.z = 0 <=> ~ (bc = 1 \/ found)
  BY <1>2, <1>6, <1>7, <1>8, <1>9
<1>13. Below(z.pc, 2) # z.pc
  BY CountIs
<1>14. /\ t.r = b.r /\ t.ram = b.ram /\ t.f = b.f
       /\ t.pc = z.pc <=> bc = 1 \/ found
  <2>1. PICK c : c = b.cyc + 5
    OBVIOUS
  <2>2. CASE bc = 1 \/ found
    BY <1>6, <1>7, <1>11, <1>12, <2>2
  <2>3. CASE ~ (bc = 1 \/ found)
    <3>1. t = [b EXCEPT !.pc = Below(b.pc, 2), !.cyc = c]
      BY <1>11, <1>12, <2>1, <2>3
    <3>2. t.r = b.r /\ t.ram = b.ram /\ t.f = b.f /\ t.pc = Below(b.pc, 2)
      BY <1>7, <3>1 DEF Fields
    <3> QED BY <1>6, <1>7, <1>13, <2>3, <3>2
  <2> QED BY <2>2, <2>3
<1> HIDE DEF t
<1> QED BY <1>2, <1>6, <1>7, <1>8, <1>10, <1>14 DEF t, hl, bc, found

====
