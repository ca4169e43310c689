------------------------------- MODULE Pacing -------------------------------
(***************************************************************************)
(* The speed control of main.c (POSIX): throttle sleeps away what is left  *)
(* of a scanline's time, F8 switches it off, and even then a guest that    *)
(* is in the middle of an HCCA transaction is held to real time.           *)
(*                                                                         *)
(* throttle looks at tv_nsec alone, so its clock falls back to 0 once per  *)
(* second.  next_fire is an unsigned long long and n.tv_nsec a long: in    *)
(* their comparison a negative n counts as larger than anything.           *)
(*                                                                         *)
(* A peer that hangs up is in Nabu, not here.                              *)
(***************************************************************************)
EXTENDS Integers

CONSTANTS Tick,      \* FIRE_TICK, nanoseconds per scanline (63492)
          Second,    \* nanoseconds in a second
          Slack,     \* a host may oversleep by this much
          MaxWork,   \* bound: longest time the host takes for one scanline
          Window,    \* scanlines a transaction counts as in flight (15720 * 2)
          MaxRx      \* bound: bytes waiting in the socket

ASSUME TickAssumption == Tick \in Nat \ {0} /\ Slack \in Nat /\ Second \in Nat
ASSUME SecondAssumption == 4 * (Tick + Slack) <= Second
ASSUME WorkAssumption == MaxWork \in 0 .. Second
ASSUME WindowAssumption == Window \in Nat \ {0} /\ MaxRx \in Nat

VARIABLES
  pc,           \* "cpu" up to the end of the scanline, then "poll"
  tv_nsec,      \* the host's clock
  next_fire,    \* what the next scanline should wait for
  unthrottled, hcca_recent, hcca_dry,
  rx,           \* bytes waiting in the HCCA socket
  \* History:
  age,          \* time since next_fire was set, Second for anything longer
  rolled,       \* tv_nsec has fallen back since
  gap,          \* time since the last call of throttle, Second for anything longer
  waiting,      \* the guest has sent a request and read no answer to it
  quiet,        \* scanlines since the guest last read a byte, at most Window
  last          \* the last call of throttle: did it pace, how long did it sleep

clockVars == <<tv_nsec, next_fire, age, rolled>>
hccaVars == <<hcca_recent, hcca_dry, quiet>>
vars == <<pc, tv_nsec, next_fire, unthrottled, hcca_recent, hcca_dry, rx, age, rolled,
          gap, waiting, quiet, last>>

Least(a, b) == IF a < b THEN a ELSE b

\* The clock after d more nanoseconds, at most a second.
Later(t, d) == IF t + d < Second THEN t + d ELSE t + d - Second

\* next_fire set to the time of the call, not to the end of its scanline.
ArmedNow(t, d) == /\ next_fire' = t
                  /\ tv_nsec' = Later(t, d)
                  /\ age' = d
                  /\ rolled' = (t + d >= Second)

\* next_fire is set t nanoseconds into the second, and d have gone by since.
Armed(t, d) == /\ next_fire' = t + Tick
               /\ tv_nsec' = Later(t, d)
               /\ age' = d
               /\ rolled' = (t + d >= Second)

Init == /\ pc = "cpu" /\ tv_nsec \in 0 .. Second - 1
        /\ next_fire = tv_nsec + Tick /\ age = 0 /\ rolled = FALSE /\ gap = 0
        /\ unthrottled \in BOOLEAN /\ hcca_recent = 0 /\ hcca_dry = FALSE
        /\ rx = 0 /\ waiting = FALSE /\ quiet = Window
        /\ last = [paced |-> FALSE, slept |-> 0]

\* The countdown without its test for zero.
CountBelow(n) == n - 1

Countdown(n) == IF n > 0 THEN n - 1 ELSE 0

\* The CPU has used up its cycles; the loop looks at the modem.
LineDone(d) ==
  /\ pc = "cpu" /\ pc' = "poll"
  /\ tv_nsec' = Later(tv_nsec, d)
  /\ age' = Least(age + d, Second) /\ gap' = Least(gap + d, Second)
  /\ rolled' = (rolled \/ tv_nsec + d >= Second)
  /\ hcca_recent' = Countdown(hcca_recent)
  /\ hcca_dry' = (rx = 0)
  /\ quiet' = Least(quiet + 1, Window)
  /\ UNCHANGED <<next_fire, unthrottled, rx, waiting, last>>

throttle_resync == Armed(tv_nsec, 0)

\* F8 that leaves next_fire where it was.
F8Alone ==
  /\ pc = "poll"
  /\ unthrottled' = ~ unthrottled
  /\ UNCHANGED <<pc, clockVars, gap, hccaVars, rx, waiting, last>>

F8 ==
  /\ pc = "poll"
  /\ unthrottled' = ~ unthrottled
  /\ IF unthrottled THEN throttle_resync ELSE UNCHANGED clockVars
  /\ UNCHANGED <<pc, gap, hccaVars, rx, waiting, last>>

\* F3 sets next_fire as well, before it resets the machine; the bytes that are
\* waiting are dropped by modem_flush.
F3 ==
  /\ pc = "poll"
  /\ Armed(tv_nsec, 0)
  /\ rx' = 0 /\ waiting' = FALSE
  /\ UNCHANGED <<pc, unthrottled, gap, hccaVars, last>>

Paces == ~ unthrottled \/ (hcca_recent > 0 /\ hcca_dry)

\* The sleep asked for, measured against the wrong clock.
Wanted == next_fire - tv_nsec

Sleeps == Wanted >= 0 /\ tv_nsec + Tick > Wanted

throttle ==
  /\ pc = "poll" /\ pc' = "cpu"
  /\ \/ /\ Paces
        /\ \E o \in 0 .. Slack :
             LET s == IF Sleeps THEN Wanted + o ELSE 0 IN
             /\ Armed(tv_nsec, s)
             /\ gap' = s
             /\ last' = [paced |-> TRUE, slept |-> s]
     \/ /\ ~ Paces
        /\ gap' = 0
        /\ last' = [paced |-> FALSE, slept |-> 0]
        /\ UNCHANGED clockVars
  /\ UNCHANGED <<unthrottled, hccaVars, rx, waiting>>

\* port_read of 0x80 that does not mark a transaction.
ReadUnmarked ==
  /\ pc = "cpu" /\ rx > 0
  /\ rx' = rx - 1 /\ quiet' = 0 /\ waiting' = FALSE
  /\ UNCHANGED <<pc, clockVars, gap, unthrottled, hcca_recent, hcca_dry, last>>

\* The guest reads port 0x80 and gets a byte.
GuestRead ==
  /\ pc = "cpu" /\ rx > 0
  /\ rx' = rx - 1
  /\ hcca_recent' = Window
  /\ quiet' = 0 /\ waiting' = FALSE
  /\ UNCHANGED <<pc, clockVars, gap, unthrottled, hcca_dry, last>>

\* The guest writes a request to port 0x80.
GuestRequest ==
  /\ pc = "cpu"
  /\ waiting' = TRUE
  /\ UNCHANGED <<pc, clockVars, gap, unthrottled, hccaVars, rx, last>>

\* The adapter sends a byte.
Reply == /\ rx < MaxRx /\ rx' = rx + 1
         /\ UNCHANGED <<pc, clockVars, gap, unthrottled, hccaVars, waiting, last>>

Next == \/ \E d \in 0 .. MaxWork : LineDone(d)
        \/ F8 \/ F3 \/ throttle
        \/ GuestRead \/ GuestRequest \/ Reply

Spec == Init /\ [][Next]_vars

-----------------------------------------------------------------------------
Calls == [paced : BOOLEAN, slept : 0 .. Second - 1]

\* The clock stays within its second and the countdown within its window; no
\* sleep comes near a second.
TypeOK == /\ pc \in {"cpu", "poll"} /\ tv_nsec \in 0 .. Second - 1
          /\ next_fire \in Tick .. Second - 1 + Tick
          /\ unthrottled \in BOOLEAN /\ hcca_recent \in 0 .. Window /\ hcca_dry \in BOOLEAN
          /\ rx \in 0 .. MaxRx /\ age \in 0 .. Second /\ rolled \in BOOLEAN
          /\ gap \in 0 .. Second /\ waiting \in BOOLEAN /\ quiet \in 0 .. Window /\ last \in Calls

\* A throttled machine never sleeps for longer than a scanline, although the
\* clock of throttle falls back and unpaced lines leave next_fire behind: it can
\* only happen when the host spent more than half a second on the line before
\* (main.c:1224, 1357-1366).
SleepsOneLine ==
  [][~ unthrottled /\ throttle /\ last'.slept > Tick + Slack => 2 * gap > Second]_vars

\* A paced machine is not ahead: when throttle returns, a scanline's time has
\* gone by since next_fire was set, except in the line in which the second ends
\* (and when F3 or F8 set next_fire at the same nanosecond).
TakesItsTime == throttle /\ Paces /\ ~ rolled /\ age > 0 => age + last'.slept >= Tick
NeverAhead == [][TakesItsTime]_vars

\* Unthrottled: a guest that has read a byte within the window and finds the
\* socket dry is paced until the next byte comes (main.c:593, 2424-2433).  A line
\* that ends with a byte there is not, nor a machine that asks for nothing
\* (history.txt:4-5).  What becomes of a guest that has sent a request and read no
\* byte within the window is KeepsRealTime's question.
PacesWhenDry ==
  unthrottled /\ throttle =>
    /\ hcca_dry /\ quiet < Window => last'.paced
    /\ ~ hcca_dry \/ (~ waiting /\ quiet = Window) => ~ last'.paced
TurboWaits == [][PacesWhenDry]_vars

\* So a guest in the middle of an answer is paced in turbo too, and no paced line
\* is shorter than a scanline.
PacedLinesKeepTime == [][TakesItsTime /\ PacesWhenDry]_vars

\* history.txt:6-8 and main.c:201-204: unthrottled, the machine still keeps real
\* time whenever the guest is waiting on the HCCA, for the first byte of an answer
\* as for the next.
KeepsRealTime == [][throttle /\ waiting /\ hcca_dry => last'.paced]_vars
=============================================================================
