-------------------------------- MODULE Psg --------------------------------
(***************************************************************************)
(* The sound chip of emu2149.c, read by the audio thread while the main     *)
(* thread creates it, writes its registers for the guest and deletes it.    *)
(* Nothing locks the two against each other but the pausing of the device.  *)
(*                                                                         *)
(* The chip's five dividers (three tones, noise, envelope) work alike and   *)
(* touch each other in the output only, so a behaviour follows one of them: *)
(* part.  Word, Steps and the shift register are those of the code scaled   *)
(* down; what is heard, the mixer and the volume tables are left out.  The  *)
(* shift register is the set of the places whose bit is 1.                  *)
(*                                                                         *)
(* A statement of update_output that reads the divider's period again may   *)
(* find a new one, or the build may have kept the old.                      *)
(***************************************************************************)
EXTENDS Integers

CONSTANTS Parts,     \* subset of {"tone", "noise", "envelope"}
          Periods,   \* what the guest sets a divider to
          Word,      \* the range of its count
          BaseIncr, Geta, \* the chip's ticks per sample, as BaseIncr / Geta
          Steps,     \* of a slope of the envelope (0x20)
          Seed, Taps,\* of the noise (0xffff and 0x24000: places 0 to 15, 14 and 17)
          MaxWrites  \* bound: writes of the guest

ASSUME WordAssumption == Word \in Nat /\ Periods \subseteq 0 .. Word - 1 /\ 0 \in Periods
ASSUME TickAssumption == /\ Geta \in Nat \ {0} /\ BaseIncr \in Nat
                         /\ BaseIncr >= Geta /\ BaseIncr % Geta # 0
ASSUME NoiseAssumption == /\ Seed \subseteq Nat /\ Seed # {} /\ Taps \subseteq Nat
                          /\ \E top \in Taps \ {0} : \A b \in Seed \cup (Taps \ {top}) : b < top
ASSUME StepsAssumption == Steps \in Nat \ {0} /\ Parts \subseteq {"tone", "noise", "envelope"}
ASSUME WritesAssumption == MaxWrites \in Nat

VARIABLES
  pc,         \* main: "start", "new", "ready", "run", "paused", "deleted", "end"
  psg,        \* what the pointer refers to: "null", "raw", "reset", "freed"
  device,     \* the audio device may call back
  phase,      \* audio_callback: "out", "in" between samples, then inside update_output
  part,       \* the divider this behaviour follows
  base_count, incr, \* this sample's ticks, and the fraction carried to the next
  count, freq, seen, \* the divider, and its period as the comparison read it
  edge,       \* a tone's output
  scaler, seed, \* the noise
  env,        \* its ptr, face and pause, and its shape: register 13
  read,       \* env as a statement of update_output found it
  \* History:
  n,          \* steps of the envelope since register 13 was written
  torn,       \* register 13 was not written yet, or last in the course of a sample
  writes

voice == <<base_count, incr, count, freq, seen, edge, scaler, seed, env, read>>
vars == <<pc, psg, device, phase, part, voice, n, torn, writes>>

\* Register 13.
Shapes == [continue : BOOLEAN, attack : BOOLEAN, alternate : BOOLEAN, hold : BOOLEAN]

TypeOK ==
  /\ pc \in {"start", "new", "ready", "run", "paused", "deleted", "end"}
  /\ psg \in {"null", "raw", "reset", "freed"} /\ {device, edge, torn} \subseteq BOOLEAN
  /\ phase \in {"out", "in", "event", "move", "carry", "turn", "subtract"} /\ part \in Parts
  /\ base_count \in 0 .. Geta - 1 /\ incr \in 0 .. BaseIncr /\ scaler \in {0, 1}
  /\ count \in 0 .. Word - 1 /\ {freq, seen} \subseteq Periods /\ seed \subseteq Nat
  /\ {env, read} \subseteq [ptr : 0 .. 2 * Steps - 1, face : BOOLEAN, pause : BOOLEAN, shape : Shapes]
  /\ n \in 0 .. 4 * Steps - 1 /\ writes \in 0 .. MaxWrites

-----------------------------------------------------------------------------
\* The main thread.

Init ==
  /\ pc = "start" /\ psg = "null" /\ device = FALSE /\ phase = "out"
  /\ part \in Parts
  /\ base_count = 0 /\ incr = 0 /\ count = 0 /\ freq = 0 /\ seen = 0
  /\ edge = FALSE /\ scaler = 0 /\ seed = {}
  /\ env = [ptr |-> 0, face |-> FALSE, pause |-> FALSE,
            shape |-> [continue |-> FALSE, attack |-> FALSE, alternate |-> FALSE, hold |-> FALSE]]
  /\ read = env
  /\ n = 0 /\ torn = TRUE /\ writes = 0

MainStep == UNCHANGED <<phase, part, n, torn, writes>>

\* calloc: a shift register of 0, an envelope that is not paused.
PSG_new == /\ pc = "start" /\ pc' = "new" /\ psg' = "raw"
           /\ MainStep /\ UNCHANGED <<device, voice>>

PSG_reset == /\ pc = "new" /\ pc' = "ready" /\ psg' = "reset"
             /\ seed' = Seed /\ env' = [env EXCEPT !.pause = TRUE]
             /\ MainStep /\ UNCHANGED <<device, base_count, incr, count, freq, seen, edge, scaler, read>>

Unpause == /\ pc = "ready" /\ pc' = "run" /\ device' = TRUE
           /\ MainStep /\ UNCHANGED <<psg, voice>>

\* A device told to pause without its lock.
PauseAtOnce == /\ pc = "run" /\ pc' = "paused" /\ device' = FALSE
               /\ MainStep /\ UNCHANGED <<psg, voice>>

\* SDL_PauseAudioDevice takes the device's lock: it waits for the callback's end.
Pause == /\ pc = "run" /\ pc' = "paused" /\ device' = FALSE
         /\ phase = "out"
         /\ MainStep /\ UNCHANGED <<psg, voice>>

PSG_delete == /\ pc = "paused" /\ pc' = "deleted" /\ psg' = "freed"
              /\ MainStep /\ UNCHANGED <<device, voice>>

Forget == /\ pc = "deleted" /\ pc' = "end" /\ psg' = "null"
          /\ MainStep /\ UNCHANGED <<device, voice>>

\* PSG_writeReg of the guest, at any moment.
GuestWrite == /\ pc = "run" /\ writes < MaxWrites /\ writes' = writes + 1
              /\ UNCHANGED <<pc, psg, device, phase, part,
                             base_count, incr, count, seen, edge, scaler, seed, read>>

\* A register of a period; of the two that make one, each sets it anew.
WritePeriod == /\ GuestWrite
               /\ freq' \in Periods \ {freq}
               /\ UNCHANGED <<env, n, torn>>

\* Register 13 starts the envelope.
WriteShape ==
  /\ GuestWrite /\ part = "envelope"
  /\ \E s \in Shapes :
       env' = [ptr |-> IF s.attack THEN 0 ELSE Steps - 1,
               face |-> s.attack, pause |-> FALSE, shape |-> s]
  /\ n' = 0 /\ torn' = (phase \notin {"out", "in"})
  /\ UNCHANGED freq

-----------------------------------------------------------------------------
\* The audio thread.

CallBack == phase = "out" /\ device
SampleStep == UNCHANGED <<pc, psg, device, part, writes>>

\* A callback has at least one sample; without a chip it is silent.
Enter == /\ CallBack /\ psg # "null" /\ phase' = "in"
         /\ SampleStep /\ UNCHANGED <<voice, n, torn>>

\* The sample is done: another, or the end of the callback.
Done == phase' \in {"in", "out"}

\* The count goes on and is compared.
Tick ==
  /\ phase = "in"
  /\ LET b == base_count + BaseIncr
         c == (count + b \div Geta) % Word
     IN  /\ base_count' = b % Geta /\ incr' = b \div Geta
         /\ count' = c /\ seen' = freq
         /\ IF c >= freq THEN phase' = "event" ELSE Done
  /\ SampleStep /\ UNCHANGED <<freq, edge, scaler, seed, env, read, n, torn>>

ToneEvent == /\ phase = "event" /\ part = "tone" /\ phase' = "subtract"
             /\ edge' = ~ edge
             /\ SampleStep
             /\ UNCHANGED <<base_count, incr, count, freq, seen, scaler, seed, env, read, n, torn>>

\* The register after a shift; a 1 that is going out turns the taps over.
Shifted(s) == LET t == IF 0 \in s THEN (s \ Taps) \cup (Taps \ s) ELSE s
              IN  {b - 1 : b \in t \ {0}}

\* Every other time the register shifts.
NoiseEvent ==
  /\ phase = "event" /\ part = "noise" /\ phase' = "subtract"
  /\ scaler' = 1 - scaler
  /\ seed' = IF scaler = 1 THEN seed ELSE Shifted(seed)
  /\ SampleStep /\ UNCHANGED <<base_count, incr, count, freq, seen, edge, env, read, n, torn>>

EnvStep == SampleStep /\ UNCHANGED <<base_count, incr, count, freq, seen, edge, scaler, seed, torn>>

\* The two statements that change the envelope read it and then write.
EnvRead == /\ part = "envelope"
           /\ \/ phase = "event" /\ phase' = "move"
              \/ phase = "carry" /\ phase' = IF env.ptr < Steps THEN "subtract" ELSE "turn"
           /\ read' = env
           /\ EnvStep /\ UNCHANGED <<env, n>>

\* The pointer has one bit more than the envelope needs.
EnvMove ==
  /\ phase = "move" /\ phase' = "carry"
  /\ env' = IF read.pause THEN env
            ELSE [env EXCEPT !.ptr = (read.ptr + (IF read.face THEN 1 ELSE 2 * Steps - 1)) % (2 * Steps)]
  /\ n' = IF n + 1 < 4 * Steps THEN n + 1 ELSE 2 * Steps
  /\ EnvStep /\ UNCHANGED read

\* A hold that does not look at how the slope ends.
TurnForgetsHold(e) == IF e.shape.alternate THEN ~ e.face ELSE e.face

\* Where the next slope goes, or on which side the envelope holds.
Turn(e) == IF e.shape.alternate # e.shape.hold THEN ~ e.face ELSE e.face

\* A carry or borrow ends the slope.
EnvTurn ==
  /\ phase = "turn" /\ phase' = "subtract"
  /\ env' = IF read.shape.continue
            THEN [env EXCEPT !.face = Turn(read), !.pause = @ \/ read.shape.hold,
                             !.ptr = IF Turn(read) THEN 0 ELSE Steps - 1]
            ELSE [env EXCEPT !.pause = TRUE, !.ptr = 0]
  /\ EnvStep /\ UNCHANGED <<read, n>>

\* A divider that takes its period off whatever the ticks of a sample are.
TakenAlways(c, p, q, ticks) == (c + Word - q) % Word

\* What is left of count c, with p for a period and then q.
Taken(c, p, q, ticks) == IF p >= ticks THEN (c + Word - q) % Word ELSE 0

Subtract ==
  /\ phase = "subtract"
  /\ \E p, q \in {seen, freq} : count' = Taken(count, p, q, incr)
  /\ Done
  /\ SampleStep
  /\ UNCHANGED <<base_count, incr, freq, seen, edge, scaler, seed, env, read, n, torn>>

AudioStep == Enter \/ Tick \/ ToneEvent \/ NoiseEvent
             \/ EnvRead \/ EnvMove \/ EnvTurn \/ Subtract

Next ==
  \/ PSG_new \/ PSG_reset \/ Unpause \/ Pause \/ PSG_delete \/ Forget
  \/ WritePeriod \/ WriteShape
  \/ AudioStep

\* SDL's thread goes on calling back.
Spec == Init /\ [][Next]_vars /\ WF_vars(AudioStep)

-----------------------------------------------------------------------------
\* The audio thread is in the chip only while there is one that has been reset: not
\* before, when its noise would be dead, nor after it is freed (main.c:1761, 2317);
\* and the noise never dies, its shift register is never all zeros (emu2149.c:293).
ChipOutlivesCallback == phase # "out" => psg = "reset" /\ seed # {}

\* The shapes of the data sheet: a slope, then others as it says, or the level held.
Shape(s, k) ==
  LET up(c) == s.attack # (s.alternate /\ c = 1)
      slope(c, i) == IF up(c) THEN i ELSE Steps - 1 - i
  IN  IF k < Steps THEN slope(0, k)
      ELSE IF ~ s.continue THEN 0
      ELSE IF s.hold THEN IF s.attack # s.alternate THEN Steps - 1 ELSE 0
      ELSE slope((k \div Steps) % 2, k % Steps)

\* The envelope is where its shape says after so many steps, and never outside the
\* table of volumes, not even when register 13 is written in the course of a sample
\* (emu2149.c:252-283, 338).
EnvFollowsShape ==
  part = "envelope" /\ phase \in {"in", "out"} =>
    env.ptr < Steps /\ (~ torn => env.ptr = Shape(env.shape, n))

\* However the guest's writes met the samples, once it lets the chip alone a count
\* comes back below its period and stays, and the voice goes on: tones and the noise
\* alternate (emu2149.c:279-316).
VoicesSettle ==
  <>[](pc = "run") =>
    /\ <>[](phase \in {"in", "out"} => count < freq \/ count = 0)
    /\ []<>(part = "tone" => edge) /\ []<>(part = "tone" => ~ edge)
    /\ []<>(part = "noise" => 0 \in seed) /\ []<>(part = "noise" => 0 \notin seed)
=============================================================================
