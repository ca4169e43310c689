------------------------------ MODULE Keyboard ------------------------------
(***************************************************************************)
(* keyboard_poll of main.c (the SDL one): what the host's key and game     *)
(* controller events send down the NABU's keyboard line.  The arrows and   *)
(* the space bar are keys or, after F6, the joystick; a controller is the  *)
(* joystick while they are keys.  Both keep joybyte, the stick's lines.    *)
(*                                                                         *)
(* A code is the byte the program queues.  A host key is its SDL keysym:   *)
(* ASCII below 128, any number above for the others.  A joystick line has  *)
(* the name of the key that stands for it, so joybyte is a set of keys.    *)
(* Two codes in the buffer are the machine's own: the power-up code of     *)
(* init_cpu and the code of the main loop's watchdog.                      *)
(***************************************************************************)
EXTENDS Integers, Sequences

CONSTANTS Keys,        \* the host keys in use
          ModStates,   \* what SDL_GetModState may return: subsets of Mods
          Arrows,      \* the directions a controller's axes may be pushed in
          Hats,        \* where a controller's hat may point: sets of directions
          Pads,        \* game controllers
          NoPad,       \* no controller is open
          Capacity,    \* codes the keyboard buffer holds (255)
          MaxNotices   \* bound: plug events waiting in SDL's queue

Mods == {"ctrl", "shift", "caps"}

SPACE == 32
BACKSPACE == 8
DELETE == 127
RIGHT == 1000
LEFT == 1001
UP == 1002
DOWN == 1003
PAGEDOWN == 1004
PAGEUP == 1005
INSERT == 1007
LALT == 1008
PAUSE == 1009
END == 1010
RALT == 1018
F6 == 1066

Lines == {LEFT, DOWN, RIGHT, UP, SPACE}
Opposites == {{LEFT, RIGHT}, {UP, DOWN}}

ASSUME KeysAssumption == Keys \subseteq Nat
ASSUME ModAssumption == ModStates \subseteq SUBSET Mods
ASSUME HatAssumption ==
  /\ Arrows \subseteq {LEFT, DOWN, RIGHT, UP} /\ Hats \subseteq SUBSET Arrows
  /\ \A h \in Hats, o \in Opposites : ~ o \subseteq h
ASSUME PadAssumption == NoPad \notin Pads
ASSUME KeyboardCapacity == Capacity \in Nat \ {0}

INSTANCE KeyQueue WITH Codes <- 0 .. 255

VARIABLES
  held,        \* the keys that are down on the host, of those whose release matters
  keyjoy,      \* the arrows and the space bar are the joystick
  joybyte,     \* the lines of the stick that are pushed
  plugged,     \* controllers that are plugged in
  notices,     \* SDL's plug events keyboard_poll has still to handle
  joystick,    \* the controller that is open, or NoPad
  live,        \* controller events are switched on
  buffer,      \* the keyboard buffer
  prefixed,    \* the code the guest has read last was 0x80
  \* History:
  lost,        \* the buffer has refused a code
  down,        \* make codes sent without their break code so far; nothing is
               \* known after a loss, nor of arrows F6 makes the joystick
  swallowed    \* a plug event came while the keys were the joystick

padVars == <<plugged, notices, joystick, live>>
keyVars == <<held, down>>
stickVars == <<keyjoy, joybyte>>
lineVars == <<buffer, lost>>
vars == <<held, keyjoy, joybyte, plugged, notices, joystick, live, buffer, prefixed,
          lost, down, swallowed>>

-----------------------------------------------------------------------------
(* The codes. *)

\* The n-th set of keys has make code 0xE0 + n - 1; the break code is 16 above.
Special == <<{RIGHT}, {LEFT}, {UP}, {DOWN}, {PAGEDOWN}, {PAGEUP}, {DELETE},
             {INSERT}, {LALT, RALT}, {PAUSE}, {END}>>
Specials == UNION {Special[i] : i \in 1 .. 11}
MakeCode(k) == 223 + (CHOOSE i \in 1 .. 11 : k \in Special[i])
BreakCode(k) == MakeCode(k) + 16

ArrowCodes == 224 .. 227

\* 0x80 comes before a stick byte.
Prefix == 128

\* The codes no key sends.
PowerUpCode == 149
WatchdogCode == 148

\* joybyte as it is.
StickByteRaw(S) == (IF LEFT \in S THEN 1 ELSE 0) + (IF DOWN \in S THEN 2 ELSE 0)
                   + (IF RIGHT \in S THEN 4 ELSE 0) + (IF UP \in S THEN 8 ELSE 0)
                   + (IF SPACE \in S THEN 16 ELSE 0)

\* joybyte with bit 0xA0 set: every stick position is a byte of its own.
StickByte(S) == 160 + (IF LEFT \in S THEN 1 ELSE 0) + (IF DOWN \in S THEN 2 ELSE 0)
                    + (IF RIGHT \in S THEN 4 ELSE 0) + (IF UP \in S THEN 8 ELSE 0)
                    + (IF SPACE \in S THEN 16 ELSE 0)
IsStick(c) == c \in 160 .. 191

\* Translation of the ASCII keys: what Ctrl and Shift make of punctuation ...
CtrlFrom == <<91, 92, 93, 45>>                               \* [ \ ] -
CtrlTo == <<27, 28, 29, 31>>
ShiftFrom == <<96, 45, 61, 91, 93, 92, 59, 39, 44, 46, 47>>  \* ` - = [ ] \ ; ' , . /
ShiftTo == <<126, 95, 43, 123, 125, 124, 58, 34, 60, 62, 63>> \* ~ _ + { } | : " < > ?
Mapped(k, from, to) == IF \E i \in DOMAIN from : from[i] = k
                         THEN to[CHOOSE i \in DOMAIN from : from[i] = k] ELSE k
Punctuation(k, m) ==
  LET c == IF "ctrl" \in m THEN Mapped(k, CtrlFrom, CtrlTo) ELSE k
  IN IF "shift" \in m THEN Mapped(c, ShiftFrom, ShiftTo) ELSE c

\* ... of a letter, which Caps Lock and Shift turn over once each ...
Letter(k, m) == IF "ctrl" \in m THEN k - 96
                ELSE IF ("caps" \in m) # ("shift" \in m) THEN k - 32 ELSE k

\* shiftnums of main.c: `)!@#$%^&*('.
ShiftNums == <<41, 33, 64, 35, 36, 37, 94, 38, 42, 40>>

\* Ctrl with a digit sends the digit, without the two exceptions.
DigitPlain(k, m) == IF "ctrl" \notin m /\ "shift" \in m THEN ShiftNums[k - 47] ELSE k

\* ... and of a digit: Ctrl-2 is NUL (as 0xFF), Ctrl-6 is RS.
Digit(k, m) ==
  IF "ctrl" \in m THEN IF k = 50 THEN 255 ELSE IF k = 54 THEN 30 ELSE k
  ELSE IF "shift" \in m THEN ShiftNums[k - 47] ELSE k

Translate(k, m) == LET c == Punctuation(k, m)
                   IN IF c \in 97 .. 122 THEN Letter(c, m)
                      ELSE IF c \in 48 .. 57 THEN Digit(c, m) ELSE c

-----------------------------------------------------------------------------
Init == /\ held = {} /\ keyjoy = FALSE /\ joybyte = {}
        /\ plugged = {} /\ notices = <<>> /\ joystick = NoPad /\ live = FALSE
        /\ buffer = KeyPut(<<>>, PowerUpCode) /\ prefixed = FALSE
        /\ lost = FALSE /\ down = {} /\ swallowed = FALSE

\* keyboard_buffer_put without its test for a full buffer.
SendUnchecked(c) == buffer' = Append(buffer, c) /\ UNCHANGED lost

Send(c) == /\ buffer' = KeyPut(buffer, c)
           /\ lost' = (lost \/ Len(buffer) >= Capacity)
SendTwo(c, d) == /\ buffer' = KeyPut(KeyPut(buffer, c), d)
                 /\ lost' = (lost \/ Len(buffer) + 1 >= Capacity)

\* The guest has been sent every code, or nothing is known any more.
Told(codes) == down' = IF lost' THEN {} ELSE codes

\* send_joybyte with the two codes the wrong way round.
SwappedJoybyte(S) == /\ joybyte' = S
                     /\ SendTwo(StickByte(S), Prefix)
                     /\ UNCHANGED keyjoy

\* A report that is sent before the line it reports is changed.
LateJoybyte(S) == /\ joybyte' = S
                  /\ SendTwo(Prefix, StickByte(joybyte))
                  /\ UNCHANGED keyjoy

\* joybyte becomes S, and send_joybyte reports it.
SendJoybyte(S) == /\ joybyte' = S
                  /\ SendTwo(Prefix, StickByte(S))
                  /\ UNCHANGED keyjoy

\* While the arrows and the space bar are the joystick they are no keys.
Routed(k) == keyjoy /\ k \in Lines

\* SDL_KEYDOWN, the first or a repeated one.  The release of a plain key does
\* nothing, so that it is down need not be kept.
KeyDown(k) == k \in Keys /\ held' = held \cup ({k} \cap (Lines \cup Specials))
KeyUp(k) == k \in held /\ held' = held \ {k}

StickKeyDown(k) ==
  /\ KeyDown(k) /\ Routed(k)
  /\ SendJoybyte(joybyte \cup {k})
  /\ Told(down)
  /\ UNCHANGED <<padVars, prefixed, swallowed>>

StickKeyUp(k) ==
  /\ KeyUp(k) /\ Routed(k)
  /\ SendJoybyte(joybyte \ {k})
  /\ Told(down)
  /\ UNCHANGED <<padVars, prefixed, swallowed>>

SpecialDown(k) ==
  /\ KeyDown(k) /\ k \in Specials \ {DELETE} /\ ~ Routed(k)
  /\ Send(MakeCode(k))
  /\ Told(down \cup {MakeCode(k)})
  /\ UNCHANGED <<stickVars, padVars, prefixed, swallowed>>

\* SDLK_DELETE is 127: it sends its make code and its ASCII code.
DeleteDown(m) ==
  /\ KeyDown(DELETE)
  /\ SendTwo(MakeCode(DELETE), Translate(DELETE, m))
  /\ Told(down \cup {MakeCode(DELETE)})
  /\ UNCHANGED <<stickVars, padVars, prefixed, swallowed>>

\* SDL_KEYUP that knows the arrows only.
SpecialUpArrows(k) ==
  /\ KeyUp(k) /\ k \in Specials /\ ~ Routed(k)
  /\ IF k \in Lines
       THEN Send(BreakCode(k)) /\ Told(down \ {MakeCode(k)})
       ELSE UNCHANGED <<buffer, lost, down>>
  /\ UNCHANGED <<stickVars, padVars, prefixed, swallowed>>

SpecialUp(k) ==
  /\ KeyUp(k) /\ k \in Specials /\ ~ Routed(k)
  /\ Send(BreakCode(k))
  /\ Told(down \ {MakeCode(k)})
  /\ UNCHANGED <<stickVars, padVars, prefixed, swallowed>>

\* SDL_GetModState is read now, not when the key went down: any m may be found.
TextDown(k, m) ==
  /\ KeyDown(k) /\ k < 128 /\ k \notin {BACKSPACE, DELETE} /\ ~ Routed(k)
  /\ Send(Translate(k, m))
  /\ Told(down)
  /\ UNCHANGED <<stickVars, padVars, prefixed, swallowed>>

BackspaceDown ==
  /\ KeyDown(BACKSPACE)
  /\ Send(127)
  /\ Told(down)
  /\ UNCHANGED <<stickVars, padVars, prefixed, swallowed>>

\* F6 that leaves the stick's lines as they are.
F6KeepsLines ==
  /\ KeyDown(F6)
  /\ keyjoy' = ~ keyjoy /\ UNCHANGED joybyte
  /\ down' = IF keyjoy THEN down ELSE down \ ArrowCodes
  /\ UNCHANGED <<lineVars, padVars, prefixed, swallowed>>

\* F6 turns the routing over, repeatedly while it is held down.
F6Down ==
  /\ KeyDown(F6)
  /\ keyjoy' = ~ keyjoy
  /\ joybyte' = {}
  /\ down' = IF keyjoy THEN down ELSE down \ ArrowCodes
  /\ UNCHANGED <<lineVars, padVars, prefixed, swallowed>>

\* The space bar as a key has no break code.
SpaceUp ==
  /\ KeyUp(SPACE) /\ ~ Routed(SPACE)
  /\ UNCHANGED <<down, stickVars, lineVars, padVars, prefixed, swallowed>>

-----------------------------------------------------------------------------
(* Controllers.  Their events come only from one that is open, and are      *)
(* ignored while the keys are the joystick.                                 *)

FromPad == ~ keyjoy /\ joystick # NoPad /\ live

PadButtonDown == /\ FromPad /\ SendJoybyte(joybyte \cup {SPACE})
                 /\ Told(down) /\ UNCHANGED <<held, padVars, prefixed, swallowed>>
PadButtonUp == /\ FromPad /\ SendJoybyte(joybyte \ {SPACE})
               /\ Told(down) /\ UNCHANGED <<held, padVars, prefixed, swallowed>>

\* A hat sets all four directions.
PadHat(h) == /\ FromPad /\ SendJoybyte((joybyte \cap {SPACE}) \cup h)
             /\ Told(down) /\ UNCHANGED <<held, padVars, prefixed, swallowed>>

\* One axis of a stick moves: the directions of the other are let go as well.
PadAxis(d) == /\ FromPad /\ SendJoybyte((joybyte \cap {SPACE}) \cup d)
              /\ Told(down) /\ UNCHANGED <<held, padVars, prefixed, swallowed>>
AxisPositions == {{}} \cup {{a} : a \in Arrows}

Notice(t, p) == [type |-> t, pad |-> p]

\* SDL announces a new controller; it may keep quiet after the program has
\* switched controller events off.
Plug(p) ==
  /\ p \notin plugged /\ Len(notices) < MaxNotices
  /\ plugged' = plugged \cup {p}
  /\ \/ notices' = Append(notices, Notice("added", p))
     \/ ~ live /\ UNCHANGED notices
  /\ UNCHANGED <<keyVars, stickVars, lineVars, joystick, live, prefixed, swallowed>>

\* ... and the loss of the one that is open.
Unplug(p) ==
  /\ p \in plugged /\ Len(notices) < MaxNotices
  /\ plugged' = plugged \ {p}
  /\ notices' = IF p = joystick THEN Append(notices, Notice("removed", p)) ELSE notices
  /\ UNCHANGED <<keyVars, stickVars, lineVars, joystick, live, prefixed, swallowed>>

\* add_gamecontroller.  It opens by index: once p is gone the index may name
\* another controller, or none.
add_gamecontroller(p) ==
  IF joystick # NoPad THEN UNCHANGED <<joystick, live>>
  ELSE /\ joystick' \in IF p \in plugged THEN {p} ELSE plugged \cup {NoPad}
       /\ live' = TRUE

\* remove_gamecontroller that forgets to clear the handle.
remove_keeps_handle == /\ UNCHANGED joystick
                       /\ live' = (live /\ plugged # {})

\* remove_gamecontroller: with the last controller its events are switched off.
remove_gamecontroller == /\ joystick' = NoPad
                         /\ live' = (live /\ plugged # {})

HandleNotice ==
  /\ notices # <<>>
  /\ notices' = Tail(notices)
  /\ IF keyjoy THEN swallowed' = TRUE /\ UNCHANGED <<joystick, live>>
     ELSE /\ UNCHANGED swallowed
          /\ \/ /\ Head(notices).type = "added"
                /\ add_gamecontroller(Head(notices).pad)
             \/ Head(notices).type = "removed" /\ remove_gamecontroller
  /\ UNCHANGED <<keyVars, stickVars, lineVars, plugged, prefixed>>

\* The guest reads port 0x90.
GuestRead ==
  /\ buffer # <<>>
  /\ prefixed' = (Head(buffer) = Prefix) /\ buffer' = KeyRest(buffer)
  /\ UNCHANGED <<keyVars, stickVars, lost, padVars, swallowed>>

\* F3: init_cpu queues its code behind whatever the buffer still holds.
Reset ==
  /\ Send(PowerUpCode)
  /\ Told(down)
  /\ UNCHANGED <<held, stickVars, padVars, prefixed, swallowed>>

\* The main loop has found the buffer empty for dog_speed scanlines.
Watchdog ==
  /\ buffer = <<>>
  /\ Send(WatchdogCode)
  /\ Told(down)
  /\ UNCHANGED <<held, stickVars, padVars, prefixed, swallowed>>

Next ==
  \/ \E k \in Keys : \/ StickKeyDown(k) \/ StickKeyUp(k)
                     \/ SpecialDown(k) \/ SpecialUp(k)
                     \/ \E m \in ModStates : TextDown(k, m)
  \/ \E m \in ModStates : DeleteDown(m)
  \/ BackspaceDown \/ SpaceUp \/ F6Down
  \/ PadButtonDown \/ PadButtonUp
  \/ \E h \in Hats : PadHat(h)
  \/ \E d \in AxisPositions : PadAxis(d)
  \/ \E p \in Pads : Plug(p) \/ Unplug(p)
  \/ HandleNotice
  \/ GuestRead
  \/ Reset \/ Watchdog

Spec == Init /\ [][Next]_vars

-----------------------------------------------------------------------------
Notices == [type : {"added", "removed"}, pad : Pads]

\* Every variable has its type; the buffer holds bytes, at most Capacity.
TypeOK ==
  /\ held \subseteq Keys /\ keyjoy \in BOOLEAN /\ joybyte \subseteq Lines
  /\ plugged \subseteq Pads /\ notices \in Seq(Notices)
  /\ joystick \in Pads \cup {NoPad} /\ live \in BOOLEAN
  /\ buffer \in Seq(0 .. 255) /\ Len(buffer) <= Capacity /\ prefixed \in BOOLEAN
  /\ lost \in BOOLEAN /\ down \subseteq 224 .. 234 /\ swallowed \in BOOLEAN

\* The guest reads 0x80 right before the i-th queued code.
AfterPrefix(i) == IF i = 1 THEN prefixed ELSE buffer[i - 1] = Prefix

\* A byte in the range of stick bytes (0xA0 to 0xBF) always comes directly
\* after 0x80, even when the buffer has refused codes: no key, shifted or not,
\* and no torn report ever looks like a stick byte (main.c:849-852).
SticksArePrefixed == \A i \in 1 .. Len(buffer) : IsStick(buffer[i]) => AfterPrefix(i)

\* As long as no code was refused, the byte the guest reads after 0x80 is a
\* stick byte and is already there: no key gets between the two.
PrefixLeadsStick ==
  ~ lost => \A i \in 1 .. Len(buffer) + 1 : AfterPrefix(i) =>
                i <= Len(buffer) /\ IsStick(buffer[i])

\* So the guest takes exactly the stick bytes for stick bytes, and every one of them as
\* long as no code was refused.
SticksParse == SticksArePrefixed /\ PrefixLeadsStick

\* A key the guest has been told is down is held on the host, unless a code was
\* refused or the key was down when F6 made the arrows the joystick
\* (main.c:946-1027): no break code is missing.
NoStuckKey == \A c \in down : \E k \in held : k \in Specials /\ MakeCode(k) = c

\* While the keys are the joystick, a pushed line is a key that is held: F6
\* leaves no direction of the controller behind, and every release is seen.
LinesAreHeld == keyjoy => joybyte \subseteq held

\* A controller never pushes opposite directions at once, whatever the keys had
\* pushed before F6 gave the joystick back to it.
NoOpposites == ~ keyjoy => \A o \in Opposites : ~ o \subseteq joybyte

\* The newest stick byte in the buffer is joybyte, unless a code was refused:
\* no handler changes a line without a report but F6, which lets go of all
\* (main.c:1213), so that a guest that has read everything knows the stick.
StickUpToDate ==
  ~ lost => \A i \in 1 .. Len(buffer) :
              IsStick(buffer[i]) /\ (\A j \in i + 1 .. Len(buffer) : ~ IsStick(buffer[j]))
                => buffer[i] = StickByte(joybyte) \/ joybyte = {}

\* Once the plug events are handled, the open controller is one that is plugged
\* in, unless F6 had made the program ignore an event (main.c:861-870).
HandleNotStale == notices = <<>> /\ ~ swallowed => joystick \in plugged \cup {NoPad}

UsKeys == {9, 13, 27, 32, 39, 59, 61, 96, 127} \cup (44 .. 57) \cup (91 .. 93) \cup (97 .. 122)
TypableWhen(joy) ==
  LET keys == IF joy THEN UsKeys \ Lines ELSE UsKeys
      codes == (1 .. 127) \cup {255}
  IN {Translate(k, m) : k \in keys, m \in SUBSET Mods} = IF joy THEN codes \ {SPACE} ELSE codes
Typable == [joy \in BOOLEAN |-> TypableWhen(joy)]

\* Every ASCII code can be typed on a US keyboard (NUL as 0xFF, which a read
\* turns into 0), no key sends a code outside, and making the keys the joystick
\* costs the space and nothing else (main.c:1106-1188).
AsciiTypable == Typable[keyjoy]
=============================================================================
