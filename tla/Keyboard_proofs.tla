--------------------------- MODULE Keyboard_proofs ---------------------------
(***************************************************************************)
(* Proofs about Keyboard for every set of keys and controllers and every   *)
(* size of the buffer.                                                     *)
(***************************************************************************)
EXTENDS Keyboard, TLAPS

USE DEF RIGHT, LEFT, UP, DOWN, PAGEDOWN, PAGEUP, DELETE, INSERT, LALT, RALT,
        PAUSE, END, SPACE, BACKSPACE, F6

-----------------------------------------------------------------------------
(* The codes. *)

\* A code that is neither a stick byte nor the prefix of one.
Plain == {c \in 0 .. 255 : ~ IsStick(c) /\ c # Prefix}

\* The prefix is no stick byte, and every stick position has a stick byte.
LEMMA Sticks ==
  ASSUME NEW S
  PROVE  StickByte(S) \in 0 .. 255 /\ IsStick(StickByte(S)) /\ StickByte(S) # Prefix
         /\ Prefix \in 0 .. 255 /\ ~ IsStick(Prefix)
BY DEF StickByte, IsStick, Prefix

\* Make codes lie between 0xE0 and 0xEA, break codes between 0xF0 and 0xFA.
LEMMA KeyCodes ==
  ASSUME NEW k \in Specials
  PROVE  MakeCode(k) \in 224 .. 234 /\ MakeCode(k) \in Plain /\ BreakCode(k) \in Plain
<1> DEFINE n == CHOOSE i \in 1 .. 11 : k \in Special[i]
<1>1. n \in 1 .. 11
  <2>1. PICK i \in 1 .. 11 : k \in Special[i]
    BY DEF Specials
  <2> QED
    BY <2>1
<1>2. MakeCode(k) = 223 + n
  BY DEF MakeCode
<1> HIDE DEF n
<1>3. MakeCode(k) \in 224 .. 234
  BY <1>1, <1>2
<1> QED
  BY <1>3 DEF BreakCode, Plain, IsStick, Prefix

\* The machine's own codes are neither stick bytes nor the prefix of one.
LEMMA MachineCodes == PowerUpCode \in Plain /\ WatchdogCode \in Plain
BY DEF PowerUpCode, WatchdogCode, Plain, IsStick, Prefix

\* A table maps to its own characters or leaves the key alone.
LEMMA Tables ==
  ASSUME NEW k \in 0 .. 127
  PROVE  /\ Mapped(k, CtrlFrom, CtrlTo) \in 0 .. 127
         /\ Mapped(k, ShiftFrom, ShiftTo) \in 0 .. 127
<1>1. DOMAIN CtrlFrom = 1 .. 4 /\ \A i \in 1 .. 4 : CtrlTo[i] \in 0 .. 127
  BY DEF CtrlFrom, CtrlTo
<1>2. DOMAIN ShiftFrom = 1 .. 11 /\ \A i \in 1 .. 11 : ShiftTo[i] \in 0 .. 127
  BY DEF ShiftFrom, ShiftTo
<1>3. Mapped(k, CtrlFrom, CtrlTo) \in 0 .. 127
  BY <1>1 DEF Mapped
<1>4. Mapped(k, ShiftFrom, ShiftTo) \in 0 .. 127
  BY <1>2 DEF Mapped
<1> QED
  BY <1>3, <1>4

\* Whatever the modifiers, an ASCII key sends an ASCII code, or 0xFF for NUL.
LEMMA Characters ==
  ASSUME NEW k \in 0 .. 127, NEW m
  PROVE  Translate(k, m) \in (0 .. 127) \cup {255} /\ Translate(k, m) \in Plain
<1> DEFINE c == Punctuation(k, m)
<1>1. c \in 0 .. 127
  BY Tables DEF Punctuation
<1> HIDE DEF c
<1>2. c \in 97 .. 122 => Letter(c, m) \in 0 .. 127
  BY DEF Letter
<1>3. ASSUME c \in 48 .. 57 PROVE Digit(c, m) \in (0 .. 127) \cup {255}
  <2>1. ShiftNums[c - 47] \in 0 .. 127
    <3>1. \A i \in 1 .. 10 : ShiftNums[i] \in 0 .. 127
      BY DEF ShiftNums
    <3>2. c - 47 \in 1 .. 10
      BY <1>3
    <3> QED
      BY <3>1, <3>2
  <2> QED
    BY <1>3, <2>1 DEF Digit
<1>4. Translate(k, m) \in (0 .. 127) \cup {255}
  BY <1>1, <1>2, <1>3 DEF Translate, c
<1> QED
  BY <1>4 DEF Plain, IsStick, Prefix

-----------------------------------------------------------------------------
(* The buffer.  A plain code or a whole report keeps it parseable.          *)

BufferOK == /\ buffer \in Seq(0 .. 255) /\ Len(buffer) <= Capacity
            /\ prefixed \in BOOLEAN /\ lost \in BOOLEAN

LineOK == BufferOK /\ SticksArePrefixed /\ PrefixLeadsStick

USE KeyboardCapacity

\* One plain code.
LEMMA SendsPlain ==
  ASSUME LineOK, NEW c \in Plain, Send(c), prefixed' = prefixed
  PROVE  LineOK'
<1>1. ~ IsStick(c) /\ c # Prefix /\ c \in 0 .. 255
  BY DEF Plain
<1>2. CASE Len(buffer) < Capacity
  <2>1. buffer' = Append(buffer, c) /\ lost' = lost
    BY <1>2 DEF Send, KeyPut, LineOK, BufferOK
  <2>2. BufferOK'
    BY <1>1, <1>2, <2>1 DEF LineOK, BufferOK
  <2>3. SticksArePrefixed'
    BY <1>1, <2>1 DEF LineOK, BufferOK, SticksArePrefixed, AfterPrefix
  <2>4. PrefixLeadsStick'
    BY <1>1, <2>1 DEF LineOK, BufferOK, PrefixLeadsStick, AfterPrefix
  <2> QED
    BY <2>2, <2>3, <2>4 DEF LineOK
<1>3. CASE ~ Len(buffer) < Capacity
  <2>0. Len(buffer) >= Capacity
    BY <1>3 DEF LineOK, BufferOK
  <2>1. buffer' = buffer /\ lost' = TRUE
    BY <1>3, <2>0 DEF Send, KeyPut
  <2> QED
    BY <2>1 DEF LineOK, BufferOK, SticksArePrefixed, PrefixLeadsStick, AfterPrefix
<1> QED
  BY <1>2, <1>3

\* The two codes of the delete key.
LEMMA SendsTwoPlain ==
  ASSUME LineOK, NEW c \in Plain, NEW d \in Plain, SendTwo(c, d), prefixed' = prefixed
  PROVE  LineOK'
<1>1. /\ ~ IsStick(c) /\ c # Prefix /\ c \in 0 .. 255
      /\ ~ IsStick(d) /\ d # Prefix /\ d \in 0 .. 255
  BY DEF Plain
<1>2. CASE Len(buffer) + 1 < Capacity
  <2>1. buffer' = Append(Append(buffer, c), d) /\ lost' = lost
    BY <1>1, <1>2 DEF SendTwo, KeyPut, LineOK, BufferOK
  <2>2. BufferOK'
    BY <1>1, <1>2, <2>1 DEF LineOK, BufferOK
  <2>3. SticksArePrefixed'
    BY <1>1, <2>1 DEF LineOK, BufferOK, SticksArePrefixed, AfterPrefix
  <2>4. PrefixLeadsStick'
    BY <1>1, <2>1 DEF LineOK, BufferOK, PrefixLeadsStick, AfterPrefix
  <2> QED
    BY <2>2, <2>3, <2>4 DEF LineOK
<1>3. CASE ~ Len(buffer) + 1 < Capacity
  <2>0. Len(buffer) + 1 >= Capacity /\ Len(buffer) \in Nat
    BY <1>3 DEF LineOK, BufferOK
  <2>1. lost' = TRUE
    BY <2>0 DEF SendTwo
  <2>2. \/ buffer' = buffer
        \/ buffer' = Append(buffer, c) /\ Len(buffer) < Capacity
    BY <1>1, <1>3 DEF SendTwo, KeyPut, LineOK, BufferOK
  <2>3. BufferOK' /\ SticksArePrefixed'
    <3>1. CASE buffer' = buffer
      BY <2>1, <3>1 DEF LineOK, BufferOK, SticksArePrefixed, AfterPrefix
    <3>2. CASE buffer' = Append(buffer, c) /\ Len(buffer) < Capacity
      <4>1. BufferOK'
        BY <1>1, <2>1, <3>2 DEF LineOK, BufferOK
      <4>2. SticksArePrefixed'
        BY <1>1, <3>2 DEF LineOK, BufferOK, SticksArePrefixed, AfterPrefix
      <4> QED
        BY <4>1, <4>2
    <3> QED
      BY <2>2, <3>1, <3>2
  <2> QED
    BY <2>1, <2>3 DEF LineOK, PrefixLeadsStick
<1> QED
  BY <1>2, <1>3

\* A report of the stick: whole, or without its second code, or not at all.
LEMMA SendsReport ==
  ASSUME LineOK, NEW S, SendTwo(Prefix, StickByte(S)), prefixed' = prefixed
  PROVE  LineOK'
<1> DEFINE j == StickByte(S)
<1>1. j \in 0 .. 255 /\ IsStick(j) /\ j # Prefix /\ Prefix \in 0 .. 255 /\ ~ IsStick(Prefix)
  BY Sticks
<1>a. SendTwo(Prefix, j)
  OBVIOUS
<1> HIDE DEF j
<1>2. CASE Len(buffer) + 1 < Capacity
  <2>1. buffer' = Append(Append(buffer, Prefix), j) /\ lost' = lost
    BY <1>1, <1>2, <1>a DEF SendTwo, KeyPut, LineOK, BufferOK
  <2>2. BufferOK'
    BY <1>1, <1>2, <2>1 DEF LineOK, BufferOK
  <2>3. SticksArePrefixed'
    BY <1>1, <2>1 DEF LineOK, BufferOK, SticksArePrefixed, AfterPrefix
  <2>4. PrefixLeadsStick'
    BY <1>1, <2>1 DEF LineOK, BufferOK, PrefixLeadsStick, AfterPrefix
  <2> QED
    BY <2>2, <2>3, <2>4 DEF LineOK
<1>3. CASE ~ Len(buffer) + 1 < Capacity
  <2>0. Len(buffer) + 1 >= Capacity /\ Len(buffer) \in Nat
    BY <1>3 DEF LineOK, BufferOK
  <2>1. lost' = TRUE
    BY <2>0, <1>a DEF SendTwo
  <2>2. \/ buffer' = buffer
        \/ buffer' = Append(buffer, Prefix) /\ Len(buffer) < Capacity
    BY <1>1, <1>3, <1>a DEF SendTwo, KeyPut, LineOK, BufferOK
  <2>3. BufferOK' /\ SticksArePrefixed'
    <3>1. CASE buffer' = buffer
      BY <2>1, <3>1 DEF LineOK, BufferOK, SticksArePrefixed, AfterPrefix
    <3>2. CASE buffer' = Append(buffer, Prefix) /\ Len(buffer) < Capacity
      <4>1. BufferOK'
        BY <1>1, <2>1, <3>2 DEF LineOK, BufferOK
      <4>2. SticksArePrefixed'
        BY <1>1, <3>2 DEF LineOK, BufferOK, SticksArePrefixed, AfterPrefix
      <4> QED
        BY <4>1, <4>2
    <3> QED
      BY <2>2, <3>1, <3>2
  <2> QED
    BY <2>1, <2>3 DEF LineOK, PrefixLeadsStick
<1> QED
  BY <1>2, <1>3

\* The guest reads the oldest code.
LEMMA Reads ==
  ASSUME LineOK, GuestRead
  PROVE  LineOK'
<1>1. /\ buffer' = Tail(buffer) /\ prefixed' = (buffer[1] = Prefix) /\ lost' = lost
      /\ Len(buffer) > 0
  BY DEF GuestRead, KeyRest, LineOK, BufferOK
<1>2. Len(buffer') = Len(buffer) - 1 /\ \A i \in 1 .. Len(buffer') : buffer'[i] = buffer[i + 1]
  BY <1>1 DEF LineOK, BufferOK
<1>3. BufferOK'
  BY <1>1, <1>2 DEF LineOK, BufferOK
<1>4. \A i \in 1 .. Len(buffer') + 1 : AfterPrefix(i)' = AfterPrefix(i + 1)
  BY <1>1, <1>2 DEF AfterPrefix, LineOK, BufferOK
<1>5. SticksArePrefixed'
  BY <1>2, <1>4 DEF SticksArePrefixed, LineOK, BufferOK
<1>6. PrefixLeadsStick'
  <2> SUFFICES ASSUME ~ lost', NEW i \in 1 .. Len(buffer') + 1, AfterPrefix(i)'
               PROVE  i <= Len(buffer') /\ IsStick(buffer'[i])
    BY DEF PrefixLeadsStick
  <2>1. AfterPrefix(i + 1) /\ ~ lost /\ i + 1 \in 1 .. Len(buffer) + 1
    BY <1>1, <1>2, <1>4 DEF LineOK, BufferOK
  <2>2. i + 1 <= Len(buffer) /\ IsStick(buffer[i + 1])
    BY <2>1 DEF PrefixLeadsStick, LineOK
  <2> QED
    BY <1>2, <2>2 DEF LineOK, BufferOK
<1> QED
  BY <1>3, <1>5, <1>6 DEF LineOK

-----------------------------------------------------------------------------
(***************************************************************************)
(* The inductive invariant.  A handle that is not stale needs to be known  *)
(* while events wait: an open controller that is gone has its removal      *)
(* among them, unless an event was swallowed.                              *)
(***************************************************************************)
HeldOK == held \subseteq Keys /\ keyjoy \in BOOLEAN /\ joybyte \subseteq Lines
DownOK == /\ down \subseteq 224 .. 234 /\ NoStuckKey
          /\ keyjoy => down \cap ArrowCodes = {}
PadTypes == /\ plugged \subseteq Pads /\ notices \in Seq(Notices)
            /\ joystick \in Pads \cup {NoPad} /\ live \in BOOLEAN /\ swallowed \in BOOLEAN
RemovalWaits == \/ joystick \in plugged \cup {NoPad}
                \/ swallowed
                \/ \E i \in 1 .. Len(notices) : notices[i].type = "removed"
PadOK == PadTypes /\ RemovalWaits
StickOK == LinesAreHeld /\ NoOpposites
IInv == HeldOK /\ LineOK /\ DownOK /\ PadOK /\ StickOK

\* The buffer starts with the power-up code alone.
LEMMA PowersUp ==
  ASSUME Init
  PROVE  buffer = <<PowerUpCode>> /\ Len(buffer) = 1 /\ buffer \in Seq(0 .. 255)
<1>1. buffer = Append(<<>>, PowerUpCode)
  BY DEF Init, KeyPut
<1>2. PowerUpCode \in 0 .. 255
  BY MachineCodes DEF Plain
<1> QED
  BY <1>1, <1>2

LEMMA InitIInv == Init => IInv
<1> SUFFICES ASSUME Init PROVE IInv
  OBVIOUS
<1> USE DEF Init
<1>0. /\ keyjoy \in BOOLEAN /\ prefixed \in BOOLEAN /\ lost \in BOOLEAN
      /\ live \in BOOLEAN /\ swallowed \in BOOLEAN
  <2>1. FALSE \in BOOLEAN
    OBVIOUS
  <2> QED
    BY <2>1, Zenon
<1>1. HeldOK
  <2>1. held \subseteq Keys /\ joybyte \subseteq Lines
    OBVIOUS
  <2> QED
    BY <1>0, <2>1 DEF HeldOK
<1>2. LineOK
  <2>1. buffer = <<PowerUpCode>> /\ Len(buffer) = 1 /\ buffer \in Seq(0 .. 255) /\ ~ prefixed
    BY PowersUp
  <2> HIDE DEF Init
  <2>c. 1 <= Capacity
    BY KeyboardCapacity
  <2>a. Len(buffer) <= Capacity
    BY <2>1, <2>c
  <2>2. BufferOK
    BY <1>0, <2>1, <2>a, Zenon DEF BufferOK
  <2>b. ~ IsStick(PowerUpCode) /\ PowerUpCode # Prefix
    BY MachineCodes DEF Plain
  <2>3. SticksArePrefixed
    BY <2>1, <2>b DEF SticksArePrefixed
  <2>4. \A i \in 1 .. Len(buffer) + 1 : ~ AfterPrefix(i)
    BY <2>1, <2>b DEF AfterPrefix
  <2> QED
    BY <2>2, <2>3, <2>4 DEF LineOK, PrefixLeadsStick
<1>3. DownOK
  BY DEF DownOK, NoStuckKey
<1>4. PadOK
  <2>1. notices \in Seq(Notices) /\ plugged \subseteq Pads /\ joystick \in Pads \cup {NoPad}
    OBVIOUS
  <2>2. RemovalWaits
    BY DEF RemovalWaits
  <2>3. PadTypes
    BY <1>0, <2>1, Zenon DEF PadTypes
  <2> QED
    BY <2>2, <2>3 DEF PadOK
<1>5. StickOK
  <2>1. \A o \in Opposites : ~ o \subseteq joybyte
    BY DEF Opposites
  <2> QED
    BY <2>1 DEF StickOK, LinesAreHeld, NoOpposites
<1> QED
  BY <1>1, <1>2, <1>3, <1>4, <1>5 DEF IInv

\* The handlers of keys and of the stick leave the controllers alone.
LEMMA SamePads ==
  ASSUME PadOK, UNCHANGED padVars, UNCHANGED swallowed
  PROVE  PadOK'
BY DEF PadOK, PadTypes, RemovalWaits, padVars

\* The guest is never said to know more than it was told.
LEMMA ToldNoMore ==
  ASSUME NEW codes, Told(codes)
  PROVE  down' \subseteq codes
<1>1. CASE lost'
  BY <1>1 DEF Told
<1>2. CASE ~ lost'
  BY <1>2 DEF Told
<1> QED
  BY <1>1, <1>2

\* Only the keys that are held, and the codes told, matter for DownOK.
LEMMA KeepsDown ==
  ASSUME DownOK, held \subseteq held', down' \subseteq down, keyjoy' = keyjoy
  PROVE  DownOK'
<1>1. NoStuckKey'
  <2> SUFFICES ASSUME NEW c \in down' PROVE \E k \in held' : k \in Specials /\ MakeCode(k) = c
    BY DEF NoStuckKey
  <2> QED
    BY DEF DownOK, NoStuckKey
<1>2. down' \subseteq 224 .. 234
  BY SMT DEF DownOK
<1>3. ASSUME keyjoy' PROVE down' \cap ArrowCodes = {}
  <2>1. down \cap ArrowCodes = {}
    <3>1. keyjoy
      BY <1>3
    <3> QED
      BY <3>1 DEF DownOK
  <2> QED
    BY <2>1
<1> QED
  BY <1>1, <1>2, <1>3 DEF DownOK

\* A key that goes down is told about.
LEMMA MakesDown ==
  ASSUME DownOK, NEW k \in Specials, held \subseteq held', k \in held',
         down' \subseteq down \cup {MakeCode(k)}, keyjoy' = keyjoy,
         keyjoy => MakeCode(k) \notin ArrowCodes
  PROVE  DownOK'
<1>1. NoStuckKey'
  <2> SUFFICES ASSUME NEW c \in down' PROVE \E l \in held' : l \in Specials /\ MakeCode(l) = c
    BY DEF NoStuckKey
  <2> QED
    BY DEF DownOK, NoStuckKey
<1>2. down' \subseteq 224 .. 234
  BY KeyCodes, SMT DEF DownOK
<1>3. ASSUME keyjoy' PROVE down' \cap ArrowCodes = {}
  <2>1. down \cap ArrowCodes = {}
    <3>1. keyjoy
      BY <1>3
    <3> QED
      BY <3>1 DEF DownOK
  <2>2. MakeCode(k) \notin ArrowCodes
    BY <1>3
  <2> QED
    BY <2>1, <2>2
<1> QED
  BY <1>1, <1>2, <1>3 DEF DownOK

\* A released key takes its own code along, if it has one that was told.
LEMMA ReleasesKey ==
  ASSUME DownOK, NEW k, held' = held \ {k}, down' \subseteq down, keyjoy' = keyjoy,
         k \in Specials => MakeCode(k) \notin down'
  PROVE  DownOK'
<1>1. NoStuckKey'
  <2> SUFFICES ASSUME NEW c \in down' PROVE \E l \in held' : l \in Specials /\ MakeCode(l) = c
    BY DEF NoStuckKey
  <2>1. PICK l \in held : l \in Specials /\ MakeCode(l) = c
    BY DEF DownOK, NoStuckKey
  <2>2. l # k
    BY <2>1
  <2> QED
    BY <2>1, <2>2
<1>2. down' \subseteq 224 .. 234
  BY SMT DEF DownOK
<1>3. ASSUME keyjoy' PROVE down' \cap ArrowCodes = {}
  <2>1. down \cap ArrowCodes = {}
    <3>1. keyjoy
      BY <1>3
    <3> QED
      BY <3>1 DEF DownOK
  <2> QED
    BY <2>1
<1> QED
  BY <1>1, <1>2, <1>3 DEF DownOK

\* The arrows have the first four make codes, the space bar has none.
LEMMA LineCodes ==
  ASSUME NEW k \in Specials
  PROVE  k \in Lines <=> MakeCode(k) \in ArrowCodes
<1> DEFINE n == CHOOSE i \in 1 .. 11 : k \in Special[i]
<1>1. n \in 1 .. 11 /\ k \in Special[n]
  <2>1. PICK i \in 1 .. 11 : k \in Special[i]
    BY DEF Specials
  <2> QED
    BY <2>1
<1>2. MakeCode(k) = 223 + n
  BY DEF MakeCode
<1> HIDE DEF n
<1>3. k \in Lines <=> n \in 1 .. 4
  BY <1>1 DEF Special, Lines
<1> QED
  BY <1>1, <1>2, <1>3 DEF ArrowCodes

\* The fire button takes no part in a pair of opposite directions.
LEMMA FireIsNeutral ==
  ASSUME NEW S, NEW T, \A o \in Opposites : ~ o \subseteq S, T \subseteq S \cup {SPACE}
  PROVE  \A o \in Opposites : ~ o \subseteq T
BY DEF Opposites

\* A handler that sends plain codes and leaves stick and controllers alone.
LEMMA PlainStep ==
  ASSUME IInv, HeldOK', LineOK', DownOK', UNCHANGED <<stickVars, padVars, swallowed>>,
         keyjoy => joybyte \subseteq held'
  PROVE  IInv'
<1>1. PadOK'
  BY SamePads DEF IInv, padVars
<1>2. StickOK'
  BY DEF IInv, StickOK, LinesAreHeld, NoOpposites, stickVars
<1> QED
  BY <1>1, <1>2 DEF IInv

\* A handler that reports a new position of the stick.
LEMMA ReportStep ==
  ASSUME IInv, NEW S \in SUBSET Lines, SendJoybyte(S), held' \subseteq Keys, DownOK',
         UNCHANGED <<padVars, prefixed, swallowed>>,
         keyjoy => S \subseteq held',
         ~ keyjoy => \A o \in Opposites : ~ o \subseteq S
  PROVE  IInv'
<1>1. PadOK'
  BY SamePads DEF IInv, padVars
<1>2. LineOK'
  BY SendsReport DEF IInv, SendJoybyte
<1>3. keyjoy' = keyjoy /\ joybyte' = S
  BY DEF SendJoybyte
<1>4. HeldOK'
  BY <1>3 DEF IInv, HeldOK
<1>5. StickOK'
  BY <1>3 DEF StickOK, LinesAreHeld, NoOpposites
<1> QED
  BY <1>1, <1>2, <1>4, <1>5 DEF IInv

-----------------------------------------------------------------------------
LEMMA StickKeys ==
  ASSUME IInv, NEW k \in Keys, StickKeyDown(k) \/ StickKeyUp(k)
  PROVE  IInv'
<1>1. k \in Lines /\ keyjoy /\ joybyte \subseteq held /\ joybyte \subseteq Lines /\ held \subseteq Keys
  BY DEF StickKeyDown, StickKeyUp, Routed, IInv, HeldOK, StickOK, LinesAreHeld
<1>2. CASE StickKeyDown(k)
  <2>1. held' = held \cup {k}
    BY <1>1, <1>2 DEF StickKeyDown, KeyDown
  <2>2. Told(down) /\ keyjoy' = keyjoy /\ SendJoybyte(joybyte \cup {k})
    BY <1>2 DEF StickKeyDown, SendJoybyte
  <2>3. DownOK'
    BY <2>1, <2>2, ToldNoMore, KeepsDown DEF IInv
  <2>4. UNCHANGED <<padVars, prefixed, swallowed>>
    BY <1>2 DEF StickKeyDown
  <2> QED
    BY <1>1, <2>1, <2>2, <2>3, <2>4, ReportStep
<1>3. CASE StickKeyUp(k)
  <2>1. held' = held \ {k}
    BY <1>3 DEF StickKeyUp, KeyUp
  <2>2. Told(down) /\ keyjoy' = keyjoy /\ SendJoybyte(joybyte \ {k})
    BY <1>3 DEF StickKeyUp, SendJoybyte
  <2>3. down' \subseteq down
    BY <2>2, ToldNoMore
  <2>4. k \in Specials => MakeCode(k) \notin down'
    <3>1. down \cap ArrowCodes = {}
      BY <1>1 DEF IInv, DownOK
    <3> QED
      BY <1>1, <2>3, <3>1, LineCodes
  <2>5. DownOK'
    BY <2>1, <2>2, <2>3, <2>4, ReleasesKey DEF IInv
  <2>6. UNCHANGED <<padVars, prefixed, swallowed>>
    BY <1>3 DEF StickKeyUp
  <2> QED
    BY <1>1, <2>1, <2>2, <2>5, <2>6, ReportStep
<1> QED
  BY <1>2, <1>3

LEMMA SpecialKeyDown ==
  ASSUME IInv, NEW k \in Keys, SpecialDown(k)
  PROVE  IInv'
<1>1. k \in Specials /\ ~ Routed(k) /\ held' = held \cup {k}
  BY DEF SpecialDown, KeyDown
<1>2. /\ Send(MakeCode(k)) /\ Told(down \cup {MakeCode(k)}) /\ prefixed' = prefixed
      /\ UNCHANGED <<stickVars, padVars, swallowed>> /\ keyjoy' = keyjoy
  BY DEF SpecialDown, stickVars
<1>3. LineOK'
  BY <1>1, <1>2, KeyCodes, SendsPlain DEF IInv
<1>4. keyjoy => MakeCode(k) \notin ArrowCodes
  BY <1>1, LineCodes DEF Routed
<1>5. DownOK'
  BY <1>1, <1>2, <1>4, ToldNoMore, MakesDown DEF IInv
<1>6. HeldOK'
  BY <1>1, <1>2 DEF IInv, HeldOK, stickVars
<1> QED
  BY <1>1, <1>2, <1>3, <1>5, <1>6, PlainStep DEF IInv, StickOK, LinesAreHeld

LEMMA DeleteKeyDown ==
  ASSUME IInv, NEW m \in ModStates, DeleteDown(m)
  PROVE  IInv'
<1>1. DELETE \in Specials /\ DELETE \in 0 .. 127 /\ DELETE \notin Lines
  BY DEF Specials, Special, Lines
<1> DEFINE d == DELETE
<1>2. /\ d \in Keys /\ held' = held \cup {d} /\ SendTwo(MakeCode(d), Translate(d, m))
      /\ Told(down \cup {MakeCode(d)}) /\ prefixed' = prefixed
      /\ UNCHANGED <<stickVars, padVars, swallowed>> /\ keyjoy' = keyjoy
  BY <1>1 DEF DeleteDown, stickVars, KeyDown
<1>a. d \in Specials /\ d \in 0 .. 127 /\ d \notin Lines
  BY <1>1
<1> HIDE DEF d
<1>3. LineOK'
  BY <1>a, <1>2, KeyCodes, Characters, SendsTwoPlain DEF IInv
<1>4. DownOK'
  BY <1>a, <1>2, LineCodes, ToldNoMore, MakesDown DEF IInv
<1>5. HeldOK'
  BY <1>2 DEF IInv, HeldOK, stickVars
<1> QED
  BY <1>2, <1>3, <1>4, <1>5, PlainStep DEF IInv, StickOK, LinesAreHeld

LEMMA SpecialKeyUp ==
  ASSUME IInv, NEW k \in Keys, SpecialUp(k)
  PROVE  IInv'
<1>1. k \in Specials /\ ~ Routed(k) /\ held' = held \ {k}
  BY DEF SpecialUp, KeyUp
<1>2. /\ Send(BreakCode(k)) /\ Told(down \ {MakeCode(k)}) /\ prefixed' = prefixed
      /\ UNCHANGED <<stickVars, padVars, swallowed>> /\ keyjoy' = keyjoy
  BY DEF SpecialUp, stickVars
<1>3. LineOK'
  BY <1>1, <1>2, KeyCodes, SendsPlain DEF IInv
<1>4. down' \subseteq down \ {MakeCode(k)}
  BY <1>2, ToldNoMore
<1>5. DownOK'
  BY <1>1, <1>2, <1>4, ReleasesKey DEF IInv
<1>6. HeldOK'
  BY <1>1, <1>2 DEF IInv, HeldOK, stickVars
<1>7. keyjoy => joybyte \subseteq held'
  <2>1. ASSUME keyjoy PROVE k \notin Lines /\ joybyte \subseteq held /\ joybyte \subseteq Lines
    BY <1>1, <2>1 DEF Routed, IInv, StickOK, LinesAreHeld, HeldOK
  <2> QED
    BY <1>1, <2>1
<1> QED
  BY <1>2, <1>3, <1>5, <1>6, <1>7, PlainStep

\* Keys that send an ASCII code, and the space bar when it is let go.
LEMMA TextKeys ==
  ASSUME IInv,
         \/ \E k \in Keys, m \in ModStates : TextDown(k, m)
         \/ BackspaceDown
  PROVE  IInv'
<1>1. PICK k \in Keys, c \in Plain :
        /\ held' = held \cup ({k} \cap (Lines \cup Specials)) /\ Send(c)
        /\ Told(down) /\ UNCHANGED <<stickVars, padVars, prefixed, swallowed>>
  <2>1. CASE \E k \in Keys, m \in ModStates : TextDown(k, m)
    <3>1. PICK k \in Keys, m \in ModStates : TextDown(k, m)
      BY <2>1
    <3>2. k \in 0 .. 127
      BY <3>1, KeysAssumption DEF TextDown
    <3> QED
      BY <3>1, <3>2, Characters DEF TextDown, KeyDown
  <2>2. CASE BackspaceDown
    <3>1. 127 \in Plain
      BY DEF Plain, IsStick, Prefix
    <3> QED
      BY <2>2, <3>1 DEF BackspaceDown, KeyDown
  <2> QED
    BY <2>1, <2>2
<1>2. keyjoy' = keyjoy /\ prefixed' = prefixed /\ joybyte' = joybyte /\ held \subseteq held'
  BY <1>1 DEF stickVars
<1>3. LineOK'
  BY <1>1, <1>2, SendsPlain DEF IInv
<1>4. DownOK'
  BY <1>1, <1>2, ToldNoMore, KeepsDown DEF IInv
<1>5. HeldOK'
  <2>0. held \subseteq Keys /\ held' = held \cup ({k} \cap (Lines \cup Specials))
    BY <1>1, Zenon DEF IInv, HeldOK
  <2>1. held' \subseteq Keys
    BY <2>0
  <2> QED
    BY <1>2, <2>1 DEF IInv, HeldOK
<1>6. keyjoy => joybyte \subseteq held'
  BY <1>2 DEF IInv, StickOK, LinesAreHeld
<1> QED
  BY <1>1, <1>3, <1>4, <1>5, <1>6, PlainStep

\* The power-up code and the watchdog's.
LEMMA MachineSends ==
  ASSUME IInv, Reset \/ Watchdog
  PROVE  IInv'
<1>1. PICK c \in Plain : Send(c)
  BY MachineCodes DEF Reset, Watchdog
<1>2. Told(down) /\ UNCHANGED <<held, stickVars, padVars, prefixed, swallowed>>
  BY DEF Reset, Watchdog
<1>3. keyjoy' = keyjoy /\ joybyte' = joybyte /\ held' = held
  BY <1>2 DEF stickVars
<1>4. LineOK'
  BY <1>1, <1>2, SendsPlain DEF IInv
<1>5. DownOK'
  BY <1>2, <1>3, ToldNoMore, KeepsDown DEF IInv
<1>6. HeldOK'
  BY <1>3 DEF IInv, HeldOK
<1>7. keyjoy => joybyte \subseteq held'
  BY <1>3 DEF IInv, StickOK, LinesAreHeld
<1> QED
  BY <1>2, <1>4, <1>5, <1>6, <1>7, PlainStep

LEMMA SpaceKeyUp ==
  ASSUME IInv, SpaceUp
  PROVE  IInv'
<1> DEFINE k == SPACE
<1>1. /\ ~ keyjoy /\ k \notin Specials /\ held' = held \ {k} /\ down' = down
      /\ UNCHANGED <<stickVars, padVars, prefixed, swallowed, lineVars>>
  BY DEF SpaceUp, KeyUp, Routed, Lines, Specials, Special
<1> HIDE DEF k
<1>2. keyjoy' = keyjoy /\ UNCHANGED <<buffer, lost>>
  BY <1>1 DEF stickVars, lineVars
<1>3. LineOK'
  BY <1>1, <1>2 DEF IInv, LineOK, BufferOK, SticksArePrefixed, PrefixLeadsStick, AfterPrefix
<1>4. DownOK'
  BY <1>1, <1>2, ReleasesKey DEF IInv
<1>5. HeldOK'
  <2>0. held \subseteq Keys /\ held' = held \ {k} /\ joybyte' = joybyte
    BY <1>1 DEF IInv, HeldOK, stickVars
  <2>1. held' \subseteq Keys /\ joybyte' = joybyte
    BY <2>0
  <2> QED
    BY <1>2, <2>1 DEF IInv, HeldOK
<1> QED
  BY <1>1, <1>3, <1>4, <1>5, PlainStep

\* F6 lets go of all lines and of the arrows the guest was told of.
LEMMA F6Key ==
  ASSUME IInv, F6Down
  PROVE  IInv'
<1>1. /\ keyjoy' = ~ keyjoy /\ joybyte' = {} /\ down' \subseteq down
      /\ UNCHANGED <<padVars, prefixed, swallowed, buffer, lost>> /\ held' = held
  <2>1. held' = held
    BY DEF F6Down, KeyDown, Lines, Specials, Special
  <2>2. down' \subseteq down
    BY DEF F6Down
  <2> QED
    BY <2>1, <2>2 DEF F6Down, lineVars
<1>2. LineOK'
  BY <1>1 DEF IInv, LineOK, BufferOK, SticksArePrefixed, PrefixLeadsStick, AfterPrefix
<1>3. DownOK'
  <2>1. NoStuckKey' /\ down' \subseteq 224 .. 234
    BY <1>1 DEF IInv, DownOK, NoStuckKey
  <2>2. ASSUME keyjoy' PROVE down' \cap ArrowCodes = {}
    <3>1. down' = down \ ArrowCodes
      <4>1. ~ keyjoy
        <5>1. keyjoy \in BOOLEAN /\ keyjoy' = ~ keyjoy
          BY DEF IInv, HeldOK, F6Down
        <5> QED
          BY <2>2, <5>1
      <4> QED
        BY <4>1 DEF F6Down
    <3> QED
      BY <3>1
  <2> QED
    BY <2>1, <2>2 DEF DownOK
<1>4. HeldOK'
  BY <1>1 DEF IInv, HeldOK
<1>5. PadOK'
  BY <1>1, SamePads DEF IInv
<1>6. StickOK'
  <2>1. \A o \in Opposites : ~ o \subseteq joybyte'
    BY <1>1 DEF Opposites
  <2> QED
    BY <1>1, <2>1 DEF StickOK, LinesAreHeld, NoOpposites
<1> QED
  BY <1>2, <1>3, <1>4, <1>5, <1>6 DEF IInv

-----------------------------------------------------------------------------
\* What a controller pushes: never opposite directions.
LEMMA PadReports ==
  ASSUME IInv,
         \/ PadButtonDown \/ PadButtonUp
         \/ \E h \in Hats : PadHat(h)
         \/ \E d \in AxisPositions : PadAxis(d)
  PROVE  IInv'
<1>1. joybyte \subseteq Lines /\ (~ keyjoy => \A o \in Opposites : ~ o \subseteq joybyte)
  BY DEF IInv, HeldOK, StickOK, NoOpposites
<1>2. PICK S \in SUBSET Lines :
        /\ ~ keyjoy /\ SendJoybyte(S) /\ Told(down)
        /\ UNCHANGED <<held, padVars, prefixed, swallowed>>
        /\ \A o \in Opposites : ~ o \subseteq S
  <2>1. CASE PadButtonDown \/ PadButtonUp
    <3>1. \A o \in Opposites : ~ o \subseteq joybyte
      BY <1>1, <2>1 DEF PadButtonDown, PadButtonUp, FromPad
    <3>2. CASE PadButtonDown
      <4>1. \A o \in Opposites : ~ o \subseteq joybyte \cup {SPACE}
        BY <3>1, FireIsNeutral
      <4> QED
        BY <1>1, <3>2, <4>1 DEF PadButtonDown, FromPad, Lines
    <3>3. CASE PadButtonUp
      <4>1. \A o \in Opposites : ~ o \subseteq joybyte \ {SPACE}
        BY <3>1
      <4> QED
        BY <1>1, <3>3, <4>1 DEF PadButtonUp, FromPad, Lines
    <3> QED
      BY <2>1, <3>2, <3>3
  <2>2. CASE \E h \in Hats : PadHat(h)
    <3>1. PICK h \in Hats : PadHat(h)
      BY <2>2
    <3>2. \A o \in Opposites : ~ o \subseteq (joybyte \cap {SPACE}) \cup h
      <4>1. (joybyte \cap {SPACE}) \cup h \subseteq h \cup {SPACE}
        OBVIOUS
      <4>2. \A o \in Opposites : ~ o \subseteq h
        BY HatAssumption
      <4> QED
        BY <4>1, <4>2, FireIsNeutral
    <3>3. h \subseteq Lines
      BY HatAssumption DEF Lines
    <3> QED
      BY <1>1, <3>1, <3>2, <3>3 DEF PadHat, FromPad
  <2>3. CASE \E d \in AxisPositions : PadAxis(d)
    <3>1. PICK d \in AxisPositions : PadAxis(d)
      BY <2>3
    <3>2. \A o \in Opposites : ~ o \subseteq d
      BY HatAssumption DEF Opposites, AxisPositions
    <3>3. \A o \in Opposites : ~ o \subseteq (joybyte \cap {SPACE}) \cup d
      <4>1. (joybyte \cap {SPACE}) \cup d \subseteq d \cup {SPACE}
        OBVIOUS
      <4> QED
        BY <3>2, <4>1, FireIsNeutral
    <3>4. d \subseteq Lines
      BY HatAssumption DEF Lines, AxisPositions
    <3> QED
      BY <1>1, <3>1, <3>3, <3>4 DEF PadAxis, FromPad
  <2> QED
    BY <2>1, <2>2, <2>3
<1>3. keyjoy' = keyjoy /\ held' = held /\ held \subseteq Keys
  BY <1>2 DEF SendJoybyte, IInv, HeldOK
<1>4. DownOK'
  BY <1>2, <1>3, ToldNoMore, KeepsDown DEF IInv
<1> QED
  BY <1>2, <1>3, <1>4, ReportStep

\* Controllers come and go: keys and stick do not change.
LEMMA PlugStep ==
  ASSUME IInv, PadOK', UNCHANGED <<keyVars, stickVars, lineVars, prefixed>>
  PROVE  IInv'
<1>1. UNCHANGED <<held, down, keyjoy, joybyte, buffer, lost, prefixed>>
  BY DEF keyVars, stickVars, lineVars
<1>2. LineOK'
  BY <1>1 DEF IInv, LineOK, BufferOK, SticksArePrefixed, PrefixLeadsStick, AfterPrefix
<1>3. DownOK'
  BY <1>1, KeepsDown DEF IInv
<1>4. HeldOK' /\ StickOK'
  BY <1>1 DEF IInv, HeldOK, StickOK, LinesAreHeld, NoOpposites
<1> QED
  BY <1>2, <1>3, <1>4 DEF IInv

LEMMA Plugs ==
  ASSUME IInv, NEW p \in Pads, Plug(p) \/ Unplug(p)
  PROVE  IInv'
<1>1. /\ plugged \subseteq Pads /\ notices \in Seq(Notices)
      /\ joystick \in Pads \cup {NoPad} /\ RemovalWaits
  BY DEF IInv, PadOK, PadTypes
<1>2. CASE Plug(p)
  <2>1. plugged' = plugged \cup {p} /\ UNCHANGED <<joystick, live, swallowed>>
    BY <1>2 DEF Plug
  <2>2. notices' = Append(notices, Notice("added", p)) \/ notices' = notices
    BY <1>2 DEF Plug
  <2>3. Notice("added", p) \in Notices
    BY DEF Notice, Notices
  <2>4. /\ notices' \in Seq(Notices) /\ Len(notices) <= Len(notices')
        /\ \A i \in 1 .. Len(notices) : notices'[i] = notices[i]
    BY <1>1, <2>2, <2>3
  <2>5. RemovalWaits'
    BY <1>1, <2>1, <2>4 DEF RemovalWaits
  <2>6. PadTypes'
    BY <2>1, <2>4 DEF IInv, PadOK, PadTypes
  <2> QED
    BY <1>2, <2>5, <2>6, PlugStep DEF Plug, PadOK
<1>3. CASE Unplug(p)
  <2>1. plugged' = plugged \ {p} /\ UNCHANGED <<joystick, live, swallowed>>
    BY <1>3 DEF Unplug
  <2>2. ASSUME p = joystick PROVE PadOK'
    <3>1. notices' = Append(notices, Notice("removed", p))
      BY <1>3, <2>2 DEF Unplug
    <3>2. Notice("removed", p) \in Notices /\ Notice("removed", p).type = "removed"
      BY DEF Notice, Notices
    <3>3. /\ notices' \in Seq(Notices) /\ Len(notices') \in 1 .. Len(notices')
          /\ notices'[Len(notices')].type = "removed"
      BY <1>1, <3>1, <3>2
    <3> QED
      <4>1. RemovalWaits'
        BY <3>3 DEF RemovalWaits
      <4>2. PadTypes'
        BY <2>1, <3>3 DEF IInv, PadOK, PadTypes
      <4> QED
        BY <4>1, <4>2 DEF PadOK
  <2>3. ASSUME p # joystick PROVE PadOK'
    <3>1. notices' = notices
      BY <1>3, <2>3 DEF Unplug
    <3>2. RemovalWaits'
      BY <1>1, <2>1, <2>3, <3>1 DEF RemovalWaits
    <3> QED
      <4>1. PadTypes'
        BY <2>1, <3>1 DEF IInv, PadOK, PadTypes
      <4> QED
        BY <3>2, <4>1 DEF PadOK
  <2> QED
    BY <1>3, <2>2, <2>3, PlugStep DEF Unplug
<1> QED
  BY <1>2, <1>3

LEMMA Noticed ==
  ASSUME IInv, HandleNotice
  PROVE  IInv'
<1>1. /\ plugged \subseteq Pads /\ notices \in Seq(Notices) /\ notices # <<>>
      /\ joystick \in Pads \cup {NoPad} /\ RemovalWaits
      /\ live \in BOOLEAN /\ swallowed \in BOOLEAN
  BY DEF IInv, PadOK, PadTypes, HandleNotice
<1>2. /\ notices' = Tail(notices) /\ plugged' = plugged
      /\ UNCHANGED <<keyVars, stickVars, lineVars, prefixed>>
  BY DEF HandleNotice
<1>3. /\ notices' \in Seq(Notices) /\ Len(notices') = Len(notices) - 1
      /\ \A i \in 1 .. Len(notices') : notices'[i] = notices[i + 1]
      /\ Head(notices) = notices[1]
  BY <1>1, <1>2
<1>4. CASE keyjoy
  <2>1. swallowed' = TRUE /\ UNCHANGED <<joystick, live>>
    BY <1>4 DEF HandleNotice
  <2>2. swallowed' /\ swallowed' \in BOOLEAN
    BY <2>1
  <2>3. PadOK'
    BY <1>1, <1>2, <1>3, <2>1, <2>2 DEF PadOK, PadTypes, RemovalWaits
  <2> QED
    BY <1>2, <2>3, PlugStep
<1>5. CASE ~ keyjoy
  <2>1. swallowed' = swallowed
    BY <1>5 DEF HandleNotice
  <2>2. CASE joystick' \in plugged \cup {NoPad} /\ live' \in BOOLEAN
    <3>1. PadTypes'
      BY <1>1, <1>2, <1>3, <2>1, <2>2 DEF PadTypes
    <3>2. RemovalWaits'
      BY <1>2, <2>2 DEF RemovalWaits
    <3> QED
      BY <1>2, <3>1, <3>2, PlugStep DEF PadOK
  <2>3. CASE Head(notices).type = "added" /\ UNCHANGED <<joystick, live>>
    <3>1. PadTypes'
      BY <1>1, <1>2, <1>3, <2>1, <2>3 DEF PadTypes
    <3>2. RemovalWaits'
      <4>1. ASSUME NEW i \in 1 .. Len(notices), notices[i].type = "removed"
            PROVE  i - 1 \in 1 .. Len(notices') /\ notices'[i - 1].type = "removed"
        <5>1. i # 1
          BY <1>3, <2>3, <4>1
        <5>2. i - 1 \in 1 .. Len(notices')
          BY <1>1, <1>3, <5>1
        <5> QED
          BY <1>3, <4>1, <5>2
      <4>2. CASE \E i \in 1 .. Len(notices) : notices[i].type = "removed"
        <5>1. PICK i \in 1 .. Len(notices) : notices[i].type = "removed"
          BY <4>2
        <5>2. i - 1 \in 1 .. Len(notices') /\ notices'[i - 1].type = "removed"
          BY <4>1, <5>1
        <5> QED
          BY <5>2 DEF RemovalWaits
      <4>3. CASE joystick \in plugged \cup {NoPad} \/ swallowed
        BY <1>2, <2>1, <2>3, <4>3 DEF RemovalWaits
      <4> QED
        BY <1>1, <4>2, <4>3 DEF RemovalWaits
    <3> QED
      BY <1>2, <3>1, <3>2, PlugStep DEF PadOK
  <2>4. \/ joystick' \in plugged \cup {NoPad} /\ live' \in BOOLEAN
        \/ Head(notices).type = "added" /\ UNCHANGED <<joystick, live>>
    <3>1. CASE Head(notices).type = "added" /\ add_gamecontroller(Head(notices).pad)
      <4>1. CASE joystick # NoPad
        BY <3>1, <4>1 DEF add_gamecontroller
      <4>2. CASE joystick = NoPad
        <5>1. live' = TRUE /\ live' \in BOOLEAN
          BY <3>1, <4>2 DEF add_gamecontroller
        <5>2. joystick' \in plugged \cup {NoPad}
          <6> DEFINE p == Head(notices).pad
          <6>1. joystick' \in IF p \in plugged THEN {p} ELSE plugged \cup {NoPad}
            BY <3>1, <4>2 DEF add_gamecontroller
          <6> HIDE DEF p
          <6> QED
            BY <6>1
        <5> QED
          BY <5>1, <5>2
      <4> QED
        BY <4>1, <4>2
    <3>2. CASE remove_gamecontroller
      BY <3>2 DEF remove_gamecontroller
    <3> QED
      BY <1>5, <3>1, <3>2 DEF HandleNotice
  <2> QED
    BY <2>2, <2>3, <2>4
<1> QED
  BY <1>4, <1>5

LEMMA GuestReads ==
  ASSUME IInv, GuestRead
  PROVE  IInv'
<1>1. UNCHANGED <<keyVars, stickVars, padVars, swallowed>>
  BY DEF GuestRead
<1>2. LineOK'
  BY Reads DEF IInv
<1>3. PadOK'
  BY <1>1, SamePads DEF IInv
<1>4. UNCHANGED <<held, down, keyjoy, joybyte>>
  BY <1>1 DEF keyVars, stickVars
<1>5. DownOK'
  BY <1>4, KeepsDown DEF IInv
<1>6. HeldOK' /\ StickOK'
  BY <1>4 DEF IInv, HeldOK, StickOK, LinesAreHeld, NoOpposites
<1> QED
  BY <1>2, <1>3, <1>5, <1>6 DEF IInv

-----------------------------------------------------------------------------
LEMMA NextIInv == IInv /\ [Next]_vars => IInv'
<1> SUFFICES ASSUME IInv, [Next]_vars PROVE IInv'
  OBVIOUS
<1>1. CASE \E k \in Keys : StickKeyDown(k) \/ StickKeyUp(k)
  BY <1>1, StickKeys
<1>2. CASE \E k \in Keys : SpecialDown(k)
  BY <1>2, SpecialKeyDown
<1>3. CASE \E k \in Keys : SpecialUp(k)
  BY <1>3, SpecialKeyUp
<1>4. CASE (\E k \in Keys, m \in ModStates : TextDown(k, m)) \/ BackspaceDown
  BY <1>4, TextKeys
<1>5. CASE \E m \in ModStates : DeleteDown(m)
  BY <1>5, DeleteKeyDown
<1>6. CASE SpaceUp
  BY <1>6, SpaceKeyUp
<1>7. CASE F6Down
  BY <1>7, F6Key
<1>8. CASE \/ PadButtonDown \/ PadButtonUp
           \/ \E h \in Hats : PadHat(h)
           \/ \E d \in AxisPositions : PadAxis(d)
  BY <1>8, PadReports
<1>9. CASE \E p \in Pads : Plug(p) \/ Unplug(p)
  BY <1>9, Plugs
<1>10. CASE HandleNotice
  BY <1>10, Noticed
<1>11. CASE GuestRead
  BY <1>11, GuestReads
<1>12. CASE Reset \/ Watchdog
  BY <1>12, MachineSends
<1>13. CASE UNCHANGED vars
  <2>1. /\ UNCHANGED <<keyVars, stickVars, lineVars, prefixed>>
        /\ UNCHANGED padVars /\ UNCHANGED swallowed
    BY <1>13 DEF vars, keyVars, stickVars, lineVars, padVars
  <2> QED
    BY <2>1, SamePads, PlugStep DEF IInv
<1> QED
  BY <1>1, <1>2, <1>3, <1>4, <1>5, <1>6, <1>7, <1>8, <1>9, <1>10, <1>11, <1>12, <1>13 DEF Next

LEMMA Invariant == Spec => []IInv
<1> QED
  BY InitIInv, NextIInv, PTL DEF Spec

\* Every variable keeps its type, whatever keys and controllers there are.
THEOREM TypeCorrect == Spec => []TypeOK
<1>1. IInv => TypeOK
  BY DEF IInv, HeldOK, LineOK, BufferOK, DownOK, PadOK, PadTypes, TypeOK
<1> QED
  BY <1>1, Invariant, PTL

\* In the codes of keyboard_poll a stick byte follows 0x80 and nothing else
\* looks like one, even if the buffer refuses codes.
THEOREM StickBytesParse == Spec => []SticksArePrefixed
<1>1. IInv => SticksArePrefixed
  BY DEF IInv, LineOK
<1> QED
  BY <1>1, Invariant, PTL

\* Unless a code is refused a report of the stick is never torn.
THEOREM ReportsAreWhole == Spec => []PrefixLeadsStick
<1>1. IInv => PrefixLeadsStick
  BY DEF IInv, LineOK
<1> QED
  BY <1>1, Invariant, PTL

\* No key stays down for the guest once it is up on the host, losses and F6
\* aside.
THEOREM NoKeySticks == Spec => []NoStuckKey
<1>1. IInv => NoStuckKey
  BY DEF IInv, DownOK
<1> QED
  BY <1>1, Invariant, PTL

\* The stick the keys push is pushed by keys that are held.
THEOREM LinesHeld == Spec => []LinesAreHeld
<1>1. IInv => LinesAreHeld
  BY DEF IInv, StickOK
<1> QED
  BY <1>1, Invariant, PTL

\* A controller never pushes opposite directions.
THEOREM OppositesNever == Spec => []NoOpposites
<1>1. IInv => NoOpposites
  BY DEF IInv, StickOK
<1> QED
  BY <1>1, Invariant, PTL

\* The open controller is plugged in once the plug events are handled, unless
\* one was swallowed.
THEOREM HandleIsFresh == Spec => []HandleNotStale
<1>1. IInv => HandleNotStale
  <2> SUFFICES ASSUME IInv, notices = <<>>, ~ swallowed
               PROVE  joystick \in plugged \cup {NoPad}
    BY DEF HandleNotStale
  <2>1. Len(notices) = 0
    OBVIOUS
  <2> QED
    BY <2>1 DEF IInv, PadOK, RemovalWaits
<1> QED
  BY <1>1, Invariant, PTL

\* The guest takes exactly the stick bytes for stick bytes.
THEOREM StickParsing == Spec => []SticksParse
  BY StickBytesParse, ReportsAreWhole, PTL DEF SticksParse

-----------------------------------------------------------------------------
(***************************************************************************)
(* The newest stick byte.  It needs an induction of its own: a handler     *)
(* either sends plain codes and leaves the stick alone, or sends the whole *)
(* stick, or lets go of all lines.                                         *)
(***************************************************************************)

\* The newest stick byte of queue q reports the lines S.
Newest(q, S) ==
  \A i \in 1 .. Len(q) :
    IsStick(q[i]) /\ (\A j \in i + 1 .. Len(q) : ~ IsStick(q[j]))
      => q[i] = StickByte(S) \/ S = {}

\* One more plain code hides nothing.
LEMMA NewestAfterPlain ==
  ASSUME NEW q \in Seq(0 .. 255), NEW c \in Plain, NEW S, Newest(q, S)
  PROVE  Newest(Append(q, c), S)
<1> DEFINE r == Append(q, c)
<1>1. /\ Len(r) = Len(q) + 1 /\ r[Len(r)] = c /\ ~ IsStick(c) /\ Len(q) \in Nat
      /\ \A i \in 1 .. Len(q) : r[i] = q[i]
  BY DEF Plain
<1> HIDE DEF r
<1>2. SUFFICES ASSUME NEW i \in 1 .. Len(r), IsStick(r[i]),
                      \A j \in i + 1 .. Len(r) : ~ IsStick(r[j])
               PROVE  r[i] = StickByte(S) \/ S = {}
  BY DEF Newest, r
<1>3. i \in 1 .. Len(q)
  BY <1>1, <1>2
<1>4. \A j \in i + 1 .. Len(q) : ~ IsStick(q[j])
  BY <1>1, <1>2, <1>3
<1> QED
  BY <1>1, <1>2, <1>3, <1>4 DEF Newest

\* The guest reads the oldest code.
LEMMA NewestAfterRead ==
  ASSUME NEW q \in Seq(0 .. 255), q # <<>>, NEW S, Newest(q, S)
  PROVE  Newest(Tail(q), S)
<1> DEFINE r == Tail(q)
<1>1. Len(q) \in Nat \ {0} /\ Len(r) = Len(q) - 1 /\ \A i \in 1 .. Len(r) : r[i] = q[i + 1]
  OBVIOUS
<1> HIDE DEF r
<1>2. SUFFICES ASSUME NEW i \in 1 .. Len(r), IsStick(r[i]),
                      \A j \in i + 1 .. Len(r) : ~ IsStick(r[j])
               PROVE  r[i] = StickByte(S) \/ S = {}
  BY DEF Newest, r
<1>3. i + 1 \in 1 .. Len(q) /\ r[i] = q[i + 1]
  BY <1>1, <1>2
<1>4. ASSUME NEW j \in (i + 1) + 1 .. Len(q) PROVE ~ IsStick(q[j])
  <2>1. j - 1 \in i + 1 .. Len(r) /\ r[j - 1] = q[j]
    BY <1>1, <1>3, <1>4
  <2> QED
    BY <1>2, <2>1
<1> QED
  BY <1>2, <1>3, <1>4 DEF Newest

\* A queue that ends with a report.
LEMMA NewestAfterReport ==
  ASSUME NEW q \in Seq(0 .. 255), NEW S
  PROVE  Newest(Append(Append(q, Prefix), StickByte(S)), S)
<1> DEFINE b == StickByte(S)
           r == Append(Append(q, Prefix), b)
<1>1. IsStick(b) /\ Len(r) = Len(q) + 2 /\ r[Len(r)] = b /\ Len(q) \in Nat
  BY Sticks
<1> HIDE DEF b, r
<1>2. SUFFICES ASSUME NEW i \in 1 .. Len(r),
                      \A j \in i + 1 .. Len(r) : ~ IsStick(r[j])
               PROVE  r[i] = b
  BY DEF Newest, b, r
<1>3. i = Len(r)
  BY <1>1, <1>2
<1> QED
  BY <1>1, <1>3

\* What a step does to the line, as far as the newest stick byte goes.
LineStep ==
  \/ \E c \in Plain : Send(c) /\ UNCHANGED joybyte
  \/ \E c, d \in Plain : SendTwo(c, d) /\ UNCHANGED joybyte
  \/ \E S \in SUBSET Lines : SendJoybyte(S)
  \/ joybyte' = {}
  \/ GuestRead
  \/ UNCHANGED <<buffer, lost, joybyte>>

LEMMA NextLineStep ==
  ASSUME IInv, [Next]_vars
  PROVE  LineStep
<1>0. joybyte \subseteq Lines /\ SPACE \in Lines
  BY DEF IInv, HeldOK, Lines
<1>1. CASE \E k \in Keys : StickKeyDown(k) \/ StickKeyUp(k)
  <2>1. PICK k \in Keys : StickKeyDown(k) \/ StickKeyUp(k)
    BY <1>1
  <2>2. joybyte \cup {k} \in SUBSET Lines /\ joybyte \ {k} \in SUBSET Lines
    BY <1>0, <2>1 DEF StickKeyDown, StickKeyUp, Routed
  <2> QED
    BY <2>1, <2>2 DEF StickKeyDown, StickKeyUp, LineStep
<1>2. CASE \E k \in Keys : SpecialDown(k) \/ SpecialUp(k)
  <2>1. PICK k \in Keys : SpecialDown(k) \/ SpecialUp(k)
    BY <1>2
  <2>2. k \in Specials /\ UNCHANGED joybyte /\ (Send(MakeCode(k)) \/ Send(BreakCode(k)))
    BY <2>1 DEF SpecialDown, SpecialUp, stickVars
  <2> QED
    BY <2>2, KeyCodes DEF LineStep
<1>3. CASE \E k \in Keys, m \in ModStates : TextDown(k, m)
  <2>1. PICK k \in Keys, m \in ModStates : TextDown(k, m)
    BY <1>3
  <2>2. k \in 0 .. 127 /\ UNCHANGED joybyte /\ Send(Translate(k, m))
    BY <2>1, KeysAssumption DEF TextDown, stickVars
  <2> QED
    BY <2>2, Characters DEF LineStep
<1>4. CASE \E m \in ModStates : DeleteDown(m)
  <2>1. PICK m \in ModStates : DeleteDown(m)
    BY <1>4
  <2>2. DELETE \in Specials /\ DELETE \in 0 .. 127
    BY DEF Specials, Special
  <2>3. UNCHANGED joybyte /\ SendTwo(MakeCode(DELETE), Translate(DELETE, m))
    BY <2>1 DEF DeleteDown, stickVars
  <2>4. MakeCode(DELETE) \in Plain /\ Translate(DELETE, m) \in Plain
    BY <2>2, KeyCodes, Characters
  <2> QED
    BY <2>3, <2>4 DEF LineStep
<1>5. CASE BackspaceDown
  <2>1. 127 \in Plain
    BY DEF Plain, IsStick, Prefix
  <2> QED
    BY <1>5, <2>1 DEF BackspaceDown, stickVars, LineStep
<1>6. CASE F6Down
  BY <1>6 DEF F6Down, LineStep
<1>7. CASE PadButtonDown \/ PadButtonUp
  <2>1. joybyte \cup {SPACE} \in SUBSET Lines /\ joybyte \ {SPACE} \in SUBSET Lines
    BY <1>0
  <2> QED
    BY <1>7, <2>1 DEF PadButtonDown, PadButtonUp, LineStep
<1>8. CASE \/ \E h \in Hats : PadHat(h)
           \/ \E d \in AxisPositions : PadAxis(d)
  <2>1. PICK h \in Hats \cup AxisPositions : PadHat(h) \/ PadAxis(h)
    BY <1>8
  <2>2. h \subseteq Lines
    BY <2>1, HatAssumption DEF Lines, AxisPositions
  <2>3. (joybyte \cap {SPACE}) \cup h \in SUBSET Lines
    BY <1>0, <2>2
  <2> QED
    BY <2>1, <2>3 DEF PadHat, PadAxis, LineStep
<1>9. CASE SpaceUp \/ HandleNotice \/ (\E p \in Pads : Plug(p) \/ Unplug(p)) \/ UNCHANGED vars
  <2>1. UNCHANGED <<buffer, lost, joybyte>>
    BY <1>9 DEF SpaceUp, HandleNotice, Plug, Unplug, vars, stickVars, lineVars
  <2> QED
    BY <2>1 DEF LineStep
<1>10. CASE GuestRead
  BY <1>10 DEF LineStep
<1>11. CASE Reset \/ Watchdog
  <2>1. UNCHANGED joybyte /\ (Send(PowerUpCode) \/ Send(WatchdogCode))
    BY <1>11 DEF Reset, Watchdog, stickVars
  <2> QED
    BY <2>1, MachineCodes DEF LineStep
<1> QED
  BY <1>1, <1>2, <1>3, <1>4, <1>5, <1>6, <1>7, <1>8, <1>9, <1>10, <1>11 DEF Next

LEMMA NextStickUpToDate == IInv /\ StickUpToDate /\ [Next]_vars => StickUpToDate'
<1> SUFFICES ASSUME IInv, StickUpToDate, [Next]_vars, ~ lost'
             PROVE  Newest(buffer', joybyte')
  BY DEF StickUpToDate, Newest
<1>0. buffer \in Seq(0 .. 255) /\ Len(buffer) \in Nat /\ (~ lost => Newest(buffer, joybyte))
  BY DEF IInv, LineOK, BufferOK, StickUpToDate, Newest
<1>1. CASE \E c \in Plain : Send(c) /\ UNCHANGED joybyte
  <2>1. PICK c \in Plain : Send(c) /\ UNCHANGED joybyte
    BY <1>1
  <2>2. ~ lost /\ Len(buffer) < Capacity
    <3>1. ~ lost /\ ~ Len(buffer) >= Capacity
      BY <2>1, Zenon DEF Send
    <3> QED
      BY <1>0, <3>1
  <2> QED
    BY <1>0, <2>1, <2>2, NewestAfterPlain DEF Send, KeyPut
<1>2. CASE \E c, d \in Plain : SendTwo(c, d) /\ UNCHANGED joybyte
  <2>1. PICK c \in Plain, d \in Plain : SendTwo(c, d) /\ UNCHANGED joybyte
    BY <1>2
  <2>2. ~ lost /\ Len(buffer) + 1 < Capacity
    <3>1. ~ lost /\ ~ Len(buffer) + 1 >= Capacity
      BY <2>1, Zenon DEF SendTwo
    <3> QED
      BY <1>0, <3>1
  <2>3. Append(buffer, c) \in Seq(0 .. 255) /\ Len(Append(buffer, c)) = Len(buffer) + 1
    BY <1>0 DEF Plain
  <2>4. buffer' = Append(Append(buffer, c), d)
    BY <1>0, <2>1, <2>2, <2>3 DEF SendTwo, KeyPut
  <2>5. Newest(Append(buffer, c), joybyte)
    BY <1>0, <2>2, NewestAfterPlain
  <2> QED
    BY <2>1, <2>3, <2>4, <2>5, NewestAfterPlain
<1>3. CASE \E S \in SUBSET Lines : SendJoybyte(S)
  <2>1. PICK S \in SUBSET Lines : SendJoybyte(S)
    BY <1>3
  <2> DEFINE b == StickByte(S)
  <2>2. joybyte' = S /\ SendTwo(Prefix, b)
    BY <2>1 DEF SendJoybyte
  <2> HIDE DEF b
  <2>3. ~ lost /\ Len(buffer) + 1 < Capacity
    <3>1. ~ lost /\ ~ Len(buffer) + 1 >= Capacity
      BY <2>2, Zenon DEF SendTwo
    <3> QED
      BY <1>0, <3>1
  <2>4. buffer' = Append(Append(buffer, Prefix), b)
    BY <1>0, <2>2, <2>3 DEF SendTwo, KeyPut, Prefix
  <2> QED
    BY <1>0, <2>2, <2>4, NewestAfterReport DEF b
<1>4. CASE joybyte' = {}
  BY <1>4 DEF Newest
<1>5. CASE GuestRead
  <2>1. ~ lost /\ buffer # <<>> /\ buffer' = Tail(buffer) /\ joybyte' = joybyte
    BY <1>5 DEF GuestRead, KeyRest, stickVars
  <2> QED
    BY <1>0, <2>1, NewestAfterRead
<1>6. CASE UNCHANGED <<buffer, lost, joybyte>>
  BY <1>0, <1>6
<1> QED
  BY <1>1, <1>2, <1>3, <1>4, <1>5, <1>6, NextLineStep DEF LineStep

\* The newest stick byte in the buffer is joybyte, unless a code was refused or
\* F6 has let go of the stick: no handler of keyboard_poll changes a line and
\* forgets to report it.
THEOREM StickReported == Spec => []StickUpToDate
<1>1. Init => StickUpToDate
  <2> SUFFICES ASSUME Init PROVE StickUpToDate
    OBVIOUS
  <2>1. buffer = <<PowerUpCode>> /\ Len(buffer) = 1
    BY PowersUp
  <2>2. ~ IsStick(PowerUpCode)
    BY MachineCodes DEF Plain
  <2> QED
    BY <2>1, <2>2 DEF StickUpToDate
<1> QED
  BY <1>1, NextStickUpToDate, Invariant, PTL DEF Spec

-----------------------------------------------------------------------------
(* What can be typed: each ASCII code has a key and modifiers of its own.   *)

\* A table without repetitions maps its n-th key to its n-th character, and the
\* keys that are not in it to themselves.
LEMMA TableMaps ==
  ASSUME NEW from, NEW to, NEW i \in DOMAIN from,
         \A h, j \in DOMAIN from : from[h] = from[j] => h = j
  PROVE  Mapped(from[i], from, to) = to[i]
<1> DEFINE j == CHOOSE h \in DOMAIN from : from[h] = from[i]
<1>1. j \in DOMAIN from /\ from[j] = from[i]
  OBVIOUS
<1>2. j = i
  BY <1>1
<1> QED
  BY <1>2 DEF Mapped

\* The keys and characters of the two tables.
LEMMA Pairs ==
  /\ DOMAIN CtrlFrom = 1 .. 4 /\ DOMAIN ShiftFrom = 1 .. 11
  /\ \A i \in 1 .. 4 : CtrlTo[i] \in 27 .. 31
  /\ \A i \in 1 .. 11 : ShiftTo[i] \in 34 .. 126
  /\ \A i \in 1 .. 10 : ShiftNums[i] \in 33 .. 94
  /\ \A i, j \in DOMAIN CtrlFrom : CtrlFrom[i] = CtrlFrom[j] => i = j
  /\ \A i, j \in DOMAIN ShiftFrom : ShiftFrom[i] = ShiftFrom[j] => i = j
BY DEF CtrlFrom, CtrlTo, ShiftFrom, ShiftTo, ShiftNums

\* What the tables make of the keys in them.
LEMMA PairsMapped ==
  /\ Mapped(92, CtrlFrom, CtrlTo) = 28 /\ Mapped(93, CtrlFrom, CtrlTo) = 29
  /\ Mapped(45, CtrlFrom, CtrlTo) = 31
  /\ Mapped(96, ShiftFrom, ShiftTo) = 126 /\ Mapped(45, ShiftFrom, ShiftTo) = 95
  /\ Mapped(61, ShiftFrom, ShiftTo) = 43 /\ Mapped(91, ShiftFrom, ShiftTo) = 123
  /\ Mapped(93, ShiftFrom, ShiftTo) = 125 /\ Mapped(92, ShiftFrom, ShiftTo) = 124
  /\ Mapped(59, ShiftFrom, ShiftTo) = 58 /\ Mapped(39, ShiftFrom, ShiftTo) = 34
  /\ Mapped(44, ShiftFrom, ShiftTo) = 60 /\ Mapped(46, ShiftFrom, ShiftTo) = 62
  /\ Mapped(47, ShiftFrom, ShiftTo) = 63
<1>1. \A i \in 1 .. 4 : Mapped(CtrlFrom[i], CtrlFrom, CtrlTo) = CtrlTo[i]
  BY TableMaps, Pairs
<1>2. \A i \in 1 .. 11 : Mapped(ShiftFrom[i], ShiftFrom, ShiftTo) = ShiftTo[i]
  BY TableMaps, Pairs
<1>3. /\ CtrlFrom[2] = 92 /\ CtrlFrom[3] = 93 /\ CtrlFrom[4] = 45
      /\ CtrlTo[2] = 28 /\ CtrlTo[3] = 29 /\ CtrlTo[4] = 31
  BY DEF CtrlFrom, CtrlTo
<1>4. /\ ShiftFrom[1] = 96 /\ ShiftFrom[2] = 45 /\ ShiftFrom[3] = 61 /\ ShiftFrom[4] = 91
      /\ ShiftFrom[5] = 93 /\ ShiftFrom[6] = 92 /\ ShiftFrom[7] = 59 /\ ShiftFrom[8] = 39
      /\ ShiftFrom[9] = 44 /\ ShiftFrom[10] = 46 /\ ShiftFrom[11] = 47
  BY DEF ShiftFrom
<1>5. /\ ShiftTo[1] = 126 /\ ShiftTo[2] = 95 /\ ShiftTo[3] = 43 /\ ShiftTo[4] = 123
      /\ ShiftTo[5] = 125 /\ ShiftTo[6] = 124 /\ ShiftTo[7] = 58 /\ ShiftTo[8] = 34
      /\ ShiftTo[9] = 60 /\ ShiftTo[10] = 62 /\ ShiftTo[11] = 63
  BY DEF ShiftTo
<1>6. \A i \in {2, 3, 4} : i \in 1 .. 4
  OBVIOUS
<1>7. \A i \in {1, 2, 3, 4, 5, 6, 7, 8, 9, 10, 11} : i \in 1 .. 11
  OBVIOUS
<1>8. /\ Mapped(92, CtrlFrom, CtrlTo) = 28 /\ Mapped(93, CtrlFrom, CtrlTo) = 29
      /\ Mapped(45, CtrlFrom, CtrlTo) = 31
  BY <1>1, <1>3, <1>6
<1>9. /\ Mapped(96, ShiftFrom, ShiftTo) = 126 /\ Mapped(45, ShiftFrom, ShiftTo) = 95
      /\ Mapped(61, ShiftFrom, ShiftTo) = 43 /\ Mapped(91, ShiftFrom, ShiftTo) = 123
      /\ Mapped(93, ShiftFrom, ShiftTo) = 125 /\ Mapped(92, ShiftFrom, ShiftTo) = 124
  BY <1>2, <1>4, <1>5, <1>7
<1>10. /\ Mapped(59, ShiftFrom, ShiftTo) = 58 /\ Mapped(39, ShiftFrom, ShiftTo) = 34
       /\ Mapped(44, ShiftFrom, ShiftTo) = 60 /\ Mapped(46, ShiftFrom, ShiftTo) = 62
       /\ Mapped(47, ShiftFrom, ShiftTo) = 63
  BY <1>2, <1>4, <1>5, <1>7
<1> QED
  BY <1>8, <1>9, <1>10

\* Neither table has letters or digits.
LEMMA NotInTables ==
  ASSUME NEW k \in (97 .. 122) \cup (48 .. 57)
  PROVE  Mapped(k, CtrlFrom, CtrlTo) = k /\ Mapped(k, ShiftFrom, ShiftTo) = k
BY DEF Mapped, CtrlFrom, ShiftFrom

\* No key but the space bar sends a space, and none sends 0 as it is.
LEMMA CodesOfKeys ==
  ASSUME NEW k \in 1 .. 127, NEW m
  PROVE  /\ Translate(k, m) \in (1 .. 127) \cup {255}
         /\ Translate(k, m) = SPACE => k = SPACE
<1> DEFINE b == Mapped(k, CtrlFrom, CtrlTo)
           c == Punctuation(k, m)
<1>1. \A j \in 1 .. 127 :
        /\ Mapped(j, CtrlFrom, CtrlTo) \in 1 .. 127
        /\ Mapped(j, CtrlFrom, CtrlTo) = 32 => j = 32
        /\ Mapped(j, ShiftFrom, ShiftTo) \in 1 .. 127
        /\ Mapped(j, ShiftFrom, ShiftTo) = 32 => j = 32
  <2> TAKE j \in 1 .. 127
  <2>1. Mapped(j, CtrlFrom, CtrlTo) = j \/ \E i \in 1 .. 4 : Mapped(j, CtrlFrom, CtrlTo) = CtrlTo[i]
    BY Pairs, SMTT(20) DEF Mapped
  <2>2. Mapped(j, ShiftFrom, ShiftTo) = j \/ \E i \in 1 .. 11 : Mapped(j, ShiftFrom, ShiftTo) = ShiftTo[i]
    BY Pairs, SMTT(20) DEF Mapped
  <2> QED
    BY <2>1, <2>2, Pairs, SMTT(20)
<1>2. c \in 1 .. 127 /\ (c = 32 => k = 32)
  BY <1>1 DEF Punctuation
<1> HIDE DEF c
<1>3. c \in 97 .. 122 => Letter(c, m) \in 1 .. 127 /\ Letter(c, m) # 32
  BY DEF Letter
<1>4. ASSUME c \in 48 .. 57 PROVE Digit(c, m) \in (1 .. 127) \cup {255} /\ Digit(c, m) # 32
  <2>1. c - 47 \in 1 .. 10
    BY <1>4
  <2>2. ShiftNums[c - 47] \in 33 .. 94
    BY <2>1, Pairs
  <2> QED
    BY <1>4, <2>2 DEF Digit
<1> QED
  BY <1>2, <1>3, <1>4 DEF Translate, c

\* Without modifiers a key sends itself.
LEMMA KeyAlone ==
  ASSUME NEW k \in 1 .. 127
  PROVE  Translate(k, {}) = k
BY DEF Translate, Punctuation, Letter, Digit

\* The key and the modifiers for code c.
LEMMA KeyForCode ==
  ASSUME NEW c \in (1 .. 127) \cup {255}
  PROVE  \E k \in UsKeys, m \in SUBSET Mods :
           Translate(k, m) = c /\ (c # SPACE => k # SPACE)
<1> DEFINE ctrl == {"ctrl"}
           shift == {"shift"}
<1>0. {} \in SUBSET Mods /\ ctrl \in SUBSET Mods /\ shift \in SUBSET Mods
  BY DEF Mods
<1>a. /\ "ctrl" \in ctrl /\ "shift" \notin ctrl /\ "caps" \notin ctrl
      /\ "ctrl" \notin shift /\ "shift" \in shift /\ "caps" \notin shift
  OBVIOUS
<1> HIDE DEF ctrl, shift
<1>1. CASE c \in UsKeys
  <2>1. c \in 1 .. 127
    BY <1>1 DEF UsKeys
  <2> QED
    BY <1>0, <1>1, <2>1, KeyAlone
<1>2. CASE c \in 1 .. 26
  <2>1. c + 96 \in 97 .. 122 /\ c + 96 \in UsKeys
    BY <1>2 DEF UsKeys
  <2>2. Punctuation(c + 96, ctrl) = c + 96
    BY <1>a, <2>1, NotInTables DEF Punctuation
  <2>3. Translate(c + 96, ctrl) = c
    BY <1>2, <1>a, <2>1, <2>2 DEF Translate, Letter
  <2> QED
    BY <1>0, <2>1, <2>3
<1>3. CASE c \in 65 .. 90
  <2>1. c + 32 \in 97 .. 122 /\ c + 32 \in UsKeys
    BY <1>3 DEF UsKeys
  <2>2. Punctuation(c + 32, shift) = c + 32
    BY <1>a, <2>1, NotInTables DEF Punctuation
  <2>3. Translate(c + 32, shift) = c
    BY <1>3, <1>a, <2>1, <2>2 DEF Translate, Letter
  <2> QED
    BY <1>0, <2>1, <2>3
<1>4. CASE c \in {28, 29, 31}
  <2>1. PICK k \in {92, 93, 45} : Mapped(k, CtrlFrom, CtrlTo) = c
    BY <1>4, PairsMapped
  <2>2. Translate(k, ctrl) = c
    BY <1>4, <1>a, <2>1 DEF Translate, Punctuation
  <2>3. k \in UsKeys /\ k # SPACE
    BY <2>1 DEF UsKeys
  <2> QED
    BY <1>0, <2>2, <2>3
<1>5. CASE c \in {30, 255}
  <2>1. PICK k \in {54, 50} : (k = 54 /\ c = 30) \/ (k = 50 /\ c = 255)
    BY <1>5
  <2>2. Punctuation(k, ctrl) = k
    BY <1>a, <2>1, NotInTables DEF Punctuation
  <2>3. Translate(k, ctrl) = c
    BY <1>a, <2>1, <2>2 DEF Translate, Digit
  <2>4. k \in UsKeys /\ k # SPACE
    BY <2>1 DEF UsKeys
  <2> QED
    BY <1>0, <2>3, <2>4
<1>6. CASE c \in {33, 35, 36, 37, 38, 40, 41, 42, 64, 94}
  <2>1. PICK k \in 48 .. 57 : ShiftNums[k - 47] = c
    <3>1. \E i \in 1 .. 10 : ShiftNums[i] = c
      BY <1>6 DEF ShiftNums
    <3>2. PICK i \in 1 .. 10 : ShiftNums[i] = c
      BY <3>1
    <3>3. i + 47 \in 48 .. 57 /\ (i + 47) - 47 = i
      BY <3>2
    <3> QED
      BY <3>2, <3>3
  <2>2. Punctuation(k, shift) = k
    BY <1>a, <2>1, NotInTables DEF Punctuation
  <2>3. Translate(k, shift) = c
    BY <1>a, <2>1, <2>2 DEF Translate, Digit
  <2>4. k \in UsKeys /\ k # SPACE
    BY <2>1 DEF UsKeys
  <2> QED
    BY <1>0, <2>3, <2>4
<1>7. CASE c \in {34, 43, 58, 60, 62, 63, 95, 123, 124, 125, 126}
  <2>1. PICK k \in {96, 45, 61, 91, 93, 92, 59, 39, 44, 46, 47} : Mapped(k, ShiftFrom, ShiftTo) = c
    BY <1>7, PairsMapped
  <2>2. Translate(k, shift) = c
    BY <1>7, <1>a, <2>1 DEF Translate, Punctuation
  <2>3. k \in UsKeys /\ k # SPACE
    BY <2>1 DEF UsKeys
  <2> QED
    BY <1>0, <2>2, <2>3
<1> QED
  BY <1>1, <1>2, <1>3, <1>4, <1>5, <1>6, <1>7 DEF UsKeys

\* Every ASCII code can be typed and nothing else; with the keys as the joystick
\* every code but the space can.
THEOREM AsciiIsTypable == Spec => []AsciiTypable
<1>1. IInv => AsciiTypable
  <2> SUFFICES ASSUME keyjoy \in BOOLEAN PROVE AsciiTypable
    BY DEF IInv, HeldOK
  <2> DEFINE codes == (1 .. 127) \cup {255}
             keys == IF keyjoy THEN UsKeys \ Lines ELSE UsKeys
             typed == {Translate(k, m) : k \in keys, m \in SUBSET Mods}
  <2>1. UsKeys \ Lines = UsKeys \ {SPACE} /\ UsKeys \subseteq 1 .. 127
    BY DEF UsKeys, Lines
  <2>2. typed = IF keyjoy THEN codes \ {SPACE} ELSE codes
    <3>1. CASE keyjoy
      <4>1. typed \subseteq codes \ {SPACE}
        BY <2>1, <3>1, CodesOfKeys
      <4>2. codes \ {SPACE} \subseteq typed
        BY <2>1, <3>1, KeyForCode
      <4> HIDE DEF typed, codes
      <4> QED
        BY <3>1, <4>1, <4>2, Zenon
    <3>2. CASE ~ keyjoy
      <4>1. typed \subseteq codes
        BY <2>1, <3>2, CodesOfKeys
      <4>2. codes \subseteq typed
        BY <3>2, KeyForCode
      <4> HIDE DEF typed, codes
      <4> QED
        BY <3>2, <4>1, <4>2, Zenon
    <3> HIDE DEF typed, codes
    <3> QED
      BY <3>1, <3>2
  <2>3. TypableWhen(keyjoy)
    BY <2>2 DEF TypableWhen
  <2>4. Typable[keyjoy] = TypableWhen(keyjoy)
    BY Zenon DEF Typable
  <2> QED
    BY <2>3, <2>4 DEF AsciiTypable
<1> QED
  BY <1>1, Invariant, PTL
=============================================================================
