----------------------------- MODULE Modem_proofs -----------------------------
(***************************************************************************)
(* Proofs about Modem for every number of rounds, size of a read and        *)
(* number of bytes on their way, and for both builds.                       *)
(***************************************************************************)
EXTENDS Modem, TLAPS

-----------------------------------------------------------------------------
(***************************************************************************)
(* The inductive invariant.  Each step of modem_init has a state of its    *)
(* own; a hang-up is known only when nothing is on its way any more; and    *)
(* in a calm flush or drain the reads that are left can take what waits.    *)
(***************************************************************************)
Setup == {"wsa", "resolve", "socket", "connect"}

\* The types, one by one.
Booleans == /\ windows \in BOOLEAN /\ wsa \in BOOLEAN /\ status \in BOOLEAN
            /\ gotmodem \in BOOLEAN /\ rst \in BOOLEAN /\ calm \in BOOLEAN
PcOK == pc \in Setup \cup {"machine", "flush", "drain", "exit", "killed"}
BytesOK == /\ net \in Seq(0 .. MaxBoots) /\ rx \in Seq(0 .. MaxBoots)
           /\ Len(net) + Len(rx) <= MaxOut
CountsOK == /\ round \in 0 .. Rounds /\ boot \in 0 .. MaxBoots /\ asked \in 0 .. boot
NamesOK == /\ sock \in {"none", "open", "closed"} /\ peer \in {"open", "closed", "seen"}
           /\ last \in {"", "fin", "rst"}
Types == Booleans /\ PcOK /\ BytesOK /\ CountsOK /\ NamesOK

SetupOK ==
  /\ pc \in Setup => ~ gotmodem /\ ~ status
  /\ pc \in {"wsa", "resolve", "socket"} => sock = "none"
  /\ pc = "connect" => sock = "open"
  /\ pc \notin Setup /\ ~ gotmodem => sock # "open" /\ ~ wsa /\ ~ status
  /\ gotmodem /\ pc # "exit" => sock = "open"
  /\ status => gotmodem /\ sock = "open"

\* The FIN and the RST of the adapter come behind its bytes, so that nothing
\* arrives after modem.c has hung up, nor without a connection.
LineEnds ==
  /\ peer = "seen" => net = <<>>
  /\ rst => peer # "open" /\ net = <<>>
  /\ ~ gotmodem => net = <<>> /\ rx = <<>>
  /\ pc = "machine" /\ gotmodem /\ ~ status => net = <<>> /\ rx = <<>> /\ peer # "open"

\* What the rounds that are left can take.
Room == (Rounds - round) * Chunk

Emptying ==
  pc \in {"flush", "drain"} =>
    /\ gotmodem /\ status
    /\ calm => net = <<>> /\ Len(rx) <= Room

Own(s) == \A i \in 1 .. Len(s) : s[i] = boot

OwnOK == pc = "machine" /\ calm => Own(net) /\ Own(rx)

EndOK == (last # "" => pc = "exit") /\ OrderlyEnd

IInv == Types /\ SetupOK /\ LineEnds /\ Emptying /\ OwnOK /\ EndOK
USE RoundsAssumption, BoundAssumption

-----------------------------------------------------------------------------
(* Numbers and sequences. *)

\* The rounds that are left can take as many reads.
LEMMA Rooms ==
  ASSUME NEW n \in Nat, NEW c \in Nat
  PROVE  n * c \in Nat /\ (n + 1) * c = n * c + c /\ 0 * c = 0
OBVIOUS

\* A recv takes the first bytes, and as many as there are if there are no more.
LEMMA RestOf ==
  ASSUME NEW S, NEW s \in Seq(S), NEW n \in 0 .. Len(s)
  PROVE  /\ Rest(s, n) \in Seq(S) /\ Len(Rest(s, n)) = Len(s) - n
         /\ \A i \in 1 .. Len(Rest(s, n)) : Rest(s, n)[i] = s[i + n]
BY DEF Rest

\* The first byte taken off, and one put at the end.
LEMMA TailOf ==
  ASSUME NEW S, NEW s \in Seq(S), s # <<>>
  PROVE  /\ Tail(s) \in Seq(S) /\ Len(s) \in Nat /\ Len(Tail(s)) = Len(s) - 1 /\ Head(s) \in S
         /\ Head(s) = s[1] /\ 1 \in 1 .. Len(s)
         /\ \A i \in 1 .. Len(Tail(s)) : Tail(s)[i] = s[i + 1] /\ i + 1 \in 1 .. Len(s)
OBVIOUS

LEMMA AppendTo ==
  ASSUME NEW S, NEW s \in Seq(S), NEW b \in S
  PROVE  /\ Append(s, b) \in Seq(S) /\ Len(s) \in Nat /\ Len(Append(s, b)) = Len(s) + 1
         /\ \A i \in 1 .. Len(Append(s, b)) :
              (i \in 1 .. Len(s) /\ Append(s, b)[i] = s[i]) \/ Append(s, b)[i] = b
OBVIOUS

LEMMA InitIInv == Init => IInv
<1> SUFFICES ASSUME Init PROVE IInv
  OBVIOUS
<1>1. /\ pc \in Setup /\ windows \in BOOLEAN /\ wsa = FALSE /\ status = FALSE
      /\ gotmodem = FALSE /\ rst = FALSE /\ calm = TRUE
      /\ pc \in {"wsa", "resolve", "socket"} /\ sock = "none" /\ peer = "open" /\ last = ""
  BY DEF Init, Setup
<1>2. net = <<>> /\ rx = <<>> /\ round = 0 /\ asked = 0 /\ boot = 0
  BY DEF Init
<1>3. Booleans /\ PcOK /\ NamesOK
  BY <1>1 DEF Booleans, PcOK, NamesOK
<1>4. BytesOK /\ CountsOK /\ Len(net) = 0 /\ Len(rx) = 0
  BY <1>2 DEF BytesOK, CountsOK
<1>5. SetupOK
  BY <1>1 DEF SetupOK, Setup
<1>6. LineEnds /\ Emptying /\ OwnOK /\ EndOK
  BY <1>1, <1>2 DEF LineEnds, Emptying, OwnOK, EndOK, OrderlyEnd, Setup
<1> QED
  BY <1>3, <1>4, <1>5, <1>6 DEF IInv, Types

-----------------------------------------------------------------------------
\* modem_init: each step, and each of its failures.
LEMMA Setups ==
  ASSUME IInv, Startup \/ Resolve \/ OpenSocket \/ Connect
  PROVE  IInv'
<1>1. /\ pc \in Setup /\ pc' \in Setup \cup {"machine"}
      /\ UNCHANGED <<windows, round, net, rx, peer, rst, asked, last, boot, calm>>
  BY DEF Startup, Resolve, OpenSocket, Connect, Fail, InitStep, lineVars, Setup
<1>2. Booleans /\ PcOK /\ BytesOK /\ CountsOK /\ NamesOK /\ ~ gotmodem /\ ~ status
  BY <1>1 DEF IInv, Types, SetupOK
<1>3. Booleans'
  <2>1. wsa' \in BOOLEAN /\ status' \in BOOLEAN /\ gotmodem' \in BOOLEAN
    BY <1>2 DEF Booleans, Startup, Resolve, OpenSocket, Connect, Fail
  <2> QED
    BY <1>1, <1>2, <2>1 DEF Booleans
<1>4. PcOK' /\ BytesOK' /\ CountsOK'
  BY <1>1, <1>2 DEF PcOK, BytesOK, CountsOK
<1>5. NamesOK'
  BY <1>1, <1>2 DEF NamesOK, Startup, Resolve, OpenSocket, Connect, Fail
<1>6. SetupOK'
  <2>1. CASE Startup
    BY <1>2, <2>1 DEF Startup, SetupOK, IInv, Setup
  <2>2. CASE Resolve
    BY <1>2, <2>2 DEF Resolve, Fail, SetupOK, IInv, Setup
  <2>3. CASE OpenSocket
    BY <1>2, <2>3 DEF OpenSocket, Fail, SetupOK, IInv, Setup
  <2>4. CASE Connect
    BY <1>2, <2>4 DEF Connect, Fail, SetupOK, IInv, Setup
  <2> QED
    BY <2>1, <2>2, <2>3, <2>4
<1>7. net = <<>> /\ rx = <<>> /\ (pc' = "machine" /\ gotmodem' => status')
  BY <1>2 DEF IInv, LineEnds, Startup, Resolve, OpenSocket, Connect, Fail
<1>8. LineEnds'
  BY <1>1, <1>7 DEF IInv, LineEnds
<1>9. Len(net) = 0 /\ Len(rx) = 0
  BY <1>7
<1>10. Emptying' /\ EndOK'
  BY <1>1 DEF IInv, Emptying, EndOK, OrderlyEnd, Setup
<1>11. OwnOK'
  BY <1>1, <1>9 DEF OwnOK, Own
<1> QED
  BY <1>3, <1>4, <1>5, <1>6, <1>8, <1>10, <1>11 DEF IInv, Types
-----------------------------------------------------------------------------
(* The guest's side. *)

LEMMA Reads ==
  ASSUME IInv, Read
  PROVE  IInv'
<1>1. /\ pc = "machine" /\ gotmodem /\ status /\ (rx # <<>> \/ peer = "seen" \/ rst)
      /\ UNCHANGED <<pc, windows, wsa, sock, gotmodem, round, net, peer, rst, asked, last,
                     boot, calm>>
  BY DEF Read, Available, initVars
<1>2. Booleans /\ PcOK /\ BytesOK /\ CountsOK /\ NamesOK
  BY DEF IInv, Types
<1>3. \/ rx # <<>> /\ rx' = Tail(rx) /\ status' = status
      \/ rx = <<>> /\ status' = FALSE /\ rx' = rx
  BY DEF Read
<1>4. Booleans'
  BY <1>1, <1>2, <1>3 DEF Booleans
<1>5. PcOK' /\ CountsOK' /\ NamesOK'
  BY <1>1, <1>2 DEF PcOK, CountsOK, NamesOK
<1>6. BytesOK'
  <2>1. /\ rx' \in Seq(0 .. MaxBoots) /\ Len(rx) \in Nat /\ Len(rx') <= Len(rx) /\ Len(net) \in Nat
        /\ Len(rx') \in Nat
    <3>1. CASE rx # <<>> /\ rx' = Tail(rx)
      BY <1>2, <3>1, TailOf DEF BytesOK
    <3>2. CASE rx' = rx
      BY <1>2, <3>2 DEF BytesOK
    <3> QED
      BY <1>3, <3>1, <3>2
  <2> QED
    BY <1>1, <1>2, <2>1 DEF BytesOK
<1>7. SetupOK'
  BY <1>1, <1>3 DEF IInv, SetupOK, Setup
<1>8. LineEnds'
  BY <1>1, <1>3 DEF IInv, LineEnds
<1>9. Emptying' /\ EndOK'
  BY <1>1 DEF IInv, Emptying, EndOK, OrderlyEnd
<1>10. OwnOK'
  <2> SUFFICES ASSUME calm PROVE Own(net)' /\ Own(rx)'
    BY <1>1 DEF OwnOK
  <2>1. Own(net) /\ Own(rx)
    BY <1>1 DEF IInv, OwnOK
  <2>2. Own(net)'
    BY <1>1, <2>1 DEF Own
  <2>3. Own(rx)'
    <3>1. CASE rx # <<>> /\ rx' = Tail(rx)
      BY <1>1, <1>2, <2>1, <3>1, TailOf DEF Own, BytesOK
    <3>2. CASE rx' = rx
      BY <1>1, <2>1, <3>2 DEF Own
    <3> QED
      BY <1>3, <3>1, <3>2
  <2> QED
    BY <2>2, <2>3
<1> QED
  BY <1>4, <1>5, <1>6, <1>7, <1>8, <1>9, <1>10 DEF IInv, Types

LEMMA Writes ==
  ASSUME IInv, Write
  PROVE  IInv'
<1>1. /\ pc = "machine" /\ gotmodem /\ status /\ pc' \in {"machine", "killed"}
      /\ UNCHANGED <<windows, wsa, sock, gotmodem, status, round, net, rx, peer, last, boot, calm>>
  BY DEF Write, initVars
<1>2. Booleans /\ PcOK /\ BytesOK /\ CountsOK /\ NamesOK
  BY DEF IInv, Types
<1>3. /\ asked' = boot \/ asked' = asked
      /\ rst' = rst \/ (peer # "open" /\ rst' \in BOOLEAN /\ (rst' => net = <<>>))
  <2>1. CASE peer = "open" /\ asked' = boot /\ UNCHANGED rst
    BY <2>1
  <2>2. CASE peer # "open" /\ rst' \in {FALSE, net = <<>>} /\ UNCHANGED asked
    BY <2>2
  <2>3. CASE UNCHANGED <<asked, rst>>
    BY <2>3
  <2> QED
    BY <2>1, <2>2, <2>3 DEF Write
<1>4. Booleans'
  BY <1>1, <1>2, <1>3 DEF Booleans
<1>5. PcOK' /\ NamesOK' /\ BytesOK'
  BY <1>1, <1>2 DEF PcOK, NamesOK, BytesOK
<1>6. CountsOK'
  BY <1>1, <1>2, <1>3 DEF CountsOK
<1>7. SetupOK'
  BY <1>1 DEF IInv, SetupOK, Setup
<1>8. LineEnds'
  BY <1>1, <1>3 DEF IInv, LineEnds
<1>9. Emptying'
  BY <1>1 DEF Emptying
<1>10. EndOK'
  BY <1>1 DEF IInv, EndOK, OrderlyEnd
<1>11. OwnOK'
  BY <1>1 DEF IInv, OwnOK, Own
<1> QED
  BY <1>4, <1>5, <1>6, <1>7, <1>8, <1>9, <1>10, <1>11 DEF IInv, Types

-----------------------------------------------------------------------------
(* Reset and exit. *)

\* All that waits when a flush or a drain starts calmly is within its reads.
LEMMA Starts ==
  ASSUME round' = 0, calm' = Small, calm', UNCHANGED <<net, rx>>
  PROVE  net' = <<>> /\ Len(rx') <= Room'
<1>1. net = <<>> /\ Len(rx) <= Rounds * Chunk
  BY DEF Small
<1>2. Rounds - 0 = Rounds
  OBVIOUS
<1> QED
  BY <1>1, <1>2 DEF Room

LEMMA Resets ==
  ASSUME IInv, Reset
  PROVE  IInv'
<1>1. /\ pc = "machine" /\ boot < MaxBoots /\ boot' = boot + 1 /\ round' = 0 /\ calm' = Small
      /\ UNCHANGED <<windows, wsa, sock, gotmodem, status, net, rx, peer, rst, asked, last>>
      /\ pc' = IF gotmodem /\ status THEN "flush" ELSE "machine"
  BY DEF Reset, initVars, lineVars
<1>2. Booleans /\ PcOK /\ BytesOK /\ CountsOK /\ NamesOK
  BY DEF IInv, Types
<1>3. Booleans'
  BY <1>1, <1>2 DEF Booleans, Small
<1>4. PcOK' /\ NamesOK' /\ BytesOK'
  BY <1>1, <1>2 DEF PcOK, NamesOK, BytesOK
<1>5. CountsOK'
  BY <1>1, <1>2 DEF CountsOK
<1>6. SetupOK' /\ LineEnds'
  BY <1>1 DEF IInv, SetupOK, Setup, LineEnds
<1>7. Emptying'
  BY <1>1, Starts DEF Emptying
<1>8. OwnOK'
  <2> SUFFICES ASSUME pc' = "machine" PROVE Own(net)' /\ Own(rx)'
    BY DEF OwnOK
  <2>1. net' = <<>> /\ rx' = <<>>
    BY <1>1 DEF IInv, LineEnds
  <2> QED
    BY <2>1 DEF Own
<1>9. EndOK'
  BY <1>1 DEF IInv, EndOK, OrderlyEnd
<1> QED
  BY <1>3, <1>4, <1>5, <1>6, <1>7, <1>8, <1>9 DEF IInv, Types

LEMMA Quits ==
  ASSUME IInv, Quit
  PROVE  IInv'
<1>1. /\ pc = "machine" /\ round' = 0 /\ calm' = Small
      /\ UNCHANGED <<windows, wsa, sock, gotmodem, status, net, rx, peer, rst, asked, boot>>
      /\ pc' = IF gotmodem /\ status THEN "drain" ELSE "exit"
  BY DEF Quit, initVars
<1>2. Booleans /\ PcOK /\ BytesOK /\ CountsOK /\ NamesOK
  BY DEF IInv, Types
<1>3. IF gotmodem /\ status THEN last' = last ELSE last' \in {"", "fin"}
  <2>1. ASSUME ~ (gotmodem /\ status), sock = "open" PROVE rx = <<>>
    BY <1>1, <2>1 DEF IInv, SetupOK, Setup, LineEnds
  <2> QED
    BY <2>1 DEF Quit
<1>4. Booleans'
  BY <1>1, <1>2 DEF Booleans, Small
<1>5. PcOK' /\ NamesOK' /\ BytesOK'
  BY <1>1, <1>2, <1>3 DEF PcOK, NamesOK, BytesOK
<1>6. CountsOK'
  BY <1>1, <1>2 DEF CountsOK
<1>7. SetupOK' /\ LineEnds'
  BY <1>1 DEF IInv, SetupOK, Setup, LineEnds
<1>8. Emptying'
  BY <1>1, Starts DEF Emptying
<1>9. OwnOK' /\ EndOK'
  BY <1>1, <1>3 DEF IInv, OwnOK, EndOK, OrderlyEnd
<1> QED
  BY <1>4, <1>5, <1>6, <1>7, <1>8, <1>9 DEF IInv, Types

LEMMA Discards ==
  ASSUME IInv, Discard
  PROVE  IInv'
<1> DEFINE n == IF Len(rx) < Chunk THEN Len(rx) ELSE Chunk
<1>1. /\ pc \in {"flush", "drain"} /\ round < Rounds /\ rx # <<>>
      /\ rx' = Rest(rx, n) /\ round' = round + 1
      /\ UNCHANGED <<pc, windows, wsa, sock, gotmodem, status, net, peer, rst, asked, last,
                     boot, calm>>
  BY DEF Discard, More, initVars
<1>2. Booleans /\ PcOK /\ BytesOK /\ CountsOK /\ NamesOK
  BY DEF IInv, Types
<1>3. n \in 0 .. Len(rx) /\ (n = Len(rx) \/ n = Chunk)
  BY <1>2 DEF BytesOK
<1> HIDE DEF n
<1>4. rx' \in Seq(0 .. MaxBoots) /\ Len(rx') = Len(rx) - n /\ Len(rx) \in Nat
  <2>1. rx \in Seq(0 .. MaxBoots) /\ Len(rx) \in Nat
    BY <1>2 DEF BytesOK
  <2>2. Rest(rx, n) \in Seq(0 .. MaxBoots) /\ Len(Rest(rx, n)) = Len(rx) - n
    BY <1>3, <2>1, RestOf, Zenon
  <2> QED
    BY <1>1, <2>1, <2>2
<1>5. Booleans' /\ PcOK' /\ NamesOK'
  BY <1>1, <1>2 DEF Booleans, PcOK, NamesOK
<1>6. BytesOK'
  BY <1>1, <1>2, <1>3, <1>4 DEF BytesOK
<1>7. CountsOK'
  BY <1>1, <1>2 DEF CountsOK
<1>8. SetupOK'
  BY <1>1 DEF IInv, SetupOK
<1>9. LineEnds'
  <2>1. gotmodem /\ pc # "machine"
    BY <1>1 DEF IInv, Emptying
  <2> QED
    BY <1>1, <2>1 DEF IInv, LineEnds
<1>10. Emptying'
  <2>1. gotmodem /\ status /\ (calm => net = <<>> /\ Len(rx) <= Room)
    BY <1>1 DEF IInv, Emptying
  <2>2. ASSUME calm PROVE Len(rx') <= Room'
    <3> DEFINE left == Rounds - (round + 1)
    <3>1. left \in Nat /\ Rounds - round = left + 1 /\ Rounds - round' = left
      BY <1>1, <1>2 DEF CountsOK
    <3> HIDE DEF left
    <3>2. Room = left * Chunk + Chunk /\ Room' = left * Chunk /\ left * Chunk \in Nat
      BY <3>1, Rooms DEF Room
    <3> QED
      BY <1>3, <1>4, <2>1, <2>2, <3>2
  <2> QED
    BY <1>1, <2>1, <2>2 DEF Emptying
<1>11. OwnOK' /\ EndOK'
  BY <1>1 DEF IInv, OwnOK, EndOK, OrderlyEnd
<1> QED
  BY <1>5, <1>6, <1>7, <1>8, <1>9, <1>10, <1>11 DEF IInv, Types
\* A calm flush or drain that ends has taken all there was: it ended with nothing
\* there, or at its bound.
LEMMA Emptied ==
  ASSUME IInv, pc \in {"flush", "drain"}, ~ (More /\ rx # <<>>), calm
  PROVE  net = <<>> /\ rx = <<>>
<1>1. status /\ net = <<>> /\ Len(rx) <= Room
  BY DEF IInv, Emptying
<1>2. round \in 0 .. Rounds /\ rx \in Seq(0 .. MaxBoots)
  BY DEF IInv, Types, CountsOK, BytesOK
<1>3. rx = <<>> \/ ~ round < Rounds
  BY <1>1 DEF More, Available
<1>4. ASSUME ~ round < Rounds PROVE rx = <<>>
  <2>1. round = Rounds /\ Rounds - round = 0
    BY <1>2, <1>4
  <2>2. Room = 0
    BY <2>1, Rooms DEF Room
  <2>3. Len(rx) = 0
    BY <1>1, <1>2, <2>2
  <2> QED
    BY <1>2, <2>3
<1> QED
  BY <1>1, <1>3, <1>4

LEMMA EndFlushes ==
  ASSUME IInv, EndFlush
  PROVE  IInv'
<1>1. /\ pc = "flush" /\ pc' = "machine" /\ ~ (More /\ rx # <<>>) /\ status' = ~ More
      /\ UNCHANGED <<windows, wsa, sock, gotmodem, round, net, rx, peer, rst, asked, last,
                     boot, calm>>
  BY DEF EndFlush, initVars, lineVars
<1>2. Booleans /\ PcOK /\ BytesOK /\ CountsOK /\ NamesOK
  BY DEF IInv, Types
<1>3. gotmodem /\ status /\ sock = "open"
  BY <1>1 DEF IInv, Emptying, SetupOK
<1>4. status' \in BOOLEAN
  BY <1>1
<1>5. Booleans'
  BY <1>1, <1>2, <1>4 DEF Booleans
<1>6. PcOK' /\ NamesOK' /\ BytesOK' /\ CountsOK'
  BY <1>1, <1>2 DEF PcOK, NamesOK, BytesOK, CountsOK
<1>7. SetupOK'
  BY <1>1, <1>3 DEF SetupOK, Setup
<1>8. LineEnds'
  <2>1. ASSUME ~ status' PROVE net = <<>> /\ rx = <<>> /\ peer # "open"
    <3>1. rx = <<>> /\ (peer = "seen" \/ rst)
      BY <1>1, <2>1 DEF More, Available
    <3> QED
      BY <3>1 DEF IInv, LineEnds
  <2> QED
    BY <1>1, <1>3, <2>1 DEF IInv, LineEnds
<1>9. Emptying' /\ EndOK'
  BY <1>1 DEF IInv, Emptying, EndOK, OrderlyEnd
<1>10. OwnOK'
  <2> SUFFICES ASSUME calm PROVE Own(net)' /\ Own(rx)'
    BY <1>1 DEF OwnOK
  <2>1. net' = <<>> /\ rx' = <<>>
    BY <1>1, Emptied
  <2> QED
    BY <2>1 DEF Own
<1> QED
  BY <1>5, <1>6, <1>7, <1>8, <1>9, <1>10 DEF IInv, Types

LEMMA Closes ==
  ASSUME IInv, Close
  PROVE  IInv'
<1>1. /\ pc = "drain" /\ pc' = "exit" /\ ~ (More /\ rx # <<>>)
      /\ status' = FALSE /\ wsa' = FALSE /\ sock' = "closed"
      /\ last' = IF rx = <<>> THEN "fin" ELSE "rst"
      /\ UNCHANGED <<windows, gotmodem, round, net, rx, peer, rst, asked, boot, calm>>
  BY DEF Close
<1>2. Booleans /\ PcOK /\ BytesOK /\ CountsOK /\ NamesOK
  BY DEF IInv, Types
<1>3. Booleans'
  BY <1>1, <1>2 DEF Booleans
<1>4. PcOK' /\ NamesOK' /\ BytesOK' /\ CountsOK'
  BY <1>1, <1>2 DEF PcOK, NamesOK, BytesOK, CountsOK
<1>5. SetupOK' /\ LineEnds' /\ Emptying' /\ OwnOK'
  BY <1>1 DEF IInv, SetupOK, Setup, LineEnds, Emptying, OwnOK
<1>6. EndOK'
  <2>1. calm => rx = <<>>
    BY <1>1, Emptied
  <2> QED
    BY <1>1, <2>1 DEF EndOK, OrderlyEnd
<1> QED
  BY <1>3, <1>4, <1>5, <1>6 DEF IInv, Types

-----------------------------------------------------------------------------
(* The adapter and the network. *)

LEMMA PeerSends ==
  ASSUME IInv, PeerSend
  PROVE  IInv'
<1>1. /\ gotmodem /\ sock = "open" /\ pc \in {"machine", "flush", "drain"} /\ peer = "open"
      /\ net' = Append(net, asked) /\ calm' = (calm /\ asked = boot /\ pc = "machine")
      /\ UNCHANGED <<pc, windows, wsa, sock, gotmodem, status, round, rx, peer, rst, asked,
                     last, boot>>
  BY DEF PeerSend, Connected, PeerStep, initVars
<1>2. Booleans /\ PcOK /\ BytesOK /\ CountsOK /\ NamesOK
  BY DEF IInv, Types
<1>3. asked \in 0 .. MaxBoots /\ net \in Seq(0 .. MaxBoots)
  BY <1>2 DEF BytesOK, CountsOK
<1>4. calm' \in BOOLEAN /\ (calm' => calm /\ asked = boot /\ pc = "machine")
  BY <1>1
<1>5. Booleans'
  BY <1>1, <1>2, <1>4 DEF Booleans
<1>6. PcOK' /\ NamesOK' /\ CountsOK'
  BY <1>1, <1>2 DEF PcOK, NamesOK, CountsOK
<1>7. BytesOK'
  <2>1. Len(net) + Len(rx) < MaxOut
    BY DEF PeerSend
  <2>2. net' \in Seq(0 .. MaxBoots) /\ Len(net') = Len(net) + 1 /\ Len(net) \in Nat
    BY <1>1, <1>3, AppendTo
  <2>3. rx' = rx /\ rx \in Seq(0 .. MaxBoots) /\ Len(rx) \in Nat
    BY <1>1, <1>2 DEF BytesOK
  <2> QED
    BY <2>1, <2>2, <2>3 DEF BytesOK
<1>8. SetupOK'
  BY <1>1 DEF IInv, SetupOK
<1>9. LineEnds'
  <2>1. ~ rst /\ peer # "seen" /\ (pc = "machine" => status)
    BY <1>1 DEF IInv, LineEnds
  <2> QED
    BY <1>1, <2>1 DEF LineEnds
<1>10. Emptying' /\ EndOK'
  BY <1>1, <1>4 DEF IInv, Emptying, EndOK, OrderlyEnd
<1>11. OwnOK'
  <2> SUFFICES ASSUME calm' PROVE Own(net)' /\ Own(rx)'
    BY DEF OwnOK
  <2>1. Own(net) /\ Own(rx) /\ asked = boot
    BY <1>4 DEF IInv, OwnOK
  <2>2. Own(net)'
    BY <1>1, <1>3, <2>1, AppendTo DEF Own
  <2>3. Own(rx)'
    BY <1>1, <2>1 DEF Own
  <2> QED
    BY <2>2, <2>3
<1> QED
  BY <1>5, <1>6, <1>7, <1>8, <1>9, <1>10, <1>11 DEF IInv, Types

LEMMA Arrives ==
  ASSUME IInv, Arrive
  PROVE  IInv'
<1>1. /\ gotmodem /\ sock = "open" /\ pc \in {"machine", "flush", "drain"}
      /\ net # <<>> /\ rx' = Append(rx, Head(net)) /\ net' = Tail(net)
      /\ UNCHANGED <<pc, windows, wsa, sock, gotmodem, status, round, peer, rst, asked,
                     last, boot, calm>>
  BY DEF Arrive, Connected, PeerStep, initVars
<1>2. Booleans /\ PcOK /\ BytesOK /\ CountsOK /\ NamesOK
  BY DEF IInv, Types
<1>3. Booleans' /\ PcOK' /\ NamesOK' /\ CountsOK'
  BY <1>1, <1>2 DEF Booleans, PcOK, NamesOK, CountsOK
<1>4. net \in Seq(0 .. MaxBoots) /\ rx \in Seq(0 .. MaxBoots) /\ Head(net) \in 0 .. MaxBoots
  BY <1>1, <1>2, TailOf DEF BytesOK
<1>5. BytesOK'
  <2>1. net' \in Seq(0 .. MaxBoots) /\ Len(net') = Len(net) - 1 /\ Len(net) \in Nat
    BY <1>1, <1>4, TailOf
  <2>2. rx' \in Seq(0 .. MaxBoots) /\ Len(rx') = Len(rx) + 1 /\ Len(rx) \in Nat
    BY <1>1, <1>4, AppendTo
  <2>3. Len(net) + Len(rx) <= MaxOut
    BY <1>2 DEF BytesOK
  <2> QED
    BY <2>1, <2>2, <2>3 DEF BytesOK
<1>6. SetupOK'
  BY <1>1 DEF IInv, SetupOK
<1>7. LineEnds'
  <2>1. peer # "seen" /\ ~ rst /\ (pc = "machine" => status)
    BY <1>1 DEF IInv, LineEnds
  <2> QED
    BY <1>1, <2>1 DEF LineEnds
<1>8. Emptying' /\ EndOK'
  BY <1>1 DEF IInv, Emptying, EndOK, OrderlyEnd
<1>9. OwnOK'
  <2> SUFFICES ASSUME pc = "machine", calm PROVE Own(net)' /\ Own(rx)'
    BY <1>1 DEF OwnOK
  <2>1. Own(net) /\ Own(rx)
    BY DEF IInv, OwnOK
  <2>2. Own(net)' /\ Head(net) = boot
    BY <1>1, <1>4, <2>1, TailOf DEF Own
  <2>3. Own(rx)'
    BY <1>1, <1>4, <2>1, <2>2, AppendTo DEF Own
  <2> QED
    BY <2>2, <2>3
<1> QED
  BY <1>3, <1>5, <1>6, <1>7, <1>8, <1>9 DEF IInv, Types

LEMMA PeerCloses ==
  ASSUME IInv, PeerClose
  PROVE  IInv'
<1>1. /\ peer' \in {"closed", "seen"} /\ (peer' = "seen" => net = <<>>)
      /\ UNCHANGED <<pc, windows, wsa, sock, gotmodem, status, round, net, rx, rst, asked,
                     last, boot, calm>>
  BY DEF PeerClose, PeerStep, initVars
<1>2. Booleans /\ PcOK /\ BytesOK /\ CountsOK /\ NamesOK
  BY DEF IInv, Types
<1>3. Booleans' /\ PcOK' /\ NamesOK' /\ BytesOK' /\ CountsOK'
  <2>1. Booleans'
    BY <1>1, <1>2 DEF Booleans
  <2>2. PcOK' /\ NamesOK' /\ BytesOK' /\ CountsOK'
    BY <1>1, <1>2 DEF PcOK, NamesOK, BytesOK, CountsOK
  <2> QED
    BY <2>1, <2>2
<1>4. SetupOK' /\ LineEnds'
  BY <1>1 DEF IInv, SetupOK, LineEnds
<1>5. Emptying'
  BY <1>1 DEF IInv, Emptying, Room
<1>6. OwnOK' /\ EndOK'
  BY <1>1 DEF IInv, OwnOK, Own, EndOK, OrderlyEnd
<1> QED
  BY <1>3, <1>4, <1>5, <1>6 DEF IInv, Types

-----------------------------------------------------------------------------
LEMMA NextIInv == IInv /\ [Next]_vars => IInv'
<1> SUFFICES ASSUME IInv, [Next]_vars PROVE IInv'
  OBVIOUS
<1>1. CASE Startup \/ Resolve \/ OpenSocket \/ Connect
  BY <1>1, Setups
<1>2. CASE Read
  BY <1>2, Reads
<1>3. CASE Write
  BY <1>3, Writes
<1>4. CASE Reset
  BY <1>4, Resets
<1>5. CASE Quit
  BY <1>5, Quits
<1>6. CASE Discard
  BY <1>6, Discards
<1>7. CASE EndFlush
  BY <1>7, EndFlushes
<1>8. CASE Close
  BY <1>8, Closes
<1>9. CASE PeerSend
  BY <1>9, PeerSends
<1>10. CASE Arrive
  BY <1>10, Arrives
<1>11. CASE PeerClose
  BY <1>11, PeerCloses
<1>12. CASE UNCHANGED vars
  <2>1. UNCHANGED <<pc, windows, wsa, sock, gotmodem, status, round, net, rx, peer, rst,
                    asked, last, boot, calm>>
    BY <1>12 DEF vars, initVars, lineVars
  <2>2. Types'
    <3>1. Booleans'
      BY <2>1 DEF IInv, Types, Booleans
    <3>2. PcOK' /\ NamesOK' /\ BytesOK' /\ CountsOK'
      BY <2>1 DEF IInv, Types, PcOK, NamesOK, BytesOK, CountsOK
    <3> QED
      BY <3>1, <3>2 DEF Types
  <2>3. SetupOK' /\ LineEnds' /\ EndOK'
    BY <2>1 DEF IInv, SetupOK, LineEnds, EndOK, OrderlyEnd
  <2>4. Emptying' /\ OwnOK'
    BY <2>1 DEF IInv, Emptying, Room, OwnOK, Own
  <2> QED
    BY <2>2, <2>3, <2>4 DEF IInv
<1> QED
  BY <1>1, <1>2, <1>3, <1>4, <1>5, <1>6, <1>7, <1>8, <1>9, <1>10, <1>11, <1>12 DEF Next

LEMMA Invariant == Spec => []IInv
  BY InitIInv, NextIInv, PTL DEF Spec

\* Every variable keeps its type, for every number of rounds and size of a read.
THEOREM TypeCorrect == Spec => []TypeOK
<1>1. IInv => TypeOK
  <2> SUFFICES ASSUME IInv PROVE TypeOK
    OBVIOUS
  <2>1. Booleans /\ PcOK /\ BytesOK /\ CountsOK /\ NamesOK
    BY DEF IInv, Types
  <2>2. {windows, wsa, status, gotmodem, rst, calm} \subseteq BOOLEAN
    BY <2>1 DEF Booleans
  <2>3. {net, rx} \subseteq Seq(0 .. MaxBoots) /\ Len(net) + Len(rx) <= MaxOut
    BY <2>1 DEF BytesOK
  <2>4. pc \in {"wsa", "resolve", "socket", "connect", "machine", "flush", "drain", "exit", "killed"}
    BY <2>1 DEF PcOK, Setup
  <2> QED
    BY <2>1, <2>2, <2>3, <2>4 DEF TypeOK, CountsOK, NamesOK
<1> QED
  BY <1>1, Invariant, PTL

\* Whichever step of modem_init fails, it leaves neither Winsock nor a socket
\* behind, and modem.c is connected only while it has a socket.
THEOREM SetUpWholly == Spec => []AllOrNothing
<1>1. IInv => AllOrNothing
  BY DEF IInv, SetupOK, AllOrNothing, Setup
<1> QED
  BY <1>1, Invariant, PTL

\* The adapter gets a RST only if it went on sending, or had more waiting than the
\* reads of modem_deinit can take, however the bytes and the hang-up arrive.
THEOREM EndsOrderly == Spec => []OrderlyEnd
<1>1. IInv => OrderlyEnd
  BY DEF IInv, EndOK
<1> QED
  BY <1>1, Invariant, PTL

\* After F3 no byte for a request of an earlier boot is left for the guest, if the
\* adapter had no more than modem_flush takes and then kept quiet until asked.
THEOREM StreamIsOwn == Spec => []OwnStream
<1>1. IInv => OwnStream
  <2> SUFFICES ASSUME IInv, pc = "machine", calm PROVE \A i \in DOMAIN rx : rx[i] = boot
    BY DEF OwnStream
  <2>1. Own(rx) /\ rx \in Seq(0 .. MaxBoots)
    BY DEF IInv, OwnOK, Types, BytesOK
  <2>2. DOMAIN rx = 1 .. Len(rx)
    BY <2>1
  <2> QED
    BY <2>1, <2>2 DEF Own
<1> QED
  BY <1>1, Invariant, PTL
=============================================================================
