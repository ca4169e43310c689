------------------------------- MODULE Modem -------------------------------
(***************************************************************************)
(* modem.c from its first call to the end of the process: the connection to *)
(* the adapter is set up in steps any of which may fail, the guest sends    *)
(* and receives bytes, F3 throws away what has arrived, and at the end the   *)
(* receive queue is emptied so that the adapter gets a FIN and not a RST.   *)
(*                                                                         *)
(* A byte is known by the boot whose request it answers.  TCP keeps the     *)
(* order and loses nothing, but bytes stay on their way as long as it likes. *)
(*                                                                         *)
(* How the machine turns waiting bytes into interrupts is in Nabu.          *)
(***************************************************************************)
EXTENDS Integers, Sequences, FiniteSets

CONSTANTS Rounds,    \* reads of modem_flush and of modem_deinit at most (64)
          Chunk,     \* bytes of a read (512)
          MaxOut,    \* bound: bytes on their way or waiting
          MaxBoots   \* bound: resets

ASSUME RoundsAssumption == Rounds \in Nat \ {0} /\ Chunk \in Nat \ {0}
ASSUME BoundAssumption == MaxOut \in Nat /\ MaxBoots \in Nat

VARIABLES
  pc,        \* modem_init: "wsa", "resolve", "socket", "connect"; then the main loop,
             \* "machine"; modem_flush, "flush"; modem_deinit, "drain"; "exit", "killed"
  windows,   \* the build: Winsock is started, and there are no signals
  wsa, sock, \* Winsock is up; the socket: "none", "open", "closed"
  status,    \* modem.c believes it is connected
  gotmodem,  \* main.c's flag
  round,     \* reads of this flush or drain
  \* The connection:
  net, rx,   \* bytes on their way and bytes that wait in the socket
  peer,      \* the adapter: "open", "closed", "seen" once its FIN is here
  rst,       \* the adapter's stack has answered a byte sent after it closed
  asked,     \* the boot whose request the adapter got last
  last,      \* how the connection ended: "", "fin" or "rst"
  \* History:
  boot,      \* resets so far
  calm       \* since the last F3, or the start of the drain, the adapter has had no
             \* more than one flush takes and sent nothing that it was not asked for

initVars == <<windows, wsa, sock, gotmodem>>
lineVars == <<net, rx, peer, rst, asked, last>>
vars == <<pc, initVars, status, round, lineVars, boot, calm>>

TypeOK ==
  /\ pc \in {"wsa", "resolve", "socket", "connect", "machine", "flush", "drain", "exit", "killed"}
  /\ {windows, wsa, status, gotmodem, rst, calm} \subseteq BOOLEAN
  /\ sock \in {"none", "open", "closed"} /\ round \in 0 .. Rounds
  /\ {net, rx} \subseteq Seq(0 .. MaxBoots) /\ Len(net) + Len(rx) <= MaxOut
  /\ peer \in {"open", "closed", "seen"} /\ last \in {"", "fin", "rst"}
  /\ asked \in 0 .. boot /\ boot \in 0 .. MaxBoots

-----------------------------------------------------------------------------
\* modem_init, and main.c's use of its result.

Init ==
  /\ windows \in BOOLEAN
  /\ pc = IF windows THEN "wsa" ELSE "resolve"
  /\ wsa = FALSE /\ sock = "none" /\ status = FALSE /\ gotmodem = FALSE
  /\ net = <<>> /\ rx = <<>> /\ peer = "open" /\ rst = FALSE /\ last = ""
  /\ asked = 0 /\ boot = 0 /\ round = 0 /\ calm = TRUE

\* The clean-up of an error path, without the socket.
FailKeepsSocket == pc' = "machine" /\ wsa' = FALSE /\ UNCHANGED sock

Fail == /\ pc' = "machine" /\ wsa' = FALSE
        /\ sock' = IF sock = "open" THEN "closed" ELSE sock

InitStep == UNCHANGED <<windows, round, lineVars, boot, calm>>

\* WSAStartup
Startup == /\ pc = "wsa" /\ InitStep /\ UNCHANGED <<sock, status, gotmodem>>
           /\ \/ pc' = "resolve" /\ wsa' = TRUE
              \/ pc' = "machine" /\ wsa' = FALSE

\* getaddrinfo
Resolve == /\ pc = "resolve" /\ InitStep /\ UNCHANGED <<status, gotmodem>>
           /\ \/ pc' = "socket" /\ UNCHANGED <<wsa, sock>>
              \/ Fail

OpenSocket == /\ pc = "socket" /\ InitStep /\ UNCHANGED <<status, gotmodem>>
              /\ \/ pc' = "connect" /\ sock' = "open" /\ UNCHANGED wsa
                 \/ Fail

Connect ==
  /\ pc = "connect" /\ InitStep
  /\ \/ pc' = "machine" /\ status' = TRUE /\ gotmodem' = TRUE /\ UNCHANGED <<wsa, sock>>
     \/ Fail /\ UNCHANGED <<status, gotmodem>>

-----------------------------------------------------------------------------
\* The guest's side.

\* modem_bytes_available: a connection that has ended is readable for ever.
Available == status /\ (rx # <<>> \/ peer = "seen" \/ rst)

Rest(s, n) == SubSeq(s, n + 1, Len(s))

\* modem_read, of one byte
Read ==
  /\ pc = "machine" /\ gotmodem /\ Available
  /\ IF rx # <<>> THEN rx' = Tail(rx) /\ UNCHANGED status
     ELSE status' = FALSE /\ UNCHANGED rx
  /\ UNCHANGED <<pc, initVars, round, net, peer, rst, asked, last, boot, calm>>

\* modem_write: a byte that the adapter takes for a request, or that its stack
\* refuses because it has closed.  Once the refusal is here, behind its bytes, the next send raises
\* SIGPIPE, which nothing in main.c catches.
Write ==
  /\ pc = "machine" /\ gotmodem /\ status
  /\ \/ /\ peer = "open"
        /\ asked' = boot /\ UNCHANGED <<pc, rst>>
     \/ /\ peer # "open" /\ ~ rst
        /\ rst' \in {FALSE, net = <<>>} /\ UNCHANGED <<pc, asked>>
     \/ /\ rst
        /\ pc' = IF windows THEN pc ELSE "killed"
        /\ UNCHANGED <<asked, rst>>
  /\ UNCHANGED <<initVars, status, round, net, rx, peer, last, boot, calm>>

-----------------------------------------------------------------------------
\* Reset and exit.

\* One flush, or one drain, can take all that there is.
Small == net = <<>> /\ Len(rx) <= Rounds * Chunk

\* F3: modem_flush comes before init_cpu.
Reset ==
  /\ pc = "machine" /\ boot < MaxBoots
  /\ boot' = boot + 1
  /\ pc' = IF gotmodem /\ status THEN "flush" ELSE pc
  /\ round' = 0
  /\ calm' = Small
  /\ UNCHANGED <<initVars, status, lineVars>>

\* The main loop ends.  A modem that has hung up is left to the end of the process.
Quit ==
  /\ pc = "machine"
  /\ round' = 0 /\ calm' = Small
  /\ IF gotmodem /\ status THEN pc' = "drain" /\ UNCHANGED last
     ELSE /\ pc' = "exit"
          /\ last' = IF sock # "open" THEN "" ELSE IF rx = <<>> THEN "fin" ELSE "rst"
  /\ UNCHANGED <<initVars, status, net, rx, peer, rst, asked, boot>>

\* A flush, or a drain, of one read.
OneFlush == round < (IF pc = "flush" THEN 1 ELSE Rounds) /\ Available
OneDrain == round < (IF pc = "drain" THEN 1 ELSE Rounds) /\ Available
More == round < Rounds /\ Available

\* A recv of Chunk bytes, in a flush or in the drain.
Discard ==
  /\ pc \in {"flush", "drain"} /\ More /\ rx # <<>>
  /\ rx' = Rest(rx, IF Len(rx) < Chunk THEN Len(rx) ELSE Chunk)
  /\ round' = round + 1
  /\ UNCHANGED <<pc, initVars, status, net, peer, rst, asked, last, boot, calm>>

\* modem_flush ends: at a hang-up, with nothing there, or at its bound.
EndFlush ==
  /\ pc = "flush" /\ ~ (More /\ rx # <<>>)
  /\ status' = ~ More
  /\ pc' = "machine"
  /\ UNCHANGED <<initVars, round, lineVars, boot, calm>>

\* modem_deinit ends likewise, and closes: unread bytes make that a RST.
Close ==
  /\ pc = "drain" /\ ~ (More /\ rx # <<>>)
  /\ status' = FALSE /\ sock' = "closed" /\ wsa' = FALSE
  /\ last' = IF rx = <<>> THEN "fin" ELSE "rst"
  /\ pc' = "exit"
  /\ UNCHANGED <<windows, gotmodem, round, net, rx, peer, rst, asked, boot, calm>>

-----------------------------------------------------------------------------
\* The adapter and the network.

Connected == gotmodem /\ sock = "open" /\ pc \in {"machine", "flush", "drain"}
PeerStep == UNCHANGED <<pc, initVars, status, round, last, boot>>

\* A byte for the request that it got last.
PeerSend == /\ Connected /\ peer = "open" /\ Len(net) + Len(rx) < MaxOut
            /\ net' = Append(net, asked)
            /\ calm' = (calm /\ asked = boot /\ pc = "machine")
            /\ PeerStep /\ UNCHANGED <<rx, peer, rst, asked>>

Arrive == /\ Connected /\ net # <<>>
          /\ rx' = Append(rx, Head(net)) /\ net' = Tail(net)
          /\ PeerStep /\ UNCHANGED <<peer, rst, asked, calm>>

\* The adapter closes; its FIN comes behind its bytes.
PeerClose == /\ Connected
             /\ \/ peer = "open" /\ peer' = "closed"
                \/ peer = "closed" /\ net = <<>> /\ peer' = "seen"
             /\ PeerStep /\ UNCHANGED <<net, rx, rst, asked, calm>>

Next ==
  \/ Startup \/ Resolve \/ OpenSocket \/ Connect
  \/ Read \/ Write
  \/ Reset \/ Quit \/ Discard \/ EndFlush \/ Close
  \/ PeerSend \/ Arrive \/ PeerClose

Spec == Init /\ [][Next]_vars

-----------------------------------------------------------------------------
\* After a reset the guest reads nothing that answers a request of an earlier boot,
\* if the adapter had no more waiting than one flush takes and then kept quiet until
\* asked (modem.c:127-151).
OwnStream == pc = "machine" /\ calm => \A i \in DOMAIN rx : rx[i] = boot

\* The adapter sees an orderly end, unless it goes on sending or had more waiting
\* than the drain takes: whether or not the modem had hung up (modem.c:268-285).
OrderlyEnd == last = "rst" => ~ calm

\* A modem that could not be set up leaves nothing behind, at whichever step it
\* failed, and one that was ends with the socket (modem.c:190-238).
AllOrNothing == /\ pc = "machine" /\ ~ gotmodem => sock # "open" /\ ~ wsa /\ ~ status
                /\ status => gotmodem /\ sock = "open"
=============================================================================
