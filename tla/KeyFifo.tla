------------------------------- MODULE KeyFifo ------------------------------
(***************************************************************************)
(* The abstract keyboard: a bounded first-in first-out queue that counts   *)
(* the codes it had to refuse.  Joystick reports are two codes, a prefix   *)
(* and the stick byte, put one after the other.                            *)
(***************************************************************************)
EXTENDS KeyQueue

CONSTANTS Prefix,     \* 0x80, announces a stick byte
          Empty,      \* 255, what a read of an empty buffer returns
          DropWrap    \* the counter of refused codes is kept modulo this

VARIABLES queue,      \* the codes the CPU has still to read
          drops,      \* how many codes were refused, modulo DropWrap
          got         \* what the last read returned

fifoVars == <<queue, drops, got>>

FifoInit == queue = <<>> /\ drops = 0 /\ got = Empty

\* The counter of refused codes after one more.
Bump(n) == (n + 1) % DropWrap

PutOne(c) == /\ queue' = KeyPut(queue, c)
             /\ drops' = IF Len(queue) < Capacity THEN drops ELSE Bump(drops)
             /\ UNCHANGED got

\* Each of the two codes is accepted or refused by itself.
PutTwo(j) == /\ queue' = KeyPut(KeyPut(queue, Prefix), j)
             /\ drops' = CASE Len(queue) + 1 < Capacity -> drops
                           [] Len(queue) + 1 = Capacity -> Bump(drops)
                           [] OTHER -> Bump(Bump(drops))
             /\ UNCHANGED got

Take == /\ got' = IF queue = <<>> THEN Empty ELSE Head(queue)
        /\ queue' = KeyRest(queue)
        /\ UNCHANGED drops

FifoNext == Take \/ \E c \in Codes : PutOne(c) \/ PutTwo(c)

FifoSpec == FifoInit /\ [][FifoNext]_fifoVars
=============================================================================
