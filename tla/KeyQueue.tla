------------------------------ MODULE KeyQueue ------------------------------
(***************************************************************************)
(* The keyboard buffer of main.c seen as a bounded queue of codes: what    *)
(* every user of keyboard_buffer_put/get may rely on.  Module KeyRing is   *)
(* the circular buffer that implements it; module Nabu uses the queue.     *)
(***************************************************************************)
EXTENDS Naturals, Sequences

CONSTANTS Codes,      \* the key codes the keyboard can send
          Capacity    \* codes the buffer holds at most (255 in the program)

ASSUME CapacityAssumption == Capacity \in Nat \ {0}

Queues == {q \in Seq(Codes) : Len(q) <= Capacity}

\* A full buffer refuses the new code: the codes already queued stay.
KeyPut(q, c) == IF Len(q) < Capacity THEN Append(q, c) ELSE q

\* What is left after a read; reading an empty buffer changes nothing.
KeyRest(q) == IF q = <<>> THEN q ELSE Tail(q)
=============================================================================
