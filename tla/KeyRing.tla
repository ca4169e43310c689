------------------------------- MODULE KeyRing ------------------------------
(***************************************************************************)
(* keyboard_buffer of main.c: a ring of Size slots with a write and a read *)
(* index of one byte each.  One slot always stays open, because a write    *)
(* index that met the read index would read as an empty buffer.            *)
(*                                                                         *)
(* The program has Size = 256, where a uint8_t index wraps by itself; the  *)
(* indices here wrap at Size.  keyboard_buffer_drops is an unsigned, kept  *)
(* modulo DropWrap.                                                        *)
(***************************************************************************)
EXTENDS Naturals, Sequences

CONSTANTS Size,       \* slots of the ring (256)
          Codes,      \* the key codes
          Prefix,     \* 0x80, announces a stick byte
          Empty,      \* 255
          DropWrap    \* 2^32 in the program

ASSUME SizeAssumption == Size \in Nat \ {0, 1}
ASSUME DropWrapAssumption == DropWrap \in Nat \ {0}
ASSUME PrefixAssumption == Prefix \in Codes

VARIABLES ring,       \* the buffer, its two indices and its drop counter
          got         \* what the last keyboard_buffer_get returned

vars == <<ring, got>>

Slots == 0 .. Size - 1

\* Arithmetic of the indices: n is at most 2 * Size - 1 wherever this is used.
Wrap(n) == IF n < Size THEN n ELSE n - Size

Full(r) == Wrap(r.wr + 1) = r.rd

\* keyboard_buffer_put with the full test forgotten.
PutUnchecked(r, c) == [r EXCEPT !.slot[r.wr] = c, !.wr = Wrap(r.wr + 1)]

\* keyboard_buffer_put whose write index is not a byte and never wraps.
PutUnwrapped(r, c) == IF Full(r) THEN [r EXCEPT !.drops = (@ + 1) % DropWrap]
                                 ELSE [r EXCEPT !.slot[r.wr] = c, !.wr = @ + 1]

keyboard_buffer_put(r, c) ==
  IF Full(r) THEN [r EXCEPT !.drops = (@ + 1) % DropWrap]
             ELSE [r EXCEPT !.slot[r.wr] = c, !.wr = Wrap(r.wr + 1)]

keyboard_buffer_empty(r) == r.rd = r.wr

Init == /\ ring = [slot |-> [i \in Slots |-> 0], wr |-> 0, rd |-> 0, drops |-> 0]
        /\ got = Empty

\* A key goes down or up, or the watchdog or power-up code is sent.
Put(c) == ring' = keyboard_buffer_put(ring, c) /\ UNCHANGED got

\* send_joybyte.
PutPair(j) == /\ ring' = keyboard_buffer_put(keyboard_buffer_put(ring, Prefix), j)
              /\ UNCHANGED got

\* keyboard_buffer_get, called by the CPU's read of port 0x90.
Get == IF keyboard_buffer_empty(ring)
         THEN got' = Empty /\ UNCHANGED ring
         ELSE /\ got' = ring.slot[ring.rd]
              /\ ring' = [ring EXCEPT !.rd = Wrap(ring.rd + 1)]

Next == Get \/ \E c \in Codes : Put(c) \/ PutPair(c)

Spec == Init /\ [][Next]_vars

-----------------------------------------------------------------------------
Rings == [slot : [Slots -> Codes \cup {0}], wr : Slots, rd : Slots,
          drops : 0 .. DropWrap - 1]

Used(r) == Wrap(r.wr + Size - r.rd)

\* The codes between the read and the write index, oldest first.
Content(r) == [i \in 1 .. Used(r) |-> r.slot[Wrap(r.rd + i - 1)]]

\* The ring, its indices and its counter stay in range, and every slot the
\* indices enclose holds a code that keyboard_buffer_put stored.
TypeOK == /\ ring \in Rings
          /\ got \in Codes \cup {Empty}
          /\ \A i \in 1 .. Used(ring) : Content(ring)[i] \in Codes

Fifo == INSTANCE KeyFifo WITH Capacity <- Size - 1, queue <- Content(ring),
                              drops <- ring.drops

\* The circular buffer of main.c:534-568 is a FIFO that holds Size - 1 codes:
\* codes come out in the order they went in, none twice, and only a code that
\* finds the buffer full is lost (the newest, never one already queued).
RefinesFifo == Fifo!FifoSpec
=============================================================================
