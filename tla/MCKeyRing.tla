------------------------------ MODULE MCKeyRing -----------------------------
(***************************************************************************)
(* A ring of a few slots for TLC.  Codes are small numbers; the largest    *)
(* plays 255, the code an empty read returns too.                          *)
(***************************************************************************)
EXTENDS KeyRing

\* Wrap is uint8_t arithmetic wherever the indices use it.
ASSUME WrapIsModulo == \A n \in 0 .. 2 * Size - 1 : Wrap(n) = n % Size
=============================================================================
