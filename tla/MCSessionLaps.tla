--------------------------- MODULE MCSessionLaps ---------------------------
(* A small instance of SessionLaps: one session, two values for an entry.   *)
EXTENDS SessionLaps

CONSTANTS s1, a, b

OneSession == {s1}
TwoValues == {a, b}
=============================================================================
