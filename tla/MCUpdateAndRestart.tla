------------------------- MODULE MCUpdateAndRestart -------------------------
(* TLC instances of UpdateAndRestart.                                      *)
EXTENDS UpdateAndRestart

CONSTANTS Program, P1, P2

OneProgram == {Program}
TwoPids == {P1, P2}
=============================================================================
