--------------------------- MODULE MCUpdateScript ---------------------------
(* TLC instances of UpdateScript.                                          *)
EXTENDS UpdateScript

CONSTANTS A, B, C

MCFiles == {A, B, C}
(* The second release drops a file of the first and brings another.        *)
MCHas == <<{A, B}, {A, C}, {A, B}>>

AllOptions == {"print", "player", "kernel", "debian"}
=============================================================================
