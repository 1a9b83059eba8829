---------------------------- MODULE MCXinputGate -----------------------------
(* TLC instance of XinputGate.                                             *)
EXTENDS XinputGate

MCMinutes == {0, 2}
=============================================================================
