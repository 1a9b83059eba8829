-------------------------- MODULE MCRemoteControl ---------------------------
(* TLC instance of RemoteControl.                                          *)
EXTENDS RemoteControl

MCMinutes == {0, 1, 4}
=============================================================================
