----------------------------- MODULE MCWatchdog -----------------------------
(* TLC instances of Watchdog.                                              *)
EXTENDS Watchdog

CONSTANTS p1, p2

MCPids == {p1, p2}

AllReports == {"idle", "busy"}
AllFaults == {"exit", "reload", "receive_error"}

LiveCommands == {"OFF", "SAFE", "FORCE", "CLOSE"}
=============================================================================
