------------------------ MODULE MCWatchdogRefinement ------------------------
(* TLC instances of WatchdogRefinement.                                    *)
EXTENDS WatchdogRefinement

CONSTANTS p1, p2

MCPids == {p1, p2}

AllReports == {"idle", "busy"}
AllFaults == {"exit", "reload", "receive_error"}

LiveCommands == {"OFF", "SAFE", "FORCE", "CLOSE"}
=============================================================================
