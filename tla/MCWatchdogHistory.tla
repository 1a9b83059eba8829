------------------------- MODULE MCWatchdogHistory --------------------------
(* TLC instances of WatchdogHistory.                                       *)
EXTENDS WatchdogHistory, TLC

CONSTANTS p1, p2, p3

MCPids == {p1, p2, p3}
MCTwoPids == {p1, p2}

(* Sound for these safety runs: pids are compared, never ordered.          *)
PidSymmetry == Permutations(Pids)

AllReports == {"idle", "busy"}
AllFaults == {"exit", "reload", "receive_error"}

IdleReports == {"idle"}
NoFaults == {}

AllCommands == {"ON", "OFF", "SAFE", "FORCE", "CLOSE"}
PairCommands == {"OFF", "SAFE"}
=============================================================================
