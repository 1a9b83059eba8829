SPECIFICATION HSpec
CONSTANTS
    p1 = p1
    p2 = p2
    p3 = p3
    NoPid = NoPid
    NumPrograms = 2
    MaxKeepalive = 0
    MaxRebootFailed = 1
    Delay = 1
    Commands <- PairCommands
    Reports <- IdleReports
    Faults <- NoFaults
    Pids <- MCTwoPids
SYMMETRY PidSymmetry
INVARIANTS SingleInstance LateRestartOnce
CHECK_DEADLOCK FALSE
