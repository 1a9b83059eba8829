SPECIFICATION HSpec
CONSTANTS
    p1 = p1
    p2 = p2
    p3 = p3
    NoPid = NoPid
    NumPrograms = 1
    MaxKeepalive = 2
    MaxRebootFailed = 1
    Delay = 1
    Commands <- AllCommands
    Reports <- AllReports
    Faults <- AllFaults
    Pids <- MCPids
SYMMETRY PidSymmetry
INVARIANTS TypeOK SingleInstance LateRestartOnce
PROPERTY TimeoutJustified
CHECK_DEADLOCK FALSE
