SPECIFICATION FairSpec
CONSTANTS
    p1 = p1
    p2 = p2
    NoPid = NoPid
    NumPrograms = 1
    MaxKeepalive = 1
    MaxRebootFailed = 1
    Delay = 1
    Commands <- LiveCommands
    Reports <- AllReports
    Faults <- AllFaults
    Pids <- MCPids
PROPERTIES DeadProgramRestarted SafeRestartConsumed ReceiverUnblocked
PROPERTIES ImplementsSupervision
CHECK_DEADLOCK FALSE
