SPECIFICATION FairSpec
CONSTANTS
    DefaultMinutes = 3
    Modulus = 6
    Minutes <- MCMinutes
    MaxMessages = 6
INVARIANTS TypeOK TimerArmed TunnelWatched
PROPERTY TunnelCloses
CHECK_DEADLOCK FALSE
