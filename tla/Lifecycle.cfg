SPECIFICATION FairSpec
CONSTANTS
    Signals <- Both
    MaxLoads = 4
CHECK_DEADLOCK FALSE
INVARIANTS NameStaysGood ConfigUsable
PROPERTY StopsOnce
