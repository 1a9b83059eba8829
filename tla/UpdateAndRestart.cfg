SPECIFICATION FairSpec
CONSTANTS
    Program = Program
    P1 = P1
    P2 = P2
    NoProgram = NoProgram
    NoPid = NoPid
    Programs <- OneProgram
    Pids <- TwoPids
    MaxRelease = 2
    MaxMail = 1
    MaxCrashes = 1
CHECK_DEADLOCK FALSE
PROPERTY UpdateTakesEffect
