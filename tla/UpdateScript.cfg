SPECIFICATION FairSpec
CONSTANTS
    Files <- MCFiles
    Has <- MCHas
    ZImage = ZImage
    Dtb = Dtb
    A = A
    B = B
    C = C
    Absent = Absent
    MaxRelease = 3
    MaxCuts = 2
    Options <- AllOptions
CHECK_DEADLOCK FALSE
INVARIANTS ReleaseKept SkipSound
PROPERTY Installs
