SPECIFICATION Spec
CONSTANTS
    f1 = f1
    f2 = f2
    f3 = f3
    NumItems = 2
    MaxRelease = 2
    Wants <- MCWants
    Files <- MCFiles
    MaxCommands = 1
SYMMETRY FileSymmetry
INVARIANTS TypeOK CheckedInstall HonestReport
PROPERTY NoDowngrade
