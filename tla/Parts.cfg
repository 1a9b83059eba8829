SPECIFICATION Spec
CONSTANTS
    Files <- AllFiles
    Gone <- GoneFile
    Versions <- EditedFiles
    MaxEdits = 3
    Others <- ThreeOthers
    Yinkad = 3
    Minute = 60
    Delays <- SomeDelays
    MaxMinutes = 3
    Block = 8
    Word = 128
    ReadSizes <- SomeSizes
    MaxBytes = 50
    Documents <- SomeDocuments
    Locals <- SomeLocals
CHECK_DEADLOCK FALSE
INVARIANTS LoadExact SignalsOwnLine TakesWholeFamily AbsorbsMessage RunsExact
PROPERTIES MinuteLength AllowanceLength
