SPECIFICATION FairSpec
CONSTANTS
    Header = 4
    CommandSize = 1
    ElementSize <- MCElementSize
    Record = 104
    Unset = 12
    MaxBuffer = 512
    Lengths <- MCLengths
    MaxElements = 3
    MaxCommands = 3
CHECK_DEADLOCK FALSE
INVARIANTS FirstHandled SimpleExact AnswerComplete
 
