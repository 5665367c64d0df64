CONSTANTS
    Typed <- FiveBytes
    Said <- FiveBytes
    BufSize = 3
    PipeSize = 3
SPECIFICATION FairSpec
INVARIANTS
    OutputConserved
    InputConserved
PROPERTIES
    EofReachesChild
    EndsAfterChild
CHECK_DEADLOCK FALSE
