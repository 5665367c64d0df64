CONSTANTS
    Inputs <- AllInputs
    BufSize = 2
    LineSize = 2
    MaxFaults = 1
SPECIFICATION FairSpec
INVARIANTS
    TypeOK
    UserGetsWhatWasTyped
PROPERTIES
    TypedArrives
CHECK_DEADLOCK FALSE
