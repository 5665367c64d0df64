CONSTANTS
    Typed <- ThreeBytes
    Said <- ThreeBytes
    BufSize = 2
    PipeSize = 2
SPECIFICATION Spec
INVARIANT
    OutputComplete
CHECK_DEADLOCK FALSE
