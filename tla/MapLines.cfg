CONSTANTS
    Inputs <- AllInputs
    MaxLen = 6
    Chunk = 2
    Page = 2
    MinUnmap = 1
    MaxSpurious = 1
SPECIFICATION FairSpec
INVARIANTS
    BodySeesLinesInOrder
    LoopSeesAll
    WokenByNextChunk
PROPERTIES
    EndsIfAwakeAtEof
CHECK_DEADLOCK FALSE
