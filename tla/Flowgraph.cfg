CONSTANTS
    Graphs <- AllGraphs
SPECIFICATION Spec
INVARIANTS
    DeliveredIfNotCut
    SymbolsDecoded
    BurstsPublished
    TaggedPacketsPublished
CHECK_DEADLOCK FALSE
