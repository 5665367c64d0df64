CONSTANTS
    Graphs <- AllGraphs
SPECIFICATION Spec
INVARIANTS
    Delivered
CHECK_DEADLOCK FALSE
