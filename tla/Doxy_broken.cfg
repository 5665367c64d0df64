CONSTANTS
    Directories <- BrokenHeader
    Libraries = {}
    Categories = {}
    Documents = {}
SPECIFICATION Spec
CHECK_DEADLOCK FALSE
INVARIANT BrokenFileIsParsingError
