CONSTANTS
    Directories <- MCDirectories
    Libraries <- MCLibraries
    Categories <- MCCategories
    Documents <- MCDocuments
SPECIFICATION Spec
CHECK_DEADLOCK FALSE
INVARIANT DiesOnlyIfFatal
INVARIANT EveryoneDocumentedOnce
INVARIANT BlockTextEverywhere
INVARIANT AsIfAskedFirst
INVARIANT OneObjectOneRead
INVARIANT ExportKeepsTheKnown
INVARIANT WellFormedUnlessMixed
