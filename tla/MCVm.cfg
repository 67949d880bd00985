SPECIFICATION FairSpec
CONSTANTS
    NULL = NULL
    Global = "#GLOBAL"
    Codes <- StructuredCodes
    Note <- NoteOf
INVARIANTS
    CatchedExact
    BlocksMatchNesting
    OneValueAtReturn
    SwitchDispatches
PROPERTIES
    HandlerIsInnermost
    Terminates
CHECK_DEADLOCK FALSE
