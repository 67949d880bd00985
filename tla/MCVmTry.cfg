SPECIFICATION Spec
CONSTANTS
    NULL = NULL
    Global = "#GLOBAL"
    Codes <- StructuredCodes
    Note <- NoteOf
INVARIANTS
    TriesCatch
CHECK_DEADLOCK FALSE
