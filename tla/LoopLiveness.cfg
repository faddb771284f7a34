SPECIFICATION LiveSpec
CONSTANTS
    Chunks = 2
    ErrorCodes <- MCErrorCodes
    Faults <- AllFaults
INVARIANTS
    EndIsTold
    HandlesReleased
    AbortIsPrompt
PROPERTIES
    CallEnds
