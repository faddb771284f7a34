SPECIFICATION LiveSpec
CONSTANTS
    Calls = {c1, c2, c3}
    Exit = exit
    NoOne = none
INVARIANTS
    TypeOK
    LookupIsSafe
    GlobalsOutliveCalls
    AllReleased
PROPERTIES
    LookupIsGranted
    ExitEnds
CHECK_DEADLOCK FALSE
