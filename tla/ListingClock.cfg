SPECIFICATION Spec
CONSTANTS
    Calls = {c1, c2}
    Starts <- MCStarts
    Ages <- MCAges
    Pauses <- MCPauses
    MaxListings = 3
    MaxDays = 792
    MaxMidnights = 1
INVARIANTS
    TypeOK
    DayIsRight
    YearIsOneOfOurs
SYMMETRY Symmetry
CHECK_DEADLOCK FALSE
