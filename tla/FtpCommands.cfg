SPECIFICATION Spec
CONSTANTS
    Commands <- TenCommands
    Homes <- BothHomes
    Faults = {"append"}
INVARIANTS
    SuccessIsDone
    CommandsInOrder
    SlistsFreed
PROPERTIES
    TouchesOnlyTarget
