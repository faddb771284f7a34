SPECIFICATION Spec
CONSTANTS
    Commands = {"RemoveDir"}
    Homes <- RootHome
    Faults = {}
INVARIANTS
    RemovedMeansSuccess
