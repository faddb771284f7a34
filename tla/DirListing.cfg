SPECIFICATION Spec
CONSTANTS
    MaxRaw = 5
    ListSymbols <- EplfSymbols
    MlsdBodies <- SomeMlsdBodies
    UnixNames <- SomeUnixNames
    VmsNames <- SomeVmsNames
    MsDosNames <- SomeMsDosNames
    Targets <- SomeTargets
    Groups <- SomeGroups
INVARIANTS
    OneElementPerLine
    EplfLinesUnderstood
    MlsdLinesKept
    FormatsUnderstood
