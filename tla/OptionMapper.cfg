SPECIFICATION Spec
CONSTANTS
    MaxDefined = 2
    Schemes <- AllSchemes
INVARIANTS
    AsAskedFor
    TypeOfProxy
