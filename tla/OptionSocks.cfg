SPECIFICATION Spec
CONSTANTS
    MaxDefined = 2
    Schemes <- AllSchemes
INVARIANTS
    Socks5IsTyped
