SPECIFICATION Spec
CONSTANTS
    MaxFile = 3
    MaxBlob = 4
    MaxAsk = 2
    Faults <- SharedFile
INVARIANTS
    TypeOK
    SentInOrder
    OKSentAll
