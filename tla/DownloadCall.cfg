SPECIFICATION CallSpec
CONSTANTS
    Chunks = 4
    ErrorCodes <- MCErrorCodes
    Faults <- LoopFaults
    MaxChunk = 3
    FileFaults <- OpenWriteFaults
INVARIANTS
    TypeOK
    StatusIsOutcome
    OKHasAll
    WriteErrorIsReported
    WriterTypeOK
    FileIsPrefix
    OKIsComplete
PROPERTIES
    ProgressOnlyGrows
    NeverTruncated
    ImplementsContract
