SPECIFICATION Spec
CONSTANTS
    Capacity = 2
    BatchSize = 2
    MaxDocs = 5
INVARIANTS
    TypeOK
    InOrderOnce
    AllAccounted
    MemoryBound
PROPERTIES
    ImplementsLossyLog
    Settles
CHECK_DEADLOCK FALSE
