SPECIFICATION Spec
CONSTANTS
    Capacity = 2
    BatchSize = 2
    MaxDocs = 3
INVARIANTS
    ExitDrained
CHECK_DEADLOCK FALSE
