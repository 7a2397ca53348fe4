CONSTANTS
    p1 = p1
    p2 = p2
    Producers <- MCProducers
    Size = 2
    QUEUE_LEN = 2
    BatchLens = {3}
    BatchSizes = {2}
    RecvMax = 2
    MaxCalls = 1
    MaxToggles = 2
SPECIFICATION Spec
INVARIANTS
    TypeOK
    DebugNeverTooLarge
PROPERTIES
    QueueRefinement
\* the producers stop after MaxCalls calls and the debugger after MaxToggles
CHECK_DEADLOCK FALSE
