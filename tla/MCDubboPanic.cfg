CONSTANTS
    Packets <- MCHeaderOnly
    MaxPackets = 1
SPECIFICATION Spec
INVARIANTS
    NoPanic
\* the flow ends after MaxPackets packets, or when the parser panics
CHECK_DEADLOCK FALSE
