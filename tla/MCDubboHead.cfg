CONSTANTS
    Packets <- MCSessionPackets
    MaxPackets = 2
SPECIFICATION Spec
INVARIANTS
    HeadOfPacket
\* the flow ends after MaxPackets packets, or when the parser panics
CHECK_DEADLOCK FALSE
