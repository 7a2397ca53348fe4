CONSTANTS
    Packets <- MCAggPackets
    RequestIds = {1, 2}
    MaxPackets = 4
SPECIFICATION ASpec
INVARIANTS
    TypeOK
    InfoOfPacket
    BodyWalkMatchesReference
    ExportedDescribesSession
    BodyWalkExhaustive
\* the flow ends after MaxPackets packets, or when the parser panics
CHECK_DEADLOCK FALSE
