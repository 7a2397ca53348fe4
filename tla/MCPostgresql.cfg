CONSTANTS
    MsgTypeDefault = "Other"
    ReqPayloads <- MCReqPayloads
    RespPayloads <- MCRespPayloads
    MaxPackets = 4
SPECIFICATION ASpec
INVARIANTS
    TypeOK
    CountedOnce
    OutputFromPayload
    ParsedIsSurfaced
    ExportedDescribesSession
\* the flow ends after MaxPackets packets: the parser then stops for good
CHECK_DEADLOCK FALSE
