CONSTANTS
    MsgTypeDefault = "Other"
    ReqPayloads <- MCReqQueryThenUnknown
    RespPayloads <- MCRespRows
    MaxPackets = 3
SPECIFICATION Spec
PROPERTY FailedParseCountsNothing
\* the flow ends after MaxPackets packets: the parser then stops for good
CHECK_DEADLOCK FALSE
