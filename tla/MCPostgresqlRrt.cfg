CONSTANTS
    MsgTypeDefault = "Other"
    ReqPayloads <- MCReqQuery
    RespPayloads <- MCRespInsertShort
    MaxPackets = 3
SPECIFICATION Spec
INVARIANT RrtCountsResponses
\* the flow ends after MaxPackets packets: the parser then stops for good
CHECK_DEADLOCK FALSE
