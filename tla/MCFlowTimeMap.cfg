CONSTANTS
    Ips = {1, 2, 3}
    Macs = {1}
    Ports = {80}
    TapPorts = {1}
    Tiers = {1}
    TridentType = "TtProcess"
    ConfigIgnore <- MCNoIgnore
    MaxFlows = 2
    Traffic <- MCTimeTrafficPlain
    MaxTime = 4
    Timeout = 1
SPECIFICATION TSpec
INVARIANTS
    TTypeOK
PROPERTY
    ImplementsFlowTable
\* the capture clock stops at MaxTime
CHECK_DEADLOCK FALSE
