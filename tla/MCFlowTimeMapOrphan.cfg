CONSTANTS
    Ips = {1, 2, 3}
    Macs = {1}
    Ports = {80}
    TapPorts = {1}
    Tiers = {1}
    TridentType = "TtProcess"
    ConfigIgnore <- MCNoIgnore
    MaxFlows = 2
    Traffic <- MCTimeTraffic
    MaxTime = 3
    Timeout = 1
SPECIFICATION TSpec
INVARIANT NoOrphans
\* the capture clock stops at MaxTime
CHECK_DEADLOCK FALSE
