CONSTANTS
    Ips = {1, 2}
    Macs = {1, 2}
    Ports = {80}
    TapPorts = {0, 1}
    Tiers = {1, 2}
    TridentType = "TtHyperVCompute"
    ConfigIgnore <- MCNoIgnore
    MaxFlows = 1
    Traffic <- MCTrafficMixed

SPECIFICATION Spec

INVARIANT TypeOK
INVARIANT MatchImpliesSameBucket
INVARIANT ReplyMatchesOwnFlow
