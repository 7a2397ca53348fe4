CONSTANTS
    Ips = {1, 2}
    Macs = {1, 2}
    Ports = {80}
    TapPorts = {0, 1}
    Tiers = {1, 2}
    TridentType = "TtProcess"
    ConfigIgnore <- MCNoIgnore
    MaxFlows = 2
    Traffic <- MCTrafficTorTwoHosts

SPECIFICATION Spec

INVARIANT UniqueMatch
