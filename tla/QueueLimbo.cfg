SPECIFICATION Spec
CONSTANTS
    User = {1, 2}
    Call = {c1, c2}
    Promoter = {p1}
    MaxConcurrentQueue = 1
    Overrides = {2}
    WhitelistTTL = 1
    HeartbeatTTL = 2
    QueueTTL = 2
SYMMETRY Symmetry
INVARIANTS
    PingMeansQueued
