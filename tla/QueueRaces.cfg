SPECIFICATION FairSpec
CONSTANTS
    User = {1, 2}
    Call = {c1}
    Promoter = {p1}
    MaxConcurrentQueue = 1
    Overrides = {2}
    WhitelistTTL = 1
    HeartbeatTTL = 2
    QueueTTL = 3
INVARIANTS
    TypeOK
    LiveWaitersAreQueued
    QueuedEventIsTracked
    QueueInOrder
PROPERTIES
    AdmissionsFitGate
    SeniorityRespected
    OnlyEnqueueRequeuesHolder
    FreeSlotIsFilled
