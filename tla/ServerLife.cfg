SPECIFICATION FairSpec
CONSTANTS
    Process = {n1, n2}
    Front = {n1}
    Request = {q1}
    Run = {b1}
    Token = {t1, t2, t3}
    NoOne = NoOne
    TickTimeout = 1
    Margin = 1
    MaxLate = 1
INVARIANTS
    TypeOK
    SweepsExclude
    TicksFindPoolsOpen
    DrainSparesRequests
PROPERTIES
    ShutdownEnds
    OrphanLockEnds
