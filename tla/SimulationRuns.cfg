SPECIFICATION FairSpec
CONSTANTS
    Handler = {h1, h2}
    RunId = {r1, r2}
    NoRun = NoRun
    SimUser = {u1, u2}
    Workers = 1
INVARIANTS
    TypeOK
    OneLiveRun
    Accounted
    GateFollowsRun
PROPERTIES
    RunEnds
