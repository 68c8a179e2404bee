SPECIFICATION FairSpec
CONSTANTS
    SimUser = {u1, u2}
    Workers = 1
INVARIANTS
    TypeOK
    SameBreakdown
    CountersTellSales
    SettledSnapshotAddsUp
PROPERTIES
    StreamEnds
