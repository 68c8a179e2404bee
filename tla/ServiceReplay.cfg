SPECIFICATION Spec
CONSTANTS
    User = {alice, bob}
    Key = {k1}
    NoKey = NoKey
    RowId = {r1, r2}
    NoRow = NoRow
    Replica = {n1}
    Request = {c1, c2}
    Clearer = {s1}
    Capacity = 1
    MaxReservePerUser = 1
    LruBlockTTL = 1
    EventBlockedTTL = 1
SYMMETRY Symmetry
INVARIANTS
    ReplayIsAnswered
