SPECIFICATION FairSpec
CONSTANTS
    User = {alice}
    Key = {k1}
    NoKey = NoKey
    RowId = {r1, r2}
    NoRow = NoRow
    Replica = {n1}
    Request = {c1, c2}
    Clearer = {s1}
    Capacity = 1
    MaxReservePerUser = 2
    LruBlockTTL = 1
    EventBlockedTTL = 1
INVARIANTS
    TypeOK
    KeyNamesOneReservation
PROPERTIES
    BlockIsTemporary
