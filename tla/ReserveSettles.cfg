SPECIFICATION FairSpec
CONSTANTS
    User = {alice}
    Key = {}
    NoKey = NoKey
    RowId = {r1, r2}
    Reserver = {p1, p2}
    Updater = {q1}
    Sweeper = {s1}
    NoOne = NoOne
    Capacities = {1, 4}
    MaxReservePerUser = 2
    Quantities = {2}
    ReservationTTL = 1
    MaxTime = 1
INVARIANTS
    TimelyQuota
PROPERTIES
    SalesFitCapacity
    StoreSellsAtomically
    LapsedHoldsAreSettled
