SPECIFICATION Spec
CONSTANTS
    User = {alice, bob}
    Key = {}
    NoKey = NoKey
    RowId = {r1, r2}
    Reserver = {p1, p2}
    Updater = {q1}
    Sweeper = {}
    NoOne = NoOne
    Capacities = {1}
    MaxReservePerUser = 1
    Quantities = {1}
    ReservationTTL = 1
    MaxTime = 1
SYMMETRY Symmetry
INVARIANTS
    NoOversell
