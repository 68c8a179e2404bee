SPECIFICATION Spec
CONSTANTS
    Value = {v1, v2}
    NoRow = NoRow
    Process = {n1, n2}
    Caller = {c1, c2}
    Admin = {a1}
    CallTTL = 2
    WriteTTL = 2
    CacheTTLs = {1, 2}
SYMMETRY Symmetry
INVARIANTS
    TypeOK
    BoundedStaleness
PROPERTIES
    OnlyOwnCancellation
