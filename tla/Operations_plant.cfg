CONSTANTS
    Sessions = {1, 2}
    Phones = {p1, p2}
    Corrections = {c1}
    Rests = {0}
    MaxRequests = 2
    MaxTime = 3
    MaxChanges = 3
    PeriodLength = 2
    ProofLife = 1
    LongShift = 2
    Jobs = {1, 2}
    Steps = {1, 2}
    People = {u, v}
    Managers = {v}
    Nobody = Nobody
    Order = 1
    Plans = {1, 2}
    FinalPlans = {1}
    Characteristics = {1}
    Blocking = {1}
    Samples = {1}
    Runs = {1, 2}
    Movers = {m1, m2}
    Certifiers = {z1, z2}
    ShiftIds = {1, 2, 3}
    Staff = {1, 2}
    Slots = {1}
    Desks = {d1, d2}
    Posts = {1, 2, 3}
    Payloads = {x, y}
    NoPayload = NoPayload
    Lifetime = 2
    LastTick = 5
    Replicas = {r1, r2}
    Migrations = {1, 2}
    Checksums = {c1, c2, c3}
    c1 = c1
    c2 = c2
    c3 = c3
    Builds <- OldAndNew
    NoScript = NoScript
    Size = 2
    Fields = {f, g}
    Inputs = {a}
    Empty = Empty
    Authors = {u, v}
    NoForm = NoForm
    MaxFormRevisions = 3
    Clerks = {k1, k2}
    Items = {1, 2}
    NoClerk = NoClerk
SYMMETRY Symmetry
SPECIFICATION PlantSpec
CONSTRAINT Focus
INVARIANTS WorkforceHolds RecordsHold ServersHold
PROPERTIES NothingRewritten
CHECK_DEADLOCK FALSE
