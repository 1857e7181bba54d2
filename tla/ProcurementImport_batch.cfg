CONSTANTS
    Files = {1, 2}
    Uploads = {u1, u2}
    Workers = {w1, w2}
    Screens = {s1, s2}
    Keys = {k1}
    Values = {v1, v2}
    MaxAttempts = 2
    MaxRevision = 6
    MaxRecords = 2
    MaxEdits = 1
    Nothing = Nothing
SPECIFICATION ImportSpec
INVARIANTS ConfirmedAsShown EntriesAreConsistent
PROPERTY PendingIsSettled
CONSTRAINT Focus
CHECK_DEADLOCK FALSE
