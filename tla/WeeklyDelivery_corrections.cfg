CONSTANTS
    monday = monday
    friday = friday
    unfinished = unfinished
    Contents = {monday, friday}
    Unresolved = {}
    Minutes <- WeekMinutes
    Callers = {c1}
    MaxVersions = 5
    Workers = {w1}
    NoMsg = NoMsg
    MaxAttempts = 1
    MaxClaims = 1
    MaxRetries = 0
    MaxCrashes = 1
    MaxDbErrors = 0
    MaxStalls = 0
    Addresses = {a1}
    Senders = {s1, s2}
    None = None
    MaxRevisions = 2
    MaxGenerations = 2
SYMMETRY Symmetry
CONSTRAINT Focus
SPECIFICATION Spec
INVARIANTS DeliveryIsConsistent ApprovedIsCurrent SubmittedHoursStand
PROPERTIES SentIsCurrent
CHECK_DEADLOCK FALSE
