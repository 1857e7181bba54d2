CONSTANTS
    Keys = {}
    Totals = {1}
    MaxRevision = 2
    Workers = {w1}
    NoMsg = NoMsg
    MaxAttempts = 1
    MaxClaims = 1
    MaxRetries = 0
    MaxCrashes = 1
    MaxDbErrors = 1
    MaxStalls = 0
    Senders = {s1, s2}
    NoDoc = NoDoc
SYMMETRY Symmetry
SPECIFICATION Spec
INVARIANTS DeliveryIsConsistent SentWasAccepted MailIsCurrent
