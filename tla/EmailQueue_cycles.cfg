CONSTANTS
    Workers = {w1, w2}
    Msgs = {m1, m2}
    Weekly = {m1}
    Invoices = {m2}
    NoMsg = NoMsg
    MaxAttempts = 2
    MaxClaims = 3
    MaxRetries = 1
    MaxCrashes = 1
    MaxDbErrors = 1
    MaxStalls = 1
CONSTRAINT Focus
SPECIFICATION FairSpec
INVARIANTS AtMostOneAcceptance AcceptedIsNeverRetryable
PROPERTIES BackoffIsRespected SendingIsResolved
