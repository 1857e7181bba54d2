SPECIFICATION Spec
CONSTANTS
    Workers = {w1, w2}
    Users = {u1}
    Nobody = Nobody
    MaxAttempts = 2
    MaxRuns = 4
    MaxCrashes = 1
    MaxDbErrors = 1
    MaxLapses = 1
SYMMETRY Symmetry
INVARIANTS
    OpenRunIsLatest
    FailureLeavesEvidence
    DeadLettersAreExhausted
    HandlerOwnsItsRun
PROPERTIES
    VerdictIsFinal
    LettersAreKept
