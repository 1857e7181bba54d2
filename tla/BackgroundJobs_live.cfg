SPECIFICATION FairSpec
CONSTANTS
    Workers = {w1, w2}
    Users = {u1}
    Nobody = Nobody
    MaxAttempts = 2
    MaxRuns = 4
    MaxCrashes = 1
    MaxDbErrors = 0
    MaxLapses = 0
PROPERTIES
    OpenWorkIsSettled
    ImplementsSingleton
