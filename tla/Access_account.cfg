SYMMETRY Symmetry
CONSTANTS
    Requests = {r1, r2}
    SessionIds = {1, 2}
    LinkIds = {1}
    ChallengeIds = {1}
    TotpSteps = {1}
    RecoveryCodes = {c}
    MfaRoles = {"admin"}
    LockAt = 1
    MaxWrongCodes = 1
    MaxVersion = 3
SPECIFICATION AccessSpec
CONSTRAINT Focus
INVARIANTS PasswordIsCurrent ClosedAccountsStayOut 
CHECK_DEADLOCK FALSE
