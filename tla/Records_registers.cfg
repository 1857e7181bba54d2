CONSTANTS
    Batches = {1, 2}
    Issues = {1, 2, 3}
    Materials = {1}
    RetryKeys = {k1, k2}
    NoKey = NoKey
    MaxUnits = 2
    MaxMoves = 4
    Records = {1, 2, 3}
    TrashItems = {1, 2, 3, 4}
    Emails = {a, b, blank}
    NoEmail = blank
    Restorers = {q1, q2}
    Rfq = {1, 2}
    Invoice = {1, 2}
    Content = {x, y}
    Tabs = {t1, t2}
    SubmitKeys = {1, 2}
    MaxRevision = 4
    Bills = {1}
    Payments = {1, 2, 3}
    BillAmounts = {1, 2}
    Dialogs = {d1, d2}
    Candidates = {u1, u2}
    Details = {x, y}
    MaxApplications = 2
    MaxDocuments = 2
    Keys = {y1, y2, y3}
    Totals = {0, 1, 2, 3}
    MaxEditions = 5
    clerk = clerk
    boss = boss
    admin = admin
    Users = {clerk, boss, admin}
    Reviewers = {boss, admin}
    Managers = {admin}
    Definitions <- Versions
    Instances = {i1, i2}
SYMMETRY Symmetry
SPECIFICATION Spec
CONSTRAINT Focus
INVARIANTS BalancesHold DeletedIsRestorable IntakeHolds ApprovalsHold
PROPERTIES EditsStand
CHECK_DEADLOCK FALSE
