CONSTANTS
    clerk = clerk
    boss = boss
    admin = admin
    Users = {clerk, boss, admin}
    Reviewers = {clerk, boss, admin}
    Managers = {admin}
    Definitions <- AllReview
    Instances = {i1}
    Sweepers = {}
    Limit = 9
    Sla = 2
    Window = 1
    Grace = 1
    MaxTime = 0
SPECIFICATION Spec
INVARIANTS ReviewIsPending
CHECK_DEADLOCK FALSE
