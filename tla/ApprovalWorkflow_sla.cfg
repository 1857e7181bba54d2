CONSTANTS
    clerk = clerk
    boss = boss
    admin = admin
    Users = {clerk, boss, admin}
    Reviewers = {boss, admin}
    Managers = {admin}
    Definitions <- Relaxed
    Instances = {i1}
    Sweepers = {w1}
    Limit = 9
    Sla = 1
    Window = 1
    Grace = 1
    MaxTime = 1
SPECIFICATION FairSpec
INVARIANTS PendingIsCurrent
PROPERTIES OverdueIsNoticed FinalIsFinal
CHECK_DEADLOCK FALSE
