CONSTANTS
    t1 = t1
    t2 = t2
    s1 = s1
    s2 = s2
    o1 = o1
    Task <- OneTask
    Operational = {}
    MaxAttempts = 4
    MaxActiveClaims = 1
    RunRetryLimit = 3
    CorrectionLimit = 2
    Session <- OneSession
    SharedTasks = FALSE
    Faults = {"context", "provision", "raise", "stillborn", "lost", "timeout", "cancel", "collect", "security", "publish", "crash", "routing"}
    MaxFaults = 3
    Operators <- OneOperator
    Commands = {"retry", "rework", "recover", "override"}
    CarefulOperators = TRUE
SPECIFICATION Spec
CHECK_DEADLOCK FALSE
INVARIANTS
    AttemptsBounded
    ReviewedRunIsGreen
    AgentsIsolated
PROPERTIES
    LifecycleRefined
    ValidatedRunIsKept
