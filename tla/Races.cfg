CONSTANTS
    t1 = t1
    t2 = t2
    s1 = s1
    s2 = s2
    o1 = o1
    Task <- OneTask
    Operational = {}
    MaxAttempts = 2
    MaxActiveClaims = 1
    RunRetryLimit = 2
    CorrectionLimit = 1
    Session <- TwoSessions
    SharedTasks = TRUE
    Faults = {"context", "provision", "raise", "stillborn", "lost", "timeout", "cancel", "collect", "security", "publish", "crash", "routing"}
    MaxFaults = 1
    Operators <- OneOperator
    Commands = {"retry", "rework", "recover", "override"}
    CarefulOperators = FALSE
SPECIFICATION Spec
SYMMETRY SessionSymmetry
CHECK_DEADLOCK FALSE
INVARIANTS
    OnePrPerBranch
    RunningIsBacked
    RecordedAgentsIsolated
