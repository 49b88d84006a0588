CONSTANTS
    t1 = t1
    t2 = t2
    s1 = s1
    s2 = s2
    o1 = o1
    Task <- TwoTasks
    Operational = {t2}
    MaxAttempts = 3
    MaxActiveClaims = 1
    RunRetryLimit = 2
    CorrectionLimit = 1
    Session <- TwoSessions
    SharedTasks = FALSE
    Faults = {"context", "provision", "raise", "stillborn", "lost", "timeout", "cancel", "collect", "security", "publish", "crash", "ineligible"}
    MaxFaults = 2
    Operators = {}
    Commands = {}
    CarefulOperators = FALSE
SPECIFICATION FairSpec
CHECK_DEADLOCK FALSE
INVARIANTS
    TypeOK
    CapacityHolds
    StatusIsExplained
PROPERTIES
    TerminalRunsImmutable
    ActiveRunsEnd
    WorkSettles
