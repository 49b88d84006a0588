SPECIFICATION FairSpec
CONSTANTS
    Task = {t1, t2}
    t1 = t1
    t2 = t2
    MaxConcurrency = 2
    MaxEvents = 1
INVARIANTS
    SessionsContained
PROPERTIES
    StopIsHeeded
    UnfinishedIsServed
