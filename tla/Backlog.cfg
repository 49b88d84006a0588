SPECIFICATION FairSpec
CONSTANTS
    Cards = 2
    Route = {r1, r2}
    r1 = r1
    r2 = r2
    Sync = {p1, p2}
    p1 = p1
    p2 = p2
    Periodic = {p1}
    Start <- Starts
CHECK_DEADLOCK FALSE
INVARIANTS
    IssuesAreSound
PROPERTIES
    RecordsAreFinal
    MaterializationEnds
