SPECIFICATION DeliverySpec
CONSTANTS
    Procs = {"p1", "p2"}
    Trees = {"t0", "t1", "t2", "t3"}
    Base = "t0"
    Valid = {"t1", "t2"}
    Specs <- MCSpecs
    Required = {"test"}
    Passing <- MCPassing
    Settings <- MCSettings
    MaxRuns = 2
CHECK_DEADLOCK FALSE
INVARIANTS
    PublishedIsExact
    PublishedWasReviewed
    BranchIsTrue
PROPERTIES
    DeliveryEnds
