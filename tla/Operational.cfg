SPECIFICATION FairSpec
CONSTANTS
    db = db
    scratch = scratch
    p1 = p1
    p2 = p2
    Tasks = {db, scratch}
    Direct = {db}
    Procs = {p1, p2}
    Capacity = 1
    Limit = 3
    Settings <- MCSettings
CHECK_DEADLOCK FALSE
INVARIANTS
    ObservationIsSound
    NoCapacityLeak
PROPERTIES
    Settles
