SPECIFICATION FairSpec
CONSTANTS
    A = A
    B = B
    i1 = i1
    i2 = i2
    i3 = i3
    Sprints = {A, B}
    Items = {i1, i2, i3}
    Steps <- MCSteps
    Depends <- MCDepends
    Workers = {w1, w2}
    w1 = w1
    w2 = w2
    Commands = {"authorize", "pause", "resume", "cancel", "edit", "retry"}
    Outcomes = {"WAITING_HUMAN", "FAILED"}
    Registry = {TRUE, FALSE}
    MaxEdits = 2
CHECK_DEADLOCK FALSE
INVARIANTS
    SprintIsOrdered
PROPERTIES
    SprintCompletes
