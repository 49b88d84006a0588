SPECIFICATION FairSpec
CONSTANTS
    A = A
    B = B
    i1 = i1
    i2 = i2
    i3 = i3
    Sprints = {A, B}
    Items = {i1, i2, i3}
    Steps <- MCSteps
    Depends <- MCDepends
    Workers = {w1}
    w1 = w1
    Commands = {"authorize"}
    Outcomes = {"WAITING_HUMAN"}
    Registry = {TRUE}
    MaxEdits = 2
CHECK_DEADLOCK FALSE
PROPERTIES
    DeliveredSprintResumes
