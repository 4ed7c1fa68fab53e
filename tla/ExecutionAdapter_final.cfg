SPECIFICATION ExecutionSpec
CONSTANTS
    Proc = {p1, p2}
    Attempt = {a1}
    Operation = {"transition"}
    MaxCalls = 2
    MaxHistory = 5
    MaxCrashes = 0
    MaxRefused = 0
    Instances <- MCFinishing
    Absent = Absent
    Corrupt = Corrupt
    p1 = p1
    p2 = p2
    a1 = a1
CHECK_DEADLOCK FALSE
PROPERTY
    FinalIsForever
