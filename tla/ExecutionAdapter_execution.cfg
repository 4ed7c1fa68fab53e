SPECIFICATION ExecutionSpec
CONSTANTS
    Proc = {p1, p2}
    Attempt = {a1, a2}
    Operation = {"transition"}
    MaxCalls = 6
    MaxHistory = 6
    MaxCrashes = 1
    MaxRefused = 1
    Instances <- MCInstances
    Absent = Absent
    Corrupt = Corrupt
    p1 = p1
    p2 = p2
    a1 = a1
    a2 = a2
CHECK_DEADLOCK FALSE
INVARIANTS
    HistoryIsLegal
PROPERTIES
    NewViolationStopsRun
SYMMETRY Symmetry
