SPECIFICATION Spec
CONSTANTS
    Proc = {p1, p2}
    Attempt = {a1}
    Operation = {"create", "transition", "attempt"}
    MaxCalls = 3
    MaxHistory = 3
    MaxCrashes = 1
    MaxRefused = 1
    Absent = Absent
    Corrupt = Corrupt
    p1 = p1
    p2 = p2
    a1 = a1
CHECK_DEADLOCK FALSE
INVARIANTS
    TrailFollowsRecord
    SummaryIsCurrent
PROPERTIES
    ImplementsRunLifecycle
    AttemptSettlesOnce
SYMMETRY Symmetry
