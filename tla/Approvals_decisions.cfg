SPECIFICATION Spec
CONSTANTS
    Proc = {p1, p2}
    Body = {b1, b2}
    Key = {k1}
    Approval = {g1, g2}
    Here = Here
    Elsewhere = {d1}
    None = None
    MaxCalls = 3
    Instances <- MCInstances
    p1 = p1
    p2 = p2
    b1 = b1
    b2 = b2
    k1 = k1
    d1 = d1
    g1 = g1
    g2 = g2
CHECK_DEADLOCK FALSE
INVARIANTS
    AckedIsBound
    ValidIsSerial
    RefusalMeansRace
    AuthorizationAccounted
SYMMETRY Symmetry
