SPECIFICATION FairSpec
CONSTANTS
    Writer = {w1, w2}
    Subject = {s1, s2, s3}
    Ceiling = 2
    MaxCalls = 3
    MaxFaults = 1
    MaxExpired = 1
    MayStall = TRUE
    None = None
    Torn = Torn
    w1 = w1
    w2 = w2
    s1 = s1
    s2 = s2
    s3 = s3
CHECK_DEADLOCK FALSE
PROPERTIES
    LoneWriterReclaims
INVARIANTS
    SpentOnce
    AckedIsChained
