SPECIFICATION FairSpec
CONSTANTS
    Proc = {p1, p2}
    MaxAttempts = 2
    MaxTakeoverDepth = 2
    IdentityKnown = TRUE
    MaxCalls = 1
    MaxCrashes = 2
    MaxRestarts = 1
    Legacy = Legacy
    Corrupt = Corrupt
    None = None
    p1 = p1
    p2 = p2
CHECK_DEADLOCK FALSE
INVARIANTS
    NoLeakedLease
PROPERTIES
    OnlyStaleOrOwnRemoved
    ImplementsPathLock
    LoneCallerReclaims
