SPECIFICATION Spec
CONSTANTS
    Proc = {p1, p2}
    Stage = {s1, s2}
    Pack = {k1, k2, k3}
    Widening = {k3}
    Policy = {r1, r2, r3}
    Denying = {r3}
    MaxCalls = 4
    MaxEdits = 1
    MaxCrashes = 1
    None = None
CHECK_DEADLOCK FALSE
INVARIANTS
    SpawnedOnce
    OnlyWhatWasApproved
    TurnedAwayRightly
