SPECIFICATION FairSpec
CONSTANTS
    Runner = {r1}
    Canceller = {c1, c2}
    Decision = {d1, d2}
    MaxCommands = 2
    MaxCalls = 1
    MaxCrashes = 1
    MaxRefused = 1
    None = None
    Torn = Torn
    r1 = r1
    c1 = c1
    c2 = c2
    d1 = d1
    d2 = d2
CHECK_DEADLOCK FALSE
INVARIANTS
    SignalledOnce
    CitedIsOnDisk
    TerminatedWasObserved
    KilledIsAttributed
PROPERTIES
    RetrySettles
