SPECIFICATION FairSpec
CONSTANTS
    Caller = {p1, p2}
    NumSchedules = 2
    Decision = {d1, d2}
    Output = {o1, o2}
    Clean = {o1}
    MaxRuns = 2
    MaxProposals = 2
    Mixes <- MCMixes
    MaxStarts = 2
    MaxRefused = 1
    None = None
    Torn = Torn
    p1 = p1
    p2 = p2
    d1 = d1
    d2 = d2
    o1 = o1
    o2 = o2
CHECK_DEADLOCK FALSE
INVARIANTS
    RecordHasWitness
    EndStopsRuns
    OneWorkerTicks
PROPERTIES
    OrphanEnds
