SPECIFICATION FairLedgerSpec
CONSTANTS
    Pid = {p1,p2}
    MaxUses = 3
    MaxFaults = 3
    Nil = Nil
    Gone = Gone
    Foreign = Foreign
    Torn = Torn
    Garbled = Garbled
CHECK_DEADLOCK FALSE
PROPERTIES
    ImplementsPathLock
    LoneWriterReclaims
INVARIANTS
    AnchorFollows
