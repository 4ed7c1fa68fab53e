SPECIFICATION SessionSpec
CONSTANTS
    NumStages = 2
    GateAfter = {1}
    Optional = {2}
    Bounded = {1}
    MaxCommands = 5
    MaxConsole = 1
    MaxDeaths = 1
    Unset = Unset
CHECK_DEADLOCK FALSE
INVARIANTS
    CursorIsEarned
    ProjectionIsBehind
PROPERTIES
    FencedOut
    ReplayRebuilds
