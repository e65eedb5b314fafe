SPECIFICATION Spec
CONSTANTS
    Players <- MCPlayers2
    MAX_FRAMES_AHEAD = 4
    MIN_RUNAHEAD = 1
    InitialRunAhead = 2
    Leavers = {}
    LastFrame = 6
    MaxCommands <- MCNoCommands
    MaxRunAheadChanges = 0
INVARIANTS
    LaggardCanCatchUp
