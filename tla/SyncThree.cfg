SPECIFICATION Spec
CONSTANTS
    Players <- MCPlayers3
    MAX_FRAMES_AHEAD = 2
    MIN_RUNAHEAD = 1
    InitialRunAhead = 1
    Leavers = {0}
    LastFrame = 6
    MaxCommands <- MCNoCommands
    MaxRunAheadChanges = 0
INVARIANTS
    IInv
    OneFramePerSlot
    KeptFramesReachLaggard
PROPERTIES
    ImplementsAgreed
