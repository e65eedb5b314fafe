SPECIFICATION FairSpec
CONSTANTS
    Players <- MCPlayers2
    MAX_FRAMES_AHEAD = 4
    MIN_RUNAHEAD = 1
    InitialRunAhead = 2
    Leavers = {0}
    LastFrame = 6
    MaxCommands <- MCOnlySecond
    MaxRunAheadChanges = 1
INVARIANTS
    TypeOK
    LockstepAgreement
    NeverTooManyCommands
    SameRunAhead
PROPERTIES
    EverybodyAdvances
