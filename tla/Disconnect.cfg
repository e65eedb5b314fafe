SPECIFICATION FairSpec
CONSTANTS
    Players <- MCPlayers3
    RunAhead = 1
    LastFrame = 2
    Crashers = {0}
    Quitters = {}
    Screens = {1, 2}
    Votes <- MCNoPairs
    Unheard <- MCThirdUnheard
INVARIANT TypeOK
PROPERTIES NobodyLeftBehind GameGoesOn
CHECK_DEADLOCK FALSE
