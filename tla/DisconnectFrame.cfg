SPECIFICATION Spec
CONSTANTS
    Players <- MCPlayers3
    RunAhead = 1
    LastFrame = 3
    Crashers = {0}
    Quitters = {}
    Screens = {1, 2}
    Votes <- MCNoPairs
    Unheard <- MCNoPairs
PROPERTY DroppedInTheRightFrame
CHECK_DEADLOCK FALSE
