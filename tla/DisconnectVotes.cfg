SPECIFICATION Spec
CONSTANTS
    Players <- MCPlayers3
    RunAhead = 1
    LastFrame = 2
    Crashers = {}
    Quitters = {2}
    Screens = {1, 2}
    Votes <- MCRouterVotes
    Unheard <- MCNoPairs
PROPERTY VotedOutByAll
CHECK_DEADLOCK FALSE
