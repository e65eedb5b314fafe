SPECIFICATION FairSpec
CONSTANTS
    IdSpace = 18
    MAX_SLOTS = 4
    Senders <- MCSenders
    Script <- MCScript
    FirstId <- MCFirstId
    Chunks = 2
INVARIANTS TypeOK SameOrder KeptUntilHeard CountMatches OnlyWhole
PROPERTY DeliveredOnce
CHECK_DEADLOCK FALSE
