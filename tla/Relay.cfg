SPECIFICATION FairSpec
CONSTANTS
    Players <- MCPlayers3
    MaxCommands <- MCSecondGives
    Crashers = {0}
    Leavers = {0}
    Quitters = {0}
INVARIANTS
    TypeOK
    KeptUntilHeard
PROPERTIES
    EverybodyHears
    RoutersAgree
    RelayedIsFinished
CHECK_DEADLOCK FALSE
