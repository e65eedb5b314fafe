SPECIFICATION FairSpec
CONSTANTS
    Nodes = {n1}
    UnitDefinitions <- MCRigOnly
    BuildingDefinitions <- MCBuildings
    AbilityDefinitions <- MCAbilities
    InitialUnits <- MCOneRig
    InitialSalvage = 0
    InitialCharge = 3
    TicksPerSecond = 2
    CaptureTicksRequired = 1
    RepairSalvage = 0
    SalvagePerNode = 0
    ChargePerNode = 1
    MaxCharge = 3
    ArcPulseAbilityChargeCost = 1
    Requests <- MCAbilityControl
    MaxDelay = 0
    MaxCommands = 2
    MaxSalvage = 3
INVARIANTS
    OutcomeEarned
PROPERTIES
    StoppedMatchIsFrozen
    FallenSpireDecides
    DueCommandsAreTaken
