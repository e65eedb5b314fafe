SPECIFICATION DemoSpec
CONSTANTS
    Nodes = {n1}
    UnitDefinitions <- MCRigOnly
    BuildingDefinitions <- MCBuildings
    AbilityDefinitions <- MCNoAbilities
    InitialUnits <- MCOneRig
    InitialSalvage = 2
    InitialCharge = 2
    TicksPerSecond = 2
    CaptureTicksRequired = 1
    RepairSalvage = 0
    SalvagePerNode = 0
    ChargePerNode = 0
    MaxCharge = 2
    ArcPulseAbilityChargeCost = 1
    Requests <- MCDemoRequests
    MaxDelay = 0
    MaxCommands = 2
    MaxSalvage = 3
INVARIANTS
    ResultShown
    DecidedByEndOfStep
    StoppedWithoutFocus
CHECK_DEADLOCK FALSE
