SPECIFICATION Spec
CONSTANTS
    Nodes = {n1}
    UnitDefinitions <- MCUnits
    BuildingDefinitions <- MCBuildings
    AbilityDefinitions <- MCNoAbilities
    InitialUnits <- MCInitialUnits
    InitialSalvage = 2
    InitialCharge = 0
    TicksPerSecond = 2
    CaptureTicksRequired = 2
    RepairSalvage = 1
    SalvagePerNode = 1
    ChargePerNode = 0
    MaxCharge = 0
    ArcPulseAbilityChargeCost = 1
    Requests <- MCEconomy
    MaxDelay = 1
    MaxCommands = 2
    MaxSalvage = 3
INVARIANTS
    TypeOK
    OneStructurePerNode
PROPERTIES
    OwnerEarned
    OverCapacityNeverGrows
