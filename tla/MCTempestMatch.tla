--------------------------- MODULE MCTempestMatch ---------------------------
(* Small instances of TempestMatch for TLC: one or two control nodes, two   *)
(* unit kinds, costs in units of the cheapest.                              *)
EXTENDS TempestMatch

MCUnits ==
    [k \in {"FabricatorRig", "CourierScout"} |->
        IF k = "FabricatorRig"
        THEN [salvageCost |-> 2, capacityCost |-> 2, buildTicks |-> 2]
        ELSE [salvageCost |-> 1, capacityCost |-> 1, buildTicks |-> 1]]
MCRigOnly == [k \in {"FabricatorRig"} |-> [salvageCost |-> 1, capacityCost |-> 1, buildTicks |-> 2]]

MCBuildings ==
    [k \in {"RelayCore", "FabricatorBay", "ChorusSpire"} |->
        [capacityProvided |-> IF k = "ChorusSpire" THEN 0 ELSE IF k = "RelayCore" THEN 2 ELSE 1]]
    @@ [k \in {"Dynamo", "ArcSentry"} |->
        [salvageCost |-> 1, buildTicks |-> 2, capacityProvided |-> IF k = "Dynamo" THEN 1 ELSE 0]]

MCAbilities ==
    [a \in {"GridLinkScan", "EmergencyOvercharge"} |->
        IF a = "GridLinkScan"
        THEN [abilityChargeCost |-> 1, cooldownTicks |-> 3, durationTicks |-> 1]
        ELSE [abilityChargeCost |-> 2, cooldownTicks |-> 4, durationTicks |-> 2]]
MCNoAbilities == [a \in {} |-> {}]

MCOneRig == [k \in {"FabricatorRig"} |-> 1]
MCInitialUnits == [k \in {"FabricatorRig", "CourierScout"} |-> 1]

MCProduce == [kind : {"ProduceUnit"}, unit : {"FabricatorRig", "CourierScout"}]
MCBuild == [kind : {"BuildStructure"}, node : Nodes, structure : {"Dynamo"}]
MCCalls == [kind : {"ActivateAbility"}, ability : {"GridLinkScan", "EmergencyOvercharge"},
            inArena : BOOLEAN]
MCControl == [kind : {"Restart", "TogglePause", "ArcPulse"}]

MCEconomy == MCProduce \union MCBuild
MCAbilityControl == MCCalls \union MCControl

=============================================================================
