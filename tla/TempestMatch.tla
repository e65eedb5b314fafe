----------------------------- MODULE TempestMatch -----------------------------
(***************************************************************************)
(* Tempest::Simulation: the rules of a Substation 9 match, at a fixed tick.*)
(*                                                                         *)
(* Geometry and damage are left to chance: in a tick combat may destroy    *)
(* anything, either side may stand alone at a control node, a pulse may    *)
(* reach the Spire or not. What is kept is every rule that decides whether *)
(* a command is obeyed and what a tick does to the economy, production,    *)
(* construction, capture, the abilities and the outcome.                   *)
(*                                                                         *)
(* Simulation::Step runs the commands that are due, one step each here,    *)
(* and then one tick; nothing is submitted in between.                     *)
(***************************************************************************)
EXTENDS Integers, Sequences, FiniteSets, SequencesExt

CONSTANTS
    Nodes,                 \* the control nodes
    UnitDefinitions,       \* Freegrid unit kind -> costs and build time
    BuildingDefinitions,   \* kind -> cost, build time, capacity provided
    AbilityDefinitions,    \* ability -> charge, cooldown and duration
    InitialUnits,          \* how many of each kind a match starts with
    InitialSalvage, InitialCharge,
    TicksPerSecond, CaptureTicksRequired, RepairSalvage,
    SalvagePerNode, ChargePerNode, MaxCharge, ArcPulseAbilityChargeCost,
    Requests,              \* bound: the commands that may be given
    MaxDelay,              \* bound: ticks ahead a command may be given
    MaxCommands,           \* bound: commands waiting
    MaxSalvage             \* bound: no step begins that could earn more

UnitKind == DOMAIN UnitDefinitions
AbilityKind == DOMAIN AbilityDefinitions
StructureKind == {"Dynamo", "ArcSentry"}
Base == {"RelayCore", "FabricatorBay", "ChorusSpire"}
Rig == "FabricatorRig"

(* The commands of interest. Move, Capture, Attack and Repair only change   *)
(* where units go, which is left to chance.                                 *)
Command ==
    [kind : {"Restart", "TogglePause", "ArcPulse"}]
    \union [kind : {"BuildStructure"}, node : Nodes, structure : StructureKind]
    \union [kind : {"ProduceUnit"}, unit : UnitKind]
    \union [kind : {"ActivateAbility"}, ability : AbilityKind, inArena : BOOLEAN]

ASSUME DefinitionAssumption ==
    /\ Rig \in UnitKind /\ IsFiniteSet(UnitKind) /\ InitialUnits \in [UnitKind -> Nat]
    /\ \A k \in UnitKind : UnitDefinitions[k] \in
          [salvageCost : Nat, capacityCost : Nat, buildTicks : Nat \ {0}]
    /\ DOMAIN BuildingDefinitions = Base \union StructureKind
    /\ \A k \in Base : BuildingDefinitions[k] \in [capacityProvided : Nat]
    /\ \A k \in StructureKind : BuildingDefinitions[k] \in
          [salvageCost : Nat, buildTicks : Nat \ {0}, capacityProvided : Nat]
    /\ \A a \in AbilityKind :
          /\ AbilityDefinitions[a] \in
                [abilityChargeCost : Nat, cooldownTicks : Nat, durationTicks : Nat]
          /\ AbilityDefinitions[a].durationTicks < AbilityDefinitions[a].cooldownTicks
ASSUME ScaleAssumption ==
    /\ {InitialSalvage, InitialCharge, RepairSalvage, SalvagePerNode, ChargePerNode,
        MaxCharge, ArcPulseAbilityChargeCost, MaxDelay, MaxCommands, MaxSalvage} \subseteq Nat
    /\ {TicksPerSecond, CaptureTicksRequired} \subseteq Nat \ {0}
    /\ InitialCharge <= MaxCharge /\ Requests \subseteq Command /\ IsFiniteSet(Nodes)

VARIABLES
    match,        \* m_state
    commands,     \* m_commands, each with the ticks left before it is due
    stepping      \* inside Simulation::Step

vars == <<match, commands, stepping>>

-----------------------------------------------------------------------------
(* MatchState and what is read off it *)

NoTicks == [a \in AbilityKind |-> 0]

InitialMatch ==
    [paused |-> FALSE, outcome |-> "InProgress",
     salvage |-> InitialSalvage, abilityCharge |-> InitialCharge,
     incomeRemainderTicks |-> 0,
     cooldown |-> NoTicks, duration |-> NoTicks,
     units |-> InitialUnits,            \* live Freegrid units of each kind
     standing |-> Base,                 \* the base buildings not destroyed
     structures |-> << >>,              \* live structures built at nodes
     owner |-> [n \in Nodes |-> "Neutral"],
     freegridCapture |-> [n \in Nodes |-> 0],
     chorusCapture |-> [n \in Nodes |-> 0],
     production |-> << >>]

Running(m) == ~m.paused /\ m.outcome = "InProgress"

Total(costs) ==
    LET sum[i \in 0 .. Len(costs)] == IF i = 0 THEN 0 ELSE sum[i - 1] + costs[i]
    IN  sum[Len(costs)]

(* What stands and is complete provides; the Spire is not Freegrid's.       *)
BaseCapacity(m, kind) ==
    IF kind \in m.standing THEN BuildingDefinitions[kind].capacityProvided ELSE 0

ProvidedBy(b) ==
    IF b.remainingBuildTicks = 0 THEN BuildingDefinitions[b.kind].capacityProvided ELSE 0

FreegridCapacity(m) ==
    BaseCapacity(m, "RelayCore") + BaseCapacity(m, "FabricatorBay") +
    Total([i \in DOMAIN m.structures |-> ProvidedBy(m.structures[i])])

Kinds == SetToSeq(UnitKind)

LiveCosts(m) ==
    [i \in DOMAIN Kinds |-> m.units[Kinds[i]] * UnitDefinitions[Kinds[i]].capacityCost]

QueuedCosts(m) ==
    [i \in DOMAIN m.production |-> UnitDefinitions[m.production[i].kind].capacityCost]

UsedByUnits(m) == Total(LiveCosts(m))   \* mutant: forgets the queue
UsedFreegridCapacity(m) == Total(LiveCosts(m)) + Total(QueuedCosts(m))

(* What a match begins with fits: 3 of 6 in the code.                       *)
ASSUME CapacityAssumption ==
    UsedFreegridCapacity(InitialMatch) <= FreegridCapacity(InitialMatch)

ProduceOnCredit(m, kind) ==             \* mutant: forgets the price
    /\ "FabricatorBay" \in m.standing
    /\ UsedFreegridCapacity(m) + UnitDefinitions[kind].capacityCost <= FreegridCapacity(m)
CanProduceUnit(m, kind) ==
    /\ "FabricatorBay" \in m.standing
    /\ m.salvage >= UnitDefinitions[kind].salvageCost
    /\ UsedFreegridCapacity(m) + UnitDefinitions[kind].capacityCost <= FreegridCapacity(m)

CanAfford(m, node, kind) ==
    /\ m.units[Rig] > 0
    /\ m.owner[node] = "Freegrid"
    /\ m.salvage >= BuildingDefinitions[kind].salvageCost

BuiltTwice(m, node, kind) ==            \* mutant: sees only finished structures
    CanAfford(m, node, kind) /\ \A i \in DOMAIN m.structures :
        ~(m.structures[i].kind = kind /\ m.structures[i].node = node
          /\ m.structures[i].remainingBuildTicks = 0)
CanBuildStructure(m, node, kind) ==
    CanAfford(m, node, kind) /\ \A i \in DOMAIN m.structures :
        ~(m.structures[i].kind = kind /\ m.structures[i].node = node)

CanActivateAbility(m, ability) ==
    /\ Running(m)
    /\ m.abilityCharge >= AbilityDefinitions[ability].abilityChargeCost
    /\ m.cooldown[ability] = 0

-----------------------------------------------------------------------------
(* Commands *)

Init ==
    /\ match = InitialMatch /\ commands = << >> /\ stepping = FALSE

(* Public Reset, called by the demo when a match begins or restarts.        *)
Reset ==
    /\ ~stepping
    /\ match' = InitialMatch /\ commands' = << >> /\ UNCHANGED stepping

(* Sorted by tick, and by sequence among those of a tick.                   *)
Submit(request, delay) ==
    LET earlier == Cardinality({i \in DOMAIN commands : commands[i].delay <= delay})
    IN  /\ ~stepping /\ Len(commands) < MaxCommands
        /\ commands' = InsertAt(commands, earlier + 1, [delay |-> delay, request |-> request])
        /\ UNCHANGED <<match, stepping>>

BeginStep ==
    /\ ~stepping /\ match.salvage + Cardinality(Nodes) * SalvagePerNode <= MaxSalvage
    /\ stepping' = TRUE /\ UNCHANGED <<match, commands>>

DueWhileRunning ==                      \* mutant: a stopped match keeps its commands
    commands # << >> /\ Head(commands).delay = 0 /\ Running(match)
IsDue == commands # << >> /\ Head(commands).delay = 0

(* The next due command, one of these kinds.                                *)
Due(kind) == stepping /\ IsDue /\ Head(commands).request.kind = kind

(* What is due is taken from the queue; the match is m from now on.         *)
Obey(m) ==
    /\ commands' = Tail(commands) /\ match' = m /\ UNCHANGED stepping

(* A restart empties the queue too, which ends the step without a tick.     *)
ExecuteRestart ==
    /\ Due("Restart")
    /\ match' = InitialMatch /\ commands' = << >> /\ stepping' = FALSE

ExecuteTogglePause ==
    Due("TogglePause") /\ Obey([match EXCEPT !.paused = ~@])

ObeysDecided(m) == ~m.paused            \* mutant: obeys in a decided match
Obeys(m) == Running(m)

ExecuteBuildStructure ==
    /\ Due("BuildStructure")
    /\ LET r == Head(commands).request
           cost == BuildingDefinitions[r.structure]
       IN  IF Obeys(match) /\ CanBuildStructure(match, r.node, r.structure)
           THEN Obey([match EXCEPT !.salvage = @ - cost.salvageCost,
                         !.structures = Append(@, [kind |-> r.structure, node |-> r.node,
                                             remainingBuildTicks |-> cost.buildTicks])])
           ELSE Obey(match)

ExecuteProduceUnit ==
    /\ Due("ProduceUnit")
    /\ LET kind == Head(commands).request.unit
           cost == UnitDefinitions[kind]
       IN  IF Obeys(match) /\ CanProduceUnit(match, kind)
           THEN Obey([match EXCEPT !.salvage = @ - cost.salvageCost,
                         !.production = Append(@, [kind |-> kind,
                                             remainingTicks |-> cost.buildTicks])])
           ELSE Obey(match)

ExecuteActivateAbility ==
    /\ Due("ActivateAbility")
    /\ LET r == Head(commands).request
           ability == AbilityDefinitions[r.ability]
       IN  IF Obeys(match) /\ CanActivateAbility(match, r.ability)
             /\ (r.ability = "GridLinkScan" => r.inArena)
           THEN Obey([match EXCEPT !.abilityCharge = @ - ability.abilityChargeCost,
                         !.cooldown[r.ability] = ability.cooldownTicks,
                         !.duration[r.ability] = ability.durationTicks])
           ELSE Obey(match)

(* The actor may be dead, out of reach or waiting for its own cooldown. A   *)
(* pulse that fires may be what the Spire falls to.                         *)
ExecuteArcPulse ==
    /\ Due("ArcPulse")
    /\ \/ Obey(match)
       \/ /\ Obeys(match) /\ \E k \in UnitKind : match.units[k] > 0
          /\ match.abilityCharge >= ArcPulseAbilityChargeCost
          /\ \E fallen \in SUBSET {"ChorusSpire"} :
                Obey([match EXCEPT !.abilityCharge = @ - ArcPulseAbilityChargeCost,
                                   !.standing = @ \ fallen])

ExecuteCommand ==
    \/ ExecuteRestart \/ ExecuteTogglePause \/ ExecuteBuildStructure
    \/ ExecuteProduceUnit \/ ExecuteActivateAbility \/ ExecuteArcPulse

-----------------------------------------------------------------------------
(* One tick *)

Less(n) == IF n > 0 THEN n - 1 ELSE 0

Construct(s) == [i \in DOMAIN s |-> [s[i] EXCEPT !.remainingBuildTicks = Less(@)]]

(* The head of the queue is dropped, and not paid back, when its bay is     *)
(* gone, one order a tick.                                                  *)
UpdateConstructionAndProduction(m) ==
    LET built == [m EXCEPT !.structures = Construct(@)]
        order == Head(m.production)
    IN  IF m.production = << >> THEN built
        ELSE IF "FabricatorBay" \notin m.standing
             THEN [built EXCEPT !.production = Tail(@)]
        ELSE IF order.remainingTicks <= 1
             THEN [built EXCEPT !.production = Tail(@), !.units[order.kind] = @ + 1]
        ELSE [built EXCEPT !.production[1].remainingTicks = @ - 1]

(* alone, other: the nodes where this or the other side stands alone.       *)
Progress(ticks, alone, other) ==
    [n \in Nodes |->
        IF n \in alone THEN (IF ticks[n] < CaptureTicksRequired THEN ticks[n] + 1 ELSE ticks[n])
        ELSE IF n \in other THEN 0 ELSE ticks[n]]

AlmostComplete(ticks) ==                \* mutant: one tick too early
    ticks + 1 >= CaptureTicksRequired
Complete(ticks) == ticks >= CaptureTicksRequired

UpdateMovementAndCapture(m, freegrid, chorus) ==
    LET forFreegrid == Progress(m.freegridCapture, freegrid, chorus)
        forChorus == Progress(m.chorusCapture, chorus, freegrid)
    IN  [m EXCEPT !.freegridCapture = forFreegrid, !.chorusCapture = forChorus,
           !.owner = [n \in Nodes |->
               IF n \in freegrid /\ Complete(forFreegrid[n]) THEN "Freegrid"
               ELSE IF n \in chorus /\ Complete(forChorus[n]) THEN "Chorus"
               ELSE m.owner[n]]]

(* UpdateCombat and UpdateBuildingCombat: what is still alive afterwards.   *)
Spot(b) == [kind |-> b.kind, node |-> b.node]

Undestroyed(s, spots) ==
    LET kept[i \in 0 .. Len(s)] ==
            IF i = 0 THEN << >>
            ELSE IF Spot(s[i]) \in spots THEN Append(kept[i - 1], s[i])
            ELSE kept[i - 1]
    IN  kept[Len(s)]

Survivors(m, units, standing, spots) ==
    [m EXCEPT !.units = units, !.standing = standing, !.structures = Undestroyed(@, spots)]

UpdateAbilities(m) ==
    [m EXCEPT !.cooldown = [a \in AbilityKind |-> Less(@[a])],
              !.duration = [a \in AbilityKind |-> Less(@[a])]]

SmallerOf(x, y) == IF x < y THEN x ELSE y

UpdateEconomy(m) ==
    LET owned == Cardinality({n \in Nodes : m.owner[n] = "Freegrid"})
    IN  IF m.incomeRemainderTicks + 1 < TicksPerSecond
        THEN [m EXCEPT !.incomeRemainderTicks = @ + 1]
        ELSE [m EXCEPT !.incomeRemainderTicks = 0,
                       !.salvage = @ + owned * SalvagePerNode,
                       !.abilityCharge = SmallerOf(MaxCharge, @ + owned * ChargePerNode)]

DrawUndecided(m) ==                     \* mutant: waits for one side to stand
    [m EXCEPT !.outcome =
        IF m.standing \intersect {"RelayCore", "ChorusSpire"} = {"RelayCore"} THEN "Victory"
        ELSE IF m.standing \intersect {"RelayCore", "ChorusSpire"} = {"ChorusSpire"}
             THEN "Defeat" ELSE @]
DefeatFirst(m) ==                       \* mutant: the core is looked at first
    [m EXCEPT !.outcome = IF "RelayCore" \notin m.standing THEN "Defeat"
                          ELSE IF "ChorusSpire" \notin m.standing THEN "Victory" ELSE @]
UpdateOutcome(m) ==
    [m EXCEPT !.outcome = IF "ChorusSpire" \notin m.standing THEN "Victory"
                          ELSE IF "RelayCore" \notin m.standing THEN "Defeat" ELSE @]

(* The step ends: with a tick when the match is on, and without one else.   *)
EndStep ==
    /\ stepping /\ ~IsDue /\ ~Running(match)
    /\ stepping' = FALSE /\ UNCHANGED <<match, commands>>

Tick ==
    /\ stepping /\ ~IsDue /\ Running(match)
    /\ LET built == UpdateConstructionAndProduction(match)
           alive == {k \in UnitKind : built.units[k] > 0}
           spots == {Spot(built.structures[i]) : i \in DOMAIN built.structures}
       IN  \E freegrid \in SUBSET (IF alive = {} THEN {} ELSE Nodes),
              chorus \in SUBSET Nodes,
              spent \in 0 .. SmallerOf(built.salvage, RepairSalvage * built.units[Rig]),
              units \in {u \in [UnitKind -> UNION {0 .. built.units[k] : k \in UnitKind}] :
                             \A k \in UnitKind : u[k] <= built.units[k]},
              standing \in SUBSET built.standing, structures \in SUBSET spots :
           LET captured == UpdateMovementAndCapture(built, freegrid, chorus)
               repaired == [captured EXCEPT !.salvage = @ - spent]
               fought == Survivors(repaired, units, standing, structures)
           IN  /\ freegrid \intersect chorus = {}
               /\ match' = UpdateOutcome(UpdateEconomy(UpdateAbilities(fought)))
    /\ commands' = [i \in DOMAIN commands |-> [commands[i] EXCEPT !.delay = @ - 1]]
    /\ stepping' = FALSE

Next ==
    \/ \E request \in Requests, delay \in 0 .. MaxDelay : Submit(request, delay)
    \/ Reset \/ BeginStep \/ ExecuteCommand \/ EndStep \/ Tick

Spec == Init /\ [][Next]_vars

(* The program keeps calling Step, and Step returns.                        *)
FairSpec == Spec /\ WF_vars(BeginStep) /\ WF_vars(ExecuteCommand)
                 /\ WF_vars(EndStep) /\ WF_vars(Tick)

-----------------------------------------------------------------------------
(* Properties *)

MatchType ==
    [paused : BOOLEAN, outcome : {"InProgress", "Victory", "Defeat"},
     salvage : Nat, abilityCharge : 0 .. MaxCharge, incomeRemainderTicks : 0 .. TicksPerSecond - 1,
     cooldown : [AbilityKind -> Nat], duration : [AbilityKind -> Nat],
     units : [UnitKind -> Nat], standing : SUBSET Base,
     structures : Seq([kind : StructureKind, node : Nodes, remainingBuildTicks : Nat]),
     owner : [Nodes -> {"Neutral", "Freegrid", "Chorus"}],
     freegridCapture : [Nodes -> 0 .. CaptureTicksRequired],
     chorusCapture : [Nodes -> 0 .. CaptureTicksRequired],
     production : Seq([kind : UnitKind, remainingTicks : Nat \ {0}])]

(* Types; salvage and ability charge are spent but never overdrawn.         *)
TypeOK ==
    /\ match \in MatchType /\ stepping \in BOOLEAN
    /\ commands \in Seq([delay : 0 .. MaxDelay, request : Requests])

(* Only the loss of a building overcommits the grid (CanProduceUnit counts  *)
(* the queue): over its capacity, what is used never grows.                 *)
OverCapacityNeverGrows ==
    [][UsedFreegridCapacity(match') > FreegridCapacity(match')
          => UsedFreegridCapacity(match') <= UsedFreegridCapacity(match)]_vars

(* CanBuildStructure: two commands for one node in one step, or a second    *)
(* while the first is under construction, build one structure.              *)
OneStructurePerNode ==
    \A i, j \in DOMAIN match.structures :
        i # j => \/ match.structures[i].kind # match.structures[j].kind
                 \/ match.structures[i].node # match.structures[j].node

Captures(m, n) == [Freegrid |-> m.freegridCapture[n], Chorus |-> m.chorusCapture[n]]

(* UpdateMovementAndCapture: a node goes to a side only in the tick that    *)
(* completes the side's own capture, and in that tick it does. Progress is  *)
(* made tick by tick, from the moment the side last drove the other off:    *)
(* never do both sides have some. A node once taken is neutral again only   *)
(* in a new match.                                                          *)
OwnerEarned ==
    [][\A n \in Nodes :
          LET before == Captures(match, n)
              now == Captures(match', n)
              done == {side \in DOMAIN now : now[side] = CaptureTicksRequired}
          IN  /\ \E side \in DOMAIN now : now[side] = 0
              /\ \A side \in DOMAIN now : now[side] <= before[side] + 1
              /\ \A side \in done : match'.owner[n] = side
              /\ match'.owner[n] \in done \union {match.owner[n]} \/ match' = InitialMatch]_vars

(* UpdateOutcome: the Spire's fall wins, even in the tick in which the core *)
(* falls too, and nothing that happens later takes the outcome back.        *)
OutcomeEarned ==
    /\ match.outcome = "Victory" => "ChorusSpire" \notin match.standing
    /\ match.outcome = "Defeat" =>
          "ChorusSpire" \in match.standing /\ "RelayCore" \notin match.standing

(* Execute and Step: a paused or decided match is only paused, resumed or   *)
(* begun again.                                                             *)
StoppedMatchIsFrozen ==
    [][~Running(match) => match' \in {match, [match EXCEPT !.paused = ~@], InitialMatch}]_vars

(* A Spire that fell decides the match, though a pulse fells it outside a   *)
(* tick: unless the match is stopped or begun again first.                  *)
FallenSpireDecides ==
    "ChorusSpire" \notin match.standing ~>
        (match.outcome # "InProgress" \/ match.paused \/ "ChorusSpire" \in match.standing)

(* ExecuteDueCommands runs in a stopped match too: a command for the tick   *)
(* the match stands at does not wait for it to go on, so a pause is lifted. *)
DueCommandsAreTaken ==
    (\E i \in DOMAIN commands : commands[i].delay = 0) ~>
        (\A i \in DOMAIN commands : commands[i].delay > 0)

=============================================================================
