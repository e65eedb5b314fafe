-------------------------- MODULE TempestDemo_proofs --------------------------
(***************************************************************************)
(* The rules of a match that hold whatever the costs, the nodes and the    *)
(* commands are, and that the demo plays by them and shows what comes out. *)
(* A step touches a few fields of the match: that the others keep their    *)
(* value is said once for each part of a tick.                             *)
(***************************************************************************)
EXTENDS TempestDemo, FiniteSetTheorems, WellFoundedInduction, TLAPS

Fields ==
    {"paused", "outcome", "salvage", "abilityCharge", "incomeRemainderTicks", "cooldown",
     "duration", "units", "standing", "structures", "owner", "freegridCapture",
     "chorusCapture", "production"}

(* k is m but for the fields in changed.                                    *)
Keeps(m, k, changed) ==
    DOMAIN k = Fields /\ \A f \in Fields \ changed : k[f] = m[f]

Ticks == 0 .. CaptureTicksRequired

OwnerRule(m, n) ==
    /\ m.freegridCapture[n] = 0 \/ m.chorusCapture[n] = 0
    /\ m.freegridCapture[n] = CaptureTicksRequired => m.owner[n] = "Freegrid"
    /\ m.chorusCapture[n] = CaptureTicksRequired => m.owner[n] = "Chorus"

(* From m to k a node goes only to who just completed a capture of it, and  *)
(* a capture comes no nearer to that than by a tick.                        *)
Earned(m, k, n) ==
    /\ k.freegridCapture[n] <= m.freegridCapture[n] + 1
    /\ k.chorusCapture[n] <= m.chorusCapture[n] + 1
    /\ \/ k.owner[n] = m.owner[n]
       \/ k.owner[n] = "Freegrid" /\ k.freegridCapture[n] = CaptureTicksRequired
       \/ k.owner[n] = "Chorus" /\ k.chorusCapture[n] = CaptureTicksRequired

SameNodes(m, k) ==
    /\ k.owner = m.owner
    /\ k.freegridCapture = m.freegridCapture /\ k.chorusCapture = m.chorusCapture

OutcomeRule(m) ==
    /\ m.outcome \in {"InProgress", "Victory", "Defeat"}
    /\ m.outcome = "Victory" => "ChorusSpire" \notin m.standing
    /\ m.outcome = "Defeat" => "ChorusSpire" \in m.standing /\ "RelayCore" \notin m.standing

(* An effect is over before its cooldown is.                                *)
EffectRule(m, a) ==
    m.duration[a] \in Nat /\ m.cooldown[a] \in Nat /\ m.duration[a] <= m.cooldown[a]

MatchInv(m) ==
    /\ DOMAIN m = Fields
    /\ m.freegridCapture \in [Nodes -> Ticks] /\ m.chorusCapture \in [Nodes -> Ticks]
    /\ DOMAIN m.owner = Nodes /\ \A n \in Nodes : OwnerRule(m, n)
    /\ OutcomeRule(m)
    /\ DOMAIN m.cooldown = AbilityKind /\ DOMAIN m.duration = AbilityKind
    /\ \A a \in AbilityKind : EffectRule(m, a)

(* What the rules speak of.                                                 *)
Ruled == {"outcome", "standing", "cooldown", "duration", "owner", "freegridCapture",
          "chorusCapture"}

-----------------------------------------------------------------------------
(* A new match plays by the rules.                                          *)
LEMMA InitialMatchInv == MatchInv(InitialMatch)
BY ScaleAssumption
   DEF MatchInv, InitialMatch, Fields, NoTicks, OwnerRule, OutcomeRule, EffectRule, Base, Ticks

(* So does a match in which nothing they speak of changed.                  *)
LEMMA KeepsRules ==
    ASSUME NEW m, NEW k, MatchInv(m), NEW changed, Keeps(m, k, changed),
           changed \intersect Ruled = {}
    PROVE  MatchInv(k)
<1>1. DOMAIN k = Fields /\ Ruled \subseteq Fields \ changed
  BY DEF Keeps, Ruled, Fields
<1>2. \A f \in Ruled : k[f] = m[f]
  BY <1>1 DEF Keeps
<1>3. /\ k.outcome = m.outcome /\ k.standing = m.standing /\ k.owner = m.owner
      /\ k.cooldown = m.cooldown /\ k.duration = m.duration
      /\ k.freegridCapture = m.freegridCapture /\ k.chorusCapture = m.chorusCapture
  BY <1>2 DEF Ruled
<1>4. QED
  BY <1>1, <1>3 DEF MatchInv, OwnerRule, OutcomeRule, EffectRule

-----------------------------------------------------------------------------
(* The parts of a tick *)

(* Building and production end by end in the structures and the units.      *)
LEMMA ConstructionKeeps ==
    ASSUME NEW m, DOMAIN m = Fields
    PROVE  Keeps(m, UpdateConstructionAndProduction(m), {"structures", "production", "units"})
BY DEF Keeps, Fields, UpdateConstructionAndProduction

(* Only Capture ends in the nodes.                                          *)
LEMMA KeepsNodes ==
    ASSUME NEW m, NEW k, NEW changed, Keeps(m, k, changed),
           changed \intersect {"owner", "freegridCapture", "chorusCapture"} = {}
    PROVE  SameNodes(m, k)
<1>1. {"owner", "freegridCapture", "chorusCapture"} \subseteq Fields \ changed
  BY DEF Fields
<1>2. \A f \in {"owner", "freegridCapture", "chorusCapture"} : k[f] = m[f]
  BY <1>1 DEF Keeps
<1>3. QED
  BY <1>2 DEF SameNodes

LEMMA SameNodesEarn ==
    ASSUME NEW m, MatchInv(m), NEW k, SameNodes(m, k), NEW n \in Nodes
    PROVE  Earned(m, k, n)
<1>1. m.freegridCapture[n] \in Nat /\ m.chorusCapture[n] \in Nat
  BY ScaleAssumption DEF MatchInv, Ticks
<1>2. QED
  BY <1>1 DEF Earned, SameNodes

(* Combat ends in what it leaves alive.                                     *)
LEMMA SurvivorsKeep ==
    ASSUME NEW m, DOMAIN m = Fields, NEW units, NEW standing, NEW spots
    PROVE  /\ Keeps(m, Survivors(m, units, standing, spots),
                    {"units", "standing", "structures"})
           /\ Survivors(m, units, standing, spots).standing = standing
BY DEF Keeps, Fields, Survivors

(* Income ends in salvage and charge.                                       *)
LEMMA EconomyKeeps ==
    ASSUME NEW m, DOMAIN m = Fields
    PROVE  Keeps(m, UpdateEconomy(m), {"incomeRemainderTicks", "salvage", "abilityCharge"})
BY DEF Keeps, Fields, UpdateEconomy

(* A side alone at a node makes progress and takes the other side's away.   *)
LEMMA CaptureRules ==
    ASSUME NEW m, MatchInv(m), NEW freegrid \in SUBSET Nodes, NEW chorus \in SUBSET Nodes,
           freegrid \intersect chorus = {}
    PROVE  /\ MatchInv(UpdateMovementAndCapture(m, freegrid, chorus))
           /\ Keeps(m, UpdateMovementAndCapture(m, freegrid, chorus),
                    {"owner", "freegridCapture", "chorusCapture"})
           /\ \A n \in Nodes : Earned(m, UpdateMovementAndCapture(m, freegrid, chorus), n)
<1> DEFINE k == UpdateMovementAndCapture(m, freegrid, chorus)
           ff == Progress(m.freegridCapture, freegrid, chorus)
           cc == Progress(m.chorusCapture, chorus, freegrid)
<1>1. CaptureTicksRequired \in Nat \ {0}
  BY ScaleAssumption
<1>2. ff \in [Nodes -> Ticks] /\ cc \in [Nodes -> Ticks]
  BY <1>1 DEF Progress, MatchInv, Ticks
<1>3. Keeps(m, k, {"owner", "freegridCapture", "chorusCapture"})
  BY DEF Keeps, Fields, UpdateMovementAndCapture, MatchInv
<1>4. k.freegridCapture = ff /\ k.chorusCapture = cc /\ DOMAIN k.owner = Nodes
  BY DEF Fields, UpdateMovementAndCapture, MatchInv
<1>5. \A n \in Nodes : k.owner[n] =
         IF n \in freegrid /\ ff[n] = CaptureTicksRequired THEN "Freegrid"
         ELSE IF n \in chorus /\ cc[n] = CaptureTicksRequired THEN "Chorus" ELSE m.owner[n]
  <2>1. \A n \in Nodes : k.owner[n] =
           IF n \in freegrid /\ Complete(ff[n]) THEN "Freegrid"
           ELSE IF n \in chorus /\ Complete(cc[n]) THEN "Chorus" ELSE m.owner[n]
    BY DEF Fields, UpdateMovementAndCapture, MatchInv
  <2>2. \A t \in Ticks : Complete(t) <=> t = CaptureTicksRequired
    BY <1>1 DEF Ticks, Complete
  <2>3. QED
    BY <1>2, <2>1, <2>2
<1>6. ASSUME NEW n \in Nodes PROVE OwnerRule(k, n) /\ Earned(m, k, n)
  <2>1. m.freegridCapture[n] \in Ticks /\ m.chorusCapture[n] \in Ticks /\ OwnerRule(m, n)
    BY DEF MatchInv
  <2>2. Earned(m, k, n)
    <3>1. ff[n] <= m.freegridCapture[n] + 1 /\ cc[n] <= m.chorusCapture[n] + 1
      BY <1>1, <2>1 DEF Progress, Ticks
    <3>2. QED
      BY <1>4, <1>5, <3>1 DEF Earned
  <2>3. CASE n \in freegrid
    <3>1. cc[n] = 0
      BY <2>3 DEF Progress
    <3>2. QED
      BY <1>1, <1>4, <1>5, <2>2, <2>3, <3>1 DEF OwnerRule
  <2>4. CASE n \in chorus
    <3>1. ff[n] = 0 /\ n \notin freegrid
      BY <2>4 DEF Progress
    <3>2. QED
      BY <1>1, <1>4, <1>5, <2>2, <2>4, <3>1 DEF OwnerRule
  <2>5. CASE n \notin freegrid /\ n \notin chorus
    <3>1. ff[n] = m.freegridCapture[n] /\ cc[n] = m.chorusCapture[n]
      BY <2>5 DEF Progress
    <3>2. QED
      BY <1>4, <1>5, <2>1, <2>2, <2>5, <3>1 DEF OwnerRule
  <2>6. QED
    BY <2>3, <2>4, <2>5
<1>7. /\ DOMAIN k = Fields /\ k.outcome = m.outcome /\ k.standing = m.standing
      /\ k.cooldown = m.cooldown /\ k.duration = m.duration
  BY <1>3 DEF Keeps, Fields
<1>8. QED
  BY <1>2, <1>3, <1>4, <1>6, <1>7 DEF MatchInv, OutcomeRule, EffectRule

(* Effects and cooldowns count down together.                               *)
LEMMA AbilityRules ==
    ASSUME NEW m, MatchInv(m)
    PROVE  /\ MatchInv(UpdateAbilities(m))
           /\ Keeps(m, UpdateAbilities(m), {"cooldown", "duration"})
           /\ \A a \in AbilityKind : UpdateAbilities(m).duration[a] <= m.duration[a]
<1> DEFINE k == UpdateAbilities(m)
<1>1. Keeps(m, k, {"cooldown", "duration"})
  BY DEF Keeps, Fields, UpdateAbilities, MatchInv
<1>2. /\ k.cooldown = [a \in AbilityKind |-> Less(m.cooldown[a])]
      /\ k.duration = [a \in AbilityKind |-> Less(m.duration[a])]
  BY DEF Fields, UpdateAbilities, MatchInv
<1>3. \A a \in AbilityKind : EffectRule(k, a) /\ k.duration[a] <= m.duration[a]
  BY <1>2 DEF MatchInv, EffectRule, Less
<1>4. /\ DOMAIN k = Fields /\ k.outcome = m.outcome /\ k.standing = m.standing
      /\ k.owner = m.owner /\ k.freegridCapture = m.freegridCapture
      /\ k.chorusCapture = m.chorusCapture
  BY <1>1 DEF Keeps, Fields
<1>5. MatchInv(k)
  BY <1>2, <1>3, <1>4 DEF MatchInv, OwnerRule, OutcomeRule
<1>6. QED
  BY <1>1, <1>3, <1>5

(* Whoever fell decides a match that is not decided.                        *)
LEMMA OutcomeRules ==
    ASSUME NEW m, MatchInv(m), m.outcome = "InProgress"
    PROVE  /\ MatchInv(UpdateOutcome(m))
           /\ Keeps(m, UpdateOutcome(m), {"outcome"})
<1> DEFINE k == UpdateOutcome(m)
<1>1. Keeps(m, k, {"outcome"})
  BY DEF Keeps, Fields, UpdateOutcome, MatchInv
<1>2. k.outcome = IF "ChorusSpire" \notin m.standing THEN "Victory"
                  ELSE IF "RelayCore" \notin m.standing THEN "Defeat" ELSE "InProgress"
  BY DEF Fields, UpdateOutcome, MatchInv
<1>3. /\ DOMAIN k = Fields /\ k.standing = m.standing /\ k.owner = m.owner
      /\ k.cooldown = m.cooldown /\ k.duration = m.duration
      /\ k.freegridCapture = m.freegridCapture /\ k.chorusCapture = m.chorusCapture
  BY <1>1 DEF Keeps, Fields
<1>4. OutcomeRule(k)
  BY <1>2, <1>3 DEF OutcomeRule
<1>5. QED
  BY <1>1, <1>3, <1>4 DEF MatchInv, OwnerRule, EffectRule

(* A tick keeps the rules, stretches no effect and decides the match when   *)
(* the Spire has fallen.                                                    *)
LEMMA TickRules ==
    ASSUME MatchInv(match), Tick
    PROVE  /\ MatchInv(match')
           /\ \A a \in AbilityKind : match'.duration[a] <= match.duration[a]
           /\ match'.paused = match.paused
           /\ "ChorusSpire" \notin match'.standing => match'.outcome = "Victory"
<1> DEFINE built == UpdateConstructionAndProduction(match)
<1>1. match.outcome = "InProgress" /\ DOMAIN match = Fields
  BY DEF Tick, Running, MatchInv
<1>2. PICK freegrid, chorus, spent, units, standing, structures :
         /\ freegrid \in SUBSET Nodes /\ chorus \in SUBSET Nodes
         /\ freegrid \intersect chorus = {}
         /\ match' = UpdateOutcome(UpdateEconomy(UpdateAbilities(Survivors(
              [UpdateMovementAndCapture(built, freegrid, chorus) EXCEPT !.salvage = @ - spent],
              units, standing, structures))))
  BY Zenon DEF Tick
<1> DEFINE captured == UpdateMovementAndCapture(built, freegrid, chorus)
           repaired == [captured EXCEPT !.salvage = @ - spent]
           fought == Survivors(repaired, units, standing, structures)
           passed == UpdateAbilities(fought)
           earned == UpdateEconomy(passed)
<1>3. /\ MatchInv(built) /\ built.outcome = "InProgress"
      /\ built.duration = match.duration /\ built.paused = match.paused
  <2>1. Keeps(match, built, {"structures", "production", "units"})
    BY <1>1, ConstructionKeeps
  <2>2. MatchInv(built)
    BY <2>1, KeepsRules DEF Ruled
  <2>3. QED
    BY <1>1, <2>1, <2>2 DEF Keeps, Fields
<1>4. /\ MatchInv(captured) /\ captured.outcome = "InProgress"
      /\ captured.duration = match.duration /\ captured.paused = match.paused
  <2>1. MatchInv(captured) /\ Keeps(built, captured, {"owner", "freegridCapture", "chorusCapture"})
    BY <1>2, <1>3, CaptureRules
  <2>2. QED
    BY <1>3, <2>1 DEF Keeps, Fields
<1>5. /\ MatchInv(repaired) /\ repaired.outcome = "InProgress"
      /\ repaired.duration = match.duration /\ repaired.paused = match.paused
  <2>1. Keeps(captured, repaired, {"salvage"})
    BY <1>4 DEF Keeps, Fields, MatchInv
  <2>2. MatchInv(repaired)
    BY <1>4, <2>1, KeepsRules DEF Ruled
  <2>3. QED
    BY <1>4, <2>1, <2>2 DEF Keeps, Fields
<1>6. /\ MatchInv(fought) /\ fought.outcome = "InProgress"
      /\ fought.duration = match.duration /\ fought.paused = match.paused
  <2>1. Keeps(repaired, fought, {"units", "standing", "structures"})
    BY <1>5, SurvivorsKeep DEF MatchInv
  <2>2. /\ DOMAIN fought = Fields /\ fought.outcome = "InProgress"
        /\ fought.owner = repaired.owner /\ fought.cooldown = repaired.cooldown
        /\ fought.duration = repaired.duration /\ fought.paused = repaired.paused
        /\ fought.freegridCapture = repaired.freegridCapture
        /\ fought.chorusCapture = repaired.chorusCapture
    BY <1>5, <2>1 DEF Keeps, Fields
  <2>3. QED
    BY <1>5, <2>2 DEF MatchInv, OwnerRule, OutcomeRule, EffectRule
<1>7. /\ MatchInv(passed) /\ passed.outcome = "InProgress" /\ passed.paused = match.paused
      /\ \A a \in AbilityKind : passed.duration[a] <= match.duration[a]
  BY <1>6, AbilityRules DEF Keeps, Fields
<1>8. /\ MatchInv(earned) /\ earned.outcome = "InProgress"
      /\ earned.duration = passed.duration /\ earned.paused = match.paused
  <2>1. Keeps(passed, earned, {"incomeRemainderTicks", "salvage", "abilityCharge"})
    BY <1>7, EconomyKeeps DEF MatchInv
  <2>2. MatchInv(earned)
    BY <1>7, <2>1, KeepsRules DEF Ruled
  <2>3. QED
    BY <1>7, <2>1, <2>2 DEF Keeps, Fields
<1>9. match' = UpdateOutcome(earned)
  BY <1>2
<1>10. /\ MatchInv(match') /\ match'.duration = passed.duration
       /\ match'.paused = match.paused /\ match'.standing = earned.standing
  BY <1>8, <1>9, OutcomeRules DEF Keeps, Fields
<1>11. "ChorusSpire" \notin earned.standing => match'.outcome = "Victory"
  BY <1>8, <1>9 DEF UpdateOutcome, MatchInv, Fields
<1>12. QED
  BY <1>7, <1>10, <1>11

(* Of what a tick does only the captures concern the nodes.                 *)
LEMMA TickEarns ==
    ASSUME MatchInv(match), Tick, NEW n \in Nodes
    PROVE  Earned(match, match', n)
<1> DEFINE built == UpdateConstructionAndProduction(match)
<1>1. PICK freegrid, chorus, spent, units, standing, structures :
         /\ freegrid \in SUBSET Nodes /\ chorus \in SUBSET Nodes
         /\ freegrid \intersect chorus = {}
         /\ match' = UpdateOutcome(UpdateEconomy(UpdateAbilities(Survivors(
              [UpdateMovementAndCapture(built, freegrid, chorus) EXCEPT !.salvage = @ - spent],
              units, standing, structures))))
  BY Zenon DEF Tick
<1> DEFINE captured == UpdateMovementAndCapture(built, freegrid, chorus)
           repaired == [captured EXCEPT !.salvage = @ - spent]
           fought == Survivors(repaired, units, standing, structures)
           passed == UpdateAbilities(fought)
           earned == UpdateEconomy(passed)
<1>2. Keeps(match, built, {"structures", "production", "units"})
  BY ConstructionKeeps DEF MatchInv
<1>3. SameNodes(match, built) /\ MatchInv(built)
  BY <1>2, KeepsRules, KeepsNodes DEF Ruled
<1>4. Earned(built, captured, n) /\ DOMAIN captured = Fields
  <2>1. /\ Keeps(built, captured, {"owner", "freegridCapture", "chorusCapture"})
        /\ \A i \in Nodes : Earned(built, captured, i)
    BY <1>1, <1>3, CaptureRules
  <2>2. QED
    BY <2>1 DEF Keeps
<1> HIDE DEF built, captured
<1>5. SameNodes(captured, repaired) /\ DOMAIN repaired = Fields
  BY <1>4 DEF SameNodes, Fields
<1> HIDE DEF repaired
<1>6. SameNodes(repaired, fought) /\ DOMAIN fought = Fields
  <2>1. Keeps(repaired, fought, {"units", "standing", "structures"})
    BY <1>5, SurvivorsKeep
  <2>2. QED
    BY <1>5, <2>1 DEF Keeps, SameNodes, Fields
<1> HIDE DEF fought
<1>7. SameNodes(fought, passed) /\ DOMAIN passed = Fields
  BY <1>6 DEF SameNodes, Fields, UpdateAbilities
<1> HIDE DEF passed
<1>8. SameNodes(passed, earned) /\ DOMAIN earned = Fields
  <2>1. Keeps(passed, earned, {"incomeRemainderTicks", "salvage", "abilityCharge"})
    BY <1>7, EconomyKeeps
  <2>2. QED
    BY <1>7, <2>1 DEF Keeps, SameNodes, Fields
<1> HIDE DEF earned
<1>9. match' = UpdateOutcome(earned)
  BY <1>1 DEF earned, passed, fought, repaired, captured, built
<1>10. SameNodes(earned, match')
  BY <1>8, <1>9 DEF SameNodes, Fields, UpdateOutcome
<1>11. SameNodes(captured, match')
  BY <1>5, <1>6, <1>7, <1>8, <1>10 DEF SameNodes
<1>12. QED
  BY <1>3, <1>4, <1>11 DEF Earned, SameNodes

-----------------------------------------------------------------------------
(* Commands *)

(* No command concerns the nodes but one to begin again.                    *)
LEMMA CommandsKeepNodes ==
    ASSUME DOMAIN match = Fields, ExecuteCommand
    PROVE  match' = InitialMatch \/ SameNodes(match, match')
<1>1. CASE ExecuteRestart
  BY <1>1 DEF ExecuteRestart
<1>2. CASE ExecuteTogglePause
  BY <1>2 DEF ExecuteTogglePause, Obey, SameNodes, Fields
<1>3. CASE ExecuteBuildStructure \/ ExecuteProduceUnit
  BY <1>3 DEF ExecuteBuildStructure, ExecuteProduceUnit, Obey, SameNodes, Fields
<1>4. CASE ExecuteActivateAbility
  BY <1>4 DEF ExecuteActivateAbility, Obey, SameNodes, Fields
<1>5. CASE ExecuteArcPulse
  BY <1>5 DEF ExecuteArcPulse, Obey, SameNodes, Fields
<1>6. QED
  BY <1>1, <1>2, <1>3, <1>4, <1>5 DEF ExecuteCommand

(* An ability is activated after its cooldown, and so after its effect.     *)
LEMMA AbilityCommandRules ==
    ASSUME MatchInv(match), ExecuteActivateAbility
    PROVE  /\ MatchInv(match')
           /\ \A a \in AbilityKind :
                 \/ match'.duration[a] <= match.duration[a]
                 \/ match.duration[a] = 0 /\ match'.cooldown[a] > match'.duration[a]
           /\ ~Running(match) => match' = match
<1> DEFINE r == Head(commands).request
           ability == AbilityDefinitions[r.ability]
           k == [match EXCEPT !.abilityCharge = @ - ability.abilityChargeCost,
                              !.cooldown[r.ability] = ability.cooldownTicks,
                              !.duration[r.ability] = ability.durationTicks]
<1>1. CASE match' = match
  BY <1>1 DEF MatchInv, EffectRule
<1>2. CASE match' = k /\ Running(match) /\ match.cooldown[r.ability] = 0
  <2>1. Keeps(match, k, {"abilityCharge", "cooldown", "duration"})
    BY DEF Keeps, Fields, MatchInv
  <2>2. /\ DOMAIN k = Fields /\ k.outcome = match.outcome /\ k.standing = match.standing
        /\ k.owner = match.owner /\ k.freegridCapture = match.freegridCapture
        /\ k.chorusCapture = match.chorusCapture
    BY <2>1 DEF Keeps, Fields
  <2>3. /\ k.cooldown = [match.cooldown EXCEPT ![r.ability] = ability.cooldownTicks]
        /\ k.duration = [match.duration EXCEPT ![r.ability] = ability.durationTicks]
    BY DEF Fields, MatchInv
  <2>4. ASSUME NEW a \in AbilityKind
        PROVE  /\ EffectRule(k, a)
               /\ \/ k.duration[a] <= match.duration[a]
                  \/ match.duration[a] = 0 /\ k.cooldown[a] > k.duration[a]
    <3>1. EffectRule(match, a)
      BY DEF MatchInv
    <3>2. CASE a = r.ability
      <4>1. /\ ability.cooldownTicks \in Nat /\ ability.durationTicks \in Nat
            /\ ability.durationTicks < ability.cooldownTicks
        BY <3>2, DefinitionAssumption
      <4>2. k.cooldown[a] = ability.cooldownTicks /\ k.duration[a] = ability.durationTicks
        BY <2>3, <3>2 DEF MatchInv
      <4>3. match.duration[a] = 0
        BY <1>2, <3>1, <3>2 DEF EffectRule
      <4>4. QED
        BY <4>1, <4>2, <4>3 DEF EffectRule
    <3>3. CASE a # r.ability
      BY <2>3, <3>1, <3>3 DEF EffectRule, MatchInv
    <3>4. QED
      BY <3>2, <3>3
  <2>5. DOMAIN k.cooldown = AbilityKind /\ DOMAIN k.duration = AbilityKind
    BY <2>3 DEF MatchInv
  <2>6. MatchInv(k)
    BY <2>2, <2>4, <2>5 DEF MatchInv, OwnerRule, OutcomeRule
  <2>7. QED
    BY <1>2, <2>4, <2>6
<1>3. QED
  BY <1>1, <1>2 DEF ExecuteActivateAbility, Obey, Obeys, CanActivateAbility

(* The others leave the effects and the nodes alone, and only a pulse fells *)
(* something, in a match that goes on.                                      *)
LEMMA CommandRules ==
    ASSUME MatchInv(match), ExecuteCommand
    PROVE  /\ MatchInv(match')
           /\ \/ match' = InitialMatch
              \/ \A a \in AbilityKind :
                    \/ match'.duration[a] <= match.duration[a]
                    \/ match.duration[a] = 0 /\ match'.cooldown[a] > match'.duration[a]
           /\ ~Running(match) =>
                 match' \in {match, [match EXCEPT !.paused = ~@], InitialMatch}
<1>1. DOMAIN match = Fields /\ \A a \in AbilityKind : match.duration[a] \in Nat
  BY DEF MatchInv, EffectRule
<1>2. CASE ExecuteRestart
  BY <1>2, InitialMatchInv DEF ExecuteRestart
<1>3. CASE ExecuteActivateAbility
  BY <1>3, AbilityCommandRules
<1>4. CASE ExecuteTogglePause
  <2>1. match' = [match EXCEPT !.paused = ~@]
    BY <1>4 DEF ExecuteTogglePause, Obey
  <2>2. Keeps(match, match', {"paused"})
    BY <1>1, <2>1 DEF Keeps, Fields
  <2>3. MatchInv(match') /\ match'.duration = match.duration
    <3>1. MatchInv(match')
      BY <2>2, KeepsRules DEF Ruled
    <3>2. QED
      BY <2>2, <3>1 DEF Keeps, Fields
  <2>4. QED
    BY <1>1, <2>1, <2>3
<1>5. CASE ExecuteBuildStructure \/ ExecuteProduceUnit
  <2>1. Keeps(match, match', {"salvage", "structures", "production"})
    BY <1>1, <1>5 DEF ExecuteBuildStructure, ExecuteProduceUnit, Obey, Keeps, Fields
  <2>2. MatchInv(match') /\ match'.duration = match.duration
    <3>1. MatchInv(match')
      BY <2>1, KeepsRules DEF Ruled
    <3>2. QED
      BY <2>1, <3>1 DEF Keeps, Fields
  <2>3. ~Running(match) => match' = match
    BY <1>5 DEF ExecuteBuildStructure, ExecuteProduceUnit, Obey, Obeys
  <2>4. QED
    BY <1>1, <2>2, <2>3
<1>6. CASE ExecuteArcPulse
  <2>1. CASE match' = match
    BY <1>1, <2>1
  <2>2. CASE Running(match) /\ \E fallen \in SUBSET {"ChorusSpire"} :
                match' = [match EXCEPT !.abilityCharge = @ - ArcPulseAbilityChargeCost,
                                       !.standing = @ \ fallen]
    <3>1. Keeps(match, match', {"abilityCharge", "standing"})
      BY <1>1, <2>2 DEF Keeps, Fields
    <3>2. /\ DOMAIN match' = Fields /\ match'.outcome = "InProgress"
          /\ match'.owner = match.owner /\ match'.cooldown = match.cooldown
          /\ match'.duration = match.duration
          /\ match'.freegridCapture = match.freegridCapture
          /\ match'.chorusCapture = match.chorusCapture
      BY <2>2, <3>1 DEF Keeps, Fields, Running
    <3>3. MatchInv(match')
      BY <3>2 DEF MatchInv, OwnerRule, OutcomeRule, EffectRule
    <3>4. QED
      BY <1>1, <2>2, <3>2, <3>3
  <2>3. QED
    BY <1>6, <2>1, <2>2 DEF ExecuteArcPulse, Obey, Obeys
<1>7. QED
  BY <1>2, <1>3, <1>4, <1>5, <1>6 DEF ExecuteCommand

-----------------------------------------------------------------------------
(* Sequences *)

(* A set of numbers that is not empty has a least.                          *)
LEMMA Least ==
    ASSUME NEW S, S \subseteq Nat, S # {}
    PROVE  \E n \in S : \A k \in S : n <= k
<1>1. IsWellFoundedOn(OpToRel(<, Nat), Nat)
  BY NatLessThanWellFounded
<1>2. PICK n \in S : \A k \in S : <<k, n>> \notin OpToRel(<, Nat)
  BY <1>1, WFMin
<1>3. \A k \in S : ~ (k < n)
  BY <1>2 DEF OpToRel
<1>4. n \in Nat /\ \A k \in S : k \in Nat
  OBVIOUS
<1>5. \A k \in S : n <= k
  BY <1>3, <1>4
<1>6. QED
  BY <1>2, <1>5

(* Induction, with a set in the place of the property.                      *)
LEMMA SetInduction ==
    ASSUME NEW S, 0 \in S, \A n \in Nat : n \in S => n + 1 \in S
    PROVE  Nat \subseteq S
<1> DEFINE T == Nat \ S
<1>1. SUFFICES ASSUME T # {} PROVE FALSE
  OBVIOUS
<1>2. PICK n \in T : \A k \in T : n <= k
  BY <1>1, Least, Zenon DEF T
<1>3. n # 0 /\ n \in Nat /\ n - 1 \in Nat /\ ~(n <= n - 1)
  BY <1>2
<1>4. n - 1 \in S
  BY <1>2, <1>3
<1>5. QED
  BY <1>2, <1>3, <1>4

LEMMA Joined ==
    ASSUME NEW S, NEW a \in Seq(S), NEW b \in Seq(S)
    PROVE  /\ a \o b \in Seq(S) /\ Len(a \o b) = Len(a) + Len(b)
           /\ \A k \in 1 .. Len(a) + Len(b) :
                 (a \o b)[k] = IF k <= Len(a) THEN a[k] ELSE b[k - Len(a)]
OBVIOUS

LEMMA Inserted ==
    ASSUME NEW S, NEW s \in Seq(S), NEW x \in S, NEW i \in 1 .. Len(s) + 1
    PROVE  /\ InsertAt(s, i, x) \in Seq(S)
           /\ Len(InsertAt(s, i, x)) = Len(s) + 1
           /\ \A k \in 1 .. Len(s) + 1 :
                 InsertAt(s, i, x)[k] = IF k < i THEN s[k] ELSE IF k = i THEN x ELSE s[k - 1]
<1> DEFINE a == SubSeq(s, 1, i - 1)
           b == SubSeq(s, i, Len(s))
           c == a \o <<x>>
<1>1. a \in Seq(S) /\ Len(a) = i - 1 /\ \A k \in 1 .. i - 1 : a[k] = s[k]
  OBVIOUS
<1>2. b \in Seq(S) /\ Len(b) = Len(s) + 1 - i /\ \A k \in 1 .. Len(s) + 1 - i : b[k] = s[k + i - 1]
  OBVIOUS
<1> HIDE DEF a, b
<1>3. c \in Seq(S) /\ Len(c) = i /\ (\A k \in 1 .. i - 1 : c[k] = s[k]) /\ c[i] = x
  BY <1>1
<1> HIDE DEF c
<1>4. /\ c \o b \in Seq(S) /\ Len(c \o b) = Len(s) + 1
      /\ \A k \in 1 .. Len(s) + 1 : (c \o b)[k] = IF k <= i THEN c[k] ELSE b[k - i]
  <2>1. /\ c \o b \in Seq(S) /\ Len(c \o b) = Len(c) + Len(b)
        /\ \A k \in 1 .. Len(c) + Len(b) :
              (c \o b)[k] = IF k <= Len(c) THEN c[k] ELSE b[k - Len(c)]
    BY <1>2, <1>3, Joined, Zenon
  <2>2. Len(c) = i /\ Len(c) + Len(b) = Len(s) + 1
    BY <1>2, <1>3
  <2>3. QED
    BY <2>1, <2>2
<1>5. \A k \in 1 .. Len(s) + 1 :
          (c \o b)[k] = IF k < i THEN s[k] ELSE IF k = i THEN x ELSE s[k - 1]
  BY <1>2, <1>3, <1>4, SMTT(20)
<1>6. InsertAt(s, i, x) = c \o b
  BY Zenon DEF InsertAt, a, b, c
<1>7. QED
  BY <1>4, <1>5, <1>6

-----------------------------------------------------------------------------
(* What is left of the structures *)

Structure == [kind : StructureKind, node : Nodes, remainingBuildTicks : Nat]

(* No two are of a kind at a node.                                          *)
OneEach(s) ==
    \A i, j \in DOMAIN s : i # j => s[i].kind # s[j].kind \/ s[i].node # s[j].node

KeepIf(b, t, spots) == IF Spot(b) \in spots THEN Append(t, b) ELSE t

KeptUpTo(f, s, spots, n) ==
    f = [i \in 0 .. n |-> IF i = 0 THEN << >> ELSE KeepIf(s[i], f[i - 1], spots)]

LEMMA UndestroyedIs ==
    ASSUME NEW s, NEW spots, Len(s) \in Nat
    PROVE  \E f : KeptUpTo(f, s, spots, Len(s)) /\ Undestroyed(s, spots) = f[Len(s)]
<1> DEFINE S == {n \in Nat : \E f : KeptUpTo(f, s, spots, n)}
           kept == CHOOSE h : h = [i \in 0 .. Len(s) |->
                      IF i = 0 THEN << >>
                      ELSE IF Spot(s[i]) \in spots THEN Append(h[i - 1], s[i])
                      ELSE h[i - 1]]
<1>1. 0 \in S
  <2>1. KeptUpTo([i \in 0 .. 0 |-> << >>], s, spots, 0)
    BY DEF KeptUpTo
  <2>2. QED
    BY <2>1
<1>2. ASSUME NEW n \in Nat, n \in S PROVE n + 1 \in S
  <2>1. PICK f : KeptUpTo(f, s, spots, n)
    BY <1>2
  <2> DEFINE next == KeepIf(s[n + 1], f[n], spots)
             g == [i \in 0 .. n + 1 |-> IF i = n + 1 THEN next ELSE f[i]]
  <2>2. ASSUME NEW i \in 0 .. n + 1
        PROVE  g[i] = IF i = 0 THEN << >> ELSE KeepIf(s[i], g[i - 1], spots)
    BY <2>1 DEF KeptUpTo
  <2>3. KeptUpTo(g, s, spots, n + 1)
    BY <2>2 DEF KeptUpTo
  <2>4. QED
    BY <2>3
<1>3. Len(s) \in S
  <2> HIDE DEF S
  <2>1. \A n \in Nat : n \in S => n + 1 \in S
    BY <1>2
  <2>2. Nat \subseteq S
    BY <1>1, <2>1, SetInduction, Zenon
  <2>3. QED
    BY <2>2
<1>4. KeptUpTo(kept, s, spots, Len(s))
  <2>1. \E h : KeptUpTo(h, s, spots, Len(s))
    BY <1>3
  <2>2. QED
    BY <2>1, Zenon DEF KeptUpTo, KeepIf
<1>5. Undestroyed(s, spots) = kept[Len(s)]
  BY Zenon DEF Undestroyed
<1>6. QED
  BY <1>4, <1>5

(* The undestroyed are some of the structures, and still apart.             *)
LEMMA UndestroyedAreApart ==
    ASSUME NEW s \in Seq(Structure), NEW spots, OneEach(s)
    PROVE  Undestroyed(s, spots) \in Seq(Structure) /\ OneEach(Undestroyed(s, spots))
<1>1. Len(s) \in Nat /\ \A i \in 1 .. Len(s) : s[i] \in Structure /\ i \in DOMAIN s
  OBVIOUS
<1>2. PICK f : KeptUpTo(f, s, spots, Len(s)) /\ Undestroyed(s, spots) = f[Len(s)]
  BY <1>1, UndestroyedIs
<1>3. /\ f[0] = << >>
      /\ \A n \in Nat : n + 1 <= Len(s) =>
            f[n + 1] = KeepIf(s[n + 1], f[n], spots)
  BY <1>1, <1>2 DEF KeptUpTo
<1> DEFINE From(t, n) == \A j \in 1 .. Len(t) : \E i \in 1 .. n : t[j] = s[i]
           Good(n) == f[n] \in Seq(Structure) /\ OneEach(f[n]) /\ From(f[n], n)
           S == {n \in Nat : n <= Len(s) => Good(n)}
<1>4. 0 \in S
  <2>1. << >> \in Seq(Structure) /\ Len(<< >>) = 0 /\ DOMAIN << >> = {}
    OBVIOUS
  <2>2. OneEach(<< >>) /\ From(<< >>, 0)
    BY <2>1 DEF OneEach
  <2>3. Good(0)
    BY <1>3, <2>1, <2>2
  <2> HIDE DEF Good
  <2>4. QED
    BY <2>3
<1>5. ASSUME NEW n \in Nat, n \in S PROVE n + 1 \in S
  <2> SUFFICES ASSUME n + 1 <= Len(s) PROVE Good(n + 1)
    <3> HIDE DEF Good
    <3> QED
      OBVIOUS
  <2> DEFINE t == f[n]
             b == s[n + 1]
  <2>1. t \in Seq(Structure) /\ OneEach(t) /\ From(t, n) /\ Len(t) \in Nat
    BY <1>1, <1>5
  <2>2. n + 1 \in 1 .. Len(s) /\ b \in Structure
    BY <1>1
  <2>3. CASE f[n + 1] = t
    <3>1. From(t, n + 1)
      BY <2>1
    <3> HIDE DEF From, t
    <3>2. QED
      BY <2>1, <2>3, <3>1
  <2>4. CASE f[n + 1] = Append(t, b)
    <3> DEFINE u == Append(t, b)
    <3>1. /\ u \in Seq(Structure) /\ Len(u) = Len(t) + 1 /\ u[Len(t) + 1] = b
          /\ \A j \in 1 .. Len(t) : u[j] = t[j]
      BY <2>1, <2>2
    <3>2. \A j \in 1 .. Len(t) : t[j].kind # b.kind \/ t[j].node # b.node
      <4> TAKE j \in 1 .. Len(t)
      <4>1. PICK i \in 1 .. n : t[j] = s[i]
        BY <2>1
      <4>2. i \in DOMAIN s /\ n + 1 \in DOMAIN s /\ i # n + 1
        BY <1>1, <2>2
      <4>3. QED
        BY <4>1, <4>2 DEF OneEach
    <3> HIDE DEF u, b
    <3>3. From(u, n + 1)
      BY <2>1, <2>2, <3>1, SMTT(20) DEF b
    <3>4. DOMAIN t = 1 .. Len(t) /\ DOMAIN u = 1 .. Len(t) + 1
      BY <2>1, <3>1
    <3> HIDE DEF t, From
    <3>5. OneEach(u)
      <4> SUFFICES ASSUME NEW i \in 1 .. Len(t) + 1, NEW j \in 1 .. Len(t) + 1, i # j
                   PROVE  u[i].kind # u[j].kind \/ u[i].node # u[j].node
        BY <3>4 DEF OneEach
      <4>1. CASE i \in 1 .. Len(t) /\ j \in 1 .. Len(t)
        BY <2>1, <3>1, <3>4, <4>1 DEF OneEach
      <4>2. CASE i = Len(t) + 1 /\ j \in 1 .. Len(t)
        BY <3>1, <3>2, <4>2
      <4>3. CASE j = Len(t) + 1 /\ i \in 1 .. Len(t)
        BY <3>1, <3>2, <4>3
      <4>4. QED
        BY <2>1, <4>1, <4>2, <4>3
    <3>6. QED
      BY <2>4, <3>1, <3>3, <3>5 DEF u
  <2>5. QED
    BY <1>3, <2>3, <2>4 DEF KeepIf
<1>6. Len(s) \in S
  <2> HIDE DEF S
  <2>1. \A n \in Nat : n \in S => n + 1 \in S
    BY <1>5
  <2>2. Nat \subseteq S
    BY <1>4, <2>1, SetInduction, Zenon
  <2>3. QED
    BY <1>1, <2>2
<1>7. QED
  BY <1>1, <1>2, <1>6

-----------------------------------------------------------------------------
(* The types of a match *)

UnitOrder == [kind : UnitKind, remainingTicks : Nat \ {0}]

Typed(m) == m \in MatchType /\ OneEach(m.structures)

LEMMA FieldTypes ==
    ASSUME NEW m \in MatchType
    PROVE  /\ DOMAIN m = Fields
           /\ m.paused \in BOOLEAN /\ m.outcome \in {"InProgress", "Victory", "Defeat"}
           /\ m.salvage \in Nat /\ m.abilityCharge \in 0 .. MaxCharge
           /\ m.incomeRemainderTicks \in 0 .. TicksPerSecond - 1
           /\ m.cooldown \in [AbilityKind -> Nat] /\ m.duration \in [AbilityKind -> Nat]
           /\ m.units \in [UnitKind -> Nat] /\ m.standing \in SUBSET Base
           /\ m.structures \in Seq(Structure) /\ m.production \in Seq(UnitOrder)
           /\ m.owner \in [Nodes -> {"Neutral", "Freegrid", "Chorus"}]
           /\ m.freegridCapture \in [Nodes -> Ticks] /\ m.chorusCapture \in [Nodes -> Ticks]
BY DEF MatchType, Structure, UnitOrder, Fields, Ticks

LEMMA InitialMatchTyped == Typed(InitialMatch)
<1>1. /\ InitialMatch.structures = << >> /\ << >> \in Seq(Structure) /\ << >> \in Seq(UnitOrder)
      /\ DOMAIN << >> = {}
  BY DEF InitialMatch
<1>2. OneEach(InitialMatch.structures)
  BY <1>1 DEF OneEach
<1>3. /\ InitialSalvage \in Nat /\ InitialCharge \in 0 .. MaxCharge
      /\ 0 \in 0 .. TicksPerSecond - 1 /\ 0 \in 0 .. CaptureTicksRequired
  BY ScaleAssumption
<1>4. InitialUnits \in [UnitKind -> Nat]
  BY DefinitionAssumption
<1>5. InitialMatch \in MatchType
  BY <1>1, <1>3, <1>4 DEF InitialMatch, MatchType, NoTicks, Structure, UnitOrder
<1>6. QED
  BY <1>2, <1>5 DEF Typed

(* Construction goes on, and an order is completed, dropped or goes on.     *)
LEMMA ConstructionTyped ==
    ASSUME NEW m, Typed(m)
    PROVE  Typed(UpdateConstructionAndProduction(m))
<1> DEFINE s == m.structures
           t == Construct(s)
           built == [m EXCEPT !.structures = t]
           order == Head(m.production)
<1>1. m \in MatchType /\ OneEach(s)
  BY DEF Typed
<1>2. s \in Seq(Structure) /\ m.production \in Seq(UnitOrder) /\ m.units \in [UnitKind -> Nat]
  BY <1>1, FieldTypes
<1>3. DOMAIN s = 1 .. Len(s) /\ Len(s) \in Nat /\ \A i \in 1 .. Len(s) : s[i] \in Structure
  BY <1>2
<1>4. \A i \in 1 .. Len(s) : /\ t[i] \in Structure
                             /\ t[i].kind = s[i].kind /\ t[i].node = s[i].node
  <2> TAKE i \in 1 .. Len(s)
  <2> DEFINE b == s[i]
             x == [b EXCEPT !.remainingBuildTicks = Less(@)]
  <2>1. b \in Structure
    BY <1>3
  <2>2. t[i] = x
    BY <1>3 DEF Construct
  <2> HIDE DEF b
  <2>3. Less(b.remainingBuildTicks) \in Nat
    BY <2>1 DEF Structure, Less
  <2>4. x \in Structure /\ x.kind = b.kind /\ x.node = b.node
    BY <2>1, <2>3 DEF Structure
  <2> HIDE DEF t, x
  <2>5. QED
    BY <2>2, <2>4 DEF b
<1>5. t \in Seq(Structure) /\ DOMAIN t = DOMAIN s
  <2>1. t = [i \in 1 .. Len(s) |-> t[i]]
    BY <1>3 DEF Construct
  <2> HIDE DEF t, s
  <2>2. QED
    BY <1>3, <1>4, <2>1
<1>6. OneEach(t)
  BY <1>1, <1>3, <1>4, <1>5 DEF OneEach
<1> HIDE DEF t
<1>7. built \in MatchType /\ built.structures = t /\ built.production = m.production
      /\ built.units = m.units
  <2>1. built \in MatchType
    BY <1>1, <1>5 DEF MatchType, Structure
  <2>2. DOMAIN m = Fields
    BY <1>1, FieldTypes
  <2>3. QED
    BY <2>1, <2>2 DEF Fields
<1>8. CASE m.production = << >>
  BY <1>6, <1>7, <1>8 DEF UpdateConstructionAndProduction, Typed, t
<1>9. CASE m.production # << >>
  <2> DEFINE dropped == [built EXCEPT !.production = Tail(@)]
             made == [built EXCEPT !.production = Tail(@), !.units[order.kind] = @ + 1]
             waits == [built EXCEPT !.production[1].remainingTicks = @ - 1]
  <2>1. Tail(m.production) \in Seq(UnitOrder) /\ order \in UnitOrder /\ order = m.production[1]
    BY <1>2, <1>9
  <2>2. Typed(dropped)
    <3>1. dropped \in MatchType
      BY <1>7, <2>1 DEF MatchType, UnitOrder
    <3>2. dropped.structures = t
      BY <1>7 DEF MatchType
    <3>3. QED
      BY <1>6, <3>1, <3>2 DEF Typed
  <2>3. Typed(made)
    <3>1. [m.units EXCEPT ![order.kind] = @ + 1] \in [UnitKind -> Nat]
      BY <1>2, <2>1 DEF UnitOrder
    <3>2. made \in MatchType
      BY <1>7, <2>1, <3>1 DEF MatchType, UnitOrder
    <3>3. made.structures = t
      BY <1>7 DEF MatchType
    <3>4. QED
      BY <1>6, <3>2, <3>3 DEF Typed
  <2>4. order.remainingTicks > 1 => Typed(waits)
    <3> SUFFICES ASSUME order.remainingTicks > 1 PROVE Typed(waits)
      OBVIOUS
    <3>1. [m.production EXCEPT ![1].remainingTicks = @ - 1] \in Seq(UnitOrder)
      <4> DEFINE q == m.production
                 x == [q[1] EXCEPT !.remainingTicks = @ - 1]
      <4>1. x \in UnitOrder
        BY <2>1 DEF UnitOrder
      <4>2. 1 \in 1 .. Len(q) /\ q \in Seq(UnitOrder)
        BY <1>2, <1>9
      <4> HIDE DEF x, q
      <4>3. [q EXCEPT ![1] = x] \in Seq(UnitOrder)
        BY <4>1, <4>2
      <4>4. QED
        BY <4>3 DEF x, q
    <3>2. waits \in MatchType
      BY <1>7, <3>1 DEF MatchType, UnitOrder
    <3>3. waits.structures = t
      BY <1>7 DEF MatchType
    <3>4. QED
      BY <1>6, <3>2, <3>3 DEF Typed
  <2>5. order.remainingTicks \in Nat
    BY <2>1 DEF UnitOrder
  <2>6. UpdateConstructionAndProduction(m) =
           IF "FabricatorBay" \notin m.standing THEN dropped
           ELSE IF order.remainingTicks <= 1 THEN made ELSE waits
    BY <1>9 DEF UpdateConstructionAndProduction, t
  <2> HIDE DEF dropped, made, waits, order
  <2>7. QED
    BY <2>2, <2>3, <2>4, <2>5, <2>6
<1>10. QED
  BY <1>8, <1>9

(* A field changed for another of its type.                                 *)
LEMMA RetypedSalvage ==
    ASSUME NEW m, Typed(m), NEW n \in Nat
    PROVE  Typed([m EXCEPT !.salvage = n])
<1> DEFINE k == [m EXCEPT !.salvage = n]
<1>1. k \in MatchType
  BY DEF Typed, MatchType
<1>2. k.structures = m.structures
  BY DEF Typed, MatchType
<1>3. QED
  BY <1>1, <1>2 DEF Typed

LEMMA CaptureTyped ==
    ASSUME NEW m, Typed(m), NEW freegrid, NEW chorus
    PROVE  Typed(UpdateMovementAndCapture(m, freegrid, chorus))
<1> DEFINE ff == Progress(m.freegridCapture, freegrid, chorus)
           cc == Progress(m.chorusCapture, chorus, freegrid)
           owner == [n \in Nodes |->
                       IF n \in freegrid /\ Complete(ff[n]) THEN "Freegrid"
                       ELSE IF n \in chorus /\ Complete(cc[n]) THEN "Chorus"
                       ELSE m.owner[n]]
           k == [m EXCEPT !.freegridCapture = ff, !.chorusCapture = cc, !.owner = owner]
<1>1. /\ m \in MatchType /\ CaptureTicksRequired \in Nat
      /\ m.freegridCapture \in [Nodes -> Ticks] /\ m.chorusCapture \in [Nodes -> Ticks]
      /\ m.owner \in [Nodes -> {"Neutral", "Freegrid", "Chorus"}]
  BY FieldTypes, ScaleAssumption DEF Typed
<1>2. ff \in [Nodes -> Ticks] /\ cc \in [Nodes -> Ticks]
  BY <1>1 DEF Progress, Ticks
<1>3. owner \in [Nodes -> {"Neutral", "Freegrid", "Chorus"}]
  BY <1>1
<1>4. UpdateMovementAndCapture(m, freegrid, chorus) = k
  BY DEF UpdateMovementAndCapture
<1> HIDE DEF ff, cc, owner
<1>5. k \in MatchType
  BY <1>1, <1>2, <1>3 DEF MatchType, Ticks
<1>6. k.structures = m.structures
  BY <1>1 DEF MatchType
<1>7. QED
  BY <1>4, <1>5, <1>6 DEF Typed

LEMMA SurvivorsTyped ==
    ASSUME NEW m, Typed(m), NEW units \in [UnitKind -> Nat], NEW standing \in SUBSET Base,
           NEW spots
    PROVE  Typed(Survivors(m, units, standing, spots))
<1> DEFINE t == Undestroyed(m.structures, spots)
           k == Survivors(m, units, standing, spots)
<1>1. m \in MatchType /\ m.structures \in Seq(Structure) /\ DOMAIN m = Fields
  BY FieldTypes DEF Typed
<1>2. t \in Seq(Structure) /\ OneEach(t)
  BY <1>1, UndestroyedAreApart DEF Typed
<1>3. k = [m EXCEPT !.units = units, !.standing = standing, !.structures = t]
  BY DEF Survivors
<1> HIDE DEF t, k
<1>4. k \in MatchType
  BY <1>1, <1>2, <1>3 DEF MatchType, Structure
<1>5. k.structures = t
  BY <1>1, <1>3 DEF Fields
<1>6. QED
  BY <1>2, <1>4, <1>5 DEF Typed, k

LEMMA AbilitiesTyped ==
    ASSUME NEW m, Typed(m)
    PROVE  Typed(UpdateAbilities(m))
<1> DEFINE cc == [a \in AbilityKind |-> Less(m.cooldown[a])]
           dd == [a \in AbilityKind |-> Less(m.duration[a])]
           k == UpdateAbilities(m)
<1>1. /\ m \in MatchType /\ DOMAIN m = Fields
      /\ m.cooldown \in [AbilityKind -> Nat] /\ m.duration \in [AbilityKind -> Nat]
  BY FieldTypes DEF Typed
<1>2. cc \in [AbilityKind -> Nat] /\ dd \in [AbilityKind -> Nat]
  BY <1>1 DEF Less
<1>3. k = [m EXCEPT !.cooldown = cc, !.duration = dd]
  BY DEF UpdateAbilities
<1> HIDE DEF cc, dd, k
<1>4. k \in MatchType
  BY <1>1, <1>2, <1>3 DEF MatchType
<1>5. k.structures = m.structures
  BY <1>1, <1>3 DEF Fields
<1>6. QED
  BY <1>4, <1>5 DEF Typed, k

(* What the nodes bring in is a number, and the charge has its limit.       *)
LEMMA EconomyTyped ==
    ASSUME NEW m, Typed(m)
    PROVE  Typed(UpdateEconomy(m))
<1> DEFINE owned == Cardinality({n \in Nodes : m.owner[n] = "Freegrid"})
           ticks == m.incomeRemainderTicks
           k == UpdateEconomy(m)
<1>1. /\ m \in MatchType /\ DOMAIN m = Fields /\ m.salvage \in Nat
      /\ m.abilityCharge \in 0 .. MaxCharge /\ ticks \in 0 .. TicksPerSecond - 1
  BY FieldTypes DEF Typed
<1>2. owned \in Nat
  BY ScaleAssumption, FS_Subset, FS_CardinalityType
<1> HIDE DEF owned
<1>3. /\ SalvagePerNode \in Nat /\ ChargePerNode \in Nat /\ MaxCharge \in Nat
      /\ TicksPerSecond \in Nat /\ TicksPerSecond > 0
  BY ScaleAssumption
<1> DEFINE salvage == m.salvage + owned * SalvagePerNode
           charge == SmallerOf(MaxCharge, m.abilityCharge + owned * ChargePerNode)
<1>4. owned * SalvagePerNode \in Nat /\ owned * ChargePerNode \in Nat
  BY <1>2, <1>3
<1>5. salvage \in Nat /\ charge \in 0 .. MaxCharge
  BY <1>1, <1>3, <1>4 DEF SmallerOf
<1>6. CASE ticks + 1 < TicksPerSecond
  <2>1. k = [m EXCEPT !.incomeRemainderTicks = @ + 1]
    BY <1>6 DEF UpdateEconomy
  <2>2. ticks + 1 \in 0 .. TicksPerSecond - 1
    BY <1>1, <1>3, <1>6
  <2> HIDE DEF k
  <2>3. k \in MatchType
    BY <1>1, <2>1, <2>2 DEF MatchType
  <2>4. k.structures = m.structures
    BY <1>1, <2>1 DEF Fields
  <2>5. QED
    BY <2>3, <2>4 DEF Typed, k
<1>7. CASE ~(ticks + 1 < TicksPerSecond)
  <2>1. k = [m EXCEPT !.incomeRemainderTicks = 0, !.salvage = salvage, !.abilityCharge = charge]
    BY <1>7 DEF UpdateEconomy, owned
  <2>2. 0 \in 0 .. TicksPerSecond - 1
    BY <1>3
  <2> HIDE DEF k, salvage, charge
  <2>3. k \in MatchType
    BY <1>1, <1>5, <2>1, <2>2 DEF MatchType
  <2>4. k.structures = m.structures
    BY <1>1, <2>1 DEF Fields
  <2>5. QED
    BY <2>3, <2>4 DEF Typed, k
<1>8. QED
  BY <1>6, <1>7

LEMMA OutcomeTyped ==
    ASSUME NEW m, Typed(m)
    PROVE  Typed(UpdateOutcome(m))
<1> DEFINE k == UpdateOutcome(m)
<1>1. m \in MatchType /\ DOMAIN m = Fields /\ m.outcome \in {"InProgress", "Victory", "Defeat"}
  BY FieldTypes DEF Typed
<1>2. k \in MatchType
  BY <1>1 DEF UpdateOutcome, MatchType
<1>3. k.structures = m.structures
  BY <1>1 DEF UpdateOutcome, Fields
<1>4. QED
  BY <1>2, <1>3 DEF Typed

(* Repairs spend no more than there is, and combat only takes away.         *)
LEMMA TickTyped ==
    ASSUME Typed(match), Tick
    PROVE  Typed(match')
<1> DEFINE built == UpdateConstructionAndProduction(match)
<1>1. Typed(built) /\ built.salvage \in Nat /\ built.units \in [UnitKind -> Nat]
      /\ built.standing \in SUBSET Base
  BY ConstructionTyped, FieldTypes DEF Typed
<1>2. PICK freegrid, chorus, spent, units, standing, spots :
         /\ spent \in 0 .. SmallerOf(built.salvage, RepairSalvage * built.units[Rig])
         /\ units \in {u \in [UnitKind -> UNION {0 .. built.units[k] : k \in UnitKind}] :
                          \A k \in UnitKind : u[k] <= built.units[k]}
         /\ standing \in SUBSET built.standing
         /\ match' = UpdateOutcome(UpdateEconomy(UpdateAbilities(Survivors(
              [UpdateMovementAndCapture(built, freegrid, chorus) EXCEPT !.salvage = @ - spent],
              units, standing, spots))))
  BY Zenon DEF Tick
<1> DEFINE captured == UpdateMovementAndCapture(built, freegrid, chorus)
           repaired == [captured EXCEPT !.salvage = @ - spent]
<1> HIDE DEF built
<1>3. Typed(captured) /\ captured.salvage = built.salvage
  <2>1. Typed(captured)
    BY <1>1, CaptureTyped
  <2>2. DOMAIN built = Fields
    BY <1>1, FieldTypes DEF Typed
  <2>3. captured.salvage = built.salvage
    BY <2>2 DEF UpdateMovementAndCapture, Fields
  <2>4. QED
    BY <2>1, <2>3
<1> HIDE DEF captured
<1>4. Typed(repaired)
  <2> DEFINE most == SmallerOf(built.salvage, RepairSalvage * built.units[Rig])
  <2>1. RepairSalvage * built.units[Rig] \in Nat
    <3>1. RepairSalvage \in Nat /\ built.units[Rig] \in Nat
      BY <1>1, ScaleAssumption, DefinitionAssumption
    <3>2. QED
      BY <3>1
  <2>2. most \in Nat /\ most <= built.salvage
    BY <1>1, <2>1 DEF SmallerOf
  <2>3. spent \in 0 .. most
    BY <1>2
  <2> HIDE DEF most
  <2>4. built.salvage - spent \in Nat
    BY <1>1, <2>2, <2>3
  <2>5. repaired = [captured EXCEPT !.salvage = built.salvage - spent]
    BY <1>3
  <2> HIDE DEF repaired
  <2>6. QED
    BY <1>3, <2>4, <2>5, RetypedSalvage
<1> HIDE DEF repaired
<1>5. units \in [UnitKind -> Nat] /\ standing \in SUBSET Base
  <2>1. UNION {0 .. built.units[k] : k \in UnitKind} \subseteq Nat
    BY <1>1
  <2>2. units \in [UnitKind -> UNION {0 .. built.units[k] : k \in UnitKind}]
    BY <1>2
  <2>3. QED
    BY <1>1, <1>2, <2>1, <2>2
<1>6. Typed(Survivors(repaired, units, standing, spots))
  BY <1>4, <1>5, SurvivorsTyped
<1>7. match' = UpdateOutcome(UpdateEconomy(UpdateAbilities(Survivors(repaired, units, standing, spots))))
  BY <1>2 DEF captured, repaired
<1>8. QED
  BY <1>6, <1>7, AbilitiesTyped, EconomyTyped, OutcomeTyped

-----------------------------------------------------------------------------
(* The commands that wait *)

Given == [delay : 0 .. MaxDelay, request : Requests]

(* A command that is due sooner does not wait behind one that is due later. *)
InTurn(c) == \A i, j \in DOMAIN c : i < j => c[i].delay <= c[j].delay

Waiting(c) == c \in Seq(Given) /\ InTurn(c)

LEMMA WaitingAre ==
    ASSUME NEW c, Waiting(c)
    PROVE  /\ c \in Seq(Given) /\ Len(c) \in Nat /\ DOMAIN c = 1 .. Len(c)
           /\ \A i \in 1 .. Len(c) : c[i] \in Given /\ c[i].delay \in Nat
           /\ \A i, j \in 1 .. Len(c) : i < j => c[i].delay <= c[j].delay
<1>1. c \in Seq(Given) /\ Len(c) \in Nat /\ DOMAIN c = 1 .. Len(c)
  BY DEF Waiting
<1>2. \A i \in 1 .. Len(c) : c[i] \in Given
  BY <1>1
<1>3. \A i \in 1 .. Len(c) : c[i].delay \in Nat
  BY <1>2 DEF Given
<1>4. QED
  BY <1>1, <1>2, <1>3 DEF Waiting, InTurn

(* Those due by a moment are the first ones, so their number is a place.    *)
LEMMA EarlierAreFirst ==
    ASSUME NEW c, Waiting(c), NEW d \in Nat
    PROVE  /\ Cardinality({i \in DOMAIN c : c[i].delay <= d}) \in 0 .. Len(c)
           /\ \A i \in 1 .. Len(c) :
                 c[i].delay <= d <=> i <= Cardinality({k \in DOMAIN c : c[k].delay <= d})
<1> DEFINE S == {i \in DOMAIN c : c[i].delay <= d}
           T == {i \in 1 .. Len(c) + 1 : i \notin S}
<1>1. /\ Len(c) \in Nat /\ DOMAIN c = 1 .. Len(c)
      /\ \A i \in 1 .. Len(c) : c[i].delay \in Nat
      /\ \A i, j \in 1 .. Len(c) : i < j => c[i].delay <= c[j].delay
  BY WaitingAre
<1>2. Len(c) + 1 \in T /\ T \subseteq Nat
  BY <1>1
<1>3. PICK n \in T : \A k \in T : n <= k
  <2> HIDE DEF T
  <2>1. QED
    BY <1>2, Least, Zenon
<1>4. n \in 1 .. Len(c) + 1 /\ n - 1 \in 0 .. Len(c)
  BY <1>1
<1>5. \A i \in 1 .. Len(c) : i \in S <=> i <= n - 1
  <2> TAKE i \in 1 .. Len(c)
  <2>1. CASE i < n
    <3>1. i \notin T
      BY <1>1, <1>3, <1>4, <2>1
    <3>2. QED
      BY <1>1, <1>4, <2>1, <3>1
  <2>2. CASE i = n
    BY <1>4, <2>2
  <2>3. CASE i > n
    <3>1. n \in 1 .. Len(c) /\ ~(c[n].delay <= d)
      BY <1>1, <1>4, <2>3
    <3>2. ~(c[i].delay <= d)
      BY <1>1, <2>3, <3>1
    <3>3. QED
      BY <1>4, <2>3, <3>2
  <2>4. QED
    BY <1>4, <2>1, <2>2, <2>3
<1>6. S = 1 .. n - 1
  BY <1>1, <1>4, <1>5
<1>7. Cardinality(S) = n - 1
  <2>1. 1 \in Int /\ n - 1 \in Int
    BY <1>4
  <2>2. Cardinality(1 .. n - 1) = IF 1 > n - 1 THEN 0 ELSE (n - 1) - 1 + 1
    BY <2>1, FS_Interval, Zenon
  <2> HIDE DEF S
  <2>3. QED
    BY <1>4, <1>6, <2>2
<1>8. QED
  BY <1>1, <1>4, <1>5, <1>7

(* A command is put behind those that are due no later.                     *)
LEMMA SubmitWaits ==
    ASSUME Waiting(commands), NEW request \in Requests, NEW delay \in 0 .. MaxDelay,
           Submit(request, delay)
    PROVE  Waiting(commands')
<1> DEFINE earlier == Cardinality({i \in DOMAIN commands : commands[i].delay <= delay})
           x == [delay |-> delay, request |-> request]
           at == earlier + 1
           c == InsertAt(commands, at, x)
<1>1. /\ commands \in Seq(Given) /\ Len(commands) \in Nat
      /\ \A i \in 1 .. Len(commands) : commands[i] \in Given /\ commands[i].delay \in Nat
      /\ \A i, j \in 1 .. Len(commands) : i < j => commands[i].delay <= commands[j].delay
  BY WaitingAre
<1>2. delay \in Nat /\ x \in Given /\ x.delay = delay
  BY ScaleAssumption DEF Given
<1>3. /\ earlier \in 0 .. Len(commands)
      /\ \A i \in 1 .. Len(commands) : commands[i].delay <= delay <=> i <= earlier
  BY <1>2, EarlierAreFirst
<1>4. commands' = c
  BY DEF Submit
<1> HIDE DEF earlier, x
<1>5. at \in 1 .. Len(commands) + 1
  BY <1>1, <1>3
<1> HIDE DEF at
<1>6. /\ c \in Seq(Given) /\ Len(c) = Len(commands) + 1
      /\ \A k \in 1 .. Len(commands) + 1 :
            c[k] = IF k < at THEN commands[k] ELSE IF k = at THEN x ELSE commands[k - 1]
  <2>1. commands \in Seq(Given) /\ x \in Given /\ at \in 1 .. Len(commands) + 1
    BY <1>1, <1>2, <1>5
  <2>2. QED
    BY <2>1, Inserted
<1>7. /\ \A i \in 1 .. Len(commands) : i < at => commands[i].delay <= delay
      /\ \A i \in 1 .. Len(commands) : i >= at => delay <= commands[i].delay
  BY <1>1, <1>2, <1>3 DEF at
<1> HIDE DEF c
<1>8. DOMAIN c = 1 .. Len(commands) + 1
  BY <1>6
<1>9. ASSUME NEW i \in 1 .. Len(commands) + 1, NEW j \in 1 .. Len(commands) + 1, i < j
      PROVE  c[i].delay <= c[j].delay
  <2>1. CASE j < at
    <3>1. /\ i \in 1 .. Len(commands) /\ j \in 1 .. Len(commands)
          /\ c[i] = commands[i] /\ c[j] = commands[j]
      BY <1>1, <1>5, <1>6, <1>9, <2>1
    <3>2. QED
      BY <1>1, <1>9, <3>1
  <2>2. CASE j = at
    <3>1. i \in 1 .. Len(commands) /\ i < at /\ c[i] = commands[i] /\ c[j] = x
      BY <1>1, <1>5, <1>6, <1>9, <2>2
    <3>2. QED
      BY <1>2, <1>7, <3>1
  <2>3. CASE j > at
    <3>1. /\ j - 1 \in 1 .. Len(commands) /\ j - 1 >= at
          /\ c[j] = commands[j - 1] /\ commands[j - 1].delay \in Nat
      BY <1>1, <1>5, <1>6, <2>3
    <3>2. delay <= commands[j - 1].delay
      BY <1>7, <3>1
    <3>3. CASE i < at
      <4>1. /\ i \in 1 .. Len(commands) /\ c[i] = commands[i] /\ commands[i].delay \in Nat
            /\ commands[i].delay <= delay
        BY <1>1, <1>5, <1>6, <1>7, <3>3
      <4>2. QED
        BY <1>2, <3>1, <3>2, <4>1
    <3>4. CASE i = at
      BY <1>2, <1>5, <1>6, <3>1, <3>2, <3>4
    <3>5. CASE i > at
      <4>1. i - 1 \in 1 .. Len(commands) /\ c[i] = commands[i - 1] /\ i - 1 < j - 1
        BY <1>1, <1>5, <1>6, <1>9, <3>5
      <4>2. QED
        BY <1>1, <3>1, <4>1
    <3>6. QED
      BY <1>5, <3>3, <3>4, <3>5
  <2>4. QED
    BY <1>5, <2>1, <2>2, <2>3
<1>10. QED
  BY <1>4, <1>6, <1>8, <1>9 DEF Waiting, InTurn

LEMMA TailWaits ==
    ASSUME NEW c, Waiting(c), c # << >>
    PROVE  Waiting(Tail(c)) /\ Head(c) \in Given
<1>1. /\ c \in Seq(Given) /\ Len(c) \in Nat
      /\ \A i \in 1 .. Len(c) : c[i] \in Given
      /\ \A i, j \in 1 .. Len(c) : i < j => c[i].delay <= c[j].delay
  BY WaitingAre
<1> DEFINE t == Tail(c)
<1>2. /\ t \in Seq(Given) /\ Head(c) \in Given /\ DOMAIN t = 1 .. Len(c) - 1
      /\ \A i \in 1 .. Len(c) - 1 : t[i] = c[i + 1]
  BY <1>1
<1> HIDE DEF t
<1>3. \A i, j \in 1 .. Len(c) - 1 : i < j => t[i].delay <= t[j].delay
  <2> TAKE i, j \in 1 .. Len(c) - 1
  <2>1. i + 1 \in 1 .. Len(c) /\ j + 1 \in 1 .. Len(c) /\ (i < j => i + 1 < j + 1)
    BY <1>1
  <2>2. QED
    BY <1>1, <1>2, <2>1
<1>4. Waiting(t)
  BY <1>2, <1>3 DEF Waiting, InTurn
<1>5. QED
  BY <1>2, <1>4 DEF t

(* A tick brings every command nearer: none of them was due, as the first   *)
(* was not.                                                                 *)
LEMMA TickWaits ==
    ASSUME Waiting(commands), Tick
    PROVE  Waiting(commands')
<1> DEFINE c == commands
           d == [i \in DOMAIN commands |-> [commands[i] EXCEPT !.delay = @ - 1]]
<1>1. commands' = d /\ ~IsDue
  BY Zenon DEF Tick
<1>2. /\ c \in Seq(Given) /\ Len(c) \in Nat /\ DOMAIN c = 1 .. Len(c)
      /\ \A i \in 1 .. Len(c) : c[i] \in Given /\ c[i].delay \in Nat
      /\ \A i, j \in 1 .. Len(c) : i < j => c[i].delay <= c[j].delay
  BY WaitingAre
<1>3. \A i \in 1 .. Len(c) : c[i].delay > 0
  <2> TAKE i \in 1 .. Len(c)
  <2>1. c # << >> /\ Head(c) = c[1] /\ 1 \in 1 .. Len(c)
    BY <1>2
  <2>2. c[1].delay > 0
    BY <1>1, <1>2, <2>1 DEF IsDue
  <2>3. QED
    BY <1>2, <2>1, <2>2
<1>4. \A i \in 1 .. Len(c) : d[i] \in Given /\ d[i].delay = c[i].delay - 1
  <2>1. ASSUME NEW x \in Given, x.delay > 0
        PROVE  /\ [x EXCEPT !.delay = @ - 1] \in Given
               /\ [x EXCEPT !.delay = @ - 1].delay = x.delay - 1
    BY <2>1, ScaleAssumption DEF Given
  <2>2. \A i \in 1 .. Len(c) : d[i] = [c[i] EXCEPT !.delay = @ - 1]
    BY <1>2
  <2> HIDE DEF c, d
  <2>3. QED
    BY <1>2, <1>3, <2>1, <2>2
<1>5. d = [i \in 1 .. Len(c) |-> d[i]]
  BY <1>2
<1> HIDE DEF c, d
<1>6. d \in Seq(Given) /\ DOMAIN d = 1 .. Len(c)
  BY <1>2, <1>4, <1>5
<1>7. InTurn(d)
  BY <1>2, <1>4, <1>6 DEF InTurn
<1>8. QED
  BY <1>1, <1>6, <1>7 DEF Waiting

-----------------------------------------------------------------------------
(* Commands and the types *)

(* A match, commands and requests that are what they should be.             *)
Typing == Typed(match) /\ Waiting(commands) /\ stepping \in BOOLEAN

(* A structure joins the others: no other of its kind is at its node.       *)
LEMMA BuildTyped ==
    ASSUME NEW m, Typed(m), NEW node \in Nodes, NEW kind \in StructureKind,
           CanBuildStructure(m, node, kind)
    PROVE  Typed([m EXCEPT !.salvage = @ - BuildingDefinitions[kind].salvageCost,
                     !.structures = Append(@, [kind |-> kind, node |-> node,
                              remainingBuildTicks |-> BuildingDefinitions[kind].buildTicks])])
<1> DEFINE cost == BuildingDefinitions[kind]
           s == m.structures
           b == [kind |-> kind, node |-> node, remainingBuildTicks |-> cost.buildTicks]
           t == Append(s, b)
           k == [m EXCEPT !.salvage = @ - cost.salvageCost, !.structures = t]
<1>1. /\ m \in MatchType /\ m.salvage \in Nat /\ s \in Seq(Structure) /\ DOMAIN m = Fields
      /\ OneEach(s)
  BY FieldTypes DEF Typed
<1>2. cost.salvageCost \in Nat /\ cost.buildTicks \in Nat /\ m.salvage >= cost.salvageCost
  BY DefinitionAssumption DEF CanBuildStructure, CanAfford
<1>3. b \in Structure /\ b.kind = kind /\ b.node = node
  BY <1>2 DEF Structure
<1>4. \A i \in DOMAIN s : ~(s[i].kind = kind /\ s[i].node = node)
  BY DEF CanBuildStructure
<1> HIDE DEF cost, b, s
<1>5. /\ t \in Seq(Structure) /\ DOMAIN t = 1 .. Len(s) + 1 /\ t[Len(s) + 1] = b
      /\ Len(s) \in Nat /\ DOMAIN s = 1 .. Len(s) /\ \A i \in 1 .. Len(s) : t[i] = s[i]
  BY <1>1, <1>3
<1> HIDE DEF t
<1>6. OneEach(t)
  <2> SUFFICES ASSUME NEW i \in 1 .. Len(s) + 1, NEW j \in 1 .. Len(s) + 1, i # j
               PROVE  t[i].kind # t[j].kind \/ t[i].node # t[j].node
    BY <1>5 DEF OneEach
  <2>1. CASE i \in 1 .. Len(s) /\ j \in 1 .. Len(s)
    BY <1>1, <1>5, <2>1 DEF OneEach
  <2>2. CASE i = Len(s) + 1 /\ j \in 1 .. Len(s)
    BY <1>3, <1>4, <1>5, <2>2
  <2>3. CASE j = Len(s) + 1 /\ i \in 1 .. Len(s)
    BY <1>3, <1>4, <1>5, <2>3
  <2>4. QED
    BY <1>5, <2>1, <2>2, <2>3
<1>7. m.salvage - cost.salvageCost \in Nat
  BY <1>1, <1>2
<1>8. k \in MatchType
  BY <1>1, <1>5, <1>7 DEF MatchType, Structure
<1>9. k.structures = t
  BY <1>1 DEF Fields
<1>10. QED
  BY <1>6, <1>8, <1>9 DEF Typed, k, t, s, b, cost

(* An order joins the queue of the bay, paid for.                           *)
LEMMA OrderTyped ==
    ASSUME NEW m, Typed(m), NEW kind \in UnitKind, CanProduceUnit(m, kind)
    PROVE  Typed([m EXCEPT !.salvage = @ - UnitDefinitions[kind].salvageCost,
                     !.production = Append(@, [kind |-> kind,
                              remainingTicks |-> UnitDefinitions[kind].buildTicks])])
<1> DEFINE cost == UnitDefinitions[kind]
           x == [kind |-> kind, remainingTicks |-> cost.buildTicks]
           q == Append(m.production, x)
           k == [m EXCEPT !.salvage = @ - cost.salvageCost, !.production = q]
<1>1. /\ m \in MatchType /\ m.salvage \in Nat /\ m.production \in Seq(UnitOrder)
      /\ DOMAIN m = Fields /\ OneEach(m.structures)
  BY FieldTypes DEF Typed
<1>2. cost.salvageCost \in Nat /\ cost.buildTicks \in Nat \ {0} /\ m.salvage >= cost.salvageCost
  BY DefinitionAssumption DEF CanProduceUnit
<1>3. x \in UnitOrder
  BY <1>2 DEF UnitOrder
<1> HIDE DEF cost, x
<1>4. q \in Seq(UnitOrder) /\ m.salvage - cost.salvageCost \in Nat
  BY <1>1, <1>2, <1>3
<1> HIDE DEF q
<1>5. k \in MatchType
  BY <1>1, <1>4 DEF MatchType, UnitOrder
<1>6. k.structures = m.structures
  BY <1>1 DEF Fields
<1>7. QED
  BY <1>1, <1>5, <1>6 DEF Typed, k, q, x, cost

(* An ability is charged for, and its effect and its cooldown begin.        *)
LEMMA AbilityTyped ==
    ASSUME NEW m, Typed(m), NEW a \in AbilityKind, CanActivateAbility(m, a)
    PROVE  Typed([m EXCEPT !.abilityCharge = @ - AbilityDefinitions[a].abilityChargeCost,
                     !.cooldown[a] = AbilityDefinitions[a].cooldownTicks,
                     !.duration[a] = AbilityDefinitions[a].durationTicks])
<1> DEFINE ability == AbilityDefinitions[a]
           cc == [m.cooldown EXCEPT ![a] = ability.cooldownTicks]
           dd == [m.duration EXCEPT ![a] = ability.durationTicks]
           left == m.abilityCharge - ability.abilityChargeCost
           k == [m EXCEPT !.abilityCharge = left, !.cooldown = cc, !.duration = dd]
<1>1. /\ m \in MatchType /\ m.abilityCharge \in 0 .. MaxCharge /\ MaxCharge \in Nat
      /\ m.cooldown \in [AbilityKind -> Nat] /\ m.duration \in [AbilityKind -> Nat]
      /\ DOMAIN m = Fields /\ OneEach(m.structures)
  BY FieldTypes, ScaleAssumption DEF Typed
<1>2. /\ ability.abilityChargeCost \in Nat /\ ability.cooldownTicks \in Nat
      /\ ability.durationTicks \in Nat /\ m.abilityCharge >= ability.abilityChargeCost
  BY DefinitionAssumption DEF CanActivateAbility
<1> HIDE DEF ability
<1>3. /\ cc \in [AbilityKind -> Nat] /\ dd \in [AbilityKind -> Nat]
      /\ left \in 0 .. MaxCharge
  BY <1>1, <1>2
<1>4. [m EXCEPT !.abilityCharge = @ - ability.abilityChargeCost,
               !.cooldown[a] = ability.cooldownTicks, !.duration[a] = ability.durationTicks] = k
  BY <1>1 DEF Fields
<1> HIDE DEF cc, dd, left
<1>5. k \in MatchType
  BY <1>1, <1>3 DEF MatchType
<1>6. k.structures = m.structures
  BY <1>1 DEF Fields
<1>7. Typed(k)
  BY <1>1, <1>5, <1>6 DEF Typed
<1> HIDE DEF k
<1>8. QED
  BY <1>4, <1>7 DEF ability

(* A pulse is charged for, and may fell the Spire.                          *)
LEMMA PulseTyped ==
    ASSUME NEW m, Typed(m), m.abilityCharge >= ArcPulseAbilityChargeCost, NEW fallen
    PROVE  Typed([m EXCEPT !.abilityCharge = @ - ArcPulseAbilityChargeCost,
                           !.standing = @ \ fallen])
<1> DEFINE left == m.abilityCharge - ArcPulseAbilityChargeCost
           k == [m EXCEPT !.abilityCharge = left, !.standing = @ \ fallen]
<1>1. /\ m \in MatchType /\ m.abilityCharge \in 0 .. MaxCharge /\ MaxCharge \in Nat
      /\ ArcPulseAbilityChargeCost \in Nat /\ m.standing \in SUBSET Base
      /\ DOMAIN m = Fields /\ OneEach(m.structures)
  BY FieldTypes, ScaleAssumption DEF Typed
<1>2. left \in 0 .. MaxCharge
  BY <1>1
<1> HIDE DEF left
<1>3. k \in MatchType
  BY <1>1, <1>2 DEF MatchType
<1>4. k.structures = m.structures
  BY <1>1 DEF Fields
<1>5. QED
  BY <1>1, <1>3, <1>4 DEF Typed, k, left

(* Every command keeps the match what it should be.                         *)
LEMMA CommandTyped ==
    ASSUME Typing, ExecuteCommand
    PROVE  Typing'
<1> DEFINE r == Head(commands).request
<1>1. Typed(match) /\ Waiting(commands) /\ stepping \in BOOLEAN
  BY DEF Typing
<1>2. commands # << >> /\ r.kind \in {"Restart", "TogglePause", "BuildStructure",
                                      "ProduceUnit", "ActivateAbility", "ArcPulse"}
  BY DEF ExecuteCommand, ExecuteRestart, ExecuteTogglePause, ExecuteBuildStructure,
       ExecuteProduceUnit, ExecuteActivateAbility, ExecuteArcPulse, Due, IsDue
<1>3. Waiting(Tail(commands)) /\ r \in Command
  <2>1. Waiting(Tail(commands)) /\ Head(commands) \in Given
    BY <1>1, <1>2, TailWaits
  <2>2. QED
    BY <2>1, ScaleAssumption DEF Given
<1>4. ASSUME NEW m, Typed(m), Obey(m) PROVE Typing'
  BY <1>1, <1>3, <1>4 DEF Obey, Typing
<1>5. CASE ExecuteRestart
  <2>1. Waiting(<< >>)
    BY DEF Waiting, InTurn
  <2>2. QED
    BY <1>5, <2>1, InitialMatchTyped DEF ExecuteRestart, Typing
<1>6. CASE ExecuteTogglePause
  <2> DEFINE k == [match EXCEPT !.paused = ~@]
  <2>1. match \in MatchType /\ DOMAIN match = Fields
    BY <1>1, FieldTypes DEF Typed
  <2>2. k \in MatchType
    BY <2>1 DEF MatchType
  <2>3. k.structures = match.structures
    BY <2>1 DEF Fields
  <2>4. Typed(k)
    BY <1>1, <2>2, <2>3 DEF Typed
  <2> HIDE DEF k
  <2>5. QED
    BY <1>4, <1>6, <2>4 DEF ExecuteTogglePause, k
<1>7. CASE ExecuteBuildStructure
  <2>1. r.node \in Nodes /\ r.structure \in StructureKind
    BY <1>3, <1>7 DEF ExecuteBuildStructure, Due, Command
  <2>2. QED
    BY <1>1, <1>4, <1>7, <2>1, BuildTyped DEF ExecuteBuildStructure
<1>8. CASE ExecuteProduceUnit
  <2>1. r.unit \in UnitKind
    BY <1>3, <1>8 DEF ExecuteProduceUnit, Due, Command
  <2>2. QED
    BY <1>1, <1>4, <1>8, <2>1, OrderTyped DEF ExecuteProduceUnit
<1>9. CASE ExecuteActivateAbility
  <2>1. r.ability \in AbilityKind
    BY <1>3, <1>9 DEF ExecuteActivateAbility, Due, Command
  <2>2. QED
    BY <1>1, <1>4, <1>9, <2>1, AbilityTyped DEF ExecuteActivateAbility
<1>10. CASE ExecuteArcPulse
  BY <1>1, <1>4, <1>10, PulseTyped DEF ExecuteArcPulse
<1>11. QED
  BY <1>5, <1>6, <1>7, <1>8, <1>9, <1>10 DEF ExecuteCommand

-----------------------------------------------------------------------------
(* Sums *)

SumUpTo(f, s, n) == f = [i \in 0 .. n |-> IF i = 0 THEN 0 ELSE f[i - 1] + s[i]]

LEMMA TotalIs ==
    ASSUME NEW s, Len(s) \in Nat
    PROVE  \E f : SumUpTo(f, s, Len(s)) /\ Total(s) = f[Len(s)]
<1> DEFINE S == {n \in Nat : \E f : SumUpTo(f, s, n)}
           sum == CHOOSE h : h = [i \in 0 .. Len(s) |-> IF i = 0 THEN 0 ELSE h[i - 1] + s[i]]
<1>1. 0 \in S
  <2>1. SumUpTo([i \in 0 .. 0 |-> 0], s, 0)
    BY DEF SumUpTo
  <2>2. QED
    BY <2>1
<1>2. ASSUME NEW n \in Nat, n \in S PROVE n + 1 \in S
  <2>1. PICK f : SumUpTo(f, s, n)
    BY <1>2
  <2> DEFINE next == f[n] + s[n + 1]
             g == [i \in 0 .. n + 1 |-> IF i = n + 1 THEN next ELSE f[i]]
  <2>2. ASSUME NEW i \in 0 .. n + 1
        PROVE  g[i] = IF i = 0 THEN 0 ELSE g[i - 1] + s[i]
    BY <2>1 DEF SumUpTo
  <2>3. SumUpTo(g, s, n + 1)
    BY <2>2 DEF SumUpTo
  <2>4. QED
    BY <2>3
<1>3. Len(s) \in S
  <2> HIDE DEF S
  <2>1. \A n \in Nat : n \in S => n + 1 \in S
    BY <1>2
  <2>2. Nat \subseteq S
    BY <1>1, <2>1, SetInduction, Zenon
  <2>3. QED
    BY <2>2
<1>4. SumUpTo(sum, s, Len(s))
  <2>1. \E h : SumUpTo(h, s, Len(s))
    BY <1>3
  <2>2. QED
    BY <2>1, Zenon DEF SumUpTo
<1>5. Total(s) = sum[Len(s)]
  BY Zenon DEF Total
<1>6. QED
  BY <1>4, <1>5

LEMMA SumSteps ==
    ASSUME NEW n \in Nat, NEW f, NEW s, SumUpTo(f, s, n)
    PROVE  f[0] = 0 /\ \A i \in Nat : i + 1 <= n => f[i + 1] = f[i] + s[i + 1]
<1>1. \A i \in 0 .. n : f[i] = IF i = 0 THEN 0 ELSE f[i - 1] + s[i]
  BY DEF SumUpTo
<1>2. ASSUME NEW i \in Nat, i + 1 <= n PROVE f[i + 1] = f[i] + s[i + 1]
  <2>1. i + 1 \in 0 .. n /\ i + 1 # 0 /\ (i + 1) - 1 = i
    BY <1>2
  <2>2. QED
    BY <1>1, <2>1
<1>3. QED
  BY <1>1, <1>2

Costs == Seq(Nat)

LEMMA CostTypes ==
    ASSUME NEW s \in Costs
    PROVE  Len(s) \in Nat /\ DOMAIN s = 1 .. Len(s) /\ \A i \in 1 .. Len(s) : s[i] \in Nat
BY DEF Costs

(* Costs none of which grew, but for one by c at most.                      *)
LEMMA TotalGrows ==
    ASSUME NEW s \in Costs, NEW t \in Costs, Len(s) = Len(t), NEW j, NEW c \in Nat,
           \A i \in 1 .. Len(t) : s[i] <= IF i = j THEN t[i] + c ELSE t[i]
    PROVE  Total(s) \in Nat /\ Total(t) \in Nat /\ Total(s) <= Total(t) + c
<1> DEFINE n == Len(t)
<1>1. n \in Nat /\ Len(s) = n /\ \A i \in 1 .. n : s[i] \in Nat /\ t[i] \in Nat
  BY CostTypes
<1>2. PICK f : SumUpTo(f, s, n) /\ Total(s) = f[n]
  BY <1>1, TotalIs
<1>3. PICK g : SumUpTo(g, t, n) /\ Total(t) = g[n]
  BY <1>1, TotalIs
<1> DEFINE grown(i) == IF j \in 1 .. i THEN c ELSE 0
           S == {i \in Nat : i <= n => f[i] \in Nat /\ g[i] \in Nat /\ f[i] <= g[i] + grown(i)}
<1> HIDE DEF n
<1>4. 0 \in S
  BY <1>1, <1>2, <1>3 DEF SumUpTo
<1>5. ASSUME NEW i \in Nat, i \in S PROVE i + 1 \in S
  <2> SUFFICES ASSUME i + 1 <= n
               PROVE  /\ f[i + 1] \in Nat /\ g[i + 1] \in Nat
                      /\ f[i + 1] <= g[i + 1] + grown(i + 1)
    OBVIOUS
  <2>1. f[i] \in Nat /\ g[i] \in Nat /\ f[i] <= g[i] + grown(i)
    BY <1>1, <1>5
  <2>2. i + 1 \in 1 .. n /\ i + 1 \in 0 .. n /\ (i + 1) - 1 = i
    BY <1>1
  <2>3. f[i + 1] = f[i] + s[i + 1] /\ g[i + 1] = g[i] + t[i + 1]
    BY <1>1, <1>2, <1>3, SumSteps
  <2>4. /\ s[i + 1] \in Nat /\ t[i + 1] \in Nat
        /\ s[i + 1] <= IF i + 1 = j THEN t[i + 1] + c ELSE t[i + 1]
    BY <1>1, <2>2 DEF n
  <2>5. grown(i + 1) = IF i + 1 = j THEN grown(i) + c ELSE grown(i)
    BY <2>2
  <2>6. grown(i) \in Nat
    OBVIOUS
  <2> HIDE DEF grown
  <2>7. f[i + 1] \in Nat /\ g[i + 1] \in Nat
    BY <2>1, <2>3, <2>4, SMTT(20)
  <2>8. CASE i + 1 = j
    <3>1. s[i + 1] <= t[i + 1] + c /\ grown(i + 1) = grown(i) + c
      BY <2>4, <2>5, <2>8
    <3>2. f[i] + s[i + 1] <= (g[i] + t[i + 1]) + (grown(i) + c)
      <4> DEFINE a == f[i]  b == g[i]  x == s[i + 1]  y == t[i + 1]  e == grown(i)
      <4>1. a \in Nat /\ b \in Nat /\ x \in Nat /\ y \in Nat /\ e \in Nat
            /\ a <= b + e /\ x <= y + c
        BY <2>1, <2>4, <2>6, <3>1
      <4> HIDE DEF a, b, x, y, e
      <4>2. a + x <= (b + y) + (e + c)
        BY <4>1
      <4>3. QED
        BY <4>2 DEF a, b, x, y, e
    <3>3. QED
      BY <2>3, <2>7, <3>1, <3>2
  <2>9. CASE i + 1 # j
    BY <2>1, <2>3, <2>4, <2>5, <2>6, <2>7, <2>9, SMTT(20)
  <2>10. QED
    BY <2>7, <2>8, <2>9
<1>6. Nat \subseteq S
  <2> HIDE DEF S
  <2>1. \A i \in Nat : i \in S => i + 1 \in S
    BY <1>5
  <2>2. QED
    BY <1>4, <2>1, SetInduction, Zenon
<1>7. f[n] \in Nat /\ g[n] \in Nat /\ f[n] <= g[n] + grown(n)
  BY <1>1, <1>6
<1>8. QED
  BY <1>2, <1>3, <1>7

LEMMA TotalAppended ==
    ASSUME NEW s \in Costs, NEW x \in Nat
    PROVE  Total(Append(s, x)) = Total(s) + x
<1> DEFINE n == Len(s)
           t == Append(s, x)
<1>1. /\ n \in Nat /\ t \in Costs /\ Len(t) = n + 1
      /\ t[n + 1] = x /\ \A i \in 1 .. n : t[i] = s[i] /\ s[i] \in Nat
  BY DEF Costs
<1> HIDE DEF t
<1>2. PICK f : SumUpTo(f, s, n) /\ Total(s) = f[n]
  BY <1>1, TotalIs
<1>3. PICK g : SumUpTo(g, t, n + 1) /\ Total(t) = g[n + 1]
  <2>1. n + 1 \in Nat
    BY <1>1
  <2>2. QED
    BY <1>1, <2>1, TotalIs
<1> DEFINE S == {i \in Nat : i <= n => f[i] = g[i]}
<1> HIDE DEF n
<1>4. 0 \in S
  BY <1>1, <1>2, <1>3 DEF SumUpTo
<1>5. ASSUME NEW i \in Nat, i \in S PROVE i + 1 \in S
  <2> SUFFICES ASSUME i + 1 <= n PROVE f[i + 1] = g[i + 1]
    OBVIOUS
  <2>1. i + 1 \in 1 .. n /\ i + 1 <= n + 1 /\ n + 1 \in Nat
    BY <1>1
  <2>2. f[i + 1] = f[i] + s[i + 1] /\ g[i + 1] = g[i] + t[i + 1]
    BY <1>1, <1>2, <1>3, <2>1, SumSteps
  <2>3. QED
    BY <1>1, <1>5, <2>1, <2>2
<1>6. Nat \subseteq S
  <2> HIDE DEF S
  <2>1. \A i \in Nat : i \in S => i + 1 \in S
    BY <1>5
  <2>2. QED
    BY <1>4, <2>1, SetInduction, Zenon
<1>7. f[n] = g[n]
  BY <1>1, <1>6
<1>8. g[n + 1] = g[n] + t[n + 1]
  <2>1. n \in Nat /\ n + 1 \in Nat /\ n + 1 <= n + 1
    BY <1>1
  <2>2. QED
    BY <1>3, <2>1, SumSteps
<1>9. QED
  BY <1>1, <1>2, <1>3, <1>7, <1>8 DEF t

LEMMA TotalOfTail ==
    ASSUME NEW s \in Costs, NEW t \in Costs, Len(s) = Len(t) + 1,
           \A i \in 1 .. Len(t) : t[i] = s[i + 1]
    PROVE  s[1] \in Nat /\ Total(s) = s[1] + Total(t)
<1> DEFINE n == Len(s)
<1>1. /\ n \in Nat /\ n >= 1 /\ Len(t) = n - 1 /\ n - 1 \in Nat
      /\ (\A i \in 1 .. n : s[i] \in Nat) /\ \A i \in 1 .. n - 1 : t[i] = s[i + 1]
  BY CostTypes
<1>2. PICK f : SumUpTo(f, s, n) /\ Total(s) = f[n]
  BY <1>1, TotalIs
<1>3. PICK g : SumUpTo(g, t, n - 1) /\ Total(t) = g[n - 1]
  BY <1>1, TotalIs
<1> DEFINE S == {i \in Nat : i <= n - 1 => g[i] \in Nat /\ f[i + 1] = s[1] + g[i]}
<1> HIDE DEF n
<1>4. 0 \in S
  <2>1. 0 \in 0 .. n /\ 1 \in 0 .. n /\ 1 \in 1 .. n /\ 1 - 1 = 0 /\ 0 + 1 = 1 /\ 0 \in 0 .. n - 1
    BY <1>1
  <2>2. f[0] = 0 /\ f[1] = f[0] + s[1] /\ g[0] = 0
    BY <1>2, <1>3, <2>1 DEF SumUpTo
  <2>3. QED
    BY <1>1, <2>1, <2>2
<1>5. ASSUME NEW i \in Nat, i \in S PROVE i + 1 \in S
  <2> SUFFICES ASSUME i + 1 <= n - 1
               PROVE  g[i + 1] \in Nat /\ f[(i + 1) + 1] = s[1] + g[i + 1]
    OBVIOUS
  <2>1. g[i] \in Nat /\ f[i + 1] = s[1] + g[i]
    BY <1>1, <1>5
  <2>2. i + 1 \in 1 .. n - 1 /\ i + 1 \in Nat /\ (i + 1) + 1 <= n /\ (i + 1) + 1 \in 1 .. n
    BY <1>1
  <2>3. f[(i + 1) + 1] = f[i + 1] + s[(i + 1) + 1] /\ g[i + 1] = g[i] + t[i + 1]
    <3>1. f[(i + 1) + 1] = f[i + 1] + s[(i + 1) + 1]
      BY <1>1, <1>2, <2>2, SumSteps
    <3>2. g[i + 1] = g[i] + t[i + 1]
      BY <1>1, <1>3, <2>2, SumSteps
    <3>3. QED
      BY <3>1, <3>2
  <2>4. t[i + 1] = s[(i + 1) + 1] /\ s[(i + 1) + 1] \in Nat /\ s[1] \in Nat
    BY <1>1, <2>2
  <2>5. QED
    BY <2>1, <2>3, <2>4
<1>6. Nat \subseteq S
  <2> HIDE DEF S
  <2>1. \A i \in Nat : i \in S => i + 1 \in S
    BY <1>5
  <2>2. QED
    BY <1>4, <2>1, SetInduction, Zenon
<1>7. f[n] = s[1] + g[n - 1]
  <2>1. n - 1 \in S /\ (n - 1) + 1 = n
    BY <1>1, <1>6
  <2>2. QED
    BY <1>1, <2>1
<1>8. s[1] \in Nat
  BY <1>1
<1>9. QED
  BY <1>2, <1>3, <1>7, <1>8

-----------------------------------------------------------------------------
(* What the grid carries *)

(* Every kind of unit is counted once.                                      *)
LEMMA KindsAre ==
    /\ Cardinality(UnitKind) \in Nat /\ Len(Kinds) = Cardinality(UnitKind)
    /\ Kinds \in [1 .. Len(Kinds) -> UnitKind]
    /\ \A i, j \in 1 .. Len(Kinds) : Kinds[i] = Kinds[j] => i = j
<1> DEFINE n == Cardinality(UnitKind)
           F == [1 .. n -> UnitKind]
<1>1. n \in Nat /\ ExistsBijection(1 .. n, UnitKind)
  BY DefinitionAssumption, FS_CardinalityType
<1>2. \E f \in F : IsInjective(f)
  BY <1>1 DEF ExistsBijection, Bijection, Injection
<1>3. Kinds \in F /\ IsInjective(Kinds)
  BY <1>2, Zenon DEF Kinds, SetToSeq
<1> HIDE DEF n
<1>4. DOMAIN Kinds = 1 .. n /\ Len(Kinds) = n
  BY <1>1, <1>3
<1>5. QED
  BY <1>1, <1>3, <1>4 DEF IsInjective, n

LEMMA UnitCost ==
    ASSUME NEW kind \in UnitKind
    PROVE  UnitDefinitions[kind].capacityCost \in Nat
BY DefinitionAssumption

(* A product of two numbers is a number, and grows with its first.          *)
LEMMA Products ==
    ASSUME NEW a \in Nat, NEW b \in Nat, NEW c \in Nat, NEW d \in Nat, a <= b + d
    PROVE  a * c \in Nat /\ b * c \in Nat /\ d * c \in Nat /\ a * c <= b * c + d * c
<1>1. (b + d) * c = b * c + d * c
  OBVIOUS
<1>2. a * c <= (b + d) * c
  OBVIOUS
<1>3. QED
  BY <1>1, <1>2

LEMMA LiveCostsAre ==
    ASSUME NEW m \in MatchType
    PROVE  /\ LiveCosts(m) \in Costs /\ Len(LiveCosts(m)) = Len(Kinds)
           /\ \A i \in 1 .. Len(Kinds) :
                 /\ Kinds[i] \in UnitKind /\ m.units[Kinds[i]] \in Nat
                 /\ LiveCosts(m)[i] = m.units[Kinds[i]] * UnitDefinitions[Kinds[i]].capacityCost
<1> DEFINE n == Len(Kinds)
           s == LiveCosts(m)
<1>1. n \in Nat /\ DOMAIN Kinds = 1 .. n /\ \A i \in 1 .. n : Kinds[i] \in UnitKind
  BY KindsAre
<1>2. m.units \in [UnitKind -> Nat]
  BY FieldTypes
<1>3. ASSUME NEW i \in 1 .. n
      PROVE  /\ Kinds[i] \in UnitKind /\ m.units[Kinds[i]] \in Nat
             /\ s[i] = m.units[Kinds[i]] * UnitDefinitions[Kinds[i]].capacityCost
             /\ s[i] \in Nat
  <2>1. Kinds[i] \in UnitKind /\ m.units[Kinds[i]] \in Nat
    BY <1>1, <1>2
  <2>2. UnitDefinitions[Kinds[i]].capacityCost \in Nat
    BY <2>1, UnitCost
  <2>3. s[i] = m.units[Kinds[i]] * UnitDefinitions[Kinds[i]].capacityCost
    BY <1>1 DEF LiveCosts
  <2>4. m.units[Kinds[i]] <= m.units[Kinds[i]] + 0
    BY <2>1
  <2>5. QED
    BY <2>1, <2>2, <2>3, <2>4, Products
<1>4. s = [i \in 1 .. n |-> s[i]]
  BY <1>1 DEF LiveCosts
<1> HIDE DEF s, n
<1>5. s \in Costs /\ Len(s) = n
  BY <1>1, <1>3, <1>4 DEF Costs
<1>6. QED
  BY <1>3, <1>5 DEF s, n

LEMMA QueuedCostsAre ==
    ASSUME NEW m \in MatchType
    PROVE  /\ QueuedCosts(m) \in Costs /\ Len(QueuedCosts(m)) = Len(m.production)
           /\ Len(m.production) \in Nat
           /\ \A i \in 1 .. Len(m.production) :
                 /\ m.production[i].kind \in UnitKind
                 /\ QueuedCosts(m)[i] = UnitDefinitions[m.production[i].kind].capacityCost
<1> DEFINE q == m.production
           n == Len(q)
           s == QueuedCosts(m)
<1>1. q \in Seq(UnitOrder)
  BY FieldTypes
<1>2. n \in Nat /\ DOMAIN q = 1 .. n /\ \A i \in 1 .. n : q[i].kind \in UnitKind
  <2>1. n \in Nat /\ DOMAIN q = 1 .. n /\ \A i \in 1 .. n : q[i] \in UnitOrder
    BY <1>1
  <2>2. QED
    BY <2>1 DEF UnitOrder
<1>3. s = [i \in 1 .. n |-> UnitDefinitions[q[i].kind].capacityCost]
  BY <1>2 DEF QueuedCosts
<1> HIDE DEF s, q, n
<1>4. s \in Costs /\ Len(s) = n
  BY <1>2, <1>3, UnitCost DEF Costs
<1>5. QED
  BY <1>2, <1>3, <1>4 DEF s, q, n

LEMMA CapacityTypes ==
    ASSUME NEW m \in MatchType
    PROVE  /\ Total(LiveCosts(m)) \in Nat /\ Total(QueuedCosts(m)) \in Nat
           /\ UsedFreegridCapacity(m) \in Nat /\ FreegridCapacity(m) \in Nat
<1>1. ASSUME NEW s \in Costs PROVE Total(s) \in Nat
  <2>1. \A i \in 1 .. Len(s) : s[i] <= IF i = 0 THEN s[i] + 0 ELSE s[i]
    BY CostTypes
  <2>2. QED
    BY <2>1, TotalGrows
<1>2. Total(LiveCosts(m)) \in Nat /\ Total(QueuedCosts(m)) \in Nat
  BY <1>1, LiveCostsAre, QueuedCostsAre
<1> DEFINE s == m.structures
           provided == [i \in DOMAIN s |-> ProvidedBy(s[i])]
<1>3. s \in Seq(Structure) /\ DOMAIN s = 1 .. Len(s) /\ Len(s) \in Nat
  BY FieldTypes
<1>4. ASSUME NEW i \in 1 .. Len(s) PROVE ProvidedBy(s[i]) \in Nat
  <2>1. s[i].kind \in StructureKind
    <3>1. s[i] \in Structure
      BY <1>3
    <3>2. QED
      BY <3>1 DEF Structure
  <2>2. BuildingDefinitions[s[i].kind].capacityProvided \in Nat
    BY <2>1, DefinitionAssumption
  <2>3. QED
    BY <2>2 DEF ProvidedBy
<1>5. provided \in Costs
  BY <1>3, <1>4 DEF Costs
<1>6. BaseCapacity(m, "RelayCore") \in Nat /\ BaseCapacity(m, "FabricatorBay") \in Nat
  BY DefinitionAssumption DEF BaseCapacity, Base
<1>7. Total(provided) \in Nat
  BY <1>1, <1>5
<1>8. FreegridCapacity(m) \in Nat
  BY <1>6, <1>7 DEF FreegridCapacity
<1>9. QED
  BY <1>2, <1>8 DEF UsedFreegridCapacity

(* Units that did not grow in number, but for one kind by so many at most.  *)
LEMMA LiveCostsGrow ==
    ASSUME NEW m \in MatchType, NEW k \in MatchType, NEW kind \in UnitKind, NEW more \in Nat,
           \A u \in UnitKind : k.units[u] <= m.units[u] + (IF u = kind THEN more ELSE 0)
    PROVE  Total(LiveCosts(k)) <=
              Total(LiveCosts(m)) + more * UnitDefinitions[kind].capacityCost
<1> DEFINE s == LiveCosts(k)
           t == LiveCosts(m)
           n == Len(Kinds)
           cost(u) == UnitDefinitions[u].capacityCost
           c == more * cost(kind)
           j == CHOOSE i \in 1 .. n : Kinds[i] = kind
<1>1. s \in Costs /\ t \in Costs /\ Len(s) = n /\ Len(t) = n
  BY LiveCostsAre
<1>2. c \in Nat
  <2>1. more <= more + 0
    OBVIOUS
  <2>2. QED
    BY <2>1, UnitCost, Products
<1>3. ASSUME NEW i \in 1 .. n
      PROVE  s[i] <= IF i = j THEN t[i] + c ELSE t[i]
  <2> DEFINE u == Kinds[i]
             d == IF u = kind THEN more ELSE 0
  <2>1. /\ u \in UnitKind /\ k.units[u] \in Nat /\ m.units[u] \in Nat
        /\ s[i] = k.units[u] * cost(u) /\ t[i] = m.units[u] * cost(u)
    BY LiveCostsAre
  <2>2. cost(u) \in Nat /\ d \in Nat /\ k.units[u] <= m.units[u] + d
    BY <2>1, UnitCost
  <2>3. s[i] <= t[i] + d * cost(u) /\ t[i] \in Nat /\ s[i] \in Nat
    <3> HIDE DEF d, cost, u
    <3>1. /\ k.units[u] * cost(u) \in Nat /\ m.units[u] * cost(u) \in Nat
          /\ k.units[u] * cost(u) <= m.units[u] * cost(u) + d * cost(u)
      BY <2>1, <2>2, Products
    <3>2. QED
      BY <2>1, <3>1
  <2>4. CASE u = kind
    <3>1. j \in 1 .. n /\ Kinds[j] = kind
      BY <2>4
    <3>2. i = j
      BY <2>4, <3>1, KindsAre
    <3>3. QED
      BY <2>3, <2>4, <3>2
  <2>5. CASE u # kind
    <3>1. d * cost(u) = 0
      BY <2>2, <2>5
    <3>2. QED
      BY <1>2, <2>3, <3>1
  <2>6. QED
    BY <2>4, <2>5
<1> HIDE DEF s, t, c, j
<1>4. Total(s) <= Total(t) + c
  BY <1>1, <1>2, <1>3, TotalGrows
<1>5. QED
  BY <1>4 DEF s, t, c

(* An order that is completed becomes a unit, and one that is dropped frees *)
(* what it had reserved.                                                    *)
LEMMA ConstructionUses ==
    ASSUME NEW m, Typed(m)
    PROVE  UsedFreegridCapacity(UpdateConstructionAndProduction(m)) <= UsedFreegridCapacity(m)
<1> DEFINE built == UpdateConstructionAndProduction(m)
           q == m.production
           order == Head(q)
<1>1. m \in MatchType /\ DOMAIN m = Fields /\ built \in MatchType
  BY ConstructionTyped, FieldTypes DEF Typed
<1>2. /\ Total(LiveCosts(m)) \in Nat /\ Total(QueuedCosts(m)) \in Nat
      /\ Total(LiveCosts(built)) \in Nat /\ Total(QueuedCosts(built)) \in Nat
  BY <1>1, CapacityTypes
<1>3. q \in Seq(UnitOrder) /\ m.units \in [UnitKind -> Nat]
  BY <1>1, FieldTypes
<1>4. CASE q = << >>
  <2>1. built.units = m.units /\ built.production = m.production
    BY <1>1, <1>4 DEF UpdateConstructionAndProduction, Fields
  <2>2. UsedFreegridCapacity(built) = UsedFreegridCapacity(m)
    BY <2>1 DEF UsedFreegridCapacity, LiveCosts, QueuedCosts
  <2>3. QED
    BY <1>1, <2>2, CapacityTypes
<1>5. CASE q # << >>
  <2>1. order \in UnitOrder /\ order = q[1] /\ order.kind \in UnitKind
    <3>1. order \in UnitOrder /\ order = q[1]
      BY <1>3, <1>5
    <3>2. QED
      BY <3>1 DEF UnitOrder
  <2> DEFINE cost == UnitDefinitions[order.kind].capacityCost
             s == QueuedCosts(m)
  <2>2. cost \in Nat
    BY <2>1, UnitCost
  <2>3. s \in Costs /\ s[1] = cost
    <3>1. Len(q) >= 1 /\ Len(q) \in Nat
      BY <1>3, <1>5
    <3>2. QED
      BY <1>1, <2>1, <3>1, QueuedCostsAre
  <2>4. ASSUME built.production = Tail(q)
        PROVE  Total(s) = cost + Total(QueuedCosts(built))
    <3> DEFINE t == QueuedCosts(built)
               p == built.production
    <3>1. Len(p) = Len(q) - 1 /\ \A i \in 1 .. Len(q) - 1 : p[i] = q[i + 1]
      BY <1>3, <1>5, <2>4
    <3>2. /\ t \in Costs /\ Len(t) = Len(p)
          /\ \A i \in 1 .. Len(p) : t[i] = UnitDefinitions[p[i].kind].capacityCost
      BY <1>1, QueuedCostsAre
    <3>3. /\ Len(s) = Len(q) /\ Len(q) \in Nat
          /\ \A i \in 1 .. Len(q) : s[i] = UnitDefinitions[q[i].kind].capacityCost
      BY <1>1, QueuedCostsAre
    <3> HIDE DEF s, t, p, built, q
    <3>4. Len(s) = Len(t) + 1 /\ \A i \in 1 .. Len(t) : t[i] = s[i + 1]
      BY <3>1, <3>2, <3>3
    <3>5. QED
      BY <2>3, <3>2, <3>4, TotalOfTail DEF t
  <2>6. CASE built.units = m.units /\ built.production = Tail(q)
    <3>1. LiveCosts(built) = LiveCosts(m)
      BY <2>6 DEF LiveCosts
    <3>2. Total(QueuedCosts(built)) <= Total(QueuedCosts(m))
      BY <1>2, <2>2, <2>4, <2>6
    <3>3. QED
      BY <1>2, <3>1, <3>2 DEF UsedFreegridCapacity
  <2>7. CASE /\ built.units = [m.units EXCEPT ![order.kind] = @ + 1]
             /\ built.production = Tail(q)
    <3>1. \A u \in UnitKind : built.units[u] <= m.units[u] + (IF u = order.kind THEN 1 ELSE 0)
      BY <1>3, <2>1, <2>7
    <3>2. Total(LiveCosts(built)) <= Total(LiveCosts(m)) + 1 * cost
      BY <1>1, <2>1, <3>1, LiveCostsGrow
    <3>3. Total(LiveCosts(built)) <= Total(LiveCosts(m)) + cost
      BY <2>2, <3>2
    <3>4. Total(s) = cost + Total(QueuedCosts(built))
      BY <2>4, <2>7
    <3> HIDE DEF cost
    <3>5. QED
      BY <1>2, <2>2, <3>3, <3>4 DEF UsedFreegridCapacity
  <2>8. CASE /\ built.units = m.units
             /\ built.production = [q EXCEPT ![1].remainingTicks = @ - 1]
    <3> DEFINE p == built.production
    <3>1. DOMAIN p = DOMAIN q /\ \A i \in DOMAIN q : p[i].kind = q[i].kind
      BY <1>3, <1>5, <2>1, <2>8 DEF UnitOrder
    <3>2. QueuedCosts(built) = QueuedCosts(m)
      BY <3>1 DEF QueuedCosts
    <3>3. LiveCosts(built) = LiveCosts(m)
      BY <2>8 DEF LiveCosts
    <3>4. QED
      BY <1>2, <3>2, <3>3 DEF UsedFreegridCapacity
  <2>9. \/ built.units = m.units /\ built.production = Tail(q)
        \/ /\ built.units = [m.units EXCEPT ![order.kind] = @ + 1]
           /\ built.production = Tail(q)
        \/ /\ built.units = m.units
           /\ built.production = [q EXCEPT ![1].remainingTicks = @ - 1]
    BY <1>1, <1>5 DEF UpdateConstructionAndProduction, Fields
  <2>10. QED
    BY <2>6, <2>7, <2>8, <2>9
<1>6. QED
  BY <1>4, <1>5

(* Combat only takes away, and nothing else in a tick changes what is used. *)
LEMMA TickUses ==
    ASSUME Typed(match), Tick, Typed(match')
    PROVE  UsedFreegridCapacity(match') <= UsedFreegridCapacity(match)
<1> DEFINE built == UpdateConstructionAndProduction(match)
<1>1. Typed(built) /\ built \in MatchType /\ DOMAIN built = Fields
  BY ConstructionTyped, FieldTypes DEF Typed
<1>2. PICK freegrid, chorus, spent, units, standing, spots :
         /\ units \in {u \in [UnitKind -> UNION {0 .. built.units[k] : k \in UnitKind}] :
                          \A k \in UnitKind : u[k] <= built.units[k]}
         /\ match' = UpdateOutcome(UpdateEconomy(UpdateAbilities(Survivors(
              [UpdateMovementAndCapture(built, freegrid, chorus) EXCEPT !.salvage = @ - spent],
              units, standing, spots))))
  BY Zenon DEF Tick
<1> DEFINE captured == UpdateMovementAndCapture(built, freegrid, chorus)
           repaired == [captured EXCEPT !.salvage = @ - spent]
           fought == Survivors(repaired, units, standing, spots)
           able == UpdateAbilities(fought)
           paid == UpdateEconomy(able)
<1> HIDE DEF built
<1>3. DOMAIN captured = Fields /\ captured.production = built.production
  BY <1>1 DEF UpdateMovementAndCapture, Fields
<1>4. DOMAIN repaired = Fields /\ repaired.production = built.production
  <2> HIDE DEF captured
  <2>1. QED
    BY <1>3 DEF Fields
<1>5. DOMAIN fought = Fields /\ fought.production = built.production /\ fought.units = units
  <2> HIDE DEF repaired
  <2>1. QED
    BY <1>4 DEF Survivors, Fields
<1>6. DOMAIN able = Fields /\ able.production = built.production /\ able.units = units
  <2> HIDE DEF fought
  <2>1. QED
    BY <1>5 DEF UpdateAbilities, Fields
<1>7. DOMAIN paid = Fields /\ paid.production = built.production /\ paid.units = units
  <2> HIDE DEF able
  <2>1. QED
    BY <1>6 DEF UpdateEconomy, Fields
<1>8. match'.production = built.production /\ match'.units = units
  <2>1. match' = UpdateOutcome(paid)
    BY <1>2
  <2> HIDE DEF paid
  <2>2. QED
    BY <1>7, <2>1 DEF UpdateOutcome, Fields
<1>9. Total(QueuedCosts(match')) = Total(QueuedCosts(built))
  BY <1>8 DEF QueuedCosts
<1>10. Rig \in UnitKind /\ match' \in MatchType /\ match \in MatchType
  BY DefinitionAssumption DEF Typed
<1>11. Total(LiveCosts(match')) <= Total(LiveCosts(built))
  <2>1. \A u \in UnitKind : match'.units[u] \in Nat /\ built.units[u] \in Nat
    BY <1>1, <1>10, FieldTypes
  <2>2. \A u \in UnitKind : match'.units[u] <= built.units[u]
    BY <1>2, <1>8
  <2>3. \A u \in UnitKind :
           match'.units[u] <= built.units[u] + (IF u = Rig THEN 0 ELSE 0)
    BY <2>1, <2>2
  <2>4. Total(LiveCosts(match')) <=
           Total(LiveCosts(built)) + 0 * UnitDefinitions[Rig].capacityCost
    BY <1>1, <1>10, <2>3, LiveCostsGrow
  <2>5. 0 * UnitDefinitions[Rig].capacityCost = 0
    BY <1>10, UnitCost
  <2>6. QED
    BY <1>1, <2>4, <2>5, CapacityTypes
<1>12. UsedFreegridCapacity(match') <= UsedFreegridCapacity(built)
  <2>1. /\ Total(LiveCosts(match')) \in Nat /\ Total(LiveCosts(built)) \in Nat
        /\ Total(QueuedCosts(built)) \in Nat
    BY <1>1, <1>10, CapacityTypes
  <2>2. QED
    BY <1>9, <1>11, <2>1 DEF UsedFreegridCapacity
<1>13. /\ UsedFreegridCapacity(match') \in Nat /\ UsedFreegridCapacity(match) \in Nat
       /\ UsedFreegridCapacity(built) \in Nat
  BY <1>1, <1>10, CapacityTypes
<1>14. UsedFreegridCapacity(built) <= UsedFreegridCapacity(match)
  BY ConstructionUses DEF built
<1>15. QED
  BY <1>12, <1>13, <1>14

(* An order is taken only when there is room for it.                        *)
LEMMA OrderFits ==
    ASSUME NEW m, Typed(m), NEW kind \in UnitKind, CanProduceUnit(m, kind)
    PROVE  LET k == [m EXCEPT !.salvage = @ - UnitDefinitions[kind].salvageCost,
                        !.production = Append(@, [kind |-> kind,
                                 remainingTicks |-> UnitDefinitions[kind].buildTicks])]
           IN  UsedFreegridCapacity(k) <= FreegridCapacity(k)
<1> DEFINE q == m.production
           x == [kind |-> kind, remainingTicks |-> UnitDefinitions[kind].buildTicks]
           k == [m EXCEPT !.salvage = @ - UnitDefinitions[kind].salvageCost,
                          !.production = Append(@, x)]
           cost == UnitDefinitions[kind].capacityCost
<1>1. m \in MatchType /\ DOMAIN m = Fields /\ q \in Seq(UnitOrder)
  BY FieldTypes DEF Typed
<1>2. k.units = m.units /\ k.standing = m.standing /\ k.structures = m.structures
      /\ k.production = Append(q, x)
  BY <1>1 DEF Fields
<1>3. Len(Append(q, x)) = Len(q) + 1 /\ Append(q, x)[Len(q) + 1] = x /\ Len(q) \in Nat
      /\ DOMAIN Append(q, x) = 1 .. Len(q) + 1 /\ \A i \in 1 .. Len(q) : Append(q, x)[i] = q[i]
  BY <1>1
<1>4. cost \in Nat /\ x.kind = kind
  BY UnitCost
<1>5. /\ QueuedCosts(m) \in Costs /\ Len(QueuedCosts(m)) = Len(q)
      /\ \A i \in 1 .. Len(q) : QueuedCosts(m)[i] = UnitDefinitions[q[i].kind].capacityCost
  BY <1>1, QueuedCostsAre
<1>6. QueuedCosts(k) = Append(QueuedCosts(m), cost)
  <2> DEFINE s == QueuedCosts(m)
             t == Append(s, cost)
  <2>1. t \in Costs /\ Len(t) = Len(q) + 1 /\ t[Len(q) + 1] = cost
        /\ \A i \in 1 .. Len(q) : t[i] = s[i]
    BY <1>4, <1>5 DEF Costs
  <2>2. t = [i \in 1 .. Len(q) + 1 |-> t[i]]
    BY <1>3, <2>1 DEF Costs
  <2>3. QueuedCosts(k) =
           [i \in 1 .. Len(q) + 1 |-> UnitDefinitions[Append(q, x)[i].kind].capacityCost]
    BY <1>2, <1>3 DEF QueuedCosts
  <2>4. \A i \in 1 .. Len(q) + 1 : UnitDefinitions[Append(q, x)[i].kind].capacityCost = t[i]
    <3> TAKE i \in 1 .. Len(q) + 1
    <3> HIDE DEF t, x, s
    <3>1. CASE i = Len(q) + 1
      BY <1>3, <1>4, <2>1, <3>1
    <3>2. CASE i \in 1 .. Len(q)
      BY <1>3, <1>5, <2>1, <3>2 DEF s
    <3>3. QED
      BY <1>3, <3>1, <3>2
  <2> HIDE DEF t, k, x
  <2>5. QED
    BY <2>2, <2>3, <2>4, Zenon DEF t
<1>7. Total(QueuedCosts(k)) = Total(QueuedCosts(m)) + cost
  BY <1>4, <1>5, <1>6, TotalAppended
<1>8. LiveCosts(k) = LiveCosts(m) /\ FreegridCapacity(k) = FreegridCapacity(m)
  BY <1>2 DEF LiveCosts, FreegridCapacity, BaseCapacity
<1>9. UsedFreegridCapacity(m) + cost <= FreegridCapacity(m)
  BY DEF CanProduceUnit
<1> HIDE DEF k, cost
<1>10. Total(LiveCosts(m)) \in Nat /\ Total(QueuedCosts(m)) \in Nat
  BY <1>1, CapacityTypes
<1>11. UsedFreegridCapacity(k) <= FreegridCapacity(k)
  BY <1>4, <1>7, <1>8, <1>9, <1>10 DEF UsedFreegridCapacity
<1>12. QED
  BY <1>11 DEF k, cost

-----------------------------------------------------------------------------
(* The match *)

Rules == MatchInv(match)

(* Every step keeps the rules.                                              *)
LEMMA MatchStep == Rules /\ [Next]_vars => Rules'
<1> SUFFICES ASSUME MatchInv(match), [Next]_vars PROVE MatchInv(match')
  BY DEF Rules
<1>1. CASE match' = match
  BY <1>1
<1>2. CASE Reset
  BY <1>2, InitialMatchInv DEF Reset
<1>3. CASE ExecuteCommand
  BY <1>3, CommandRules
<1>4. CASE Tick
  BY <1>4, TickRules
<1>5. QED
  BY <1>1, <1>2, <1>3, <1>4 DEF Next, vars, Submit, BeginStep, EndStep

(* And the rules hold in the beginning.                                     *)
LEMMA MatchStart == Init => Rules
BY InitialMatchInv DEF Init, Rules

(* Every step keeps the types.                                              *)
LEMMA TypingStep == Typing /\ [Next]_vars => Typing'
<1> SUFFICES ASSUME Typing, [Next]_vars PROVE Typing'
  OBVIOUS
<1>1. Typed(match) /\ Waiting(commands) /\ stepping \in BOOLEAN
  BY DEF Typing
<1>2. CASE UNCHANGED vars
  BY <1>1, <1>2 DEF vars, Typing
<1>3. ASSUME NEW request \in Requests, NEW delay \in 0 .. MaxDelay, Submit(request, delay)
      PROVE  Typing'
  <2>1. Waiting(commands')
    BY <1>1, <1>3, SubmitWaits
  <2>2. QED
    BY <1>1, <1>3, <2>1 DEF Submit, Typing
<1>4. CASE Reset
  <2>1. Waiting(<< >>)
    BY DEF Waiting, InTurn
  <2>2. QED
    BY <1>1, <1>4, <2>1, InitialMatchTyped DEF Reset, Typing
<1>5. CASE BeginStep \/ EndStep
  BY <1>1, <1>5 DEF BeginStep, EndStep, Typing
<1>6. CASE ExecuteCommand
  BY <1>6, CommandTyped
<1>7. CASE Tick
  <2>1. Typed(match') /\ Waiting(commands')
    BY <1>1, <1>7, TickTyped, TickWaits
  <2>2. stepping' = FALSE
    BY <1>7, Zenon DEF Tick
  <2>3. QED
    BY <2>1, <2>2 DEF Typing
<1>8. QED
  BY <1>2, <1>3, <1>4, <1>5, <1>6, <1>7 DEF Next

LEMMA TypingStart == Init => Typing
<1>1. Waiting(<< >>)
  BY DEF Waiting, InTurn
<1>2. QED
  BY <1>1, InitialMatchTyped DEF Init, Typing

(* Whatever is commanded, salvage and charge are not overdrawn, no capture  *)
(* passes its limit and no command that waits is late (CanProduceUnit,      *)
(* CanBuildStructure, CanActivateAbility, Submit, Step).                    *)
THEOREM MatchTypes == Spec => []TypeOK
<1>1. Typing => TypeOK
  BY DEF Typing, Typed, Waiting, Given, TypeOK
<1>2. QED
  BY <1>1, TypingStart, TypingStep, PTL DEF Spec

(* However many commands are given for a node in a step, and whatever is    *)
(* destroyed meanwhile, no two structures of a kind stand there             *)
(* (CanBuildStructure).                                                     *)
THEOREM OneStructureEach == Spec => []OneStructurePerNode
<1>1. Typing => OneStructurePerNode
  BY DEF Typing, Typed, OneEach, OneStructurePerNode
<1>2. QED
  BY <1>1, TypingStart, TypingStep, PTL DEF Spec

(* Of the commands that wait none is before one that is due earlier, so     *)
(* that taking the due ones from the head of the queue takes all of them    *)
(* (Submit, ExecuteDueCommands).                                            *)
THEOREM CommandsWaitInTurn == Spec => []InTurn(commands)
<1>1. Typing => InTurn(commands)
  BY DEF Typing, Waiting
<1>2. QED
  BY <1>1, TypingStart, TypingStep, PTL DEF Spec

(* Whatever is ordered and lost, what is used grows only into what there    *)
(* is: an order is taken when it fits with all that live and all that wait, *)
(* a completed order weighs what it did in the queue, and where the         *)
(* capacity was lost nothing is added (CanProduceUnit,                      *)
(* UpdateConstructionAndProduction, Reset).                                 *)
THEOREM CapacityIsKept == Spec => OverCapacityNeverGrows
<1> DEFINE used == UsedFreegridCapacity(match)
           capacity == FreegridCapacity(match)
           NoGrowth == used' > capacity' => used' <= used
           Kept == UsedFreegridCapacity(match') > FreegridCapacity(match')
                     => UsedFreegridCapacity(match') <= UsedFreegridCapacity(match)
<1>1. ASSUME Typing, Typing', [Next]_vars PROVE NoGrowth
  <2>1. Typed(match) /\ Typed(match') /\ match \in MatchType /\ match' \in MatchType
    BY <1>1 DEF Typing, Typed
  <2>2. DOMAIN match = Fields
    BY <2>1, FieldTypes
  <2>3. used \in Nat /\ used' \in Nat /\ capacity' \in Nat
    BY <2>1, CapacityTypes
  <2>4. CASE match'.units = match.units /\ match'.production = match.production
    <3>1. used' = used
      BY <2>4 DEF UsedFreegridCapacity, LiveCosts, QueuedCosts
    <3>2. QED
      BY <2>3, <3>1
  <2>5. CASE match' = InitialMatch
    <3>1. used' <= capacity'
      BY <2>5, CapacityAssumption
    <3>2. QED
      BY <2>3, <3>1
  <2>6. CASE ExecuteProduceUnit
    <3> DEFINE kind == Head(commands).request.unit
               k == [match EXCEPT !.salvage = @ - UnitDefinitions[kind].salvageCost,
                        !.production = Append(@, [kind |-> kind,
                                 remainingTicks |-> UnitDefinitions[kind].buildTicks])]
    <3>1. CASE match' = match
      BY <2>4, <3>1
    <3>2. CASE match' = k /\ CanProduceUnit(match, kind)
      <4>1. kind \in UnitKind
        <5>1. Head(commands) \in Given /\ Given \in SUBSET [delay : 0 .. MaxDelay, request : Command]
          BY <1>1, <2>6, TailWaits, ScaleAssumption
             DEF Typing, ExecuteProduceUnit, Due, IsDue, Given
        <5>2. Head(commands).request \in Command /\ Head(commands).request.kind = "ProduceUnit"
          BY <2>6, <5>1 DEF ExecuteProduceUnit, Due
        <5>3. QED
          BY <5>2 DEF Command
      <4>2. UsedFreegridCapacity(k) <= FreegridCapacity(k)
        BY <2>1, <3>2, <4>1, OrderFits
      <4>3. used' <= capacity'
        BY <3>2, <4>2
      <4>4. QED
        BY <2>3, <4>3
    <3>3. QED
      BY <2>6, <3>1, <3>2 DEF ExecuteProduceUnit, Obey
  <2>7. CASE Tick
    BY <2>1, <2>7, TickUses
  <2>8. CASE ExecuteTogglePause \/ ExecuteBuildStructure
    BY <2>2, <2>4, <2>8 DEF ExecuteTogglePause, ExecuteBuildStructure, Obey, Fields
  <2>9. CASE ExecuteActivateAbility
    BY <2>2, <2>4, <2>9 DEF ExecuteActivateAbility, Obey, Fields
  <2>10. CASE ExecuteArcPulse
    BY <2>2, <2>4, <2>10 DEF ExecuteArcPulse, Obey, Fields
  <2>11. CASE Reset \/ ExecuteRestart
    BY <2>5, <2>11 DEF Reset, ExecuteRestart
  <2>12. CASE match' = match
    BY <2>4, <2>12
  <2>13. QED
    BY <1>1, <2>6, <2>7, <2>8, <2>9, <2>10, <2>11, <2>12
       DEF Next, ExecuteCommand, vars, Submit, BeginStep, EndStep
<1>2. Typing /\ Typing' /\ [Next]_vars => [Kept]_vars
  BY <1>1
<1>3. QED
  BY <1>2, TypingStart, TypingStep, PTL DEF Spec, OverCapacityNeverGrows

(* A node goes to a side in the tick that completes the side's own capture  *)
(* and in no other step, progress is one side's at a time and made tick by  *)
(* tick, and only a new match makes a node neutral again                    *)
(* (UpdateMovementAndCapture, Execute, Reset).                              *)
THEOREM OwnersEarnTheirNodes == Spec => OwnerEarned
<1> DEFINE Captured(n) ==
              LET before == Captures(match, n)
                  now == Captures(match', n)
                  done == {side \in DOMAIN now : now[side] = CaptureTicksRequired}
              IN  /\ \E side \in DOMAIN now : now[side] = 0
                  /\ \A side \in DOMAIN now : now[side] <= before[side] + 1
                  /\ \A side \in done : match'.owner[n] = side
                  /\ match'.owner[n] \in done \union {match.owner[n]} \/ match' = InitialMatch
<1>1. ASSUME MatchInv(match), [Next]_vars, NEW n \in Nodes
      PROVE  match' = InitialMatch \/ Earned(match, match', n)
  <2>1. CASE match' = match
    BY <1>1, <2>1, SameNodesEarn DEF SameNodes
  <2>2. CASE Reset
    BY <2>2 DEF Reset
  <2>3. CASE ExecuteCommand
    BY <1>1, <2>3, CommandsKeepNodes, SameNodesEarn DEF MatchInv
  <2>4. CASE Tick
    BY <1>1, <2>4, TickEarns
  <2>5. QED
    BY <1>1, <2>1, <2>2, <2>3, <2>4 DEF Next, vars, Submit, BeginStep, EndStep
<1>2. ASSUME MatchInv(match), MatchInv(match'), [Next]_vars, NEW n \in Nodes
      PROVE  Captured(n)
  <2>1. OwnerRule(match', n) /\ OwnerRule(match, n)
    BY <1>2 DEF MatchInv
  <2>2. /\ match.freegridCapture[n] \in Nat /\ match.chorusCapture[n] \in Nat
        /\ match'.freegridCapture[n] \in Nat /\ match'.chorusCapture[n] \in Nat
    BY <1>2, ScaleAssumption DEF MatchInv, Ticks
  <2>3. match' = InitialMatch =>
           match'.freegridCapture[n] = 0 /\ match'.chorusCapture[n] = 0
    BY DEF InitialMatch
  <2>4. /\ match'.freegridCapture[n] <= match.freegridCapture[n] + 1
        /\ match'.chorusCapture[n] <= match.chorusCapture[n] + 1
    BY <1>1, <1>2, <2>2, <2>3 DEF Earned
  <2>5. \/ match' = InitialMatch
        \/ match'.owner[n] = match.owner[n]
        \/ match'.owner[n] = "Freegrid" /\ match'.freegridCapture[n] = CaptureTicksRequired
        \/ match'.owner[n] = "Chorus" /\ match'.chorusCapture[n] = CaptureTicksRequired
    BY <1>1, <1>2 DEF Earned
  <2>6. QED
    BY <2>1, <2>4, <2>5 DEF Captures, OwnerRule
<1>3. Rules /\ Rules' /\ [Next]_vars => [\A n \in Nodes : Captured(n)]_vars
  BY <1>2 DEF Rules
<1>4. QED
  BY <1>3, MatchStart, MatchStep, PTL DEF Spec, OwnerEarned

(* A match is won when the Spire fell and lost when only the core did, and  *)
(* stays so (UpdateOutcome, Execute).                                       *)
THEOREM OutcomesAreEarned == Spec => []OutcomeEarned
<1>1. Rules => OutcomeEarned
  BY DEF Rules, MatchInv, OutcomeRule, OutcomeEarned
<1>2. QED
  BY <1>1, MatchStart, MatchStep, PTL DEF Spec

(* No effect is stretched by another activation of its ability, and whoever *)
(* waits for the cooldown finds it over (CanActivateAbility,                *)
(* UpdateAbilities).                                                        *)
EffectsDoNotOverlap ==
    [][\A a \in AbilityKind :
          \/ match'.duration[a] <= match.duration[a]
          \/ match.duration[a] = 0 /\ match'.cooldown[a] > match'.duration[a]]_vars

(* Durations below the cooldowns make it so in every match.                 *)
THEOREM EffectsAreApart == Spec => EffectsDoNotOverlap
<1> DEFINE Apart == \A a \in AbilityKind :
               \/ match'.duration[a] <= match.duration[a]
               \/ match.duration[a] = 0 /\ match'.cooldown[a] > match'.duration[a]
<1>1. ASSUME MatchInv(match), [Next]_vars PROVE [Apart]_vars
  <2>1. \A a \in AbilityKind :
           match.duration[a] \in Nat /\ InitialMatch.duration[a] = 0
    BY <1>1 DEF MatchInv, EffectRule, InitialMatch, NoTicks
  <2>2. CASE match' = match \/ match' = InitialMatch
    BY <2>1, <2>2
  <2>3. CASE ExecuteCommand
    BY <1>1, <2>2, <2>3, CommandRules
  <2>4. CASE Tick
    BY <1>1, <2>4, TickRules
  <2>5. QED
    BY <1>1, <2>2, <2>3, <2>4 DEF Next, vars, Submit, BeginStep, EndStep, Reset
<1>2. Rules /\ [Next]_vars => [Apart]_vars
  BY <1>1 DEF Rules
<1>3. QED
  BY <1>2, MatchStart, MatchStep, PTL DEF Spec, EffectsDoNotOverlap

(* A paused or decided match is only paused, resumed or begun again         *)
(* (Execute, Step).                                                         *)
THEOREM StoppedMatchesAreFrozen == Spec => StoppedMatchIsFrozen
<1> DEFINE Frozen == ~Running(match) =>
               match' \in {match, [match EXCEPT !.paused = ~@], InitialMatch}
<1>1. ASSUME MatchInv(match), [Next]_vars PROVE [Frozen]_vars
  BY <1>1, CommandRules DEF Next, vars, Submit, BeginStep, EndStep, Reset, Tick
<1>2. Rules /\ [Next]_vars => [Frozen]_vars
  BY <1>1 DEF Rules
<1>3. QED
  BY <1>2, MatchStart, MatchStep, PTL DEF Spec, StoppedMatchIsFrozen

-----------------------------------------------------------------------------
(* The demo *)

(* Whatever is typed, clicked or shown, the demo plays matches of           *)
(* Simulation: its steps and requests are steps of TempestMatch.            *)
THEOREM DemoPlaysByTheRules == DemoSpec => Spec
<1>1. DemoInit => Init
  BY DEF DemoInit
<1>2. ASSUME [DemoNext]_demoVars PROVE [Next]_vars
  <2>1. ASSUME NEW key \in Keys,
               \/ BeginMatch(key) \/ RestartMatch(key) \/ PauseMatch(key) \/ ResumeMatch(key)
               \/ EnterSettings(key) \/ Exit(key)
               \/ CaptureBinding(key) \/ EndCapture(key) \/ LeaveSettings(key)
        PROVE  [Next]_vars
    BY <2>1 DEF BeginMatch, RestartMatch, PauseMatch, ResumeMatch, EnterSettings, Exit,
         CaptureBinding, EndCapture, LeaveSettings, ResetPrototype, Next
  <2>2. ASSUME NEW request \in Requests, GameplayAction(request)
        PROVE  Next
    <3>1. 0 \in 0 .. MaxDelay
      BY ScaleAssumption
    <3>2. Submit(request, 0)
      BY <2>2 DEF GameplayAction
    <3>3. QED
      BY <3>1, <3>2 DEF Next
  <2>3. CASE LoseFocus \/ GainFocus \/ CloseWindow
    BY <2>3 DEF LoseFocus, GainFocus, CloseWindow
  <2>4. CASE DemoBeginStep \/ DemoCommand \/ DemoEndStep
    BY <2>4 DEF DemoBeginStep, DemoCommand, DemoEndStep, Next
  <2>5. CASE UNCHANGED demoVars
    BY <2>5 DEF demoVars
  <2>6. QED
    BY <1>2, <2>1, <2>2, <2>3, <2>4, <2>5 DEF DemoNext
<1>3. QED
  BY <1>1, <1>2, PTL DEF DemoSpec, Spec

(* Without the focus no match is on the playing screen (WM_ACTIVATEAPP).     *)
THEOREM NeverUnwatched == DemoSpec => []StoppedWithoutFocus
<1>1. DemoInit => StoppedWithoutFocus
  BY DEF DemoInit, StoppedWithoutFocus
<1>2. ASSUME StoppedWithoutFocus, [DemoNext]_demoVars PROVE StoppedWithoutFocus'
  <2>1. ASSUME NEW key \in Keys,
               \/ BeginMatch(key) \/ RestartMatch(key) \/ PauseMatch(key) \/ ResumeMatch(key)
               \/ EnterSettings(key) \/ Exit(key)
               \/ CaptureBinding(key) \/ EndCapture(key) \/ LeaveSettings(key)
        PROVE  active /\ active' = active
    BY <2>1 DEF BeginMatch, RestartMatch, PauseMatch, ResumeMatch, EnterSettings, Exit,
         CaptureBinding, EndCapture, LeaveSettings, Input
  <2>2. CASE LoseFocus
    BY <2>2, Zenon DEF LoseFocus, Show, WithoutFocus, StoppedWithoutFocus
  <2>3. CASE GainFocus
    BY <2>3, Zenon DEF GainFocus, StoppedWithoutFocus
  <2>4. CASE DemoEndStep
    <3>1. active' = active /\ (screen' = screen \/ screen' = "Result")
      BY <2>4 DEF DemoEndStep, SyncOutcome
    <3>2. QED
      BY <1>2, <3>1 DEF StoppedWithoutFocus
  <2>5. CASE \/ CloseWindow \/ DemoBeginStep \/ DemoCommand \/ UNCHANGED demoVars
             \/ \E request \in Requests : GameplayAction(request)
    <3>1. active' = active /\ screen' = screen
      BY <2>5 DEF CloseWindow, DemoBeginStep, DemoCommand, demoVars, screens, GameplayAction
    <3>2. QED
      BY <1>2, <3>1 DEF StoppedWithoutFocus
  <2>6. QED
    BY <1>2, <2>1, <2>2, <2>3, <2>4, <2>5 DEF DemoNext, StoppedWithoutFocus
<1>3. QED
  BY <1>1, <1>2, PTL DEF DemoSpec

(* A step runs in the playing screen and in an undecided match.             *)
ShownInv ==
    /\ ResultShown /\ stepping \in BOOLEAN
    /\ stepping => screen = "Playing" /\ match.outcome = "InProgress"

LEMMA ShownInvariance == DemoSpec => []ShownInv
<1>0. InitialMatch.outcome = "InProgress"
  BY DEF InitialMatch
<1>1. DemoInit => ShownInv
  <2> SUFFICES ASSUME DemoInit PROVE ShownInv
    OBVIOUS
  <2>1. match.outcome = "InProgress" /\ screen = "Briefing" /\ stepping = FALSE
    BY <1>0, Zenon DEF DemoInit, Init
  <2>2. QED
    BY <2>1 DEF ShownInv, ResultShown
<1>2. ASSUME ShownInv, Rules, [DemoNext]_demoVars PROVE ShownInv'
  <2>1. ASSUME NEW key \in Keys, BeginMatch(key) \/ RestartMatch(key)
        PROVE  ShownInv'
    <3>1. /\ match'.outcome = "InProgress" /\ screen' = "Playing"
          /\ ~stepping /\ stepping' = stepping
      BY <1>0, <2>1, Zenon DEF BeginMatch, RestartMatch, Show, ResetPrototype, Reset
    <3>2. QED
      BY <1>2, <3>1 DEF ShownInv, ResultShown
  <2>2. ASSUME NEW key \in Keys,
               \/ PauseMatch(key) \/ ResumeMatch(key) \/ EnterSettings(key) \/ Exit(key)
               \/ CaptureBinding(key) \/ EndCapture(key) \/ LeaveSettings(key)
        PROVE  ShownInv'
    BY <1>2, <2>2 DEF PauseMatch, ResumeMatch, EnterSettings, Exit, CaptureBinding, EndCapture,
         LeaveSettings, Show, OpenSettings, PausedBehind, Input, Handling, vars, screens,
         ShownInv, ResultShown
  <2>3. ASSUME NEW request \in Requests, GameplayAction(request)
        PROVE  ShownInv'
    BY <1>2, <2>3 DEF GameplayAction, Submit, screens, ShownInv, ResultShown
  <2>4. CASE LoseFocus \/ GainFocus \/ CloseWindow
    BY <1>2, <2>4 DEF LoseFocus, GainFocus, CloseWindow, Handling, Show, WithoutFocus, vars,
         screens, ShownInv, ResultShown
  <2>5. CASE DemoBeginStep
    BY <1>2, <2>5 DEF DemoBeginStep, AdvancesSimulation, BeginStep, Handling, screens, ShownInv,
         ResultShown
  <2>6. CASE DemoCommand
    <3>1. stepping /\ screen' = screen /\ UNCHANGED screens /\ ExecuteCommand
      BY <2>6 DEF DemoCommand, ExecuteCommand, ExecuteRestart, ExecuteTogglePause,
           ExecuteBuildStructure, ExecuteProduceUnit, ExecuteActivateAbility, ExecuteArcPulse,
           Due, screens
    <3>2. match'.outcome = "InProgress" /\ stepping' \in BOOLEAN
      <4>1. DOMAIN match = Fields
        BY <1>2 DEF Rules, MatchInv
      <4>2. CASE ExecuteRestart
        BY <1>0, <4>2, Zenon DEF ExecuteRestart
      <4>3. CASE ExecuteTogglePause
        BY <1>2, <3>1, <4>1, <4>3 DEF ExecuteTogglePause, Obey, Fields, ShownInv
      <4>4. CASE ExecuteBuildStructure \/ ExecuteProduceUnit
        BY <1>2, <3>1, <4>1, <4>4 DEF ExecuteBuildStructure, ExecuteProduceUnit, Obey,
             Fields, ShownInv
      <4>5. CASE ExecuteActivateAbility \/ ExecuteArcPulse
        BY <1>2, <3>1, <4>1, <4>5 DEF ExecuteActivateAbility, ExecuteArcPulse, Obey,
             Fields, ShownInv
      <4>6. QED
        BY <3>1, <4>2, <4>3, <4>4, <4>5 DEF ExecuteCommand
    <3>3. QED
      BY <1>2, <3>1, <3>2 DEF ShownInv, ResultShown
  <2>7. CASE DemoEndStep
    <3>1. stepping /\ stepping' = FALSE /\ screen = "Playing" /\ screen' = SyncOutcome
      BY <1>2, <2>7 DEF DemoEndStep, EndStep, Tick, ShownInv
    <3>2. QED
      BY <3>1 DEF SyncOutcome, ShownInv, ResultShown
  <2>8. CASE UNCHANGED demoVars
    BY <1>2, <2>8 DEF demoVars, vars, screens, ShownInv, ResultShown
  <2>9. QED
    BY <1>2, <2>1, <2>2, <2>3, <2>4, <2>5, <2>6, <2>7, <2>8 DEF DemoNext
<1>3. DemoSpec => []Rules
  BY DemoPlaysByTheRules, MatchStart, MatchStep, PTL DEF Spec
<1>4. QED
  BY <1>1, <1>2, <1>3, PTL DEF DemoSpec

(* The result is on the screen, or behind the settings, exactly when the    *)
(* match is decided (InterfaceState::SyncOutcome).                          *)
THEOREM ResultIsShown == DemoSpec => []ResultShown
<1>1. ShownInv => ResultShown
  BY DEF ShownInv
<1>2. QED
  BY <1>1, ShownInvariance, PTL

-----------------------------------------------------------------------------
(* A demo that cannot be told to pause in a step *)

(* The match of the demo is not paused, what waits does not pause it, and   *)
(* one whose Spire fell is decided but for the step that fells it.          *)
DecidedInv == ~match.paused /\ Waiting(commands) /\ DecidedByEndOfStep

(* Where no request pauses the match, as in the demo, a Spire that fell has *)
(* won the match by the end of the step (UpdatePrototype, UpdateOutcome).   *)
THEOREM DecidedAtOnce ==
    ASSUME \A request \in Requests : request.kind # "TogglePause"
    PROVE  DemoSpec => []DecidedByEndOfStep
<1>0. ~InitialMatch.paused /\ "ChorusSpire" \in InitialMatch.standing /\ Waiting(<< >>)
  BY DEF InitialMatch, Base, Waiting, InTurn
<1>1. DemoInit => DecidedInv
  BY <1>0 DEF DemoInit, Init, DecidedInv, DecidedByEndOfStep
<1>2. ASSUME DecidedInv, ShownInv, Rules, [DemoNext]_demoVars PROVE DecidedInv'
  <2>1. ASSUME NEW key \in Keys, BeginMatch(key) \/ RestartMatch(key)
        PROVE  DecidedInv'
    BY <1>0, <2>1 DEF BeginMatch, RestartMatch, ResetPrototype, Reset, DecidedInv,
         DecidedByEndOfStep
  <2>2. ASSUME \/ \E key \in Keys :
                     \/ PauseMatch(key) \/ ResumeMatch(key) \/ EnterSettings(key) \/ Exit(key)
                     \/ CaptureBinding(key) \/ EndCapture(key) \/ LeaveSettings(key)
               \/ LoseFocus \/ GainFocus \/ CloseWindow \/ UNCHANGED demoVars
        PROVE  DecidedInv'
    <3>1. UNCHANGED vars
      BY <2>2 DEF PauseMatch, ResumeMatch, EnterSettings, Exit, CaptureBinding, EndCapture,
           LeaveSettings, LoseFocus, GainFocus, CloseWindow, demoVars
    <3>2. QED
      BY <1>2, <3>1 DEF vars, DecidedInv, DecidedByEndOfStep
  <2>3. ASSUME NEW request \in Requests, GameplayAction(request)
        PROVE  DecidedInv'
    <3>1. Submit(request, 0) /\ UNCHANGED <<match, stepping>>
      BY <2>3 DEF GameplayAction, Submit
    <3>2. Waiting(commands')
      BY <1>2, <3>1, SubmitWaits, ScaleAssumption DEF DecidedInv
    <3>3. QED
      BY <1>2, <3>1, <3>2 DEF DecidedInv, DecidedByEndOfStep
  <2>4. CASE DemoBeginStep
    BY <1>2, <2>4 DEF DemoBeginStep, BeginStep, DecidedInv, DecidedByEndOfStep
  <2>5. CASE DemoCommand
    <3>1. DOMAIN match = Fields /\ ~match.paused /\ Waiting(commands)
      BY <1>2 DEF Rules, MatchInv, DecidedInv
    <3>2. CASE ExecuteRestart
      BY <1>0, <3>2 DEF ExecuteRestart, DecidedInv, DecidedByEndOfStep
    <3>3. CASE ~ExecuteRestart
      <4>1. stepping /\ IsDue /\ stepping' = stepping /\ commands' = Tail(commands)
        BY <2>5, <3>3 DEF DemoCommand, ExecuteCommand, ExecuteTogglePause,
             ExecuteBuildStructure, ExecuteProduceUnit, ExecuteActivateAbility,
             ExecuteArcPulse, Due, Obey
      <4>2. Head(commands).request \in Requests /\ Waiting(commands')
        <5>1. Head(commands) \in Given /\ Waiting(Tail(commands))
          BY <3>1, <4>1, TailWaits DEF IsDue
        <5>2. QED
          BY <4>1, <5>1 DEF Given
      <4>3. ~match'.paused
        <5>1. ~ExecuteTogglePause
          BY <4>2 DEF ExecuteTogglePause, Due
        <5>2. CASE ExecuteBuildStructure \/ ExecuteProduceUnit
          BY <3>1, <5>2 DEF ExecuteBuildStructure, ExecuteProduceUnit, Obey, Fields
        <5>3. CASE ExecuteActivateAbility \/ ExecuteArcPulse
          BY <3>1, <5>3 DEF ExecuteActivateAbility, ExecuteArcPulse, Obey, Fields
        <5>4. QED
          BY <2>5, <3>3, <5>1, <5>2, <5>3 DEF DemoCommand, ExecuteCommand
      <4>4. QED
        BY <4>1, <4>2, <4>3 DEF DecidedInv, DecidedByEndOfStep
    <3>4. QED
      BY <3>2, <3>3
  <2>6. CASE DemoEndStep
    <3>1. Tick
      BY <1>2, <2>6 DEF DemoEndStep, EndStep, Running, DecidedInv, ShownInv
    <3>2. /\ match'.paused = match.paused
          /\ "ChorusSpire" \notin match'.standing => match'.outcome = "Victory"
      BY <1>2, <3>1, TickRules DEF Rules
    <3>3. Waiting(commands')
      BY <1>2, <3>1, TickWaits DEF DecidedInv
    <3>4. QED
      BY <1>2, <3>2, <3>3 DEF DecidedInv, DecidedByEndOfStep
  <2>7. QED
    BY <1>2, <2>1, <2>2, <2>3, <2>4, <2>5, <2>6 DEF DemoNext
<1>3. DemoSpec => []Rules
  BY DemoPlaysByTheRules, MatchStart, MatchStep, PTL DEF Spec
<1>4. DecidedInv => DecidedByEndOfStep
  BY DEF DecidedInv
<1>5. QED
  BY <1>1, <1>2, <1>3, <1>4, ShownInvariance, PTL DEF DemoSpec

=============================================================================
