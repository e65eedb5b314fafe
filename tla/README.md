# Project Tempest: TLA+ models and proofs

Project Tempest is a fork of the C&C Generals / Zero Hour engine (`Core/`,
`Generals/`, `GeneralsMD/`) with a small standalone skirmish of its own
(`ProjectTempest/`). This directory holds specifications of the parts of it
whose correctness depends on order, concurrency and lost or repeated events,
the TLC runs that check them and the TLAPS proofs about them.

Contents: 1 the system, 2 what is hard in it and what makes it correct, 3 the
modules, 4 the runs, 5 the proofs, 6 where code and comments disagree, 7 what is
not modelled, 8 the plan.

## 1. The system

Paths are relative to `Core/GameEngine/Source/GameNetwork` for the network and
to `ProjectTempest/Code` for the skirmish.

| Part | State it keeps | Operations | Talks to |
|---|---|---|---|
| `Network` (`Network.cpp`) | logic frame seen last, run ahead, execution frame, last frame announced, local status | `update`, `processCommand`, `RelayCommandsToCommandList`, `processRunAheadCommand` | game logic (frame counter, command list), `ConnectionManager` |
| `ConnectionManager` | one `FrameDataManager` and one `Connection` per slot, packet router, fallback plan, pending and relayed commands | `sendLocalCommand`, `doRelay`, `processNetCommand`, `allCommandsReady`, `getFrameCommandList`, `updateRunAhead`, `processPlayerLeave`, `disconnectPlayer` | all of GameNetwork |
| `FrameDataManager`, `FrameData` | per player a ring of `FRAME_DATA_LENGTH` frames: commands, their number, the number announced | add a command, set the count, test, reset | `ConnectionManager` |
| `Connection`, `NetCommandList`, `NetCommandRef` | queue of commands not yet acknowledged, with retry times | send, retry, acknowledge, sort | `Transport` |
| `NetCommandWrapperList` | chunks of large commands | collect, rebuild | `ConnectionManager` |
| `DisconnectManager` | disconnect screen, votes, packet router timeout | `update`, keep-alives, votes, disconnect frames | `ConnectionManager` |
| `Transport` | in and out buffers of UDP datagrams | `queueSend`, `doSend`, `doRecv` | sockets |
| Lobby, NAT, online services | slot lists, port negotiation | discovery, joining, probing | `Transport`, services |
| `Tempest::Simulation` (`TempestSimulation.cpp`) | tick, pause, outcome, salvage, charge, units, buildings, nodes, production, pending commands | `Submit`, `Step`, `Reset` | the demo |
| `Tempest::Ui::InterfaceState` (`TempestInterface.cpp`) | screen, return screen, binding capture, settings, bindings | `HandleInput`, `HandleSettingsInput`, `TryRebind`, `SyncOutcome`, `SerializeConfiguration`, `LoadConfiguration` | the demo |
| Demo loop (`ProjectTempestDemo.cpp`) | focus, tick accumulator, selection, settings path | window messages, `HandleInterfaceEvent`, `UpdatePrototype`, `SaveInterfaceConfiguration`, `LoadInterfaceConfiguration` | both of the above |
| Game logic, client, devices, libraries, tools | the engine proper | | |

How they interact. In a network game each machine's game logic calls
`Network::update` once per pass of the main loop. It takes the local player's
commands from the command list, gives each an execution frame ahead of the logic
frame and hands it to the `ConnectionManager`, which files it in the local
`FrameData` and sends it to the packet router, the one machine that relays to
everybody. What arrives is filed in the sender's `FrameData`. When every
player's frame is complete `Network` hands the commands to the game logic and
lets it run the frame. In the skirmish one thread handles all waiting window
messages, which change the screen and submit commands, and then lets the match
take as many fixed steps as the clock asks for.

## 2. What is hard, and what makes it correct

- **Lockstep.** All machines run the same frames with the same commands, over
  datagrams that are late, repeated and reordered, while the run ahead changes
  and players leave. Correct means: a frame runs with every command anybody
  scheduled for it (`LockstepAgreement`), a count that was announced is final
  (`NeverTooManyCommands`), and machines in the same frame use the same run
  ahead (`SameRunAhead`).
- **Rings.** Frames are filed at `frame % FRAME_DATA_LENGTH`. Nothing checks that
  a slot still belongs to the frame: only how far machines can drift apart does
  (`OneFramePerSlot`; `RingInv` in the proofs).
- **Leaving.** A leaver must announce the frames others will wait for
  (`EverybodyAdvances`), and those who fell behind must still find what they
  missed with somebody (`KeptFramesReachLaggard`: the commands of every frame they lack,
  and the count of the frame they are stuck in, also of players who gave nothing).
- **Relaying.** A command goes to everybody by way of one machine, the packet
  router. It can stop, leave or quit with the command half relayed, and each
  machine learns of that at another moment. Correct means: its giver keeps a
  command until everybody he plays on with has it (`KeptUntilHeard`; so long as the
  first router plays on, or with three players, section 6), everybody hears it in
  the end (`EverybodyHears`), all name the same next router (`RoutersAgree`), and a
  router waits only for acks somebody will send (`RelayedIsFinished`).
- **Acknowledged lists.** Messages leave a list when acked, big ones are cut into
  chunks, lists are kept in order by an insertion sort with a short cut, and
  command IDs overflow. Correct means: delivered whole and once (`DeliveredOnce`,
  and for a command whose ID no other big one has, `OnlyWhole`),
  executed in the same order everywhere (`SameOrder`), counted right
  (`CountMatches`).
- **The disconnect screen.** Machines stuck in different frames, votes and
  timeouts, frame messages that cross each other and the player who answers again
  after all. Correct means: who is counted on is not left behind
  (`NobodyLeftBehind`), nobody is put out by old votes (`VotedOutByAll`), and the
  game goes on without the machine that stopped (`GameGoesOn`).
- **A match.** Two counters per node and sides that come and go decide who owns it: a
  node goes to a side when its own capture is complete and not before (`OwnerEarned`).
  Requests are tested when they are made and again when they are run; capacity can be lost at any tick; the core and the Spire can fall in the
  same tick, the Spire also outside a tick; commands are taken while the match is
  paused or decided.
- **Screens.** The outcome is copied to the screen only after a step and not over
  the settings; the focus is lost in any screen.
- **The settings profile.** It is migrated from two older versions, edited, and
  written by a process that can end at any moment; one that turns out bad at its last
  line must leave the bindings as they were (`UserRemapsKept`).

The hazards are listed one by one, at their lines, in `PROJECT.json`, with the
properties that cover each.

## 3. The modules

| Module | What it is |
|---|---|
| `FrameSync` | `Network`, `FrameDataManager`, `FrameData` and the synchronised part of `ConnectionManager`, on all machines |
| `FrameSyncInv` | its inductive invariant and its refinement mapping |
| `AgreedFrames` | the abstract promise of lockstep |
| `PacketRelay` | sending, relaying and acknowledging in `ConnectionManager` and `Connection`; players who go away |
| `DisconnectManager` | the disconnect screen |
| `NetCommandList` | the sorted command list, as operators |
| `CommandTransfer` | `Connection`'s queue, `NetPacket`'s splitting, `NetCommandWrapperList` and `FrameData`, composed on `NetCommandList` |
| `CommandDelivery` | the abstract promise of `CommandTransfer` |
| `TempestMatch` | `Tempest::Simulation` |
| `TempestDemo` | `InterfaceState`'s screens and the demo loop, composed with `TempestMatch` |
| `SettingsProfile` | bindings and the profile file |
| `FrameSyncSteps_proofs`, `FrameSync_proofs`, `AgreedFrames_proofs`, `PacketRelay_proofs`, `CommandTransfer_proofs`, `DisconnectManager_proofs`, `TempestDemo_proofs`, `SettingsProfile_proofs` | the proofs |
| `MCFrameSync`, `MCPacketRelay`, `MCDisconnectManager`, `MCCommandTransfer`, `MCTempestMatch`, `MCTempestDemo`, `MCSettingsProfile` | constants of the small instances |

The network's modules divide one protocol between them. `FrameSync` takes for
granted that what is sent arrives late or repeated, and `PacketRelay` shows that it
arrives though routers go away. `PacketRelay` counts commands with sets, and
`CommandTransfer` shows what becomes of one connection's lists, IDs and chunks.
`DisconnectManager` takes relaying and lockstep as a number per pair of players, how
far one has the other's commands, and decides who is put out; `PacketRelay` takes
that decision and shows what becomes of the commands under way.

Definitions named "mutant" in a comment are plausible mistakes in the definition
below them. No specification uses them; each property is known to fail when its
mutant takes the place of the definition (`mutants` in `PROJECT.json`).

### FrameSync

Variables carry the names of the members they stand for. `frameData[p][q]` is
the ring machine p keeps for player q; `net` is the set of every synchronised
message ever sent, and receiving removes nothing, so a message may arrive late,
in any order and any number of times, or so late that nobody sees it. `executed`
is a history variable.

| Action | Code |
|---|---|
| `ExecutePregameFrame` | the first frame, for which nobody waits, and the announcements made on the way into the game |
| `IssueCommand` | `GetCommandsFromCommandList` to `sendLocalGameMessage` |
| `UpdateRunAhead` | `ConnectionManager::updateRunAhead` on the packet router; metrics become a free choice inside the clamp |
| `LeaveGame` | `processCommand` of `MSG_CLEAR_GAME_DATA` |
| `Receive` | `doRelay`, `processNetCommand`, `processFrameInfo`, with the readiness test that may discard a frame |
| `ExecuteFrame` | `Network::update` with a complete frame: `getFrameCommandList` and the frame it frees, `RelayCommandsToCommandList`, `processRunAheadCommand`, `processPlayerLeave`, and the tests and announcements of the next update |

Abstractions. `AnnounceFrames` belongs to the step that ends the frame before:
nothing between the two reads what it writes. Frame pacing (`timeForNewFrame`)
and the disconnect screen only delay `ExecuteFrame`. Command ids count the
synchronised commands only; the code's counter is shared with the others, which
keeps them distinct and in order just as well. A machine that left is not
followed further. A message is sent to whoever the sender's router still
serves; which machine relays is not decided here. The layer below is assumed to
deliver late, not never; `EverybodyHears` of `PacketRelay` is that assumption.

### AgreedFrames

Players give commands for frames they have not closed; a machine runs a frame
with everything given for it once every open player closed it. `FrameSyncInv`
maps `given` to the commands in `net`, `sealed` to the last frame announced,
`open` to those who have not left, `log` to `executed`.

### PacketRelay

Per machine: `connections` and `quitting` (`m_connections` and its `m_isQuitting`),
`fallback` (`m_packetRouterFallback`, whose first slot is the router), `queue` (the
lists of all its connections together), `pending`, `relayed` and `received`, the
commands put into frame data. `sent`, `acks` and `disconnects` only grow: loss is a
message nobody takes, a retry takes the same one again.

| Action | Code |
|---|---|
| `SendGameCommand`, `SendPlayerLeave` | `sendLocalGameMessage`, `handleLocalPlayerLeaving`, both by `sendLocalCommand` |
| `ReceiveCommand` | one command of `doRelay`: `ackCommand`, `processNetCommand`, `sendRemoteCommand` |
| `ReceiveAck` | the same for acks: `processAckStage1`, `processAckStage2`, and relaying the ack |
| `DisconnectTimedOut`, `ReceiveDisconnect` | what `DisconnectManager` does in the end: tell, `disconnectPlayer`, `resendPendingCommands`, destroy the units |
| `ExecuteOthersLeave`, `ExecuteOwnLeave` | `processPlayerLeave` in the frame of a leave |
| `DropConnection` | `update` deletes a quitting connection whose list is empty or was emptied by `doSend` |
| `QuitGame`, `Crash` | `quitGame` on the disconnect screen; a machine that stops |

`RelayedIsFinished` follows the first router's relayed list: the mask he keeps with a
command (`Awaited`) names whom he sent it to, so while he and they play on it runs
empty, whichever copies and acks are lost. It says nothing of a player who stops or
leaves after he was counted: nothing in the code takes him out of the masks of
`m_relayedCommands`, and such an entry stays for the rest of the game.

Abstractions. Only machines that stopped time out (who else can is
`DisconnectManager`'s question), and a player goes away in one way only. A quitting
connection is not cut off (`FlushTimeOver`) before a machine that plays on has heard
its list: `MaxQuitFlushTime` is 30 seconds, fifteen retries. The stage 2 ack is
built without a player number, which is slot 0 in the code and so here; nothing
depends on it.

### DisconnectManager

The variables carry the members' names; `heard[p][q]` stands for lockstep, `net` for
every message of the screen. `TurnOnScreen`, `Notify`, `TimeOut`, `KeepAlive`,
`VoteForPlayerDisconnect`, `Disconnect` and `QuitGame` are the parts of `update`,
`updateDisconnectStatus` and the menu; `Receive` and `ReceiveVotes` are
`processDisconnectCommand`, one disjunct per message; `RunFrame` is a frame that
became ready, with `allCommandsReady` and `nextFrame`.

Abstractions. Time is left out: whoever does not answer may time out, but only after
the frame was notified, since that happens at two thirds of the same timeout. Frame
data is one message for all the frames and players it brings. It is heeded by whose
data it is, not by who brings it (`Heeds`, as `processNetCommand` does). A machine that
catches up does so late in the game: the trouble of the first frames is
`sync_catch_up`'s. All stall in frame `LastFrame`, whose commands never come; it is what
brings up the screens when nobody has stopped. The command by which `sendPlayerDestruct`
destroys the units of who was put out is left out: commands are numbers of frames here,
and it is one more for a frame not yet announced (`getExecutionFrame() + 1`);
`PacketRelay` has it (`DESTROYPLAYER`).

### NetCommandList, CommandTransfer, CommandDelivery

`AddMessage` is the whole of `addMessage`: the short cut behind the message inserted
last, the scan by type, player and ID, and the search for a copy where it looks for
one. IDs have `IdSpace` values and are compared as the build does: `Init` chooses
`retailCompatible`, so one run covers both. `SendNetCommandMsg`, `ProcessAck`, `Relay`
(one message taken by `doRelay`) and `ProcessReadyCommands` (what `doRelay` does when
through the packets) are the four steps. Two senders number their own commands, as
two processes do; a receiver has one `NetCommandWrapperList` for all of them, found
by ID alone, so two big commands with one ID would mix: `OnlyWhole` and `DeliveredOnce`
speak of those that are `AloneWithItsId`. `isCommandIdNewer` takes an ID more than half
the way round for an older one, so `ScriptAssumption` has a player give at most that
many IDs in the frame that is modelled, 32768 in the code. `CommandTransfer` implements
`CommandDelivery` with `given` and the union of all frame data; the abstract `Spec` says
that what is delivered was given and stays, its `FairSpec` that it is delivered.

Abstractions. Acks of commands without ID do not exist in the code's lists of
commands that need one, which are the ones modelled. The chunk a command starts with
says which command it is, as the header in the bytes does.

### TempestMatch

`match` is `MatchState`, `commands` the queue with the ticks left until each is
due, `stepping` is true inside `Simulation::Step`. A step is `BeginStep`, one
action per due command (`ExecuteRestart`, `ExecuteTogglePause`,
`ExecuteBuildStructure`, `ExecuteProduceUnit`, `ExecuteActivateAbility`,
`ExecuteArcPulse`), and then `Tick` or, in a match that is stopped, `EndStep`.
`Tick` applies `UpdateConstructionAndProduction`, `UpdateMovementAndCapture`,
repairs, combat, `UpdateAbilities`, `UpdateEconomy` and `UpdateOutcome` in the
order of the code.

Abstractions. Positions and hit points are left out, so who stands alone at a
node, what a repair costs (up to its price per rig), what combat destroys and
whether a pulse reaches the Spire are nondeterministic. Every behaviour of the
code is one of the model; the reverse is not claimed, so safety properties carry
over and a violation would have to be checked against the geometry. The loops over
units, structures and orders that add up capacity are `Total` of a sequence of costs,
units counted by kind; `CapacityAssumption` says that what a match begins with fits, 3
of 6 in the code. `Move`,
`Capture`, `Attack` and `Repair` only steer units and are part of that choice;
Chorus units and waves likewise. Commands are not given for ticks already past.

### TempestDemo

Extends `TempestMatch` with the screen, the screen behind the settings, binding
capture, the focus and the closing of the window. A key is known by the action
bound to it. `GameplayAction` asks the match what the demo asks, and submits. The
demo restarts by `Simulation::Reset` and pauses by not stepping, so it gives
neither command. `DemoEndStep` includes `SyncOutcome`, as `UpdatePrototype` does.

### SettingsProfile

`ReadProfile` reads the lines, each `MigrateBinding` is one call of
`migrateBinding`, `FinishLoad` the final tests; `Rebind` is `TryRebind` with the
save that follows; `BeginWrite`, `FinishWrite`, `Replace` and `SaveFails` are
`SaveInterfaceConfiguration`; `Stop` ends the process anywhere. `own` remembers
that the file was written by some version of the program, so properties can say
that such a file is accepted, and others need not be. The syntax of lines, the
numeric settings in the same file and a missing `LOCALAPPDATA` are left out. That
`MoveFileExW` replaces the file in one go is assumed of the system.

## 4. The runs

Every bound is a constant. In `FrameSync` the ring, the window and the run ahead
scale with `MAX_FRAMES_AHEAD` (128 in the code), so small values keep the
arithmetic and bring the wrap-around within a few frames.

| Run | Instance | Question |
|---|---|---|
| `sync_ring` | 2 players, the host may leave, the other gives one command; run ahead 1..2 changed once; frames 0..6; fair | agreement, counts, one run ahead, while frames are already announced; a leave never stalls the one who stays |
| `sync_three` | 3 players, the packet router may leave; ring of 6, frames 0..6 | the proofs' invariant, refinement of `AgreedFrames`; one frame per slot when the ring comes round; what is kept suffices for the last machine |
| `sync_catch_up` | expected violation, section 6 | |
| `relay` | 3 players; the router may stop, leave or quit; a command of the second; fair | kept until heard, heard by all, one router; no ack awaited in vain |
| `disconnect` | 3 players, the router may stop, the second may not hear the third; fair | nobody left behind, the game goes on |
| `disconnect_votes` | 3 players, the two others may vote against the router, the third may quit | votes of other frames do not count |
| `disconnect_frame` | expected violation, section 6 | |
| `transfer` | 2 senders, 5 commands, one in 2 chunks, 18 IDs that overflow, both builds; fair | order, counts, whole and once; refinement of `CommandDelivery` |
| `match_economy` | 1 node, 2 unit kinds, capture in 2 ticks, salvage up to 3, 2 waiting commands, for this tick or the next | spending, capacity, structures; a node changes hands with a completed capture only |
| `match_control` | both abilities, pulse, pause and restart, 2 waiting commands; fair | outcome, stopped match; decisions and due commands come through |
| `demo_screens` | all keys, focus, close; pulse and production | screens against match |
| `profile` | 3 actions (one added in each of versions 2 and 3), 4 inputs, 170 initial files | migration, collisions, a load given up half way, crashes |

Why the bounds are enough. Agreement can be lost only between two machines, so
two players suffice except for the router's relay and the laggard's helper,
which need a third. A ring of `(2 + 1) * 2 = 6` slots comes round within the 7
frames of `sync_three`, so `OneFramePerSlot` is asked there; `sync_ring` has the
larger window the run ahead needs to change, and does not wrap its ring of 10.
In `relay` and `disconnect` the interesting machine is the router, which therefore is the
one that goes away; the others are the next router and one who depends on it. A fourth player would add a
second one who depends on it (section 6 says what that brings). Two frames are
enough for a vote or a report to be old. In `transfer`, three commands of one player
are the least for a list in which one comes between two others, and the overflow
happens between them; 18 IDs are the fewest of which three commands, each with room for
its chunks (`MaxIds`), take no more than half.
In the match, salvage, costs and ticks are counted in units of
the cheapest, so each threshold is met exactly, passed and missed. Two waiting
commands are the least that can conflict. In the profile, the defaults of both
missing actions and the first fallback key can be taken, by the user or by one
another.

`sync_three` uses `MAX_FRAMES_AHEAD = 2`, where `MaxRunAhead` is 1, below the
hypothesis of the theorems; TLC finds no difference there.

Fairness. `FairSpec` of `FrameSync`: every machine keeps updating its network
(the main loop calls `Network::update` every pass) and the connections keep
resending what has not been acknowledged, so something receivable is eventually
received. `FairSpec` of `TempestMatch`: the program keeps calling `Step`, and
`Step`, a loop over a finite queue, returns. `PacketRelay`: a machine that runs
resends its lists until acked (`Connection::doSend`), disconnects what timed out and
comes to the frame of a leave; a packet that is sent again is acked again
(`ackCommand` acks what `doRelay` takes, copies too), so an ack straight to who sends
the packet arrives in the end. Nothing makes a stage 2 ack arrive, which is sent
once, nor a goodbye. `RoutersAgree` and `EverybodyHears` are therefore stated for
the case that nobody says goodbye by `quitGame`. `DisconnectManager`: machines that
run update, and what they send is repeated; a timeout is sure only of who will never
answer. `CommandTransfer`: a queued message that was not acked is heard at last, and
`doRelay` ends. Nothing is assumed about players: they need not vote, quit, leave or
give commands, except that in `CommandTransfer` scripts are carried out.

Deadlock is checked in `FrameSync`, where the bound itself is a state of rest
(`BoundReached`), in the match and in the profile. The demo may be closed, and the
instances of `PacketRelay`, `DisconnectManager` and `CommandTransfer` end when
everything was given and heard, so there it is not; their liveness properties say
what must have happened by then.

## 5. The proofs

For every finite set of players, every window and every bound; for every script, every
number of IDs and of chunks; for every match the constants allow; for every set of
actions, inputs and older profiles:

| Theorem | Says |
|---|---|
| `TypeCorrect` | `Spec => []TypeOK` of `FrameSync`, run ahead inside its clamp included |
| `Invariance` | `Spec => []IInv` |
| `Agreement` | `Spec => []LockstepAgreement` |
| `NoResend` | `Spec => []NeverTooManyCommands` |
| `Refinement` | `Spec => ImplementsAgreed` |
| `RunAheadAgreement` | `Spec => []SameRunAhead` |
| `FramesStayApart` | `Spec => []OneFramePerSlot` |
| `LaggardsAreHelped` | `Spec => []KeptFramesReachLaggard` |
| `AgreedFramesAgree` | the abstract specification keeps the logs equal |
| `RelayTypes` | `Spec => []TypeOK` of `PacketRelay` |
| `NothingForgottenTooEarly` | `Spec => []KeptUntilHeard` of `PacketRelay` |
| `LastAcksAreLast` | once there is an ack of stage 2 for a command, all who play on have it |
| `PlayersStayTogether` | of those who play on nobody drops another |
| `TransferInvariance` | `Spec => []TransferInv` of `CommandTransfer` |
| `TransferTypes` | `Spec => []TypeOK` of `CommandTransfer` |
| `OneOrderForAll` | `Spec => []SameOrder`: the sorted lists are sorted |
| `KeptTillHeard` | `Spec => []KeptUntilHeard` of `CommandTransfer` |
| `BigOnesComeWhole` | `Spec => []OnlyWhole` |
| `CountsAreTrue` | `Spec => []CountMatches` |
| `SameCommandsSameFrame` | what a frame executes, in its order, follows from the set of commands that came |
| `OnlyGivenIsDelivered` | `Spec => Delivery!Spec`: `CommandTransfer` implements `CommandDelivery` but for its fairness |
| `ScreenTypes` | `Spec => []TypeOK` of `DisconnectManager`; nobody has commands that were not given |
| `NobodyIsLeftBehind` | `Spec => NobodyLeftBehind` |
| `NobodyIsOustedByAFew` | `Spec => VotedOutByAll` |
| `MatchTypes` | `Spec => []TypeOK` of `TempestMatch`: nothing overdrawn, nothing late |
| `OneStructureEach` | `Spec => []OneStructurePerNode` |
| `CommandsWaitInTurn` | the queue of commands stays sorted by when they are due |
| `CapacityIsKept` | `Spec => OverCapacityNeverGrows` |
| `OwnersEarnTheirNodes`, `OutcomesAreEarned` | `Spec => OwnerEarned` and `Spec => []OutcomeEarned` |
| `StoppedMatchesAreFrozen` | `Spec => StoppedMatchIsFrozen` |
| `EffectsAreApart` | `Spec => EffectsDoNotOverlap`, which durations far below the cooldowns make so; no run asks it |
| `DemoPlaysByTheRules` | `DemoSpec => Spec`: the demo implements the match |
| `NeverUnwatched`, `ResultIsShown` | `DemoSpec => []StoppedWithoutFocus` and `DemoSpec => []ResultShown` |
| `DecidedAtOnce` | `DemoSpec => []DecidedByEndOfStep`, when no request is `TogglePause` |
| `ProfileInvariance`, `ProfileTypes` | `Spec => []ProfileInv` and `Spec => []TypeOK` of `SettingsProfile` |
| `BindingsNeverCollide` | `Spec => []CollisionFree` |
| `RemapsSurvive` | `Spec => []UserRemapsKept` |
| `OwnProfilesLoad` | `Spec => []OwnProfileLoads` |
| `ProfileStaysWhole` | `Spec => []SavedProfileStays` |

### Lockstep

Assumptions: the named `ASSUME`s of `FrameSync` (players are a finite set of slot
numbers, the minimum and initial run ahead lie within the clamp) and, but for
`TypeCorrect`, `MaxRunAhead >= 2`; it is 64 in the code.

The argument. `LockstepAgreement` alone is not inductive: a machine runs what is
in its slots, so one must know that the slots tell the truth. `IInv` adds

- `ScheduleInv`: on one machine, how logic frame, run ahead, execution frame and
  announced frames relate; the execution frame never goes back;
- `CommandInv`: ids are unique and every command lies past what its player had
  announced when it was given; who leaves has scheduled his leave, last of all;
- `AnnounceInv`: an announced count equals the number of commands its player has
  scheduled for the frame, for ever;
- `DriftInv`: a machine is at most one frame past what those it waits for have
  announced, and no longer waits only for those who are done;
- `ReachInv`: hence anything that may still arrive lies within
  `3 * MaxRunAhead + 3` frames of the receiver, which with the `FRAMES_TO_KEEP`
  frames behind it still fits the ring of `2 * (2 * MaxRunAhead + 1)` slots;
- `RingInv`: so in the window a machine may still run, every slot holds commands
  of one frame and one player only, and announced counts that are true.

A frame whose counts match then holds exactly what was scheduled for it, which
is agreement; a slot can never hold more than was announced, which is `NoResend`.
`FrameSyncSteps_proofs` has the types, the lemmas about the ring operators and one
lemma per action and part of the invariant, `FrameSync_proofs` puts them together and
proves the refinement step by step.

Three more invariants rest on `IInv` and are shown after it. `RunAheadInv` says that
the run ahead is the value of the last change a machine has run, in the order of
frame, player and ID; machines in the same frame have run the same changes, by
agreement, and the order has one last (`RunAheadAgreement`). `LapInv` is about the
frames behind the window, which `RingInv` says nothing of: `NearInv` says that what is
sent to a player who plays on is at most `2 * MaxRunAhead + 1` frames ahead of him,
because everybody waits for him; with the kept frames that is less than a lap, so
`KeptInv`, which says they stay as complete as they were when run, with the counts of
all they waited for (`Waits`), survives every arrival. `GoneInv` says that a manager is dropped only when the kept frames are all
past its player's leave. `FramesStayApart` joins `KeptInv` behind the frame and
`RingInv` ahead of it; `LaggardsAreHelped` needs `KeptInv` and `GoneInv`.

### Relaying

Assumptions: the named `ASSUME`s of `PacketRelay`, no more. Any number of machines may
stop, leave and quit, the router among them.

`KeptUntilHeard` says when a sender may forget, and that depends on what the acks mean.
`RelayInv` adds

- `TopologyInv`: only who stopped, left or quit is given up, so all who play on are
  connected; who is connected to the first router takes him for the router;
- `GivenInv`: nobody makes up a command;
- `SentInv` (`PacketRule`): a packet is for its recipient alone or for everybody but
  its giver, and while the first router plays on, the latter only on its way to him;
- `RelayedInv` (`RelayRule`): whoever lacks a command that a router relayed is still in
  the mask the router keeps with it;
- `AckInv` (`AckRule`), `BothInv` (`BothRule`): who acks has the command, and an ack of
  stage 2, sent when the mask is empty, is sent when all who play on have it;
- `PendingInv`: the first router brings his own commands to everybody himself.

So the last ack is the last whichever machine relayed (`LastAcksAreLast`). What can end
the wait too early is an ack of both stages, given by a recipient who has nobody to relay
to. While the first router plays on he alone gives one straight to a giver, and then all
have the command; later a next router gives one also for a packet that was for him alone.
That is why `KeptUntilHeard` has the hypothesis `AcksMeanAll`, and it is not a weakness of
the proof: section 6 has the behaviour of four players it excludes.

### The command lists

Assumptions: the named `ASSUME`s of `NetCommandList` and `CommandTransfer`, of which
`ScriptAssumption` is the one that matters: no player gives more commands for a frame
than take half of the IDs.

`TransferInv` joins the shapes of sender and receiver (`GivenInv`, `ListsInv`,
`NodesInv`) to what makes IDs work: `IdsInv`, every message has an ID of its own among
those its sender generated, and `SentInv`, a command is sent as it is or in all its
wrappers. From it follows that the messages of a list are `WellOrdered`: a type, player
and ID stand for one message, so an ack removes no other (`KeptTillHeard`); and
`isCommandIdNewer`, which looks at IDs that overflow, orders messages of one player as
they were given. Then the scan of `addMessage` stops at the one right place
(`ScanStops`), the short cut takes it only where the last insertion leaves no other
(`AddMessageSorts`), and the lists stay sorted (`OneOrderForAll`). Sorted lists of the same
messages are equal, which is `SameCommandsSameFrame`: two machines that `FrameSync` says
have the same commands also execute them in the same order. `NodeRule` says that the
chunks of a node came, each once, from big commands with the node's ID, so a full node
is one whole command if no other has its ID (`BigOnesComeWhole`).

The loops of `NetCommandWrapperList` and of `doRelay` over the lists are recursive
functions; lemmas of their own (`AddedUpTo`, `FrameUpTo`, `DataUpTo`, `ReadyUpTo`) say
what they are step by step, and `SetInduction` carries a property along.

### The disconnect screen

Assumptions: the named `ASSUME`s of `DisconnectManager`. Nothing is assumed about
who hears whom, votes, times out or stops.

`NobodyLeftBehind` says of the frames machines are really in what the code decides by
the frames they reported. `FrameInv` closes that gap: `NotToOneself` (a message's
receivers do not include its sender), `NewsIsPast` (a frame in a message is one its
sender reached), `BeliefIsPast` (so is a frame held in `m_disconnectFrames`), and
`NotifiedWaits` (whoever has notified and shows the screen is still in the frame he
notified). The last is why a decision in frame f is taken in frame f, and the others
why everybody counted on has come at least that far. That they may have gone further
is the disagreement of section 6.

`VotedOutByAll` counts. `VoteInv` says that at most one vote of each player against
each is held (`OneVoteEach`), that what is held was cast by him (`WasCast`), and that
nobody votes against himself (`Ballots`).
The map from the votes that count to their voters is then an injection into the other
players, as many votes as connections leave none of them out (`FS_Injection`), and
each of them sent his vote in that very frame.

`ScreenTypes` needs `HeardInv`: how far one has another's commands is never further than
that one has announced (`HeardIsGiven`), a machine has run only what it had of everybody
it counts on (`RunIsHeard`), and what is sent to who is behind is of that kind
(`DataIsGiven`).

### The skirmish

`MatchInv` joins `OwnerRule`, `OutcomeRule` and `EffectRule` to the shape of `match`
and `match.outcome` to what it allows. Each part of a tick touches few fields
(`Keeps`), so one lemma carries the rules past all parts that leave their fields
alone, and one lemma per part does the rest; `TickRules` composes them in the code's
order. `OwnerEarned` is about a step: `Earned` says of the captures of one tick that a
counter gains at most one and that an owner who is new has just completed his own,
`TickEarns` that nothing after the captures touches a node (`SameNodes`), and
`OwnerRule`, of every state, that only one side has progress. For the demo `ShownInv` adds to `ResultShown` that a step runs only in the playing
screen of an undecided match; `DemoPlaysByTheRules` takes the match's results over.
`DecidedAtOnce` is the one result that depends on which commands are given: its
hypothesis is that none is `TogglePause`, which nothing in the demo submits. `DecidedInv`
then adds that the match is not paused and that the queue is one of requests
(`Waiting`), so a step always ends with a tick.

`Typing` holds what a type invariant of `TempestMatch` has to: `SelectSeq` over the
structures keeps one of each kind at a node (`OneEach`), by a lemma about what it keeps
of a sequence up to each place; every order is for what can be paid; and the queue is
`InTurn`, since a tick brings all commands nearer by one, takes those that are due from
the head, and `Submit` puts a command behind those due no later. From the last follows
that no command is late.

`OverCapacityNeverGrows` compares two sums before and after a step. An order is taken
only when it fits (`OrderFits`); a completed order moves its cost from `QueuedCosts` to
`LiveCosts`, where its kind is counted once (`KindsAre`, `Products`), so the sum is as
before; combat only takes away; and in a match that begins anew `CapacityAssumption`
does the rest. `Total` is a recursive function; `SumUpTo` and `SumSteps` say how it goes
step by step, and `TotalGrows`, `TotalAppended` and `TotalOfTail` what follows.

### The settings profile

Assumptions: the defaults bind no input twice, and there are at least as many
migration fallback keys as actions (21 for 18 in the code).

The argument. `OwnProfileLoads` needs to know what a load has done so far:
`LoadInv` says that every binding of the file has been read and kept, that for a
file of our own every action is either seen or still to be migrated, and that no
two seen actions share an input. A migration step keeps this because
`migrateBinding` looks at the seen actions only and takes what none of them has;
it never runs out because of `SomeKeyIsFree`: if every fallback key were taken by
another action, there would be more keys than other actions, which the
pigeonhole principle excludes (`FS_PigeonHole`). `FirstUnusedExists` picks the
first of the free keys, by well-foundedness of `<`. `SaveInv` says that what
replaces the profile is what is played with.

### What is left to the runs

Every invariant and every safety property of a step that a run checks is the statement
of a theorem. Only model-checked is what must happen in the end: `EverybodyAdvances`,
`EverybodyHears`, `RelayedIsFinished`, `RoutersAgree`, `GameGoesOn`, `FallenSpireDecides`,
`DueCommandsAreTaken` and the half of `DeliveredOnce` that says everything is delivered.
Fairness and `ENABLED` are outside the provers' reach. The two expected violations are
TLC's counterexamples. Induction is done over sets of numbers (`SetInduction`, from the
well-foundedness of `<`) and not by the library's theorems, whose parameter is an
operator.

## 6. Where code and comments disagree

- `disconnect_frame`: `processDisconnectPlayer` asserts that a player is dropped in
  the frame the message names (`DisconnectManager.cpp:315`). A machine that reported
  its frame may run on when late commands reach it, before it is told; the machine
  that decides and the one that is told have then run a frame with and without the
  commands of the player who is dropped.
- `sync_catch_up`: `sendSingleFrameToPlayer` (`ConnectionManager.cpp:2539`)
  subtracts unsigned numbers, so in the first `FRAMES_TO_KEEP` frames of a game it
  refuses every request, although the frames are kept for this purpose
  (`ConnectionManager.cpp:1765`).

Four more that no run of this project shows, each at its line among the hazards.
`NetworkDefs.h:41` says commands reach one frame beyond twice the maximal run ahead;
two players who leave in turn reach further, and the ring is long enough all the same
(`Agreement`), for another reason.
`NetCommandMsg.h:250` says that all players of a mask have the packet once the last ack
is returned. Of the acks of stage 2 that is proved (`LastAcksAreLast`). An ack of both
stages ends the wait as well (`processAckStage2`, `ConnectionManager.cpp:1020`), and with
four players it need not mean that: player 2 gives a command, the router 0 relays it to 1
and 3 and stops, or leaves and clears it from his queues (`ConnectionManager.cpp:1107`);
1 gives 0 up and is his own router now, when the packet with the mask of himself alone
arrives; he has nobody to relay to and acks both stages straight to 2
(`ackCommand`, `ConnectionManager.cpp:1177`), who is still of the opinion that 0 is the
router and forgets the command that 3 never gets. TLC finds it with
`Players = {0, 1, 2, 3}`, where `KeptUntilHeard` without `AcksMeanAll` and
`EverybodyHears` fail; no run listed here has four players.
The comment in `processDisconnectVote` says votes of players who are disconnected do
not count; those that arrived before he went still do (`DisconnectManager.cpp:803`),
which is why `VotedOutByAll` speaks of the first player to go.
`ProduceUnit` (`ProjectTempestDemo.cpp:508`) says that "capacity is reserved" when it
has only submitted a command, which is dropped if another came first.

## 7. What is not modelled, and why

Within the parts that are modelled: chat, load progress, file transfer, resend
requests and keep-alives of `ConnectionManager`, which no frame waits for; the packet
router query of `DisconnectManager`, whose only caller is commented out
(`updateWaitForPacketRouter`); latency averages, frame grouping and the packing of
several commands into one packet, which decide when and with what a message is sent,
and the models allow any moment; lists of commands without an ID.

Whole parts: the LAN lobby, NAT and firewall negotiation talk to machines and routers
outside this program and each is a protocol of its own; they are the next candidates.
Packet layout, sockets, metrics, rendering, audio, colour arithmetic, file systems and
the services are pure I/O or computation without a protocol of their own. The game
logic itself, some hundred thousand lines of numeric simulation, scripts and AI, is for
the lockstep a deterministic function of the commands it is given; that determinism is
a property of floating point code no model of this size can say anything about.
`PROJECT.json` lists all parts with their status. Measured in lines, almost all of the
repository is of this last kind, which is why the models cover so small a share of it.

## 8. The plan

Done: all the modules of section 3 with runs, and theorems for every safety property the
runs check. What would come next:

1. `PacketRelay` with four players, bounded so that the behaviour of section 6 becomes a
   run that expects it.
2. The link between `FrameSync` and `CommandTransfer` as a refinement of its own: the
   commands of a frame as sorted lists instead of sets.
3. The LAN lobby's slot lists, and the port negotiation of `NAT`.
