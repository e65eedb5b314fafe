------------------------------ MODULE FrameSync ------------------------------
(***************************************************************************)
(* Deterministic lockstep: Network, FrameDataManager, FrameData and the    *)
(* parts of ConnectionManager that decide when a game frame may run.       *)
(*                                                                         *)
(* Each player runs the same simulation. A command given in logic frame n  *)
(* is scheduled for frame n + runAhead on every machine. When a player is  *)
(* done with a frame it broadcasts how many commands it scheduled for it   *)
(* (NETCOMMANDTYPE_FRAMEINFO), and a machine runs a frame only when it     *)
(* holds, from every player, as many commands as that player announced.    *)
(*                                                                         *)
(* The channel is the promise of the layer below (PacketRelay): what is    *)
(* sent may arrive late, in any order and any number of times. net is the  *)
(* set of everything ever sent, so reception never removes a message.      *)
(***************************************************************************)
EXTENDS Integers, FiniteSets

CONSTANTS
    Players,              \* occupied slots, a finite set of slot numbers
    MAX_FRAMES_AHEAD,     \* twice the largest run ahead
    MIN_RUNAHEAD,
    InitialRunAhead,      \* Network::init's min(max(30, MIN), MAX / 2)
    Leavers,              \* bound: the players who may leave
    LastFrame,            \* bound: no player runs or hears of this frame
    MaxCommands,          \* bound: game commands each player may give
    MaxRunAheadChanges    \* bound: run ahead changes in a game

MaxRunAhead == MAX_FRAMES_AHEAD \div 2
ShortRing == MAX_FRAMES_AHEAD + 1                      \* mutant: no second lap
FRAME_DATA_LENGTH == (MAX_FRAMES_AHEAD + 1) * 2
KeepTooFew == MaxRunAhead - 1                          \* mutant: a wrong sign
FRAMES_TO_KEEP == MaxRunAhead + 1

ASSUME PlayersAssumption == 
    IsFiniteSet(Players) /\ Players \subseteq Nat /\ Leavers \subseteq Players
ASSUME WindowAssumption ==
    /\ MIN_RUNAHEAD \in Nat \ {0}
    /\ MAX_FRAMES_AHEAD \in Nat /\ MIN_RUNAHEAD <= MaxRunAhead
    /\ InitialRunAhead \in MIN_RUNAHEAD .. MaxRunAhead
ASSUME BoundAssumption ==
    LastFrame \in Nat \ {0} /\ MaxCommands \in [Players -> Nat] /\ MaxRunAheadChanges \in Nat

UNSET == -1          \* m_frameCommandCount of a frame nobody announced yet
NOT_QUITTING == 0    \* m_quitFrame while m_isQuitting is false

VARIABLES
    frame,               \* TheGameLogic->getFrame()
    localStatus,         \* m_localStatus
    runAhead,            \* m_runAhead
    lastExecutionFrame,  \* m_lastExecutionFrame
    lastFrameCompleted,  \* m_lastFrameCompleted: last frame announced
    managers,            \* managers[p]: the q whose m_frameData[q] is not null
    frameData,           \* frameData[p][q]: the ring of FrameData for q
    quitFrame,           \* quitFrame[p][q]: m_quitFrame of that manager
    nextCommandID,       \* s_commandID, counting the synchronised commands
    net,                 \* every synchronised message ever sent
    executed             \* history: <<frame, command>> pairs handed to the game

networkVars == <<runAhead, lastExecutionFrame, lastFrameCompleted>>
ringVars == <<managers, frameData, quitFrame>>
vars == <<frame, localStatus, networkVars, ringVars, nextCommandID, net, executed>>

-----------------------------------------------------------------------------
(* Messages *)

AnyCommand == [type : {"GAMECOMMAND", "RUNAHEAD", "PLAYERLEAVE"},
               playerID : Players, id : Nat, executionFrame : Nat, value : Nat,
               to : SUBSET Players]
Command == {c \in AnyCommand :
               c.type = "RUNAHEAD" => c.value \in MIN_RUNAHEAD .. MaxRunAhead}
FrameInfo == [type : {"FRAMEINFO"},
              playerID : Players, id : Nat, executionFrame : Nat, value : Nat,
              to : SUBSET Players]

CommandsIn(messages) == {m \in messages : m.type # "FRAMEINFO"}

(* The commands player q has scheduled for frame f. *)
Scheduled(q, f) ==
    {m \in CommandsIn(net) : m.playerID = q /\ m.executionFrame = f}

(* The players whose commands a frame waits for.                           *)
Awaited(p) == {q \in managers[p] : quitFrame[p][q] = NOT_QUITTING}

(* A message of p goes to its packet router, which relays it over its open *)
(* connections. Who that is, now or after a failover, p still waits for; a *)
(* machine that left relays nothing.                                       *)
Recipients(p) ==
    {q \in Players \ {p} :
        \E router \in Awaited(p) :
            localStatus[router] # "LEFT" /\ q \in Awaited(router)}

Message(type, p, id, f, value) ==
    [type |-> type, playerID |-> p, id |-> id, executionFrame |-> f,
     value |-> value, to |-> Recipients(p)]

-----------------------------------------------------------------------------
(* FrameData and FrameDataManager *)

SlotIndex(f) == f % FRAME_DATA_LENGTH
Slots == 0 .. FRAME_DATA_LENGTH - 1

EmptyFrame(announced) ==
    [commandList |-> {}, commandCount |-> 0, frameCommandCount |-> announced]

(* A manager of the local player keeps the announced count equal to the    *)
(* number of commands, that of another player starts unannounced.          *)
FreshFrame(isLocal) == EmptyFrame(IF isLocal THEN 0 ELSE UNSET)

SameCommand(c, d) == c.playerID = d.playerID /\ c.id = d.id

(* Mutant: without the search for a copy.                                   *)
AddWithoutSearch(d, c) ==
    [commandList |-> d.commandList \union {c},
     commandCount |-> d.commandCount + 1,
     frameCommandCount |-> d.frameCommandCount]

AddCommand(d, c) ==
    IF \E x \in d.commandList : SameCommand(x, c) THEN d
    ELSE [commandList |-> d.commandList \union {c},
          commandCount |-> d.commandCount + 1,
          frameCommandCount |-> d.frameCommandCount]

AddNetCommandMsg(ring, isLocal, c) ==
    LET added == AddCommand(ring[SlotIndex(c.executionFrame)], c)
    IN  [ring EXCEPT ![SlotIndex(c.executionFrame)] =
            IF isLocal
            THEN [added EXCEPT !.frameCommandCount = added.commandCount]
            ELSE added]

SetFrameCommandCount(ring, f, count) ==
    [ring EXCEPT ![SlotIndex(f)].frameCommandCount = count]

ResetFrame(ring, isLocal, f) ==
    [ring EXCEPT ![SlotIndex(f)] = FreshFrame(isLocal)]

ReadySigned(d) == d.frameCommandCount <= d.commandCount  \* mutant: UNSET below 0
Ready(d) == d.frameCommandCount = d.commandCount

(* The counts are unsigned: UNSET is larger than any command count.        *)
NeedsResend(d) ==
    d.frameCommandCount # UNSET /\ d.commandCount > d.frameCommandCount

(* ConnectionManager::allCommandsReady looks at the awaited slots in order *)
(* and stops at the first that is not ready. If that one holds too many    *)
(* commands the frame is thrown away for every player but the local one.   *)
AfterReadyCheck(p, rings, awaited, f) ==
    IF \E q \in awaited :
          /\ NeedsResend(rings[q][SlotIndex(f)])
          /\ \A s \in awaited : s < q => Ready(rings[s][SlotIndex(f)])
    THEN [q \in Players |->
            IF q = p THEN rings[q] ELSE ResetFrame(rings[q], FALSE, f)]
    ELSE rings

-----------------------------------------------------------------------------
(* Network and the synchronised part of ConnectionManager *)

Min(S) == CHOOSE x \in S : \A y \in S : x <= y

(* m_packetRouterSlot: the fallback plan is filled in slot order and loses *)
(* a player when his leave is executed, as the awaited players do.         *)
PacketRouter(p) == Min(Awaited(p))

GetExecutionFrame(p) ==
    IF frame[p] + runAhead[p] > lastExecutionFrame[p]
    THEN frame[p] + runAhead[p] ELSE lastExecutionFrame[p]

(* ConnectionManager::processFrameTick, with own the local ring.            *)
FrameInfoFor(p, own, f) ==
    Message("FRAMEINFO", p, 0, f, own[SlotIndex(f)].commandCount)

Init ==
    /\ frame = [p \in Players |-> 0]
    /\ localStatus = [p \in Players |-> "PREGAME"]
    /\ runAhead = [p \in Players |-> InitialRunAhead]
    /\ lastExecutionFrame = [p \in Players |-> InitialRunAhead - 1]
    /\ lastFrameCompleted = [p \in Players |-> InitialRunAhead - 1]
    /\ managers = [p \in Players |-> Players]
    /\ frameData = [p \in Players |-> [q \in Players |-> [s \in Slots |->
           IF s \in 1 .. InitialRunAhead - 1
           THEN EmptyFrame(0) ELSE FreshFrame(p = q)]]]
    /\ quitFrame = [p \in Players |-> [q \in Players |-> NOT_QUITTING]]
    /\ nextCommandID = [p \in Players |-> 1]
    /\ net = {}
    /\ executed = [p \in Players |-> {}]

(* Network::processCommand in the first update of the new frame: announce   *)
(* every frame that can get no more commands. Nothing else of the update    *)
(* reads m_lastFrame, so the announcement belongs to the step that ends the *)
(* frame before. Only a player who stays announces.                         *)
AnnounceFrames(p) ==
    IF localStatus'[p] = "INGAME"
    THEN LET next == frame'[p] + runAhead'[p]
             upTo == (IF next > lastExecutionFrame[p]
                      THEN next ELSE lastExecutionFrame[p]) - 1
         IN  /\ lastExecutionFrame' = [lastExecutionFrame EXCEPT ![p] = upTo + 1]
             /\ lastFrameCompleted' = [lastFrameCompleted EXCEPT
                   ![p] = IF upTo > @ THEN upTo ELSE @]
             /\ net' = net \union {FrameInfoFor(p, frameData'[p][p], f) :
                                     f \in lastFrameCompleted[p] + 1 .. upTo}
    ELSE UNCHANGED <<lastExecutionFrame, lastFrameCompleted, net>>

(* The part every command given by the local player shares.                *)
Schedule(p, c) ==
    /\ nextCommandID' = [nextCommandID EXCEPT ![p] = @ + 1]
    /\ frameData' = [frameData EXCEPT ![p][p] = AddNetCommandMsg(@, TRUE, c)]

GivenBy(p, type) == {m \in net : m.type = type /\ m.playerID = p}

(* Network::GetCommandsFromCommandList hands a game message over.           *)
IssueCommand(p) ==
    LET f == GetExecutionFrame(p)
        c == Message("GAMECOMMAND", p, nextCommandID[p], f, 0)
    IN  /\ localStatus[p] = "INGAME"
        /\ Cardinality(GivenBy(p, "GAMECOMMAND")) < MaxCommands[p]
        /\ lastExecutionFrame' = [lastExecutionFrame EXCEPT ![p] = f]
        /\ Schedule(p, c)
        /\ net' = net \union {c}
        /\ UNCHANGED <<frame, localStatus, runAhead, lastFrameCompleted,
                       managers, quitFrame, executed>>

(* ConnectionManager::updateRunAhead: the packet router picks any run ahead *)
(* the clamp allows; metrics and frame rate are left out.                   *)
UpdateRunAhead(p, newRunAhead) ==
    LET f == GetExecutionFrame(p)
        c == Message("RUNAHEAD", p, nextCommandID[p], f, newRunAhead)
    IN  /\ localStatus[p] = "INGAME"
        /\ p = PacketRouter(p)
        /\ Cardinality(GivenBy(p, "RUNAHEAD")) < MaxRunAheadChanges
        /\ newRunAhead \in MIN_RUNAHEAD .. MaxRunAhead
        /\ lastExecutionFrame' = [lastExecutionFrame EXCEPT ![p] = f]
        /\ Schedule(p, c)
        /\ net' = net \union {c}
        /\ UNCHANGED <<frame, localStatus, runAhead, lastFrameCompleted,
                       managers, quitFrame, executed>>

LeaveFrameOnly(f) == {f}                   \* mutant: one frame short
LeaveFrames(f) == {f, f + 1}

(* Network::processCommand of MSG_CLEAR_GAME_DATA: the leave is scheduled   *)
(* one frame past the execution frame and both frames are announced.        *)
LeaveGame(p) ==
    LET f == GetExecutionFrame(p)
        c == Message("PLAYERLEAVE", p, nextCommandID[p], f + 1, 0)
    IN  /\ localStatus[p] = "INGAME" /\ p \in Leavers
        /\ lastExecutionFrame' = [lastExecutionFrame EXCEPT ![p] = f]
        /\ lastFrameCompleted' = [lastFrameCompleted EXCEPT ![p] = f]
        /\ localStatus' = [localStatus EXCEPT ![p] = "LEAVING"]
        /\ Schedule(p, c)
        /\ net' = net \union {c} \union
              {FrameInfoFor(p, frameData'[p][p], g) : g \in LeaveFrames(f)}
        /\ UNCHANGED <<frame, runAhead, managers, quitFrame, executed>>

(* A copy of a synchronised message arrives: ConnectionManager::doRelay,    *)
(* processNetCommand and sendRemoteCommand, whose cushion metric tests the  *)
(* message's frame. Frames already run are refused.                         *)
CanReceive(p, m) ==
    /\ p \in m.to /\ localStatus[p] # "LEFT"
    /\ m.playerID \in managers[p]
    /\ frame[p] <= m.executionFrame /\ m.executionFrame < LastFrame

Received(p, m) ==
    [frameData[p] EXCEPT ![m.playerID] =
        IF m.type = "FRAMEINFO"
        THEN SetFrameCommandCount(@, m.executionFrame, m.value)
        ELSE AddNetCommandMsg(@, FALSE, m)]

Receive(p, m) ==
    /\ CanReceive(p, m)
    /\ frameData' = [frameData EXCEPT ![p] =
           AfterReadyCheck(p, Received(p, m), Awaited(p), m.executionFrame)]
    /\ UNCHANGED <<frame, localStatus, networkVars, managers, quitFrame,
                   nextCommandID, net, executed>>

(* Frame 0 runs before the game starts: nobody waits for anybody.           *)
ExecutePregameFrame(p) ==
    /\ localStatus[p] = "PREGAME"
    /\ frame' = [frame EXCEPT ![p] = 1]
    /\ localStatus' = [localStatus EXCEPT ![p] = "INGAME"]
    /\ UNCHANGED <<runAhead, ringVars, nextCommandID, executed>>
    /\ AnnounceFrames(p)

FrameCommands(p, f) ==
    UNION {frameData[p][q][SlotIndex(f)].commandList : q \in managers[p]}

(* Commands of a frame run by player, then by command ID: the run ahead is *)
(* the one of the last change among them.                                  *)
RunAheadStep(old, commands) ==                       \* mutant: a relative change
    {old + c.value : c \in {x \in commands : x.type = "RUNAHEAD"}} \union {old}

RunAheadAfter(old, commands) ==
    LET changes == {c \in commands : c.type = "RUNAHEAD"}
        Precedes(d, c) == \/ d.playerID < c.playerID
                          \/ d.playerID = c.playerID /\ d.id <= c.id
    IN  IF changes = {} THEN {old}
        ELSE {c.value : c \in {x \in changes : \A d \in changes : Precedes(d, x)}}

LeaversIn(commands) ==
    {c.playerID : c \in {d \in commands : d.type = "PLAYERLEAVE"}}

(* Network::update finds the frame ready: getFrameCommandList takes the     *)
(* commands and frees the frame FRAMES_TO_KEEP back, the commands are run   *)
(* (processFrameSynchronizedNetCommand) and the logic advances. The update  *)
(* of the next frame drops the managers whose quit frame it is and tests    *)
(* that frame.                                                              *)
ExecuteFrame(p) ==
    LET f == frame[p]
        commands == FrameCommands(p, f)
        leavers == LeaversIn(commands)
        rings == [q \in Players |->
                     IF q \in managers[p] /\ f > FRAMES_TO_KEEP
                     THEN ResetFrame(frameData[p][q], q = p, f - FRAMES_TO_KEEP)
                     ELSE frameData[p][q]]
    IN  /\ localStatus[p] \in {"INGAME", "LEAVING"} /\ f < LastFrame
        /\ \A q \in Awaited(p) : Ready(frameData[p][q][SlotIndex(f)])
        /\ frame' = [frame EXCEPT ![p] = f + 1]
        /\ executed' = [executed EXCEPT ![p] = @ \union {<<f, c>> : c \in commands}]
        /\ \E r \in RunAheadAfter(runAhead[p], commands) :
              runAhead' = [runAhead EXCEPT ![p] = r]
        /\ localStatus' = [localStatus EXCEPT ![p] = IF p \in leavers THEN "LEFT" ELSE @]
        /\ quitFrame' = [quitFrame EXCEPT ![p] = [q \in Players |->
              IF q \in leavers \ {p} /\ @[q] = NOT_QUITTING
              THEN f + FRAMES_TO_KEEP + 1 ELSE @[q]]]
        /\ managers' = [managers EXCEPT ![p] =
              {q \in @ : quitFrame[p][q] # f + 1} \ (leavers \intersect {p})]
        /\ frameData' = [frameData EXCEPT ![p] =
              AfterReadyCheck(p, rings, Awaited(p) \ leavers, f + 1)]
        /\ AnnounceFrames(p)
        /\ UNCHANGED nextCommandID

BoundReached ==
    /\ \A p \in Players : frame[p] = LastFrame \/ localStatus[p] = "LEFT"
    /\ UNCHANGED vars

Next ==
    \/ \E p \in Players :
          \/ IssueCommand(p)
          \/ \E r \in MIN_RUNAHEAD .. MaxRunAhead : UpdateRunAhead(p, r)
          \/ LeaveGame(p)
          \/ \E m \in net : Receive(p, m)
          \/ ExecutePregameFrame(p)
          \/ ExecuteFrame(p)
    \/ BoundReached

Spec == Init /\ [][Next]_vars

(* Every machine keeps updating its Network, and the layer below keeps      *)
(* resending what has not been acknowledged.                                *)
Fairness ==
    \A p \in Players :
        /\ WF_vars(ExecutePregameFrame(p) \/ ExecuteFrame(p))
        /\ WF_vars(\E m \in net : Receive(p, m))

FairSpec == Spec /\ Fairness

-----------------------------------------------------------------------------
(* Properties *)

FrameDataType ==
    [commandList : SUBSET Command, commandCount : Nat,
     frameCommandCount : Nat \union {UNSET}]

(* Every variable has its type; the run ahead stays inside its clamp, the   *)
(* announced frames stay below the frame commands are scheduled for.        *)
TypeOK ==
    /\ frame \in [Players -> 0 .. LastFrame]
    /\ localStatus \in [Players -> {"PREGAME", "INGAME", "LEAVING", "LEFT"}]
    /\ runAhead \in [Players -> MIN_RUNAHEAD .. MaxRunAhead]
    /\ lastExecutionFrame \in [Players -> Nat]
    /\ lastFrameCompleted \in [Players -> Nat]
    /\ managers \in [Players -> SUBSET Players]
    /\ frameData \in [Players -> [Players -> [Slots -> FrameDataType]]]
    /\ quitFrame \in [Players -> [Players -> Nat]]
    /\ nextCommandID \in [Players -> Nat \ {0}]
    /\ net \subseteq Command \union FrameInfo
    /\ executed \in [Players -> SUBSET (Nat \X Command)]

(* The game is in sync: a machine that reached frame n has run exactly the  *)
(* commands scheduled for frames before n by anybody, each in the frame it  *)
(* was scheduled for (Network::RelayCommandsToCommandList).                 *)
LockstepAgreement ==
    \A p \in Players :
        executed[p] = {<<c.executionFrame, c>> :
                          c \in {d \in CommandsIn(net) : d.executionFrame < frame[p]}}

(* No machine ever holds more commands for a frame than were announced, nor *)
(* does any message that may still arrive make it: the FRAMEDATA_RESEND case*)
(* of FrameData::allCommandsReady, which throws the frame of every player   *)
(* away, never happens to a frame within twice the run ahead.               *)
NeverTooManyCommands ==
    \A p \in Players : localStatus[p] # "LEFT" =>
        /\ \A q \in managers[p], f \in frame[p] .. frame[p] + MAX_FRAMES_AHEAD :
              ~NeedsResend(frameData[p][q][SlotIndex(f)])
        /\ \A m \in net :
              CanReceive(p, m) /\ m.executionFrame <= frame[p] + MAX_FRAMES_AHEAD =>
                 ~NeedsResend(Received(p, m)[m.playerID][SlotIndex(m.executionFrame)])

(* Machines in the same frame run with the same run ahead, so they schedule *)
(* and seal frames alike (Network::processRunAheadCommand).                 *)
SameRunAhead ==
    \A p, q \in Players :
        frame[p] = frame[q] /\ "LEFT" \notin {localStatus[p], localStatus[q]}
            => runAhead[p] = runAhead[q]

(* The ring is one lap: the frames kept behind, and as many from there on   *)
(* as it has slots.                                                         *)
Lap(p) ==
    LET first == IF frame[p] <= FRAMES_TO_KEEP THEN 1 ELSE frame[p] - FRAMES_TO_KEEP
    IN  first .. first + FRAME_DATA_LENGTH - 1

(* The ring never mixes two frames while its owner plays: what a slot holds,*)
(* commands and count, is of the one frame of the lap that belongs there,   *)
(* though others run ahead and announce frames the owner has not reached    *)
(* (getFrameCommandList keeps some, resetFrame frees them a lap later).     *)
OneFramePerSlot ==
    \A p \in Players : localStatus[p] = "INGAME" =>
        \A q \in managers[p], f \in Lap(p) :
            LET d == frameData[p][q][SlotIndex(f)]
            IN  /\ d.commandList \subseteq Scheduled(q, f)
                /\ d.frameCommandCount # UNSET =>
                      d.frameCommandCount = Cardinality(Scheduled(q, f))

(* What getFrameCommandList keeps is enough for a laggard: a machine ahead  *)
(* still holds, for every frame the other has not run, what each third      *)
(* player scheduled, with the count that releases the frame; and for the    *)
(* frame the other is stuck in, the count of those who scheduled nothing.   *)
KeptFramesReachLaggard ==
    \A p, q \in Players :
        (localStatus[p] = "INGAME" /\ localStatus[q] = "INGAME") =>
        \A g \in frame[q] .. frame[p] - 1 : \A s \in Players \ {q} :
            Scheduled(s, g) # {} \/ (g = frame[q] /\ s \in Awaited(q)) =>
                /\ s \in managers[p]
                /\ frameData[p][s][SlotIndex(g)].commandList = Scheduled(s, g)
                /\ Ready(frameData[p][s][SlotIndex(g)])

(* ConnectionManager::sendSingleFrameToPlayer compares unsigned numbers, so *)
(* early in the game frame - FRAMES_TO_KEEP wraps to a huge one.            *)
SendsOnRequest(p, f) == frame[p] >= FRAMES_TO_KEEP /\ frame[p] - FRAMES_TO_KEEP <= f

(* ConnectionManager.cpp:1765: the last frames are kept so they can be sent *)
(* to players who must catch up.                                            *)
LaggardCanCatchUp ==
    \A p, q \in Players :
        (localStatus[p] = "INGAME" /\ localStatus[q] = "INGAME") =>
        \A g \in frame[q] .. frame[p] - 1 : SendsOnRequest(p, g)

(* Everybody who does not leave reaches every frame, whoever else leaves.   *)
EverybodyAdvances ==
    \A p \in Players : <>(frame[p] = LastFrame \/ localStatus[p] = "LEFT")

=============================================================================
