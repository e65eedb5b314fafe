------------------------ MODULE FrameSyncSteps_proofs ------------------------
(***************************************************************************)
(* Every variable of FrameSync keeps its type, for any number of players,  *)
(* any window size and any bounds; what the steps need to know of the ring *)
(* of frames and of the distance between machines; and that every step     *)
(* keeps CoreInv.                                                          *)
(***************************************************************************)
EXTENDS FrameSyncInv, FiniteSetTheorems, TLAPS

RingType == [Slots -> FrameDataType]

-----------------------------------------------------------------------------
(* The window *)

(* The sizes the ring is cut into are natural numbers.                      *)
LEMMA WindowSizes ==
    /\ MaxRunAhead \in Nat \ {0}
    /\ 2 * MaxRunAhead <= MAX_FRAMES_AHEAD
    /\ FRAME_DATA_LENGTH \in Nat \ {0}
    /\ 4 * MaxRunAhead + 2 <= FRAME_DATA_LENGTH
    /\ FRAMES_TO_KEEP = MaxRunAhead + 1
    /\ MIN_RUNAHEAD \in Nat \ {0}
    /\ InitialRunAhead \in Nat \ {0}
    /\ InitialRunAhead <= MaxRunAhead
BY WindowAssumption, SMT
   DEF MaxRunAhead, FRAME_DATA_LENGTH, FRAMES_TO_KEEP

(* Every frame has a slot in the ring.                                      *)
LEMMA SlotInRing == \A f \in Nat : SlotIndex(f) \in Slots
BY WindowSizes, SMT DEF SlotIndex, Slots

-----------------------------------------------------------------------------
(* Types of the ring operations *)

(* Messages built from typed parts are typed.                               *)
LEMMA MessageIsCommand ==
    ASSUME NEW type \in {"GAMECOMMAND", "RUNAHEAD", "PLAYERLEAVE"},
           NEW p \in Players, NEW id \in Nat, NEW f \in Nat, NEW value \in Nat,
           type = "RUNAHEAD" => value \in MIN_RUNAHEAD .. MaxRunAhead
    PROVE  Message(type, p, id, f, value) \in Command
BY SMT DEF Message, Recipients, Command, AnyCommand

(* A frame info built from typed parts is typed.                            *)
LEMMA MessageIsFrameInfo ==
    ASSUME NEW p \in Players, NEW f \in Nat, NEW value \in Nat
    PROVE  Message("FRAMEINFO", p, 0, f, value) \in FrameInfo
BY SMT DEF Message, Recipients, FrameInfo

(* Adding a command to a frame leaves a frame.                              *)
LEMMA AddCommandType ==
    ASSUME NEW d \in FrameDataType, NEW c \in Command
    PROVE  AddCommand(d, c) \in FrameDataType
<1>1. /\ d.commandList \in SUBSET Command /\ d.commandCount \in Nat
      /\ d.frameCommandCount \in Nat \union {UNSET}
  BY SMT DEF FrameDataType
<1>2. d.commandList \union {c} \in SUBSET Command /\ d.commandCount + 1 \in Nat
  BY <1>1, SMT
<1> QED
  BY <1>1, <1>2, SMT DEF AddCommand, FrameDataType

(* So does adding it to the ring,                                           *)
LEMMA AddNetCommandMsgType ==
    ASSUME NEW ring \in RingType, NEW isLocal \in BOOLEAN,
           NEW c \in Command
    PROVE  AddNetCommandMsg(ring, isLocal, c) \in RingType
<1> DEFINE i == SlotIndex(c.executionFrame)
           added == AddCommand(ring[i], c)
<1>1. i \in Slots
  BY SlotInRing, SMT DEF Command, AnyCommand
<1>2. added \in FrameDataType
  BY <1>1, AddCommandType DEF RingType
<1>3. [added EXCEPT !.frameCommandCount = added.commandCount] \in FrameDataType
  BY <1>2, SMT DEF FrameDataType
<1> QED
  BY <1>1, <1>2, <1>3, SMT DEF AddNetCommandMsg, RingType

(* setting the announced count,                                             *)
LEMMA SetFrameCommandCountType ==
    ASSUME NEW ring \in RingType, NEW f \in Nat, NEW count \in Nat
    PROVE  SetFrameCommandCount(ring, f, count) \in RingType
<1>1. SlotIndex(f) \in Slots
  BY SlotInRing
<1>2. [ring[SlotIndex(f)] EXCEPT !.frameCommandCount = count] \in FrameDataType
  BY <1>1, SMT DEF RingType, FrameDataType
<1> QED
  BY <1>1, <1>2, SMT DEF SetFrameCommandCount, RingType

(* emptying a frame,                                                        *)
LEMMA EmptyFrameType ==
    ASSUME NEW announced \in Nat \union {UNSET}
    PROVE  EmptyFrame(announced) \in FrameDataType
BY SMT DEF EmptyFrame, FrameDataType

(* resetting it in the ring,                                                *)
LEMMA ResetFrameType ==
    ASSUME NEW ring \in RingType, NEW isLocal \in BOOLEAN, NEW f \in Nat
    PROVE  ResetFrame(ring, isLocal, f) \in RingType
<1>1. SlotIndex(f) \in Slots
  BY SlotInRing
<1>2. FreshFrame(isLocal) \in FrameDataType
  BY EmptyFrameType, SMT DEF FreshFrame, UNSET
<1> QED
  BY <1>1, <1>2, SMT DEF ResetFrame, RingType

(* and throwing it away for every player.                                   *)
LEMMA AfterReadyCheckType ==
    ASSUME NEW p \in Players, NEW rings \in [Players -> RingType],
           NEW awaited, NEW f \in Nat
    PROVE  AfterReadyCheck(p, rings, awaited, f) \in [Players -> RingType]
<1>1. \A q \in Players : ResetFrame(rings[q], FALSE, f) \in RingType
  BY ResetFrameType
<1> QED
  BY <1>1 DEF AfterReadyCheck

-----------------------------------------------------------------------------
(* Type correctness *)

(* The initial state is typed.                                              *)
LEMMA TypeInit == Init => TypeOK
<1> SUFFICES ASSUME Init PROVE TypeOK
  OBVIOUS
<1> USE DEF Init
<1>1. \A b \in BOOLEAN : FreshFrame(b) \in FrameDataType
  <2>1. 0 \in Nat \union {UNSET} /\ UNSET \in Nat \union {UNSET}
    OBVIOUS
  <2> QED
    BY <2>1, EmptyFrameType DEF FreshFrame
<1>2. EmptyFrame(0) \in FrameDataType
  BY EmptyFrameType
<1>3. frameData \in [Players -> [Players -> RingType]]
  <2>1. \A p, q \in Players : \A s \in Slots :
          (IF s \in 1 .. InitialRunAhead - 1
           THEN EmptyFrame(0) ELSE FreshFrame(p = q)) \in FrameDataType
    BY <1>1, <1>2
  <2> QED
    BY <2>1 DEF RingType
<1>4. /\ frame \in [Players -> 0 .. LastFrame]
      /\ runAhead \in [Players -> MIN_RUNAHEAD .. MaxRunAhead]
      /\ lastExecutionFrame \in [Players -> Nat]
      /\ lastFrameCompleted \in [Players -> Nat]
      /\ quitFrame \in [Players -> [Players -> Nat]]
      /\ nextCommandID \in [Players -> Nat \ {0}]
  BY WindowAssumption, BoundAssumption, SMT DEF NOT_QUITTING
<1> QED
  BY <1>3, <1>4 DEF TypeOK, RingType

(* The local player's own count of a frame is a natural number.             *)
LEMMA FrameInfoForType ==
    ASSUME NEW p \in Players, NEW own \in RingType, NEW f \in Nat
    PROVE  FrameInfoFor(p, own, f) \in FrameInfo
<1>1. own[SlotIndex(f)].commandCount \in Nat
  BY SlotInRing, SMT DEF RingType, FrameDataType
<1> QED
  BY <1>1, MessageIsFrameInfo DEF FrameInfoFor

(* Commands are scheduled for a frame number.                               *)
LEMMA ExecutionFrameType ==
    ASSUME TypeOK, NEW p \in Players
    PROVE  GetExecutionFrame(p) \in Nat
BY WindowAssumption, SMT DEF TypeOK, GetExecutionFrame, MaxRunAhead

(* Giving a command keeps the types of what it changes,                     *)
LEMMA ScheduleType ==
    ASSUME TypeOK, NEW p \in Players, NEW c \in Command, Schedule(p, c)
    PROVE  /\ nextCommandID' \in [Players -> Nat \ {0}]
           /\ frameData' \in [Players -> [Players -> RingType]]
           /\ frameData'[p][p] \in RingType
<1>1. frameData \in [Players -> [Players -> RingType]]
  BY DEF TypeOK, RingType
<1>2. AddNetCommandMsg(frameData[p][p], TRUE, c) \in RingType
  BY <1>1, AddNetCommandMsgType
<1>3. frameData' = [frameData EXCEPT ![p] =
                      [frameData[p] EXCEPT ![p] = AddNetCommandMsg(frameData[p][p], TRUE, c)]]
  BY DEF Schedule
<1>4. [frameData[p] EXCEPT ![p] = AddNetCommandMsg(frameData[p][p], TRUE, c)]
        \in [Players -> RingType]
  BY <1>1, <1>2
<1>5. nextCommandID' \in [Players -> Nat \ {0}]
  BY SMT DEF TypeOK, Schedule
<1> QED
  BY <1>1, <1>2, <1>3, <1>4, <1>5

(* and so does announcing frames.                                           *)
LEMMA AnnounceFramesType ==
    ASSUME TypeOK, NEW p \in Players, AnnounceFrames(p),
           frame'[p] \in Nat, runAhead'[p] \in Nat \ {0},
           frameData'[p][p] \in RingType
    PROVE  /\ lastExecutionFrame' \in [Players -> Nat]
           /\ lastFrameCompleted' \in [Players -> Nat]
           /\ net' \subseteq Command \union FrameInfo
<1>1. CASE localStatus'[p] # "INGAME"
  BY <1>1 DEF AnnounceFrames, TypeOK
<1>2. CASE localStatus'[p] = "INGAME"
  <2> DEFINE next == frame'[p] + runAhead'[p]
             upTo == (IF next > lastExecutionFrame[p]
                      THEN next ELSE lastExecutionFrame[p]) - 1
  <2>1. /\ lastExecutionFrame' = [lastExecutionFrame EXCEPT ![p] = upTo + 1]
        /\ lastFrameCompleted' = [lastFrameCompleted EXCEPT
              ![p] = IF upTo > @ THEN upTo ELSE @]
        /\ net' = net \union {FrameInfoFor(p, frameData'[p][p], f) :
                                f \in lastFrameCompleted[p] + 1 .. upTo}
    BY <1>2, SMT DEF AnnounceFrames
  <2>2. upTo \in Nat
    <3>1. lastExecutionFrame[p] \in Nat
      BY DEF TypeOK
    <3>2. next \in Nat \ {0}
      BY SMT
    <3> HIDE DEF next
    <3> QED
      BY <3>1, <3>2, SMT
  <2> HIDE DEF upTo
  <2>3. \A f \in lastFrameCompleted[p] + 1 .. upTo : f \in Nat
    BY <2>2, SMT DEF TypeOK
  <2>4. \A f \in lastFrameCompleted[p] + 1 .. upTo :
          FrameInfoFor(p, frameData'[p][p], f) \in FrameInfo
    BY <2>3, FrameInfoForType
  <2>5. net' \subseteq Command \union FrameInfo
    BY <2>1, <2>4 DEF TypeOK
  <2>6. lastFrameCompleted' \in [Players -> Nat]
    BY <2>1, <2>2, SMT DEF TypeOK
  <2>7. lastExecutionFrame' \in [Players -> Nat]
    BY <2>1, <2>2, SMT DEF TypeOK
  <2> QED
    BY <2>5, <2>6, <2>7
<1> QED
  BY <1>1, <1>2

(* Every step keeps the types.                                              *)
LEMMA TypeNext == TypeOK /\ [Next]_vars => TypeOK'
<1> SUFFICES ASSUME TypeOK, [Next]_vars PROVE TypeOK'
  OBVIOUS
<1> USE DEF RingType
<1>0. frameData \in [Players -> [Players -> RingType]]
  BY DEF TypeOK
<1>1. ASSUME NEW p \in Players, IssueCommand(p) PROVE TypeOK'
  <2> DEFINE c == Message("GAMECOMMAND", p, nextCommandID[p], GetExecutionFrame(p), 0)
  <2>1. c \in Command
    BY ExecutionFrameType, MessageIsCommand DEF TypeOK
  <2>2. Schedule(p, c)
    BY <1>1 DEF IssueCommand
  <2>3. /\ lastExecutionFrame' = [lastExecutionFrame EXCEPT ![p] = GetExecutionFrame(p)]
        /\ net' = net \union {c}
        /\ UNCHANGED <<frame, localStatus, runAhead, lastFrameCompleted,
                       managers, quitFrame, executed>>
    BY <1>1 DEF IssueCommand
  <2> HIDE DEF c
  <2> QED
    BY <2>1, <2>2, <2>3, ScheduleType, ExecutionFrameType DEF TypeOK
<1>2. ASSUME NEW p \in Players, NEW r \in MIN_RUNAHEAD .. MaxRunAhead,
             UpdateRunAhead(p, r)
      PROVE  TypeOK'
  <2> DEFINE c == Message("RUNAHEAD", p, nextCommandID[p], GetExecutionFrame(p), r)
  <2>1. r \in Nat
    BY WindowSizes, SMT
  <2>2. c \in Command
    BY <2>1, ExecutionFrameType, MessageIsCommand DEF TypeOK
  <2>3. Schedule(p, c)
    BY <1>2 DEF UpdateRunAhead
  <2>4. /\ lastExecutionFrame' = [lastExecutionFrame EXCEPT ![p] = GetExecutionFrame(p)]
        /\ net' = net \union {c}
        /\ UNCHANGED <<frame, localStatus, runAhead, lastFrameCompleted,
                       managers, quitFrame, executed>>
    BY <1>2 DEF UpdateRunAhead
  <2> HIDE DEF c
  <2> QED
    BY <2>2, <2>3, <2>4, ScheduleType, ExecutionFrameType DEF TypeOK
<1>3. ASSUME NEW p \in Players, LeaveGame(p) PROVE TypeOK'
  <2> DEFINE f == GetExecutionFrame(p)
             c == Message("PLAYERLEAVE", p, nextCommandID[p], f + 1, 0)
  <2>1. f \in Nat /\ f + 1 \in Nat
    BY ExecutionFrameType, SMT
  <2>2. c \in Command
    BY <2>1, MessageIsCommand DEF TypeOK
  <2>3. Schedule(p, c)
    BY <1>3 DEF LeaveGame
  <2>4. /\ lastExecutionFrame' = [lastExecutionFrame EXCEPT ![p] = f]
        /\ lastFrameCompleted' = [lastFrameCompleted EXCEPT ![p] = f]
        /\ localStatus' = [localStatus EXCEPT ![p] = "LEAVING"]
        /\ net' = net \union {c} \union
              {FrameInfoFor(p, frameData'[p][p], g) : g \in {f, f + 1}}
        /\ UNCHANGED <<frame, runAhead, managers, quitFrame, executed>>
    BY <1>3 DEF LeaveGame, LeaveFrames
  <2> HIDE DEF c, f
  <2>5. \A g \in {f, f + 1} : FrameInfoFor(p, frameData'[p][p], g) \in FrameInfo
    BY <2>1, <2>2, <2>3, ScheduleType, FrameInfoForType
  <2>6. net' \subseteq Command \union FrameInfo
    BY <2>2, <2>4, <2>5 DEF TypeOK
  <2> QED
    BY <2>1, <2>2, <2>3, <2>4, <2>6, ScheduleType DEF TypeOK
<1>4. ASSUME NEW p \in Players, NEW m \in net, Receive(p, m) PROVE TypeOK'
  <2> DEFINE q == m.playerID
             ring == IF m.type = "FRAMEINFO"
                     THEN SetFrameCommandCount(frameData[p][q], m.executionFrame, m.value)
                     ELSE AddNetCommandMsg(frameData[p][q], FALSE, m)
             received == [frameData[p] EXCEPT ![q] = ring]
             checked == AfterReadyCheck(p, received, Awaited(p), m.executionFrame)
  <2>1. m \in Command \union FrameInfo
    BY DEF TypeOK
  <2>2. q \in Players /\ m.executionFrame \in Nat
    BY <2>1, SMT DEF Command, AnyCommand, FrameInfo
  <2>3. m.type = "FRAMEINFO" => m.value \in Nat
    BY <2>1, SMT DEF Command, AnyCommand, FrameInfo
  <2>4. m.type # "FRAMEINFO" => m \in Command
    BY <2>1, SMT DEF FrameInfo
  <2>5. frameData[p][q] \in RingType
    BY <1>0, <2>2
  <2>6. ring \in RingType
    BY <2>2, <2>3, <2>4, <2>5, SetFrameCommandCountType, AddNetCommandMsgType
  <2>7. received \in [Players -> RingType]
    <3> HIDE DEF ring
    <3> QED
      BY <1>0, <2>2, <2>6
  <2>8. frameData' = [frameData EXCEPT ![p] = checked]
    BY <1>4 DEF Receive, Received
  <2>9. checked \in [Players -> RingType]
    <3> HIDE DEF received
    <3> QED
      BY <2>2, <2>7, AfterReadyCheckType
  <2>10. frameData' \in [Players -> [Players -> RingType]]
    <3> HIDE DEF checked
    <3> QED
      BY <1>0, <2>8, <2>9
  <2>11. UNCHANGED <<frame, localStatus, networkVars, managers, quitFrame,
                    nextCommandID, net, executed>>
    BY <1>4 DEF Receive
  <2> QED
    BY <2>10, <2>11 DEF TypeOK, networkVars
<1>5. ASSUME NEW p \in Players, ExecutePregameFrame(p) PROVE TypeOK'
  <2>1. /\ frame' = [frame EXCEPT ![p] = 1]
        /\ localStatus' = [localStatus EXCEPT ![p] = "INGAME"]
        /\ UNCHANGED <<runAhead, ringVars, nextCommandID, executed>>
        /\ AnnounceFrames(p)
    BY <1>5 DEF ExecutePregameFrame
  <2>2. frame'[p] \in Nat /\ frame' \in [Players -> 0 .. LastFrame]
    BY <2>1, BoundAssumption, SMT DEF TypeOK
  <2>3. runAhead'[p] \in Nat \ {0}
    BY <2>1, WindowSizes, SMT DEF TypeOK
  <2>4. frameData' = frameData /\ managers' = managers /\ quitFrame' = quitFrame
    BY <2>1 DEF ringVars
  <2> QED
    BY <1>0, <2>1, <2>2, <2>3, <2>4, AnnounceFramesType DEF TypeOK
<1>6. ASSUME NEW p \in Players, ExecuteFrame(p) PROVE TypeOK'
  <2> DEFINE f == frame[p]
             commands == FrameCommands(p, f)
             leavers == LeaversIn(commands)
             rings == [q \in Players |->
                         IF q \in managers[p] /\ f > FRAMES_TO_KEEP
                         THEN ResetFrame(frameData[p][q], q = p, f - FRAMES_TO_KEEP)
                         ELSE frameData[p][q]]
  <2>1. f \in Nat /\ f + 1 \in 0 .. LastFrame /\ f + 1 \in Nat
    BY <1>6, BoundAssumption, SMT DEF ExecuteFrame, TypeOK
  <2>2. commands \subseteq Command
    <3>1. SlotIndex(f) \in Slots
      BY <2>1, SlotInRing
    <3>2. \A q \in managers[p] : frameData[p][q][SlotIndex(f)] \in FrameDataType
      BY <1>0, <3>1 DEF TypeOK
    <3> QED
      BY <3>2, SMT DEF FrameCommands, FrameDataType
  <2>3. rings \in [Players -> RingType]
    <3>1. f > FRAMES_TO_KEEP => f - FRAMES_TO_KEEP \in Nat
      BY <2>1, WindowSizes, SMT
    <3>2. \A q \in Players : f > FRAMES_TO_KEEP =>
            ResetFrame(frameData[p][q], q = p, f - FRAMES_TO_KEEP) \in RingType
      BY <1>0, <3>1, ResetFrameType
    <3> QED
      BY <1>0, <3>2
  <2>4. /\ frame' = [frame EXCEPT ![p] = f + 1]
        /\ executed' = [executed EXCEPT ![p] = @ \union {<<f, c>> : c \in commands}]
        /\ \E r \in RunAheadAfter(runAhead[p], commands) :
              runAhead' = [runAhead EXCEPT ![p] = r]
        /\ localStatus' = [localStatus EXCEPT ![p] = IF p \in leavers THEN "LEFT" ELSE @]
        /\ quitFrame' = [quitFrame EXCEPT ![p] = [q \in Players |->
              IF q \in leavers \ {p} /\ quitFrame[p][q] = NOT_QUITTING
              THEN f + FRAMES_TO_KEEP + 1 ELSE quitFrame[p][q]]]
        /\ managers' = [managers EXCEPT ![p] =
              {q \in managers[p] : quitFrame[p][q] # f + 1} \ (leavers \intersect {p})]
        /\ frameData' = [frameData EXCEPT ![p] =
              AfterReadyCheck(p, rings, Awaited(p) \ leavers, f + 1)]
        /\ AnnounceFrames(p)
        /\ UNCHANGED nextCommandID
    BY <1>6 DEF ExecuteFrame
  <2> HIDE DEF f, commands, leavers, rings
  <2>5. frame' \in [Players -> 0 .. LastFrame] /\ frame'[p] \in Nat
    BY <2>1, <2>4, SMT DEF TypeOK
  <2>6. executed' \in [Players -> SUBSET (Nat \X Command)]
    <3>1. {<<f, c>> : c \in commands} \in SUBSET (Nat \X Command)
      BY <2>1, <2>2
    <3> QED
      BY <2>4, <3>1 DEF TypeOK
  <2>7. \A r \in RunAheadAfter(runAhead[p], commands) : r \in MIN_RUNAHEAD .. MaxRunAhead
    BY <2>2 DEF RunAheadAfter, Command, TypeOK
  <2>8. runAhead' \in [Players -> MIN_RUNAHEAD .. MaxRunAhead] /\ runAhead'[p] \in Nat \ {0}
    <3>1. PICK r \in MIN_RUNAHEAD .. MaxRunAhead : runAhead' = [runAhead EXCEPT ![p] = r]
      BY <2>4, <2>7
    <3> QED
      BY <3>1, WindowSizes, SMT DEF TypeOK
  <2>9. localStatus' \in [Players -> {"PREGAME", "INGAME", "LEAVING", "LEFT"}]
    BY <2>4 DEF TypeOK
  <2>10. quitFrame' \in [Players -> [Players -> Nat]]
    <3>1. f + FRAMES_TO_KEEP + 1 \in Nat
      BY <2>1, WindowSizes, SMT
    <3>2. \A q \in Players : quitFrame[p][q] \in Nat
      BY DEF TypeOK
    <3>3. [q \in Players |-> IF q \in leavers \ {p} /\ quitFrame[p][q] = NOT_QUITTING
                             THEN f + FRAMES_TO_KEEP + 1 ELSE quitFrame[p][q]]
            \in [Players -> Nat]
      BY <3>1, <3>2
    <3> QED
      BY <2>4, <3>3 DEF TypeOK
  <2>11. managers' \in [Players -> SUBSET Players]
    BY <2>4 DEF TypeOK
  <2>12. frameData' \in [Players -> [Players -> RingType]] /\ frameData'[p][p] \in RingType
    <3>1. AfterReadyCheck(p, rings, Awaited(p) \ leavers, f + 1) \in [Players -> RingType]
      BY <2>1, <2>3, AfterReadyCheckType
    <3> QED
      BY <1>0, <2>4, <3>1
  <2>13. AnnounceFrames(p)
    BY <2>4
  <2>14. /\ lastExecutionFrame' \in [Players -> Nat]
         /\ lastFrameCompleted' \in [Players -> Nat]
         /\ net' \subseteq Command \union FrameInfo
    BY <2>5, <2>8, <2>12, <2>13, AnnounceFramesType
  <2> QED
    BY <2>4, <2>5, <2>6, <2>8, <2>9, <2>10, <2>11, <2>12, <2>14 DEF TypeOK
<1>7. CASE UNCHANGED vars
  BY <1>7 DEF vars, networkVars, ringVars, TypeOK
<1>8. BoundReached => UNCHANGED vars
  BY DEF BoundReached
<1> QED
  BY <1>1, <1>2, <1>3, <1>4, <1>5, <1>6, <1>7, <1>8 DEF Next

(* Every variable keeps its type; the run ahead never leaves its clamp.     *)
THEOREM TypeCorrect == Spec => []TypeOK
BY TypeInit, TypeNext, PTL DEF Spec

-----------------------------------------------------------------------------
(* Slots of the ring *)

(* Frames less than a lap apart have slots of their own.                    *)
LEMMA SlotsApart ==
    ASSUME NEW a \in Nat, NEW b \in Nat, a < b, b < a + FRAME_DATA_LENGTH
    PROVE  SlotIndex(a) # SlotIndex(b)
<1> DEFINE L == FRAME_DATA_LENGTH
           x == a \div L
           y == b \div L
<1>1. L \in Nat \ {0}
  BY WindowSizes
<1> HIDE DEF L
<1>2. /\ a = L * x + (a % L) /\ a % L \in 0 .. L - 1 /\ x \in Int
      /\ b = L * y + (b % L) /\ b % L \in 0 .. L - 1 /\ y \in Int
  BY <1>1, SMT
<1> HIDE DEF x, y
<1>3. SUFFICES ASSUME a % L = b % L PROVE FALSE
  BY DEF SlotIndex, L
<1>4. L * y - L * x = b - a
  BY <1>1, <1>2, <1>3, SMT
<1>5. CASE y - x <= 0
  <2>1. L * y <= L * x
    BY <1>1, <1>2, <1>5, SMT
  <2> QED
    BY <1>1, <1>2, <1>4, <2>1, SMT
<1>6. CASE y - x >= 1
  <2>1. L * y >= L * (x + 1)
    BY <1>1, <1>2, <1>6, SMT
  <2>2. L * (x + 1) = L * x + L
    BY <1>1, <1>2, SMT
  <2>3. b - a >= L
    BY <1>1, <1>2, <1>4, <2>1, <2>2, SMT
  <2> QED
    BY <1>1, <2>3, SMT DEF L
<1> QED
  BY <1>2, <1>5, <1>6, SMT

(* A lap later the slot is the same.                                        *)
LEMMA SlotPeriod ==
    ASSUME NEW a \in Nat
    PROVE  SlotIndex(a + FRAME_DATA_LENGTH) = SlotIndex(a)
<1> DEFINE L == FRAME_DATA_LENGTH
           x == a \div L
           y == (a + L) \div L
<1>1. L \in Nat \ {0}
  BY WindowSizes
<1> HIDE DEF L
<1>2. /\ a = L * x + (a % L) /\ a % L \in 0 .. L - 1 /\ x \in Int
      /\ a + L = L * y + ((a + L) % L) /\ (a + L) % L \in 0 .. L - 1 /\ y \in Int
  BY <1>1, SMT
<1> HIDE DEF x, y
<1>3. L * (x + 1) = L * x + L /\ L * (x + 2) = L * x + L + L
  BY <1>1, <1>2, SMT
<1>4. CASE y <= x
  <2>1. L * y <= L * x
    BY <1>1, <1>2, <1>4, SMT
  <2> QED
    BY <1>1, <1>2, <2>1, SMT
<1>5. CASE y >= x + 2
  <2>1. L * y >= L * (x + 2)
    BY <1>1, <1>2, <1>5, SMT
  <2> QED
    BY <1>1, <1>2, <1>3, <2>1, SMT
<1>6. CASE y = x + 1
  BY <1>1, <1>2, <1>3, <1>6, SMT DEF SlotIndex, L
<1> QED
  BY <1>2, <1>4, <1>5, <1>6, SMT

(* A write for frame h while the machine is in frame n spares the other     *)
(* frames of the window.                                                    *)
LEMMA WindowApart ==
    ASSUME NEW n \in Nat, NEW h \in Nat, NEW g \in Nat,
           n <= h, h # 0, h < n + FRAME_DATA_LENGTH,
           n <= g, g # 0, g <= WindowEnd(n), g # h
    PROVE  SlotIndex(g) # SlotIndex(h)
<1>1. FRAME_DATA_LENGTH \in Nat \ {0} /\ FRAMES_TO_KEEP \in Nat
  BY WindowSizes, SMT
<1>2. g < h + FRAME_DATA_LENGTH /\ h < g + FRAME_DATA_LENGTH
  BY <1>1, SMT DEF WindowEnd
<1>3. CASE g < h
  BY <1>2, <1>3, SlotsApart
<1>4. CASE h < g
  BY <1>2, <1>4, SlotsApart
<1> QED
  BY <1>3, <1>4, SMT

(* Running frame n: all of the next window but its end was in the window,   *)
(* the end takes the slot of the frame that is freed.                       *)
LEMMA WindowAdvances ==
    ASSUME NEW n \in Nat, NEW g \in Nat, n + 1 <= g, g <= WindowEnd(n + 1)
    PROVE  /\ n <= FRAMES_TO_KEEP => g <= WindowEnd(n)
           /\ n > FRAMES_TO_KEEP =>
                \/ /\ g <= WindowEnd(n)
                   /\ SlotIndex(g) # SlotIndex(n - FRAMES_TO_KEEP)
                \/ /\ g = n + FRAME_DATA_LENGTH - FRAMES_TO_KEEP
                   /\ SlotIndex(g) = SlotIndex(n - FRAMES_TO_KEEP)
<1>1. FRAME_DATA_LENGTH \in Nat \ {0} /\ FRAMES_TO_KEEP \in Nat \ {0}
  BY WindowSizes, SMT
<1>2. n <= FRAMES_TO_KEEP => g <= WindowEnd(n)
  BY <1>1, SMT DEF WindowEnd
<1>3. ASSUME n > FRAMES_TO_KEEP, g <= WindowEnd(n)
      PROVE  SlotIndex(g) # SlotIndex(n - FRAMES_TO_KEEP)
  <2>1. /\ n - FRAMES_TO_KEEP \in Nat /\ n - FRAMES_TO_KEEP < g
        /\ g < (n - FRAMES_TO_KEEP) + FRAME_DATA_LENGTH
    BY <1>1, <1>3, SMT DEF WindowEnd
  <2> QED
    BY <2>1, SlotsApart
<1>4. ASSUME n > FRAMES_TO_KEEP, ~(g <= WindowEnd(n))
      PROVE  /\ g = n + FRAME_DATA_LENGTH - FRAMES_TO_KEEP
             /\ SlotIndex(g) = SlotIndex(n - FRAMES_TO_KEEP)
  <2>1. /\ n - FRAMES_TO_KEEP \in Nat
        /\ g = (n - FRAMES_TO_KEEP) + FRAME_DATA_LENGTH
        /\ g = n + FRAME_DATA_LENGTH - FRAMES_TO_KEEP
    BY <1>1, <1>4, SMT DEF WindowEnd
  <2> QED
    BY <2>1, SlotPeriod
<1> QED
  BY <1>2, <1>3, <1>4

-----------------------------------------------------------------------------
(* Facts about typed states *)

(* The numbers of one player.                                               *)
LEMMA NumberTypes ==
    ASSUME TypeOK, NEW p \in Players
    PROVE  /\ frame[p] \in Nat /\ lastExecutionFrame[p] \in Nat
           /\ lastFrameCompleted[p] \in Nat /\ nextCommandID[p] \in Nat
           /\ runAhead[p] \in Nat /\ 1 <= runAhead[p] /\ runAhead[p] <= MaxRunAhead
           /\ managers[p] \subseteq Players
           /\ \A q \in Players : quitFrame[p][q] \in Nat
BY WindowSizes, SMT DEF TypeOK

(* The fields of a message that was sent.                                   *)
LEMMA CommandTypes ==
    ASSUME TypeOK, NEW c \in net
    PROVE  /\ c.playerID \in Players /\ c.executionFrame \in Nat
           /\ c.to \subseteq Players
           /\ c.type # "FRAMEINFO" => c \in Command /\ c.id \in Nat
           /\ c.value \in Nat
<1>1. c \in Command \union FrameInfo
  BY DEF TypeOK
<1> QED
  BY <1>1, SMT DEF Command, AnyCommand, FrameInfo

(* While a player plays, his commands go to the last execution frame.       *)
LEMMA PlayingExecutionFrame ==
    ASSUME TypeOK, ScheduleInv, NEW p \in Players, localStatus[p] = "INGAME"
    PROVE  /\ GetExecutionFrame(p) = lastExecutionFrame[p]
           /\ Announced(p) = lastExecutionFrame[p] - 1
           /\ LastWaiting(p) = lastExecutionFrame[p]
           /\ ~Leaving(p)
           /\ InitialRunAhead <= lastExecutionFrame[p]
           /\ frame[p] < lastExecutionFrame[p]
           /\ lastExecutionFrame[p] <= frame[p] + MaxRunAhead
           /\ frame[p] # 0
<1>1. /\ frame[p] \in Nat /\ lastExecutionFrame[p] \in Nat
      /\ lastFrameCompleted[p] \in Nat /\ runAhead[p] \in Nat /\ 1 <= runAhead[p]
      /\ InitialRunAhead \in Nat /\ MaxRunAhead \in Nat
  BY NumberTypes, WindowSizes
<1>2. ~Leaving(p)
  BY DEF Leaving
<1>3. /\ lastFrameCompleted[p] = lastExecutionFrame[p] - 1
      /\ frame[p] + runAhead[p] <= lastExecutionFrame[p]
      /\ InitialRunAhead - 1 <= lastFrameCompleted[p]
      /\ lastExecutionFrame[p] <= frame[p] + MaxRunAhead
      /\ frame[p] # 0
  BY DEF ScheduleInv
<1> QED
  BY <1>1, <1>2, <1>3, SMT DEF GetExecutionFrame, Announced, LastWaiting

(* Nobody is waited for more than MaxRunAhead + 1 frames ahead of him.      *)
LEMMA WaitingBound ==
    ASSUME TypeOK, ScheduleInv, DriftInv, NEW p \in Players, NEW q \in Awaited(p)
    PROVE  frame[p] <= frame[q] + MaxRunAhead + 1
<1>1. q \in Players
  BY NumberTypes DEF Awaited
<1>2. frame[p] <= LastWaiting(q)
  BY <1>1 DEF DriftInv
<1>3. /\ frame[p] \in Nat /\ frame[q] \in Nat /\ lastExecutionFrame[q] \in Nat
      /\ lastFrameCompleted[q] \in Nat
      /\ InitialRunAhead \in Nat /\ MaxRunAhead \in Nat /\ InitialRunAhead <= MaxRunAhead
  BY <1>1, NumberTypes, WindowSizes
<1>4. lastExecutionFrame[q] <= frame[q] + MaxRunAhead
  BY <1>1 DEF ScheduleInv
<1>5. CASE Leaving(q)
  BY <1>2, <1>3, <1>4, <1>5, SMT DEF LastWaiting
<1>6. CASE localStatus[q] = "INGAME"
  BY <1>1, <1>2, <1>3, <1>4, <1>6, PlayingExecutionFrame, SMT
<1>7. CASE localStatus[q] = "PREGAME"
  <2>1. lastFrameCompleted[q] = InitialRunAhead - 1 /\ ~Leaving(q)
    BY <1>1, <1>7 DEF ScheduleInv, Leaving
  <2> QED
    BY <1>2, <1>3, <2>1, SMT DEF LastWaiting
<1> QED
  BY <1>1, <1>5, <1>6, <1>7 DEF TypeOK, Leaving

(* How far behind its sender a recipient may be.                            *)
LEMMA RecipientBound ==
    ASSUME TypeOK, ScheduleInv, DriftInv, NEW p \in Players, NEW q \in Recipients(p)
    PROVE  /\ q \in Players /\ q # p
           /\ frame[p] <= frame[q] + 2 * MaxRunAhead + 2
<1>1. PICK router \in Awaited(p) : q \in Awaited(router)
  BY DEF Recipients
<1>2. router \in Players /\ q \in Players /\ q # p
  BY <1>1, NumberTypes DEF Awaited, Recipients
<1>3. /\ frame[p] <= frame[router] + MaxRunAhead + 1
      /\ frame[router] <= frame[q] + MaxRunAhead + 1
  BY <1>1, <1>2, WaitingBound
<1>4. frame[p] \in Nat /\ frame[q] \in Nat /\ frame[router] \in Nat /\ MaxRunAhead \in Nat
  BY <1>2, NumberTypes, WindowSizes
<1> QED
  BY <1>2, <1>3, <1>4, SMT

-----------------------------------------------------------------------------
(* True slots *)

(* A frame has finitely many commands.                                      *)
LEMMA ScheduledFinite ==
    ASSUME IsFiniteSet(net), NEW q, NEW f
    PROVE  IsFiniteSet(Scheduled(q, f))
BY FS_Subset DEF Scheduled, CommandsIn

(* A true slot never holds more commands than were announced, and when it   *)
(* holds as many as were announced it holds them all.                       *)
LEMMA TrueSlotCounts ==
    ASSUME IsFiniteSet(net), NEW p, NEW q, NEW f, NEW d, TrueSlot(p, q, f, d)
    PROVE  /\ ~NeedsResend(d)
           /\ Ready(d) => d.commandList = Scheduled(q, f)
           /\ Ready(d) /\ q # p => f <= Announced(q)
           /\ IsFiniteSet(d.commandList)
           /\ d.commandCount \in Nat
<1> DEFINE S == Scheduled(q, f)
           C == d.commandList
<1>1. IsFiniteSet(S) /\ C \subseteq S
  BY ScheduledFinite DEF TrueSlot
<1>2. /\ IsFiniteSet(C) /\ Cardinality(C) <= Cardinality(S)
      /\ Cardinality(S) = Cardinality(C) => S = C
  BY <1>1, FS_Subset
<1>3. Cardinality(C) \in Nat /\ Cardinality(S) \in Nat
  BY <1>1, <1>2, FS_CardinalityType
<1>4. d.commandCount = Cardinality(C)
  BY DEF TrueSlot
<1> HIDE DEF C
<1>5. CASE q = p
  BY <1>2, <1>3, <1>4, <1>5, SMT DEF TrueSlot, NeedsResend, C
<1>6. CASE q # p
  <2>1. d.frameCommandCount # UNSET =>
          f <= Announced(q) /\ d.frameCommandCount = Cardinality(S)
    BY <1>6 DEF TrueSlot
  <2>2. UNSET # Cardinality(C)
    BY <1>3, SMT DEF UNSET
  <2>3. Ready(d) => d.frameCommandCount # UNSET
    BY <1>4, <2>2 DEF Ready
  <2>4. ~NeedsResend(d)
    <3> HIDE DEF S
    <3> QED
      BY <1>2, <1>3, <1>4, <2>1, SMT DEF NeedsResend
  <2>5. Ready(d) => C = S
    BY <1>2, <1>4, <2>1, <2>3 DEF Ready
  <2> QED
    BY <1>2, <1>3, <1>4, <2>1, <2>3, <2>4, <2>5 DEF C
<1> QED
  BY <1>5, <1>6

(* A slot stays true while its frame gets no command once announced.        *)
LEMMA TrueSlotStable ==
    ASSUME NEW p, NEW q, NEW f,
           TrueSlot(p, q, f, frameData[p][q][SlotIndex(f)]),
           frameData'[p][q][SlotIndex(f)] = frameData[p][q][SlotIndex(f)],
           Scheduled(q, f) \subseteq Scheduled(q, f)',
           (f <= Announced(q) \/ q = p) => Scheduled(q, f)' = Scheduled(q, f),
           f <= Announced(q) => f <= Announced(q)'
    PROVE  TrueSlot(p, q, f, frameData[p][q][SlotIndex(f)])'
BY DEF TrueSlot

(* A command added to a slot of its frame leaves the slot's list and count  *)
(* in step.                                                                 *)
LEMMA AddCommandCounts ==
    ASSUME NEW d, NEW c, IsFiniteSet(d.commandList),
           d.commandCount = Cardinality(d.commandList)
    PROVE  /\ AddCommand(d, c).commandList \subseteq d.commandList \union {c}
           /\ AddCommand(d, c).commandCount = Cardinality(AddCommand(d, c).commandList)
           /\ AddCommand(d, c).frameCommandCount = d.frameCommandCount
           /\ (\A x \in d.commandList : ~SameCommand(x, c)) =>
                 AddCommand(d, c).commandList = d.commandList \union {c}
<1>1. CASE \E x \in d.commandList : SameCommand(x, c)
  BY <1>1 DEF AddCommand
<1>2. CASE ~ \E x \in d.commandList : SameCommand(x, c)
  <2>1. c \notin d.commandList
    BY <1>2 DEF SameCommand
  <2>2. Cardinality(d.commandList \union {c}) = Cardinality(d.commandList) + 1
    BY <2>1, FS_AddElement
  <2>3. AddCommand(d, c) = [commandList |-> d.commandList \union {c},
                            commandCount |-> d.commandCount + 1,
                            frameCommandCount |-> d.frameCommandCount]
    BY <1>2 DEF AddCommand
  <2> QED
    BY <2>2, <2>3
<1> QED
  BY <1>1, <1>2

-----------------------------------------------------------------------------
(* A player gives a command: IssueCommand, UpdateRunAhead and LeaveGame *)

Gives(p, c) ==
    /\ localStatus[p] = "INGAME"
    /\ c \in Command /\ c.playerID = p /\ c.id = nextCommandID[p]
    /\ c.executionFrame \in {lastExecutionFrame[p], lastExecutionFrame[p] + 1}
    /\ c.to = Recipients(p)
    /\ Schedule(p, c)
    /\ CommandsIn(net)' = CommandsIn(net) \union {c}
    /\ IsFiniteSet(net) => IsFiniteSet(net')
    /\ UNCHANGED <<frame, runAhead, lastExecutionFrame, managers, quitFrame, executed>>

(* Only the frame of the new command gets it.                               *)
LEMMA GivenScheduled ==
    ASSUME NEW p \in Players, NEW c, Gives(p, c), NEW q, NEW f
    PROVE  Scheduled(q, f)' = IF q = p /\ f = c.executionFrame
                              THEN Scheduled(q, f) \union {c} ELSE Scheduled(q, f)
BY DEF Gives, Scheduled

(* The command is new.                                                      *)
LEMMA GivenFresh ==
    ASSUME TypeOK, CommandInv, NEW p \in Players, NEW c, Gives(p, c)
    PROVE  \A d \in CommandsIn(net) : ~SameCommand(d, c)
<1> TAKE d \in CommandsIn(net)
<1>1. d.playerID = p => d.id < nextCommandID[p]
  BY DEF CommandInv
<1>2. d.id \in Nat /\ nextCommandID[p] \in Nat
  BY CommandTypes, NumberTypes DEF CommandsIn
<1> QED
  BY <1>1, <1>2, SMT DEF SameCommand, Gives

(* Command IDs stay unique.                                                 *)
LEMMA GivenUnique ==
    ASSUME TypeOK, CommandInv, NEW p \in Players, NEW c, Gives(p, c)
    PROVE  /\ IsFiniteSet(net')
           /\ \A d \in CommandsIn(net)' : d.id < nextCommandID'[d.playerID]
           /\ \A d, e \in CommandsIn(net)' : SameCommand(d, e) => d = e
<1>1. CommandsIn(net)' = CommandsIn(net) \union {c}
  BY DEF Gives
<1>2. IsFiniteSet(net')
  BY DEF Gives, CommandInv
<1>3. \A d \in CommandsIn(net)' : d.id < nextCommandID'[d.playerID]
  <2> TAKE d \in CommandsIn(net)'
  <2>1. nextCommandID' = [nextCommandID EXCEPT ![p] = @ + 1]
    BY DEF Gives, Schedule
  <2>2. CASE d \in CommandsIn(net)
    <3>1. d.id < nextCommandID[d.playerID] /\ d.playerID \in Players /\ d.id \in Nat
      BY <2>2, CommandTypes DEF CommandInv, CommandsIn
    <3>2. nextCommandID[d.playerID] \in Nat
      BY <3>1, NumberTypes
    <3> QED
      BY <2>1, <3>1, <3>2, SMT DEF TypeOK
  <2>3. CASE d = c
    <3>1. c.playerID = p /\ c.id = nextCommandID[p] /\ nextCommandID[p] \in Nat
      BY NumberTypes DEF Gives
    <3> QED
      BY <2>1, <2>3, <3>1, SMT DEF TypeOK
  <2> QED
    BY <1>1, <2>2, <2>3
<1>4. \A d, e \in CommandsIn(net)' : SameCommand(d, e) => d = e
  <2>1. \A d \in CommandsIn(net) : ~SameCommand(d, c) /\ ~SameCommand(c, d)
    BY GivenFresh DEF SameCommand
  <2> QED
    BY <1>1, <2>1 DEF CommandInv
<1> QED
  BY <1>2, <1>3, <1>4

(* It is scheduled for a frame nobody has run yet.                          *)
LEMMA GivenLockstep ==
    ASSUME TypeOK, ScheduleInv, DriftInv, LockstepAgreement,
           NEW p \in Players, NEW c, Gives(p, c)
    PROVE  LockstepAgreement'
<1> SUFFICES ASSUME NEW r \in Players
             PROVE  executed'[r] = {<<x.executionFrame, x>> :
                      x \in {d \in CommandsIn(net)' : d.executionFrame < frame'[r]}}
  BY DEF LockstepAgreement
<1>1. executed' = executed /\ frame' = frame /\ localStatus[p] = "INGAME"
  BY DEF Gives
<1>2. frame[r] <= lastExecutionFrame[p]
  <2>1. ~Leaving(p) /\ LastWaiting(p) = lastExecutionFrame[p]
    BY <1>1, PlayingExecutionFrame
  <2>2. p \in Awaited(r)
    BY <2>1 DEF DriftInv
  <2> QED
    BY <2>1, <2>2 DEF DriftInv
<1>3. ~(c.executionFrame < frame[r])
  BY <1>2, NumberTypes, SMT DEF Gives
<1>4. {d \in CommandsIn(net)' : d.executionFrame < frame'[r]} =
      {d \in CommandsIn(net) : d.executionFrame < frame[r]}
  BY <1>1, <1>3 DEF Gives
<1> QED
  BY <1>1, <1>4 DEF LockstepAgreement

(* The sender's own ring has the command at once, and counts it.            *)
LEMMA GivenOwnSlot ==
    ASSUME TypeOK, ScheduleInv, CommandInv, RingInv, DriftInv,
           NEW p \in Players, NEW c, Gives(p, c), NEW f \in Window(p)
    PROVE  LET d == frameData'[p][p][SlotIndex(f)]
           IN  /\ d.commandList = Scheduled(p, f)'
               /\ d.commandCount = Cardinality(d.commandList)
               /\ d.frameCommandCount = d.commandCount
<1> DEFINE h == c.executionFrame
           ring == frameData[p][p]
           added == AddCommand(ring[SlotIndex(h)], c)
           counted == [added EXCEPT !.frameCommandCount = added.commandCount]
<1>1. /\ localStatus[p] = "INGAME" /\ p \in managers[p]
      /\ frame[p] \in Nat /\ MaxRunAhead \in Nat \ {0} /\ h \in Nat
      /\ frame[p] < h /\ h <= frame[p] + MaxRunAhead + 1
      /\ FRAME_DATA_LENGTH \in Nat /\ 4 * MaxRunAhead + 2 <= FRAME_DATA_LENGTH
  <2>1. localStatus[p] = "INGAME" /\ p \in Awaited(p)
    BY DEF Gives, DriftInv
  <2>2. frame[p] < lastExecutionFrame[p] /\ lastExecutionFrame[p] <= frame[p] + MaxRunAhead
    BY <2>1, PlayingExecutionFrame
  <2>3. h \in {lastExecutionFrame[p], lastExecutionFrame[p] + 1}
    BY DEF Gives
  <2>4. frame[p] \in Nat /\ lastExecutionFrame[p] \in Nat /\ MaxRunAhead \in Nat \ {0}
    BY NumberTypes, WindowSizes
  <2>5. h \in Nat /\ frame[p] < h /\ h <= frame[p] + MaxRunAhead + 1
    BY <2>2, <2>3, <2>4, SMT
  <2> QED
    BY <2>1, <2>4, <2>5, WindowSizes DEF Awaited
<1>2. /\ f \in Nat /\ f # 0 /\ frame[p] <= f /\ f <= WindowEnd(frame[p])
  BY SMT DEF Window
<1>3. TrueSlot(p, p, f, ring[SlotIndex(f)])
  BY <1>1 DEF RingInv
<1>4. frameData'[p][p] = [ring EXCEPT ![SlotIndex(h)] = counted]
  <2>1. ring \in RingType /\ frameData \in [Players -> [Players -> RingType]]
    BY DEF TypeOK, RingType
  <2>2. frameData' = [frameData EXCEPT ![p][p] = AddNetCommandMsg(@, TRUE, c)]
    BY DEF Gives, Schedule
  <2>3. frameData'[p][p] = AddNetCommandMsg(ring, TRUE, c)
    BY <2>1, <2>2
  <2> QED
    BY <2>3 DEF AddNetCommandMsg
<1>5. SlotIndex(h) \in Slots /\ SlotIndex(f) \in Slots /\ ring \in [Slots -> FrameDataType]
  BY <1>1, <1>2, SlotInRing DEF TypeOK
<1> HIDE DEF counted
<1>6. CASE f # h
  <2>1. SlotIndex(f) # SlotIndex(h)
    <3>1. frame[p] <= h /\ h # 0 /\ h < frame[p] + FRAME_DATA_LENGTH
      BY <1>1, SMT
    <3> QED
      BY <1>1, <1>2, <1>6, <3>1, WindowApart
  <2>2. frameData'[p][p][SlotIndex(f)] = ring[SlotIndex(f)]
    BY <1>4, <1>5, <2>1
  <2>3. Scheduled(p, f)' = Scheduled(p, f)
    BY <1>6, GivenScheduled
  <2> QED
    BY <1>3, <2>2, <2>3 DEF TrueSlot
<1>7. CASE f = h
  <2>1. frameData'[p][p][SlotIndex(f)] = counted
    BY <1>4, <1>5, <1>7
  <2>2. Scheduled(p, f)' = Scheduled(p, f) \union {c}
    BY <1>7, GivenScheduled
  <2>3. /\ ring[SlotIndex(h)].commandList = Scheduled(p, f)
        /\ ring[SlotIndex(h)].commandCount = Cardinality(ring[SlotIndex(h)].commandList)
        /\ IsFiniteSet(ring[SlotIndex(h)].commandList)
    BY <1>3, <1>7, TrueSlotCounts DEF TrueSlot, CommandInv
  <2>4. \A x \in ring[SlotIndex(h)].commandList : ~SameCommand(x, c)
    BY <2>3, GivenFresh DEF Scheduled
  <2>5. /\ added.commandList = Scheduled(p, f) \union {c}
        /\ added.commandCount = Cardinality(added.commandList)
    BY <2>3, <2>4, AddCommandCounts
  <2>6. added \in FrameDataType
    BY <1>5, AddCommandType DEF Gives
  <2>7. /\ counted.commandList = added.commandList
        /\ counted.commandCount = added.commandCount
        /\ counted.frameCommandCount = added.commandCount
    <3> HIDE DEF added
    <3> QED
      BY <2>6, SMT DEF counted, FrameDataType
  <2> QED
    BY <2>1, <2>2, <2>5, <2>7
<1> QED
  BY <1>6, <1>7

(* Nobody else's ring changes, and what it says stays true.                 *)
LEMMA GivenRing ==
    ASSUME TypeOK, ScheduleInv, CommandInv, RingInv, DriftInv,
           NEW p \in Players, NEW c, Gives(p, c),
           \A q \in Players : localStatus'[q] # "LEFT" => localStatus[q] # "LEFT",
           \A q \in Players, f \in Nat : f <= Announced(q) => f <= Announced(q)'
    PROVE  RingInv'
<1> SUFFICES ASSUME NEW r \in Players, localStatus'[r] # "LEFT",
                    NEW q \in managers[r], NEW f \in Window(r)
             PROVE  TrueSlot(r, q, f, frameData[r][q][SlotIndex(f)])'
  <2>1. managers' = managers /\ \A r \in Players : Window(r)' = Window(r)
    BY DEF Gives, Window
  <2> QED
    BY <2>1 DEF RingInv
<1>1. q \in Players /\ f \in Nat
  BY NumberTypes, SMT DEF Window
<1>2. CASE r = p /\ q = p
  <2>1. LET d == frameData'[p][p][SlotIndex(f)]
        IN  /\ d.commandList = Scheduled(p, f)'
            /\ d.commandCount = Cardinality(d.commandList)
            /\ d.frameCommandCount = d.commandCount
    BY <1>2, GivenOwnSlot
  <2> QED
    BY <1>2, <2>1 DEF TrueSlot
<1>3. CASE ~(r = p /\ q = p)
  <2>1. frameData'[r][q] = frameData[r][q]
    <3>1. frameData' = [frameData EXCEPT ![p][p] = AddNetCommandMsg(@, TRUE, c)]
      BY DEF Gives, Schedule
    <3> QED
      BY <1>1, <1>3, <3>1 DEF TypeOK
  <2>2. TrueSlot(r, q, f, frameData[r][q][SlotIndex(f)])
    BY DEF RingInv
  <2>3. Scheduled(q, f) \subseteq Scheduled(q, f)'
    BY GivenScheduled
  <2>4. (f <= Announced(q) \/ q = r) => Scheduled(q, f)' = Scheduled(q, f)
    <3>1. CASE q # p
      BY <3>1, GivenScheduled
    <3>2. CASE q = p
      <4>1. /\ Announced(p) = lastExecutionFrame[p] - 1
            /\ lastExecutionFrame[p] \in Nat
        BY PlayingExecutionFrame, NumberTypes DEF Gives
      <4>2. f <= Announced(p) => f # c.executionFrame
        BY <1>1, <4>1, SMT DEF Gives
      <4> QED
        BY <1>3, <3>2, <4>2, GivenScheduled
    <3> QED
      BY <3>1, <3>2
  <2>5. f <= Announced(q) => f <= Announced(q)'
    BY <1>1
  <2> QED
    BY <2>1, <2>2, <2>3, <2>4, <2>5, TrueSlotStable
<1> QED
  BY <1>2, <1>3

(* The frames a player may still schedule or announce are in his window.    *)
LEMMA OwnFramesInWindow ==
    ASSUME TypeOK, NEW p \in Players, NEW f \in Nat,
           frame[p] <= f, f # 0, f <= frame[p] + MaxRunAhead + 1
    PROVE  f \in Window(p)
<1>1. /\ frame[p] \in Nat /\ MaxRunAhead \in Nat \ {0} /\ FRAMES_TO_KEEP = MaxRunAhead + 1
      /\ FRAME_DATA_LENGTH \in Nat /\ 4 * MaxRunAhead + 2 <= FRAME_DATA_LENGTH
  BY NumberTypes, WindowSizes
<1> QED
  BY <1>1, SMT DEF Window, WindowEnd

(* A command that is not a leave keeps the invariant.                       *)
LEMMA PlainGive ==
    ASSUME IInv, NEW p \in Players, NEW c, Gives(p, c),
           c.type \in {"GAMECOMMAND", "RUNAHEAD"},
           c.executionFrame = lastExecutionFrame[p],
           net' = net \union {c},
           UNCHANGED <<localStatus, lastFrameCompleted>>
    PROVE  CoreInv'
<1> USE DEF IInv, CoreInv
<1>1. /\ localStatus[p] = "INGAME" /\ c.playerID = p
      /\ UNCHANGED <<frame, runAhead, lastExecutionFrame, managers, quitFrame, executed>>
      /\ CommandsIn(net)' = CommandsIn(net) \union {c}
      /\ c.to = Recipients(p)
  BY DEF Gives
<1>2. /\ InitialRunAhead <= lastExecutionFrame[p]
      /\ lastExecutionFrame[p] <= frame[p] + MaxRunAhead
      /\ Announced(p) = lastExecutionFrame[p] - 1
      /\ lastExecutionFrame[p] \in Nat /\ frame[p] \in Nat
      /\ MaxRunAhead \in Nat
  BY <1>1, PlayingExecutionFrame, NumberTypes, WindowSizes
<1>3. \A q \in Players : /\ Leaving(q)' <=> Leaving(q)
                         /\ Announced(q)' = Announced(q)
                         /\ LastWaiting(q)' = LastWaiting(q)
                         /\ Awaited(q)' = Awaited(q)
  BY <1>1 DEF Leaving, Announced, LastWaiting, Awaited
<1>4. ScheduleInv'
  BY <1>1, <1>3 DEF ScheduleInv
<1>5. CommandInv'
  <2>1. \A d \in CommandsIn(net)' :
          /\ InitialRunAhead <= d.executionFrame
          /\ d.type = "PLAYERLEAVE" =>
                /\ Leaving(d.playerID)'
                /\ d.executionFrame = lastExecutionFrame'[d.playerID] + 1
          /\ d.type # "PLAYERLEAVE" =>
                d.executionFrame <= lastExecutionFrame'[d.playerID]
    <3> TAKE d \in CommandsIn(net)'
    <3>1. CASE d \in CommandsIn(net)
      <4>1. d.playerID \in Players
        BY <3>1, CommandTypes DEF CommandsIn
      <4> QED
        BY <1>1, <1>3, <3>1, <4>1 DEF CommandInv
    <3>2. CASE d = c
      BY <1>1, <1>2, <3>2, SMT
    <3> QED
      BY <1>1, <3>1, <3>2
  <2>2. \A q \in Players : Leaving(q)' =>
          \E d \in CommandsIn(net)' : d.type = "PLAYERLEAVE" /\ d.playerID = q
    BY <1>1, <1>3 DEF CommandInv
  <2> QED
    BY <2>1, <2>2, GivenUnique DEF CommandInv
<1>6. AnnounceInv'
  <2> SUFFICES ASSUME NEW m \in net', m.type = "FRAMEINFO"
               PROVE  /\ m.executionFrame \in InitialRunAhead .. Announced(m.playerID)'
                      /\ m.value = Cardinality(Scheduled(m.playerID, m.executionFrame)')
    BY DEF AnnounceInv
  <2>1. m \in net /\ m.playerID \in Players /\ m.executionFrame \in Nat
    BY CommandTypes
  <2>2. /\ m.executionFrame \in InitialRunAhead .. Announced(m.playerID)
        /\ m.value = Cardinality(Scheduled(m.playerID, m.executionFrame))
    BY <2>1 DEF AnnounceInv
  <2>3. m.playerID = p => m.executionFrame # c.executionFrame
    BY <1>2, <2>1, <2>2, SMT
  <2>4. Scheduled(m.playerID, m.executionFrame)' = Scheduled(m.playerID, m.executionFrame)
    BY <2>3, GivenScheduled
  <2> QED
    BY <1>3, <2>1, <2>2, <2>4
<1>7. DriftInv'
  BY <1>1, <1>3 DEF DriftInv
<1>8. ReachInv'
  <2> SUFFICES ASSUME NEW m \in net', NEW q \in m.to
               PROVE  q # m.playerID /\ m.executionFrame <= frame[q] + 3 * MaxRunAhead + 3
    BY <1>1 DEF ReachInv
  <2>1. CASE m \in net
    BY <2>1 DEF ReachInv
  <2>2. CASE m = c
    <3>1. /\ q \in Players /\ q # p
          /\ frame[p] <= frame[q] + 2 * MaxRunAhead + 2
      BY <1>1, <2>2, RecipientBound
    <3>2. frame[q] \in Nat
      BY <3>1, NumberTypes
    <3> QED
      BY <1>1, <1>2, <2>2, <3>1, <3>2, SMT
  <2> QED
    BY <2>1, <2>2
<1>9. RingInv'
  BY <1>1, <1>3, GivenRing
<1>10. LockstepAgreement'
  BY GivenLockstep
<1> QED
  BY <1>4, <1>5, <1>6, <1>7, <1>8, <1>9, <1>10

(* Both ways of giving one are such a step.                                 *)
PlainlyGives(p, c) ==
    /\ Gives(p, c)
    /\ c.type \in {"GAMECOMMAND", "RUNAHEAD"}
    /\ c.executionFrame = lastExecutionFrame[p]
    /\ net' = net \union {c}
    /\ UNCHANGED <<localStatus, lastFrameCompleted>>

(* A game command is given for the execution frame.                         *)
LEMMA IssueCommandGives ==
    ASSUME IInv, NEW p \in Players, IssueCommand(p)
    PROVE  \E c : PlainlyGives(p, c)
<1> DEFINE c == Message("GAMECOMMAND", p, nextCommandID[p], GetExecutionFrame(p), 0)
<1>1. /\ localStatus[p] = "INGAME" /\ Schedule(p, c) /\ net' = net \union {c}
      /\ lastExecutionFrame' = [lastExecutionFrame EXCEPT ![p] = GetExecutionFrame(p)]
      /\ UNCHANGED <<frame, localStatus, runAhead, lastFrameCompleted,
                     managers, quitFrame, executed>>
  BY DEF IssueCommand
<1>2. GetExecutionFrame(p) = lastExecutionFrame[p] /\ lastExecutionFrame' = lastExecutionFrame
  BY <1>1, PlayingExecutionFrame DEF IInv, CoreInv, TypeOK
<1>3. c \in Command
  BY <1>2, NumberTypes, MessageIsCommand DEF IInv
<1>4. /\ c.type = "GAMECOMMAND" /\ c.playerID = p /\ c.id = nextCommandID[p]
      /\ c.executionFrame = lastExecutionFrame[p] /\ c.to = Recipients(p)
  BY <1>2 DEF Message
<1> HIDE DEF c
<1>5. CommandsIn(net)' = CommandsIn(net) \union {c}
  BY <1>1, <1>4 DEF CommandsIn
<1>6. IsFiniteSet(net) => IsFiniteSet(net')
  BY <1>1, FS_AddElement
<1>7. Gives(p, c)
  BY <1>1, <1>2, <1>3, <1>4, <1>5, <1>6 DEF Gives
<1>8. PlainlyGives(p, c)
  BY <1>1, <1>4, <1>7 DEF PlainlyGives
<1> QED
  BY <1>8

(* So is a change of the run ahead.                                         *)
LEMMA UpdateRunAheadGives ==
    ASSUME IInv, NEW p \in Players, NEW r \in MIN_RUNAHEAD .. MaxRunAhead,
           UpdateRunAhead(p, r)
    PROVE  \E c : PlainlyGives(p, c)
<1> DEFINE c == Message("RUNAHEAD", p, nextCommandID[p], GetExecutionFrame(p), r)
<1>1. /\ localStatus[p] = "INGAME" /\ Schedule(p, c) /\ net' = net \union {c}
      /\ lastExecutionFrame' = [lastExecutionFrame EXCEPT ![p] = GetExecutionFrame(p)]
      /\ UNCHANGED <<frame, localStatus, runAhead, lastFrameCompleted,
                     managers, quitFrame, executed>>
  BY DEF UpdateRunAhead
<1>2. GetExecutionFrame(p) = lastExecutionFrame[p] /\ lastExecutionFrame' = lastExecutionFrame
  BY <1>1, PlayingExecutionFrame DEF IInv, CoreInv, TypeOK
<1>3. c \in Command
  <2>1. r \in Nat
    BY WindowSizes, SMT
  <2> QED
    BY <1>2, <2>1, NumberTypes, MessageIsCommand DEF IInv
<1>4. /\ c.type = "RUNAHEAD" /\ c.playerID = p /\ c.id = nextCommandID[p]
      /\ c.executionFrame = lastExecutionFrame[p] /\ c.to = Recipients(p)
  BY <1>2 DEF Message
<1> HIDE DEF c
<1>5. CommandsIn(net)' = CommandsIn(net) \union {c}
  BY <1>1, <1>4 DEF CommandsIn
<1>6. IsFiniteSet(net) => IsFiniteSet(net')
  BY <1>1, FS_AddElement
<1>7. Gives(p, c)
  BY <1>1, <1>2, <1>3, <1>4, <1>5, <1>6 DEF Gives
<1>8. PlainlyGives(p, c)
  BY <1>1, <1>4, <1>7 DEF PlainlyGives
<1> QED
  BY <1>8

(* A leave is given one frame later, and both frames are announced.         *)
LEMMA LeaveGameInv ==
    ASSUME IInv, NEW p \in Players, LeaveGame(p)
    PROVE  CoreInv' /\ \E c : Gives(p, c)
<1> USE DEF IInv, CoreInv
<1> DEFINE last == lastExecutionFrame[p]
           c == Message("PLAYERLEAVE", p, nextCommandID[p], GetExecutionFrame(p) + 1, 0)
           infos == {FrameInfoFor(p, frameData'[p][p], g) : g \in {last, last + 1}}
<1>1. localStatus[p] = "INGAME" /\ Schedule(p, c)
  BY DEF LeaveGame
<1>2. /\ GetExecutionFrame(p) = last /\ Announced(p) = last - 1 /\ ~Leaving(p)
      /\ LastWaiting(p) = last
      /\ InitialRunAhead <= last /\ frame[p] < last /\ last <= frame[p] + MaxRunAhead
      /\ frame[p] # 0 /\ last \in Nat /\ frame[p] \in Nat
      /\ InitialRunAhead \in Nat \ {0} /\ MaxRunAhead \in Nat
  BY <1>1, PlayingExecutionFrame, NumberTypes, WindowSizes
<1>3. /\ lastExecutionFrame' = lastExecutionFrame
      /\ lastFrameCompleted' = [lastFrameCompleted EXCEPT ![p] = last]
      /\ localStatus' = [localStatus EXCEPT ![p] = "LEAVING"]
      /\ net' = net \union {c} \union infos
      /\ UNCHANGED <<frame, runAhead, managers, quitFrame, executed>>
  BY <1>2 DEF LeaveGame, LeaveFrames, TypeOK
<1>4. c \in Command
  <2>1. last + 1 \in Nat
    BY <1>2, SMT
  <2> QED
    BY <1>2, <2>1, NumberTypes, MessageIsCommand
<1>5. /\ c.type = "PLAYERLEAVE" /\ c.playerID = p /\ c.id = nextCommandID[p]
      /\ c.executionFrame = last + 1 /\ c.to = Recipients(p)
  BY <1>2 DEF Message
<1>6. \A m \in infos : /\ m.type = "FRAMEINFO" /\ m.playerID = p /\ m.to = Recipients(p)
                       /\ m.executionFrame \in {last, last + 1}
                       /\ m.value = frameData'[p][p][SlotIndex(m.executionFrame)].commandCount
  BY DEF FrameInfoFor, Message
<1>7. IsFiniteSet(infos)
  <2>1. infos = {FrameInfoFor(p, frameData'[p][p], last)}
                 \union {FrameInfoFor(p, frameData'[p][p], last + 1)}
    OBVIOUS
  <2> HIDE DEF infos
  <2> QED
    BY <2>1, FS_Singleton, FS_Union
<1> HIDE DEF c, infos
<1>8. Gives(p, c)
  <2>1. CommandsIn(net)' = CommandsIn(net) \union {c}
    BY <1>3, <1>5, <1>6 DEF CommandsIn
  <2>2. IsFiniteSet(net) => IsFiniteSet(net')
    BY <1>3, <1>7, FS_AddElement, FS_Union
  <2> QED
    BY <1>1, <1>3, <1>4, <1>5, <2>1, <2>2 DEF Gives
<1>9. \A q \in Players : /\ Leaving(q)' <=> Leaving(q) \/ q = p
                         /\ q # p => Announced(q)' = Announced(q)
                         /\ q # p => LastWaiting(q)' = LastWaiting(q)
                         /\ Awaited(q)' = Awaited(q)
                         /\ localStatus'[q] = "LEFT" <=> localStatus[q] = "LEFT"
  BY <1>1, <1>3 DEF Leaving, Announced, LastWaiting, Awaited, TypeOK
<1>10. Announced(p)' = last + 1 /\ LastWaiting(p)' = last + 1
  BY <1>3, <1>9 DEF Announced, LastWaiting
<1>11. \A q \in Players, f \in Nat : f <= Announced(q) => f <= Announced(q)'
  BY <1>2, <1>9, <1>10, SMT
<1>12. ScheduleInv'
  <2> SUFFICES ASSUME NEW q \in Players
               PROVE  /\ InitialRunAhead - 1 <= lastFrameCompleted'[q]
                      /\ lastExecutionFrame'[q] <= frame'[q] + MaxRunAhead
                      /\ localStatus'[q] = "PREGAME" =>
                            /\ frame'[q] = 0 /\ runAhead'[q] = InitialRunAhead
                            /\ lastFrameCompleted'[q] = InitialRunAhead - 1
                      /\ localStatus'[q] # "PREGAME" => frame'[q] # 0
                      /\ localStatus'[q] = "INGAME" =>
                            /\ lastFrameCompleted'[q] = lastExecutionFrame'[q] - 1
                            /\ frame'[q] + runAhead'[q] <= lastExecutionFrame'[q]
                      /\ Leaving(q)' => lastFrameCompleted'[q] = lastExecutionFrame'[q]
    BY DEF ScheduleInv
  <2>1. CASE q = p
    BY <1>2, <1>3, <2>1, SMT DEF TypeOK
  <2>2. CASE q # p
    BY <1>3, <1>9, <2>2 DEF ScheduleInv, TypeOK
  <2> QED
    BY <2>1, <2>2
<1>13. CommandInv'
  <2>1. \A d \in CommandsIn(net)' :
          /\ InitialRunAhead <= d.executionFrame
          /\ d.type = "PLAYERLEAVE" =>
                /\ Leaving(d.playerID)'
                /\ d.executionFrame = lastExecutionFrame'[d.playerID] + 1
          /\ d.type # "PLAYERLEAVE" =>
                d.executionFrame <= lastExecutionFrame'[d.playerID]
    <3> TAKE d \in CommandsIn(net)'
    <3>1. CASE d \in CommandsIn(net)
      <4>1. d.playerID \in Players
        BY <3>1, CommandTypes DEF CommandsIn
      <4> QED
        BY <1>3, <1>9, <3>1, <4>1 DEF CommandInv
    <3>2. CASE d = c
      BY <1>2, <1>3, <1>5, <1>9, <3>2, SMT
    <3> QED
      BY <1>8, <3>1, <3>2 DEF Gives
  <2>2. \A q \in Players : Leaving(q)' =>
          \E d \in CommandsIn(net)' : d.type = "PLAYERLEAVE" /\ d.playerID = q
    BY <1>5, <1>8, <1>9 DEF CommandInv, Gives
  <2> QED
    BY <1>8, <2>1, <2>2, GivenUnique DEF CommandInv
<1>14. AnnounceInv'
  <2> SUFFICES ASSUME NEW m \in net', m.type = "FRAMEINFO"
               PROVE  /\ m.executionFrame \in InitialRunAhead .. Announced(m.playerID)'
                      /\ m.value = Cardinality(Scheduled(m.playerID, m.executionFrame)')
    BY DEF AnnounceInv
  <2>1. CASE m \in net
    <3>1. m.playerID \in Players /\ m.executionFrame \in Nat
      BY <2>1, CommandTypes
    <3>2. /\ m.executionFrame \in InitialRunAhead .. Announced(m.playerID)
          /\ m.value = Cardinality(Scheduled(m.playerID, m.executionFrame))
      BY <2>1 DEF AnnounceInv
    <3>3. m.playerID = p => m.executionFrame # c.executionFrame
      BY <1>2, <1>5, <3>1, <3>2, SMT
    <3>4. Scheduled(m.playerID, m.executionFrame)' = Scheduled(m.playerID, m.executionFrame)
      BY <1>8, <3>3, GivenScheduled
    <3>5. m.executionFrame \in InitialRunAhead .. Announced(m.playerID)'
      BY <1>2, <1>9, <1>10, <3>1, <3>2, SMT
    <3> QED
      BY <3>2, <3>4, <3>5
  <2>2. CASE m \in infos
    <3> DEFINE g == m.executionFrame
    <3>1. g \in {last, last + 1} /\ m.playerID = p
      BY <1>6, <2>2
    <3>2. /\ g \in Nat /\ frame[p] <= g /\ g # 0 /\ g <= frame[p] + MaxRunAhead + 1
          /\ g \in InitialRunAhead .. last + 1
      BY <1>2, <3>1, SMT
    <3>3. g \in Window(p)
      BY <3>2, OwnFramesInWindow
    <3>4. m.value = frameData'[p][p][SlotIndex(g)].commandCount
      BY <1>6, <2>2
    <3> HIDE DEF g
    <3>5. m.value = Cardinality(Scheduled(p, g)')
      BY <1>8, <3>3, <3>4, GivenOwnSlot
    <3> QED
      BY <1>10, <3>1, <3>2, <3>5 DEF g
  <2> QED
    BY <1>3, <1>5, <2>1, <2>2
<1>15. DriftInv'
  <2> SUFFICES ASSUME NEW r \in Players, NEW q \in Players
               PROVE  /\ q \in Awaited(r)' => frame'[r] <= LastWaiting(q)'
                      /\ q \notin Awaited(r)' => Leaving(q)' /\ LastWaiting(q)' < frame'[r]
                      /\ r \in Awaited(r)' <=> localStatus'[r] # "LEFT"
                      /\ quitFrame'[r][r] = NOT_QUITTING
    BY DEF DriftInv
  <2>1. /\ q \in Awaited(r) => frame[r] <= LastWaiting(q)
        /\ q \notin Awaited(r) => Leaving(q) /\ LastWaiting(q) < frame[r]
        /\ r \in Awaited(r) <=> localStatus[r] # "LEFT"
        /\ quitFrame[r][r] = NOT_QUITTING
    BY DEF DriftInv
  <2>2. CASE q = p
    <3>1. p \in Awaited(r) /\ frame[r] <= last /\ frame[r] \in Nat
      BY <1>2, <2>1, <2>2, NumberTypes
    <3>2. frame[r] <= last + 1
      BY <1>2, <3>1, SMT
    <3> QED
      BY <1>3, <1>9, <1>10, <2>1, <2>2, <3>1, <3>2
  <2>3. CASE q # p
    BY <1>3, <1>9, <2>1, <2>3
  <2> QED
    BY <2>2, <2>3
<1>16. ReachInv'
  <2> SUFFICES ASSUME NEW m \in net', NEW q \in m.to
               PROVE  q # m.playerID /\ m.executionFrame <= frame[q] + 3 * MaxRunAhead + 3
    BY <1>3 DEF ReachInv
  <2>1. CASE m \in net
    BY <2>1 DEF ReachInv
  <2>2. CASE m = c \/ m \in infos
    <3>1. /\ q \in Recipients(p) /\ m.playerID = p
          /\ m.executionFrame \in {last, last + 1}
      BY <1>5, <1>6, <2>2
    <3>2. /\ q \in Players /\ q # p
          /\ frame[p] <= frame[q] + 2 * MaxRunAhead + 2
      BY <3>1, RecipientBound
    <3>3. frame[q] \in Nat
      BY <3>2, NumberTypes
    <3> QED
      BY <1>2, <3>1, <3>2, <3>3, SMT
  <2> QED
    BY <1>3, <2>1, <2>2
<1>17. RingInv'
  BY <1>8, <1>9, <1>11, GivenRing
<1>18. LockstepAgreement'
  BY <1>8, GivenLockstep
<1> QED
  BY <1>8, <1>12, <1>13, <1>14, <1>15, <1>16, <1>17, <1>18

-----------------------------------------------------------------------------
(* The initial state *)

(* The invariant holds before the first frame.                              *)
LEMMA InitInv == Init => CoreInv
<1> SUFFICES ASSUME Init PROVE CoreInv
  OBVIOUS
<1>1. TypeOK
  BY TypeInit
<1>2. /\ net = {} /\ CommandsIn(net) = {}
      /\ frame = [p \in Players |-> 0]
      /\ localStatus = [p \in Players |-> "PREGAME"]
      /\ runAhead = [p \in Players |-> InitialRunAhead]
      /\ lastExecutionFrame = [p \in Players |-> InitialRunAhead - 1]
      /\ lastFrameCompleted = [p \in Players |-> InitialRunAhead - 1]
      /\ managers = [p \in Players |-> Players]
      /\ quitFrame = [p \in Players |-> [q \in Players |-> NOT_QUITTING]]
      /\ executed = [p \in Players |-> {}]
  BY DEF Init, CommandsIn
<1>3. /\ InitialRunAhead \in Nat \ {0} /\ MaxRunAhead \in Nat
      /\ InitialRunAhead <= MaxRunAhead
      /\ FRAME_DATA_LENGTH \in Nat \ {0} /\ 4 * MaxRunAhead + 2 <= FRAME_DATA_LENGTH
      /\ FRAMES_TO_KEEP = MaxRunAhead + 1
  BY WindowSizes
<1>4. \A p \in Players : /\ ~Leaving(p) /\ Awaited(p) = Players
                         /\ Announced(p) = InitialRunAhead - 1
                         /\ LastWaiting(p) = InitialRunAhead
  BY <1>2, <1>3, SMT DEF Leaving, Awaited, Announced, LastWaiting
<1>5. ScheduleInv
  BY <1>2, <1>3, <1>4, SMT DEF ScheduleInv
<1>6. CommandInv
  BY <1>2, <1>4, FS_EmptySet DEF CommandInv
<1>7. AnnounceInv /\ ReachInv
  BY <1>2 DEF AnnounceInv, ReachInv
<1>8. DriftInv
  <2> SUFFICES ASSUME NEW p \in Players, NEW q \in Players
               PROVE  /\ q \in Awaited(p) => frame[p] <= LastWaiting(q)
                      /\ q \notin Awaited(p) => Leaving(q) /\ LastWaiting(q) < frame[p]
                      /\ p \in Awaited(p) <=> localStatus[p] # "LEFT"
                      /\ quitFrame[p][p] = NOT_QUITTING
    BY DEF DriftInv
  <2>1. frame[p] <= LastWaiting(q)
    BY <1>2, <1>3, <1>4, SMT
  <2> QED
    BY <1>2, <1>4, <2>1
<1>9. RingInv
  <2> SUFFICES ASSUME NEW p \in Players, NEW q \in Players, NEW f \in Window(p)
               PROVE  TrueSlot(p, q, f, frameData[p][q][SlotIndex(f)])
    BY <1>2 DEF RingInv
  <2>1. f \in Nat /\ 1 <= f /\ f <= FRAME_DATA_LENGTH
    BY <1>2, <1>3, SMT DEF Window, WindowEnd
  <2>2. SlotIndex(f) \in Slots
    BY <2>1, SlotInRing
  <2>3. SlotIndex(f) \in 1 .. InitialRunAhead - 1 => f <= InitialRunAhead - 1
    BY <1>3, <2>1, SMT DEF SlotIndex
  <2>4. frameData[p][q][SlotIndex(f)] =
          IF SlotIndex(f) \in 1 .. InitialRunAhead - 1
          THEN EmptyFrame(0) ELSE FreshFrame(p = q)
    BY <2>2 DEF Init
  <2>5. Scheduled(q, f) = {}
    BY <1>2 DEF Scheduled
  <2>6. Cardinality({}) = 0 /\ UNSET # 0
    BY FS_EmptySet, SMT DEF UNSET
  <2>7. CASE SlotIndex(f) \in 1 .. InitialRunAhead - 1
    BY <1>4, <2>3, <2>4, <2>5, <2>6, <2>7 DEF TrueSlot, EmptyFrame
  <2>8. CASE SlotIndex(f) \notin 1 .. InitialRunAhead - 1
    BY <2>4, <2>5, <2>6, <2>8 DEF TrueSlot, FreshFrame, EmptyFrame
  <2> QED
    BY <2>7, <2>8
<1>10. LockstepAgreement
  BY <1>2 DEF LockstepAgreement
<1> QED
  BY <1>5, <1>6, <1>7, <1>8, <1>9, <1>10 DEF CoreInv

-----------------------------------------------------------------------------
(* The ready check *)

(* Throwing a frame away touches no frame of the window: a frame in the     *)
(* window never holds too many commands.                                    *)
LEMMA ReadyCheckSpares ==
    ASSUME NEW p \in Players, NEW rings \in [Players -> RingType],
           NEW awaited, NEW frames \in SUBSET Nat, NEW h \in Nat,
           h \in frames => \A q \in awaited : ~NeedsResend(rings[q][SlotIndex(h)]),
           \A f \in frames : f # h => SlotIndex(f) # SlotIndex(h)
    PROVE  \A q \in Players, f \in frames :
              AfterReadyCheck(p, rings, awaited, h)[q][SlotIndex(f)] = rings[q][SlotIndex(f)]
<1> TAKE q \in Players, f \in frames
<1>1. CASE h \in frames
  BY <1>1 DEF AfterReadyCheck
<1>2. CASE h \notin frames
  <2>1. SlotIndex(f) # SlotIndex(h) /\ SlotIndex(f) \in Slots /\ SlotIndex(h) \in Slots
    BY <1>2, SlotInRing
  <2>2. ResetFrame(rings[q], FALSE, h)[SlotIndex(f)] = rings[q][SlotIndex(f)]
    BY <2>1 DEF ResetFrame, RingType
  <2> QED
    BY <2>2 DEF AfterReadyCheck
<1> QED
  BY <1>1, <1>2

-----------------------------------------------------------------------------
(* A message arrives *)

(* What arrives is true: a slot it is put into stays true of its frame.     *)
LEMMA ReceivedSlot ==
    ASSUME TypeOK, CommandInv, AnnounceInv, NEW p \in Players, NEW m \in net,
           m.playerID # p, NEW d \in FrameDataType,
           TrueSlot(p, m.playerID, m.executionFrame, d)
    PROVE  TrueSlot(p, m.playerID, m.executionFrame,
                    IF m.type = "FRAMEINFO" THEN [d EXCEPT !.frameCommandCount = m.value]
                    ELSE AddCommand(d, m))
<1> DEFINE S == Scheduled(m.playerID, m.executionFrame)
<1>1. CASE m.type = "FRAMEINFO"
  <2> DEFINE e == [d EXCEPT !.frameCommandCount = m.value]
  <2>1. /\ e.commandList = d.commandList /\ e.commandCount = d.commandCount
        /\ e.frameCommandCount = m.value
    BY SMT DEF FrameDataType
  <2>2. m.value = Cardinality(S) /\ m.executionFrame \in InitialRunAhead .. Announced(m.playerID)
    BY <1>1 DEF AnnounceInv
  <2>3. m.executionFrame <= Announced(m.playerID)
    <3>1. m.executionFrame \in Nat /\ m.playerID \in Players
      BY CommandTypes
    <3>2. Announced(m.playerID) \in Int
      BY <3>1, NumberTypes, SMT DEF Announced
    <3> QED
      BY <2>2, <3>1, <3>2, WindowSizes, SMT
  <2> HIDE DEF e
  <2> QED
    BY <1>1, <2>1, <2>2, <2>3 DEF TrueSlot, e
<1>2. CASE m.type # "FRAMEINFO"
  <2>1. m \in S
    BY <1>2 DEF Scheduled, CommandsIn
  <2>2. IsFiniteSet(d.commandList) /\ d.commandCount = Cardinality(d.commandList)
    BY TrueSlotCounts DEF CommandInv, TrueSlot
  <2>3. /\ AddCommand(d, m).commandList \subseteq d.commandList \union {m}
        /\ AddCommand(d, m).commandCount = Cardinality(AddCommand(d, m).commandList)
        /\ AddCommand(d, m).frameCommandCount = d.frameCommandCount
    BY <2>2, AddCommandCounts
  <2> QED
    BY <1>2, <2>1, <2>3 DEF TrueSlot
<1> QED
  BY <1>1, <1>2

(* Before the frame is tested, what was received lies in the ring and is    *)
(* true of every frame that may still be run.                               *)
LEMMA ReceivedTrue ==
    ASSUME IInv, MaxRunAhead >= 2, NEW p \in Players, NEW m \in net, CanReceive(p, m)
    PROVE  /\ m.executionFrame \in Nat
           /\ Received(p, m) \in [Players -> RingType]
           /\ \A f \in Window(p) : f # m.executionFrame =>
                 SlotIndex(f) # SlotIndex(m.executionFrame)
           /\ \A s \in managers[p], f \in Window(p) :
                 TrueSlot(p, s, f, Received(p, m)[s][SlotIndex(f)])
<1> USE DEF IInv, CoreInv
<1> DEFINE q == m.playerID
           h == m.executionFrame
           received == Received(p, m)
           slot == frameData[p][q][SlotIndex(h)]
           filled == IF m.type = "FRAMEINFO" THEN [slot EXCEPT !.frameCommandCount = m.value]
                     ELSE AddCommand(slot, m)
<1>1. p \in m.to /\ localStatus[p] # "LEFT" /\ q \in managers[p] /\ frame[p] <= h
  BY DEF CanReceive
<1>2. /\ q \in Players /\ h \in Nat /\ h # 0 /\ q # p
      /\ h < frame[p] + FRAME_DATA_LENGTH /\ frame[p] \in Nat
  <2>1. q \in Players /\ h \in Nat /\ frame[p] \in Nat
    BY CommandTypes, NumberTypes
  <2>2. InitialRunAhead <= h
    <3>1. CASE m.type = "FRAMEINFO"
      <4>1. Announced(q) \in Int
        BY <2>1, NumberTypes, SMT DEF Announced
      <4> QED
        BY <2>1, <3>1, <4>1, WindowSizes, SMT DEF AnnounceInv
    <3>2. CASE m.type # "FRAMEINFO"
      BY <3>2 DEF CommandInv, CommandsIn
    <3> QED
      BY <3>1, <3>2
  <2>3. q # p /\ h <= frame[p] + 3 * MaxRunAhead + 3
    BY <1>1 DEF ReachInv
  <2> QED
    BY <2>1, <2>2, <2>3, WindowSizes, SMT
<1>3. /\ frameData \in [Players -> [Players -> RingType]]
      /\ SlotIndex(h) \in Slots /\ slot \in FrameDataType
      /\ received \in [Players -> RingType]
  <2>1. frameData \in [Players -> [Players -> RingType]]
    BY DEF TypeOK, RingType
  <2>2. SlotIndex(h) \in Slots /\ slot \in FrameDataType
    BY <1>2, <2>1, SlotInRing DEF RingType
  <2>3. received \in [Players -> RingType]
    <3>1. m.type = "FRAMEINFO" => SetFrameCommandCount(frameData[p][q], h, m.value) \in RingType
      BY <1>2, <2>1, CommandTypes, SetFrameCommandCountType
    <3>2. m.type # "FRAMEINFO" => AddNetCommandMsg(frameData[p][q], FALSE, m) \in RingType
      BY <1>2, <2>1, CommandTypes, AddNetCommandMsgType
    <3> QED
      BY <1>2, <2>1, <3>1, <3>2 DEF Received
  <2> QED
    BY <2>1, <2>2, <2>3
<1>4. /\ \A s \in Players : s # q => received[s] = frameData[p][s]
      /\ received[q] = [frameData[p][q] EXCEPT ![SlotIndex(h)] = filled]
  BY <1>2, <1>3 DEF Received, SetFrameCommandCount, AddNetCommandMsg
<1> HIDE DEF received
<1>5. Window(p) \in SUBSET Nat
  BY SMT DEF Window
<1>6. \A f \in Window(p) : f # h => SlotIndex(f) # SlotIndex(h)
  BY <1>1, <1>2, <1>5, WindowApart, SMT DEF Window
<1>7. \A s \in managers[p], f \in Window(p) : TrueSlot(p, s, f, received[s][SlotIndex(f)])
  <2> TAKE s \in managers[p], f \in Window(p)
  <2>1. s \in Players /\ f \in Nat /\ SlotIndex(f) \in Slots
    BY <1>5, NumberTypes, SlotInRing
  <2>2. TrueSlot(p, s, f, frameData[p][s][SlotIndex(f)])
    BY <1>1 DEF RingInv
  <2>3. CASE s # q
    BY <1>4, <2>1, <2>2, <2>3
  <2>4. CASE s = q /\ f # h
    <3>1. SlotIndex(f) # SlotIndex(h) /\ frameData[p][q] \in [Slots -> FrameDataType]
      BY <1>2, <1>3, <1>6, <2>4 DEF RingType
    <3> HIDE DEF filled, h
    <3>2. received[s][SlotIndex(f)] = frameData[p][s][SlotIndex(f)]
      BY <1>4, <2>1, <2>4, <3>1
    <3> QED
      BY <2>2, <3>2
  <2>5. CASE s = q /\ f = h
    <3>1. TrueSlot(p, q, h, filled)
      BY <1>2, <1>3, <2>2, <2>5, ReceivedSlot
    <3>2. frameData[p][q] \in [Slots -> FrameDataType]
      BY <1>2, <1>3 DEF RingType
    <3> HIDE DEF filled, h
    <3>3. received[s][SlotIndex(f)] = filled
      BY <1>3, <1>4, <2>5, <3>2
    <3> QED
      BY <2>5, <3>1, <3>3
  <2> QED
    BY <2>3, <2>4, <2>5
<1> USE DEF received
<1> QED
  BY <1>2, <1>3, <1>6, <1>7

(* A message that arrives keeps the invariant.                              *)
LEMMA ReceiveInv ==
    ASSUME IInv, MaxRunAhead >= 2, NEW p \in Players, NEW m \in net, Receive(p, m)
    PROVE  CoreInv'
<1> USE DEF IInv, CoreInv
<1> DEFINE h == m.executionFrame
           received == Received(p, m)
<1>1. /\ frameData' = [frameData EXCEPT ![p] = AfterReadyCheck(p, received, Awaited(p), h)]
      /\ UNCHANGED <<frame, localStatus, networkVars, managers, quitFrame,
                     nextCommandID, net, executed>>
  BY DEF Receive
<1>2. /\ h \in Nat /\ received \in [Players -> RingType]
      /\ \A f \in Window(p) : f # h => SlotIndex(f) # SlotIndex(h)
      /\ \A s \in managers[p], f \in Window(p) : TrueSlot(p, s, f, received[s][SlotIndex(f)])
  BY ReceivedTrue DEF Receive
<1> HIDE DEF received
<1>3. /\ ScheduleInv' /\ CommandInv' /\ AnnounceInv' /\ DriftInv' /\ ReachInv'
      /\ LockstepAgreement'
      /\ \A s \in Players, f \in Nat : Scheduled(s, f)' = Scheduled(s, f)
      /\ \A s \in Players : Announced(s)' = Announced(s)
      /\ Window(p)' = Window(p)
  <2> USE <1>1 DEF networkVars
  <2>1. ScheduleInv' /\ LockstepAgreement'
    BY DEF ScheduleInv, LockstepAgreement, Leaving, CommandsIn
  <2>2. CommandInv' /\ AnnounceInv'
    BY DEF CommandInv, AnnounceInv, Leaving, CommandsIn, Announced, Scheduled
  <2>3. DriftInv' /\ ReachInv'
    BY DEF DriftInv, ReachInv, Leaving, Awaited, LastWaiting
  <2>4. /\ \A s \in Players, f \in Nat : Scheduled(s, f)' = Scheduled(s, f)
        /\ \A s \in Players : Announced(s)' = Announced(s)
        /\ Window(p)' = Window(p)
    BY DEF Scheduled, CommandsIn, Announced, Leaving, Window
  <2> QED
    BY <2>1, <2>2, <2>3, <2>4
<1>4. frameData \in [Players -> [Players -> RingType]]
  BY DEF TypeOK, RingType
<1>6. Window(p) \in SUBSET Nat
  BY SMT DEF Window
<1>9. \A s \in Players, f \in Window(p) :
        frameData'[p][s][SlotIndex(f)] = received[s][SlotIndex(f)]
  <2>1. h \in Window(p) => \A s \in Awaited(p) : ~NeedsResend(received[s][SlotIndex(h)])
    BY <1>2, TrueSlotCounts DEF Awaited, CommandInv
  <2>2. \A s \in Players, f \in Window(p) :
          AfterReadyCheck(p, received, Awaited(p), h)[s][SlotIndex(f)] = received[s][SlotIndex(f)]
    <3> DEFINE frames == Window(p)
    <3>1. h \in Nat /\ received \in [Players -> RingType] /\ frames \in SUBSET Nat
      BY <1>2, <1>6
    <3>2. \A f \in frames : f # h => SlotIndex(f) # SlotIndex(h)
      BY <1>2
    <3>3. h \in frames => \A s \in Awaited(p) : ~NeedsResend(received[s][SlotIndex(h)])
      BY <2>1
    <3> HIDE DEF h, frames
    <3>4. \A s \in Players, f \in frames :
            AfterReadyCheck(p, received, Awaited(p), h)[s][SlotIndex(f)] = received[s][SlotIndex(f)]
      BY <3>1, <3>2, <3>3, ReadyCheckSpares, SMTT(20)
    <3> QED
      BY <3>4 DEF frames
  <2> QED
    BY <1>1, <1>4, <2>2
<1>10. RingInv'
  <2> SUFFICES ASSUME NEW r \in Players, localStatus'[r] # "LEFT",
                      NEW s \in managers'[r], NEW f \in Window(r)'
               PROVE  TrueSlot(r, s, f, frameData[r][s][SlotIndex(f)])'
    BY DEF RingInv
  <2>1. /\ s \in managers[r] /\ s \in Players /\ localStatus[r] # "LEFT"
        /\ f \in Window(r) /\ f \in Nat
    BY <1>1, NumberTypes, SMT DEF Window
  <2>2. Scheduled(s, f)' = Scheduled(s, f) /\ Announced(s)' = Announced(s)
    BY <1>3, <2>1
  <2>3. Scheduled(r, f)' = Scheduled(r, f)
    BY <1>3, <2>1
  <2>4. CASE r # p
    <3>1. frameData'[r] = frameData[r]
      BY <1>1, <1>4, <2>4
    <3>2. TrueSlot(r, s, f, frameData[r][s][SlotIndex(f)])
      BY <2>1 DEF RingInv
    <3> QED
      BY <2>2, <2>3, <3>1, <3>2 DEF TrueSlot
  <2>5. CASE r = p
    <3>1. TrueSlot(p, s, f, received[s][SlotIndex(f)])
      BY <1>2, <2>1, <2>5
    <3>2. frameData'[p][s][SlotIndex(f)] = received[s][SlotIndex(f)]
      BY <1>9, <2>1, <2>5
    <3> QED
      BY <2>2, <2>3, <2>5, <3>1, <3>2 DEF TrueSlot
  <2> QED
    BY <2>4, <2>5
<1> QED
  BY <1>3, <1>10

-----------------------------------------------------------------------------
(* The logic advances: ExecutePregameFrame and ExecuteFrame *)

(* What both have in common: the next frame is entered, the frames that can *)
(* get no more commands are announced.                                      *)
Advances(p) ==
    /\ localStatus[p] # "LEFT"
    /\ frame' = [frame EXCEPT ![p] = @ + 1]
    /\ \E status \in IF Leaving(p) THEN {"LEAVING", "LEFT"} ELSE {"INGAME"} :
          localStatus' = [localStatus EXCEPT ![p] = status]
    /\ \A q \in Players \ {p} : runAhead'[q] = runAhead[q]
    /\ localStatus[p] = "PREGAME" => runAhead' = runAhead
    /\ UNCHANGED nextCommandID
    /\ AnnounceFrames(p)

(* The numbers of the player who advances.                                  *)
LEMMA AdvancedNumbers ==
    ASSUME TypeOK, TypeOK', ScheduleInv, NEW p \in Players, Advances(p)
    PROVE  /\ Leaving(p)' <=> Leaving(p)
           /\ Leaving(p) => UNCHANGED <<lastExecutionFrame, lastFrameCompleted, net>>
           /\ ~Leaving(p) =>
                /\ localStatus'[p] = "INGAME"
                /\ frame[p] + 1 <= lastFrameCompleted[p] + 1
                /\ lastFrameCompleted[p] <= lastFrameCompleted'[p]
                /\ lastExecutionFrame[p] <= lastExecutionFrame'[p]
                /\ lastFrameCompleted'[p] = lastExecutionFrame'[p] - 1
                /\ frame'[p] + runAhead'[p] <= lastExecutionFrame'[p]
                /\ lastExecutionFrame'[p] <= frame'[p] + MaxRunAhead
                /\ net' = net \union {FrameInfoFor(p, frameData'[p][p], f) :
                             f \in lastFrameCompleted[p] + 1 .. lastFrameCompleted'[p]}
           /\ \A q \in Players \ {p} :
                /\ localStatus'[q] = localStatus[q] /\ frame'[q] = frame[q]
                /\ lastExecutionFrame'[q] = lastExecutionFrame[q]
                /\ lastFrameCompleted'[q] = lastFrameCompleted[q]
           /\ frame'[p] = frame[p] + 1
<1> DEFINE next == frame'[p] + runAhead'[p]
           last == lastExecutionFrame[p]
           done == lastFrameCompleted[p]
           upTo == (IF next > last THEN next ELSE last) - 1
<1>1. frame'[p] = frame[p] + 1 /\ \A q \in Players \ {p} : frame'[q] = frame[q]
  BY DEF Advances, TypeOK
<1>2. PICK status \in IF Leaving(p) THEN {"LEAVING", "LEFT"} ELSE {"INGAME"} :
         localStatus' = [localStatus EXCEPT ![p] = status]
  BY DEF Advances
<1>3. /\ localStatus'[p] = status
      /\ \A q \in Players \ {p} : localStatus'[q] = localStatus[q]
  BY <1>2 DEF TypeOK
<1>4. Leaving(p)' <=> Leaving(p)
  BY <1>2, <1>3 DEF Leaving
<1>5. CASE Leaving(p)
  <2>1. UNCHANGED <<lastExecutionFrame, lastFrameCompleted, net>>
    BY <1>2, <1>3, <1>5 DEF Advances, AnnounceFrames
  <2> QED
    BY <1>1, <1>3, <1>4, <1>5, <2>1
<1>6. CASE ~Leaving(p)
  <2>1. localStatus'[p] = "INGAME"
    BY <1>2, <1>3, <1>6
  <2>2. /\ lastExecutionFrame' = [lastExecutionFrame EXCEPT ![p] = upTo + 1]
        /\ lastFrameCompleted' = [lastFrameCompleted EXCEPT
              ![p] = IF upTo > @ THEN upTo ELSE @]
        /\ net' = net \union {FrameInfoFor(p, frameData'[p][p], f) : f \in done + 1 .. upTo}
    BY <2>1, SMT DEF Advances, AnnounceFrames
  <2>3. /\ lastExecutionFrame'[p] = upTo + 1
        /\ lastFrameCompleted'[p] = IF upTo > done THEN upTo ELSE done
        /\ \A q \in Players \ {p} :
             /\ lastExecutionFrame'[q] = lastExecutionFrame[q]
             /\ lastFrameCompleted'[q] = lastFrameCompleted[q]
    BY <2>2 DEF TypeOK
  <2>4. /\ frame[p] \in Nat /\ frame'[p] \in Nat /\ last \in Nat /\ done \in Nat
        /\ runAhead[p] \in Nat /\ 1 <= runAhead[p] /\ runAhead[p] <= MaxRunAhead
        /\ runAhead'[p] \in Nat /\ 1 <= runAhead'[p] /\ runAhead'[p] <= MaxRunAhead
        /\ MaxRunAhead \in Nat /\ InitialRunAhead \in Nat \ {0}
    <3>1. runAhead'[p] \in MIN_RUNAHEAD .. MaxRunAhead /\ frame[p] + 1 \in Nat
      BY NumberTypes, SMT DEF TypeOK
    <3> QED
      BY <1>1, <3>1, NumberTypes, WindowSizes, SMT
  <2>5. last <= frame[p] + MaxRunAhead
    BY DEF ScheduleInv
  <2> HIDE DEF next, last, done
  <2>6. /\ done <= upTo /\ frame[p] <= done
        /\ last <= upTo + 1 /\ next <= upTo + 1 /\ upTo + 1 <= frame'[p] + MaxRunAhead
    <3>1. last <= upTo + 1 /\ next <= upTo + 1 /\ upTo + 1 <= frame'[p] + MaxRunAhead
      <4>1. next = frame'[p] + runAhead'[p]
        BY DEF next
      <4> QED
        BY <1>1, <2>4, <2>5, <4>1, SMT
    <3>2. CASE localStatus[p] = "INGAME"
      <4>1. done = last - 1 /\ frame[p] + runAhead[p] <= last
        BY <3>2 DEF ScheduleInv, done, last
      <4> HIDE DEF upTo
      <4>2. upTo \in Int
        BY <2>4, SMT DEF upTo, next
      <4> QED
        BY <2>4, <3>1, <4>1, <4>2, SMT
    <3>3. CASE localStatus[p] = "PREGAME"
      <4>1. done = InitialRunAhead - 1 /\ frame[p] = 0 /\ runAhead[p] = InitialRunAhead
        BY <3>3 DEF ScheduleInv, done
      <4>2. next = 1 + InitialRunAhead
        BY <1>1, <3>3, <4>1, SMT DEF Advances, next
      <4> QED
        BY <2>4, <3>1, <4>1, <4>2, SMT
    <3> QED
      BY <1>6, <3>2, <3>3 DEF TypeOK, Leaving
  <2>7. upTo \in Int
    BY <2>4, SMT DEF upTo, next
  <2> HIDE DEF upTo
  <2>8. lastFrameCompleted'[p] = upTo
    BY <2>3, <2>4, <2>6, <2>7, SMT
  <2>9. /\ frame[p] + 1 <= done + 1 /\ done <= lastFrameCompleted'[p]
        /\ last <= lastExecutionFrame'[p]
        /\ lastFrameCompleted'[p] = lastExecutionFrame'[p] - 1
        /\ frame'[p] + runAhead'[p] <= lastExecutionFrame'[p]
        /\ lastExecutionFrame'[p] <= frame'[p] + MaxRunAhead
    BY <2>3, <2>4, <2>6, <2>7, <2>8, SMT DEF next
  <2> QED
    BY <1>1, <1>3, <1>4, <1>6, <2>1, <2>2, <2>3, <2>8, <2>9 DEF done, last
<1> QED
  BY <1>5, <1>6

(* Announcing gives no command; what others wait for only grows, and is     *)
(* fixed once a player leaves.                                              *)
LEMMA AdvancedMonotone ==
    ASSUME TypeOK, TypeOK', ScheduleInv, NEW p \in Players, Advances(p)
    PROVE  /\ CommandsIn(net)' = CommandsIn(net)
           /\ \A q \in Players :
                /\ Leaving(q)' <=> Leaving(q)
                /\ Announced(q) <= Announced(q)'
                /\ LastWaiting(q) <= LastWaiting(q)'
                /\ Leaving(q) => LastWaiting(q)' = LastWaiting(q)
                /\ lastExecutionFrame[q] <= lastExecutionFrame'[q]
                /\ Leaving(q) => lastExecutionFrame'[q] = lastExecutionFrame[q]
<1>1. CommandsIn(net)' = CommandsIn(net)
  <2>1. CASE Leaving(p)
    BY <2>1, AdvancedNumbers DEF CommandsIn
  <2>2. CASE ~Leaving(p)
    <3> DEFINE infos == {FrameInfoFor(p, frameData'[p][p], f) :
                           f \in lastFrameCompleted[p] + 1 .. lastFrameCompleted'[p]}
    <3>1. net' = net \union infos
      BY <2>2, AdvancedNumbers
    <3>2. \A m \in infos : m.type = "FRAMEINFO"
      BY DEF FrameInfoFor, Message
    <3> HIDE DEF infos
    <3> QED
      BY <3>1, <3>2 DEF CommandsIn
  <2> QED
    BY <2>1, <2>2
<1>2. ASSUME NEW q \in Players
      PROVE  /\ Leaving(q)' <=> Leaving(q)
             /\ Announced(q) <= Announced(q)'
             /\ LastWaiting(q) <= LastWaiting(q)'
             /\ Leaving(q) => LastWaiting(q)' = LastWaiting(q)
             /\ lastExecutionFrame[q] <= lastExecutionFrame'[q]
             /\ Leaving(q) => lastExecutionFrame'[q] = lastExecutionFrame[q]
  <2>1. /\ Leaving(q)' <=> Leaving(q)
        /\ lastExecutionFrame[q] <= lastExecutionFrame'[q]
        /\ lastFrameCompleted[q] <= lastFrameCompleted'[q]
        /\ Leaving(q) => lastExecutionFrame'[q] = lastExecutionFrame[q]
        /\ lastExecutionFrame[q] \in Nat /\ lastExecutionFrame'[q] \in Nat
        /\ lastFrameCompleted[q] \in Nat /\ lastFrameCompleted'[q] \in Nat
    <3>1. /\ lastExecutionFrame[q] \in Nat /\ lastExecutionFrame'[q] \in Nat
          /\ lastFrameCompleted[q] \in Nat /\ lastFrameCompleted'[q] \in Nat
      BY DEF TypeOK
    <3>2. CASE q = p
      BY <3>1, <3>2, AdvancedNumbers, SMT
    <3>3. CASE q # p
      <4>1. /\ localStatus'[q] = localStatus[q]
            /\ lastExecutionFrame'[q] = lastExecutionFrame[q]
            /\ lastFrameCompleted'[q] = lastFrameCompleted[q]
        BY <3>3, AdvancedNumbers
      <4>2. Leaving(q)' <=> Leaving(q)
        BY <4>1 DEF Leaving
      <4> QED
        BY <3>1, <4>1, <4>2, SMT
    <3> QED
      BY <3>2, <3>3
  <2> QED
    BY <2>1, SMT DEF Announced, LastWaiting
<1> QED
  BY <1>1, <1>2

(* Execution frame, announced frames and logic frame stay in step.          *)
LEMMA AdvancedSchedule ==
    ASSUME TypeOK, TypeOK', ScheduleInv, NEW p \in Players, Advances(p)
    PROVE  ScheduleInv'
<1> SUFFICES ASSUME NEW q \in Players
             PROVE  /\ InitialRunAhead - 1 <= lastFrameCompleted'[q]
                    /\ lastExecutionFrame'[q] <= frame'[q] + MaxRunAhead
                    /\ localStatus'[q] = "PREGAME" =>
                          /\ frame'[q] = 0 /\ runAhead'[q] = InitialRunAhead
                          /\ lastFrameCompleted'[q] = InitialRunAhead - 1
                    /\ localStatus'[q] # "PREGAME" => frame'[q] # 0
                    /\ localStatus'[q] = "INGAME" =>
                          /\ lastFrameCompleted'[q] = lastExecutionFrame'[q] - 1
                          /\ frame'[q] + runAhead'[q] <= lastExecutionFrame'[q]
                    /\ Leaving(q)' => lastFrameCompleted'[q] = lastExecutionFrame'[q]
  BY DEF ScheduleInv
<1>1. /\ frame[q] \in Nat /\ lastExecutionFrame[q] \in Nat /\ lastExecutionFrame'[q] \in Nat
      /\ lastFrameCompleted[q] \in Nat /\ lastFrameCompleted'[q] \in Nat
      /\ InitialRunAhead \in Nat /\ MaxRunAhead \in Nat
  BY NumberTypes, WindowSizes DEF TypeOK
<1>2. /\ InitialRunAhead - 1 <= lastFrameCompleted[q]
      /\ lastExecutionFrame[q] <= frame[q] + MaxRunAhead
      /\ localStatus[q] = "PREGAME" =>
            /\ frame[q] = 0 /\ runAhead[q] = InitialRunAhead
            /\ lastFrameCompleted[q] = InitialRunAhead - 1
      /\ localStatus[q] # "PREGAME" => frame[q] # 0
      /\ localStatus[q] = "INGAME" =>
            /\ lastFrameCompleted[q] = lastExecutionFrame[q] - 1
            /\ frame[q] + runAhead[q] <= lastExecutionFrame[q]
      /\ Leaving(q) => lastFrameCompleted[q] = lastExecutionFrame[q]
  BY DEF ScheduleInv
<1>3. CASE q # p
  <2>1. /\ localStatus'[q] = localStatus[q] /\ frame'[q] = frame[q]
        /\ lastExecutionFrame'[q] = lastExecutionFrame[q]
        /\ lastFrameCompleted'[q] = lastFrameCompleted[q]
    BY <1>3, AdvancedNumbers
  <2>2. runAhead'[q] = runAhead[q]
    BY <1>3 DEF Advances
  <2>3. Leaving(q)' <=> Leaving(q)
    BY AdvancedMonotone
  <2> QED
    BY <1>2, <2>1, <2>2, <2>3
<1>4. CASE q = p /\ Leaving(p)
  <2>1. /\ Leaving(p)' /\ lastExecutionFrame' = lastExecutionFrame
        /\ lastFrameCompleted' = lastFrameCompleted /\ frame'[p] = frame[p] + 1
    BY <1>4, AdvancedNumbers
  <2> QED
    BY <1>1, <1>2, <1>4, <2>1, SMT DEF Leaving
<1>5. CASE q = p /\ ~Leaving(p)
  <2>1. /\ localStatus'[p] = "INGAME" /\ ~Leaving(p)'
        /\ lastFrameCompleted[p] <= lastFrameCompleted'[p]
        /\ lastFrameCompleted'[p] = lastExecutionFrame'[p] - 1
        /\ frame'[p] + runAhead'[p] <= lastExecutionFrame'[p]
        /\ lastExecutionFrame'[p] <= frame'[p] + MaxRunAhead
        /\ frame'[p] = frame[p] + 1
    BY <1>5, AdvancedNumbers
  <2> QED
    BY <1>1, <1>2, <1>5, <2>1, SMT
<1> QED
  BY <1>3, <1>4, <1>5

(* The frames announced carry the counts of frames that are done.           *)
LEMMA AdvancedMessages ==
    ASSUME IInv, TypeOK', NEW p \in Players, Advances(p),
           ~Leaving(p) => \A g \in Nat :
              frame[p] + 1 <= g /\ g <= frame[p] + MaxRunAhead + 1 =>
                 frameData'[p][p][SlotIndex(g)].commandCount = Cardinality(Scheduled(p, g))
    PROVE  CommandInv' /\ AnnounceInv' /\ ReachInv'
<1> USE DEF IInv, CoreInv
<1> DEFINE infos == IF Leaving(p) THEN {} ELSE
                    {FrameInfoFor(p, frameData'[p][p], f) :
                       f \in lastFrameCompleted[p] + 1 .. lastFrameCompleted'[p]}
<1>1. /\ CommandsIn(net)' = CommandsIn(net)
      /\ \A q \in Players :
           /\ Leaving(q)' <=> Leaving(q)
           /\ Announced(q) <= Announced(q)'
           /\ lastExecutionFrame[q] <= lastExecutionFrame'[q]
           /\ Leaving(q) => lastExecutionFrame'[q] = lastExecutionFrame[q]
      /\ nextCommandID' = nextCommandID
  BY AdvancedMonotone DEF Advances
<1>2. net' = net \union infos
  BY AdvancedNumbers
<1>3. IsFiniteSet(infos)
  <2>1. CASE Leaving(p)
    BY <2>1, FS_EmptySet
  <2>2. CASE ~Leaving(p)
    <3> DEFINE fresh == lastFrameCompleted[p] + 1 .. lastFrameCompleted'[p]
    <3>1. lastFrameCompleted[p] + 1 \in Int /\ lastFrameCompleted'[p] \in Int
      BY SMT DEF TypeOK
    <3>2. IsFiniteSet(fresh)
      BY <3>1, FS_Interval
    <3> HIDE DEF fresh
    <3> DEFINE announce == [f \in fresh |-> FrameInfoFor(p, frameData'[p][p], f)]
               announced == {FrameInfoFor(p, frameData'[p][p], f) : f \in fresh}
    <3>3. announce \in Surjection(fresh, announced)
      BY DEF Surjection
    <3> HIDE DEF announce, announced
    <3>4. IsFiniteSet(announced)
      BY <3>2, <3>3, FS_Surjection
    <3> QED
      BY <2>2, <3>4 DEF fresh, announced
  <2> QED
    BY <2>1, <2>2
<1>4. \A m \in infos :
        /\ ~Leaving(p) /\ m.type = "FRAMEINFO" /\ m.playerID = p /\ m.to = Recipients(p)
        /\ m.executionFrame \in lastFrameCompleted[p] + 1 .. lastFrameCompleted'[p]
        /\ m.value = frameData'[p][p][SlotIndex(m.executionFrame)].commandCount
  BY DEF FrameInfoFor, Message
<1> HIDE DEF infos
<1>5. \A q, f : Scheduled(q, f)' = Scheduled(q, f)
  BY <1>1 DEF Scheduled
<1>6. \A m \in infos :
        /\ m.executionFrame \in Nat
        /\ InitialRunAhead <= m.executionFrame
        /\ frame[p] + 1 <= m.executionFrame
        /\ m.executionFrame <= frame[p] + MaxRunAhead
        /\ m.executionFrame <= Announced(p)'
  <2> TAKE m \in infos
  <2>1. /\ ~Leaving(p) /\ m.executionFrame \in lastFrameCompleted[p] + 1 .. lastFrameCompleted'[p]
    BY <1>4
  <2>2. /\ frame[p] + 1 <= lastFrameCompleted[p] + 1
        /\ lastFrameCompleted'[p] = lastExecutionFrame'[p] - 1
        /\ lastExecutionFrame'[p] <= frame'[p] + MaxRunAhead
        /\ frame'[p] = frame[p] + 1
    BY <2>1, AdvancedNumbers
  <2>3. InitialRunAhead - 1 <= lastFrameCompleted[p]
    BY DEF ScheduleInv
  <2>4. Announced(p)' = lastFrameCompleted'[p]
    BY <1>1, <2>1 DEF Announced
  <2>5. /\ lastFrameCompleted[p] \in Nat /\ lastFrameCompleted'[p] \in Nat
        /\ frame[p] \in Nat /\ lastExecutionFrame'[p] \in Nat
        /\ InitialRunAhead \in Nat /\ MaxRunAhead \in Nat
    BY NumberTypes, WindowSizes DEF TypeOK
  <2> QED
    BY <2>1, <2>2, <2>3, <2>4, <2>5, SMT
<1>7. CommandInv'
  <2>1. IsFiniteSet(net')
    BY <1>2, <1>3, FS_Union DEF CommandInv
  <2>2. \A c \in CommandsIn(net) :
          /\ c.id < nextCommandID'[c.playerID]
          /\ InitialRunAhead <= c.executionFrame
          /\ c.type = "PLAYERLEAVE" =>
                /\ Leaving(c.playerID)'
                /\ c.executionFrame = lastExecutionFrame'[c.playerID] + 1
          /\ c.type # "PLAYERLEAVE" => c.executionFrame <= lastExecutionFrame'[c.playerID]
    <3> TAKE c \in CommandsIn(net)
    <3>1. c.playerID \in Players /\ c.executionFrame \in Nat
      BY CommandTypes DEF CommandsIn
    <3>2. /\ c.id < nextCommandID[c.playerID]
          /\ InitialRunAhead <= c.executionFrame
          /\ c.type = "PLAYERLEAVE" =>
                /\ Leaving(c.playerID)
                /\ c.executionFrame = lastExecutionFrame[c.playerID] + 1
          /\ c.type # "PLAYERLEAVE" => c.executionFrame <= lastExecutionFrame[c.playerID]
      BY DEF CommandInv
    <3>3. lastExecutionFrame[c.playerID] \in Nat /\ lastExecutionFrame'[c.playerID] \in Nat
      BY <3>1 DEF TypeOK
    <3>4. c.type # "PLAYERLEAVE" => c.executionFrame <= lastExecutionFrame'[c.playerID]
      BY <1>1, <3>1, <3>2, <3>3, SMT
    <3>5. c.type = "PLAYERLEAVE" =>
             /\ Leaving(c.playerID)'
             /\ c.executionFrame = lastExecutionFrame'[c.playerID] + 1
      BY <1>1, <3>1, <3>2
    <3> QED
      BY <1>1, <3>2, <3>4, <3>5
  <2>3. \A q \in Players : Leaving(q)' =>
          \E c \in CommandsIn(net)' : c.type = "PLAYERLEAVE" /\ c.playerID = q
    BY <1>1 DEF CommandInv
  <2>4. \A c, d \in CommandsIn(net)' : SameCommand(c, d) => c = d
    BY <1>1 DEF CommandInv
  <2> QED
    BY <1>1, <2>1, <2>2, <2>3, <2>4 DEF CommandInv
<1>8. AnnounceInv'
  <2> SUFFICES ASSUME NEW m \in net', m.type = "FRAMEINFO"
               PROVE  /\ m.executionFrame \in InitialRunAhead .. Announced(m.playerID)'
                      /\ m.value = Cardinality(Scheduled(m.playerID, m.executionFrame)')
    BY DEF AnnounceInv
  <2>1. CASE m \in net
    <3>1. /\ m.executionFrame \in InitialRunAhead .. Announced(m.playerID)
          /\ m.value = Cardinality(Scheduled(m.playerID, m.executionFrame))
          /\ m.playerID \in Players
      BY <2>1, CommandTypes DEF AnnounceInv
    <3>2. Announced(m.playerID) \in Int /\ Announced(m.playerID)' \in Int
      BY <3>1, NumberTypes, SMT DEF Announced, TypeOK
    <3>3. m.executionFrame \in InitialRunAhead .. Announced(m.playerID)'
      BY <1>1, <3>1, <3>2, WindowSizes, SMT
    <3> QED
      BY <1>5, <3>1, <3>3
  <2>2. CASE m \in infos
    <3>1. /\ m.playerID = p /\ ~Leaving(p)
          /\ m.value = frameData'[p][p][SlotIndex(m.executionFrame)].commandCount
      BY <1>4, <2>2
    <3>2. /\ m.executionFrame \in Nat /\ InitialRunAhead <= m.executionFrame
          /\ frame[p] + 1 <= m.executionFrame /\ m.executionFrame <= frame[p] + MaxRunAhead
          /\ m.executionFrame <= Announced(p)'
      BY <1>6, <2>2
    <3>3. m.executionFrame <= frame[p] + MaxRunAhead + 1
      BY <3>2, NumberTypes, WindowSizes, SMT
    <3>4. m.value = Cardinality(Scheduled(p, m.executionFrame))
      BY <3>1, <3>2, <3>3
    <3>5. m.executionFrame \in InitialRunAhead .. Announced(p)'
      <4>1. Announced(p)' \in Int
        BY SMT DEF Announced, TypeOK
      <4> QED
        BY <3>2, <4>1, WindowSizes, SMT
    <3> QED
      BY <1>5, <3>1, <3>4, <3>5
  <2> QED
    BY <1>2, <2>1, <2>2
<1>9. ReachInv'
  <2> SUFFICES ASSUME NEW m \in net', NEW q \in m.to
               PROVE  q # m.playerID /\ m.executionFrame <= frame'[q] + 3 * MaxRunAhead + 3
    BY DEF ReachInv
  <2>1. CASE m \in net
    <3>1. q \in Players /\ m.executionFrame \in Nat /\ frame[q] \in Nat
      BY <2>1, CommandTypes, NumberTypes
    <3>2. q # m.playerID /\ m.executionFrame <= frame[q] + 3 * MaxRunAhead + 3
      BY <2>1 DEF ReachInv
    <3>3. frame'[q] = frame[q] \/ frame'[q] = frame[q] + 1
      BY <3>1, AdvancedNumbers
    <3> QED
      BY <3>1, <3>2, <3>3, WindowSizes, SMT
  <2>2. CASE m \in infos
    <3>1. q \in Recipients(p) /\ m.playerID = p
      BY <1>4, <2>2
    <3>2. q \in Players /\ q # p /\ frame[p] <= frame[q] + 2 * MaxRunAhead + 2
      BY <3>1, RecipientBound
    <3>3. frame'[q] = frame[q]
      BY <3>2, AdvancedNumbers
    <3>4. m.executionFrame \in Nat /\ m.executionFrame <= frame[p] + MaxRunAhead
      BY <1>6, <2>2
    <3>5. frame[p] \in Nat /\ frame[q] \in Nat /\ MaxRunAhead \in Nat
      BY <3>2, NumberTypes, WindowSizes
    <3> QED
      BY <3>1, <3>2, <3>3, <3>4, <3>5, SMT
  <2> QED
    BY <1>2, <2>1, <2>2
<1> QED
  BY <1>7, <1>8, <1>9

(* Slots that were true before a player advances are true after it.         *)
LEMMA AdvancedRing ==
    ASSUME TypeOK, TypeOK', ScheduleInv, NEW p \in Players, Advances(p),
           \A r \in Players : localStatus'[r] # "LEFT" =>
              \A q \in managers'[r], f \in Window(r)' :
                 TrueSlot(r, q, f, frameData'[r][q][SlotIndex(f)])
    PROVE  RingInv'
<1> SUFFICES ASSUME NEW r \in Players, localStatus'[r] # "LEFT",
                    NEW q \in managers'[r], NEW f \in Window(r)'
             PROVE  TrueSlot(r, q, f, frameData[r][q][SlotIndex(f)])'
  BY DEF RingInv
<1>1. TrueSlot(r, q, f, frameData'[r][q][SlotIndex(f)])
  OBVIOUS
<1>2. q \in Players /\ f \in Nat
  BY SMT DEF TypeOK, Window
<1>3. Scheduled(q, f)' = Scheduled(q, f) /\ Scheduled(r, f)' = Scheduled(r, f)
  BY AdvancedMonotone DEF Scheduled
<1>4. f <= Announced(q) => f <= Announced(q)'
  <2>1. Announced(q) <= Announced(q)' /\ Announced(q) \in Int /\ Announced(q)' \in Int
    <3>1. Announced(q) <= Announced(q)'
      BY <1>2, AdvancedMonotone
    <3>2. Announced(q) \in Int /\ Announced(q)' \in Int
      BY <1>2, SMT DEF Announced, TypeOK
    <3> QED
      BY <3>1, <3>2
  <2> QED
    BY <1>2, <2>1, SMT
<1> QED
  BY <1>1, <1>3, <1>4 DEF TrueSlot

(* Frame 0 ends.                                                            *)
LEMMA PregameInv ==
    ASSUME IInv, TypeOK', NEW p \in Players, ExecutePregameFrame(p)
    PROVE  CoreInv'
<1> USE DEF IInv, CoreInv
<1>1. /\ localStatus[p] = "PREGAME" /\ ~Leaving(p)
      /\ frame[p] = 0 /\ runAhead' = runAhead /\ executed' = executed
      /\ managers' = managers /\ frameData' = frameData /\ quitFrame' = quitFrame
  BY DEF ExecutePregameFrame, ScheduleInv, Leaving, ringVars
<1>2. Advances(p)
  <2>1. frame' = [frame EXCEPT ![p] = @ + 1]
    BY <1>1 DEF ExecutePregameFrame
  <2> QED
    BY <1>1, <2>1 DEF Advances, ExecutePregameFrame
<1>3. /\ frame'[p] = 1 /\ \A r \in Players \ {p} : frame'[r] = frame[r]
      /\ localStatus'[p] = "INGAME"
      /\ \A r \in Players \ {p} : localStatus'[r] = localStatus[r]
  BY <1>1, <1>2, AdvancedNumbers, SMT
<1>4. /\ MaxRunAhead \in Nat \ {0} /\ InitialRunAhead \in Nat \ {0}
      /\ FRAMES_TO_KEEP = MaxRunAhead + 1
      /\ FRAME_DATA_LENGTH \in Nat /\ 4 * MaxRunAhead + 2 <= FRAME_DATA_LENGTH
  BY WindowSizes
<1>5. \A r \in Players : Window(r)' = Window(r) /\ Window(r) \subseteq Nat
  <2> TAKE r \in Players
  <2>1. CASE r = p
    <3>1. Window(p) = 1 .. FRAME_DATA_LENGTH
      BY <1>1, <1>4, SMT DEF Window, WindowEnd
    <3>2. Window(p)' = 1 .. FRAME_DATA_LENGTH
      BY <1>3, <1>4, SMT DEF Window, WindowEnd
    <3> QED
      BY <2>1, <3>1, <3>2, SMT
  <2>2. CASE r # p
    BY <1>3, <2>2, SMT DEF Window
  <2> QED
    BY <2>1, <2>2
<1>6. \A r \in Players : localStatus'[r] # "LEFT" =>
        \A q \in managers'[r], f \in Window(r)' :
           TrueSlot(r, q, f, frameData'[r][q][SlotIndex(f)])
  BY <1>1, <1>3, <1>5 DEF RingInv
<1>7. RingInv'
  BY <1>2, <1>6, AdvancedRing
<1>8. ScheduleInv'
  BY <1>2, AdvancedSchedule
<1>9. CommandInv' /\ AnnounceInv' /\ ReachInv'
  <2>1. ASSUME NEW g \in Nat, frame[p] + 1 <= g, g <= frame[p] + MaxRunAhead + 1
        PROVE  frameData'[p][p][SlotIndex(g)].commandCount = Cardinality(Scheduled(p, g))
    <3>1. g \in Window(p)
      BY <1>1, <1>4, <2>1, SMT DEF Window, WindowEnd
    <3>2. p \in managers[p]
      BY <1>1 DEF DriftInv, Awaited
    <3>3. TrueSlot(p, p, g, frameData[p][p][SlotIndex(g)])
      BY <1>1, <3>1, <3>2 DEF RingInv
    <3> QED
      BY <1>1, <3>3 DEF TrueSlot
  <2> QED
    BY <1>2, <2>1, AdvancedMessages
<1>10. DriftInv'
  <2> SUFFICES ASSUME NEW r \in Players, NEW q \in Players
               PROVE  /\ q \in Awaited(r)' => frame'[r] <= LastWaiting(q)'
                      /\ q \notin Awaited(r)' => Leaving(q)' /\ LastWaiting(q)' < frame'[r]
                      /\ r \in Awaited(r)' <=> localStatus'[r] # "LEFT"
                      /\ quitFrame'[r][r] = NOT_QUITTING
    BY DEF DriftInv
  <2>1. Awaited(r)' = Awaited(r)
    BY <1>1 DEF Awaited
  <2>2. /\ q \in Awaited(r) => frame[r] <= LastWaiting(q)
        /\ q \notin Awaited(r) => Leaving(q) /\ LastWaiting(q) < frame[r]
        /\ r \in Awaited(r) <=> localStatus[r] # "LEFT"
        /\ quitFrame[r][r] = NOT_QUITTING
    BY DEF DriftInv
  <2>3. /\ Leaving(q)' <=> Leaving(q)
        /\ LastWaiting(q) <= LastWaiting(q)'
        /\ Leaving(q) => LastWaiting(q)' = LastWaiting(q)
    BY <1>2, AdvancedMonotone
  <2>4. /\ frame[r] \in Nat /\ frame'[r] \in Nat
        /\ LastWaiting(q) \in Nat /\ LastWaiting(q)' \in Nat
    <3>1. frame'[r] \in Nat /\ lastExecutionFrame'[q] \in Nat /\ lastFrameCompleted'[q] \in Nat
      BY NumberTypes, SMT DEF TypeOK
    <3> QED
      BY <3>1, NumberTypes, SMT DEF LastWaiting
  <2>5. LastWaiting(q) >= 1
    <3>1. /\ lastExecutionFrame[q] \in Nat /\ lastFrameCompleted[q] \in Nat
          /\ InitialRunAhead - 1 <= lastFrameCompleted[q]
      BY NumberTypes DEF ScheduleInv
    <3> QED
      BY <1>4, <3>1, SMT DEF LastWaiting
  <2>6. r \in Awaited(r)' <=> localStatus'[r] # "LEFT"
    BY <1>1, <1>3, <2>1, <2>2
  <2>7. CASE r = p
    BY <1>1, <1>3, <2>1, <2>2, <2>3, <2>4, <2>5, <2>6, <2>7, SMT
  <2>8. CASE r # p
    <3>1. frame'[r] = frame[r]
      BY <1>3, <2>8
    <3> QED
      BY <1>1, <2>1, <2>2, <2>3, <2>4, <2>6, <3>1, SMT
  <2> QED
    BY <2>7, <2>8
<1>11. LockstepAgreement'
  <2> SUFFICES ASSUME NEW r \in Players
               PROVE  executed'[r] = {<<c.executionFrame, c>> :
                        c \in {d \in CommandsIn(net)' : d.executionFrame < frame'[r]}}
    BY DEF LockstepAgreement
  <2>1. CommandsIn(net)' = CommandsIn(net)
    BY <1>2, AdvancedMonotone
  <2>2. executed[r] = {<<c.executionFrame, c>> :
                        c \in {d \in CommandsIn(net) : d.executionFrame < frame[r]}}
    BY DEF LockstepAgreement
  <2>3. CASE r # p
    BY <1>1, <1>3, <2>1, <2>2, <2>3
  <2>4. CASE r = p
    <3>1. \A d \in CommandsIn(net) : d.executionFrame \in Nat /\ 1 <= d.executionFrame
      BY <1>4, CommandTypes, SMT DEF CommandInv, CommandsIn
    <3>2. {d \in CommandsIn(net) : d.executionFrame < frame[r]} =
          {d \in CommandsIn(net) : d.executionFrame < frame'[r]}
      BY <1>1, <1>3, <2>4, <3>1, SMT
    <3> QED
      BY <1>1, <2>1, <2>2, <3>2
  <2> QED
    BY <2>3, <2>4
<1> QED
  BY <1>7, <1>8, <1>9, <1>10, <1>11

(* The frame p may run: everybody it waits for has announced the frame and  *)
(* p holds what was announced; the others have no command in it.            *)
LEMMA ExecutedCommands ==
    ASSUME IInv, NEW p \in Players, localStatus[p] \in {"INGAME", "LEAVING"},
           \A q \in Awaited(p) : Ready(frameData[p][q][SlotIndex(frame[p])])
    PROVE  /\ frame[p] \in Nat \ {0} /\ frame[p] \in Window(p)
           /\ FrameCommands(p, frame[p]) =
                {c \in CommandsIn(net) : c.executionFrame = frame[p]}
           /\ \A q \in Awaited(p) : q # p => frame[p] <= Announced(q)
<1> USE DEF IInv, CoreInv
<1> DEFINE f == frame[p]
           L(q) == frameData[p][q][SlotIndex(f)].commandList
<1>1. f \in Nat \ {0} /\ f \in Window(p)
  <2>1. f \in Nat /\ f # 0
    BY NumberTypes DEF ScheduleInv
  <2>2. f <= f + MaxRunAhead + 1
    BY <2>1, WindowSizes, SMT
  <2> QED
    BY <2>1, <2>2, OwnFramesInWindow, SMT
<1>2. \A q \in managers[p] : TrueSlot(p, q, f, frameData[p][q][SlotIndex(f)])
  BY <1>1 DEF RingInv
<1>3. \A q \in Awaited(p) : /\ q \in managers[p] /\ L(q) = Scheduled(q, f)
                            /\ q # p => f <= Announced(q)
  BY <1>2, TrueSlotCounts DEF Awaited, CommandInv
<1>4. \A q \in Players \ Awaited(p) : Scheduled(q, f) = {}
  <2> SUFFICES ASSUME NEW q \in Players \ Awaited(p), NEW c \in CommandsIn(net),
                      c.playerID = q, c.executionFrame = f
               PROVE  FALSE
    BY DEF Scheduled
  <2>1. Leaving(q) /\ LastWaiting(q) < f
    BY DEF DriftInv
  <2>2. c.executionFrame <= lastExecutionFrame[q] + 1
    <3>1. c.type = "PLAYERLEAVE" => c.executionFrame = lastExecutionFrame[q] + 1
      BY DEF CommandInv
    <3>2. c.type # "PLAYERLEAVE" => c.executionFrame <= lastExecutionFrame[q]
      BY DEF CommandInv
    <3> QED
      BY <1>1, <3>1, <3>2, NumberTypes, SMT
  <2> QED
    BY <1>1, <2>1, <2>2, NumberTypes, SMT DEF LastWaiting
<1>5. \A q \in managers[p] : L(q) \subseteq Scheduled(q, f)
  BY <1>2 DEF TrueSlot
<1>6. FrameCommands(p, f) = {c \in CommandsIn(net) : c.executionFrame = f}
  <2>1. ASSUME NEW c \in FrameCommands(p, f)
        PROVE  c \in CommandsIn(net) /\ c.executionFrame = f
    <3>1. PICK q \in managers[p] : c \in L(q)
      BY DEF FrameCommands
    <3> QED
      BY <1>5, <3>1 DEF Scheduled
  <2>2. ASSUME NEW c \in CommandsIn(net), c.executionFrame = f
        PROVE  c \in FrameCommands(p, f)
    <3>1. c.playerID \in Players /\ c \in Scheduled(c.playerID, f)
      BY <2>2, CommandTypes DEF Scheduled, CommandsIn
    <3>2. c.playerID \in Awaited(p)
      BY <1>4, <3>1
    <3>3. c.playerID \in managers[p] /\ c \in L(c.playerID)
      BY <1>3, <3>1, <3>2
    <3> QED
      BY <3>3 DEF FrameCommands
  <2> QED
    BY <2>1, <2>2
<1> QED
  BY <1>1, <1>3, <1>6

(* Those who leave in the frame are those whose last frame it is.           *)
LEMMA ExecutedLeavers ==
    ASSUME IInv, NEW f \in Nat
    PROVE  LeaversIn({c \in CommandsIn(net) : c.executionFrame = f}) =
             {q \in Players : Leaving(q) /\ LastWaiting(q) = f}
<1> USE DEF IInv, CoreInv
<1> DEFINE commands == {c \in CommandsIn(net) : c.executionFrame = f}
<1>1. ASSUME NEW q \in LeaversIn(commands)
      PROVE  q \in Players /\ Leaving(q) /\ LastWaiting(q) = f
  <2>1. PICK c \in commands : c.type = "PLAYERLEAVE" /\ c.playerID = q
    BY DEF LeaversIn
  <2>2. q \in Players
    BY <2>1, CommandTypes DEF CommandsIn
  <2>3. Leaving(q) /\ c.executionFrame = lastExecutionFrame[q] + 1
    BY <2>1 DEF CommandInv
  <2> QED
    BY <2>1, <2>2, <2>3 DEF LastWaiting
<1>2. ASSUME NEW q \in Players, Leaving(q), LastWaiting(q) = f
      PROVE  q \in LeaversIn(commands)
  <2>1. PICK c \in CommandsIn(net) : c.type = "PLAYERLEAVE" /\ c.playerID = q
    BY <1>2 DEF CommandInv
  <2>2. c.executionFrame = lastExecutionFrame[q] + 1
    BY <2>1 DEF CommandInv
  <2>3. c \in commands
    BY <1>2, <2>2 DEF LastWaiting
  <2> QED
    BY <2>1, <2>3 DEF LeaversIn
<1> QED
  BY <1>1, <1>2

(* Freeing a frame leaves the ring true in the window of the next frame.    *)
LEMMA FreedRings ==
    ASSUME IInv, NEW p \in Players, localStatus[p] # "LEFT", frame[p] \in Nat \ {0},
           NEW q \in managers[p],
           NEW g \in Nat, frame[p] + 1 <= g, g <= WindowEnd(frame[p] + 1)
    PROVE  TrueSlot(p, q, g,
             (IF frame[p] > FRAMES_TO_KEEP
              THEN ResetFrame(frameData[p][q], q = p, frame[p] - FRAMES_TO_KEEP)
              ELSE frameData[p][q])[SlotIndex(g)])
<1> USE DEF IInv, CoreInv
<1> DEFINE f == frame[p]
           old == frameData[p][q][SlotIndex(g)]
<1>1. /\ FRAMES_TO_KEEP = MaxRunAhead + 1 /\ MaxRunAhead \in Nat \ {0}
      /\ FRAME_DATA_LENGTH \in Nat /\ 4 * MaxRunAhead + 2 <= FRAME_DATA_LENGTH
  BY WindowSizes
<1>2. f \in Nat /\ frame[p] <= g /\ g # 0 /\ SlotIndex(g) \in Slots
  BY SlotInRing, SMT
<1>3. g <= WindowEnd(f) => TrueSlot(p, q, g, old)
  <2>1. ASSUME g <= WindowEnd(f) PROVE g \in Window(p)
    <3>1. WindowEnd(f) \in Int
      BY <1>1, <1>2, SMT DEF WindowEnd
    <3> QED
      BY <1>2, <2>1, <3>1, SMT DEF Window
  <2> QED
    BY <2>1 DEF RingInv
<1>4. CASE ~(f > FRAMES_TO_KEEP)
  <2>1. g <= WindowEnd(f)
    BY <1>1, <1>2, <1>4, WindowAdvances, SMT
  <2> QED
    BY <1>3, <1>4, <2>1
<1>5. CASE f > FRAMES_TO_KEEP
  <2> DEFINE freed == f - FRAMES_TO_KEEP
             ring == frameData[p][q]
  <2>1. freed \in Nat /\ SlotIndex(freed) \in Slots
    BY <1>1, <1>2, <1>5, SlotInRing, SMT
  <2>2. ring \in [Slots -> FrameDataType] /\ q \in Players
    BY NumberTypes DEF TypeOK
  <2> HIDE DEF freed, ring
  <2>3. ResetFrame(ring, q = p, freed) = [ring EXCEPT ![SlotIndex(freed)] = FreshFrame(q = p)]
    BY DEF ResetFrame
  <2>4. CASE g <= WindowEnd(f) /\ SlotIndex(g) # SlotIndex(freed)
    <3>1. ResetFrame(ring, q = p, freed)[SlotIndex(g)] = ring[SlotIndex(g)]
      BY <1>2, <2>1, <2>2, <2>3, <2>4
    <3> QED
      BY <1>3, <1>5, <2>4, <3>1 DEF freed, ring
  <2>5. CASE g = f + FRAME_DATA_LENGTH - FRAMES_TO_KEEP /\ SlotIndex(g) = SlotIndex(freed)
    <3>1. ResetFrame(ring, q = p, freed)[SlotIndex(g)] = FreshFrame(q = p)
      BY <1>2, <2>1, <2>2, <2>3, <2>5
    <3>2. Cardinality({}) = 0 /\ UNSET # 0
      BY FS_EmptySet, SMT DEF UNSET
    <3>3. q = p => Scheduled(p, g) = {}
      <4> SUFFICES ASSUME NEW c \in CommandsIn(net), c.playerID = p, c.executionFrame = g
                   PROVE  FALSE
        BY DEF Scheduled
      <4>1. c.type = "PLAYERLEAVE" => c.executionFrame = lastExecutionFrame[p] + 1
        BY DEF CommandInv
      <4>2. c.type # "PLAYERLEAVE" => c.executionFrame <= lastExecutionFrame[p]
        BY DEF CommandInv
      <4>3. lastExecutionFrame[p] <= f + MaxRunAhead /\ lastExecutionFrame[p] \in Nat
        BY NumberTypes DEF ScheduleInv
      <4> QED
        BY <1>1, <1>2, <2>5, <4>1, <4>2, <4>3, SMT
    <3>4. TrueSlot(p, q, g, FreshFrame(q = p))
      <4>1. CASE q = p
        BY <3>2, <3>3, <4>1 DEF TrueSlot, FreshFrame, EmptyFrame
      <4>2. CASE q # p
        BY <3>2, <4>2 DEF TrueSlot, FreshFrame, EmptyFrame
      <4> QED
        BY <4>1, <4>2
    <3> QED
      BY <1>5, <3>1, <3>4 DEF freed, ring
  <2> QED
    BY <1>2, <1>5, <2>4, <2>5, WindowAdvances DEF freed
<1> QED
  BY <1>4, <1>5

(* A frame that runs keeps the invariant.                                   *)
LEMMA ExecuteFrameInv ==
    ASSUME IInv, TypeOK', NEW p \in Players, ExecuteFrame(p)
    PROVE  CoreInv'
<1> USE DEF IInv, CoreInv
<1> DEFINE f == frame[p]
           commands == FrameCommands(p, f)
           leavers == LeaversIn(commands)
           rings == [q \in Players |->
                       IF q \in managers[p] /\ f > FRAMES_TO_KEEP
                       THEN ResetFrame(frameData[p][q], q = p, f - FRAMES_TO_KEEP)
                       ELSE frameData[p][q]]
           status == IF p \in leavers THEN "LEFT" ELSE localStatus[p]
           here == {c \in CommandsIn(net) : c.executionFrame = f}
<1>1. /\ localStatus[p] \in {"INGAME", "LEAVING"}
      /\ \A q \in Awaited(p) : Ready(frameData[p][q][SlotIndex(f)])
      /\ frame' = [frame EXCEPT ![p] = f + 1]
      /\ executed' = [executed EXCEPT ![p] = executed[p] \union {<<f, c>> : c \in commands}]
      /\ \E r \in RunAheadAfter(runAhead[p], commands) : runAhead' = [runAhead EXCEPT ![p] = r]
      /\ localStatus' = [localStatus EXCEPT ![p] = status]
      /\ quitFrame' = [quitFrame EXCEPT ![p] = [q \in Players |->
            IF q \in leavers \ {p} /\ quitFrame[p][q] = NOT_QUITTING
            THEN f + FRAMES_TO_KEEP + 1 ELSE quitFrame[p][q]]]
      /\ managers' = [managers EXCEPT ![p] =
            {q \in managers[p] : quitFrame[p][q] # f + 1} \ (leavers \intersect {p})]
      /\ frameData' = [frameData EXCEPT ![p] =
            AfterReadyCheck(p, rings, Awaited(p) \ leavers, f + 1)]
      /\ AnnounceFrames(p) /\ nextCommandID' = nextCommandID
  BY DEF ExecuteFrame
<1> HIDE DEF rings
<1>2. /\ f \in Nat \ {0} /\ f \in Window(p) /\ commands = here
      /\ \A q \in Awaited(p) : q # p => f <= Announced(q)
  BY <1>1, ExecutedCommands
<1> HIDE DEF commands
<1>3. leavers = {q \in Players : Leaving(q) /\ LastWaiting(q) = f}
  BY <1>2, ExecutedLeavers
<1> HIDE DEF leavers
<1>4. Advances(p)
  <2>1. status \in IF Leaving(p) THEN {"LEAVING", "LEFT"} ELSE {"INGAME"}
    BY <1>1, <1>3 DEF Leaving
  <2>2. \A q \in Players \ {p} : runAhead'[q] = runAhead[q]
    BY <1>1 DEF TypeOK
  <2> HIDE DEF status
  <2> QED
    BY <1>1, <2>1, <2>2 DEF Advances
<1>5. /\ frame'[p] = f + 1 /\ \A r \in Players \ {p} : frame'[r] = frame[r]
      /\ localStatus'[p] = status
      /\ \A r \in Players \ {p} : localStatus'[r] = localStatus[r]
      /\ CommandsIn(net)' = CommandsIn(net)
  <2>1. CommandsIn(net)' = CommandsIn(net)
    BY <1>4, AdvancedMonotone
  <2>2. frame'[p] = f + 1 /\ \A r \in Players \ {p} : frame'[r] = frame[r]
    BY <1>1 DEF TypeOK
  <2> HIDE DEF status
  <2>3. /\ localStatus'[p] = status
        /\ \A r \in Players \ {p} : localStatus'[r] = localStatus[r]
    BY <1>1 DEF TypeOK
  <2> QED
    BY <2>1, <2>2, <2>3
<1>6. /\ MaxRunAhead \in Nat \ {0} /\ FRAMES_TO_KEEP = MaxRunAhead + 1
      /\ FRAME_DATA_LENGTH \in Nat /\ 4 * MaxRunAhead + 2 <= FRAME_DATA_LENGTH
  BY WindowSizes
<1>7. ScheduleInv'
  BY <1>4, AdvancedSchedule
<1>8. \A r \in Players \ {p} : /\ Awaited(r)' = Awaited(r) /\ managers'[r] = managers[r]
                               /\ quitFrame'[r] = quitFrame[r] /\ frameData'[r] = frameData[r]
                               /\ Window(r)' = Window(r) /\ executed'[r] = executed[r]
  BY <1>1, <1>5 DEF Awaited, Window, TypeOK
<1>9. Awaited(p)' = Awaited(p) \ leavers /\ managers'[p] \subseteq managers[p]
  <2>1. managers'[p] = {q \in managers[p] : quitFrame[p][q] # f + 1} \ (leavers \intersect {p})
    BY <1>1 DEF TypeOK
  <2>2. \A q \in Players : quitFrame'[p][q] =
           IF q \in leavers \ {p} /\ quitFrame[p][q] = NOT_QUITTING
           THEN f + FRAMES_TO_KEEP + 1 ELSE quitFrame[p][q]
    BY <1>1 DEF TypeOK
  <2>3. f + FRAMES_TO_KEEP + 1 # NOT_QUITTING /\ f + 1 # NOT_QUITTING
    BY <1>2, <1>6, SMT DEF NOT_QUITTING
  <2>4. managers[p] \subseteq Players
    BY NumberTypes
  <2> HIDE DEF f
  <2> QED
    BY <2>1, <2>2, <2>3, <2>4 DEF Awaited
<1>10. DriftInv'
  <2> SUFFICES ASSUME NEW r \in Players, NEW q \in Players
               PROVE  /\ q \in Awaited(r)' => frame'[r] <= LastWaiting(q)'
                      /\ q \notin Awaited(r)' => Leaving(q)' /\ LastWaiting(q)' < frame'[r]
                      /\ r \in Awaited(r)' <=> localStatus'[r] # "LEFT"
                      /\ quitFrame'[r][r] = NOT_QUITTING
    BY DEF DriftInv
  <2>1. /\ q \in Awaited(r) => frame[r] <= LastWaiting(q)
        /\ q \notin Awaited(r) => Leaving(q) /\ LastWaiting(q) < frame[r]
        /\ r \in Awaited(r) <=> localStatus[r] # "LEFT"
        /\ quitFrame[r][r] = NOT_QUITTING
    BY DEF DriftInv
  <2>2. /\ Leaving(q)' <=> Leaving(q)
        /\ LastWaiting(q) <= LastWaiting(q)'
        /\ Leaving(q) => LastWaiting(q)' = LastWaiting(q)
    BY <1>4, AdvancedMonotone
  <2>3. /\ frame[r] \in Nat /\ frame'[r] \in Nat
        /\ LastWaiting(q) \in Nat /\ LastWaiting(q)' \in Nat
    <3>1. frame'[r] \in Nat /\ lastExecutionFrame'[q] \in Nat /\ lastFrameCompleted'[q] \in Nat
      BY NumberTypes, SMT DEF TypeOK
    <3> QED
      BY <3>1, NumberTypes, SMT DEF LastWaiting
  <2>4. CASE r # p
    <3>1. Awaited(r)' = Awaited(r) /\ frame'[r] = frame[r]
          /\ localStatus'[r] = localStatus[r] /\ quitFrame'[r] = quitFrame[r]
      BY <1>5, <1>8, <2>4
    <3> QED
      BY <2>1, <2>2, <2>3, <3>1, SMT
  <2>5. CASE r = p
    <3>1. ASSUME q \in Awaited(p), q \notin leavers
          PROVE  f + 1 <= LastWaiting(q)
      <4>1. CASE Leaving(q)
        BY <1>2, <1>3, <2>1, <2>3, <2>5, <3>1, <4>1, SMT
      <4>2. CASE ~Leaving(q) /\ q # p
        <5>1. f <= lastFrameCompleted[q]
          BY <1>2, <3>1, <4>2 DEF Announced
        <5> QED
          BY <1>2, <4>2, <5>1, NumberTypes, SMT DEF LastWaiting
      <4>3. CASE ~Leaving(q) /\ q = p
        <5>1. localStatus[p] = "INGAME"
          BY <1>1, <4>3 DEF Leaving
        <5>2. f < lastExecutionFrame[p] /\ LastWaiting(p) = lastExecutionFrame[p]
          BY <5>1, PlayingExecutionFrame
        <5> QED
          BY <1>2, <4>3, <5>2, NumberTypes, SMT
      <4> QED
        BY <4>1, <4>2, <4>3
    <3>2. ASSUME q \notin Awaited(p) \/ q \in leavers
          PROVE  Leaving(q) /\ LastWaiting(q) < f + 1
      BY <1>2, <1>3, <2>1, <2>3, <2>5, <3>2, SMT
    <3>3. q \in Awaited(p)' => frame'[p] <= LastWaiting(q)'
      BY <1>2, <1>5, <1>9, <2>2, <2>3, <3>1, SMT
    <3>4. q \notin Awaited(p)' => Leaving(q)' /\ LastWaiting(q)' < frame'[p]
      BY <1>5, <1>9, <2>2, <3>2
    <3>5. p \in Awaited(p)' <=> localStatus'[p] # "LEFT"
      BY <1>1, <1>5, <1>9, <2>1, <2>5
    <3>6. quitFrame'[p][p] = NOT_QUITTING
      BY <1>1, <2>1, <2>5 DEF TypeOK
    <3> QED
      BY <2>5, <3>3, <3>4, <3>5, <3>6
  <2> QED
    BY <2>4, <2>5
<1>11. LockstepAgreement'
  <2> SUFFICES ASSUME NEW r \in Players
               PROVE  executed'[r] = {<<c.executionFrame, c>> :
                        c \in {d \in CommandsIn(net) : d.executionFrame < frame'[r]}}
    BY <1>5 DEF LockstepAgreement
  <2>1. executed[r] = {<<c.executionFrame, c>> :
                        c \in {d \in CommandsIn(net) : d.executionFrame < frame[r]}}
    BY DEF LockstepAgreement
  <2>2. CASE r # p
    BY <1>5, <1>8, <2>1, <2>2
  <2>3. CASE r = p
    <3>1. executed'[p] = executed[p] \union {<<c.executionFrame, c>> : c \in here}
      <4>1. executed'[p] = executed[p] \union {<<f, c>> : c \in here}
        BY <1>1, <1>2 DEF TypeOK
      <4> QED
        BY <4>1
    <3>2. \A c \in CommandsIn(net) : c.executionFrame \in Nat
      BY CommandTypes DEF CommandsIn
    <3>3. {d \in CommandsIn(net) : d.executionFrame < f + 1} =
          {d \in CommandsIn(net) : d.executionFrame < f} \union here
      BY <1>2, <3>2, SMT
    <3> QED
      BY <1>5, <2>1, <2>3, <3>1, <3>3
  <2> QED
    BY <2>2, <2>3
<1>12. \A q \in managers'[p], g \in Nat :
         (localStatus'[p] # "LEFT" /\ f + 1 <= g /\ g <= WindowEnd(f + 1)) =>
            TrueSlot(p, q, g, frameData'[p][q][SlotIndex(g)])
  <2> SUFFICES ASSUME localStatus'[p] # "LEFT"
               PROVE  \A q \in managers'[p], g \in Nat :
                         f + 1 <= g /\ g <= WindowEnd(f + 1) =>
                            TrueSlot(p, q, g, frameData'[p][q][SlotIndex(g)])
    OBVIOUS
  <2> DEFINE next == {g \in Nat : f + 1 <= g /\ g <= WindowEnd(f + 1)}
  <2>1. \A q \in managers[p], g \in next : TrueSlot(p, q, g, rings[q][SlotIndex(g)])
    <3> TAKE q \in managers[p], g \in next
    <3>1. q \in Players /\ localStatus[p] # "LEFT"
      BY <1>1, NumberTypes
    <3>2. rings[q] = IF f > FRAMES_TO_KEEP
                     THEN ResetFrame(frameData[p][q], q = p, f - FRAMES_TO_KEEP)
                     ELSE frameData[p][q]
      BY <3>1 DEF rings
    <3> QED
      BY <1>2, <3>1, <3>2, FreedRings
  <2>2. rings \in [Players -> RingType]
    <3>1. frameData \in [Players -> [Players -> RingType]]
      BY DEF TypeOK, RingType
    <3>2. f > FRAMES_TO_KEEP => f - FRAMES_TO_KEEP \in Nat
      BY <1>2, <1>6, SMT
    <3>3. \A q \in Players : f > FRAMES_TO_KEEP =>
             ResetFrame(frameData[p][q], q = p, f - FRAMES_TO_KEEP) \in RingType
      BY <3>1, <3>2, ResetFrameType
    <3> QED
      BY <3>1, <3>3 DEF rings
  <2>3. f + 1 \in Nat
    BY <1>2, SMT
  <2>4. \A g \in next : g # f + 1 => SlotIndex(g) # SlotIndex(f + 1)
    <3> TAKE g \in next
    <3>1. /\ f + 1 <= f + 1 /\ f + 1 # 0 /\ f + 1 < (f + 1) + FRAME_DATA_LENGTH
          /\ g \in Nat /\ f + 1 <= g /\ g # 0 /\ g <= WindowEnd(f + 1)
      BY <1>2, <1>6, SMT
    <3> QED
      BY <2>3, <3>1, WindowApart
  <2> DEFINE awaited == Awaited(p) \ leavers
  <2>5. f + 1 \in next => \A q \in awaited : ~NeedsResend(rings[q][SlotIndex(f + 1)])
    BY <2>1, TrueSlotCounts DEF Awaited, CommandInv
  <2>6. frameData'[p] = AfterReadyCheck(p, rings, awaited, f + 1)
    BY <1>1 DEF TypeOK
  <2>7. next \in SUBSET Nat
    OBVIOUS
  <2> DEFINE h == f + 1
  <2> HIDE DEF next, awaited, h
  <2>8. /\ h \in Nat
        /\ \A g \in next : g # h => SlotIndex(g) # SlotIndex(h)
        /\ h \in next => \A q \in awaited : ~NeedsResend(rings[q][SlotIndex(h)])
        /\ frameData'[p] = AfterReadyCheck(p, rings, awaited, h)
    BY <2>3, <2>4, <2>5, <2>6 DEF h
  <2>9. \A q \in Players, g \in next :
           frameData'[p][q][SlotIndex(g)] = rings[q][SlotIndex(g)]
    BY <2>2, <2>7, <2>8, ReadyCheckSpares
  <2>10. \A q \in managers'[p], g \in next :
           TrueSlot(p, q, g, frameData'[p][q][SlotIndex(g)])
    BY <1>9, <2>1, <2>9, NumberTypes
  <2> QED
    BY <2>10 DEF next
<1>13. RingInv'
  <2>1. \A r \in Players : localStatus'[r] # "LEFT" =>
           \A q \in managers'[r], g \in Window(r)' :
              TrueSlot(r, q, g, frameData'[r][q][SlotIndex(g)])
    <3> TAKE r \in Players
    <3>1. CASE r # p
      BY <1>5, <1>8, <3>1 DEF RingInv
    <3>2. CASE r = p
      <4>1. \A g \in Window(p)' : g \in Nat /\ f + 1 <= g /\ g <= WindowEnd(f + 1)
        BY <1>5, SMT DEF Window
      <4> QED
        BY <1>12, <3>2, <4>1
    <3> QED
      BY <3>1, <3>2
  <2> QED
    BY <1>4, <2>1, AdvancedRing
<1>14. CommandInv' /\ AnnounceInv' /\ ReachInv'
  <2>1. ASSUME ~Leaving(p), NEW g \in Nat, f + 1 <= g, g <= f + MaxRunAhead + 1
        PROVE  frameData'[p][p][SlotIndex(g)].commandCount = Cardinality(Scheduled(p, g))
    <3>1. g <= WindowEnd(f + 1)
      BY <1>2, <1>6, <2>1, SMT DEF WindowEnd
    <3>2. localStatus'[p] # "LEFT"
      BY <1>3, <1>1, <1>5, <2>1
    <3>3. p \in managers'[p]
      BY <1>10, <3>2 DEF DriftInv, Awaited
    <3>4. TrueSlot(p, p, g, frameData'[p][p][SlotIndex(g)])
      BY <1>12, <2>1, <3>1, <3>2, <3>3
    <3> QED
      BY <3>4 DEF TrueSlot
  <2> QED
    BY <1>4, <2>1, AdvancedMessages
<1> QED
  BY <1>7, <1>10, <1>11, <1>13, <1>14

=============================================================================
