-------------------------- MODULE FrameSync_proofs ---------------------------
(***************************************************************************)
(* The theorems about FrameSync: agreement, no frame thrown away, the      *)
(* refinement of AgreedFrames, one run ahead, one frame per slot, and what *)
(* laggards find. They assume a maximal run ahead of at least two          *)
(* (NetworkDefs.h has 64): a message may be 3 * MaxRunAhead + 3 frames     *)
(* ahead of its recipient, and the ring must be longer.                    *)
(***************************************************************************)
EXTENDS FrameSyncSteps_proofs

(* The theorems *)

(* The invariant is inductive.                                              *)
LEMMA InvNext == MaxRunAhead >= 2 /\ IInv /\ [Next]_vars => IInv'
<1> SUFFICES ASSUME MaxRunAhead >= 2, IInv, [Next]_vars PROVE IInv'
  OBVIOUS
<1>1. TypeOK'
  BY TypeNext DEF IInv
<1>2. ASSUME NEW p \in Players, IssueCommand(p) PROVE CoreInv'
  BY <1>2, IssueCommandGives, PlainGive DEF PlainlyGives
<1>3. ASSUME NEW p \in Players, NEW r \in MIN_RUNAHEAD .. MaxRunAhead, UpdateRunAhead(p, r)
      PROVE  CoreInv'
  BY <1>3, UpdateRunAheadGives, PlainGive DEF PlainlyGives
<1>4. ASSUME NEW p \in Players, LeaveGame(p) PROVE CoreInv'
  BY <1>4, LeaveGameInv
<1>5. ASSUME NEW p \in Players, NEW m \in net, Receive(p, m) PROVE CoreInv'
  BY <1>5, ReceiveInv
<1>6. ASSUME NEW p \in Players, ExecutePregameFrame(p) PROVE CoreInv'
  BY <1>1, <1>6, PregameInv
<1>7. ASSUME NEW p \in Players, ExecuteFrame(p) PROVE CoreInv'
  BY <1>1, <1>7, ExecuteFrameInv
<1>8. CASE UNCHANGED vars
  <2> USE <1>8 DEF IInv, CoreInv, vars, networkVars, ringVars
  <2>1. ScheduleInv' /\ CommandInv'
    BY DEF ScheduleInv, CommandInv, Leaving, CommandsIn
  <2>2. AnnounceInv' /\ DriftInv' /\ ReachInv'
    BY DEF AnnounceInv, DriftInv, ReachInv, Leaving, Announced, LastWaiting, Awaited,
           Scheduled, CommandsIn
  <2>3. LockstepAgreement'
    BY DEF LockstepAgreement, CommandsIn
  <2>4. RingInv'
    <3>1. \A p, q, f, d : TrueSlot(p, q, f, d) = TrueSlot(p, q, f, d)'
      BY DEF TrueSlot, Announced, Leaving, Scheduled, CommandsIn
    <3>2. \A p \in Players : Window(p)' = Window(p)
      BY DEF Window
    <3> QED
      BY <3>1, <3>2 DEF RingInv
  <2> QED
    BY <1>1, <2>1, <2>2, <2>3, <2>4
<1>9. BoundReached => UNCHANGED vars
  BY DEF BoundReached
<1> QED
  BY <1>1, <1>2, <1>3, <1>4, <1>5, <1>6, <1>7, <1>8, <1>9 DEF Next, IInv

(* The inductive invariant holds in every reachable state.                  *)
THEOREM Invariance == ASSUME MaxRunAhead >= 2 PROVE Spec => []IInv
<1>1. Init => IInv
  BY TypeInit, InitInv DEF IInv
<1>2. IInv /\ [Next]_vars => IInv'
  BY InvNext
<1> QED
  BY <1>1, <1>2, PTL DEF Spec

(* The game is in sync: every machine has run exactly the commands anybody  *)
(* scheduled for the frames behind it, each in its frame.                   *)
THEOREM Agreement == ASSUME MaxRunAhead >= 2 PROVE Spec => []LockstepAgreement
<1>1. IInv => LockstepAgreement
  BY DEF IInv, CoreInv
<1> QED
  BY <1>1, Invariance, PTL

(* A frame within twice the run ahead holds no more than was announced.      *)
LEMMA NoneTooMany ==
    ASSUME IInv, MaxRunAhead >= 2, NEW p \in Players, NEW q \in managers[p], NEW rings,
           \A f \in Window(p) : TrueSlot(p, q, f, rings[q][SlotIndex(f)]),
           NEW f \in frame[p] .. frame[p] + MAX_FRAMES_AHEAD
    PROVE  ~NeedsResend(rings[q][SlotIndex(f)])
<1>1. /\ frame[p] \in Nat /\ f \in Nat /\ frame[p] <= f
      /\ f <= frame[p] + MAX_FRAMES_AHEAD
  BY NumberTypes, WindowAssumption, SMT DEF IInv
<1>2. f <= WindowEnd(frame[p])
  BY <1>1, WindowSizes, WindowAssumption, SMT DEF WindowEnd, FRAME_DATA_LENGTH
<1>3. CASE f # 0
  <2>1. f \in Window(p)
    BY <1>1, <1>2, <1>3, WindowSizes, SMT DEF Window, WindowEnd
  <2> QED
    BY <2>1, TrueSlotCounts DEF IInv, CoreInv, CommandInv
<1>4. CASE f = 0
  <2>1. FRAME_DATA_LENGTH \in Window(p)
    BY <1>1, <1>4, WindowSizes, SMT DEF Window, WindowEnd
  <2>2. SlotIndex(f) = SlotIndex(FRAME_DATA_LENGTH)
    BY <1>4, SlotPeriod, WindowSizes, SMT
  <2> QED
    BY <2>1, <2>2, TrueSlotCounts DEF IInv, CoreInv, CommandInv
<1> QED
  BY <1>3, <1>4

(* No machine ever has to throw a frame away for holding too many commands. *)
THEOREM NoResend == ASSUME MaxRunAhead >= 2 PROVE Spec => []NeverTooManyCommands
<1>1. ASSUME IInv, NEW p \in Players, localStatus[p] # "LEFT", NEW q \in managers[p],
             NEW f \in frame[p] .. frame[p] + MAX_FRAMES_AHEAD
      PROVE  ~NeedsResend(frameData[p][q][SlotIndex(f)])
  <2>1. \A g \in Window(p) : TrueSlot(p, q, g, frameData[p][q][SlotIndex(g)])
    BY <1>1 DEF IInv, CoreInv, RingInv
  <2> QED
    BY <1>1, <2>1, NoneTooMany
<1>2. ASSUME IInv, NEW p \in Players, NEW m \in net, CanReceive(p, m),
             m.executionFrame <= frame[p] + MAX_FRAMES_AHEAD
      PROVE  ~NeedsResend(Received(p, m)[m.playerID][SlotIndex(m.executionFrame)])
  <2>1. m.playerID \in managers[p] /\ frame[p] <= m.executionFrame
    BY <1>2 DEF CanReceive
  <2>2. m.executionFrame \in Nat /\ frame[p] \in Nat /\ MAX_FRAMES_AHEAD \in Nat
    BY <1>2, ReceivedTrue, NumberTypes, WindowAssumption DEF IInv
  <2>3. m.executionFrame \in frame[p] .. frame[p] + MAX_FRAMES_AHEAD
    BY <1>2, <2>1, <2>2, SMT
  <2>4. \A g \in Window(p) :
          TrueSlot(p, m.playerID, g, Received(p, m)[m.playerID][SlotIndex(g)])
    BY <1>2, <2>1, ReceivedTrue
  <2> QED
    BY <1>2, <2>1, <2>3, <2>4, NoneTooMany
<1>3. IInv => NeverTooManyCommands
  BY <1>1, <1>2 DEF NeverTooManyCommands
<1> QED
  BY <1>3, Invariance, PTL

-----------------------------------------------------------------------------
(* Lockstep keeps its promise *)

(* Initial states map to initial states.                                    *)
LEMMA RefinesInit == Init => Agreed!Init
<1> SUFFICES ASSUME Init PROVE Agreed!Init
  OBVIOUS
<1>1. CommandsIn(net) = {} /\ frame = [p \in Players |-> 0] /\ executed = [p \in Players |-> {}]
  BY DEF Init, CommandsIn
<1>2. \A p \in Players : ~Leaving(p) /\ Announced(p) \in Nat
  <2> TAKE p \in Players
  <2>1. localStatus[p] = "PREGAME" /\ lastFrameCompleted[p] = InitialRunAhead - 1
    BY DEF Init
  <2> QED
    BY <2>1, WindowSizes, SMT DEF Leaving, Announced
<1> QED
  BY <1>1, <1>2 DEF Agreed!Init

(* Giving a command gives it above the frames announced.                    *)
LEMMA RefinesGive ==
    ASSUME IInv, NEW p \in Players, NEW c, Gives(p, c),
           \A q \in Players : (Leaving(q)' <=> Leaving(q) \/ (q = p /\ Leaving(p)')),
           \A q \in Players \ {p} : Announced(q)' = Announced(q),
           Announced(p) <= Announced(p)', Announced(p)' \in Nat
    PROVE  Agreed!Give(p)
<1> USE DEF IInv, CoreInv
<1> DEFINE sealed == [q \in Players |-> Announced(q)]
<1>1. /\ localStatus[p] = "INGAME" /\ ~Leaving(p) /\ c.playerID = p
      /\ c.executionFrame \in {lastExecutionFrame[p], lastExecutionFrame[p] + 1}
      /\ CommandsIn(net)' = CommandsIn(net) \union {c}
      /\ UNCHANGED <<frame, executed>>
  BY DEF Gives, Leaving
<1>2. /\ Announced(p) = lastExecutionFrame[p] - 1 /\ lastExecutionFrame[p] \in Nat
      /\ frame[p] < lastExecutionFrame[p] /\ frame[p] \in Nat
  BY <1>1, PlayingExecutionFrame, NumberTypes
<1>3. Announced(p) < c.executionFrame /\ c.executionFrame \in Nat
  BY <1>1, <1>2, SMT
<1>4. sealed' = [sealed EXCEPT ![p] = sealed'[p]]
  OBVIOUS
<1>5. {q \in Players : ~Leaving(q)}' \in
        {{q \in Players : ~Leaving(q)}, {q \in Players : ~Leaving(q)} \ {p}}
  OBVIOUS
<1> QED
  BY <1>1, <1>3, <1>4, <1>5 DEF Agreed!Give, Agreed!CloseMore

(* Advancing runs a frame everybody has closed, and closes more.            *)
LEMMA RefinesRun ==
    ASSUME IInv, TypeOK', NEW p \in Players, Advances(p),
           \A q \in Players : ~Leaving(q) => frame[p] <= Announced(q),
           executed' = [executed EXCEPT ![p] = executed[p] \union
              {<<c.executionFrame, c>> :
                 c \in {d \in CommandsIn(net) : d.executionFrame = frame[p]}}]
    PROVE  Agreed!Run(p)
<1> DEFINE sealed == [q \in Players |-> Announced(q)]
<1>1. /\ CommandsIn(net)' = CommandsIn(net)
      /\ \A q \in Players : (Leaving(q)' <=> Leaving(q)) /\ Announced(q) <= Announced(q)'
  BY AdvancedMonotone DEF IInv, CoreInv
<1>2. \A q \in Players \ {p} : Announced(q)' = Announced(q)
  BY <1>1, AdvancedNumbers DEF Announced, IInv, CoreInv
<1>3. Announced(p)' \in Nat
  <2>1. ScheduleInv'
    BY AdvancedSchedule DEF IInv, CoreInv
  <2> QED
    BY <2>1, SMT DEF Announced, TypeOK
<1>4. sealed' = [sealed EXCEPT ![p] = sealed'[p]]
  BY <1>2
<1>5. {q \in Players : ~Leaving(q)}' = {q \in Players : ~Leaving(q)}
  BY <1>1
<1>6. frame' = [frame EXCEPT ![p] = @ + 1]
  BY DEF Advances
<1>7. Agreed!GivenFor(frame[p]) = {d \in CommandsIn(net) : d.executionFrame = frame[p]}
  BY DEF Agreed!GivenFor
<1> QED
  BY <1>1, <1>3, <1>4, <1>5, <1>6, <1>7 DEF Agreed!Run, Agreed!CloseMore

(* The game's first frame and a synchronised one advance the logic.         *)
LEMMA PregameAdvances ==
    ASSUME IInv, NEW p \in Players, ExecutePregameFrame(p)
    PROVE  Advances(p) /\ frame[p] = 0 /\ localStatus[p] = "PREGAME"
<1>1. localStatus[p] = "PREGAME" /\ ~Leaving(p) /\ frame[p] = 0 /\ runAhead' = runAhead
  BY DEF ExecutePregameFrame, ScheduleInv, Leaving, IInv, CoreInv
<1>2. frame' = [frame EXCEPT ![p] = @ + 1]
  BY <1>1 DEF ExecutePregameFrame
<1> QED
  BY <1>1, <1>2 DEF Advances, ExecutePregameFrame

(* The players whose leave it carries have no later frame.                  *)
LEMMA ExecuteAdvances ==
    ASSUME IInv, NEW p \in Players, ExecuteFrame(p)
    PROVE  /\ Advances(p) /\ frame[p] \in Nat \ {0}
           /\ FrameCommands(p, frame[p]) =
                 {c \in CommandsIn(net) : c.executionFrame = frame[p]}
           /\ LeaversIn(FrameCommands(p, frame[p])) =
                 {q \in Players : Leaving(q) /\ LastWaiting(q) = frame[p]}
           /\ \A q \in Awaited(p) : q # p => frame[p] <= Announced(q)
<1> DEFINE f == frame[p]
           leavers == LeaversIn(FrameCommands(p, f))
           status == IF p \in leavers THEN "LEFT" ELSE localStatus[p]
<1>1. /\ localStatus[p] \in {"INGAME", "LEAVING"}
      /\ frame' = [frame EXCEPT ![p] = f + 1]
      /\ \E r \in RunAheadAfter(runAhead[p], FrameCommands(p, f)) :
            runAhead' = [runAhead EXCEPT ![p] = r]
      /\ localStatus' = [localStatus EXCEPT ![p] = status]
      /\ AnnounceFrames(p) /\ nextCommandID' = nextCommandID
  BY DEF ExecuteFrame
<1>2. /\ f \in Nat \ {0}
      /\ FrameCommands(p, f) = {c \in CommandsIn(net) : c.executionFrame = f}
      /\ \A q \in Awaited(p) : q # p => f <= Announced(q)
  BY ExecutedCommands DEF ExecuteFrame
<1>3. leavers = {q \in Players : Leaving(q) /\ LastWaiting(q) = f}
  BY <1>2, ExecutedLeavers
<1> HIDE DEF leavers
<1>4. status \in IF Leaving(p) THEN {"LEAVING", "LEFT"} ELSE {"INGAME"}
  BY <1>1, <1>3 DEF Leaving
<1>5. \A q \in Players \ {p} : runAhead'[q] = runAhead[q]
  BY <1>1 DEF IInv, TypeOK
<1> HIDE DEF status
<1>6. Advances(p)
  BY <1>1, <1>4, <1>5 DEF Advances
<1> QED
  BY <1>2, <1>3, <1>6 DEF leavers

(* The steps that advance the logic.                                        *)
LEMMA RefinesPregame ==
    ASSUME IInv, TypeOK', NEW p \in Players, ExecutePregameFrame(p)
    PROVE  Agreed!Run(p)
<1> USE DEF IInv, CoreInv
<1>1. frame[p] = 0 /\ executed' = executed
  BY PregameAdvances DEF ExecutePregameFrame
<1>2. Advances(p)
  BY PregameAdvances
<1>3. \A q \in Players : ~Leaving(q) => frame[p] <= Announced(q)
  <2> TAKE q \in Players
  <2>1. lastFrameCompleted[q] \in Nat
    BY NumberTypes
  <2> QED
    BY <1>1, <2>1, SMT DEF Announced
<1>4. {d \in CommandsIn(net) : d.executionFrame = frame[p]} = {}
  <2>1. \A d \in CommandsIn(net) : InitialRunAhead <= d.executionFrame /\ d.executionFrame \in Nat
    BY CommandTypes DEF CommandInv, CommandsIn
  <2>2. \A d \in CommandsIn(net) : d.executionFrame # 0
    BY <2>1, WindowSizes, SMT
  <2> QED
    BY <1>1, <2>2
<1>5. executed' = [executed EXCEPT ![p] = executed[p] \union
         {<<c.executionFrame, c>> :
            c \in {d \in CommandsIn(net) : d.executionFrame = frame[p]}}]
  BY <1>1, <1>4 DEF TypeOK
<1> QED
  BY <1>2, <1>3, <1>5, RefinesRun

(* A synchronised frame runs as one frame of the promise.                   *)
LEMMA RefinesExecute ==
    ASSUME IInv, TypeOK', NEW p \in Players, ExecuteFrame(p)
    PROVE  Agreed!Run(p)
<1> USE DEF IInv, CoreInv
<1> DEFINE f == frame[p]
           here == {c \in CommandsIn(net) : c.executionFrame = f}
<1>1. /\ localStatus[p] \in {"INGAME", "LEAVING"}
      /\ executed' = [executed EXCEPT ![p] = executed[p] \union
                        {<<f, c>> : c \in FrameCommands(p, f)}]
  BY DEF ExecuteFrame
<1>2. /\ f \in Nat \ {0} /\ FrameCommands(p, f) = here
      /\ \A q \in Awaited(p) : q # p => f <= Announced(q)
  BY ExecuteAdvances
<1>3. Advances(p)
  BY ExecuteAdvances
<1>4. \A q \in Players : ~Leaving(q) => f <= Announced(q)
  <2> SUFFICES ASSUME NEW q \in Players, ~Leaving(q) PROVE f <= Announced(q)
    OBVIOUS
  <2>1. q \in Awaited(p)
    BY DEF DriftInv
  <2>2. CASE q # p
    BY <1>2, <2>1, <2>2
  <2>3. CASE q = p
    <3>1. localStatus[p] = "INGAME"
      BY <1>1, <2>3 DEF Leaving
    <3>2. f < lastExecutionFrame[p] /\ Announced(p) = lastExecutionFrame[p] - 1
      BY <3>1, PlayingExecutionFrame
    <3> QED
      BY <1>2, <2>3, <3>2, NumberTypes, SMT
  <2> QED
    BY <2>2, <2>3
<1>5. executed' = [executed EXCEPT ![p] = executed[p] \union {<<c.executionFrame, c>> : c \in here}]
  <2>1. {<<f, c>> : c \in here} = {<<c.executionFrame, c>> : c \in here}
    OBVIOUS
  <2> QED
    BY <1>1, <1>2, <2>1
<1> QED
  BY <1>3, <1>4, <1>5, RefinesRun

(* Every step maps to a step of the promise or to a stutter.                *)
LEMMA RefinesNext ==
    MaxRunAhead >= 2 /\ IInv /\ IInv' /\ [Next]_vars => [Agreed!Next]_(Agreed!vars)
<1> SUFFICES ASSUME MaxRunAhead >= 2, IInv, IInv', [Next]_vars
             PROVE  Agreed!Next \/ UNCHANGED Agreed!vars
  OBVIOUS
<1> USE DEF IInv, CoreInv
<1>1. ASSUME NEW p \in Players, NEW c, PlainlyGives(p, c)
      PROVE  Agreed!Next
  <2>1. \A q \in Players : (Leaving(q)' <=> Leaving(q)) /\ Announced(q)' = Announced(q)
    BY <1>1 DEF Leaving, Announced, PlainlyGives, Gives
  <2>2. Announced(p) \in Nat
    BY <1>1, NumberTypes, SMT DEF Announced, Leaving, PlainlyGives, Gives
  <2>3. Agreed!Give(p)
    <3>1. Gives(p, c) /\ Announced(p) <= Announced(p)' /\ Announced(p)' \in Nat
      BY <1>1, <2>1, <2>2, SMT DEF PlainlyGives
    <3> QED
      BY <2>1, <3>1, RefinesGive
  <2> QED
    BY <2>3 DEF Agreed!Next
<1>2. ASSUME NEW p \in Players, LeaveGame(p)
      PROVE  Agreed!Next
  <2>1. PICK c : Gives(p, c)
    BY <1>2, LeaveGameInv
  <2>2. /\ localStatus[p] = "INGAME" /\ Announced(p) = lastExecutionFrame[p] - 1
        /\ localStatus' = [localStatus EXCEPT ![p] = "LEAVING"]
        /\ \A q \in Players \ {p} : lastFrameCompleted'[q] = lastFrameCompleted[q]
        /\ lastExecutionFrame' = lastExecutionFrame
    BY <1>2, <2>1, PlayingExecutionFrame DEF LeaveGame, Gives, TypeOK
  <2>3. \A q \in Players : Leaving(q)' <=> Leaving(q) \/ q = p
    BY <2>2 DEF Leaving, TypeOK
  <2>4. \A q \in Players \ {p} : Announced(q)' = Announced(q)
    BY <2>2, <2>3 DEF Announced
  <2>5. Announced(p)' = lastExecutionFrame[p] + 1 /\ lastExecutionFrame[p] \in Nat
    BY <2>2, <2>3, NumberTypes DEF Announced
  <2>6. Announced(p) <= Announced(p)' /\ Announced(p)' \in Nat
    BY <2>2, <2>5, SMT
  <2>7. Agreed!Give(p)
    BY <2>1, <2>3, <2>4, <2>6, RefinesGive
  <2> QED
    BY <2>7 DEF Agreed!Next
<1>3. ASSUME NEW p \in Players, NEW m \in net, Receive(p, m)
      PROVE  UNCHANGED Agreed!vars
  BY <1>3 DEF Receive, networkVars, Agreed!vars, CommandsIn, Announced, Leaving
<1>4. CASE UNCHANGED vars
  BY <1>4 DEF vars, networkVars, Agreed!vars, CommandsIn, Announced, Leaving
<1>5. BoundReached => UNCHANGED vars
  BY DEF BoundReached
<1> QED
  BY <1>1, <1>2, <1>3, <1>4, <1>5, IssueCommandGives, UpdateRunAheadGives,
     RefinesPregame, RefinesExecute DEF Next, Agreed!Next

(* Lockstep implements its promise (AgreedFrames).                          *)
THEOREM Refinement == ASSUME MaxRunAhead >= 2 PROVE Spec => ImplementsAgreed
BY RefinesInit, RefinesNext, Invariance, PTL DEF Spec, ImplementsAgreed, Agreed!Spec

-----------------------------------------------------------------------------
(* The run ahead *)

(* Two changes of which neither comes after the other are the same.         *)
LEMMA LastChangeUnique ==
    ASSUME TypeOK, CommandInv, NEW c \in CommandsIn(net), NEW d \in CommandsIn(net),
           NotAfter(c, d), NotAfter(d, c)
    PROVE  c = d
<1>1. /\ c.executionFrame \in Nat /\ d.executionFrame \in Nat
      /\ c.playerID \in Nat /\ d.playerID \in Nat /\ c.id \in Nat /\ d.id \in Nat
  BY CommandTypes, PlayersAssumption DEF CommandsIn
<1>2. c.playerID = d.playerID /\ c.id = d.id
  BY <1>1, SMT DEF NotAfter
<1> QED
  BY <1>2 DEF CommandInv, SameCommand

(* What a machine has run are the commands for the frames behind it.        *)
LEMMA ChangesInNet ==
    ASSUME LockstepAgreement, NEW p \in Players
    PROVE  ChangesRun(p) =
             {c \in CommandsIn(net) : c.type = "RUNAHEAD" /\ c.executionFrame < frame[p]}
<1>1. executed[p] = {<<c.executionFrame, c>> :
                        c \in {d \in CommandsIn(net) : d.executionFrame < frame[p]}}
  BY DEF LockstepAgreement
<1>2. ASSUME NEW c
      PROVE  (\E x \in executed[p] : x[2] = c) <=>
             (c \in CommandsIn(net) /\ c.executionFrame < frame[p])
  <2>1. ASSUME NEW x \in executed[p], x[2] = c
        PROVE  c \in CommandsIn(net) /\ c.executionFrame < frame[p]
    <3>1. PICK d \in CommandsIn(net) : d.executionFrame < frame[p] /\ x = <<d.executionFrame, d>>
      BY <1>1
    <3> QED
      BY <2>1, <3>1
  <2>2. ASSUME c \in CommandsIn(net), c.executionFrame < frame[p]
        PROVE  \E x \in executed[p] : x[2] = c
    <3>1. <<c.executionFrame, c>> \in executed[p] /\ <<c.executionFrame, c>>[2] = c
      BY <1>1, <2>2
    <3> QED
      BY <3>1
  <2> QED
    BY <2>1, <2>2
<1> QED
  BY <1>2, Zenon DEF ChangesRun

(* A frame that runs takes the run ahead from the last change in it, which  *)
(* is after all changes of the frames before.                               *)
LEMMA ExecuteFrameRunAhead ==
    ASSUME IInv, RunAheadInv, TypeOK', NEW p \in Players, ExecuteFrame(p)
    PROVE  RunAheadInv'
<1> USE DEF IInv, CoreInv
<1> DEFINE f == frame[p]
           here == {c \in CommandsIn(net) : c.executionFrame = f}
           changes == {c \in here : c.type = "RUNAHEAD"}
<1>1. /\ f \in Nat /\ FrameCommands(p, f) = here
  BY ExecutedCommands DEF ExecuteFrame
<1>2. /\ localStatus[p] # "LEFT"
      /\ executed' = [executed EXCEPT ![p] = executed[p] \union {<<f, c>> : c \in here}]
      /\ \E r \in RunAheadAfter(runAhead[p], here) : runAhead' = [runAhead EXCEPT ![p] = r]
      /\ \E status : localStatus' = [localStatus EXCEPT ![p] = status]
  BY <1>1 DEF ExecuteFrame
<1> HIDE DEF here
<1>3. \A q \in Players \ {p} : /\ ChangesRun(q)' = ChangesRun(q)
                               /\ runAhead'[q] = runAhead[q]
                               /\ localStatus'[q] = localStatus[q]
  BY <1>2 DEF ChangesRun, TypeOK
<1>4. ChangesRun(p)' = ChangesRun(p) \union changes /\ runAhead'[p] \in RunAheadAfter(runAhead[p], here)
  <2>1. executed'[p] = executed[p] \union {<<f, c>> : c \in here}
    BY <1>2 DEF TypeOK
  <2>2. ASSUME NEW c
        PROVE  c \in ChangesRun(p)' <=> c \in ChangesRun(p) \union changes
    <3>1. (\E x \in executed'[p] : x[2] = c) <=> (\E x \in executed[p] : x[2] = c) \/ c \in here
      <4>1. c \in here => <<f, c>> \in executed'[p] /\ <<f, c>>[2] = c
        BY <2>1
      <4>2. ASSUME NEW x \in executed'[p], x[2] = c
            PROVE  x \in executed[p] \/ c \in here
        BY <2>1, <4>2
      <4> QED
        BY <2>1, <4>1, <4>2
    <3> QED
      BY <3>1, Zenon DEF ChangesRun
  <2>3. runAhead'[p] \in RunAheadAfter(runAhead[p], here)
    BY <1>2 DEF TypeOK
  <2> QED
    BY <2>2, <2>3
<1>5. CASE changes = {}
  <2>1. RunAheadAfter(runAhead[p], here) = {runAhead[p]}
    BY <1>5 DEF RunAheadAfter
  <2>2. runAhead'[p] = runAhead[p] /\ ChangesRun(p)' = ChangesRun(p)
    BY <1>4, <1>5, <2>1
  <2> QED
    BY <1>2, <1>3, <2>2 DEF RunAheadInv
<1>6. CASE changes # {}
  <2>1. PICK c \in changes : /\ runAhead'[p] = c.value
                             /\ \A d \in changes :
                                   d.playerID < c.playerID \/ (d.playerID = c.playerID /\ d.id <= c.id)
    <3> DEFINE last == {x \in changes : \A d \in changes :
                 d.playerID < x.playerID \/ (d.playerID = x.playerID /\ d.id <= x.id)}
    <3>1. RunAheadAfter(runAhead[p], here) = {c.value : c \in last}
      BY <1>6 DEF RunAheadAfter
    <3> QED
      BY <1>4, <3>1
  <2>2. \A d \in changes : NotAfter(d, c)
    BY <2>1 DEF NotAfter, here
  <2>3. \A d \in ChangesRun(p) : NotAfter(d, c)
    BY <2>1, ChangesInNet DEF NotAfter, here
  <2>4. \E e \in ChangesRun(p)' :
           runAhead'[p] = e.value /\ \A d \in ChangesRun(p)' : NotAfter(d, e)
    BY <1>4, <2>1, <2>2, <2>3
  <2> QED
    BY <1>3, <2>4 DEF RunAheadInv
<1> QED
  BY <1>5, <1>6

(* The other steps run nothing and change no run ahead.                     *)
LEMMA RunAheadStays ==
    ASSUME RunAheadInv, UNCHANGED <<executed, runAhead>>,
           \A p \in Players : localStatus'[p] # "LEFT" => localStatus[p] # "LEFT"
    PROVE  RunAheadInv'
BY DEF RunAheadInv, ChangesRun

(* The run ahead is always the one of the last change that was run.         *)
LEMMA RunAheadNext == IInv /\ IInv' /\ RunAheadInv /\ [Next]_vars => RunAheadInv'
<1> SUFFICES ASSUME IInv, IInv', RunAheadInv, [Next]_vars PROVE RunAheadInv'
  OBVIOUS
<1>1. ASSUME NEW p \in Players, ExecuteFrame(p) PROVE RunAheadInv'
  BY <1>1, ExecuteFrameRunAhead DEF IInv
<1>2. CASE UNCHANGED vars
  BY <1>2, RunAheadStays DEF vars, networkVars
<1>3. ASSUME NEW p \in Players, IssueCommand(p) \/ \E r \in MIN_RUNAHEAD .. MaxRunAhead : UpdateRunAhead(p, r)
      PROVE  RunAheadInv'
  BY <1>3, RunAheadStays DEF IssueCommand, UpdateRunAhead
<1>4. ASSUME NEW p \in Players, LeaveGame(p) PROVE RunAheadInv'
  BY <1>4, RunAheadStays DEF LeaveGame, IInv, TypeOK
<1>5. ASSUME NEW p \in Players, NEW m \in net, Receive(p, m) PROVE RunAheadInv'
  BY <1>5, RunAheadStays DEF Receive, networkVars
<1>6. ASSUME NEW p \in Players, ExecutePregameFrame(p) PROVE RunAheadInv'
  BY <1>6, RunAheadStays DEF ExecutePregameFrame, IInv, TypeOK
<1>7. BoundReached => UNCHANGED vars
  BY DEF BoundReached
<1> QED
  BY <1>1, <1>2, <1>3, <1>4, <1>5, <1>6, <1>7 DEF Next

(* Machines in the same frame have run the same changes, in the same order  *)
(* (processRunAheadCommand), so the last of them is the same.               *)
THEOREM RunAheadAgreement == ASSUME MaxRunAhead >= 2 PROVE Spec => []SameRunAhead
<1>1. Init => RunAheadInv
  BY DEF Init, RunAheadInv, ChangesRun
<1>2. ASSUME IInv, RunAheadInv, NEW p \in Players, NEW q \in Players, frame[p] = frame[q],
             localStatus[p] # "LEFT", localStatus[q] # "LEFT"
      PROVE  runAhead[p] = runAhead[q]
  <2>1. ChangesRun(p) = ChangesRun(q) /\ ChangesRun(p) \subseteq CommandsIn(net)
    BY <1>2, ChangesInNet DEF IInv, CoreInv
  <2>2. CASE ChangesRun(p) = {}
    BY <1>2, <2>1, <2>2 DEF RunAheadInv
  <2>3. CASE ChangesRun(p) # {}
    <3>1. PICK c \in ChangesRun(p) :
             runAhead[p] = c.value /\ \A d \in ChangesRun(p) : NotAfter(d, c)
      BY <1>2, <2>3 DEF RunAheadInv
    <3>2. PICK d \in ChangesRun(p) :
             runAhead[q] = d.value /\ \A e \in ChangesRun(p) : NotAfter(e, d)
      BY <1>2, <2>1, <2>3 DEF RunAheadInv
    <3>3. c = d
      BY <1>2, <2>1, <3>1, <3>2, LastChangeUnique DEF IInv, CoreInv
    <3> QED
      BY <3>1, <3>2, <3>3
  <2> QED
    BY <2>2, <2>3
<1>3. IInv /\ RunAheadInv => SameRunAhead
  BY <1>2 DEF SameRunAhead
<1> QED
  BY <1>1, <1>3, Invariance, RunAheadNext, PTL DEF Spec

-----------------------------------------------------------------------------
(* The lap *)

(* Who plays on is waited for, at most MaxRunAhead frames ahead of him.     *)
LEMMA PlayingWaiting ==
    ASSUME IInv, NEW q \in Players, ~Leaving(q)
    PROVE  /\ \A p \in Players : q \in Awaited(p) /\ frame[p] <= LastWaiting(q)
           /\ LastWaiting(q) \in Nat /\ LastWaiting(q) <= frame[q] + MaxRunAhead
<1> USE DEF IInv, CoreInv
<1>1. \A p \in Players : q \in Awaited(p) /\ frame[p] <= LastWaiting(q)
  BY DEF DriftInv
<1>2. /\ lastFrameCompleted[q] \in Nat /\ frame[q] \in Nat
      /\ InitialRunAhead \in Nat /\ MaxRunAhead \in Nat /\ InitialRunAhead <= MaxRunAhead
  BY NumberTypes, WindowSizes
<1>3. CASE localStatus[q] = "INGAME"
  BY <1>1, <1>2, <1>3, PlayingExecutionFrame, NumberTypes
<1>4. CASE localStatus[q] = "PREGAME"
  <2>1. lastFrameCompleted[q] = InitialRunAhead - 1 /\ frame[q] = 0
    BY <1>4 DEF ScheduleInv
  <2> QED
    BY <1>1, <1>2, <2>1, SMT DEF LastWaiting
<1> QED
  BY <1>3, <1>4 DEF TypeOK, Leaving

(* What a player sends is near all recipients who play on.                  *)
LEMMA NearAdded ==
    ASSUME IInv, IInv', NearInv, NEW p \in Players, NEW added, net' = net \union added,
           \A m \in added : /\ m.to = Recipients(p) /\ m.executionFrame \in Nat
                            /\ m.executionFrame <= frame[p] + MaxRunAhead + 1,
           \A q \in Players : frame[q] <= frame'[q] /\ (Leaving(q) => Leaving(q)')
    PROVE  NearInv'
<1> SUFFICES ASSUME NEW m \in net', NEW q \in m.to, ~Leaving(q)'
             PROVE  m.executionFrame <= frame'[q] + 2 * MaxRunAhead + 1
  BY DEF NearInv
<1>1. MaxRunAhead \in Nat /\ frame[p] \in Nat
  BY WindowSizes, NumberTypes DEF IInv
<1>2. CASE m \in net
  <2>1. q \in Players /\ m.executionFrame \in Nat
    BY <1>2, CommandTypes DEF IInv
  <2>2. m.executionFrame <= frame[q] + 2 * MaxRunAhead + 1
    BY <1>2, <2>1 DEF NearInv
  <2>3. frame[q] \in Nat /\ frame'[q] \in Nat
    BY <2>1 DEF IInv, TypeOK
  <2> QED
    BY <1>1, <2>1, <2>2, <2>3, SMT
<1>3. CASE m \in added
  <2>1. q \in Players
    BY <1>3 DEF Recipients
  <2>2. /\ frame[p] <= LastWaiting(q) /\ LastWaiting(q) \in Nat
        /\ LastWaiting(q) <= frame[q] + MaxRunAhead
    BY <2>1, PlayingWaiting
  <2>3. frame[q] \in Nat /\ frame'[q] \in Nat
    BY <2>1 DEF IInv, TypeOK
  <2> QED
    BY <1>1, <1>3, <2>1, <2>2, <2>3, SMT
<1> QED
  BY <1>2, <1>3

(* An advance announces frames of the new run ahead.                        *)
LEMMA NearAdvances ==
    ASSUME IInv, IInv', NearInv, NEW p \in Players, Advances(p)
    PROVE  NearInv'
<1> DEFINE done == lastFrameCompleted[p]
           done1 == lastFrameCompleted'[p]
           infos == IF Leaving(p) THEN {} ELSE
                    {FrameInfoFor(p, frameData'[p][p], f) : f \in done + 1 .. done1}
<1>1. /\ net' = net \union infos
      /\ ~Leaving(p) => done1 = lastExecutionFrame'[p] - 1
                        /\ lastExecutionFrame'[p] <= frame[p] + 1 + MaxRunAhead
      /\ \A q \in Players : frame[q] <= frame'[q]
  <2>1. \A q \in Players : frame[q] \in Nat
    BY NumberTypes DEF IInv
  <2> QED
    BY <2>1, AdvancedNumbers, SMT DEF IInv, CoreInv
<1>2. /\ done \in Nat /\ done1 \in Nat /\ frame[p] \in Nat /\ MaxRunAhead \in Nat
      /\ lastExecutionFrame'[p] \in Nat
  BY NumberTypes, WindowSizes DEF IInv, TypeOK
<1> HIDE DEF done, done1
<1>3. \A m \in infos : /\ ~Leaving(p) /\ m.to = Recipients(p)
                        /\ m.executionFrame \in done + 1 .. done1
  BY DEF FrameInfoFor, Message
<1> HIDE DEF infos
<1>4. \A m \in infos : /\ m.to = Recipients(p) /\ m.executionFrame \in Nat
                        /\ m.executionFrame <= frame[p] + MaxRunAhead + 1
  BY <1>1, <1>2, <1>3, SMT
<1>5. \A q \in Players : Leaving(q) => Leaving(q)'
  BY AdvancedMonotone DEF IInv, CoreInv
<1> QED
  BY <1>1, <1>4, <1>5, NearAdded

(* Everything sent stays near who plays on.                                 *)
LEMMA NearNext == IInv /\ IInv' /\ NearInv /\ [Next]_vars => NearInv'
<1> SUFFICES ASSUME IInv, IInv', NearInv, [Next]_vars PROVE NearInv'
  OBVIOUS
<1>1. ASSUME NEW p \in Players, NEW c, PlainlyGives(p, c) PROVE NearInv'
  <2>1. /\ net' = net \union {c} /\ c.to = Recipients(p) /\ localStatus[p] = "INGAME"
        /\ c.executionFrame = lastExecutionFrame[p] /\ UNCHANGED <<frame, localStatus>>
    BY <1>1 DEF PlainlyGives, Gives
  <2>2. /\ lastExecutionFrame[p] \in Nat /\ MaxRunAhead \in Nat
        /\ lastExecutionFrame[p] <= frame[p] + MaxRunAhead
        /\ \A q \in Players : frame[q] \in Nat
    BY <2>1, PlayingExecutionFrame, NumberTypes, WindowSizes DEF IInv, CoreInv
  <2>3. \A q \in Players : frame[q] <= frame'[q] /\ (Leaving(q) => Leaving(q)')
    BY <2>1, <2>2, SMT DEF Leaving
  <2>4. c.executionFrame \in Nat /\ c.executionFrame <= frame[p] + MaxRunAhead + 1
    BY <2>1, <2>2, SMT
  <2> DEFINE added == {c}
  <2>5. /\ net' = net \union added
        /\ \A m \in added : /\ m.to = Recipients(p) /\ m.executionFrame \in Nat
                             /\ m.executionFrame <= frame[p] + MaxRunAhead + 1
    BY <2>1, <2>4
  <2> HIDE DEF added
  <2> QED
    BY <2>3, <2>5, NearAdded
<1>2. ASSUME NEW p \in Players, LeaveGame(p) PROVE NearInv'
  <2> DEFINE last == lastExecutionFrame[p]
             c == Message("PLAYERLEAVE", p, nextCommandID[p], last + 1, 0)
             infos == {FrameInfoFor(p, frameData'[p][p], g) : g \in {last, last + 1}}
             added == {c} \union infos
  <2>1. localStatus[p] = "INGAME"
    BY <1>2 DEF LeaveGame
  <2>2. /\ GetExecutionFrame(p) = last /\ last \in Nat /\ MaxRunAhead \in Nat
        /\ last <= frame[p] + MaxRunAhead /\ \A q \in Players : frame[q] \in Nat
    BY <2>1, PlayingExecutionFrame, NumberTypes, WindowSizes DEF IInv, CoreInv
  <2>3. /\ net' = net \union added /\ frame' = frame
        /\ localStatus' = [localStatus EXCEPT ![p] = "LEAVING"]
    BY <1>2, <2>2 DEF LeaveGame, LeaveFrames
  <2>4. \A m \in added : m.to = Recipients(p) /\ m.executionFrame \in {last, last + 1}
    BY DEF FrameInfoFor, Message
  <2> HIDE DEF added, last
  <2>5. \A m \in added : /\ m.to = Recipients(p) /\ m.executionFrame \in Nat
                          /\ m.executionFrame <= frame[p] + MaxRunAhead + 1
    BY <2>2, <2>4, SMT
  <2>6. \A q \in Players : Leaving(q) => Leaving(q)'
    BY <2>3 DEF Leaving, IInv, TypeOK
  <2>7. \A q \in Players : frame[q] <= frame'[q]
    BY <2>2, <2>3, SMT
  <2> QED
    BY <2>3, <2>5, <2>6, <2>7, NearAdded
<1>3. ASSUME NEW p \in Players, NEW m \in net, Receive(p, m) PROVE NearInv'
  BY <1>3 DEF Receive, NearInv, Leaving
<1>4. ASSUME NEW p \in Players, ExecutePregameFrame(p) PROVE NearInv'
  BY <1>4, PregameAdvances, NearAdvances
<1>5. ASSUME NEW p \in Players, ExecuteFrame(p) PROVE NearInv'
  BY <1>5, ExecuteAdvances, NearAdvances
<1>6. CASE UNCHANGED vars
  BY <1>6 DEF vars, NearInv, Leaving
<1>7. BoundReached => UNCHANGED vars
  BY DEF BoundReached
<1> QED
  BY <1>1, <1>2, <1>3, <1>4, <1>5, <1>6, <1>7, IssueCommandGives, UpdateRunAheadGives DEF Next

(* A manager is gone, or quits, as long as nothing of it changes.           *)
LEMMA GoneStays ==
    ASSUME DriftInv, GoneInv, NEW p \in Players, NEW q \in Players,
           frame'[p] = frame[p], managers'[p] = managers[p], quitFrame'[p] = quitFrame[p],
           Leaving(p) => Leaving(p)', Leaving(q) => LastWaiting(q)' = LastWaiting(q)
    PROVE  ~Leaving(p)' /\ q \notin Awaited(p)' => Gone(p, q)'
<1> SUFFICES ASSUME ~Leaving(p)', q \notin Awaited(p)' PROVE Gone(p, q)'
  OBVIOUS
<1>1. ~Leaving(p) /\ q \notin Awaited(p)
  BY DEF Awaited
<1>2. Gone(p, q) /\ LastWaiting(q)' = LastWaiting(q)
  BY <1>1 DEF GoneInv, DriftInv
<1> QED
  BY <1>2 DEF Gone

(* A frame that runs starts to quit who leaves in it, and ends to wait for  *)
(* who left when the frames kept were run.                                  *)
LEMMA ExecuteFrameGone ==
    ASSUME IInv, TypeOK', GoneInv, NEW p \in Players, ExecuteFrame(p)
    PROVE  GoneInv'
<1> USE DEF IInv, CoreInv
<1> DEFINE f == frame[p]
           leavers == LeaversIn(FrameCommands(p, f))
<1>1. /\ quitFrame' = [quitFrame EXCEPT ![p] = [q \in Players |->
            IF q \in leavers \ {p} /\ quitFrame[p][q] = NOT_QUITTING
            THEN f + FRAMES_TO_KEEP + 1 ELSE quitFrame[p][q]]]
      /\ managers' = [managers EXCEPT ![p] =
            {q \in managers[p] : quitFrame[p][q] # f + 1} \ (leavers \intersect {p})]
  BY DEF ExecuteFrame
<1>2. /\ Advances(p) /\ f \in Nat \ {0}
      /\ leavers = {q \in Players : Leaving(q) /\ LastWaiting(q) = f}
  BY ExecuteAdvances
<1> HIDE DEF leavers
<1>3. /\ frame'[p] = f + 1 /\ \A r \in Players \ {p} : frame'[r] = frame[r]
      /\ \A r \in Players : /\ Leaving(r)' <=> Leaving(r)
                            /\ Leaving(r) => LastWaiting(r)' = LastWaiting(r)
  BY <1>2, AdvancedNumbers, AdvancedMonotone
<1> SUFFICES ASSUME NEW r \in Players, NEW q \in Players, ~Leaving(r)', q \notin Awaited(r)'
             PROVE  Gone(r, q)'
  BY DEF GoneInv
<1>4. CASE r # p
  <2>1. managers'[r] = managers[r] /\ quitFrame'[r] = quitFrame[r] /\ frame'[r] = frame[r]
    BY <1>1, <1>3, <1>4 DEF TypeOK
  <2> QED
    BY <1>3, <2>1, GoneStays
<1>5. CASE r = p
  <2>1. /\ ~Leaving(p) /\ p \notin leavers
        /\ managers'[p] = {s \in managers[p] : quitFrame[p][s] # f + 1}
        /\ quitFrame'[p][q] = IF q \in leavers /\ quitFrame[p][q] = NOT_QUITTING
                              THEN f + FRAMES_TO_KEEP + 1 ELSE quitFrame[p][q]
    BY <1>1, <1>2, <1>3, <1>5 DEF TypeOK
  <2>2. /\ FRAMES_TO_KEEP = MaxRunAhead + 1 /\ MaxRunAhead \in Nat \ {0}
        /\ quitFrame[p][q] \in Nat /\ NOT_QUITTING = 0
    BY WindowSizes, NumberTypes DEF NOT_QUITTING
  <2>3. CASE q \in Awaited(p)
    <3>1. q \in managers[p] /\ quitFrame[p][q] = 0
      BY <2>2, <2>3 DEF Awaited
    <3>2. q \in managers'[p]
      BY <1>2, <2>1, <3>1, SMT
    <3>3. q \in leavers
      BY <1>5, <2>1, <3>2, <3>1, <2>2 DEF Awaited
    <3>4. LastWaiting(q)' = f /\ quitFrame'[p][q] = f + FRAMES_TO_KEEP + 1
      BY <1>2, <1>3, <2>1, <2>2, <3>1, <3>3
    <3> QED
      BY <1>2, <1>3, <1>5, <2>2, <3>2, <3>4, SMT DEF Gone
  <2>4. CASE q \notin Awaited(p)
    <3>1. Leaving(q) /\ LastWaiting(q) = lastExecutionFrame[q] + 1 /\ Gone(p, q)
      BY <2>1, <2>4 DEF DriftInv, GoneInv, LastWaiting
    <3>2. LastWaiting(q) \in Nat /\ LastWaiting(q)' = LastWaiting(q)
      BY <1>3, <3>1, NumberTypes, SMT
    <3>3. CASE q \in managers[p]
      <4>1. /\ quitFrame[p][q] = LastWaiting(q) + FRAMES_TO_KEEP + 1 /\ f < quitFrame[p][q]
            /\ quitFrame'[p][q] = quitFrame[p][q]
        BY <2>1, <2>2, <2>4, <3>1, <3>3 DEF Gone, Awaited
      <4>2. q \in managers'[p] <=> quitFrame[p][q] # f + 1
        BY <2>1, <3>3
      <4> QED
        BY <1>2, <1>3, <1>5, <2>2, <3>2, <4>1, <4>2, SMT DEF Gone
    <3>4. CASE q \notin managers[p]
      <4>1. q \notin managers'[p] /\ LastWaiting(q) + FRAMES_TO_KEEP + 1 <= f
        BY <2>1, <3>1, <3>4 DEF Gone
      <4> QED
        BY <1>2, <1>3, <1>5, <2>2, <3>2, <4>1, SMT DEF Gone
    <3> QED
      BY <3>3, <3>4
  <2> QED
    BY <2>3, <2>4
<1> QED
  BY <1>4, <1>5

(* A manager outlives its player's leave by the frames that are kept.       *)
LEMMA GoneNext == IInv /\ IInv' /\ GoneInv /\ [Next]_vars => GoneInv'
<1> SUFFICES ASSUME IInv, IInv', GoneInv, [Next]_vars PROVE GoneInv'
  OBVIOUS
<1> USE DEF IInv, CoreInv
<1>1. ASSUME UNCHANGED <<frame, managers, quitFrame>>,
             \A q \in Players : Leaving(q) => Leaving(q)' /\ LastWaiting(q)' = LastWaiting(q)
      PROVE  GoneInv'
  BY <1>1, GoneStays DEF GoneInv
<1>2. ASSUME NEW p \in Players, NEW c, PlainlyGives(p, c) PROVE GoneInv'
  BY <1>1, <1>2 DEF PlainlyGives, Gives, Leaving, LastWaiting
<1>3. ASSUME NEW p \in Players, LeaveGame(p) PROVE GoneInv'
  <2>1. \A q \in Players : Leaving(q) => Leaving(q)' /\ LastWaiting(q)' = LastWaiting(q)
    BY <1>3 DEF LeaveGame, Leaving, LastWaiting, TypeOK
  <2> QED
    BY <1>1, <1>3, <2>1 DEF LeaveGame
<1>4. ASSUME NEW p \in Players, NEW m \in net, Receive(p, m) PROVE GoneInv'
  BY <1>1, <1>4 DEF Receive, networkVars, Leaving, LastWaiting
<1>5. ASSUME NEW p \in Players, ExecutePregameFrame(p) PROVE GoneInv'
  <2> SUFFICES ASSUME NEW r \in Players, NEW q \in Players
               PROVE  ~Leaving(r)' /\ q \notin Awaited(r)' => Gone(r, q)'
    BY DEF GoneInv
  <2>1. Advances(p) /\ frame[p] = 0 /\ managers' = managers /\ quitFrame' = quitFrame
    BY <1>5, PregameAdvances DEF ExecutePregameFrame, ringVars
  <2>2. /\ \A s \in Players \ {p} : frame'[s] = frame[s]
        /\ \A s \in Players : /\ Leaving(s)' <=> Leaving(s)
                              /\ Leaving(s) => LastWaiting(s)' = LastWaiting(s)
    BY <2>1, AdvancedNumbers, AdvancedMonotone
  <2>3. CASE r # p
    BY <2>1, <2>2, <2>3, GoneStays
  <2>4. CASE r = p
    <3>1. q \in Awaited(p)
      <4>1. LastWaiting(q) \in Nat
        BY NumberTypes, SMT DEF LastWaiting
      <4> QED
        BY <2>1, <4>1, SMT DEF DriftInv
    <3>2. q \in Awaited(p)'
      BY <2>1, <3>1 DEF Awaited
    <3> QED
      BY <2>4, <3>2
  <2> QED
    BY <2>3, <2>4
<1>6. ASSUME NEW p \in Players, ExecuteFrame(p) PROVE GoneInv'
  BY <1>6, ExecuteFrameGone
<1>7. CASE UNCHANGED vars
  BY <1>1, <1>7 DEF vars, networkVars, ringVars, Leaving, LastWaiting
<1>8. BoundReached => UNCHANGED vars
  BY DEF BoundReached
<1> QED
  BY <1>2, <1>3, <1>4, <1>5, <1>6, <1>7, <1>8, IssueCommandGives, UpdateRunAheadGives DEF Next

(* A write near the frame to run spares the frames kept behind it.          *)
LEMMA KeptApart ==
    ASSUME NEW n \in Nat, NEW g \in Nat, NEW h \in Nat, g < n, n <= g + FRAMES_TO_KEEP,
           n <= h, h <= n + 2 * MaxRunAhead + 1
    PROVE  SlotIndex(g) # SlotIndex(h)
<1>1. g < h /\ h < g + FRAME_DATA_LENGTH
  BY WindowSizes, SMT
<1> QED
  BY <1>1, SlotsApart

(* What is kept stays while neither its slots nor its commands change.      *)
LEMMA KeptStays ==
    ASSUME NEW p, KeptFull(p), managers'[p] \subseteq managers[p], Kept(p)' \subseteq Kept(p),
           \A q \in managers[p], f \in Kept(p) :
              /\ frameData'[p][q][SlotIndex(f)] = frameData[p][q][SlotIndex(f)]
              /\ Scheduled(q, f)' = Scheduled(q, f)
              /\ Waits(q, f)' => Waits(q, f)
    PROVE  KeptFull(p)'
<1> SUFFICES ASSUME NEW q \in managers'[p], NEW f \in Kept(p)'
             PROVE  FullSlot(q, f, frameData[p][q][SlotIndex(f)])'
  BY DEF KeptFull
<1>1. /\ FullSlot(q, f, frameData[p][q][SlotIndex(f)])
      /\ frameData'[p][q][SlotIndex(f)] = frameData[p][q][SlotIndex(f)]
      /\ Scheduled(q, f)' = Scheduled(q, f) /\ (Waits(q, f)' => Waits(q, f))
  BY DEF KeptFull
<1> QED
  BY <1>1 DEF FullSlot

(* A command is given for a frame that nobody has run.                      *)
LEMMA GiveKept ==
    ASSUME IInv, KeptInv, NEW p \in Players, NEW c, Gives(p, c),
           \A q \in Players : Leaving(q) => Leaving(q)'
    PROVE  KeptInv'
<1> USE DEF IInv, CoreInv
<1> DEFINE h == c.executionFrame
<1>1. /\ localStatus[p] = "INGAME" /\ h \in {lastExecutionFrame[p], lastExecutionFrame[p] + 1}
      /\ frame' = frame /\ managers' = managers
      /\ frameData' = [frameData EXCEPT ![p][p] = AddNetCommandMsg(@, TRUE, c)]
  BY DEF Gives, Schedule
<1>2. /\ LastWaiting(p) = lastExecutionFrame[p] /\ lastExecutionFrame[p] \in Nat
      /\ frame[p] < lastExecutionFrame[p] /\ lastExecutionFrame[p] <= frame[p] + MaxRunAhead
      /\ frame[p] \in Nat /\ MaxRunAhead \in Nat /\ ~Leaving(p)
  BY <1>1, PlayingExecutionFrame, NumberTypes, WindowSizes
<1>3. h \in Nat /\ frame[p] <= h /\ h <= frame[p] + 2 * MaxRunAhead + 1
  BY <1>1, <1>2, SMT
<1>4. frameData \in [Players -> [Players -> RingType]]
  BY DEF TypeOK, RingType
<1> SUFFICES ASSUME NEW r \in Players, ~Leaving(r)
             PROVE  KeptFull(r)'
  BY DEF KeptInv
<1>5. \A g \in Kept(r) : /\ g \in Nat /\ g < frame[r] /\ frame[r] <= g + FRAMES_TO_KEEP
                         /\ g # h
  <2>1. frame[r] <= LastWaiting(p) /\ frame[r] \in Nat
    BY <1>2, PlayingWaiting, NumberTypes
  <2> QED
    BY <1>1, <1>2, <2>1, SMT DEF Kept
<1>6. \A q \in managers[r], g \in Kept(r) :
         /\ frameData'[r][q][SlotIndex(g)] = frameData[r][q][SlotIndex(g)]
         /\ Scheduled(q, g)' = Scheduled(q, g)
  <2> TAKE q \in managers[r], g \in Kept(r)
  <2>1. q \in Players
    BY NumberTypes
  <2>2. Scheduled(q, g)' = Scheduled(q, g)
    BY <1>5, GivenScheduled
  <2>3. CASE ~(r = p /\ q = p)
    BY <1>1, <1>4, <2>1, <2>2, <2>3
  <2>4. CASE r = p /\ q = p
    <3>1. SlotIndex(g) # SlotIndex(h) /\ SlotIndex(g) \in Slots /\ SlotIndex(h) \in Slots
      BY <1>2, <1>3, <1>5, <2>4, KeptApart, SlotInRing
    <3>2. frameData'[p][p] = AddNetCommandMsg(frameData[p][p], TRUE, c)
      BY <1>1, <1>4
    <3>3. AddNetCommandMsg(frameData[p][p], TRUE, c)[SlotIndex(g)] = frameData[p][p][SlotIndex(g)]
      BY <1>4, <3>1 DEF AddNetCommandMsg, RingType
    <3> QED
      BY <2>2, <2>4, <3>2, <3>3
  <2> QED
    BY <2>3, <2>4
<1>7. Kept(r)' = Kept(r) /\ KeptFull(r)
  BY <1>1 DEF Kept, KeptInv
<1>8. \A q \in managers[r], g \in Kept(r) : Waits(q, g)' => Waits(q, g)
  <2> SUFFICES ASSUME NEW q \in managers[r], NEW g \in Kept(r), Leaving(q)
               PROVE  Leaving(q)' /\ LastWaiting(q)' = LastWaiting(q)
    BY DEF Waits
  <2>1. q \in Players /\ q # p
    BY <1>2, NumberTypes
  <2>2. lastExecutionFrame'[q] = lastExecutionFrame[q]
    BY <2>1 DEF Gives, TypeOK
  <2> QED
    BY <2>1, <2>2 DEF LastWaiting
<1> QED
  BY <1>1, <1>6, <1>7, <1>8, KeptStays

(* Who leaves schedules nothing past his leave.                             *)
LEMMA NothingAfterLeave ==
    ASSUME IInv, NEW q \in Players, Leaving(q), NEW f \in Nat, LastWaiting(q) < f
    PROVE  Scheduled(q, f) = {}
<1> USE DEF IInv, CoreInv
<1> SUFFICES ASSUME NEW c \in CommandsIn(net), c.playerID = q, c.executionFrame = f
             PROVE  FALSE
  BY DEF Scheduled
<1>1. /\ c.type = "PLAYERLEAVE" => f = lastExecutionFrame[q] + 1
      /\ c.type # "PLAYERLEAVE" => f <= lastExecutionFrame[q]
  BY DEF CommandInv
<1> QED
  BY <1>1, NumberTypes, SMT DEF LastWaiting

(* The ready check of a frame touches the slot of that frame only.          *)
LEMMA ReadyCheckSparesOthers ==
    ASSUME NEW p \in Players, NEW rings \in [Players -> RingType], NEW awaited,
           NEW h \in Nat, NEW q \in Players, NEW g \in Nat,
           SlotIndex(g) # SlotIndex(h)
    PROVE  AfterReadyCheck(p, rings, awaited, h)[q][SlotIndex(g)] = rings[q][SlotIndex(g)]
<1>1. SlotIndex(g) \in Slots /\ SlotIndex(h) \in Slots
  BY SlotInRing
<1>2. ResetFrame(rings[q], FALSE, h)[SlotIndex(g)] = rings[q][SlotIndex(g)]
  BY <1>1 DEF ResetFrame, RingType
<1> QED
  BY <1>2 DEF AfterReadyCheck

(* What arrives is for a frame that the machine has not run.                *)
LEMMA ReceiveKept ==
    ASSUME IInv, MaxRunAhead >= 2, NearInv, KeptInv,
           NEW p \in Players, NEW m \in net, Receive(p, m)
    PROVE  KeptInv'
<1> USE DEF IInv, CoreInv
<1> DEFINE h == m.executionFrame
           received == Received(p, m)
           kept == Kept(p)
<1>1. /\ CanReceive(p, m)
      /\ frameData' = [frameData EXCEPT ![p] = AfterReadyCheck(p, received, Awaited(p), h)]
      /\ UNCHANGED <<frame, localStatus, managers, net>>
  BY DEF Receive
<1>2. h \in Nat /\ received \in [Players -> RingType] /\ m.playerID \in Players
  BY <1>1, ReceivedTrue, CommandTypes
<1>3. frameData \in [Players -> [Players -> RingType]]
  BY DEF TypeOK, RingType
<1> SUFFICES ASSUME NEW r \in Players, ~Leaving(r)
             PROVE  KeptFull(r)'
  BY <1>1 DEF KeptInv, Leaving
<1>4. /\ Kept(r)' = Kept(r) /\ KeptFull(r)
      /\ \A q, g : Scheduled(q, g)' = Scheduled(q, g) /\ Waits(q, g)' = Waits(q, g)
  <2>1. /\ UNCHANGED <<frame, localStatus, lastExecutionFrame, lastFrameCompleted, net>>
    BY <1>1 DEF Receive, networkVars
  <2>2. Kept(r)' = Kept(r) /\ KeptFull(r)
    BY <2>1 DEF Kept, KeptInv
  <2>3. \A q, g : Scheduled(q, g)' = Scheduled(q, g)
    BY <2>1 DEF Scheduled, CommandsIn
  <2>4. \A q, g : Waits(q, g)' = Waits(q, g)
    BY <2>1 DEF Waits, Leaving, LastWaiting
  <2> QED
    BY <2>2, <2>3, <2>4
<1>5. CASE r # p
  BY <1>1, <1>3, <1>4, <1>5, KeptStays
<1>6. CASE r = p
  <2>1. \A g \in kept : /\ g \in Nat /\ g < frame[p] /\ frame[p] <= g + FRAMES_TO_KEEP
    BY NumberTypes, SMT DEF Kept
  <2>2. /\ frame[p] <= h /\ h <= frame[p] + 2 * MaxRunAhead + 1 /\ frame[p] \in Nat
    BY <1>1, <1>6, NumberTypes DEF CanReceive, NearInv
  <2>3. \A g \in kept : SlotIndex(g) # SlotIndex(h) /\ g # h
    BY <1>2, <2>1, <2>2, KeptApart
  <2>4. \A q \in Players, g \in kept : received[q][SlotIndex(g)] = frameData[p][q][SlotIndex(g)]
    <3> TAKE q \in Players, g \in kept
    <3>1. SlotIndex(g) # SlotIndex(h) /\ frameData[p][m.playerID] \in [Slots -> FrameDataType]
          /\ SlotIndex(g) \in Slots /\ SlotIndex(h) \in Slots
      BY <1>2, <1>3, <2>1, <2>3, SlotInRing DEF RingType
    <3> QED
      BY <1>2, <1>3, <3>1 DEF Received, SetFrameCommandCount, AddNetCommandMsg
  <2> HIDE DEF received, kept, h
  <2>5. \A q \in Players, g \in kept :
          AfterReadyCheck(p, received, Awaited(p), h)[q][SlotIndex(g)] = received[q][SlotIndex(g)]
    <3> TAKE q \in Players, g \in kept
    <3>1. g \in Nat /\ h \in Nat /\ received \in [Players -> RingType]
      BY <1>2, <2>1 DEF h
    <3>2. SlotIndex(g) # SlotIndex(h)
      BY <2>3
    <3> HIDE DEF IInv, CoreInv
    <3> QED
      BY <3>1, <3>2, ReadyCheckSparesOthers
  <2>6. \A q \in managers[p], g \in kept :
          frameData'[p][q][SlotIndex(g)] = frameData[p][q][SlotIndex(g)]
    BY <1>1, <1>3, <2>4, <2>5, NumberTypes
  <2> QED
    BY <1>1, <1>4, <1>6, <2>6, KeptStays DEF kept
<1> QED
  BY <1>5, <1>6

(* A frame that runs is complete and is kept; the one freed is older than   *)
(* those kept, and the check of the next one spares them.                   *)
LEMMA ExecuteFrameKept ==
    ASSUME IInv, TypeOK', KeptInv, NEW p \in Players, ExecuteFrame(p)
    PROVE  KeptInv'
<1> USE DEF IInv, CoreInv
<1> DEFINE f == frame[p]
           leavers == LeaversIn(FrameCommands(p, f))
           rings == [q \in Players |->
                       IF q \in managers[p] /\ f > FRAMES_TO_KEEP
                       THEN ResetFrame(frameData[p][q], q = p, f - FRAMES_TO_KEEP)
                       ELSE frameData[p][q]]
           awaited == Awaited(p) \ leavers
           kept == {g \in 1 .. f : f + 1 <= g + FRAMES_TO_KEEP}
<1>1. /\ localStatus[p] \in {"INGAME", "LEAVING"}
      /\ \A q \in Awaited(p) : Ready(frameData[p][q][SlotIndex(f)])
      /\ managers' = [managers EXCEPT ![p] =
            {q \in managers[p] : quitFrame[p][q] # f + 1} \ (leavers \intersect {p})]
      /\ frameData' = [frameData EXCEPT ![p] = AfterReadyCheck(p, rings, awaited, f + 1)]
  BY DEF ExecuteFrame
<1>2. /\ Advances(p) /\ f \in Nat \ {0} /\ f \in Window(p)
  BY <1>1, ExecuteAdvances, ExecutedCommands
<1>3. /\ frame'[p] = f + 1 /\ \A r \in Players \ {p} : frame'[r] = frame[r]
      /\ \A r \in Players : Leaving(r)' <=> Leaving(r)
      /\ \A q, g : Scheduled(q, g)' = Scheduled(q, g)
  BY <1>2, AdvancedNumbers, AdvancedMonotone DEF Scheduled
<1>7. \A q \in Players : \A g : Waits(q, g)' = Waits(q, g)
  BY <1>2, AdvancedMonotone DEF Waits
<1>4. frameData \in [Players -> [Players -> RingType]]
  BY DEF TypeOK, RingType
<1> SUFFICES ASSUME NEW r \in Players, ~Leaving(r)
             PROVE  KeptFull(r)'
  BY <1>3 DEF KeptInv
<1>5. CASE r # p
  <2>1. /\ Kept(r)' = Kept(r) /\ KeptFull(r) /\ managers'[r] = managers[r]
        /\ frameData'[r] = frameData[r]
    BY <1>1, <1>3, <1>4, <1>5 DEF Kept, KeptInv, TypeOK
  <2> QED
    BY <1>3, <1>7, <2>1, NumberTypes, KeptStays
<1>6. CASE r = p
  <2>1. FRAMES_TO_KEEP = MaxRunAhead + 1 /\ MaxRunAhead \in Nat \ {0}
        /\ FRAME_DATA_LENGTH \in Nat /\ 4 * MaxRunAhead + 2 <= FRAME_DATA_LENGTH
    BY WindowSizes
  <2>2. Kept(p)' = kept /\ kept \in SUBSET Nat
    <3>1. frame'[p] - 1 = f
      BY <1>2, <1>3, SMT
    <3> QED
      BY <1>3, <3>1, SMT DEF Kept
  <2>3. \A g \in kept : SlotIndex(g) # SlotIndex(f + 1) /\ g # f + 1
    <3> TAKE g \in kept
    <3>1. g \in Nat /\ f + 1 \in Nat /\ g < f + 1 /\ f + 1 < g + FRAME_DATA_LENGTH
      BY <1>2, <2>1, SMT
    <3> QED
      BY <3>1, SlotsApart, SMT
  <2>4. \A q \in Players, g \in kept : rings[q][SlotIndex(g)] = frameData[p][q][SlotIndex(g)]
    <3> TAKE q \in Players, g \in kept
    <3>1. CASE ~(f > FRAMES_TO_KEEP)
      BY <3>1
    <3>2. CASE f > FRAMES_TO_KEEP
      <4> DEFINE freed == f - FRAMES_TO_KEEP
      <4>1. /\ freed \in Nat /\ g \in Nat /\ freed < g /\ g < freed + FRAME_DATA_LENGTH
        BY <1>2, <2>1, <3>2, SMT
      <4> HIDE DEF freed
      <4>2. SlotIndex(g) # SlotIndex(freed)
        BY <4>1, SlotsApart
      <4>3. SlotIndex(g) \in Slots /\ SlotIndex(freed) \in Slots
        BY <4>1, SlotInRing
      <4>4. ResetFrame(frameData[p][q], q = p, freed)[SlotIndex(g)] = frameData[p][q][SlotIndex(g)]
        BY <1>4, <4>2, <4>3 DEF ResetFrame, RingType
      <4> QED
        BY <4>4 DEF freed
    <3> QED
      BY <3>1, <3>2
  <2>5. rings \in [Players -> RingType]
    <3>1. f > FRAMES_TO_KEEP => f - FRAMES_TO_KEEP \in Nat
      BY <1>2, <2>1, SMT
    <3>2. \A q \in Players : f > FRAMES_TO_KEEP =>
            ResetFrame(frameData[p][q], q = p, f - FRAMES_TO_KEEP) \in RingType
      BY <1>4, <3>1, ResetFrameType
    <3> QED
      BY <1>4, <3>2
  <2> HIDE DEF rings, awaited, leavers
  <2>6. \A q \in Players, g \in kept :
          AfterReadyCheck(p, rings, awaited, f + 1)[q][SlotIndex(g)] = rings[q][SlotIndex(g)]
    <3>1. f + 1 \in Nat
      BY <1>2, SMT
    <3> HIDE DEF kept
    <3> DEFINE h == f + 1
    <3>2. h \in Nat /\ \A g \in kept : SlotIndex(g) # SlotIndex(h) /\ g # h
      BY <2>3, <3>1
    <3> HIDE DEF h
    <3>3. \A q \in Players, g \in kept :
            AfterReadyCheck(p, rings, awaited, h)[q][SlotIndex(g)] = rings[q][SlotIndex(g)]
      BY <2>2, <2>5, <3>2, ReadyCheckSpares
    <3> QED
      BY <3>3 DEF h
  <2>7. \A q \in Players, g \in kept :
          frameData'[p][q][SlotIndex(g)] = frameData[p][q][SlotIndex(g)]
    BY <1>1, <1>4, <2>4, <2>6
  <2>8. SUFFICES ASSUME NEW q \in managers[p], NEW g \in kept
                 PROVE  FullSlot(q, g, frameData[p][q][SlotIndex(g)])
    <3>1. managers'[p] \subseteq managers[p] /\ managers[p] \subseteq Players
      BY <1>1, NumberTypes DEF TypeOK
    <3> SUFFICES ASSUME NEW q \in managers'[p], NEW g \in Kept(p)'
                 PROVE  FullSlot(q, g, frameData[p][q][SlotIndex(g)])'
      BY <1>6 DEF KeptFull
    <3>2. g \in kept /\ q \in managers[p] /\ q \in Players
      BY <2>2, <3>1
    <3>3. FullSlot(q, g, frameData[p][q][SlotIndex(g)])
      BY <2>8, <3>2
    <3> QED
      BY <1>3, <1>7, <2>7, <3>2, <3>3 DEF FullSlot
  <2>9. CASE g < f
    <3>1. g \in Kept(p)
      BY <1>2, <2>1, <2>9, SMT DEF Kept
    <3> QED
      BY <1>6, <3>1 DEF KeptInv, KeptFull
  <2>10. CASE g = f
    <3> DEFINE d == frameData[p][q][SlotIndex(f)]
    <3>1. TrueSlot(p, q, f, d) /\ q \in Players
      BY <1>1, <1>2, NumberTypes DEF RingInv
    <3>2. CASE q \in Awaited(p)
      <4>1. d.commandList = Scheduled(q, f) /\ d.frameCommandCount = d.commandCount
        BY <1>1, <3>1, <3>2, TrueSlotCounts DEF CommandInv, Ready
      <4> QED
        BY <2>10, <3>1, <4>1 DEF TrueSlot, FullSlot
    <3>3. CASE q \notin Awaited(p)
      <4>1. q # p /\ Leaving(q) /\ LastWaiting(q) < f
        BY <1>6, <3>1, <3>3, PlayingWaiting DEF DriftInv
      <4>2. Scheduled(q, f) = {}
        BY <1>2, <3>1, <4>1, NothingAfterLeave
      <4>3. d.commandList = Scheduled(q, f) /\ d.commandCount = Cardinality(d.commandList)
        BY <3>1, <4>2 DEF TrueSlot
      <4>4. LastWaiting(q) \in Nat
        BY <3>1, <4>1, NumberTypes, SMT DEF LastWaiting
      <4>5. ~Waits(q, f)
        BY <1>2, <4>1, <4>4, SMT DEF Waits
      <4> QED
        BY <2>10, <3>1, <4>1, <4>2, <4>3, <4>5 DEF TrueSlot, FullSlot
    <3> QED
      BY <3>2, <3>3
  <2> QED
    BY <1>2, <2>9, <2>10, SMT
<1> QED
  BY <1>5, <1>6

(* The frames kept behind stay as they were run.                            *)
LEMMA KeptNext == MaxRunAhead >= 2 /\ IInv /\ IInv' /\ NearInv /\ KeptInv /\ [Next]_vars => KeptInv'
<1> SUFFICES ASSUME MaxRunAhead >= 2, IInv, IInv', NearInv, KeptInv, [Next]_vars
             PROVE  KeptInv'
  OBVIOUS
<1> USE DEF IInv, CoreInv
<1>1. ASSUME NEW p \in Players, NEW c, PlainlyGives(p, c) PROVE KeptInv'
  BY <1>1, GiveKept DEF PlainlyGives, Leaving
<1>2. ASSUME NEW p \in Players, LeaveGame(p) PROVE KeptInv'
  <2>1. \A q \in Players : Leaving(q) => Leaving(q)'
    BY <1>2 DEF LeaveGame, Leaving, TypeOK
  <2> QED
    BY <1>2, <2>1, LeaveGameInv, GiveKept
<1>3. ASSUME NEW p \in Players, NEW m \in net, Receive(p, m) PROVE KeptInv'
  BY <1>3, ReceiveKept
<1>4. ASSUME NEW p \in Players, ExecutePregameFrame(p) PROVE KeptInv'
  <2>1. Advances(p) /\ frame[p] = 0 /\ managers' = managers /\ frameData' = frameData
    BY <1>4, PregameAdvances DEF ExecutePregameFrame, ringVars
  <2>2. /\ frame'[p] = 1 /\ \A r \in Players \ {p} : frame'[r] = frame[r]
        /\ \A r \in Players : Leaving(r)' <=> Leaving(r)
        /\ \A q, g : Scheduled(q, g)' = Scheduled(q, g)
    BY <2>1, AdvancedNumbers, AdvancedMonotone, SMT DEF Scheduled
  <2>5. \A q \in Players : \A g : Waits(q, g)' = Waits(q, g)
    BY <2>1, AdvancedMonotone DEF Waits
  <2> SUFFICES ASSUME NEW r \in Players, ~Leaving(r)
               PROVE  KeptFull(r)'
    BY <2>2 DEF KeptInv
  <2>3. CASE r # p
    BY <2>1, <2>2, <2>3, <2>5, NumberTypes, KeptStays DEF KeptInv, Kept
  <2>4. CASE r = p
    <3>1. Kept(p)' = {}
      BY <2>2, SMT DEF Kept
    <3> QED
      BY <2>4, <3>1 DEF KeptFull
  <2> QED
    BY <2>3, <2>4
<1>5. ASSUME NEW p \in Players, ExecuteFrame(p) PROVE KeptInv'
  BY <1>5, ExecuteFrameKept
<1>6. CASE UNCHANGED vars
  <2>1. /\ managers' = managers /\ frameData' = frameData /\ frame' = frame
        /\ localStatus' = localStatus /\ net' = net
    BY <1>6 DEF vars, networkVars, ringVars
  <2>2. \A r \in Players : /\ Kept(r)' = Kept(r) /\ managers'[r] = managers[r]
                           /\ Leaving(r)' <=> Leaving(r)
    BY <2>1 DEF Kept, Leaving
  <2>3. \A q, g : Scheduled(q, g)' = Scheduled(q, g) /\ Waits(q, g)' = Waits(q, g)
    BY <1>6, <2>1 DEF Scheduled, CommandsIn, Waits, Leaving, LastWaiting, vars, networkVars
  <2> QED
    BY <2>1, <2>2, <2>3, KeptStays DEF KeptInv
<1>7. BoundReached => UNCHANGED vars
  BY DEF BoundReached
<1> QED
  BY <1>1, <1>2, <1>3, <1>4, <1>5, <1>6, <1>7, IssueCommandGives, UpdateRunAheadGives DEF Next

(* The ring is one lap in every reachable state.                            *)
LEMMA LapInvariance == ASSUME MaxRunAhead >= 2 PROVE Spec => []LapInv
<1>1. Init => LapInv
  <2> SUFFICES ASSUME Init PROVE LapInv
    OBVIOUS
  <2>1. NearInv
    BY DEF Init, NearInv
  <2>2. GoneInv
    BY DEF Init, GoneInv, Awaited
  <2>3. \A p \in Players : Kept(p) = {}
    BY SMT DEF Init, Kept
  <2>4. KeptInv
    BY <2>3 DEF KeptInv, KeptFull
  <2> QED
    BY <2>1, <2>2, <2>4 DEF LapInv
<1>2. IInv /\ IInv' /\ LapInv /\ [Next]_vars => LapInv'
  BY NearNext, GoneNext, KeptNext DEF LapInv
<1> QED
  BY <1>1, <1>2, Invariance, PTL DEF Spec

(* The ring never mixes two frames: the frames kept behind were complete,   *)
(* and the window ahead is true of its frames (resetFrame, a lap later).    *)
THEOREM FramesStayApart == ASSUME MaxRunAhead >= 2 PROVE Spec => []OneFramePerSlot
<1>1. ASSUME IInv, LapInv, NEW p \in Players, localStatus[p] = "INGAME",
             NEW q \in managers[p], NEW f \in Lap(p)
      PROVE  LET d == frameData[p][q][SlotIndex(f)]
             IN  /\ d.commandList \subseteq Scheduled(q, f)
                 /\ d.frameCommandCount # UNSET =>
                       d.frameCommandCount = Cardinality(Scheduled(q, f))
  <2> USE <1>1 DEF IInv, CoreInv
  <2>1. /\ frame[p] \in Nat /\ FRAMES_TO_KEEP = MaxRunAhead + 1 /\ MaxRunAhead \in Nat
        /\ FRAME_DATA_LENGTH \in Nat /\ 4 * MaxRunAhead + 2 <= FRAME_DATA_LENGTH
    BY NumberTypes, WindowSizes
  <2>2. f \in Nat /\ f # 0 /\ (f \in Kept(p) \/ f \in Window(p))
    BY <2>1, SMT DEF Lap, Kept, Window, WindowEnd
  <2>3. CASE f \in Kept(p)
    <3>1. FullSlot(q, f, frameData[p][q][SlotIndex(f)])
      BY <2>3 DEF LapInv, KeptInv, KeptFull, Leaving
    <3> QED
      BY <3>1 DEF FullSlot
  <2>4. CASE f \in Window(p)
    <3>1. TrueSlot(p, q, f, frameData[p][q][SlotIndex(f)])
      BY <2>4 DEF RingInv
    <3> QED
      BY <3>1 DEF TrueSlot
  <2> QED
    BY <2>2, <2>3, <2>4
<1>2. IInv /\ LapInv => OneFramePerSlot
  BY <1>1 DEF OneFramePerSlot
<1> QED
  BY <1>2, Invariance, LapInvariance, PTL

(* A machine ahead holds all that one behind it lacks of the others, their  *)
(* managers included (getFrameCommandList keeps FRAMES_TO_KEEP frames).     *)
THEOREM LaggardsAreHelped == ASSUME MaxRunAhead >= 2 PROVE Spec => []KeptFramesReachLaggard
<1>1. ASSUME IInv, LapInv, NEW p \in Players, NEW q \in Players,
             localStatus[p] = "INGAME", localStatus[q] = "INGAME",
             NEW g \in frame[q] .. frame[p] - 1, NEW s \in Players,
             Scheduled(s, g) # {} \/ (g = frame[q] /\ s \in Awaited(q))
      PROVE  /\ s \in managers[p]
             /\ frameData[p][s][SlotIndex(g)].commandList = Scheduled(s, g)
             /\ Ready(frameData[p][s][SlotIndex(g)])
  <2> USE <1>1 DEF IInv, CoreInv
  <2>1. /\ frame[p] \in Nat /\ frame[q] \in Nat /\ frame[q] # 0
        /\ FRAMES_TO_KEEP = MaxRunAhead + 1 /\ MaxRunAhead \in Nat
    BY NumberTypes, WindowSizes, PlayingExecutionFrame
  <2>2. frame[p] <= frame[q] + MaxRunAhead
    <3>1. /\ frame[p] <= LastWaiting(q) /\ LastWaiting(q) \in Nat
          /\ LastWaiting(q) <= frame[q] + MaxRunAhead
      BY PlayingWaiting DEF Leaving
    <3> QED
      BY <2>1, <3>1, SMT
  <2>3. g \in Nat /\ g \in Kept(p) /\ frame[p] < g + FRAMES_TO_KEEP
    BY <2>1, <2>2, SMT DEF Kept
  <2>4. Leaving(s) => LastWaiting(s) \in Nat /\ g <= LastWaiting(s)
    BY <2>3, NothingAfterLeave, NumberTypes, SMT DEF DriftInv, LastWaiting
  <2>5. s \in managers[p]
    <3>1. CASE s \in Awaited(p)
      BY <3>1 DEF Awaited
    <3>2. CASE s \notin Awaited(p)
      <4>1. Leaving(s)
        BY <3>2 DEF DriftInv
      <4>2. s \notin managers[p] => LastWaiting(s) + FRAMES_TO_KEEP + 1 <= frame[p]
        BY <3>2 DEF LapInv, GoneInv, Gone, Leaving
      <4> QED
        BY <2>1, <2>3, <2>4, <4>1, <4>2, SMT
    <3> QED
      BY <3>1, <3>2
  <2>6. FullSlot(s, g, frameData[p][s][SlotIndex(g)])
    BY <2>3, <2>5 DEF LapInv, KeptInv, KeptFull, Leaving
  <2> QED
    BY <2>4, <2>5, <2>6 DEF FullSlot, Waits, Ready
<1>2. IInv /\ LapInv => KeptFramesReachLaggard
  BY <1>1 DEF KeptFramesReachLaggard
<1> QED
  BY <1>2, Invariance, LapInvariance, PTL

=============================================================================
