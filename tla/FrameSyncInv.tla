---------------------------- MODULE FrameSyncInv ----------------------------
(***************************************************************************)
(* The inductive invariant behind LockstepAgreement: why the frame counts  *)
(* are final when they are announced, why the ring never mixes up the      *)
(* frames a machine may still run, and how far machines can drift apart.   *)
(***************************************************************************)
EXTENDS FrameSync

Leaving(p) == localStatus[p] \in {"LEAVING", "LEFT"}

(* The last frame p announced, hence gets no more commands from p.         *)
Announced(p) ==
    IF Leaving(p) THEN lastExecutionFrame[p] + 1 ELSE lastFrameCompleted[p]

(* The last frame that waits for p: past it p is gone, or nobody gets yet. *)
LastWaiting(p) ==
    IF Leaving(p) THEN lastExecutionFrame[p] + 1 ELSE lastFrameCompleted[p] + 1

(* Before anything is freed the ring still has its first lap; from then on *)
(* a frame leaves room for all but the frames kept behind it.              *)
WindowEnd(n) ==
    IF n <= FRAMES_TO_KEEP THEN FRAME_DATA_LENGTH
    ELSE n + FRAME_DATA_LENGTH - FRAMES_TO_KEEP - 1

Window(p) == {f \in 1 .. WindowEnd(frame[p]) : frame[p] <= f}

(* How the execution frame, the announced frames and the logic frame of    *)
(* one machine relate.                                                     *)
ScheduleInv ==
    \A p \in Players :
        /\ InitialRunAhead - 1 <= lastFrameCompleted[p]
        /\ lastExecutionFrame[p] <= frame[p] + MaxRunAhead
        /\ localStatus[p] = "PREGAME" =>
              /\ frame[p] = 0 /\ runAhead[p] = InitialRunAhead
              /\ lastFrameCompleted[p] = InitialRunAhead - 1
        /\ localStatus[p] # "PREGAME" => frame[p] # 0
        /\ localStatus[p] = "INGAME" =>
              /\ lastFrameCompleted[p] = lastExecutionFrame[p] - 1
              /\ frame[p] + runAhead[p] <= lastExecutionFrame[p]
        /\ Leaving(p) => lastFrameCompleted[p] = lastExecutionFrame[p]

(* Commands carry unique IDs and sit where their sender may schedule; only *)
(* a player who leaves has given a leave, for his last announced frame.    *)
CommandInv ==
    /\ IsFiniteSet(net)
    /\ \A c \in CommandsIn(net) :
          /\ c.id < nextCommandID[c.playerID]
          /\ InitialRunAhead <= c.executionFrame
          /\ c.type = "PLAYERLEAVE" =>
                /\ Leaving(c.playerID)
                /\ c.executionFrame = lastExecutionFrame[c.playerID] + 1
          /\ c.type # "PLAYERLEAVE" =>
                c.executionFrame <= lastExecutionFrame[c.playerID]
    /\ \A c, d \in CommandsIn(net) : SameCommand(c, d) => c = d
    /\ \A p \in Players : Leaving(p) =>
          \E c \in CommandsIn(net) : c.type = "PLAYERLEAVE" /\ c.playerID = p

(* An announced count is final.                                            *)
AnnounceInv ==
    \A m \in net : m.type = "FRAMEINFO" =>
        /\ m.executionFrame \in InitialRunAhead .. Announced(m.playerID)
        /\ m.value = Cardinality(Scheduled(m.playerID, m.executionFrame))

(* Machines wait for each other, so none runs away from those it waits     *)
(* for, and one that is no longer waited for has left.                     *)
DriftInv ==
    \A p, q \in Players :
        /\ q \in Awaited(p) => frame[p] <= LastWaiting(q)
        /\ q \notin Awaited(p) => Leaving(q) /\ LastWaiting(q) < frame[p]
        /\ p \in Awaited(p) <=> localStatus[p] # "LEFT"
        /\ quitFrame[p][p] = NOT_QUITTING

(* What may still arrive, arrives within the ring.                         *)
ReachInv ==
    \A m \in net : \A q \in m.to :
        q # m.playerID /\ m.executionFrame <= frame[q] + 3 * MaxRunAhead + 3

(* d says of q's frame f what p may know: commands q scheduled for it, and *)
(* the announced count if any. Of its own frames p knows everything.       *)
TrueSlot(p, q, f, d) ==
    /\ d.commandList \subseteq Scheduled(q, f)
    /\ d.commandCount = Cardinality(d.commandList)
    /\ q # p /\ d.frameCommandCount # UNSET =>
          /\ f <= Announced(q)
          /\ d.frameCommandCount = Cardinality(Scheduled(q, f))
    /\ q = p =>
          /\ d.commandList = Scheduled(p, f)
          /\ d.frameCommandCount = d.commandCount

(* The slots of the frames a machine may still run are not mixed up.       *)
RingInv ==
    \A p \in Players : localStatus[p] # "LEFT" =>
        \A q \in managers[p], f \in Window(p) :
            TrueSlot(p, q, f, frameData[p][q][SlotIndex(f)])

CoreInv ==
    /\ ScheduleInv /\ CommandInv /\ AnnounceInv /\ DriftInv /\ ReachInv
    /\ RingInv /\ LockstepAgreement

IInv == TypeOK /\ CoreInv

-----------------------------------------------------------------------------
(* What the invariant gives beyond agreement *)

(* The changes of the run ahead that p has run, and their order.            *)
ChangesRun(p) == {c \in {x[2] : x \in executed[p]} : c.type = "RUNAHEAD"}

NotAfter(d, c) ==
    \/ d.executionFrame < c.executionFrame
    \/ /\ d.executionFrame = c.executionFrame
       /\ d.playerID < c.playerID \/ (d.playerID = c.playerID /\ d.id <= c.id)

(* The run ahead is what the last change that was run made it.              *)
RunAheadInv ==
    \A p \in Players : localStatus[p] # "LEFT" =>
        \/ ChangesRun(p) = {} /\ runAhead[p] = InitialRunAhead
        \/ \E c \in ChangesRun(p) :
              runAhead[p] = c.value /\ \A d \in ChangesRun(p) : NotAfter(d, c)

(* Everybody waits for who plays on, so what is sent to him is for frames   *)
(* not far ahead of his: ReachInv also allows for him who leaves.           *)
NearInv ==
    \A m \in net : \A q \in m.to : ~Leaving(q) =>
        m.executionFrame <= frame[q] + 2 * MaxRunAhead + 1

(* A manager outlives its player's leave by the frames that are kept.       *)
Gone(p, q) ==
    IF q \in managers[p]
    THEN quitFrame[p][q] = LastWaiting(q) + FRAMES_TO_KEEP + 1 /\ frame[p] < quitFrame[p][q]
    ELSE LastWaiting(q) + FRAMES_TO_KEEP + 1 <= frame[p]

GoneInv ==
    \A p, q \in Players : ~Leaving(p) /\ q \notin Awaited(p) => Gone(p, q)

(* The frames run last, which the ring still has.                           *)
Kept(p) == {f \in 1 .. frame[p] - 1 : frame[p] <= f + FRAMES_TO_KEEP}

(* Frame f is not past the leave of q, so it waits for him.                 *)
Waits(q, f) == Leaving(q) => f <= LastWaiting(q)

(* d has all that q scheduled for frame f, and the count if f waits for it. *)
FullSlot(q, f, d) ==
    /\ d.commandList = Scheduled(q, f) /\ d.commandCount = Cardinality(Scheduled(q, f))
    /\ d.frameCommandCount # UNSET \/ Waits(q, f) =>
          d.frameCommandCount = d.commandCount

(* The frames kept behind stay as they were run.                            *)
KeptFull(p) ==
    \A q \in managers[p], f \in Kept(p) :
        FullSlot(q, f, frameData[p][q][SlotIndex(f)])

KeptInv == \A p \in Players : ~Leaving(p) => KeptFull(p)

LapInv == NearInv /\ GoneInv /\ KeptInv

-----------------------------------------------------------------------------
(* What lockstep promises: each machine runs a frame, with all its commands,*)
(* once nobody can schedule more for it (Network::update).                  *)
Agreed == INSTANCE AgreedFrames WITH
    given <- CommandsIn(net),
    sealed <- [p \in Players |-> Announced(p)],
    open <- {p \in Players : ~Leaving(p)},
    log <- executed

ImplementsAgreed == Agreed!Spec

=============================================================================
