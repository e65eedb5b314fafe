------------------------- MODULE DisconnectManager -------------------------
(***************************************************************************)
(* The disconnect screen: DisconnectManager and what it needs of           *)
(* ConnectionManager. When a frame does not become ready the machines show *)
(* the screen, tell each other which frame they wait in, help those behind *)
(* to catch up, and, once they all wait in the same frame, the next packet *)
(* router disconnects whoever timed out or was voted out.                  *)
(*                                                                         *)
(* Lockstep is reduced to heard, how far a machine has everybody's         *)
(* commands (FrameSync has the rest), relaying to the way by the router    *)
(* (PacketRelay). Frames count from one late enough in the game to send    *)
(* frame data. Direct messages arrive late, repeated and in any order.     *)
(***************************************************************************)
EXTENDS Integers, FiniteSets

CONSTANTS
    Players,      \* occupied slots, in the order of the router fallback plan
    RunAhead,     \* how many frames ahead a player's commands are announced
    LastFrame,    \* bound: all stall in this frame, whose commands never come
    Crashers,     \* bound: the players whose machine may stop
    Quitters,     \* bound: the players who may quit on the screen
    Screens,      \* bound: the players who show the screen and follow the others'
    Votes,        \* bound: the pairs <<p, q>> such that p may vote against q
    Unheard       \* bound: the <<p, q>> such that q's keep-alives may not reach p

ASSUME PlayersAssumption ==
    /\ IsFiniteSet(Players) /\ Players \subseteq Nat
    /\ Crashers \subseteq Players /\ Quitters \subseteq Players /\ Screens \subseteq Players
    /\ Votes \subseteq Players \X Players /\ Unheard \subseteq Players \X Players
ASSUME FrameAssumption == RunAhead \in Nat \ {0} /\ LastFrame \in Nat \ {0}

VARIABLES
    running,              \* the machines that still update
    frame,                \* TheGameLogic->getFrame()
    connected,            \* connected[p]: players p has a connection to
    heard,                \* heard[p][q]: up to this frame p has q's commands
    screen,               \* m_disconnectState: the p whose screen is on
    notified,             \* m_haveNotifiedOtherPlayersOfCurrentFrame
    timedOut,             \* timedOut[p]: the q whose m_playerTimeouts ran out
    playerVotes,          \* m_playerVotes: the votes that are TRUE
    disconnectFrames,     \* m_disconnectFrames
    framesReceived,       \* m_disconnectFramesReceived: the q for which it is TRUE
    net                   \* every message of the screen ever sent

game == <<running, frame, connected, heard>>
flags == <<screen, notified, timedOut>>
frames == <<disconnectFrames, framesReceived>>
vars == <<game, flags, playerVotes, frames, net>>

-----------------------------------------------------------------------------
Min(S) == CHOOSE x \in S : \A y \in S : x <= y
Max(S) == CHOOSE x \in S : \A y \in S : x >= y

Vote == [slot : Players, by : Players, frame : Nat]
Message == [type : {"VOTE", "FRAME", "SCREENOFF", "PLAYER", "DATA"},
            from : Players, to : SUBSET Players, frame : Nat, slots : SUBSET Players]

Msg(type, p, to, f, slots) ==
    [type |-> type, from |-> p, to |-> to, frame |-> f, slots |-> slots]

Everybody(p) == connected[p] \union {p}
PacketRouter(p) == Min(Everybody(p))

(* A player's commands are on their way up to RunAhead frames beyond his.   *)
Announced(p) == frame[p] + RunAhead - 1

Init ==
    /\ running = Players
    /\ frame = [p \in Players |-> 1]
    /\ connected = [p \in Players |-> Players \ {p}]
    /\ heard = [p \in Players |-> [q \in Players |-> 0]]
    /\ screen = {} /\ notified = {}
    /\ timedOut = [p \in Players |-> {}]
    /\ playerVotes = [p \in Players |-> {}]
    /\ disconnectFrames = [p \in Players |-> [q \in Players |-> 0]]
    /\ framesReceived = [p \in Players |-> {}]
    /\ net = {}

-----------------------------------------------------------------------------
(* Frames *)

(* Commands come from the router, or from their giver if p or he is it.     *)
Reaches(q, p) ==
    LET r == PacketRouter(q)
    IN  IF r \in {p, q} THEN Announced(q) ELSE heard[r][q]

(* The machine q's commands come from: the router, or q if p or q is it.    *)
SourceOf(q, p) == LET r == PacketRouter(q) IN IF r = p THEN q ELSE r

(* More of q's commands arrive; a player who is disconnected is ignored.    *)
(* What a machine that stopped had sent arrives long before its timeout, so *)
(* nothing is lost by taking it to have come before the stop.               *)
Hear(p, q) ==
    /\ p \in running /\ q \in connected[p] /\ SourceOf(q, p) \in running
    /\ p \in connected[SourceOf(q, p)] /\ heard[p][q] < Reaches(q, p)
    /\ heard[p][q] + 1 < LastFrame
    /\ heard' = [heard EXCEPT ![p][q] = @ + 1]
    /\ UNCHANGED <<running, frame, connected, flags, playerVotes, frames, net>>

Ready(p) == \A q \in connected[p] : heard[p][q] >= frame[p]
Stalls(p) == ~Ready(p) \/ frame[p] = LastFrame

(* resetPlayersVotes: the votes a player cast up to a frame.                *)
VotesAfter(p, by, f) == {v \in playerVotes[p] : ~(v.by = by /\ v.frame <= f)}

(* allCommandsReady turns the screen off, tells everybody and withdraws the *)
(* own votes; the frame runs, and nextFrame starts the timeouts afresh.     *)
RunFrame(p) ==
    /\ p \in running /\ ~Stalls(p)
    /\ frame' = [frame EXCEPT ![p] = @ + 1]
    /\ timedOut' = [timedOut EXCEPT ![p] = {}]
    /\ screen' = screen \ {p}
    /\ IF p \in screen
       THEN /\ net' = net \union {Msg("SCREENOFF", p, connected[p], frame[p], {})}
            /\ playerVotes' = [playerVotes EXCEPT ![p] = {v \in @ : v.by # p}]
            /\ framesReceived' = [framesReceived EXCEPT ![p] = @ \ {p}]
            /\ disconnectFrames' = [disconnectFrames EXCEPT ![p][p] = frame[p]]
       ELSE UNCHANGED <<net, playerVotes, frames>>
    /\ UNCHANGED <<running, connected, heard, notified>>

(* update: no new frame for NetworkDisconnectTime. An update in which the   *)
(* frame is ready would turn the screen off again.                          *)
TurnOnScreen(p) ==
    /\ p \in (running \intersect Screens) \ screen /\ Stalls(p)
    /\ screen' = screen \union {p}
    /\ notified' = notified \ {p}
    /\ timedOut' = [timedOut EXCEPT ![p] = {}]
    /\ UNCHANGED <<game, playerVotes, frames, net>>

-----------------------------------------------------------------------------
(* Timeouts and votes *)

(* No keep-alive of q for NetworkPlayerTimeoutTime: q's machine stopped, or *)
(* does not know p any more, or the network fails between them.             *)
Mute(q, p) == q \notin running \/ p \notin connected[q]
TimeOut(p, q) ==
    /\ p \in running \intersect screen \intersect notified
    /\ q \in connected[p] \ timedOut[p]
    /\ Mute(q, p) \/ <<p, q>> \in Unheard
    /\ timedOut' = [timedOut EXCEPT ![p] = @ \union {q}]
    /\ UNCHANGED <<game, screen, notified, playerVotes, frames, net>>

(* sendKeepAlive and processDisconnectKeepAlive.                            *)
KeepAlive(p, q) ==
    /\ p \in running /\ q \in timedOut[p] \intersect connected[p]
    /\ q \in running \intersect screen /\ p \in connected[q]
    /\ timedOut' = [timedOut EXCEPT ![p] = @ \ {q}]
    /\ UNCHANGED <<game, screen, notified, playerVotes, frames, net>>

VotesAnyFrame(p, q) == {v \in playerVotes[p] : v.slot = q}  \* mutant: old votes too
VotesFor(p, q) == {v \in playerVotes[p] : v.slot = q /\ v.frame = frame[p]}

VotedOut(p, q) == Cardinality(VotesFor(p, q)) >= Cardinality(connected[p])

Out(p) == {q \in connected[p] : q \in timedOut[p] \/ VotedOut(p, q)}
InGame(p) == Everybody(p) \ Out(p)

(* applyDisconnectVote: one vote of each player against each.               *)
WithVote(p, v) ==
    {w \in playerVotes[p] : ~(w.slot = v.slot /\ w.by = v.by)} \union {v}

VoteForPlayerDisconnect(p, q) ==
    LET v == [slot |-> q, by |-> p, frame |-> frame[p]]
    IN  /\ p \in running \intersect screen /\ q \in connected[p] /\ <<p, q>> \in Votes
        /\ ~ \E w \in playerVotes[p] : w.slot = q /\ w.by = p
        /\ playerVotes' = [playerVotes EXCEPT ![p] = WithVote(p, v)]
        /\ net' = net \union {Msg("VOTE", p, connected[p], frame[p], {q})}
        /\ UNCHANGED <<game, flags, frames>>

-----------------------------------------------------------------------------
(* The frame everybody waits in *)

FrameDataTooFar(p, i) ==  \* mutant: the frame he waits in as well
    Msg("DATA", p, {i}, frame[p], Everybody(p) \ {i})

(* sendFrameDataToPlayer: what p has of all others, up to before his frame. *)
FrameData(p, i) == Msg("DATA", p, {i}, frame[p] - 1, Everybody(p) \ {i})

(* updateDisconnectStatus, which notifies before it looks who is out, and   *)
(* notifyOthersOfCurrentFrame, whose message p processes himself as well.   *)
Notify(p) ==
    LET news   == disconnectFrames[p][p] < frame[p]
        behind == {i \in InGame(p) \ {p} :
                     disconnectFrames[p][i] < frame[p] /\ i \in framesReceived[p]}
    IN  /\ p \in running \intersect screen /\ p \notin notified /\ connected[p] # {}
        /\ notified' = notified \union {p}
        /\ net' = net \union {Msg("FRAME", p, connected[p], frame[p], {})}
                     \union (IF news THEN {FrameData(p, i) : i \in behind} ELSE {})
        /\ IF news
           THEN /\ playerVotes' = [playerVotes EXCEPT ![p] = VotesAfter(p, p, frame[p] - 1)]
                /\ disconnectFrames' = [disconnectFrames EXCEPT ![p][p] = frame[p]]
                /\ framesReceived' = [framesReceived EXCEPT ![p] = @ \union {p}]
           ELSE UNCHANGED <<playerVotes, frames>>
        /\ UNCHANGED <<game, screen, timedOut>>

(* processDisconnectFrame: whoever waits in an earlier frame gets the data. *)
ReceiveFrame(p, m) ==
    /\ m.type = "FRAME" /\ disconnectFrames[p][m.from] < m.frame
    /\ playerVotes' = [playerVotes EXCEPT ![p] = VotesAfter(p, m.from, m.frame - 1)]
    /\ disconnectFrames' = [disconnectFrames EXCEPT ![p][m.from] = m.frame]
    /\ framesReceived' = [framesReceived EXCEPT ![p] = @ \union {m.from}]
    /\ net' = IF m.frame < disconnectFrames[p][p]
              THEN net \union {FrameData(p, m.from)} ELSE net
    /\ UNCHANGED <<game, flags>>

(* processDisconnectScreenOff.                                              *)
ReceiveScreenOff(p, m) ==
    /\ m.type = "SCREENOFF" /\ disconnectFrames[p][m.from] <= m.frame
    /\ playerVotes' = [playerVotes EXCEPT ![p] = VotesAfter(p, m.from, m.frame)]
    /\ disconnectFrames' = [disconnectFrames EXCEPT ![p][m.from] = m.frame]
    /\ framesReceived' = [framesReceived EXCEPT ![p] = @ \ {m.from}]
    /\ UNCHANGED <<game, flags, net>>

(* processDisconnectVote: who is out has no vote when it arrives.           *)
ReceiveVote(p, m) ==
    /\ m.type = "VOTE" /\ m.from \in InGame(p)
    /\ \E q \in m.slots :
          playerVotes' = [playerVotes EXCEPT
              ![p] = WithVote(p, [slot |-> q, by |-> m.from, frame |-> m.frame])]
    /\ UNCHANGED <<game, flags, frames, net>>

(* The commands of others that somebody ahead sends.                        *)
ReceiveData(p, m) ==
    /\ m.type = "DATA"
    /\ heard' = [heard EXCEPT ![p] = [q \in Players |->
                   IF q \in m.slots \intersect connected[p] /\ heard[p][q] < m.frame
                   THEN m.frame ELSE heard[p][q]]]
    /\ UNCHANGED <<running, frame, connected, flags, playerVotes, frames, net>>

(* processDisconnectPlayer: whoever is told to drop himself ignores it.     *)
ReceivePlayer(p, m) ==
    /\ m.type = "PLAYER"
    /\ connected' = [connected EXCEPT ![p] = @ \ m.slots]
    /\ UNCHANGED <<running, frame, heard, flags, playerVotes, frames, net>>

(* processNetCommand ignores whoever is disconnected, whatever he says; but *)
(* frame data bears the number of the player whose commands it holds, and   *)
(* it is him that ReceiveData looks for, not the one who sends it.          *)
Heeds(p, m) == m.type = "DATA" \/ m.from \in connected[p]

Receive(p, q) ==
    /\ p \in running
    /\ \E m \in net :
          /\ m.from = q /\ p \in m.to /\ Heeds(p, m) /\ (p \in Screens \/ m.type = "PLAYER")
          /\ \/ ReceiveFrame(p, m) \/ ReceiveData(p, m) \/ ReceivePlayer(p, m)

ReceiveVotes(p, q) ==
    /\ p \in running /\ q \in connected[p]
    /\ \E m \in net :
          /\ m.from = q /\ p \in m.to /\ p \in Screens
          /\ ReceiveVote(p, m) \/ ReceiveScreenOff(p, m)

-----------------------------------------------------------------------------
(* Disconnecting *)

AnyFrame(p) == TRUE  \* mutant: who is where does not matter
AllOnSameFrame(p) ==
    \A i \in InGame(p) \ {p} :
        i \in framesReceived[p] /\ disconnectFrames[p][i] = disconnectFrames[p][p]

(* isLocalPlayerNextPacketRouter: the first in the plan who is not out.     *)
FirstConnected(p) == p = PacketRouter(p)  \* mutant: the router, out or not
NextPacketRouter(p) == p = Min(InGame(p))

(* updateDisconnectStatus: the next router tells everybody to drop i, with  *)
(* the latest frame he knows of, and drops him.                             *)
Disconnect(p, i) ==
    /\ p \in running \intersect screen \intersect notified
    /\ i \in Out(p) /\ AllOnSameFrame(p) /\ NextPacketRouter(p)
    /\ net' = net \union {Msg("PLAYER", p, connected[p],
                              Max({disconnectFrames[p][q] : q \in Players}), {i})}
    /\ connected' = [connected EXCEPT ![p] = @ \ {i}]
    /\ UNCHANGED <<running, frame, heard, flags, playerVotes, frames>>

(* quitGame, from the screen: he says goodbye and is gone.                  *)
QuitGame(p) ==
    /\ p \in running \intersect screen \intersect Quitters
    /\ running' = running \ {p}
    /\ net' = net \union {Msg("PLAYER", p, connected[p], frame[p], {p})}
    /\ UNCHANGED <<frame, connected, heard, flags, playerVotes, frames>>

(* A machine stops.                                                         *)
Crash(p) ==
    /\ p \in running \intersect Crashers
    /\ running' = running \ {p}
    /\ UNCHANGED <<frame, connected, heard, flags, playerVotes, frames, net>>

-----------------------------------------------------------------------------
Next ==
    \/ \E p \in Players :
          RunFrame(p) \/ TurnOnScreen(p) \/ Notify(p) \/ QuitGame(p) \/ Crash(p)
    \/ \E p, q \in Players :
          \/ Hear(p, q) \/ TimeOut(p, q) \/ KeepAlive(p, q) \/ Disconnect(p, q)
          \/ VoteForPlayerDisconnect(p, q) \/ Receive(p, q) \/ ReceiveVotes(p, q)

Spec == Init /\ [][Next]_vars

(* Every machine that runs updates, and what it sends is repeated until it  *)
(* arrives; nobody has to vote, to quit or to stop.                         *)
Fairness ==
    /\ \A p \in Players :
          WF_vars(RunFrame(p)) /\ WF_vars(TurnOnScreen(p)) /\ WF_vars(Notify(p))
    /\ \A p, q \in Players :
          /\ WF_vars(Hear(p, q)) /\ WF_vars(TimeOut(p, q) /\ Mute(q, p))
          /\ WF_vars(Disconnect(p, q)) /\ WF_vars(Receive(p, q) /\ q \in running)

FairSpec == Spec /\ Fairness

-----------------------------------------------------------------------------
(* Properties *)

Stayers == Players \ (Crashers \union Quitters)

(* Every variable keeps its type, and nobody has commands of a player that  *)
(* the player has not given.                                                *)
TypeOK ==
    /\ running \subseteq Players
    /\ frame \in [Players -> 1 .. LastFrame]
    /\ connected \in [Players -> SUBSET Players]
    /\ heard \in [Players -> [Players -> 0 .. LastFrame - 1]]
    /\ \A p, q \in Players : heard[p][q] <= Announced(q)
    /\ screen \subseteq Players /\ notified \subseteq Players
    /\ timedOut \in [Players -> SUBSET Players]
    /\ \A p \in Players : playerVotes[p] \subseteq Vote
    /\ disconnectFrames \in [Players -> [Players -> 0 .. LastFrame]]
    /\ framesReceived \in [Players -> SUBSET Players]
    /\ net \subseteq Message

(* p puts q out of the game with this step.                                 *)
Decides(p, q) ==
    /\ q \in connected[p] \ connected'[p]
    /\ \E m \in net' \ net : m.type = "PLAYER" /\ m.from = p /\ m.slots = {q}

(* Who disconnects somebody and counts on a player to play on without him   *)
(* does not leave that player behind: he has run every frame up to this one *)
(* as well, whatever messages crossed.                                      *)
NobodyLeftBehind ==
    [][\A p, q \in Players : Decides(p, q) =>
         \A i \in InGame(p) : frame[i] >= frame[p]]_vars

(* The first player to go, if he still answers, is put out only after all   *)
(* others cast their vote against him in the frame they are stuck in.       *)
VotedOutByAll ==
    [][\A p, q \in Players :
         Decides(p, q) /\ q \notin timedOut[p] /\ Everybody(p) = Players =>
         \A i \in Everybody(p) \ {q} :
             \E m \in net : /\ m.type = "VOTE" /\ m.from = i
                           /\ m.slots = {q} /\ m.frame = frame[p]]_vars

(* Whoever is told to drop a player is in the frame the message names (the  *)
(* assertion in processDisconnectPlayer).                                   *)
DroppedInTheRightFrame ==
    [][\A p, q \in Players :
         q \in connected[p] \ connected'[p] /\ ~Decides(p, q) =>
             \E m \in net : /\ m.type = "PLAYER" /\ p \in m.to
                           /\ m.slots = {q} /\ m.frame = frame[p]]_vars

(* A machine that stops holds the others up only for a while.               *)
GameGoesOn == <>(\A p \in Stayers : frame[p] = LastFrame)

=============================================================================
