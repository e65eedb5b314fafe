---------------------------- MODULE PacketRelay ----------------------------
(***************************************************************************)
(* How a command reaches every player: Connection and the relaying part of *)
(* ConnectionManager. A player sends his command to the packet router with *)
(* the mask of those it is for, the router relays it, everybody answers    *)
(* with an ack, and the sender keeps the command pending until the last    *)
(* ack is in, to send it again should the router go away.                  *)
(*                                                                         *)
(* The network loses, repeats, delays and reorders. What is ever sent      *)
(* stays in sent, acks or disconnects: a lost message is one never taken   *)
(* from there, and a retry sends what is there already. An update of the   *)
(* ConnectionManager ends in doSend, so queueing sends.                    *)
(***************************************************************************)
EXTENDS Integers, FiniteSets

CONSTANTS
    Players,        \* occupied slots; slot 0, the host, is the first router
    MaxCommands,    \* bound: game commands each player may give
    Crashers,       \* bound: the players whose machine may stop
    Leavers,        \* bound: the players who may leave in the game
    Quitters        \* bound: the players who may quit on the disconnect screen

ASSUME PlayersAssumption == IsFiniteSet(Players) /\ Players \subseteq Nat /\ 0 \in Players
ASSUME BoundAssumption ==
    /\ MaxCommands \in [Players -> Nat]
    /\ Crashers \subseteq Players /\ Leavers \subseteq Players /\ Quitters \subseteq Players

VARIABLES
    running,        \* the machines that still update
    connections,    \* connections[p]: the q whose m_connections[q] is not null
    quitting,       \* quitting[p]: those of them that are quitting
    fallback,       \* fallback[p]: the slots in m_packetRouterFallback
    queue,          \* queue[p]: packets not yet acked, of all connections
    pending,        \* pending[p]: m_pendingCommands
    relayed,        \* relayed[p]: m_relayedCommands, with the acks awaited
    received,       \* received[p]: commands put into p's frame data
    sent,           \* every packet ever sent
    acks,           \* every ack ever sent
    disconnects     \* every NETCOMMANDTYPE_DISCONNECTPLAYER ever sent

topology == <<running, connections, quitting, fallback>>
lists == <<queue, pending, relayed>>
network == <<sent, acks, disconnects>>
vars == <<topology, lists, received, network>>

-----------------------------------------------------------------------------
(* Commands, packets and lists *)

Command == [type : {"GAMECOMMAND", "PLAYERLEAVE", "DESTROYPLAYER"},
            playerID : Players, id : Nat]
Packet == [command : Command, to : Players, relay : SUBSET Players]
Ack == [stage : {"1", "2", "BOTH"}, command : Command, playerID : Players,
        to : Players, relay : SUBSET Players]
DisconnectMsg == [playerID : Players, to : Players, slot : Players]

Min(S) == CHOOSE x \in S : \A y \in S : x <= y

NoRouter == -1

(* The fallback plan is filled in slot order and the router is its first.  *)
PacketRouter(p) == IF fallback[p] = {} THEN NoRouter ELSE Min(fallback[p])

Open(p) == connections[p] \ quitting[p]

Others(p) == Players \ {p}

(* A connection's list holds a command once, with its first relay mask.    *)
AddedTo(list, packets) ==
    list \union {e \in packets :
                    ~ \E x \in list : x.to = e.to /\ x.command = e.command}

DirectSends(p, c, relay) ==
    {[command |-> c, to |-> q, relay |-> {q}] : q \in relay \intersect Open(p)}

(* sendLocalCommand: by way of the router, or to everybody when this is it.*)
GoesToRouter(p) == PacketRouter(p) \in connections[p]
LocalSends(p, c, relay) ==
    IF GoesToRouter(p)
    THEN {[command |-> c, to |-> q, relay |-> relay \ {p}] :
             q \in {PacketRouter(p)} \intersect Open(p)}
    ELSE DirectSends(p, c, relay)

(* Commands sent by way of the router are kept until the last ack is in.   *)
KeptPending(p, c) == IF GoesToRouter(p) THEN {c} ELSE {}

(* The commands p has given: a copy goes into his own frame data. IDs      *)
(* count up (GenerateNextCommandID).                                       *)
Given(p) == {c \in received[p] : c.playerID = p}
GivenOf(p, type) == {c \in Given(p) : c.type = type}
NewCommand(p, type) == [type |-> type, playerID |-> p, id |-> Cardinality(Given(p))]

-----------------------------------------------------------------------------
Init ==
    /\ running = Players
    /\ connections = [p \in Players |-> Others(p)]
    /\ quitting = [p \in Players |-> {}]
    /\ fallback = [p \in Players |-> Players]
    /\ queue = [p \in Players |-> {}]
    /\ pending = [p \in Players |-> {}]
    /\ relayed = [p \in Players |-> {}]
    /\ received = [p \in Players |-> {}]
    /\ sent = {} /\ acks = {} /\ disconnects = {}

HasLeft(p) == p \notin fallback[p]

(* Network::update hands a command over; the last one of a player is his    *)
(* PLAYERLEAVE (handleLocalPlayerLeaving).                                  *)
SendCommand(p, c) ==
    /\ p \in running /\ GivenOf(p, "PLAYERLEAVE") = {}
    /\ queue' = [queue EXCEPT ![p] = AddedTo(@, LocalSends(p, c, Players))]
    /\ pending' = [pending EXCEPT ![p] = @ \union KeptPending(p, c)]
    /\ received' = [received EXCEPT ![p] = @ \union {c}]
    /\ sent' = sent \union LocalSends(p, c, Players)
    /\ UNCHANGED <<topology, relayed, acks, disconnects>>

SendGameCommand(p) ==
    /\ Cardinality(GivenOf(p, "GAMECOMMAND")) < MaxCommands[p]
    /\ SendCommand(p, NewCommand(p, "GAMECOMMAND"))

SendPlayerLeave(p) ==
    /\ p \in Leavers
    /\ SendCommand(p, NewCommand(p, "PLAYERLEAVE"))

(* ackCommand: stage 1 while others still wait for this machine's relay,    *)
(* to the machine's own router, or to the sender if it is the router.       *)
AckAtOnce(p, e) == "BOTH"                     \* mutant: forgets the relay
AckStage(p, e) == IF e.relay \intersect Open(p) = {} THEN "BOTH" ELSE "1"

AckTo(p, e) ==
    IF PacketRouter(p) \in connections[p] THEN {PacketRouter(p)}
    ELSE IF PacketRouter(p) = p THEN {e.command.playerID} ELSE {}

AcksFor(p, e) ==
    {[stage |-> AckStage(p, e), command |-> e.command, playerID |-> p,
      to |-> q, relay |-> {q}] : q \in AckTo(p, e) \intersect Open(p)}

WholeMask(p, e) == e.relay                      \* mutant: himself and those who quit too
Awaited(p, e) == e.relay \intersect Open(p)

(* doRelay takes a command from a packet: ack it, drop it if its giver is   *)
(* no longer in the game (processNetCommand), else keep it and relay it to  *)
(* the open connections of its mask (sendRemoteCommand).                    *)
ReceiveCommand(p, e) ==
    LET c == e.command
        relays == DirectSends(p, c, e.relay)
        masks == {[command |-> c, relay |-> Awaited(p, e)]}
    IN  /\ p \in running /\ e.to = p
        /\ acks' = acks \union AcksFor(p, e)
        /\ IF c.playerID \in connections[p] \union {p}
           THEN /\ received' = [received EXCEPT ![p] =
                       IF p \in e.relay THEN @ \union {c} ELSE @]
                /\ queue' = [queue EXCEPT ![p] = AddedTo(@, relays)]
                /\ sent' = sent \union relays
                /\ relayed' = [relayed EXCEPT ![p] =
                       IF relays = {} \/ \E x \in @ : x.command = c
                       THEN @ ELSE @ \union masks]
           ELSE UNCHANGED <<received, queue, sent, relayed>>
        /\ UNCHANGED <<topology, pending, disconnects>>

(* processAckStage1: the packet need not be sent to that player again.      *)
AfterStage1(p, a) ==
    IF a.stage = "2" \/ a.playerID \notin connections[p] THEN queue[p]
    ELSE {e \in queue[p] : ~(e.to = a.playerID /\ e.command = a.command)}

(* processAckStage2: the sender forgets the command; the router crosses the *)
(* player off and tells the sender when everybody is.                       *)
StillAwaited(p, a) ==
    {[x EXCEPT !.relay = @ \ {a.playerID}] :
        x \in {y \in relayed[p] : y.command = a.command}}

KeepCrossedOff(p, a) == StillAwaited(p, a)      \* mutant: never finished
NotCrossedOff(p, a) == {x \in StillAwaited(p, a) : x.relay # {}}

(* The stage 2 ack is built without a player, which leaves slot 0.          *)
Stage2Acks(p, a) ==
    IF \E x \in StillAwaited(p, a) : x.relay = {}
    THEN {[stage |-> "2", command |-> a.command, playerID |-> 0, to |-> e.to,
           relay |-> e.relay] : e \in LocalSends(p, a.command, {a.command.playerID})}
    ELSE {}

Forwarded(p, a) == {[a EXCEPT !.to = q, !.relay = {q}] : q \in a.relay \intersect Open(p)}

ReceiveAck(p, a) ==
    /\ p \in running /\ a.to = p
    /\ queue' = [queue EXCEPT ![p] = AfterStage1(p, a)]
    /\ IF a.stage = "1"
       THEN /\ acks' = acks \union Forwarded(p, a)
            /\ UNCHANGED <<pending, relayed>>
       ELSE /\ pending' = [pending EXCEPT ![p] = @ \ {a.command}]
            /\ relayed' = [relayed EXCEPT ![p] =
                  {x \in @ : x.command # a.command} \union NotCrossedOff(p, a)]
            /\ acks' = acks \union Stage2Acks(p, a) \union Forwarded(p, a)
    /\ UNCHANGED <<topology, received, sent, disconnects>>

-----------------------------------------------------------------------------
(* Players who go away *)

(* ConnectionManager::disconnectPlayer. A quitting connection stays until   *)
(* its list is empty; any other goes at once, with its list.                *)
Deleted(p, slot) == {slot} \ quitting[p]
KeepInPlan(p, slot) == fallback[p]              \* mutant: still in the plan
PlanWithout(p, slot) == fallback[p] \ {slot}

ForgetPlayer(p, slot) ==
    /\ connections' = [connections EXCEPT ![p] = @ \ Deleted(p, slot)]
    /\ fallback' = [fallback EXCEPT ![p] = PlanWithout(p, slot)]

QueueWithout(p, slots) == {e \in queue[p] : e.to \notin slots}

(* resendPendingCommands, by the new router, when the old one went away.    *)
ResendNothing(p, slot) == {}                    \* mutant: nothing is sent again
Resent(p, slot) == IF slot = PacketRouter(p) THEN pending[p] ELSE {}

ResendPending(p, slot, new, kept) ==
    LET packets == UNION {LocalSends(p, c, Players)' : c \in Resent(p, slot) \union new}
    IN  /\ queue' = [queue EXCEPT ![p] = AddedTo(kept, packets)]
        /\ pending' = [pending EXCEPT ![p] =
               @ \union UNION {KeptPending(p, c)' : c \in new}]
        /\ sent' = sent \union packets

(* DisconnectManager::updateDisconnectStatus: the next router among those   *)
(* who have not timed out tells the others, disconnects the player and has  *)
(* his units destroyed. Only machines that stopped time out here.           *)
TimedOut(p) == Open(p) \ running

DisconnectTimedOut(p, slot) ==
    LET destroy == NewCommand(p, "DESTROYPLAYER")
    IN  /\ p \in running /\ ~HasLeft(p) /\ TimedOut(p) # {}
        /\ slot = Min(TimedOut(p)) /\ p = Min(fallback[p] \ TimedOut(p))
        /\ disconnects' = disconnects \union
              {[playerID |-> p, to |-> q, slot |-> slot] : q \in Open(p)}
        /\ UNCHANGED <<running, quitting, relayed, acks>>
        /\ ForgetPlayer(p, slot)
        /\ ResendPending(p, slot, {destroy}, QueueWithout(p, Deleted(p, slot)))
        /\ received' = [received EXCEPT ![p] = @ \union {destroy}]

(* processDisconnectPlayer; nobody disconnects himself.                     *)
ReceiveDisconnect(p, d) ==
    /\ p \in running /\ d.to = p
    /\ d.playerID \in connections[p] /\ d.slot # p
    /\ UNCHANGED <<running, quitting, relayed, received, acks, disconnects>>
    /\ ForgetPlayer(p, d.slot)
    /\ ResendPending(p, d.slot, {}, QueueWithout(p, Deleted(p, d.slot)))

(* Bound: a player goes away in one way only.                               *)
PlayOn(p) == p \in running /\ GivenOf(p, "PLAYERLEAVE") = {}

(* quitGame on the disconnect screen: the others are told once.             *)
QuitGame(p) ==
    /\ p \in Quitters /\ PlayOn(p)
    /\ running' = running \ {p}
    /\ disconnects' = disconnects \union
          {[playerID |-> p, to |-> q, slot |-> p] : q \in Open(p)}
    /\ UNCHANGED <<connections, quitting, fallback, lists, received, sent, acks>>

Crash(p) ==
    /\ p \in Crashers /\ PlayOn(p)
    /\ running' = running \ {p}
    /\ UNCHANGED <<connections, quitting, fallback, lists, received, network>>

(* processPlayerLeave of another player, in the frame of his leave, which   *)
(* each machine reaches in its own time.                                    *)
ExecuteOthersLeave(p, slot) ==
    /\ p \in running /\ ~HasLeft(p) /\ slot \in fallback[p] \ {p}
    /\ \E c \in received[p] : c.type = "PLAYERLEAVE" /\ c.playerID = slot
    /\ quitting' = [quitting EXCEPT ![p] = @ \union ({slot} \intersect connections[p])]
    /\ connections' = connections
    /\ fallback' = [fallback EXCEPT ![p] = PlanWithout(p, slot)]
    /\ ResendPending(p, slot, {}, queue[p])
    /\ UNCHANGED <<running, relayed, received, acks, disconnects>>

(* processPlayerLeave of the local player: what others gave is not sent any *)
(* more, the rest while the connections last.                               *)
ExecuteOwnLeave(p) ==
    /\ p \in running /\ ~HasLeft(p) /\ GivenOf(p, "PLAYERLEAVE") # {}
    /\ queue' = [queue EXCEPT ![p] = {e \in @ : e.command.playerID = p}]
    /\ quitting' = [quitting EXCEPT ![p] = connections[p]]
    /\ fallback' = [fallback EXCEPT ![p] = PlanWithout(p, p)]
    /\ UNCHANGED <<running, connections, pending, relayed, received, network>>

(* ConnectionManager::update deletes a quitting connection when its list is *)
(* empty, and doSend empties the list after MaxQuitFlushTime, fifteen       *)
(* retries: long enough for what a machine that plays on has to hear.       *)
FlushTimeOver(p, q) ==
    \A e \in queue[p] : e.to = q /\ PlayOn(q) => e.command \in received[q]

DropConnection(p, q) ==
    /\ p \in running /\ q \in quitting[p] /\ FlushTimeOver(p, q)
    /\ connections' = [connections EXCEPT ![p] = @ \ {q}]
    /\ quitting' = [quitting EXCEPT ![p] = @ \ {q}]
    /\ queue' = [queue EXCEPT ![p] = QueueWithout(p, {q})]
    /\ UNCHANGED <<running, fallback, pending, relayed, received, network>>

Next ==
    \/ \E p \in Players :
          \/ SendGameCommand(p) \/ SendPlayerLeave(p)
          \/ \E e \in sent : ReceiveCommand(p, e)
          \/ \E a \in acks : ReceiveAck(p, a)
          \/ \E d \in disconnects : ReceiveDisconnect(p, d)
          \/ QuitGame(p) \/ Crash(p) \/ ExecuteOwnLeave(p)
    \/ \E p, q \in Players :
          \/ DisconnectTimedOut(p, q) \/ ExecuteOthersLeave(p, q) \/ DropConnection(p, q)

Spec == Init /\ [][Next]_vars

(* A machine that runs sends what is in its lists again and again           *)
(* (Connection::doSend), and so also the disconnect it decided; the game    *)
(* goes on to the frame of a leave (FrameSync). A packet sent again is      *)
(* acked again. Nothing makes a lost ack of stage 2 arrive, nor the goodbye *)
(* of a player who quit.                                                    *)
Retried(e) == \E q \in running : e \in queue[q]

AckedAgain(p, a) ==
    /\ a.stage # "2" /\ a.playerID \in running
    /\ \E e \in queue[p] : e.to = a.playerID /\ e.command = a.command

Fairness ==
    \A p, q \in Players :
        /\ \A n \in 0 .. MaxCommands[q] + Cardinality(Players) :
              WF_vars(\E e \in sent :
                  /\ Retried(e) /\ e.command.playerID = q /\ e.command.id = n
                  /\ ReceiveCommand(p, e))
        /\ \A n \in 0 .. MaxCommands[q] + Cardinality(Players) :
              WF_vars(\E a \in acks :
                  /\ AckedAgain(p, a) /\ a.command.playerID = q /\ a.command.id = n
                  /\ ReceiveAck(p, a))
        /\ WF_vars(\E d \in disconnects :
               d.playerID \in running /\ d.slot = q /\ ReceiveDisconnect(p, d))
        /\ WF_vars(DisconnectTimedOut(p, q))
        /\ WF_vars(ExecuteOthersLeave(p, q))

FairSpec == Spec /\ Fairness

-----------------------------------------------------------------------------
(* Properties *)

(* Every variable has its type; a command stays in the relayed list only    *)
(* while an ack is awaited (processAckStage2).                              *)
TypeOK ==
    /\ running \subseteq Players
    /\ connections \in [Players -> SUBSET Players]
    /\ quitting \in [Players -> SUBSET Players]
    /\ fallback \in [Players -> SUBSET Players]
    /\ queue \in [Players -> SUBSET Packet]
    /\ pending \in [Players -> SUBSET Command]
    /\ relayed \in [Players ->
           SUBSET [command : Command, relay : (SUBSET Players) \ {{}}]]
    /\ received \in [Players -> SUBSET Command]
    /\ sent \subseteq Packet /\ acks \subseteq Ack /\ disconnects \subseteq DisconnectMsg

(* p and q play on together: neither is about to leave the other.           *)
Together(p, q) == PlayOn(p) /\ PlayOn(q) /\ q \in Open(p) /\ p \in Open(q)

HeldFor(r, c, q) == \E e \in queue[r] : e.to = q /\ e.command = c

(* The sender keeps a command until everybody has it: while somebody he     *)
(* plays on with lacks it, it is pending or in the list for him             *)
(* (processAckStage2 and Connection::processAck remove nothing too early).  *)
(* That is so while the first router plays on, whoever else goes away, and  *)
(* when he went if a third player is all there is: of two who remain        *)
(* besides the sender one can ack, as the next router and for both, what he *)
(* alone was sent.                                                          *)
AcksMeanAll(p, q) == PlayOn(0) \/ Players \subseteq {0, p, q}

KeptUntilHeard ==
    \A p, q \in Players : Together(p, q) /\ AcksMeanAll(p, q) =>
        \A c \in Given(p) \ received[q] : c \in pending[p] \/ HeldFor(p, c, q)

(* The players nothing happens to, and what they promise one another, so    *)
(* long as nobody says goodbye by quitGame, which is sent only once:        *)
Stayers == Players \ (Crashers \union Leavers \union Quitters)
NobodyQuit == \A d \in disconnects : d.slot # d.playerID

(* every command of one is heard by the others, whatever the router did,    *)
EverybodyHears ==
    \A p \in Stayers : \A n \in 0 .. MaxCommands[p] :
        (\E c \in Given(p) : c.id = n) ~>
            (NobodyQuit =>
                \A q \in Stayers : \E c \in received[q] : c.playerID = p /\ c.id = n)

(* and in the end they all send by way of the same, running router.         *)
RoutersAgree ==
    <>[](NobodyQuit => \A p, q \in Stayers :
            PacketRouter(p) = PacketRouter(q) /\ PacketRouter(p) \in running)

(* The first router awaits no ack that nobody sends, his own among them: so *)
(* long as he and whom a relayed command still awaits play on, it leaves    *)
(* his list (processAckStage2), whichever copies and acks are lost.         *)
RelayedIsFinished ==
    \A q \in Players : \A n \in 0 .. MaxCommands[q] :
        LET Awaiting == PlayOn(0) /\ \E x \in relayed[0] :
                /\ x.command.playerID = q /\ x.command.id = n
                /\ \A r \in x.relay : PlayOn(r)
        IN  Awaiting ~> ~Awaiting

=============================================================================
