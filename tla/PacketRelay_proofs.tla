-------------------------- MODULE PacketRelay_proofs --------------------------
(***************************************************************************)
(* Why the last ack is the last: whoever is left out of a relay mask is    *)
(* about to go, or has the command. And why a sender lets nothing go too   *)
(* early so long as the first router is there: nobody else acks for        *)
(* others. For any number of players, whatever is lost, repeated or        *)
(* reordered, and whoever stops, leaves or quits.                          *)
(***************************************************************************)
EXTENDS PacketRelay, FiniteSetTheorems, WellFoundedInduction, TLAPS

Giver(x) == x.command.playerID
EverybodyElse(x) == Players \ {Giver(x)}

(* Everybody who plays on has the command.                                  *)
HeardByAll(c) == \A q \in Players : PlayOn(q) => c \in received[q]

-----------------------------------------------------------------------------
(* The inductive invariant *)

TypeInv == TypeOK /\ \A p \in Players : IsFiniteSet(received[p])

(* Only who stopped, left or quit is given up, and a player who has not     *)
(* left the game himself is connected to all who play on.                   *)
TopologyInv ==
    /\ \A p \in Players :
          /\ p \notin connections[p] /\ quitting[p] \subseteq connections[p]
          /\ Open(p) \subseteq fallback[p]
          /\ HasLeft(p) => Open(p) = {} /\ GivenOf(p, "PLAYERLEAVE") # {}
    /\ \A p, q \in Players : q # p /\ ~HasLeft(p) /\ PlayOn(q) => q \in Open(p)
    /\ \A d \in disconnects : d.slot \notin running

(* Nobody makes commands up.                                                *)
GivenInv ==
    /\ \A p \in Players : \A c \in received[p] : c \in received[c.playerID]
    /\ \A p \in Players : pending[p] \subseteq Given(p)
    /\ \A p \in Players : \A x \in relayed[p] : x.command \in received[Giver(x)]
    /\ \A e \in sent : e.command \in received[Giver(e)]

(* A packet is for its recipient alone or for everybody but its giver. The  *)
(* first router is sent his alone only by another router, and while he      *)
(* plays on nobody else is sent a packet for everybody.                     *)
PacketRule(e) ==
    /\ e.to # Giver(e) /\ e.to \in e.relay
    /\ e.relay = {e.to} \/ e.relay = EverybodyElse(e)
    /\ e.to = 0 /\ e.relay # EverybodyElse(e) =>
          \E r \in Players \ {0, Giver(e)} : e.command \in received[r]
    /\ PlayOn(0) => e.relay = IF e.to = 0 THEN EverybodyElse(e) ELSE {e.to}
SentInv == \A e \in sent : PacketRule(e)

(* Who acks has the command; a last ack means that everybody has it, and so *)
(* does an ack of both stages from the first router.                        *)
AckRule(a) ==
    /\ a.stage # "2" => a.relay = {a.to} /\ a.playerID # Giver(a)
    /\ PlayOn(Giver(a)) =>
          IF a.stage = "2" THEN HeardByAll(a.command)
          ELSE a.command \in received[a.playerID]
AckInv == \A a \in acks : AckRule(a)

BothRule(a) ==
    a.stage = "BOTH" /\ PlayOn(Giver(a)) =>
        /\ PlayOn(0) /\ Giver(a) # 0 /\ a.to = Giver(a) => HeardByAll(a.command)
        /\ a.playerID = 0 =>
              \A q \in Players : PlayOn(q) /\ Players \subseteq {0, Giver(a), q} =>
                  a.command \in received[q]
BothInv == \A a \in acks : BothRule(a)

(* Who lacks a command that was relayed is still in its mask.               *)
RelayRule(x) ==
    PlayOn(Giver(x)) =>
        \A q \in Players : PlayOn(q) => x.command \in received[q] \/ q \in x.relay
RelayedInv == \A r \in Players : \A x \in relayed[r] : RelayRule(x)

(* The first router sends his own commands to everybody himself.            *)
PendingInv == PlayOn(0) => pending[0] = {}

RelayInv ==
    /\ TypeInv /\ TopologyInv /\ GivenInv /\ SentInv /\ AckInv /\ BothInv
    /\ RelayedInv /\ PendingInv /\ KeptUntilHeard

-----------------------------------------------------------------------------
(* Operators *)

(* The first of some players.                                               *)
LEMMA MinIsFirst ==
    ASSUME NEW S, S \subseteq Players, S # {}
    PROVE  Min(S) \in S /\ \A y \in S : Min(S) <= y
<1>1. S \subseteq Nat
  BY PlayersAssumption
<1>2. PICK n \in S : \A k \in S : <<k, n>> \notin OpToRel(<, Nat)
  BY <1>1, NatLessThanWellFounded, WFMin
<1>3. \A k \in S : ~ (k < n)
  BY <1>1, <1>2 DEF OpToRel
<1>4. n \in Nat /\ \A k \in S : k \in Nat
  BY <1>1
<1>5. \A k \in S : n <= k
  BY <1>3, <1>4
<1> QED
  BY <1>2, <1>5 DEF Min

(* The first router is the router of all plans he is in, and whoever is     *)
(* connected to the router has him in the plan.                             *)
LEMMA PlanRouter ==
    ASSUME NEW plan \in SUBSET Players
    PROVE  LET router == IF plan = {} THEN NoRouter ELSE Min(plan)
           IN  (router \in Players => router \in plan) /\ (0 \in plan => router = 0)
<1> DEFINE router == IF plan = {} THEN NoRouter ELSE Min(plan)
<1>1. Players \subseteq Nat
  BY PlayersAssumption
<1>2. CASE plan = {}
  BY <1>1, <1>2 DEF NoRouter
<1>3. CASE plan # {}
  <2>1. Min(plan) \in plan /\ \A y \in plan : Min(plan) <= y
    BY <1>3, MinIsFirst
  <2>2. Min(plan) \in Nat
    BY <1>1, <2>1
  <2>3. 0 \in plan => Min(plan) <= 0
    BY <2>1
  <2> QED
    BY <1>3, <2>1, <2>2, <2>3
<1> QED
  BY <1>2, <1>3

LEMMA RouterInPlan ==
    ASSUME NEW p \in Players
    PROVE  /\ TypeInv =>
                 /\ PacketRouter(p) \in Players => PacketRouter(p) \in fallback[p]
                 /\ 0 \in fallback[p] => PacketRouter(p) = 0
           /\ TypeInv' =>
                 /\ PacketRouter(p)' \in Players => PacketRouter(p)' \in fallback'[p]
                 /\ 0 \in fallback'[p] => PacketRouter(p)' = 0
<1>1. TypeInv => fallback[p] \in SUBSET Players
  BY DEF TypeInv, TypeOK
<1>2. TypeInv' => fallback'[p] \in SUBSET Players
  BY DEF TypeInv, TypeOK
<1> QED
  BY <1>1, <1>2, PlanRouter DEF PacketRouter

(* What is sent by way of the router, or to everybody, now or after a step. *)
LEMMA LocalSendsForm ==
    ASSUME NEW p \in Players, NEW c, NEW relay
    PROVE  /\ \A e \in LocalSends(p, c, relay) :
                 /\ e = [command |-> c, to |-> e.to, relay |-> e.relay] /\ e.to \in Open(p)
                 /\ IF GoesToRouter(p) THEN e.to = PacketRouter(p) /\ e.relay = relay \ {p}
                    ELSE e.to \in relay /\ e.relay = {e.to}
           /\ \A e \in LocalSends(p, c, relay)' :
                 /\ e = [command |-> c, to |-> e.to, relay |-> e.relay] /\ e.to \in Open(p)'
                 /\ IF GoesToRouter(p)' THEN e.to = PacketRouter(p)' /\ e.relay = relay \ {p}
                    ELSE e.to \in relay /\ e.relay = {e.to}
BY DEF LocalSends, DirectSends

LEMMA DirectSendsForm ==
    ASSUME NEW p \in Players, NEW c, NEW relay, NEW e \in DirectSends(p, c, relay)
    PROVE  /\ e = [command |-> c, to |-> e.to, relay |-> {e.to}]
           /\ e.to \in relay /\ e.to \in Open(p)
BY DEF DirectSends

(* What becomes of a list to which packets are added.                       *)
LEMMA AddedKeeps ==
    ASSUME NEW list, NEW packets
    PROVE  /\ list \subseteq AddedTo(list, packets)
           /\ AddedTo(list, packets) \subseteq list \union packets
           /\ \A e \in packets : \E x \in AddedTo(list, packets) :
                 x.to = e.to /\ x.command = e.command
BY DEF AddedTo

LEMMA NewCommandType ==
    ASSUME TypeInv, NEW p \in Players, NEW type \in {"GAMECOMMAND", "PLAYERLEAVE", "DESTROYPLAYER"}
    PROVE  NewCommand(p, type) \in Command /\ NewCommand(p, type).playerID = p
<1>1. IsFiniteSet(Given(p))
  BY FS_Subset DEF TypeInv, Given
<1>2. Cardinality(Given(p)) \in Nat
  BY <1>1, FS_CardinalityType
<1> QED
  BY <1>2 DEF NewCommand, Command

-----------------------------------------------------------------------------
(* The steps *)

(* p sends what he has just given, and what is pending again.               *)
Resends(p, kept, new, packets) ==
    /\ queue' = [queue EXCEPT ![p] = AddedTo(kept, packets)]
    /\ sent' = sent \union packets
    /\ \A e \in packets : /\ e.command \in pending[p] \union new
                         /\ e \in LocalSends(p, e.command, Players)'
    /\ \A c \in new : LocalSends(p, c, Players)' \subseteq packets
    /\ pending' = [pending EXCEPT ![p] = @ \union (IF GoesToRouter(p)' THEN new ELSE {})]

(* He gives a command, or gives up a player who does not play on.           *)
Dispatches(p, new) ==
    /\ p \in running /\ running' = running
    /\ new \subseteq Command /\ IsFiniteSet(new) /\ \A c \in new : c.playerID = p
    /\ received' = [received EXCEPT ![p] = @ \union new]
    /\ \E kept, packets :
          /\ Resends(p, kept, new, packets)
          /\ kept \subseteq queue[p] /\ \A e \in queue[p] : PlayOn(e.to) => e \in kept
    /\ UNCHANGED <<relayed, acks>>

(* What is given up by p is slot, who does not play on.                     *)
Forgets(p, slot) ==
    /\ slot \in Players \ {p} /\ ~PlayOn(slot) /\ running' = running
    /\ fallback' = [fallback EXCEPT ![p] = @ \ {slot}]
    /\ connections' \in [Players -> SUBSET Players]
    /\ quitting' \in [Players -> SUBSET Players]
    /\ \A q \in Players \ {p} : connections'[q] = connections[q] /\ quitting'[q] = quitting[q]
    /\ connections'[p] \subseteq connections[p] /\ quitting'[p] \subseteq connections'[p]
    /\ Open(p)' = Open(p) \ {slot}
    /\ disconnects' \subseteq DisconnectMsg
    /\ \A d \in disconnects' : d \in disconnects \/ d.slot \notin running

LEMMA ResendPendingResends ==
    ASSUME TypeOK, NEW p \in Players, NEW slot, NEW new, NEW kept,
           ResendPending(p, slot, new, kept)
    PROVE  \E packets : Resends(p, kept, new, packets)
<1> DEFINE packets == UNION {LocalSends(p, c, Players)' : c \in Resent(p, slot) \union new}
<1>1. queue' = [queue EXCEPT ![p] = AddedTo(kept, packets)] /\ sent' = sent \union packets
  BY DEF ResendPending
<1>2. \A e \in packets : /\ e.command \in pending[p] \union new
                       /\ e \in LocalSends(p, e.command, Players)'
  <2> SUFFICES ASSUME NEW e \in packets
               PROVE  /\ e.command \in pending[p] \union new
                      /\ e \in LocalSends(p, e.command, Players)'
    OBVIOUS
  <2>1. PICK c \in Resent(p, slot) \union new : e \in LocalSends(p, c, Players)'
    OBVIOUS
  <2>2. e.command = c
    BY <2>1, LocalSendsForm
  <2>3. c \in pending[p] \union new
    BY DEF Resent
  <2> QED
    BY <2>1, <2>2, <2>3
<1>3. \A c \in new : LocalSends(p, c, Players)' \subseteq packets
  OBVIOUS
<1>4. pending' = [pending EXCEPT ![p] = @ \union (IF GoesToRouter(p)' THEN new ELSE {})]
  <2>1. UNION {KeptPending(p, c)' : c \in new} = IF GoesToRouter(p)' THEN new ELSE {}
    BY DEF KeptPending
  <2> QED
    BY <2>1 DEF ResendPending
<1> QED
  BY <1>1, <1>2, <1>3, <1>4 DEF Resends

(* Giving a command sends it, by the topology as it is.                     *)
LEMMA SendCommandDispatches ==
    ASSUME TypeInv, NEW p \in Players, NEW c \in Command, c.playerID = p, SendCommand(p, c)
    PROVE  Dispatches(p, {c}) /\ UNCHANGED <<topology, disconnects>>
<1>1. UNCHANGED <<running, connections, quitting, fallback, relayed, acks, disconnects>>
  BY DEF SendCommand, topology
<1>2. LocalSends(p, c, Players)' = LocalSends(p, c, Players)
  BY <1>1 DEF LocalSends, DirectSends, GoesToRouter, PacketRouter, Open
<1>3. GoesToRouter(p)' <=> GoesToRouter(p)
  BY <1>1 DEF GoesToRouter, PacketRouter
<1>4. Resends(p, queue[p], {c}, LocalSends(p, c, Players))
  <2>1. pending' = [pending EXCEPT ![p] = @ \union (IF GoesToRouter(p)' THEN {c} ELSE {})]
    BY <1>3 DEF SendCommand, KeptPending
  <2>2. \A e \in LocalSends(p, c, Players) : e.command = c
    BY LocalSendsForm
  <2> QED
    BY <1>2, <2>1, <2>2 DEF Resends, SendCommand
<1>5. IsFiniteSet({c})
  BY FS_Singleton
<1> QED
  BY <1>1, <1>4, <1>5 DEF Dispatches, SendCommand, topology

LEMMA SendGameCommandDispatches ==
    ASSUME TypeInv, NEW p \in Players, SendGameCommand(p) \/ SendPlayerLeave(p)
    PROVE  (\E c : Dispatches(p, {c})) /\ UNCHANGED <<topology, disconnects>>
<1>1. CASE SendGameCommand(p)
  BY <1>1, NewCommandType, SendCommandDispatches DEF SendGameCommand
<1>2. CASE SendPlayerLeave(p)
  BY <1>2, NewCommandType, SendCommandDispatches DEF SendPlayerLeave
<1> QED
  BY <1>1, <1>2

(* ForgetPlayer closes one connection to somebody else.                     *)
LEMMA ForgetPlayerForgets ==
    ASSUME TypeInv, TopologyInv, NEW p \in Players, NEW slot \in Players \ {p},
           ForgetPlayer(p, slot), running' = running, quitting' = quitting, ~PlayOn(slot),
           disconnects' \subseteq DisconnectMsg,
           \A d \in disconnects' : d \in disconnects \/ d.slot \notin running
    PROVE  Forgets(p, slot)
<1>1. connections' = [connections EXCEPT ![p] = @ \ Deleted(p, slot)]
  BY DEF ForgetPlayer
<1>2. connections \in [Players -> SUBSET Players] /\ quitting \in [Players -> SUBSET Players]
  BY DEF TypeInv, TypeOK
<1>3. connections' \in [Players -> SUBSET Players]
  BY <1>1, <1>2
<1>4. quitting[p] \subseteq connections[p]
  BY DEF TopologyInv
<1>5. connections'[p] = connections[p] \ Deleted(p, slot)
  BY <1>1, <1>2
<1>6. Open(p)' = Open(p) \ {slot}
  BY <1>5 DEF Open, Deleted
<1>7. connections'[p] \subseteq connections[p] /\ quitting'[p] \subseteq connections'[p]
  BY <1>4, <1>5 DEF Deleted
<1>8. fallback' = [fallback EXCEPT ![p] = @ \ {slot}]
  BY DEF ForgetPlayer, PlanWithout
<1>9. \A q \in Players \ {p} : connections'[q] = connections[q] /\ quitting'[q] = quitting[q]
  BY <1>1, <1>2
<1> QED
  BY <1>2, <1>3, <1>6, <1>7, <1>8, <1>9 DEF Forgets

(* The list of a player without what is for somebody who does not play on.  *)
LEMMA QueueWithoutKeeps ==
    ASSUME NEW p \in Players, NEW slot, ~PlayOn(slot), NEW slots, slots \subseteq {slot}
    PROVE  /\ QueueWithout(p, slots) \subseteq queue[p]
           /\ \A e \in queue[p] : PlayOn(e.to) => e \in QueueWithout(p, slots)
BY DEF QueueWithout

LEMMA DisconnectTimedOutStep ==
    ASSUME TypeInv, TopologyInv, NEW p \in Players, NEW slot \in Players,
           DisconnectTimedOut(p, slot)
    PROVE  (\E c : Dispatches(p, {c})) /\ Forgets(p, slot)
<1> DEFINE destroy == NewCommand(p, "DESTROYPLAYER")
<1>1. destroy \in Command /\ destroy.playerID = p
  BY NewCommandType
<1>2. TimedOut(p) \subseteq Players /\ TimedOut(p) # {}
  BY DEF DisconnectTimedOut, TimedOut, Open, TypeInv, TypeOK
<1>3. slot \in TimedOut(p)
  BY <1>2, MinIsFirst DEF DisconnectTimedOut
<1>4. slot # p /\ slot \notin running /\ ~PlayOn(slot) /\ p \in running
  BY <1>3 DEF TimedOut, Open, TopologyInv, PlayOn, DisconnectTimedOut
<1>5. UNCHANGED <<running, quitting, relayed, acks>> /\ ForgetPlayer(p, slot)
  BY DEF DisconnectTimedOut
<1>6. /\ disconnects' \subseteq DisconnectMsg
      /\ \A d \in disconnects' : d \in disconnects \/ d.slot \notin running
  <2> DEFINE new == {[playerID |-> p, to |-> q, slot |-> slot] : q \in Open(p)}
  <2>1. disconnects' = disconnects \union new
    BY DEF DisconnectTimedOut
  <2>2. Open(p) \subseteq Players
    BY DEF Open, TypeInv, TypeOK
  <2>3. \A d \in new : d \in DisconnectMsg /\ d.slot = slot
    BY <2>2 DEF DisconnectMsg
  <2> QED
    BY <1>4, <2>1, <2>3 DEF TypeInv, TypeOK
<1>7. Forgets(p, slot)
  BY <1>4, <1>5, <1>6, ForgetPlayerForgets
<1>8. PICK packets : Resends(p, QueueWithout(p, Deleted(p, slot)), {destroy}, packets)
  BY ResendPendingResends DEF DisconnectTimedOut, TypeInv
<1>9. Dispatches(p, {destroy})
  <2>1. Deleted(p, slot) \subseteq {slot}
    BY DEF Deleted
  <2>2. IsFiniteSet({destroy})
    BY FS_Singleton
  <2>3. received' = [received EXCEPT ![p] = @ \union {destroy}]
    BY DEF DisconnectTimedOut
  <2> HIDE DEF destroy
  <2> QED
    BY <1>1, <1>4, <1>5, <1>8, <2>1, <2>2, <2>3, QueueWithoutKeeps DEF Dispatches
<1> QED
  BY <1>7, <1>9

LEMMA ReceiveDisconnectStep ==
    ASSUME TypeInv, TopologyInv, NEW p \in Players, NEW d \in disconnects,
           ReceiveDisconnect(p, d)
    PROVE  Dispatches(p, {}) /\ Forgets(p, d.slot)
<1>1. d.slot \in Players \ {p} /\ d.slot \notin running /\ ~PlayOn(d.slot)
  BY DEF ReceiveDisconnect, TypeInv, TypeOK, DisconnectMsg, TopologyInv, PlayOn
<1>2. /\ UNCHANGED <<running, quitting, relayed, received, acks, disconnects>>
      /\ ForgetPlayer(p, d.slot) /\ p \in running
  BY DEF ReceiveDisconnect
<1>3. Forgets(p, d.slot)
  BY <1>1, <1>2, ForgetPlayerForgets DEF TypeInv, TypeOK
<1>4. PICK packets : Resends(p, QueueWithout(p, Deleted(p, d.slot)), {}, packets)
  BY ResendPendingResends DEF ReceiveDisconnect, TypeInv
<1>5. received' = [received EXCEPT ![p] = @ \union {}]
  BY <1>2 DEF TypeInv, TypeOK
<1>6. Deleted(p, d.slot) \subseteq {d.slot} /\ IsFiniteSet({})
  BY FS_EmptySet DEF Deleted
<1> QED
  BY <1>1, <1>2, <1>3, <1>4, <1>5, <1>6, QueueWithoutKeeps DEF Dispatches

(* Who executes the leave of another has heard that he leaves.              *)
LEMMA ExecuteOthersLeaveStep ==
    ASSUME TypeInv, TopologyInv, GivenInv, NEW p \in Players, NEW slot \in Players,
           ExecuteOthersLeave(p, slot)
    PROVE  Dispatches(p, {}) /\ Forgets(p, slot)
<1>1. /\ UNCHANGED <<running, connections, relayed, received, acks, disconnects>>
      /\ p \in running /\ slot # p
      /\ quitting' = [quitting EXCEPT ![p] = @ \union ({slot} \intersect connections[p])]
      /\ fallback' = [fallback EXCEPT ![p] = @ \ {slot}]
  BY DEF ExecuteOthersLeave, PlanWithout
<1>2. ~PlayOn(slot)
  <2>1. PICK c \in received[p] : c.type = "PLAYERLEAVE" /\ c.playerID = slot
    BY DEF ExecuteOthersLeave
  <2>2. c \in GivenOf(slot, "PLAYERLEAVE")
    BY <2>1 DEF GivenInv, GivenOf, Given
  <2> QED
    BY <2>2 DEF PlayOn
<1>3. connections \in [Players -> SUBSET Players] /\ quitting \in [Players -> SUBSET Players]
  BY DEF TypeInv, TypeOK
<1>4. quitting' \in [Players -> SUBSET Players]
  BY <1>1, <1>3
<1>5. quitting'[p] = quitting[p] \union ({slot} \intersect connections[p])
  BY <1>1, <1>3
<1>6. quitting'[p] \subseteq connections'[p] /\ Open(p)' = Open(p) \ {slot}
  BY <1>1, <1>5 DEF Open, TopologyInv
<1>7. Forgets(p, slot)
  <2>1. disconnects \subseteq DisconnectMsg
    BY DEF TypeInv, TypeOK
  <2> QED
    BY <1>1, <1>2, <1>3, <1>4, <1>6, <2>1 DEF Forgets
<1>8. PICK packets : Resends(p, queue[p], {}, packets)
  BY ResendPendingResends DEF ExecuteOthersLeave, TypeInv
<1>9. received' = [received EXCEPT ![p] = @ \union {}]
  BY <1>1 DEF TypeInv, TypeOK
<1> QED
  BY <1>1, <1>7, <1>8, <1>9, FS_EmptySet DEF Dispatches

-----------------------------------------------------------------------------
(* What every step keeps *)

(* A leaver or a machine that stops changes none of the lists but queue.    *)
Quiet ==
    /\ running' \subseteq running
    /\ UNCHANGED <<pending, relayed, received, sent, acks>>

LEMMA QuietSteps ==
    ASSUME NEW p \in Players, NEW q \in Players,
           QuitGame(p) \/ Crash(p) \/ ExecuteOwnLeave(p) \/ DropConnection(p, q)
    PROVE  Quiet
BY DEF Quiet, QuitGame, Crash, ExecuteOwnLeave, DropConnection, lists, network

(* Nobody runs again, nothing that was received or sent is taken back, and  *)
(* who has once gone does not play on later.                                *)
Grows ==
    /\ running' \subseteq running
    /\ \A p \in Players : received[p] \subseteq received'[p]
    /\ sent \subseteq sent' /\ acks \subseteq acks'
    /\ \A p \in Players : PlayOn(p)' => PlayOn(p)

LEMMA ReceivingGrows ==
    ASSUME running' \subseteq running, \A p \in Players : received[p] \subseteq received'[p],
           NEW p \in Players, PlayOn(p)'
    PROVE  PlayOn(p)
<1>1. GivenOf(p, "PLAYERLEAVE") \subseteq GivenOf(p, "PLAYERLEAVE")'
  BY DEF GivenOf, Given
<1> QED
  BY <1>1 DEF PlayOn

LEMMA DispatchesGrows ==
    ASSUME TypeInv, NEW p \in Players, NEW new, Dispatches(p, new)
    PROVE  Grows
<1>1. running' = running /\ \A q \in Players : received[q] \subseteq received'[q]
  BY DEF Dispatches, TypeInv, TypeOK
<1>2. sent \subseteq sent' /\ acks' = acks
  BY DEF Dispatches, Resends
<1> QED
  BY <1>1, <1>2, ReceivingGrows DEF Grows

LEMMA ReceiveCommandGrows ==
    ASSUME TypeInv, NEW p \in Players, NEW e \in sent, ReceiveCommand(p, e)
    PROVE  Grows
<1>1. running' = running /\ acks \subseteq acks'
  BY DEF ReceiveCommand, topology
<1>2. /\ received' = received \/ received' = [received EXCEPT ![p] = @ \union {e.command}]
      /\ sent \subseteq sent'
  <2>1. CASE e.command.playerID \in connections[p] \union {p}
    <3>1. received' = [received EXCEPT ![p] = IF p \in e.relay THEN @ \union {e.command} ELSE @]
      BY <2>1, Zenon DEF ReceiveCommand
    <3>2. CASE p \in e.relay
      BY <2>1, <3>1, <3>2 DEF ReceiveCommand
    <3>3. CASE p \notin e.relay
      BY <2>1, <3>1, <3>3 DEF ReceiveCommand, TypeInv, TypeOK
    <3> QED
      BY <3>2, <3>3
  <2>2. CASE e.command.playerID \notin connections[p] \union {p}
    BY <2>2 DEF ReceiveCommand
  <2> QED
    BY <2>1, <2>2
<1>3. \A q \in Players : received[q] \subseteq received'[q]
  BY <1>2 DEF TypeInv, TypeOK
<1> QED
  BY <1>1, <1>2, <1>3, ReceivingGrows DEF Grows

LEMMA ReceiveAckGrows ==
    ASSUME NEW p \in Players, NEW a \in acks, ReceiveAck(p, a)
    PROVE  Grows
<1>1. UNCHANGED <<running, received, sent>> /\ acks \subseteq acks'
  BY DEF ReceiveAck, topology
<1> QED
  BY <1>1, ReceivingGrows DEF Grows

LEMMA QuietGrows == Quiet => Grows
BY ReceivingGrows DEF Quiet, Grows

-----------------------------------------------------------------------------
(* Types *)

LEMMA DispatchesTypes ==
    ASSUME TypeInv, NEW p \in Players, NEW new, Dispatches(p, new),
           connections' \in [Players -> SUBSET Players],
           quitting' \in [Players -> SUBSET Players],
           fallback' \in [Players -> SUBSET Players], disconnects' \subseteq DisconnectMsg
    PROVE  TypeInv'
<1>1. PICK kept, packets : Resends(p, kept, new, packets) /\ kept \subseteq queue[p]
  BY DEF Dispatches
<1>2. packets \subseteq Packet
  <2> SUFFICES ASSUME NEW e \in packets PROVE e \in Packet
    OBVIOUS
  <2>1. e \in LocalSends(p, e.command, Players)' /\ e.command \in Command
    BY <1>1 DEF Resends, Dispatches, TypeInv, TypeOK
  <2>2. /\ e = [command |-> e.command, to |-> e.to, relay |-> e.relay]
        /\ e.to \in Open(p)' /\ e.relay \in {Players \ {p}, {e.to}}
    BY <2>1, LocalSendsForm
  <2>3. Open(p)' \subseteq Players
    BY DEF Open
  <2>4. e.to \in Players /\ e.relay \in SUBSET Players
    BY <2>2, <2>3
  <2> QED
    BY <2>1, <2>2, <2>4 DEF Packet
<1>3. queue' \in [Players -> SUBSET Packet]
  <2>1. AddedTo(kept, packets) \subseteq Packet
    BY <1>1, <1>2, AddedKeeps DEF TypeInv, TypeOK
  <2> QED
    BY <1>1, <2>1 DEF Resends, TypeInv, TypeOK
<1>4. pending' \in [Players -> SUBSET Command]
  <2>1. (IF GoesToRouter(p)' THEN new ELSE {}) \subseteq Command
    BY DEF Dispatches
  <2> QED
    BY <1>1, <2>1 DEF Resends, TypeInv, TypeOK
<1>5. sent' \subseteq Packet
  BY <1>1, <1>2 DEF Resends, TypeInv, TypeOK
<1>6. received' \in [Players -> SUBSET Command]
  BY DEF Dispatches, TypeInv, TypeOK
<1>7. ASSUME NEW q \in Players PROVE IsFiniteSet(received'[q])
  <2>1. IsFiniteSet(received[q]) /\ IsFiniteSet(new)
    BY DEF TypeInv, Dispatches
  <2>2. IsFiniteSet(received[q] \union new)
    BY <2>1, FS_Union
  <2>3. received'[q] \in {received[q], received[q] \union new}
    BY DEF Dispatches, TypeInv, TypeOK
  <2> QED
    BY <2>1, <2>2, <2>3
<1>8. running' \subseteq Players /\ relayed' = relayed /\ acks' = acks
  BY DEF Dispatches, TypeInv, TypeOK
<1> QED
  BY <1>3, <1>4, <1>5, <1>6, <1>7, <1>8 DEF TypeInv, TypeOK

LEMMA ReceiveCommandTypes ==
    ASSUME TypeInv, NEW p \in Players, NEW e \in sent, ReceiveCommand(p, e)
    PROVE  TypeInv'
<1> DEFINE c == e.command
           relays == DirectSends(p, c, e.relay)
           mask == [command |-> c, relay |-> Awaited(p, e)]
<1>1. e \in Packet /\ c \in Command /\ e.relay \subseteq Players /\ Open(p) \subseteq Players
  BY DEF TypeInv, TypeOK, Packet, Open
<1>2. relays \subseteq Packet
  <2> SUFFICES ASSUME NEW x \in relays PROVE x \in Packet
    OBVIOUS
  <2>1. x = [command |-> c, to |-> x.to, relay |-> {x.to}] /\ x.to \in Players
    BY <1>1, DirectSendsForm
  <2> QED
    BY <1>1, <2>1 DEF Packet
<1>3. acks' \subseteq Ack
  <2>1. AcksFor(p, e) \subseteq Ack
    BY <1>1 DEF AcksFor, Ack, AckStage, Command
  <2> QED
    BY <2>1 DEF ReceiveCommand, TypeInv, TypeOK
<1>4. CASE c.playerID \in connections[p] \union {p}
  <2>1. /\ received' = [received EXCEPT ![p] = IF p \in e.relay THEN @ \union {c} ELSE @]
        /\ queue' = [queue EXCEPT ![p] = AddedTo(@, relays)]
        /\ sent' = sent \union relays
        /\ relayed' = [relayed EXCEPT ![p] =
               IF relays = {} \/ \E x \in @ : x.command = c THEN @ ELSE @ \union {mask}]
        /\ UNCHANGED <<topology, pending, disconnects>>
    BY <1>4 DEF ReceiveCommand
  <2>2. queue' \in [Players -> SUBSET Packet] /\ sent' \subseteq Packet
    <3>1. AddedTo(queue[p], relays) \subseteq Packet
      BY <1>2, AddedKeeps DEF TypeInv, TypeOK
    <3> QED
      BY <1>2, <2>1, <3>1 DEF TypeInv, TypeOK
  <2>3. received' \in [Players -> SUBSET Command]
    BY <1>1, <2>1 DEF TypeInv, TypeOK
  <2>4. ASSUME NEW q \in Players PROVE IsFiniteSet(received'[q])
    <3>1. IsFiniteSet(received[q]) /\ IsFiniteSet(received[q] \union {c})
      BY FS_AddElement DEF TypeInv
    <3>2. received'[q] \in {received[q], received[q] \union {c}}
      BY <2>1 DEF TypeInv, TypeOK
    <3> QED
      BY <3>1, <3>2
  <2>5. relayed' \in [Players -> SUBSET [command : Command, relay : (SUBSET Players) \ {{}}]]
    <3>1. CASE relays = {}
      BY <2>1, <3>1 DEF TypeInv, TypeOK
    <3>2. CASE relays # {}
      <4>1. mask \in [command : Command, relay : (SUBSET Players) \ {{}}]
        BY <1>1, <3>2 DEF DirectSends, Awaited
      <4> HIDE DEF mask, relays
      <4> QED
        BY <2>1, <4>1 DEF TypeInv, TypeOK
    <3> QED
      BY <3>1, <3>2
  <2> QED
    BY <1>3, <2>1, <2>2, <2>3, <2>4, <2>5 DEF TypeInv, TypeOK, topology
<1>5. CASE c.playerID \notin connections[p] \union {p}
  BY <1>3, <1>5 DEF ReceiveCommand, TypeInv, TypeOK, topology
<1> QED
  BY <1>4, <1>5

LEMMA ReceiveAckTypes ==
    ASSUME TypeInv, NEW p \in Players, NEW a \in acks, ReceiveAck(p, a)
    PROVE  TypeInv'
<1> DEFINE Masks == [command : Command, relay : (SUBSET Players) \ {{}}]
<1>1. /\ a \in Ack /\ a.command \in Command /\ a.command.playerID \in Players
      /\ a.relay \subseteq Players
  BY DEF TypeInv, TypeOK, Ack, Command
<1>2. UNCHANGED <<topology, received, sent, disconnects>>
  BY DEF ReceiveAck
<1>3. queue' \in [Players -> SUBSET Packet]
  <2>1. AfterStage1(p, a) \subseteq queue[p]
    BY DEF AfterStage1
  <2> QED
    BY <2>1 DEF ReceiveAck, TypeInv, TypeOK
<1>4. Forwarded(p, a) \subseteq Ack
  <2> SUFFICES ASSUME NEW q \in a.relay PROVE [a EXCEPT !.to = q, !.relay = {q}] \in Ack
    BY DEF Forwarded
  <2> QED
    BY <1>1 DEF Ack
<1>5. Stage2Acks(p, a) \subseteq Ack
  <2> SUFFICES ASSUME NEW x \in Stage2Acks(p, a) PROVE x \in Ack
    OBVIOUS
  <2>1. PICK e \in LocalSends(p, a.command, {a.command.playerID}) :
           x = [stage |-> "2", command |-> a.command, playerID |-> 0, to |-> e.to,
                relay |-> e.relay]
    BY DEF Stage2Acks
  <2>2. e.to \in Open(p) /\ e.relay \in {{a.command.playerID} \ {p}, {e.to}}
    BY LocalSendsForm
  <2>3. Open(p) \subseteq Players
    BY DEF Open, TypeInv, TypeOK
  <2>4. e.to \in Players /\ e.relay \in SUBSET Players
    BY <1>1, <2>2, <2>3
  <2> QED
    BY <1>1, <2>1, <2>4, PlayersAssumption DEF Ack
<1>6. NotCrossedOff(p, a) \subseteq Masks
  <2> SUFFICES ASSUME NEW x \in StillAwaited(p, a), x.relay # {} PROVE x \in Masks
    BY DEF NotCrossedOff
  <2>1. PICK y \in relayed[p] : x = [y EXCEPT !.relay = @ \ {a.playerID}]
    BY DEF StillAwaited
  <2>2. y \in Masks
    BY DEF TypeInv, TypeOK
  <2> QED
    BY <2>1, <2>2
<1>7. CASE a.stage = "1"
  BY <1>2, <1>3, <1>4, <1>7 DEF ReceiveAck, TypeInv, TypeOK, topology
<1>8. CASE a.stage # "1"
  <2>1. pending' = [pending EXCEPT ![p] = @ \ {a.command}]
    BY <1>8 DEF ReceiveAck
  <2>2. relayed' = [relayed EXCEPT ![p] =
                       {x \in @ : x.command # a.command} \union NotCrossedOff(p, a)]
    BY <1>8 DEF ReceiveAck
  <2>3. acks' = acks \union Stage2Acks(p, a) \union Forwarded(p, a)
    BY <1>8 DEF ReceiveAck
  <2>4. pending' \in [Players -> SUBSET Command]
    BY <2>1 DEF TypeInv, TypeOK
  <2>5. relayed' \in [Players -> SUBSET Masks]
    BY <1>6, <2>2 DEF TypeInv, TypeOK
  <2>6. acks' \subseteq Ack
    BY <1>4, <1>5, <2>3 DEF TypeInv, TypeOK
  <2> QED
    BY <1>2, <1>3, <2>4, <2>5, <2>6 DEF TypeInv, TypeOK, topology
<1> QED
  BY <1>7, <1>8

LEMMA GoingTypes ==
    ASSUME TypeInv, NEW p \in Players, NEW q \in Players,
           QuitGame(p) \/ Crash(p) \/ ExecuteOwnLeave(p) \/ DropConnection(p, q)
    PROVE  TypeInv'
<1>1. CASE QuitGame(p)
  <2>1. disconnects' \subseteq DisconnectMsg
    BY <1>1 DEF QuitGame, DisconnectMsg, Open, TypeInv, TypeOK
  <2> QED
    BY <1>1, <2>1 DEF QuitGame, lists, TypeInv, TypeOK
<1>2. CASE Crash(p)
  BY <1>2 DEF Crash, lists, network, TypeInv, TypeOK
<1>3. CASE ExecuteOwnLeave(p)
  BY <1>3 DEF ExecuteOwnLeave, PlanWithout, network, TypeInv, TypeOK
<1>4. CASE DropConnection(p, q)
  BY <1>4 DEF DropConnection, QueueWithout, network, TypeInv, TypeOK
<1> QED
  BY <1>1, <1>2, <1>3, <1>4

-----------------------------------------------------------------------------
(* Who is given up *)

(* A leave that was given stays given.                                      *)
LEMMA LeaveStaysGiven ==
    ASSUME Grows, NEW p \in Players, GivenOf(p, "PLAYERLEAVE") # {}
    PROVE  GivenOf(p, "PLAYERLEAVE")' # {}
BY DEF Grows, GivenOf, Given

LEMMA TopologyKept ==
    ASSUME TopologyInv, Grows, UNCHANGED <<connections, quitting, fallback>>,
           \A d \in disconnects' : d \in disconnects \/ d.slot \notin running'
    PROVE  TopologyInv'
<1>1. \A p \in Players : Open(p)' = Open(p) /\ (HasLeft(p)' <=> HasLeft(p))
  BY DEF Open, HasLeft
<1>2. \A p, q \in Players : q # p /\ ~HasLeft(p)' /\ PlayOn(q)' => q \in Open(p)'
  BY <1>1 DEF TopologyInv, Grows
<1>3. \A d \in disconnects' : d.slot \notin running'
  BY DEF TopologyInv, Grows
<1>4. ASSUME NEW p \in Players
      PROVE  /\ p \notin connections'[p] /\ quitting'[p] \subseteq connections'[p]
             /\ Open(p)' \subseteq fallback'[p]
             /\ HasLeft(p)' => Open(p)' = {} /\ GivenOf(p, "PLAYERLEAVE")' # {}
  BY <1>1, LeaveStaysGiven DEF TopologyInv
<1> QED
  BY <1>2, <1>3, <1>4 DEF TopologyInv

LEMMA TopologyForgets ==
    ASSUME TypeInv, TopologyInv, Grows, NEW p \in Players, NEW slot, Forgets(p, slot)
    PROVE  TopologyInv'
<1>1. fallback'[p] = fallback[p] \ {slot} /\ p # slot
  BY DEF Forgets, TypeInv, TypeOK
<1>2. ASSUME NEW q \in Players, q # p
      PROVE  /\ fallback'[q] = fallback[q] /\ connections'[q] = connections[q]
             /\ quitting'[q] = quitting[q] /\ Open(q)' = Open(q)
  BY <1>2 DEF Forgets, TypeInv, TypeOK, Open
<1>3. ASSUME NEW q \in Players PROVE HasLeft(q)' <=> HasLeft(q)
  BY <1>1, <1>2 DEF HasLeft
<1>4. Open(p)' = Open(p) \ {slot}
  BY DEF Forgets
<1>5. ASSUME NEW q \in Players
      PROVE  /\ q \notin connections'[q] /\ quitting'[q] \subseteq connections'[q]
             /\ Open(q)' \subseteq fallback'[q]
             /\ HasLeft(q)' => Open(q)' = {} /\ GivenOf(q, "PLAYERLEAVE")' # {}
  <2>1. HasLeft(q)' => GivenOf(q, "PLAYERLEAVE")' # {}
    BY <1>3, LeaveStaysGiven DEF TopologyInv
  <2>2. CASE q = p
    BY <1>1, <1>3, <1>4, <2>1, <2>2 DEF TopologyInv, Forgets
  <2>3. CASE q # p
    BY <1>2, <1>3, <2>1, <2>3 DEF TopologyInv
  <2> QED
    BY <2>2, <2>3
<1>6. \A q, r \in Players : r # q /\ ~HasLeft(q)' /\ PlayOn(r)' => r \in Open(q)'
  <2> SUFFICES ASSUME NEW q \in Players, NEW r \in Players, r # q, ~HasLeft(q)', PlayOn(r)'
               PROVE  r \in Open(q)'
    OBVIOUS
  <2>1. r \in Open(q) /\ PlayOn(r)
    BY <1>3 DEF TopologyInv, Grows
  <2>2. r # slot
    BY <2>1 DEF Forgets
  <2> QED
    BY <1>2, <1>4, <2>1, <2>2
<1>7. \A d \in disconnects' : d.slot \notin running'
  BY DEF TopologyInv, Forgets
<1> QED
  BY <1>5, <1>6, <1>7 DEF TopologyInv

(* Who leaves himself quits all his connections.                            *)
LEMMA TopologyOwnLeave ==
    ASSUME TypeInv, TopologyInv, Grows, NEW p \in Players, ExecuteOwnLeave(p)
    PROVE  TopologyInv'
<1>1. UNCHANGED <<running, connections, received, disconnects>>
  BY DEF ExecuteOwnLeave, network
<1>2. /\ quitting'[p] = connections[p] /\ fallback'[p] = fallback[p] \ {p}
      /\ HasLeft(p)' /\ Open(p)' = {}
  BY <1>1 DEF ExecuteOwnLeave, PlanWithout, HasLeft, Open, TypeInv, TypeOK
<1>3. GivenOf(p, "PLAYERLEAVE")' # {}
  BY LeaveStaysGiven DEF ExecuteOwnLeave
<1>4. ASSUME NEW q \in Players, q # p
      PROVE  /\ fallback'[q] = fallback[q] /\ connections'[q] = connections[q]
             /\ quitting'[q] = quitting[q] /\ Open(q)' = Open(q)
             /\ HasLeft(q)' <=> HasLeft(q)
  BY <1>1, <1>4 DEF ExecuteOwnLeave, TypeInv, TypeOK, Open, HasLeft
<1>5. ASSUME NEW q \in Players
      PROVE  /\ q \notin connections'[q] /\ quitting'[q] \subseteq connections'[q]
             /\ Open(q)' \subseteq fallback'[q]
             /\ HasLeft(q)' => Open(q)' = {} /\ GivenOf(q, "PLAYERLEAVE")' # {}
  <2>1. CASE q = p
    BY <1>1, <1>2, <1>3, <2>1 DEF TopologyInv
  <2>2. CASE q # p
    BY <1>4, <2>2, LeaveStaysGiven DEF TopologyInv
  <2> QED
    BY <2>1, <2>2
<1>6. \A q, r \in Players : r # q /\ ~HasLeft(q)' /\ PlayOn(r)' => r \in Open(q)'
  BY <1>2, <1>4 DEF TopologyInv, Grows
<1> QED
  BY <1>1, <1>5, <1>6 DEF TopologyInv

LEMMA TopologyDropConnection ==
    ASSUME TypeInv, TopologyInv, Grows, NEW p \in Players, NEW q \in Players,
           DropConnection(p, q)
    PROVE  TopologyInv'
<1>1. UNCHANGED <<running, fallback, received, disconnects>>
  BY DEF DropConnection, network
<1>2. /\ connections'[p] = connections[p] \ {q} /\ quitting'[p] = quitting[p] \ {q}
      /\ q \in quitting[p]
  BY DEF DropConnection, TypeInv, TypeOK
<1>3. \A r \in Players \ {p} : connections'[r] = connections[r] /\ quitting'[r] = quitting[r]
  BY DEF DropConnection, TypeInv, TypeOK
<1>4. \A r \in Players : Open(r)' = Open(r) /\ (HasLeft(r)' <=> HasLeft(r))
  BY <1>1, <1>2, <1>3 DEF Open, HasLeft
<1>5. ASSUME NEW r \in Players
      PROVE  /\ r \notin connections'[r] /\ quitting'[r] \subseteq connections'[r]
             /\ Open(r)' \subseteq fallback'[r]
             /\ HasLeft(r)' => Open(r)' = {} /\ GivenOf(r, "PLAYERLEAVE")' # {}
  <2>1. r \notin connections'[r] /\ quitting'[r] \subseteq connections'[r]
    BY <1>2, <1>3 DEF TopologyInv
  <2> QED
    BY <1>1, <1>4, <2>1, LeaveStaysGiven DEF TopologyInv
<1>6. \A r, s \in Players : s # r /\ ~HasLeft(r)' /\ PlayOn(s)' => s \in Open(r)'
  BY <1>4 DEF TopologyInv, Grows
<1> QED
  BY <1>1, <1>5, <1>6 DEF TopologyInv

(* Only who goes is told of, by himself or by the one who gives him up.     *)
LEMMA TopologyStops ==
    ASSUME TopologyInv, Grows, NEW p \in Players, QuitGame(p) \/ Crash(p)
    PROVE  TopologyInv'
<1>1. UNCHANGED <<connections, quitting, fallback>> /\ running' = running \ {p}
  BY DEF QuitGame, Crash
<1>2. \A d \in disconnects' : d \in disconnects \/ d.slot = p
  BY DEF QuitGame, Crash, network
<1> QED
  BY <1>1, <1>2, TopologyKept

-----------------------------------------------------------------------------
(* Commands that were given *)

LEMMA GivenDispatches ==
    ASSUME TypeInv, GivenInv, Grows, NEW p \in Players, NEW new, Dispatches(p, new)
    PROVE  GivenInv'
<1>1. PICK kept, packets : Resends(p, kept, new, packets)
  BY DEF Dispatches
<1>2. received'[p] = received[p] \union new
  BY DEF Dispatches, TypeInv, TypeOK
<1>3. \A q \in Players : pending'[q] \subseteq Given(q)'
  <2>1. pending'[p] \subseteq pending[p] \union new
    BY <1>1 DEF Resends, TypeInv, TypeOK
  <2>2. \A q \in Players \ {p} : pending'[q] = pending[q]
    BY <1>1 DEF Resends, TypeInv, TypeOK
  <2> QED
    BY <1>2, <2>1, <2>2 DEF GivenInv, Given, Grows, Dispatches
<1>4. ASSUME NEW q \in Players, NEW c \in received'[q] PROVE c \in received'[c.playerID]
  <2>1. CASE c \in received[q]
    <3>1. c.playerID \in Players
      BY <2>1 DEF TypeInv, TypeOK, Command
    <3> QED
      BY <2>1, <3>1 DEF GivenInv, Grows
  <2>2. CASE c \notin received[q]
    <3>1. c \in new /\ q = p
      BY <2>2 DEF Dispatches, TypeInv, TypeOK
    <3> QED
      BY <1>2, <3>1 DEF Dispatches
  <2> QED
    BY <2>1, <2>2
<1>5. ASSUME NEW q \in Players, NEW x \in relayed'[q] PROVE x.command \in received'[Giver(x)]
  <2>1. x \in relayed[q]
    BY DEF Dispatches
  <2>2. Giver(x) \in Players
    BY <2>1 DEF TypeInv, TypeOK, Command, Giver
  <2> QED
    BY <2>1, <2>2 DEF GivenInv, Grows
<1>6. ASSUME NEW e \in sent' PROVE e.command \in received'[Giver(e)]
  <2>1. CASE e \in sent
    <3>1. Giver(e) \in Players
      BY <2>1 DEF TypeInv, TypeOK, Packet, Command, Giver
    <3> QED
      BY <2>1, <3>1 DEF GivenInv, Grows
  <2>2. CASE e \in packets
    <3>1. e.command \in pending[p] \union new
      BY <1>1, <2>2 DEF Resends
    <3>2. e.command \in received'[p] /\ e.command.playerID = p
      BY <1>2, <3>1 DEF GivenInv, Given, Dispatches
    <3> QED
      BY <3>2 DEF Giver
  <2> QED
    BY <1>1, <2>1, <2>2 DEF Resends
<1> QED
  BY <1>3, <1>4, <1>5, <1>6 DEF GivenInv, Giver

(* What a step of ReceiveCommand adds.                                      *)
LEMMA ReceiveCommandAdds ==
    ASSUME TypeInv, NEW p \in Players, NEW e \in sent, ReceiveCommand(p, e)
    PROVE  /\ e.to = p /\ UNCHANGED <<topology, pending, disconnects>>
           /\ acks' = acks \union AcksFor(p, e)
           /\ \A q \in Players : received'[q] \subseteq received[q] \union {e.command}
           /\ \A q \in Players : \A x \in relayed'[q] : x \in relayed[q] \/
                 /\ q = p /\ x = [command |-> e.command, relay |-> Awaited(p, e)]
                 /\ DirectSends(p, e.command, e.relay) # {}
           /\ \A x \in sent' : x \in sent \/ x \in DirectSends(p, e.command, e.relay)
           /\ Giver(e) \in connections[p] \union {p} /\ p \in e.relay =>
                 e.command \in received'[p]
           /\ sent' # sent \/ relayed' # relayed => Giver(e) \in connections[p] \union {p}
<1> DEFINE c == e.command
           relays == DirectSends(p, c, e.relay)
           mask == [command |-> c, relay |-> Awaited(p, e)]
<1>1. /\ e.to = p /\ UNCHANGED <<topology, pending, disconnects>>
      /\ acks' = acks \union AcksFor(p, e)
  BY DEF ReceiveCommand
<1>2. CASE Giver(e) \in connections[p] \union {p}
  <2>1. /\ received' = [received EXCEPT ![p] = IF p \in e.relay THEN @ \union {c} ELSE @]
        /\ sent' = sent \union relays
        /\ relayed' = [relayed EXCEPT ![p] =
               IF relays = {} \/ \E x \in @ : x.command = c THEN @ ELSE @ \union {mask}]
    BY <1>2 DEF ReceiveCommand, Giver
  <2> HIDE DEF c, relays, mask
  <2>2. \A q \in Players : received'[q] \subseteq received[q] \union {c}
    BY <2>1 DEF TypeInv, TypeOK
  <2>3. p \in e.relay => c \in received'[p]
    BY <2>1 DEF TypeInv, TypeOK
  <2>4. \A q \in Players : \A x \in relayed'[q] :
           x \in relayed[q] \/ (q = p /\ x = mask /\ relays # {})
    BY <2>1 DEF TypeInv, TypeOK
  <2> QED
    BY <1>1, <1>2, <2>1, <2>2, <2>3, <2>4 DEF c, relays, mask
<1>3. CASE Giver(e) \notin connections[p] \union {p}
  BY <1>1, <1>3 DEF ReceiveCommand, Giver
<1> QED
  BY <1>2, <1>3

LEMMA GivenReceiveCommand ==
    ASSUME TypeInv, GivenInv, Grows, NEW p \in Players, NEW e \in sent, ReceiveCommand(p, e)
    PROVE  GivenInv'
<1>1. e.command \in received[Giver(e)] /\ Giver(e) \in Players
  BY DEF GivenInv, TypeInv, TypeOK, Packet, Command, Giver
<1>2. e.command \in received'[Giver(e)]
  BY <1>1 DEF Grows
<1>3. ASSUME NEW q \in Players, NEW c \in received'[q] PROVE c \in received'[c.playerID]
  <2>1. CASE c \in received[q]
    <3>1. c.playerID \in Players
      BY <2>1 DEF TypeInv, TypeOK, Command
    <3> QED
      BY <2>1, <3>1 DEF GivenInv, Grows
  <2> QED
    BY <1>2, <2>1, ReceiveCommandAdds DEF Giver
<1>4. \A q \in Players : pending'[q] \subseteq Given(q)'
  <2>1. pending' = pending
    BY ReceiveCommandAdds
  <2> QED
    BY <2>1 DEF GivenInv, Given, Grows
<1>5. ASSUME NEW q \in Players, NEW x \in relayed'[q] PROVE x.command \in received'[Giver(x)]
  <2>1. CASE x \in relayed[q]
    <3>1. Giver(x) \in Players
      BY <2>1 DEF TypeInv, TypeOK, Command, Giver
    <3> QED
      BY <2>1, <3>1 DEF GivenInv, Grows
  <2>2. CASE x \notin relayed[q]
    <3>1. x.command = e.command
      BY <2>2, ReceiveCommandAdds
    <3> QED
      BY <1>2, <3>1 DEF Giver
  <2> QED
    BY <2>1, <2>2
<1>6. ASSUME NEW x \in sent' PROVE x.command \in received'[Giver(x)]
  <2>1. CASE x \in sent
    <3>1. Giver(x) \in Players
      BY <2>1 DEF TypeInv, TypeOK, Packet, Command, Giver
    <3> QED
      BY <2>1, <3>1 DEF GivenInv, Grows
  <2>2. CASE x \notin sent
    <3>1. x.command = e.command
      BY <2>2, ReceiveCommandAdds, DirectSendsForm
    <3> QED
      BY <1>2, <3>1 DEF Giver
  <2> QED
    BY <2>1, <2>2
<1> QED
  BY <1>3, <1>4, <1>5, <1>6 DEF GivenInv, Giver

(* What a step of ReceiveAck adds and takes away.                           *)
LEMMA ReceiveAckAdds ==
    ASSUME TypeInv, NEW p \in Players, NEW a \in acks, ReceiveAck(p, a)
    PROVE  /\ a.to = p /\ UNCHANGED <<topology, received, sent, disconnects>>
           /\ queue' = [queue EXCEPT ![p] = AfterStage1(p, a)]
           /\ \A x \in acks' : x \in acks \/ x \in Forwarded(p, a) \/
                 (a.stage # "1" /\ x \in Stage2Acks(p, a))
           /\ pending' = IF a.stage = "1" THEN pending
                         ELSE [pending EXCEPT ![p] = @ \ {a.command}]
           /\ \A q \in Players : \A x \in relayed'[q] : x \in relayed[q] \/
                 (q = p /\ a.stage # "1" /\ x \in StillAwaited(p, a))
<1>1. /\ a.to = p /\ UNCHANGED <<topology, received, sent, disconnects>>
      /\ queue' = [queue EXCEPT ![p] = AfterStage1(p, a)]
  BY DEF ReceiveAck
<1>2. CASE a.stage = "1"
  BY <1>1, <1>2 DEF ReceiveAck
<1>3. CASE a.stage # "1"
  <2>1. /\ pending' = [pending EXCEPT ![p] = @ \ {a.command}]
        /\ relayed' = [relayed EXCEPT ![p] =
                          {x \in @ : x.command # a.command} \union NotCrossedOff(p, a)]
        /\ acks' = acks \union Stage2Acks(p, a) \union Forwarded(p, a)
    BY <1>3 DEF ReceiveAck
  <2>2. \A q \in Players : \A x \in relayed'[q] :
           x \in relayed[q] \/ (q = p /\ x \in StillAwaited(p, a))
    BY <2>1 DEF NotCrossedOff, TypeInv, TypeOK
  <2> QED
    BY <1>1, <1>3, <2>1, <2>2
<1> QED
  BY <1>2, <1>3

LEMMA StillAwaitedForm ==
    ASSUME TypeInv, NEW p \in Players, NEW a, NEW x \in StillAwaited(p, a)
    PROVE  \E y \in relayed[p] : /\ y.command = a.command /\ x.command = a.command
                                 /\ x.relay = y.relay \ {a.playerID}
<1>1. PICK y \in relayed[p] : y.command = a.command /\ x = [y EXCEPT !.relay = @ \ {a.playerID}]
  BY DEF StillAwaited
<1>2. y \in [command : Command, relay : (SUBSET Players) \ {{}}]
  BY DEF TypeInv, TypeOK
<1> QED
  BY <1>1, <1>2

LEMMA GivenReceiveAck ==
    ASSUME TypeInv, GivenInv, NEW p \in Players, NEW a \in acks, ReceiveAck(p, a)
    PROVE  GivenInv'
<1>1. received' = received /\ sent' = sent
  BY ReceiveAckAdds
<1>2. \A q \in Players : pending'[q] \subseteq pending[q]
  BY ReceiveAckAdds DEF TypeInv, TypeOK
<1>3. ASSUME NEW q \in Players, NEW x \in relayed'[q]
      PROVE  \E y \in relayed[q] : y.command = x.command
  BY ReceiveAckAdds, StillAwaitedForm
<1> QED
  BY <1>1, <1>2, <1>3 DEF GivenInv, Given, Giver

LEMMA GivenQuiet == GivenInv /\ Quiet => GivenInv'
BY DEF GivenInv, Quiet, Given, Giver

-----------------------------------------------------------------------------
(* The first router *)

(* While the first router plays on he is everybody's router.                *)
LEMMA FirstRouter ==
    ASSUME NEW p \in Players
    PROVE  /\ TypeInv /\ TopologyInv =>
                 /\ 0 \in Open(p) => GoesToRouter(p) /\ PacketRouter(p) = 0
                 /\ PlayOn(0) /\ ~HasLeft(p) => PacketRouter(p) = 0
                 /\ PlayOn(p) => ~HasLeft(p)
           /\ TypeInv' /\ TopologyInv' =>
                 /\ 0 \in Open(p)' => GoesToRouter(p)' /\ PacketRouter(p)' = 0
                 /\ PlayOn(0)' /\ ~HasLeft(p)' => PacketRouter(p)' = 0
                 /\ PlayOn(p)' => ~HasLeft(p)'
<1>1. 0 \in Players
  BY PlayersAssumption
<1>2. TypeInv /\ TopologyInv =>
          /\ 0 \in Open(p) => GoesToRouter(p) /\ PacketRouter(p) = 0
          /\ PlayOn(0) /\ ~HasLeft(p) => PacketRouter(p) = 0
          /\ PlayOn(p) => ~HasLeft(p)
  <2> SUFFICES ASSUME TypeInv, TopologyInv
               PROVE  /\ 0 \in Open(p) => GoesToRouter(p) /\ PacketRouter(p) = 0
                      /\ PlayOn(0) /\ ~HasLeft(p) => PacketRouter(p) = 0
                      /\ PlayOn(p) => ~HasLeft(p)
    OBVIOUS
  <2>1. 0 \in Open(p) => 0 \in fallback[p] /\ 0 \in connections[p]
    BY DEF TopologyInv, Open
  <2>2. PlayOn(0) /\ ~HasLeft(p) => 0 \in fallback[p]
    BY <1>1 DEF TopologyInv, HasLeft
  <2> QED
    BY <2>1, <2>2, RouterInPlan DEF GoesToRouter, TopologyInv, PlayOn
<1>3. TypeInv' /\ TopologyInv' =>
          /\ 0 \in Open(p)' => GoesToRouter(p)' /\ PacketRouter(p)' = 0
          /\ PlayOn(0)' /\ ~HasLeft(p)' => PacketRouter(p)' = 0
          /\ PlayOn(p)' => ~HasLeft(p)'
  <2> SUFFICES ASSUME TypeInv', TopologyInv'
               PROVE  /\ 0 \in Open(p)' => GoesToRouter(p)' /\ PacketRouter(p)' = 0
                      /\ PlayOn(0)' /\ ~HasLeft(p)' => PacketRouter(p)' = 0
                      /\ PlayOn(p)' => ~HasLeft(p)'
    OBVIOUS
  <2>1. 0 \in Open(p)' => 0 \in fallback'[p] /\ 0 \in connections'[p]
    BY DEF TopologyInv, Open
  <2>2. PlayOn(0)' /\ ~HasLeft(p)' => 0 \in fallback'[p]
    BY <1>1 DEF TopologyInv, HasLeft
  <2> QED
    BY <2>1, <2>2, RouterInPlan DEF GoesToRouter, TopologyInv, PlayOn
<1> QED
  BY <1>2, <1>3

(* Nobody has an open connection to himself, and who has one is still in    *)
(* the game and connected to everybody who plays on.                        *)
LEMMA OpenTo ==
    ASSUME TypeInv, TopologyInv, NEW p \in Players, NEW q \in Open(p)
    PROVE  /\ q \in Players \ {p} /\ q \in connections[p] /\ ~HasLeft(p)
           /\ \A r \in Players \ {p} : PlayOn(r) => r \in Open(p)
BY DEF TypeInv, TypeOK, TopologyInv, Open

LEMMA OpenToNext ==
    ASSUME TypeInv', TopologyInv', NEW p \in Players, NEW q, q \in Open(p)'
    PROVE  q \in Players \ {p} /\ q \in connections'[p] /\ ~HasLeft(p)'
BY DEF TypeInv, TypeOK, TopologyInv, Open

-----------------------------------------------------------------------------
(* Packets *)

LEMMA PacketRuleStays ==
    ASSUME Grows, NEW e, PacketRule(e)
    PROVE  PacketRule(e)'
<1>1. 0 \in Players
  BY PlayersAssumption
<1>2. PlayOn(0)' => PlayOn(0)
  BY <1>1 DEF Grows
<1>3. \A r \in Players : e.command \in received[r] => e.command \in received'[r]
  BY DEF Grows
<1> QED
  BY <1>2, <1>3 DEF PacketRule, Giver, EverybodyElse

(* A player's own packets: to the router for all others, or to each one.    *)
LEMMA OwnPackets ==
    ASSUME TypeInv, GivenInv, TypeInv', TopologyInv', NEW p \in Players, NEW new,
           Dispatches(p, new), NEW kept, NEW packets, Resends(p, kept, new, packets),
           NEW e \in packets
    PROVE  PacketRule(e)'
<1>1. e.command \in pending[p] \union new /\ e \in LocalSends(p, e.command, Players)'
  BY DEF Resends
<1>2. Giver(e) = p
  BY <1>1 DEF GivenInv, Given, Dispatches, Giver
<1>3. /\ e.to \in Open(p)'
      /\ IF GoesToRouter(p)' THEN e.to = PacketRouter(p)' /\ e.relay = Players \ {p}
         ELSE e.relay = {e.to}
  BY <1>1, LocalSendsForm
<1>4. e.to \in Players \ {p} /\ e.to \in connections'[p] /\ ~HasLeft(p)'
  BY <1>3, OpenToNext
<1>5. CASE GoesToRouter(p)'
  <2>1. e.to = PacketRouter(p)' /\ e.relay = EverybodyElse(e)
    BY <1>2, <1>3, <1>5 DEF EverybodyElse
  <2>2. PlayOn(0)' => e.to = 0
    BY <1>4, <2>1, FirstRouter
  <2> QED
    BY <1>2, <1>4, <2>1, <2>2 DEF PacketRule, EverybodyElse, Giver
<1>6. CASE ~GoesToRouter(p)'
  <2>1. e.to # 0
    BY <1>3, <1>6, FirstRouter
  <2> QED
    BY <1>2, <1>3, <1>4, <1>6, <2>1 DEF PacketRule, Giver
<1> QED
  BY <1>5, <1>6

LEMMA SentDispatches ==
    ASSUME TypeInv, GivenInv, SentInv, TypeInv', TopologyInv', Grows,
           NEW p \in Players, NEW new, Dispatches(p, new)
    PROVE  SentInv'
<1>1. PICK kept, packets : Resends(p, kept, new, packets)
  BY DEF Dispatches
<1> SUFFICES ASSUME NEW e \in sent' PROVE PacketRule(e)'
  BY DEF SentInv
<1>2. CASE e \in sent
  BY <1>2, PacketRuleStays DEF SentInv
<1>3. CASE e \in packets
  BY <1>1, <1>3, OwnPackets
<1> QED
  BY <1>1, <1>2, <1>3 DEF Resends

(* Only a packet for everybody is relayed.                                  *)
LEMMA OnlyWideIsRelayed ==
    ASSUME TypeInv, TopologyInv, SentInv, NEW p \in Players, NEW e \in sent, e.to = p,
           NEW q \in e.relay, q \in Open(p)
    PROVE  /\ e.relay = EverybodyElse(e) /\ p # Giver(e) /\ p \in e.relay
           /\ q \in Players \ {p} /\ q # Giver(e) /\ (PlayOn(0) => p = 0)
<1>1. PacketRule(e)
  BY DEF SentInv
<1>2. q \in Players \ {p}
  BY OpenTo
<1>3. e.relay = EverybodyElse(e)
  BY <1>1, <1>2 DEF PacketRule
<1> QED
  BY <1>1, <1>2, <1>3 DEF PacketRule, EverybodyElse

LEMMA SentReceiveCommand ==
    ASSUME TypeInv, TopologyInv, SentInv, Grows, NEW p \in Players, NEW e \in sent,
           ReceiveCommand(p, e)
    PROVE  SentInv'
<1> SUFFICES ASSUME NEW x \in sent' PROVE PacketRule(x)'
  BY DEF SentInv
<1>1. CASE x \in sent
  BY <1>1, PacketRuleStays DEF SentInv
<1>2. CASE x \notin sent
  <2>1. /\ x \in DirectSends(p, e.command, e.relay) /\ e.to = p
        /\ Giver(e) \in connections[p] \union {p}
    BY <1>2, ReceiveCommandAdds
  <2>2. /\ x.command = e.command /\ x.relay = {x.to}
        /\ x.to \in e.relay /\ x.to \in Open(p)
    BY <2>1, DirectSendsForm
  <2>3. /\ e.relay = EverybodyElse(e) /\ p # Giver(e) /\ p \in e.relay
        /\ x.to \in Players \ {p} /\ x.to # Giver(e) /\ (PlayOn(0) => p = 0)
    BY <2>1, <2>2, OnlyWideIsRelayed
  <2>4. e.command \in received'[p]
    BY <2>1, <2>3, ReceiveCommandAdds
  <2>5. Giver(x) = Giver(e)
    BY <2>2 DEF Giver
  <2>6. PlayOn(0)' => x.to # 0
    BY <2>3, PlayersAssumption DEF Grows
  <2>7. x.to = 0 => p \in Players \ {0, Giver(x)}
    BY <2>3, <2>5
  <2>8. x.to = 0 /\ x.relay # EverybodyElse(x) =>
           \E r \in Players \ {0, Giver(x)} : x.command \in received'[r]
    BY <2>2, <2>4, <2>7
  <2>9. PlayOn(0)' => x.relay = IF x.to = 0 THEN EverybodyElse(x) ELSE {x.to}
    BY <2>2, <2>6
  <2>10. x.to # Giver(x) /\ x.to \in x.relay /\ x.relay = {x.to}
    BY <2>2, <2>3, <2>5
  <2> QED
    BY <2>8, <2>9, <2>10 DEF PacketRule, Giver, EverybodyElse
<1> QED
  BY <1>1, <1>2

LEMMA SentSame == SentInv /\ Grows /\ sent' = sent => SentInv'
BY PacketRuleStays DEF SentInv

-----------------------------------------------------------------------------
(* Acks *)

LEMMA AckRuleStays ==
    ASSUME TypeInv, Grows, NEW a \in acks, AckRule(a)
    PROVE  AckRule(a)'
<1>1. a.playerID \in Players /\ Giver(a) \in Players
  BY DEF TypeInv, TypeOK, Ack, Command, Giver
<1> QED
  BY <1>1 DEF AckRule, HeardByAll, Grows, Giver

LEMMA BothRuleStays ==
    ASSUME TypeInv, Grows, NEW a \in acks, BothRule(a)
    PROVE  BothRule(a)'
<1>1. Giver(a) \in Players /\ 0 \in Players
  BY PlayersAssumption DEF TypeInv, TypeOK, Ack, Command, Giver
<1>2. /\ PlayOn(Giver(a))' => PlayOn(Giver(a))
      /\ PlayOn(0)' => PlayOn(0)
      /\ \A q \in Players : PlayOn(q)' => PlayOn(q)
      /\ \A q \in Players : received[q] \subseteq received'[q]
  BY <1>1 DEF Grows
<1>3. HeardByAll(a.command) => HeardByAll(a.command)'
  BY <1>2 DEF HeardByAll
<1>4. (PlayOn(Giver(a)))' <=> PlayOn(Giver(a))'
  BY DEF Giver
<1> QED
  BY <1>2, <1>3, <1>4 DEF BothRule, Giver

(* The ack of a command that was just taken from a packet.                  *)
LEMMA AckForm ==
    ASSUME NEW p \in Players, NEW e, NEW a \in AcksFor(p, e)
    PROVE  /\ a.stage \in {"1", "BOTH"} /\ a.command = e.command /\ a.playerID = p
           /\ a.relay = {a.to} /\ a.to \in AckTo(p, e) /\ a.to \in Open(p)
           /\ a.stage = "BOTH" => e.relay \intersect Open(p) = {}
BY DEF AcksFor, AckStage

(* Who can ack takes the command, if its giver plays on.                    *)
LEMMA AckerTakes ==
    ASSUME TypeInv, TopologyInv, SentInv, NEW p \in Players, NEW e \in sent,
           ReceiveCommand(p, e), NEW q \in Open(p), PlayOn(Giver(e))
    PROVE  /\ e.command \in received'[p] /\ p # Giver(e) /\ Giver(e) \in Players
           /\ Giver(e) \in Open(p)
<1>1. e.to = p /\ PacketRule(e)
  BY ReceiveCommandAdds DEF SentInv
<1>2. p # Giver(e) /\ p \in e.relay
  BY <1>1 DEF PacketRule
<1>3. Giver(e) \in Players
  BY DEF TypeInv, TypeOK, Packet, Command, Giver
<1>4. Giver(e) \in Open(p) /\ Giver(e) \in connections[p]
  BY <1>2, <1>3, OpenTo DEF Open
<1> QED
  BY <1>2, <1>3, <1>4, ReceiveCommandAdds

LEMMA AckReceiveCommand ==
    ASSUME TypeInv, TopologyInv, SentInv, AckInv, Grows, NEW p \in Players, NEW e \in sent,
           ReceiveCommand(p, e)
    PROVE  AckInv'
<1> SUFFICES ASSUME NEW a \in acks' PROVE AckRule(a)'
  BY DEF AckInv
<1>1. CASE a \in acks
  BY <1>1, AckRuleStays DEF AckInv
<1>2. CASE a \in AcksFor(p, e)
  <2>1. /\ a.stage # "2" /\ a.command = e.command /\ a.playerID = p
        /\ a.relay = {a.to} /\ a.to \in Open(p) /\ Giver(a) = Giver(e)
    BY <1>2, AckForm DEF Giver
  <2>2. p # Giver(e)
    <3>1. e.to = p
      BY ReceiveCommandAdds
    <3>2. e.to # Giver(e)
      BY DEF SentInv, PacketRule
    <3> QED
      BY <3>1, <3>2
  <2>3. Giver(e) \in Players
    BY DEF TypeInv, TypeOK, Packet, Command, Giver
  <2>4. PlayOn(Giver(e))' => e.command \in received'[p]
    BY <2>1, <2>3, AckerTakes DEF Grows
  <2> QED
    BY <2>1, <2>2, <2>4 DEF AckRule, Giver
<1> QED
  BY <1>1, <1>2, ReceiveCommandAdds

(* The first router acks for both stages what everybody else has or what    *)
(* another router sent him; the others do when they have it.                *)
LEMMA BothReceiveCommand ==
    ASSUME TypeInv, TopologyInv, GivenInv, SentInv, BothInv, Grows, TypeInv',
           NEW p \in Players, NEW e \in sent, ReceiveCommand(p, e)
    PROVE  BothInv'
<1> DEFINE c == e.command
<1> SUFFICES ASSUME NEW a \in acks' PROVE BothRule(a)'
  BY DEF BothInv
<1>1. CASE a \in acks
  BY <1>1, BothRuleStays DEF BothInv
<1>2. CASE a \in AcksFor(p, e) /\ a.stage = "BOTH" /\ PlayOn(Giver(a))'
  <2>1. /\ a.command = c /\ a.playerID = p /\ Giver(a) = Giver(e)
        /\ a.to \in AckTo(p, e) /\ a.to \in Open(p) /\ e.relay \intersect Open(p) = {}
    BY <1>2, AckForm DEF Giver
  <2>2. e.to = p /\ PacketRule(e)
    BY ReceiveCommandAdds DEF SentInv
  <2>3. Giver(e) \in Players
    BY DEF TypeInv, TypeOK, Packet, Command, Giver
  <2>4. PlayOn(Giver(e))
    BY <1>2, <2>1, <2>3 DEF Grows, Giver
  <2>5. c \in received'[p] /\ c \in received[Giver(e)] /\ c \in received'[Giver(e)]
    BY <2>1, <2>3, <2>4, AckerTakes DEF GivenInv, Grows
  <2>6. \A q \in Players \ {p} : PlayOn(q)' => q \in Open(p)
    BY <2>1, OpenTo DEF Grows
  <2>7. e.relay = EverybodyElse(e) => HeardByAll(c)'
    <3>1. ASSUME e.relay = EverybodyElse(e), NEW q \in Players, PlayOn(q)'
          PROVE  q = p \/ q = Giver(e)
      BY <2>1, <2>6, <3>1 DEF EverybodyElse
    <3> QED
      BY <2>5, <3>1 DEF HeardByAll
  <2>8. PlayOn(0)' /\ Giver(a) # 0 /\ a.to = Giver(a) => HeardByAll(c)'
    <3> SUFFICES ASSUME PlayOn(0)', Giver(a) # 0, a.to = Giver(a) PROVE HeardByAll(c)'
      OBVIOUS
    <3>1. PlayOn(0) /\ 0 \in Players /\ ~HasLeft(p)
      BY <2>1, OpenTo, PlayersAssumption DEF Grows
    <3>2. PacketRouter(p) = 0
      BY <3>1, FirstRouter
    <3>3. p = 0
      BY <2>1, <3>2 DEF AckTo
    <3> QED
      BY <2>2, <2>7, <3>1, <3>3 DEF PacketRule
  <2>9. ASSUME a.playerID = 0, NEW q \in Players, PlayOn(q)', Players \subseteq {0, Giver(a), q}
        PROVE  c \in received'[q]
    <3>1. CASE e.relay = EverybodyElse(e)
      BY <2>7, <2>9, <3>1 DEF HeardByAll
    <3>2. CASE e.relay # EverybodyElse(e)
      <4>1. PICK r \in Players \ {0, Giver(e)} : c \in received[r]
        BY <2>1, <2>2, <2>9, <3>2 DEF PacketRule
      <4>2. r = q
        BY <2>1, <2>9, <4>1
      <4> QED
        BY <4>1, <4>2 DEF Grows
    <3> QED
      BY <3>1, <3>2
  <2> QED
    BY <2>1, <2>8, <2>9 DEF BothRule, Giver
<1>3. CASE ~(a.stage = "BOTH" /\ PlayOn(Giver(a))')
  BY <1>3 DEF BothRule, Giver
<1> QED
  BY <1>1, <1>2, <1>3, ReceiveCommandAdds

(* Only a last ack is forwarded.                                            *)
LEMMA ForwardedForm ==
    ASSUME TypeInv, TopologyInv, AckInv, NEW p \in Players, NEW a \in acks, a.to = p,
           NEW x \in Forwarded(p, a)
    PROVE  a.stage = "2" /\ x.stage = "2" /\ x.command = a.command
<1>1. PICK q \in a.relay \intersect Open(p) : x = [a EXCEPT !.to = q, !.relay = {q}]
  BY DEF Forwarded
<1>2. x.stage = a.stage /\ x.command = a.command
  BY <1>1 DEF TypeInv, TypeOK, Ack
<1>3. p \notin Open(p)
  BY OpenTo
<1>4. a.relay # {p}
  BY <1>1, <1>3
<1> QED
  BY <1>2, <1>4 DEF AckInv, AckRule

(* The router that crossed off the last player knows everybody has it.      *)
LEMMA LastCrossedOff ==
    ASSUME TypeInv, AckInv, RelayedInv, NEW p \in Players, NEW a \in acks, a.stage # "1",
           NEW x \in Stage2Acks(p, a), PlayOn(Giver(a))
    PROVE  HeardByAll(a.command)
<1>1. PICK x0 \in StillAwaited(p, a) : x0.relay = {}
  BY DEF Stage2Acks
<1>2. PICK y \in relayed[p] : y.command = a.command /\ y.relay \subseteq {a.playerID}
  BY <1>1, StillAwaitedForm
<1>3. \A q \in Players : PlayOn(q) => a.command \in received[q] \/ q = a.playerID
  BY <1>2 DEF RelayedInv, RelayRule, Giver
<1>4. CASE a.stage = "2"
  BY <1>4 DEF AckInv, AckRule
<1>5. CASE a.stage # "2"
  BY <1>3, <1>5 DEF AckInv, AckRule, HeardByAll
<1> QED
  BY <1>4, <1>5

LEMMA Stage2Form ==
    ASSUME NEW p, NEW a, NEW x \in Stage2Acks(p, a)
    PROVE  x.stage = "2" /\ x.command = a.command
BY DEF Stage2Acks

LEMMA AckReceiveAck ==
    ASSUME TypeInv, TopologyInv, AckInv, RelayedInv, Grows, NEW p \in Players, NEW a \in acks,
           ReceiveAck(p, a)
    PROVE  AckInv'
<1> SUFFICES ASSUME NEW x \in acks' PROVE AckRule(x)'
  BY DEF AckInv
<1>1. Giver(a) \in Players /\ (PlayOn(Giver(a))' => PlayOn(Giver(a)))
  BY DEF TypeInv, TypeOK, Ack, Command, Giver, Grows
<1>2. CASE x \in acks
  BY <1>2, AckRuleStays DEF AckInv
<1>3. CASE x \notin acks
  <2>1. x.stage = "2" /\ x.command = a.command
    BY <1>3, ReceiveAckAdds, ForwardedForm, Stage2Form
  <2>2. PlayOn(Giver(a)) => HeardByAll(a.command)
    <3>1. CASE x \in Forwarded(p, a)
      BY <3>1, ForwardedForm, ReceiveAckAdds DEF AckInv, AckRule
    <3>2. CASE a.stage # "1" /\ x \in Stage2Acks(p, a)
      BY <3>2, LastCrossedOff
    <3> QED
      BY <1>3, <3>1, <3>2, ReceiveAckAdds
  <2>3. HeardByAll(a.command) => HeardByAll(a.command)'
    BY DEF HeardByAll, Grows
  <2> QED
    BY <1>1, <2>1, <2>2, <2>3 DEF AckRule, Giver, HeardByAll
<1> QED
  BY <1>2, <1>3

LEMMA BothReceiveAck ==
    ASSUME TypeInv, TopologyInv, AckInv, BothInv, Grows, NEW p \in Players, NEW a \in acks,
           ReceiveAck(p, a)
    PROVE  BothInv'
<1> SUFFICES ASSUME NEW x \in acks' PROVE BothRule(x)'
  BY DEF BothInv
<1>1. CASE x \in acks
  BY <1>1, BothRuleStays DEF BothInv
<1>2. CASE x \notin acks
  <2>1. x.stage = "2"
    BY <1>2, ReceiveAckAdds, ForwardedForm, Stage2Form
  <2> QED
    BY <2>1 DEF BothRule
<1> QED
  BY <1>1, <1>2

LEMMA AcksSame ==
    ASSUME TypeInv, AckInv, BothInv, Grows, acks' = acks
    PROVE  AckInv' /\ BothInv'
BY AckRuleStays, BothRuleStays DEF AckInv, BothInv

-----------------------------------------------------------------------------
(* Relayed commands *)

LEMMA RelayRuleStays ==
    ASSUME TypeInv, Grows, NEW r \in Players, NEW x \in relayed[r], RelayRule(x)
    PROVE  RelayRule(x)'
<1>1. Giver(x) \in Players
  BY DEF TypeInv, TypeOK, Command, Giver
<1> QED
  BY <1>1 DEF RelayRule, Grows, Giver

LEMMA RelayedReceiveCommand ==
    ASSUME TypeInv, TopologyInv, GivenInv, SentInv, RelayedInv, Grows, NEW p \in Players,
           NEW e \in sent, ReceiveCommand(p, e)
    PROVE  RelayedInv'
<1> SUFFICES ASSUME NEW r \in Players, NEW x \in relayed'[r] PROVE RelayRule(x)'
  BY DEF RelayedInv
<1>1. CASE x \in relayed[r]
  BY <1>1, RelayRuleStays DEF RelayedInv
<1>2. CASE x \notin relayed[r]
  <2>1. /\ x = [command |-> e.command, relay |-> Awaited(p, e)]
        /\ DirectSends(p, e.command, e.relay) # {} /\ e.to = p
    BY <1>2, ReceiveCommandAdds
  <2>2. PICK q \in e.relay : q \in Open(p)
    BY <2>1 DEF DirectSends
  <2>3. e.relay = EverybodyElse(e)
    BY <2>1, <2>2, OnlyWideIsRelayed
  <2>4. x.command = e.command /\ x.relay = e.relay \intersect Open(p) /\ Giver(x) = Giver(e)
    BY <2>1 DEF Giver, Awaited
  <2>5. Giver(e) \in Players /\ (PlayOn(Giver(e))' => PlayOn(Giver(e)))
    BY DEF TypeInv, TypeOK, Packet, Command, Giver, Grows
  <2>6. ASSUME PlayOn(Giver(e)), NEW s \in Players, PlayOn(s)'
        PROVE  e.command \in received'[s] \/ s \in e.relay \intersect Open(p)
    <3>1. CASE s = p
      BY <2>2, <2>6, <3>1, AckerTakes
    <3>2. CASE s = Giver(e)
      BY <3>2 DEF GivenInv, Grows
    <3>3. CASE s # p /\ s # Giver(e)
      BY <2>2, <2>3, <2>6, <3>3, OpenTo DEF Grows, EverybodyElse
    <3> QED
      BY <3>1, <3>2, <3>3
  <2> QED
    BY <2>4, <2>5, <2>6 DEF RelayRule, Giver
<1> QED
  BY <1>1, <1>2

LEMMA RelayedReceiveAck ==
    ASSUME TypeInv, TopologyInv, AckInv, RelayedInv, Grows, NEW p \in Players, NEW a \in acks,
           ReceiveAck(p, a)
    PROVE  RelayedInv'
<1> SUFFICES ASSUME NEW r \in Players, NEW x \in relayed'[r] PROVE RelayRule(x)'
  BY DEF RelayedInv
<1>1. CASE x \in relayed[r]
  BY <1>1, RelayRuleStays DEF RelayedInv
<1>2. CASE x \notin relayed[r]
  <2>1. a.stage # "1" /\ x \in StillAwaited(p, a)
    BY <1>2, ReceiveAckAdds
  <2>2. PICK y \in relayed[p] : /\ y.command = a.command /\ x.command = a.command
                                /\ x.relay = y.relay \ {a.playerID}
    BY <2>1, StillAwaitedForm
  <2>3. Giver(a) \in Players /\ (PlayOn(Giver(a))' => PlayOn(Giver(a)))
    BY DEF TypeInv, TypeOK, Ack, Command, Giver, Grows
  <2>4. ASSUME PlayOn(Giver(a)), NEW s \in Players, PlayOn(s)'
        PROVE  a.command \in received'[s] \/ s \in x.relay
    <3>1. PlayOn(s) /\ received[s] \subseteq received'[s]
      BY <2>4 DEF Grows
    <3>2. a.command \in received[s] \/ s \in y.relay
      BY <2>2, <2>4, <3>1 DEF RelayedInv, RelayRule, Giver
    <3>3. s = a.playerID => a.command \in received[s]
      BY <2>4, <3>1 DEF AckInv, AckRule, HeardByAll
    <3> QED
      BY <2>2, <3>1, <3>2, <3>3
  <2> QED
    BY <2>2, <2>3, <2>4 DEF RelayRule, Giver
<1> QED
  BY <1>1, <1>2

LEMMA RelayedSame ==
    ASSUME TypeInv, RelayedInv, Grows, relayed' = relayed
    PROVE  RelayedInv'
BY RelayRuleStays DEF RelayedInv

-----------------------------------------------------------------------------
(* The first router's own commands *)

LEMMA PendingDispatches ==
    ASSUME TypeInv, PendingInv, Grows, TypeInv', TopologyInv', NEW p \in Players, NEW new,
           Dispatches(p, new)
    PROVE  PendingInv'
<1> SUFFICES ASSUME PlayOn(0)' PROVE pending'[0] = {}
  BY DEF PendingInv
<1>1. 0 \in Players /\ PlayOn(0)
  BY PlayersAssumption DEF Grows
<1>2. PICK kept, packets : Resends(p, kept, new, packets)
  BY DEF Dispatches
<1>3. pending' = [pending EXCEPT ![p] = @ \union (IF GoesToRouter(p)' THEN new ELSE {})]
  BY <1>2 DEF Resends
<1>4. ~GoesToRouter(0)'
  <2>1. PacketRouter(0)' = 0
    BY <1>1, FirstRouter
  <2> QED
    BY <1>1, <2>1 DEF GoesToRouter, TopologyInv
<1>5. p = 0 => ~GoesToRouter(p)'
  BY <1>4 DEF GoesToRouter, PacketRouter
<1>6. pending'[0] = pending[0]
  <2>1. CASE p = 0
    BY <1>1, <1>3, <1>5, <2>1 DEF TypeInv, TypeOK
  <2>2. CASE p # 0
    BY <1>1, <1>3, <2>2 DEF TypeInv, TypeOK
  <2> QED
    BY <2>1, <2>2
<1> QED
  BY <1>1, <1>6 DEF PendingInv

LEMMA PendingShrinks ==
    ASSUME PendingInv, Grows, \A q \in Players : pending'[q] \subseteq pending[q]
    PROVE  PendingInv'
BY PlayersAssumption DEF PendingInv, Grows

-----------------------------------------------------------------------------
(* Kept until heard *)

(* Two who play on together after a step did so before it.                  *)
LEMMA TogetherBefore ==
    ASSUME TypeInv, TopologyInv, Grows, TypeInv', TopologyInv', NEW p \in Players,
           NEW q \in Players, Together(p, q)', AcksMeanAll(p, q)'
    PROVE  /\ p # q /\ PlayOn(p) /\ PlayOn(q) /\ q \in Open(p) /\ q \in Open(p)'
           /\ Together(p, q) /\ AcksMeanAll(p, q)
<1>1. PlayOn(p) /\ PlayOn(q) /\ q \in Open(p)' /\ p \in Open(q)'
  BY DEF Together, Grows
<1>2. p # q /\ ~HasLeft(p) /\ ~HasLeft(q)
  BY <1>1, OpenToNext, FirstRouter
<1>3. q \in Open(p) /\ p \in Open(q)
  BY <1>1, <1>2 DEF TopologyInv
<1>4. AcksMeanAll(p, q)
  BY PlayersAssumption DEF AcksMeanAll, Grows
<1> QED
  BY <1>1, <1>2, <1>3, <1>4 DEF Together

LEMMA KeptDispatches ==
    ASSUME TypeInv, TopologyInv, KeptUntilHeard, Grows, TypeInv', TopologyInv',
           NEW r \in Players, NEW new, Dispatches(r, new)
    PROVE  KeptUntilHeard'
<1> SUFFICES ASSUME NEW p \in Players, NEW q \in Players, Together(p, q)', AcksMeanAll(p, q)',
                    NEW c \in Given(p)', c \notin received'[q]
             PROVE  c \in pending'[p] \/ HeldFor(p, c, q)'
  BY DEF KeptUntilHeard
<1>1. /\ p # q /\ PlayOn(q) /\ q \in Open(p)' /\ Together(p, q) /\ AcksMeanAll(p, q)
  BY TogetherBefore
<1>2. PICK kept, packets :
         /\ Resends(r, kept, new, packets)
         /\ \A e \in queue[r] : PlayOn(e.to) => e \in kept
  BY DEF Dispatches
<1>3. queue'[p] = IF p = r THEN AddedTo(kept, packets) ELSE queue[p]
  BY <1>2 DEF Resends, TypeInv, TypeOK
<1>4. CASE c \in received[p]
  <2>1. c \in pending[p] \/ HeldFor(p, c, q)
    BY <1>1, <1>4 DEF KeptUntilHeard, Given, Grows
  <2>2. pending[p] \subseteq pending'[p]
    BY <1>2 DEF Resends, TypeInv, TypeOK
  <2>3. HeldFor(p, c, q) => HeldFor(p, c, q)'
    <3> SUFFICES ASSUME NEW e \in queue[p], e.to = q, e.command = c
                 PROVE  e \in queue'[p]
      BY DEF HeldFor
    <3>1. PlayOn(e.to)
      BY <1>1
    <3> QED
      BY <1>2, <1>3, <3>1, AddedKeeps
  <2> QED
    BY <2>1, <2>2, <2>3
<1>5. CASE c \notin received[p]
  <2>1. p = r /\ c \in new
    BY <1>5 DEF Dispatches, Given, TypeInv, TypeOK
  <2>2. CASE GoesToRouter(r)'
    BY <1>2, <2>1, <2>2 DEF Resends, TypeInv, TypeOK
  <2>3. CASE ~GoesToRouter(r)'
    <3> DEFINE e == [command |-> c, to |-> q, relay |-> {q}]
    <3>1. q \in Open(r)'
      BY <1>1, <2>1 DEF Open
    <3>2. e \in LocalSends(r, c, Players)'
      BY <2>3, <3>1 DEF LocalSends, DirectSends
    <3>3. e \in packets
      BY <1>2, <2>1, <3>2 DEF Resends
    <3>4. \E x \in AddedTo(kept, packets) : x.to = e.to /\ x.command = e.command
      BY <3>3, AddedKeeps
    <3> QED
      BY <1>3, <2>1, <3>4 DEF HeldFor
  <2> QED
    BY <2>2, <2>3
<1> QED
  BY <1>4, <1>5

LEMMA ReceiveCommandQueues ==
    ASSUME TypeInv, NEW p \in Players, NEW e \in sent, ReceiveCommand(p, e)
    PROVE  \A q \in Players : queue[q] \subseteq queue'[q]
<1> DEFINE relays == DirectSends(p, e.command, e.relay)
<1>1. queue' = queue \/ queue' = [queue EXCEPT ![p] = AddedTo(@, relays)]
  BY DEF ReceiveCommand
<1>2. queue[p] \subseteq AddedTo(queue[p], relays)
  BY AddedKeeps
<1> QED
  BY <1>1, <1>2 DEF TypeInv, TypeOK

LEMMA KeptReceiveCommand ==
    ASSUME TypeInv, TopologyInv, GivenInv, KeptUntilHeard, Grows, TypeInv', TopologyInv',
           NEW r \in Players, NEW e \in sent, ReceiveCommand(r, e)
    PROVE  KeptUntilHeard'
<1> SUFFICES ASSUME NEW p \in Players, NEW q \in Players, Together(p, q)', AcksMeanAll(p, q)',
                    NEW c \in Given(p)', c \notin received'[q]
             PROVE  c \in pending'[p] \/ HeldFor(p, c, q)'
  BY DEF KeptUntilHeard
<1>1. Together(p, q) /\ AcksMeanAll(p, q)
  BY TogetherBefore
<1>2. c \in Given(p)
  BY ReceiveCommandAdds DEF Given, GivenInv, Giver
<1>3. c \in pending[p] \/ HeldFor(p, c, q)
  BY <1>1, <1>2 DEF KeptUntilHeard, Grows
<1> QED
  BY <1>3, ReceiveCommandAdds, ReceiveCommandQueues DEF HeldFor

(* An ack that ends a command's wait means that q has it too.               *)
LEMMA AckMeansHeard ==
    ASSUME TypeInv, GivenInv, AckInv, BothInv, PendingInv, NEW p \in Players, NEW q \in Players,
           PlayOn(p), PlayOn(q), AcksMeanAll(p, q),
           NEW a \in acks, a.to = p, a.stage # "1", a.command \in pending[p]
    PROVE  a.command \in received[q]
<1>1. Giver(a) = p
  BY DEF GivenInv, Given, Giver
<1>2. PlayOn(Giver(a)) /\ AckRule(a) /\ BothRule(a)
  BY <1>1 DEF AckInv, BothInv
<1>3. CASE a.stage = "2"
  BY <1>2, <1>3 DEF AckRule, HeardByAll
<1>4. CASE a.stage = "BOTH" /\ PlayOn(0)
  <2>1. p # 0
    BY <1>4 DEF PendingInv
  <2>2. HeardByAll(a.command)
    BY <1>1, <1>2, <1>4, <2>1 DEF BothRule
  <2> QED
    BY <2>2 DEF HeardByAll
<1>5. CASE a.stage = "BOTH" /\ Players \subseteq {0, p, q}
  <2>1. a.playerID \in {0, p, q}
    BY <1>5 DEF TypeInv, TypeOK, Ack
  <2>2. a.playerID # p /\ a.command \in received[a.playerID]
    BY <1>1, <1>2, <1>5 DEF AckRule
  <2>3. a.playerID = 0 => a.command \in received[q]
    BY <1>1, <1>2, <1>5 DEF BothRule
  <2> QED
    BY <2>1, <2>2, <2>3
<1>6. a.stage \in {"1", "2", "BOTH"}
  BY DEF TypeInv, TypeOK, Ack
<1> QED
  BY <1>3, <1>4, <1>5, <1>6 DEF AcksMeanAll

LEMMA KeptReceiveAck ==
    ASSUME TypeInv, TopologyInv, GivenInv, AckInv, BothInv, PendingInv, KeptUntilHeard, Grows,
           TypeInv', TopologyInv', NEW r \in Players, NEW a \in acks, ReceiveAck(r, a)
    PROVE  KeptUntilHeard'
<1> SUFFICES ASSUME NEW p \in Players, NEW q \in Players, Together(p, q)', AcksMeanAll(p, q)',
                    NEW c \in Given(p)', c \notin received'[q]
             PROVE  c \in pending'[p] \/ HeldFor(p, c, q)'
  BY DEF KeptUntilHeard
<1>1. PlayOn(p) /\ PlayOn(q) /\ Together(p, q) /\ AcksMeanAll(p, q)
  BY TogetherBefore
<1>2. c \in Given(p) /\ c \notin received[q] /\ a.to = r
  BY ReceiveAckAdds DEF Given
<1>3. CASE c \in pending[p]
  <2>1. r = p /\ a.stage # "1" => c # a.command
    BY <1>1, <1>2, <1>3, AckMeansHeard
  <2>2. pending' = IF a.stage = "1" THEN pending ELSE [pending EXCEPT ![r] = @ \ {a.command}]
    BY ReceiveAckAdds
  <2>3. c \in pending'[p]
    BY <1>3, <2>1, <2>2 DEF TypeInv, TypeOK
  <2> QED
    BY <2>3
<1>4. CASE HeldFor(p, c, q)
  <2>1. PICK e \in queue[p] : e.to = q /\ e.command = c
    BY <1>4 DEF HeldFor
  <2>2. ~(a.stage # "2" /\ a.playerID = q /\ a.command = c)
    BY <1>1, <1>2 DEF AckInv, AckRule, Given, Giver
  <2>3. e \in AfterStage1(p, a)
    BY <2>1, <2>2 DEF AfterStage1
  <2>4. queue' = [queue EXCEPT ![r] = AfterStage1(r, a)]
    BY ReceiveAckAdds
  <2>5. e \in queue'[p]
    BY <2>1, <2>3, <2>4 DEF TypeInv, TypeOK
  <2> QED
    BY <2>1, <2>5 DEF HeldFor
<1> QED
  BY <1>1, <1>2, <1>3, <1>4 DEF KeptUntilHeard

(* Who goes clears only his own lists, or that of somebody who goes.        *)
LEMMA KeptQuiet ==
    ASSUME TypeInv, TopologyInv, KeptUntilHeard, Grows, TypeInv', TopologyInv', Quiet,
           NEW r \in Players, NEW s \in Players,
           QuitGame(r) \/ Crash(r) \/ ExecuteOwnLeave(r) \/ DropConnection(r, s)
    PROVE  KeptUntilHeard'
<1> SUFFICES ASSUME NEW p \in Players, NEW q \in Players, Together(p, q)', AcksMeanAll(p, q)',
                    NEW c \in Given(p)', c \notin received'[q]
             PROVE  c \in pending'[p] \/ HeldFor(p, c, q)'
  BY DEF KeptUntilHeard
<1>1. PlayOn(p) /\ q \in Open(p) /\ Together(p, q) /\ AcksMeanAll(p, q)
  BY TogetherBefore
<1>2. c \in Given(p) /\ c \notin received[q] /\ pending' = pending
  BY DEF Quiet, Given
<1>3. c \in pending[p] \/ HeldFor(p, c, q)
  BY <1>1, <1>2 DEF KeptUntilHeard
<1>4. ASSUME NEW e \in queue[p], e.to = q PROVE e \in queue'[p]
  <2>1. CASE QuitGame(r) \/ Crash(r)
    BY <2>1 DEF QuitGame, Crash, lists
  <2>2. CASE ExecuteOwnLeave(r)
    <3>1. r # p
      BY <1>1, <2>2 DEF ExecuteOwnLeave, PlayOn
    <3> QED
      BY <2>2, <3>1 DEF ExecuteOwnLeave, TypeInv, TypeOK
  <2>3. CASE DropConnection(r, s)
    <3>1. queue' = [queue EXCEPT ![r] = QueueWithout(r, {s})] /\ s \in quitting[r]
      BY <2>3 DEF DropConnection
    <3>2. r = p => e \in QueueWithout(p, {s})
      BY <1>1, <1>4, <3>1 DEF QueueWithout, Open
    <3> QED
      BY <3>1, <3>2 DEF TypeInv, TypeOK
  <2> QED
    BY <2>1, <2>2, <2>3
<1> QED
  BY <1>2, <1>3, <1>4 DEF HeldFor

LEMMA KeptUnchanged ==
    ASSUME KeptUntilHeard, UNCHANGED vars
    PROVE  KeptUntilHeard'
BY DEF KeptUntilHeard, vars, topology, lists, network, Together, AcksMeanAll, PlayOn, Open,
       GivenOf, Given, HeldFor

-----------------------------------------------------------------------------
(* The theorems *)

LEMMA RelayInit == Init => RelayInv
<1> SUFFICES ASSUME Init PROVE RelayInv
  OBVIOUS
<1>1. TypeInv
  BY FS_EmptySet DEF Init, TypeInv, TypeOK, Others
<1>2. TopologyInv
  <2>1. \A p \in Players : Open(p) = Players \ {p} /\ ~HasLeft(p)
    BY DEF Init, Others, Open, HasLeft
  <2>2. \A p \in Players : p \notin connections[p] /\ quitting[p] \subseteq connections[p]
    BY DEF Init, Others
  <2>3. \A p \in Players : Open(p) \subseteq fallback[p]
    BY <2>1 DEF Init
  <2>4. disconnects = {}
    BY DEF Init
  <2> QED
    BY <2>1, <2>2, <2>3, <2>4 DEF TopologyInv
<1>3. /\ \A p \in Players : received[p] = {} /\ pending[p] = {} /\ relayed[p] = {}
      /\ sent = {} /\ acks = {}
  BY DEF Init
<1>4. KeptUntilHeard
  BY <1>3 DEF KeptUntilHeard, Given
<1> QED
  BY <1>1, <1>2, <1>3, <1>4, PlayersAssumption
     DEF RelayInv, GivenInv, SentInv, AckInv, BothInv, RelayedInv, PendingInv

(* A step that sends what is given or pending keeps the rest.               *)
LEMMA DispatchesStep ==
    ASSUME RelayInv, NEW p \in Players, NEW new, Dispatches(p, new), TypeInv', TopologyInv'
    PROVE  RelayInv'
<1> USE DEF RelayInv
<1>1. Grows
  BY DispatchesGrows
<1>2. acks' = acks /\ relayed' = relayed
  BY DEF Dispatches
<1>3. GivenInv' /\ SentInv'
  BY <1>1, GivenDispatches, SentDispatches
<1>4. AckInv' /\ BothInv' /\ RelayedInv'
  BY <1>1, <1>2, AcksSame, RelayedSame
<1>5. PendingInv' /\ KeptUntilHeard'
  BY <1>1, PendingDispatches, KeptDispatches
<1> QED
  BY <1>3, <1>4, <1>5

LEMMA SendStep ==
    ASSUME RelayInv, NEW p \in Players, SendGameCommand(p) \/ SendPlayerLeave(p)
    PROVE  RelayInv'
<1> USE DEF RelayInv
<1>1. PICK c : Dispatches(p, {c}) /\ UNCHANGED <<topology, disconnects>>
  BY SendGameCommandDispatches
<1>2. Grows
  BY <1>1, DispatchesGrows
<1>3. UNCHANGED <<running, connections, quitting, fallback, disconnects>>
  BY <1>1 DEF topology
<1>4. TypeInv'
  BY <1>1, <1>3, DispatchesTypes DEF TypeInv, TypeOK
<1>5. TopologyInv'
  BY <1>2, <1>3, TopologyKept DEF TopologyInv
<1> QED
  BY <1>1, <1>4, <1>5, DispatchesStep

LEMMA ForgetStep ==
    ASSUME RelayInv, NEW p \in Players, NEW slot, NEW new, Dispatches(p, new), Forgets(p, slot)
    PROVE  RelayInv'
<1> USE DEF RelayInv
<1>1. Grows
  BY DispatchesGrows
<1>2. fallback' \in [Players -> SUBSET Players]
  BY DEF Forgets, TypeInv, TypeOK
<1>3. TypeInv'
  BY <1>2, DispatchesTypes DEF Forgets
<1>4. TopologyInv'
  BY <1>1, TopologyForgets
<1> QED
  BY <1>3, <1>4, DispatchesStep

LEMMA ReceiveCommandStep ==
    ASSUME RelayInv, NEW p \in Players, NEW e \in sent, ReceiveCommand(p, e)
    PROVE  RelayInv'
<1> USE DEF RelayInv
<1>1. Grows
  BY ReceiveCommandGrows
<1>2. UNCHANGED <<running, connections, quitting, fallback, pending, disconnects>>
  BY ReceiveCommandAdds DEF topology
<1>3. TypeInv'
  BY ReceiveCommandTypes
<1>4. TopologyInv'
  BY <1>1, <1>2, TopologyKept DEF TopologyInv
<1>5. GivenInv' /\ SentInv'
  BY <1>1, GivenReceiveCommand, SentReceiveCommand
<1>6. AckInv' /\ BothInv' /\ RelayedInv'
  BY <1>1, <1>3, AckReceiveCommand, BothReceiveCommand, RelayedReceiveCommand
<1>7. PendingInv' /\ KeptUntilHeard'
  BY <1>1, <1>2, <1>3, <1>4, PendingShrinks, KeptReceiveCommand
<1> QED
  BY <1>3, <1>4, <1>5, <1>6, <1>7

LEMMA ReceiveAckStep ==
    ASSUME RelayInv, NEW p \in Players, NEW a \in acks, ReceiveAck(p, a)
    PROVE  RelayInv'
<1> USE DEF RelayInv
<1>1. Grows
  BY ReceiveAckGrows
<1>2. UNCHANGED <<running, connections, quitting, fallback, sent, disconnects>>
  BY ReceiveAckAdds DEF topology
<1>3. TypeInv'
  BY ReceiveAckTypes
<1>4. TopologyInv'
  BY <1>1, <1>2, TopologyKept DEF TopologyInv
<1>5. GivenInv' /\ SentInv'
  BY <1>1, <1>2, GivenReceiveAck, SentSame
<1>6. AckInv' /\ BothInv' /\ RelayedInv'
  BY <1>1, AckReceiveAck, BothReceiveAck, RelayedReceiveAck
<1>7. \A q \in Players : pending'[q] \subseteq pending[q]
  BY ReceiveAckAdds DEF TypeInv, TypeOK
<1>8. PendingInv' /\ KeptUntilHeard'
  BY <1>1, <1>3, <1>4, <1>7, PendingShrinks, KeptReceiveAck
<1> QED
  BY <1>3, <1>4, <1>5, <1>6, <1>8

LEMMA GoingStep ==
    ASSUME RelayInv, NEW p \in Players, NEW q \in Players,
           QuitGame(p) \/ Crash(p) \/ ExecuteOwnLeave(p) \/ DropConnection(p, q)
    PROVE  RelayInv'
<1> USE DEF RelayInv
<1>1. Quiet /\ Grows
  BY QuietSteps, QuietGrows
<1>2. TypeInv'
  BY GoingTypes
<1>3. TopologyInv'
  BY <1>1, TopologyStops, TopologyOwnLeave, TopologyDropConnection
<1>4. GivenInv' /\ SentInv' /\ AckInv' /\ BothInv' /\ RelayedInv' /\ PendingInv'
  BY <1>1, GivenQuiet, SentSame, AcksSame, RelayedSame, PendingShrinks DEF Quiet
<1>5. KeptUntilHeard'
  BY <1>1, <1>2, <1>3, KeptQuiet
<1> QED
  BY <1>2, <1>3, <1>4, <1>5

LEMMA UnchangedStep ==
    ASSUME RelayInv, UNCHANGED vars
    PROVE  RelayInv'
<1> USE DEF RelayInv
<1>1. /\ UNCHANGED <<running, connections, quitting, fallback, queue, pending, relayed>>
      /\ UNCHANGED <<received, sent, acks, disconnects>>
  BY DEF vars, topology, lists, network
<1>2. Quiet /\ Grows
  BY <1>1, QuietGrows DEF Quiet
<1>3. TypeInv' /\ TopologyInv'
  BY <1>1, <1>2, TopologyKept DEF TypeInv, TypeOK, TopologyInv
<1>4. GivenInv' /\ SentInv' /\ AckInv' /\ BothInv' /\ RelayedInv' /\ PendingInv'
  BY <1>2, GivenQuiet, SentSame, AcksSame, RelayedSame, PendingShrinks DEF Quiet
<1> QED
  BY <1>3, <1>4, KeptUnchanged

LEMMA RelayNext == RelayInv /\ [Next]_vars => RelayInv'
<1> SUFFICES ASSUME RelayInv, [Next]_vars PROVE RelayInv'
  OBVIOUS
<1> USE DEF RelayInv
<1>1. ASSUME NEW p \in Players, SendGameCommand(p) \/ SendPlayerLeave(p) PROVE RelayInv'
  BY <1>1, SendStep
<1>2. ASSUME NEW p \in Players, NEW e \in sent, ReceiveCommand(p, e) PROVE RelayInv'
  BY <1>2, ReceiveCommandStep
<1>3. ASSUME NEW p \in Players, NEW a \in acks, ReceiveAck(p, a) PROVE RelayInv'
  BY <1>3, ReceiveAckStep
<1>4. ASSUME NEW p \in Players, NEW d \in disconnects, ReceiveDisconnect(p, d) PROVE RelayInv'
  BY <1>4, ReceiveDisconnectStep, ForgetStep
<1>5. ASSUME NEW p \in Players, NEW q \in Players,
             QuitGame(p) \/ Crash(p) \/ ExecuteOwnLeave(p) \/ DropConnection(p, q)
      PROVE  RelayInv'
  BY <1>5, GoingStep
<1>6. ASSUME NEW p \in Players, NEW q \in Players, DisconnectTimedOut(p, q) PROVE RelayInv'
  BY <1>6, DisconnectTimedOutStep, ForgetStep
<1>7. ASSUME NEW p \in Players, NEW q \in Players, ExecuteOthersLeave(p, q) PROVE RelayInv'
  BY <1>7, ExecuteOthersLeaveStep, ForgetStep
<1>8. CASE UNCHANGED vars
  BY <1>8, UnchangedStep
<1> QED
  BY <1>1, <1>2, <1>3, <1>4, <1>5, <1>6, <1>7, <1>8 DEF Next

LEMMA RelayInvariance == Spec => []RelayInv
<1>1. Init => RelayInv
  BY RelayInit
<1>2. RelayInv /\ [Next]_vars => RelayInv'
  BY RelayNext
<1> QED
  BY <1>1, <1>2, PTL DEF Spec

(* Every variable has its type; in particular a relayed command always has  *)
(* an ack to wait for (processAckStage2), for any number of players.        *)
THEOREM RelayTypes == Spec => []TypeOK
<1>1. RelayInv => TypeOK
  BY DEF RelayInv, TypeInv
<1> QED
  BY <1>1, RelayInvariance, PTL

(* The sender of a command keeps it until everybody has it, be it for the   *)
(* router or in the list of each player, so long as the first router plays  *)
(* on, or with three players (processAckStage2, Connection::processAck).    *)
THEOREM NothingForgottenTooEarly == Spec => []KeptUntilHeard
<1>1. RelayInv => KeptUntilHeard
  BY DEF RelayInv
<1> QED
  BY <1>1, RelayInvariance, PTL

(* A stage 2 ack means what NetCommandMsg.h says of it, whatever becomes of *)
(* the routers: once there is one for a command of a player who plays on,   *)
(* everybody who plays on has the command (processAckStage2).               *)
LastAckIsLast ==
    \A a \in acks : a.stage = "2" /\ PlayOn(Giver(a)) => HeardByAll(a.command)

THEOREM LastAcksAreLast == Spec => []LastAckIsLast
<1>1. RelayInv => LastAckIsLast
  BY DEF RelayInv, AckInv, AckRule, LastAckIsLast
<1> QED
  BY <1>1, RelayInvariance, PTL

(* Only who stopped, left or quit is ever given up: two who play on stay    *)
(* connected, whatever messages about others are lost, repeated or late     *)
(* (disconnectPlayer, processDisconnectPlayer, processPlayerLeave).         *)
NobodyGivenUp ==
    \A p, q \in Players : p # q /\ PlayOn(p) /\ PlayOn(q) => Together(p, q)

THEOREM PlayersStayTogether == Spec => []NobodyGivenUp
<1>1. RelayInv => NobodyGivenUp
  <2> SUFFICES ASSUME RelayInv, NEW p \in Players, NEW q \in Players, p # q,
                      PlayOn(p), PlayOn(q)
               PROVE  Together(p, q)
    BY DEF NobodyGivenUp
  <2>1. ~HasLeft(p) /\ ~HasLeft(q)
    BY FirstRouter DEF RelayInv
  <2> QED
    BY <2>1 DEF RelayInv, TopologyInv, Together
<1> QED
  BY <1>1, RelayInvariance, PTL

=============================================================================
