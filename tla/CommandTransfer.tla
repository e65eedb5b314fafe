--------------------------- MODULE CommandTransfer ---------------------------
(***************************************************************************)
(* Commands on their way from the connections of several senders to the    *)
(* frame data of one receiver: Connection's queue and acks, the splitting  *)
(* of commands too big for a packet (NetPacket, NetCommandWrapperList) and *)
(* FrameData, with NetCommandList under all of them. One frame of the game *)
(* gathers its commands here and has not run yet.                          *)
(*                                                                         *)
(* The network loses, repeats and reorders: what a connection ever queued  *)
(* stays in sent, what was ever acked in acks, and both may be taken again *)
(* or late. A lost message is one not taken, a retry sends it once more.   *)
(***************************************************************************)
EXTENDS NetCommandList

CONSTANTS
    MAX_SLOTS,    \* how many players a game has room for, 8 in the code
    Senders,      \* the slots of the players who send
    Script,       \* bound: the commands each gives, <<type, big>>, in their order
    FirstId,      \* bound: the ID each one's next command gets
    Chunks        \* bound: the packets a big command is split into

ASSUME SendersAssumption ==
    /\ MAX_SLOTS \in Nat /\ Senders \subseteq 0 .. MAX_SLOTS - 1
    /\ Script \in [Senders -> Seq(Nat \X BOOLEAN)]
    /\ FirstId \in [Senders -> 0 .. IdSpace - 1]
    /\ Chunks \in Nat \ {0, 1}

(* The commands of a frame take at most half of the IDs there are, 32768 in *)
(* the code: isCommandIdNewer takes an ID further on than that for older.   *)
MaxIds(p) == Len(Script[p]) * (Chunks + 1)
ASSUME ScriptAssumption == \A p \in Senders : MaxIds(p) <= IdSpace \div 2

VARIABLES
    given,          \* given[p]: the commands p has given, in order
    generated,      \* generated[p]: how often p called GenerateNextCommandID
    queue,          \* queue[p]: m_netCommandList of p's connection
    sent,           \* every message ever queued
    acks,           \* every message ever acked
    nodes,          \* m_list of the NetCommandWrapperList, first node first
    frameData,      \* frameData[p]: m_commandList of p's frame data
    commandCount    \* commandCount[p]: m_commandCount

sender == <<given, generated, queue, sent>>
receiver == <<nodes, frameData, commandCount>>
vars == <<sender, acks, receiver, retailCompatible>>

-----------------------------------------------------------------------------
WRAPPER == 17   \* NETCOMMANDTYPE_WRAPPER

(* A message: nth is the count of IDs its sender had generated, of which    *)
(* the ID keeps the low bits; a wrapper carries one chunk of a command.     *)
Message(type, p, nth, carries) ==
    [type |-> type, playerID |-> p, nth |-> nth,
     id |-> (FirstId[p] + nth) % IdSpace, carries |-> carries]

Wrapper(c, k) ==
    Message(WRAPPER, c.playerID, c.nth + k, {[chunk |-> k, of |-> c]})

Init ==
    /\ retailCompatible \in BOOLEAN
    /\ given = [p \in Senders |-> <<>>]
    /\ generated = [p \in Senders |-> 0]
    /\ queue = [p \in Senders |-> EmptyList]
    /\ sent = {} /\ acks = {}
    /\ nodes = <<>>
    /\ frameData = [p \in Senders |-> EmptyList]
    /\ commandCount = [p \in Senders |-> 0]

(* Connection::sendNetCommandMsg; ConstructBigCommandPacketList generates   *)
(* the IDs of the wrappers.                                                 *)
Packets(c, big) == IF big THEN [k \in 1 .. Chunks |-> Wrapper(c, k)] ELSE <<c>>

SendNetCommandMsg(p) ==
    LET next == Script[p][Len(given[p]) + 1]
        c == Message(next[1], p, generated[p], {})
        packets == Packets(c, next[2])
    IN  /\ Len(given[p]) < Len(Script[p])
        /\ given' = [given EXCEPT ![p] = Append(@, c)]
        /\ generated' = [generated EXCEPT ![p] = @ + 1 + (IF next[2] THEN Chunks ELSE 0)]
        /\ queue' = [queue EXCEPT ![p] = AppendList(@, packets)]
        /\ sent' = sent \union ToSet(packets)
        /\ UNCHANGED <<acks, receiver, retailCompatible>>

(* Connection::processAck: the first in the queue with the ID.              *)
AnyMessage(l, m) == 1  \* mutant: takes the head, whatever was acked
Acked(l, m) == CHOOSE i \in 1 .. Len(l.refs) :
    /\ IsEqualCommandMsg(l.refs[i], m)
    /\ \A j \in 1 .. i - 1 : ~IsEqualCommandMsg(l.refs[j], m)

ProcessAck(p, m) ==
    /\ m \in acks /\ m.playerID = p /\ FindMessage(queue[p], m)
    /\ queue' = [queue EXCEPT ![p] = RemoveMessage(@, Acked(@, m))]
    /\ UNCHANGED <<given, generated, sent, acks, receiver, retailCompatible>>

-----------------------------------------------------------------------------
(* FrameData::addCommand, with its list and its count in d.                 *)
CountAnyway(d, c) ==  \* mutant: does not look for it first
    [list |-> AddMessage(d.list, c), count |-> d.count + 1]
AddCommand(d, c) ==
    IF FindMessage(d.list, c) THEN d
    ELSE [list |-> AddMessage(d.list, c), count |-> d.count + 1]

(* The frame data of p, after all commands of p in s.                       *)
Added(p, s) ==
    LET data[n \in 0 .. Len(s)] ==
            IF n = 0 THEN [list |-> frameData[p], count |-> commandCount[p]]
            ELSE IF s[n].playerID = p THEN AddCommand(data[n - 1], s[n])
            ELSE data[n - 1]
    IN  data[Len(s)]

AddToFrame(s) ==
    /\ frameData' = [p \in Senders |-> Added(p, s).list]
    /\ commandCount' = [p \in Senders |-> Added(p, s).count]

(* NetCommandWrapperList::processWrapper: nodes are found by the ID of the  *)
(* wrapped command alone, and take each chunk once.                         *)
NodesOf(e) == {i \in 1 .. Len(nodes) : nodes[i].commandID = e.of.id}

WithChunk(node, e) ==
    IF \E f \in node.chunks : f.chunk = e.chunk THEN node
    ELSE [node EXCEPT !.chunks = @ \union {e}]

ProcessWrapper(e) ==
    nodes' = IF NodesOf(e) = {}
             THEN <<[commandID |-> e.of.id, chunks |-> {e}]>> \o nodes
             ELSE [i \in 1 .. Len(nodes) |->
                     IF i \in NodesOf(e) THEN WithChunk(nodes[i], e) ELSE nodes[i]]

(* doRelay, for one message it takes from a packet: ack it, then keep the   *)
(* chunk or, processNetCommand having nothing against it, add the command.  *)
Relay(m) ==
    /\ acks' = acks \union {m}
    /\ \/ m.type = WRAPPER /\ \E e \in m.carries : ProcessWrapper(e)
          /\ UNCHANGED <<frameData, commandCount>>
       \/ m.type # WRAPPER /\ AddToFrame(<<m>>) /\ UNCHANGED nodes
    /\ UNCHANGED <<sender, retailCompatible>>

(* doRelay, when it is through the packets: the commands that are complete  *)
(* (getReadyCommands) leave the list, are acked and added.                  *)
AllButOne(node) == Cardinality(node.chunks) >= Chunks - 1  \* mutant: off by one
NeverAll(node) == Cardinality(node.chunks) > Chunks        \* mutant: and the other way
IsComplete(node) == Cardinality(node.chunks) = Chunks

(* Read from the bytes, which start with the header in the first chunk.     *)
Constructed(node) ==
    (CHOOSE e \in node.chunks : \A f \in node.chunks : e.chunk <= f.chunk).of

(* The commands that are ready, and the nodes that stay.                    *)
GetReadyCommands ==
    LET upTo[n \in 0 .. Len(nodes)] ==
            IF n = 0 THEN [ready |-> EmptyList, left |-> <<>>]
            ELSE IF IsComplete(nodes[n])
            THEN [ready |-> AddMessage(upTo[n - 1].ready, Constructed(nodes[n])),
                  left |-> upTo[n - 1].left]
            ELSE [ready |-> upTo[n - 1].ready, left |-> Append(upTo[n - 1].left, nodes[n])]
    IN  upTo[Len(nodes)]

ProcessReadyCommands ==
    LET commands == GetReadyCommands.ready.refs IN
    /\ commands # <<>>
    /\ nodes' = GetReadyCommands.left
    /\ AddToFrame(commands)
    /\ acks' = acks \union ToSet(commands)
    /\ UNCHANGED <<sender, retailCompatible>>

-----------------------------------------------------------------------------
Next ==
    \/ \E p \in Senders : SendNetCommandMsg(p)
    \/ \E m \in sent : Relay(m)
    \/ \E m \in acks : ProcessAck(m.playerID, m)
    \/ ProcessReadyCommands

(* A queued message is sent again until it is heard; the receiver updates.  *)
HearSome(p) == \E m \in ToSet(queue[p].refs) \ acks : Relay(m)

Spec == Init /\ [][Next]_vars

FairSpec ==
    /\ Spec
    /\ WF_vars(ProcessReadyCommands)
    /\ \A p \in Senders : WF_vars(SendNetCommandMsg(p)) /\ WF_vars(HearSome(p))

-----------------------------------------------------------------------------
(* Properties *)

(* Everybody's commands, and those that are in the frame data.              *)
GivenCommands == UNION {ToSet(given[p]) : p \in Senders}
Delivered == UNION {ToSet(frameData[p].refs) : p \in Senders}

MessageType == [type : Nat, playerID : Senders, nth : Nat, id : 0 .. IdSpace - 1,
                carries : SUBSET [chunk : 1 .. Chunks, of : GivenCommands]]

ListOf(l, S) == ToSet(l.refs) \subseteq S /\ l.inserted \in 0 .. Len(l.refs)

(* Every variable keeps its type; the place inserted last is in its list.   *)
TypeOK ==
    /\ retailCompatible \in BOOLEAN
    /\ sent \subseteq MessageType
    /\ acks \subseteq sent \union GivenCommands
    /\ \A p \in Senders :
          /\ generated[p] \in 0 .. MaxIds(p) /\ commandCount[p] \in Nat
          /\ ListOf(queue[p], sent) /\ ListOf(frameData[p], ToSet(given[p]))

(* getFrameCommandList: what a frame executes is put together slot by slot. *)
FrameCommands ==
    LET list[n \in 0 .. MAX_SLOTS] ==
            IF n = 0 THEN EmptyList
            ELSE IF n - 1 \in Senders
            THEN AppendList(list[n - 1], frameData[n - 1].refs)
            ELSE list[n - 1]
    IN  list[MAX_SLOTS].refs

(* By type, player and the order of giving; builds that mind the retail     *)
(* game's networking have the order of the ID's value instead.              *)
Precedes(a, b) ==
    \/ a.type < b.type
    \/ a.type = b.type /\ a.playerID < b.playerID
    \/ /\ a.type = b.type /\ a.playerID = b.playerID
       /\ IF retailCompatible THEN a.id < b.id ELSE a.nth < b.nth

Ordered(s) == \A i, j \in 1 .. Len(s) : i < j => Precedes(s[i], s[j])

(* Whatever arrives when, and however often, the commands of a frame are    *)
(* executed in one order, the same on every machine, each once, and a       *)
(* connection sends in that order too.                                      *)
SameOrder ==
    /\ Ordered(FrameCommands)
    /\ \A p \in Senders : Ordered(queue[p].refs) /\ Ordered(frameData[p].refs)

(* Nothing leaves a connection's queue before the other side heard it.      *)
KeptUntilHeard ==
    \A p \in Senders : \A m \in sent :
        m.playerID = p => InList(queue[p], m) \/ m \in acks

(* The count by which a frame is found ready, or cleared for a resend when  *)
(* it is too high, is that of the different commands that arrived.          *)
CountMatches ==
    \A p \in Senders : commandCount[p] = Cardinality(ToSet(frameData[p].refs))

(* A big command is in a frame only when all its chunks have arrived, as    *)
(* long as no other big command has its ID: chunks are told apart by that.  *)
Carried(m) == {e.of : e \in m.carries}

AloneWithItsId(c) == \A m \in sent : \A d \in Carried(m) : d.id = c.id => d = c

OnlyWhole ==
    \A p \in Senders : \A c \in ToSet(frameData[p].refs) :
        AloneWithItsId(c) => \A m \in sent : c \in Carried(m) => m \in acks

(* Every command that is given is delivered, whole, and once.               *)
ScriptCommands == UNION {{Message(Script[p][i][1], p, nth, {}) :
                            i \in DOMAIN Script[p], nth \in 0 .. MaxIds(p)} : p \in Senders}
Delivery == INSTANCE CommandDelivery WITH
    Command <- ScriptCommands, given <- GivenCommands, delivered <- Delivered
DeliveredOnce == Delivery!FairSpec

=============================================================================
