----------------------- MODULE CommandTransfer_proofs -----------------------
(***************************************************************************)
(* Why commands arrive once, whole, and are executed in one order: two     *)
(* messages of a player never share an ID, so that the list knows copies   *)
(* and its order is total; a node of chunks is complete only when each     *)
(* chunk of its command was acked. For any senders, scripts and IDs, and   *)
(* whatever is lost, repeated or reordered.                                *)
(***************************************************************************)
EXTENDS CommandTransfer, FiniteSetTheorems, WellFoundedInduction, TLAPS

(* A command list of members of M, with the place inserted last in it.      *)
IsList(l, M) ==
    /\ l \in [refs : Seq(M), inserted : Nat]
    /\ l.inserted <= Len(l.refs)

(* IDs tell the messages of M apart and put them in the order they should   *)
(* be in.                                                                   *)
WellOrdered(M) ==
    /\ \A a \in M : a.type \in Nat /\ a.playerID \in Nat /\ a.id \in Nat /\ a.nth \in Nat
    /\ \A a, b \in M : IsEqualCommandMsg(a, b) => a = b
    /\ \A a, b \in M : a # b => Precedes(a, b) \/ Precedes(b, a)
    /\ \A a, b \in M : a.type = b.type /\ a.playerID = b.playerID =>
          (IsCommandIdNewer(a.id, b.id) <=> Precedes(b, a))

-----------------------------------------------------------------------------
(* The inductive invariant *)

Command == [type : Nat, playerID : Senders, nth : Nat, id : 0 .. IdSpace - 1, carries : {{}}]

Node == [commandID : Nat, chunks : SUBSET [chunk : 1 .. Chunks, of : Command]]

(* Who has given how many commands has used no more IDs than they take.     *)
GivenInv ==
    /\ retailCompatible \in BOOLEAN
    /\ given \in [Senders -> Seq(Command)] /\ generated \in [Senders -> Nat]
    /\ \A p \in Senders :
          /\ Len(given[p]) <= Len(Script[p])
          /\ generated[p] <= Len(given[p]) * (Chunks + 1)
          /\ \A c \in ToSet(given[p]) :
                c.playerID = p /\ \E i \in 1 .. Len(Script[p]) : c.type = Script[p][i][1]

(* Every message of M has an ID of its own among the count[p] that its      *)
(* player p has generated.                                                  *)
IdRule(m, count) ==
    /\ m.type \in Nat /\ m.playerID \in Senders /\ m.nth \in Nat
    /\ m.nth < count[m.playerID]
    /\ m.id = (FirstId[m.playerID] + m.nth) % IdSpace

OwnIds(M, count) ==
    /\ \A m \in M : IdRule(m, count)
    /\ \A m, n \in M : m.playerID = n.playerID /\ m.nth = n.nth => m = n

IdsInv == OwnIds(sent \union GivenCommands, generated)

(* A command is sent as it is, or else in wrappers, and then in all of them *)
SentInv ==
    \A m \in sent \ GivenCommands :
        \E c \in GivenCommands \ sent, k \in 1 .. Chunks :
            m = Wrapper(c, k) /\ \A j \in 1 .. Chunks : Wrapper(c, j) \in sent

ListsInv ==
    /\ queue = [p \in Senders |-> queue[p]]
    /\ frameData = [p \in Senders |-> frameData[p]]
    /\ \A p \in Senders :
          /\ IsList(queue[p], {m \in sent : m.playerID = p}) /\ Ordered(queue[p].refs)
          /\ IsList(frameData[p], ToSet(given[p])) /\ Ordered(frameData[p].refs)
          /\ commandCount[p] = Len(frameData[p].refs)

AcksInv == acks \subseteq sent \union GivenCommands

(* A node has chunks that were acked, each once, all of big commands with   *)
(* its ID.                                                                  *)
ChunkRule(node, e, commands, heard) ==
    /\ e.chunk \in 1 .. Chunks /\ e.of \in commands /\ e.of.id = node.commandID
    /\ Wrapper(e.of, e.chunk) \in heard

NodeRule(node, commands, heard) ==
    /\ node.chunks # {}
    /\ \A e \in node.chunks : ChunkRule(node, e, commands, heard)
    /\ \A e, f \in node.chunks : e.chunk = f.chunk => e = f

NodesInv ==
    /\ nodes \in Seq(Node)
    /\ \A i \in 1 .. Len(nodes) : NodeRule(nodes[i], GivenCommands, sent \intersect acks)

TransferInv ==
    /\ GivenInv /\ IdsInv /\ SentInv /\ ListsInv /\ AcksInv /\ NodesInv
    /\ KeptUntilHeard /\ OnlyWhole

-----------------------------------------------------------------------------
(* Numbers and sequences *)

(* A set of numbers that is not empty has a least.                          *)
LEMMA Least ==
    ASSUME NEW S, S \subseteq Nat, S # {}
    PROVE  \E n \in S : \A k \in S : n <= k
<1>1. IsWellFoundedOn(OpToRel(<, Nat), Nat)
  BY NatLessThanWellFounded
<1>2. PICK n \in S : \A k \in S : <<k, n>> \notin OpToRel(<, Nat)
  BY <1>1, WFMin
<1>3. \A k \in S : ~ (k < n)
  BY <1>2 DEF OpToRel
<1>4. n \in Nat /\ \A k \in S : k \in Nat
  OBVIOUS
<1>5. \A k \in S : n <= k
  BY <1>3, <1>4
<1>6. QED
  BY <1>2, <1>5

(* Induction, with a set in the place of the property.                      *)
LEMMA SetInduction ==
    ASSUME NEW S, 0 \in S, \A n \in Nat : n \in S => n + 1 \in S
    PROVE  Nat \subseteq S
<1> DEFINE T == Nat \ S
<1>1. SUFFICES ASSUME T # {} PROVE FALSE
  OBVIOUS
<1>2. PICK n \in T : \A k \in T : n <= k
  BY <1>1, Least, Zenon DEF T
<1>3. n # 0 /\ n \in Nat /\ n - 1 \in Nat /\ ~(n <= n - 1)
  BY <1>2
<1>4. n - 1 \in S
  BY <1>2, <1>3
<1>5. QED
  BY <1>2, <1>3, <1>4

LEMMA Elements ==
    ASSUME NEW S, NEW s \in Seq(S)
    PROVE  /\ \A x : x \in ToSet(s) <=> \E i \in 1 .. Len(s) : s[i] = x
           /\ ToSet(s) \subseteq S
BY DEF ToSet

LEMMA Single == \A x : ToSet(<<x>>) = {x}
BY DEF ToSet

LEMMA Joined ==
    ASSUME NEW S, NEW a \in Seq(S), NEW b \in Seq(S)
    PROVE  /\ a \o b \in Seq(S) /\ Len(a \o b) = Len(a) + Len(b)
           /\ \A k \in 1 .. Len(a) + Len(b) :
                 (a \o b)[k] = IF k <= Len(a) THEN a[k] ELSE b[k - Len(a)]
OBVIOUS

(* What it is to insert an element, and to remove one.                      *)
LEMMA Inserted ==
    ASSUME NEW S, NEW s \in Seq(S), NEW x \in S, NEW i \in 1 .. Len(s) + 1
    PROVE  /\ InsertAt(s, i, x) \in Seq(S)
           /\ Len(InsertAt(s, i, x)) = Len(s) + 1
           /\ \A k \in 1 .. Len(s) + 1 :
                 InsertAt(s, i, x)[k] = IF k < i THEN s[k] ELSE IF k = i THEN x ELSE s[k - 1]
<1> DEFINE a == SubSeq(s, 1, i - 1)
           b == SubSeq(s, i, Len(s))
           c == a \o <<x>>
<1>1. a \in Seq(S) /\ Len(a) = i - 1 /\ \A k \in 1 .. i - 1 : a[k] = s[k]
  OBVIOUS
<1>2. b \in Seq(S) /\ Len(b) = Len(s) + 1 - i /\ \A k \in 1 .. Len(s) + 1 - i : b[k] = s[k + i - 1]
  OBVIOUS
<1> HIDE DEF a, b
<1>3. c \in Seq(S) /\ Len(c) = i /\ (\A k \in 1 .. i - 1 : c[k] = s[k]) /\ c[i] = x
  BY <1>1
<1> HIDE DEF c
<1>4. /\ c \o b \in Seq(S) /\ Len(c \o b) = Len(s) + 1
      /\ \A k \in 1 .. Len(s) + 1 : (c \o b)[k] = IF k <= i THEN c[k] ELSE b[k - i]
  <2>1. /\ c \o b \in Seq(S) /\ Len(c \o b) = Len(c) + Len(b)
        /\ \A k \in 1 .. Len(c) + Len(b) :
              (c \o b)[k] = IF k <= Len(c) THEN c[k] ELSE b[k - Len(c)]
    BY <1>2, <1>3, Joined, Zenon
  <2>2. Len(c) = i /\ Len(c) + Len(b) = Len(s) + 1
    BY <1>2, <1>3
  <2>3. QED
    BY <2>1, <2>2
<1>5. \A k \in 1 .. Len(s) + 1 :
          (c \o b)[k] = IF k < i THEN s[k] ELSE IF k = i THEN x ELSE s[k - 1]
  BY <1>2, <1>3, <1>4, SMTT(20)
<1>6. InsertAt(s, i, x) = c \o b
  BY Zenon DEF InsertAt, a, b, c
<1>7. QED
  BY <1>4, <1>5, <1>6

LEMMA Removed ==
    ASSUME NEW S, NEW s \in Seq(S), NEW i \in 1 .. Len(s)
    PROVE  /\ RemoveAt(s, i) \in Seq(S)
           /\ Len(RemoveAt(s, i)) = Len(s) - 1
           /\ \A k \in 1 .. Len(s) - 1 : RemoveAt(s, i)[k] = IF k < i THEN s[k] ELSE s[k + 1]
<1> DEFINE a == SubSeq(s, 1, i - 1)
           b == SubSeq(s, i + 1, Len(s))
<1>1. a \in Seq(S) /\ Len(a) = i - 1 /\ \A k \in 1 .. i - 1 : a[k] = s[k]
  OBVIOUS
<1>2. b \in Seq(S) /\ Len(b) = Len(s) - i /\ \A k \in 1 .. Len(s) - i : b[k] = s[k + i]
  OBVIOUS
<1> HIDE DEF a, b
<1>3. /\ a \o b \in Seq(S) /\ Len(a \o b) = Len(a) + Len(b)
      /\ \A k \in 1 .. Len(a) + Len(b) : (a \o b)[k] = IF k <= Len(a) THEN a[k] ELSE b[k - Len(a)]
  BY <1>1, <1>2, Joined, Zenon
<1>4. \A k \in 1 .. Len(s) - 1 : (a \o b)[k] = IF k < i THEN s[k] ELSE s[k + 1]
  <2> TAKE k \in 1 .. Len(s) - 1
  <2>1. CASE k < i
    BY <1>1, <1>2, <1>3, <2>1
  <2>2. CASE k >= i
    <3> DEFINE j == k - Len(a)
    <3>1. j \in 1 .. Len(s) - i /\ j + i = k + 1
      BY <1>1, <2>2
    <3>2. b[j] = s[j + i]
      BY <1>2, <3>1
    <3>3. k \in 1 .. Len(a) + Len(b) /\ ~(k <= Len(a))
      BY <1>1, <1>2, <2>2
    <3>4. (a \o b)[k] = b[j]
      BY <1>3, <3>3
    <3> HIDE DEF j
    <3>5. QED
      BY <2>2, <3>1, <3>2, <3>4
  <2>3. k < i \/ k >= i
    OBVIOUS
  <2>4. QED
    BY <2>1, <2>2, <2>3, Zenon
<1>5. RemoveAt(s, i) = a \o b
  BY Zenon DEF RemoveAt, a, b
<1>6. Len(a) + Len(b) = Len(s) - 1
  BY <1>1, <1>2
<1>7. QED
  BY <1>3, <1>4, <1>5, <1>6, Zenon

-----------------------------------------------------------------------------
(* The sorted list *)

LEMMA PrecedesOrders ==
    ASSUME NEW M, WellOrdered(M)
    PROVE  /\ \A a \in M : ~Precedes(a, a)
           /\ \A a, b, c \in M : Precedes(a, b) /\ Precedes(b, c) => Precedes(a, c)
           /\ \A a, b \in M : ~(Precedes(a, b) /\ Precedes(b, a))
BY DEF WellOrdered, Precedes

(* From any place on there is a first that is not in F, or none.            *)
LEMMA FirstNotIn ==
    ASSUME NEW n \in Nat, NEW i \in 1 .. n + 1, NEW F
    PROVE  \E j \in i .. n + 1 : (\A k \in i .. j - 1 : k \in F) /\ (j <= n => j \notin F)
<1> DEFINE T == {j \in i .. n + 1 : j \notin F \/ j = n + 1}
<1>1. n + 1 \in T /\ T \subseteq Nat
  OBVIOUS
<1>2. PICK j \in T : \A k \in T : j <= k
  BY <1>1, Least, Zenon
<1>3. ASSUME NEW k \in i .. j - 1 PROVE k \in F
  BY <1>2
<1>4. QED
  BY <1>2, <1>3

(* The scan ends somewhere, at the place it looks for.                      *)
LEMMA ScanStops ==
    ASSUME NEW M, NEW s \in Seq(M), NEW m
    PROVE  \E type, player \in 1 .. Len(s) + 1 :
              /\ type <= player /\ player <= Scan(s, m)
              /\ Scan(s, m) \in 1 .. Len(s) + 1
              /\ \A k \in 1 .. type - 1 : s[k].type < m.type
              /\ type <= Len(s) => ~(s[type].type < m.type)
              /\ \A k \in type .. player - 1 : s[k].type = m.type /\ s[k].playerID < m.playerID
              /\ player <= Len(s) => ~(s[player].type = m.type /\ s[player].playerID < m.playerID)
              /\ \A k \in player .. Scan(s, m) - 1 :
                    /\ s[k].type = m.type /\ s[k].playerID = m.playerID
                    /\ IsCommandIdNewer(m.id, s[k].id)
              /\ Scan(s, m) <= Len(s) =>
                    LET r == s[Scan(s, m)] IN
                    ~(r.type = m.type /\ r.playerID = m.playerID /\ IsCommandIdNewer(m.id, r.id))
<1> DEFINE F1 == {k \in 1 .. Len(s) : s[k].type < m.type}
           F2 == {k \in 1 .. Len(s) : s[k].type = m.type /\ s[k].playerID < m.playerID}
           F3 == {k \in 1 .. Len(s) : /\ s[k].type = m.type /\ s[k].playerID = m.playerID
                                      /\ IsCommandIdNewer(m.id, s[k].id)}
           type == SkipWhile(s, 1, LAMBDA r : r.type < m.type)
           player == SkipWhile(s, type, LAMBDA r : r.type = m.type /\ r.playerID < m.playerID)
           place == SkipWhile(s, player, LAMBDA r :
                        /\ r.type = m.type /\ r.playerID = m.playerID
                        /\ IsCommandIdNewer(m.id, r.id))
<1>1. Len(s) \in Nat
  OBVIOUS
<1>2. /\ type \in 1 .. Len(s) + 1
      /\ \A k \in 1 .. type - 1 : s[k].type < m.type
      /\ type <= Len(s) => ~(s[type].type < m.type)
  <2>1. \E j \in 1 .. Len(s) + 1 : (\A k \in 1 .. j - 1 : k \in F1) /\ (j <= Len(s) => j \notin F1)
    <3> HIDE DEF F1
    <3>1. QED
      BY <1>1, 1 \in 1 .. Len(s) + 1, FirstNotIn, Zenon
  <2>2. \E j \in 1 .. Len(s) + 1 :
           (\A k \in 1 .. j - 1 : s[k].type < m.type) /\ (j <= Len(s) => ~(s[j].type < m.type))
    BY <2>1
  <2>3. QED
    BY <2>2, Zenon DEF SkipWhile
<1> HIDE DEF type
<1>3. /\ player \in type .. Len(s) + 1
      /\ \A k \in type .. player - 1 : s[k].type = m.type /\ s[k].playerID < m.playerID
      /\ player <= Len(s) => ~(s[player].type = m.type /\ s[player].playerID < m.playerID)
  <2>1. \E j \in type .. Len(s) + 1 : (\A k \in type .. j - 1 : k \in F2) /\ (j <= Len(s) => j \notin F2)
    <3> HIDE DEF F2
    <3>1. QED
      BY <1>1, <1>2, FirstNotIn, Zenon
  <2>2. \E j \in type .. Len(s) + 1 :
           /\ \A k \in type .. j - 1 : s[k].type = m.type /\ s[k].playerID < m.playerID
           /\ j <= Len(s) => ~(s[j].type = m.type /\ s[j].playerID < m.playerID)
    BY <1>2, <2>1
  <2>3. QED
    BY <2>2, Zenon DEF SkipWhile
<1> HIDE DEF player
<1>4. /\ place \in player .. Len(s) + 1
      /\ \A k \in player .. place - 1 :
            /\ s[k].type = m.type /\ s[k].playerID = m.playerID
            /\ IsCommandIdNewer(m.id, s[k].id)
      /\ place <= Len(s) =>
            ~(/\ s[place].type = m.type /\ s[place].playerID = m.playerID
              /\ IsCommandIdNewer(m.id, s[place].id))
  <2>1. \E j \in player .. Len(s) + 1 : (\A k \in player .. j - 1 : k \in F3) /\ (j <= Len(s) => j \notin F3)
    <3> HIDE DEF F3
    <3>1. QED
      BY <1>1, <1>2, <1>3, player \in 1 .. Len(s) + 1, FirstNotIn, Zenon
  <2>2. \E j \in player .. Len(s) + 1 :
           /\ \A k \in player .. j - 1 :
                 /\ s[k].type = m.type /\ s[k].playerID = m.playerID
                 /\ IsCommandIdNewer(m.id, s[k].id)
           /\ j <= Len(s) => ~(/\ s[j].type = m.type /\ s[j].playerID = m.playerID
                               /\ IsCommandIdNewer(m.id, s[j].id))
    BY <1>2, <1>3, <2>1
  <2>3. QED
    BY <2>2, Zenon DEF SkipWhile
<1> HIDE DEF place
<1>5. Scan(s, m) = place
  BY Zenon DEF Scan, place, player, type
<1>6. /\ type \in 1 .. Len(s) + 1 /\ player \in 1 .. Len(s) + 1 /\ place \in 1 .. Len(s) + 1
      /\ type <= player /\ player <= place
  BY <1>2, <1>3, <1>4
<1>7. QED
  BY <1>2, <1>3, <1>4, <1>5, <1>6

LEMMA PlaceInRange ==
    ASSUME NEW M, NEW l, IsList(l, M), NEW m
    PROVE  /\ Place(l, m) \in 1 .. Len(l.refs) + 1
           /\ FollowsInserted(l, m) => l.inserted \in 1 .. Len(l.refs)
           /\ l.refs # <<>> => \E i \in 1 .. Len(l.refs) : Twin(l, m) = l.refs[i]
<1>1. l.refs \in Seq(M) /\ Len(l.refs) \in Nat /\ l.inserted \in 0 .. Len(l.refs)
  BY DEF IsList
<1>2. FollowsInserted(l, m) => l.inserted \in 1 .. Len(l.refs)
  BY <1>1 DEF FollowsInserted
<1>3. Scan(l.refs, m) \in 1 .. Len(l.refs) + 1
  BY <1>1, ScanStops
<1>4. Place(l, m) \in 1 .. Len(l.refs) + 1
  BY <1>1, <1>2, <1>3 DEF Place
<1>5. ASSUME l.refs # <<>> PROVE \E i \in 1 .. Len(l.refs) : Twin(l, m) = l.refs[i]
  <2>1. Len(l.refs) >= 1
    BY <1>1, <1>5
  <2>2. CASE FollowsInserted(l, m) \/ Place(l, m) > Len(l.refs)
    <3>1. Place(l, m) - 1 \in 1 .. Len(l.refs)
      BY <1>1, <1>2, <1>4, <2>1, <2>2 DEF Place
    <3>2. QED
      BY <2>2, <3>1 DEF Twin
  <2>3. CASE ~(FollowsInserted(l, m) \/ Place(l, m) > Len(l.refs))
    <3>1. Place(l, m) \in 1 .. Len(l.refs)
      BY <1>1, <1>4, <2>3
    <3>2. QED
      BY <2>3, <3>1 DEF Twin
  <2>4. QED
    BY <2>2, <2>3
<1>6. QED
  BY <1>2, <1>4, <1>5

(* What is in order stays before or after m as the scan, or the place       *)
(* inserted last, says.                                                     *)
LEMMA PlaceIsRight ==
    ASSUME NEW M, WellOrdered(M), NEW l, IsList(l, M), Ordered(l.refs),
           NEW m \in M, m \notin ToSet(l.refs)
    PROVE  \A k \in 1 .. Len(l.refs) :
              /\ k < Place(l, m) => Precedes(l.refs[k], m)
              /\ k >= Place(l, m) => Precedes(m, l.refs[k])
<1> DEFINE s == l.refs
<1>1. /\ s \in Seq(M) /\ Len(s) \in Nat /\ l.inserted \in 0 .. Len(s)
      /\ \A k \in 1 .. Len(s) : s[k] \in M /\ s[k] # m
  BY Elements DEF IsList
<1>2. \A i, k \in 1 .. Len(s) : i < k => Precedes(s[i], s[k])
  BY DEF Ordered
<1>3. /\ \A a, b, c \in M : Precedes(a, b) /\ Precedes(b, c) => Precedes(a, c)
      /\ \A a, b \in M : ~(Precedes(a, b) /\ Precedes(b, a))
      /\ \A a, b \in M : a # b => Precedes(a, b) \/ Precedes(b, a)
      /\ \A a, b \in M : a.type = b.type /\ a.playerID = b.playerID =>
            (IsCommandIdNewer(a.id, b.id) <=> Precedes(b, a))
  BY PrecedesOrders DEF WellOrdered
<1>4. \A a \in M : a.type \in Nat /\ a.playerID \in Nat
  BY DEF WellOrdered
<1> HIDE DEF s
<1> SUFFICES ASSUME NEW k \in 1 .. Len(s)
             PROVE  /\ k < Place(l, m) => Precedes(s[k], m)
                    /\ k >= Place(l, m) => Precedes(m, s[k])
  BY DEF s
<1>5. CASE FollowsInserted(l, m)
  <2> DEFINE i == l.inserted
  <2>1. /\ i \in 1 .. Len(s) /\ s[i].type = m.type /\ s[i].playerID = m.playerID
        /\ IsCommandIdNewer(m.id, s[i].id)
        /\ Place(l, m) = i + 1
    BY <1>1, <1>5, PlaceInRange DEF FollowsInserted, Place, s
  <2>2. Precedes(s[i], m)
    BY <1>1, <1>3, <2>1
  <2>3. ASSUME k <= i PROVE Precedes(s[k], m)
    BY <1>1, <1>2, <1>3, <2>1, <2>2, <2>3
  <2>4. ASSUME i < k PROVE Precedes(m, s[k])
    <3> DEFINE next == s[i + 1]
    <3>1. i # Len(s) /\ i + 1 \in 1 .. Len(s)
      BY <1>1, <2>1, <2>4
    <3>2. next.type > m.type \/ next.playerID > m.playerID \/ IsCommandIdNewer(next.id, m.id)
      BY <1>5, <3>1 DEF FollowsInserted, s
    <3>3. Precedes(s[i], next) /\ next \in M /\ s[i] \in M
      BY <1>1, <1>2, <2>1, <3>1
    <3>4. next.type > m.type \/ (next.type = m.type /\ next.playerID >= m.playerID)
      BY <1>4, <2>1, <3>3 DEF Precedes
    <3>5. Precedes(m, next)
      <4>1. CASE next.type > m.type \/ next.playerID > m.playerID
        BY <1>4, <3>3, <3>4, <4>1 DEF Precedes
      <4>2. CASE next.type = m.type /\ next.playerID = m.playerID
        BY <1>3, <1>4, <3>2, <3>3, <4>2
      <4>3. QED
        BY <1>4, <3>3, <3>4, <4>1, <4>2
    <3>6. k = i + 1 \/ (i + 1 < k /\ Precedes(next, s[k]))
      BY <1>2, <2>1, <2>4, <3>1
    <3> HIDE DEF next
    <3>7. CASE k = i + 1
      BY <3>5, <3>7 DEF next
    <3>8. CASE Precedes(next, s[k])
      BY <1>1, <1>3, <3>3, <3>5, <3>8
    <3>9. QED
      BY <3>6, <3>7, <3>8
  <2>5. k <= i \/ i < k
    BY <2>1
  <2>6. QED
    BY <1>1, <2>1, <2>3, <2>4, <2>5
<1>6. CASE ~FollowsInserted(l, m)
  <2>1. Place(l, m) = Scan(s, m)
    BY <1>6 DEF Place, s
  <2>2. PICK type, player \in 1 .. Len(s) + 1 :
              /\ type <= player /\ player <= Scan(s, m)
              /\ Scan(s, m) \in 1 .. Len(s) + 1
              /\ \A j \in 1 .. type - 1 : s[j].type < m.type
              /\ type <= Len(s) => ~(s[type].type < m.type)
              /\ \A j \in type .. player - 1 : s[j].type = m.type /\ s[j].playerID < m.playerID
              /\ player <= Len(s) => ~(s[player].type = m.type /\ s[player].playerID < m.playerID)
              /\ \A j \in player .. Scan(s, m) - 1 :
                    /\ s[j].type = m.type /\ s[j].playerID = m.playerID
                    /\ IsCommandIdNewer(m.id, s[j].id)
              /\ Scan(s, m) <= Len(s) =>
                    LET r == s[Scan(s, m)] IN
                    ~(r.type = m.type /\ r.playerID = m.playerID /\ IsCommandIdNewer(m.id, r.id))
    BY <1>1, ScanStops
  <2> DEFINE P == Scan(s, m)
  <2>3. ASSUME k < P PROVE Precedes(s[k], m)
    <3>1. CASE k < type
      BY <1>1, <1>4, <2>2, <3>1 DEF Precedes
    <3>2. CASE type <= k /\ k < player
      BY <1>1, <1>4, <2>2, <3>2 DEF Precedes
    <3>3. CASE player <= k
      <4>1. s[k].type = m.type /\ s[k].playerID = m.playerID /\ IsCommandIdNewer(m.id, s[k].id)
        BY <2>2, <2>3, <3>3
      <4>2. QED
        BY <1>1, <1>3, <4>1
    <3>4. QED
      BY <2>2, <3>1, <3>2, <3>3
  <2>4. ASSUME k >= P PROVE Precedes(m, s[k])
    <3> DEFINE r == s[P]
    <3>1. P \in 1 .. Len(s) /\ r \in M /\ r # m
      BY <1>1, <2>2, <2>4
    <3>2. type \in 1 .. Len(s) /\ player \in 1 .. Len(s) /\ s[type] \in M /\ s[player] \in M
      BY <1>1, <2>2, <3>1
    <3>3. s[type].type <= s[player].type /\ s[player].type <= r.type
      <4>1. type = player \/ Precedes(s[type], s[player])
        BY <1>2, <2>2, <3>2
      <4>2. player = P \/ Precedes(s[player], r)
        BY <1>2, <2>2, <3>1, <3>2
      <4>3. QED
        BY <1>4, <3>1, <3>2, <4>1, <4>2 DEF Precedes
    <3>4. r.type >= m.type
      BY <1>4, <2>2, <3>1, <3>2, <3>3, SMTT(20)
    <3>5. CASE r.type > m.type
      <4>1. Precedes(m, r)
        BY <1>4, <3>1, <3>5 DEF Precedes
      <4>2. QED
        BY <1>1, <1>2, <1>3, <2>4, <3>1, <4>1
    <3>6. CASE r.type = m.type
      <4>1. s[player].type = m.type /\ s[player].playerID >= m.playerID
        <5>1. s[player].type = m.type
          <6>1. type <= Len(s)
            BY <3>2
          <6>2. ~(s[type].type < m.type)
            BY <2>2, <6>1
          <6>3. s[type].type \in Nat /\ s[player].type \in Nat /\ m.type \in Nat
            BY <1>4, <3>1, <3>2
          <6> QED
            BY <3>3, <3>6, <6>2, <6>3
        <5>2. ~(s[player].type = m.type /\ s[player].playerID < m.playerID)
          <6>1. player <= Len(s)
            BY <3>2
          <6> QED
            BY <2>2, <6>1
        <5>3. s[player].playerID \in Nat /\ m.playerID \in Nat
          BY <1>4, <3>1, <3>2
        <5> QED
          BY <5>1, <5>2, <5>3
      <4>2. r.playerID >= s[player].playerID
        <5>1. player = P \/ Precedes(s[player], r)
          BY <1>2, <2>2, <3>1, <3>2
        <5>2. QED
          BY <1>4, <3>1, <3>2, <3>6, <4>1, <5>1 DEF Precedes
      <4>3. Precedes(m, r)
        <5>1. CASE r.playerID > m.playerID
          BY <1>4, <3>1, <3>6, <5>1 DEF Precedes
        <5>2. CASE r.playerID = m.playerID
          <6>1. ~IsCommandIdNewer(m.id, r.id)
            BY <2>2, <3>1, <3>6, <5>2
          <6>2. QED
            BY <1>3, <3>1, <3>6, <5>2, <6>1
        <5>3. QED
          BY <1>4, <3>1, <3>2, <4>1, <4>2, <5>1, <5>2
      <4>4. QED
        BY <1>1, <1>2, <1>3, <2>4, <3>1, <4>3
    <3>7. QED
      BY <1>4, <3>1, <3>4, <3>5, <3>6
  <2>5. QED
    BY <1>1, <2>1, <2>2, <2>3, <2>4
<1>7. QED
  BY <1>5, <1>6

LEMMA AddMessageKeeps ==
    ASSUME NEW M, NEW l, IsList(l, M), NEW m \in M
    PROVE  /\ IsList(AddMessage(l, m), M)
           /\ ToSet(AddMessage(l, m).refs) \subseteq ToSet(l.refs) \union {m}
<1> DEFINE s == l.refs
           P == Place(l, m)
<1>1. s \in Seq(M) /\ Len(s) \in Nat /\ P \in 1 .. Len(s) + 1
  BY PlaceInRange DEF IsList
<1>2. CASE s = <<>>
  <2>1. AddMessage(l, m) = [refs |-> <<m>>, inserted |-> 1]
    BY <1>2 DEF AddMessage
  <2>2. <<m>> \in Seq(M) /\ Len(<<m>>) = 1 /\ <<m>>[1] = m
    OBVIOUS
  <2>3. ToSet(<<m>>) \subseteq {m}
    BY Single
  <2>4. QED
    BY <2>1, <2>2, <2>3 DEF IsList
<1>3. CASE s # <<>> /\ IsEqualCommandMsg(Twin(l, m), m)
  BY <1>3 DEF AddMessage
<1>4. CASE s # <<>> /\ ~IsEqualCommandMsg(Twin(l, m), m)
  <2> DEFINE t == InsertAt(s, P, m)
  <2>1. AddMessage(l, m) = [refs |-> t, inserted |-> P]
    BY <1>4 DEF AddMessage
  <2>2. /\ t \in Seq(M) /\ Len(t) = Len(s) + 1
        /\ \A k \in 1 .. Len(s) + 1 : t[k] = IF k < P THEN s[k] ELSE IF k = P THEN m ELSE s[k - 1]
    BY <1>1, Inserted, SMTT(20)
  <2> HIDE DEF t, P
  <2>3. ASSUME NEW x \in ToSet(t) PROVE x \in ToSet(s) \union {m}
    <3>1. PICK k \in 1 .. Len(s) + 1 : t[k] = x
      BY <2>2, Elements
    <3>2. CASE k = P
      BY <1>1, <2>2, <3>1, <3>2
    <3>3. CASE k < P
      <4>1. k \in 1 .. Len(s) /\ x = s[k]
        BY <1>1, <2>2, <3>1, <3>3
      <4>2. QED
        BY <1>1, <4>1, Elements
    <3>4. CASE k > P
      <4>1. k - 1 \in 1 .. Len(s) /\ x = s[k - 1]
        BY <1>1, <2>2, <3>1, <3>4
      <4>2. QED
        BY <1>1, <4>1, Elements
    <3>5. QED
      BY <1>1, <3>2, <3>3, <3>4
  <2>4. QED
    BY <1>1, <2>1, <2>2, <2>3 DEF IsList
<1>5. QED
  BY <1>2, <1>3, <1>4

(* A message that is new is added once, in its place.                       *)
LEMMA AddMessageSorts ==
    ASSUME NEW M, WellOrdered(M), NEW l, IsList(l, M), Ordered(l.refs),
           NEW m \in M, m \notin ToSet(l.refs)
    PROVE  /\ Ordered(AddMessage(l, m).refs)
           /\ ToSet(AddMessage(l, m).refs) = ToSet(l.refs) \union {m}
           /\ Len(AddMessage(l, m).refs) = Len(l.refs) + 1
<1> DEFINE s == l.refs
           P == Place(l, m)
           t == InsertAt(s, P, m)
<1>1. s \in Seq(M) /\ Len(s) \in Nat /\ P \in 1 .. Len(s) + 1
  BY PlaceInRange DEF IsList
<1>2. CASE s = <<>>
  <2>1. AddMessage(l, m) = [refs |-> <<m>>, inserted |-> 1]
    BY <1>2 DEF AddMessage
  <2>2. <<m>> \in Seq(M) /\ Len(<<m>>) = 1 /\ <<m>>[1] = m /\ Len(s) = 0
    BY <1>2
  <2>3. ToSet(<<m>>) = {m}
    BY Single
  <2>4. ToSet(s) = {}
    BY <1>1, <2>2, Elements
  <2>5. QED
    BY <2>1, <2>2, <2>3, <2>4 DEF Ordered
<1>3. CASE s # <<>>
  <2>1. AddMessage(l, m) = [refs |-> t, inserted |-> P]
    <3>1. PICK i \in 1 .. Len(s) : Twin(l, m) = s[i]
      BY <1>3, PlaceInRange
    <3>2. s[i] \in M /\ s[i] # m
      BY <1>1, Elements
    <3>3. ~IsEqualCommandMsg(Twin(l, m), m)
      BY <3>1, <3>2 DEF WellOrdered
    <3>4. QED
      BY <1>3, <3>3 DEF AddMessage
  <2>2. /\ t \in Seq(M) /\ Len(t) = Len(s) + 1
        /\ \A k \in 1 .. Len(s) + 1 : t[k] = IF k < P THEN s[k] ELSE IF k = P THEN m ELSE s[k - 1]
    <3> HIDE DEF P, s
    <3>1. QED
      BY ONLY <1>1, Inserted, m \in M
  <2>3. \A k \in 1 .. Len(s) : (k < P => Precedes(s[k], m)) /\ (k >= P => Precedes(m, s[k]))
    BY PlaceIsRight
  <2>4. \A i, k \in 1 .. Len(s) : i < k => Precedes(s[i], s[k])
    BY DEF Ordered
  <2> HIDE DEF t, P, s
  <2>5. ASSUME NEW i \in 1 .. Len(s) + 1, NEW k \in 1 .. Len(s) + 1, i < k
        PROVE  Precedes(t[i], t[k])
    <3>1. CASE i = P
      <4>1. k - 1 \in 1 .. Len(s) /\ k - 1 >= P /\ t[i] = m /\ t[k] = s[k - 1]
        BY <1>1, <2>2, <2>5, <3>1
      <4>2. QED
        BY <2>3, <4>1
    <3>2. CASE k = P
      <4>1. i \in 1 .. Len(s) /\ i < P /\ t[i] = s[i] /\ t[k] = m
        BY <1>1, <2>2, <2>5, <3>2
      <4>2. QED
        BY <2>3, <4>1
    <3>3. CASE i # P /\ k # P
      <4> DEFINE a == IF i < P THEN i ELSE i - 1
                 b == IF k < P THEN k ELSE k - 1
      <4>1. a \in 1 .. Len(s) /\ b \in 1 .. Len(s) /\ a < b
        BY <1>1, <2>5, <3>3
      <4>2. t[i] = s[a] /\ t[k] = s[b]
        BY <1>1, <2>2, <3>3
      <4> HIDE DEF a, b
      <4>3. QED
        BY <2>4, <4>1, <4>2
    <3>4. QED
      BY <3>1, <3>2, <3>3
  <2>6. Ordered(t)
    BY <2>2, <2>5 DEF Ordered
  <2>7. ASSUME NEW x \in ToSet(s) \union {m} PROVE x \in ToSet(t)
    <3>1. CASE x = m
      <4>1. t[P] = m
        BY <1>1, <2>2
      <4>2. QED
        BY <1>1, <2>2, <3>1, <4>1, Elements
    <3>2. CASE x \in ToSet(s)
      <4>1. PICK k \in 1 .. Len(s) : s[k] = x
        BY <1>1, <3>2, Elements
      <4> DEFINE i == IF k < P THEN k ELSE k + 1
      <4>2. i \in 1 .. Len(t) /\ t[i] = x
        BY <1>1, <2>2, <4>1
      <4> HIDE DEF i
      <4>3. QED
        BY <2>2, <4>2, Elements
    <3>3. QED
      BY <3>1, <3>2
  <2>8. ToSet(t) \subseteq ToSet(s) \union {m}
    BY <2>1, AddMessageKeeps DEF s
  <2>9. QED
    BY <2>1, <2>2, <2>6, <2>7, <2>8 DEF s
<1>4. QED
  BY <1>2, <1>3

(* What stays when a message is removed stays in order.                     *)
LEMMA RemoveMessageKeeps ==
    ASSUME NEW M, NEW l, IsList(l, M), Ordered(l.refs), NEW i \in 1 .. Len(l.refs)
    PROVE  /\ IsList(RemoveMessage(l, i), M)
           /\ Ordered(RemoveMessage(l, i).refs)
           /\ ToSet(RemoveMessage(l, i).refs) \subseteq ToSet(l.refs)
           /\ ToSet(l.refs) \subseteq ToSet(RemoveMessage(l, i).refs) \union {l.refs[i]}
<1> DEFINE s == l.refs
           t == RemoveAt(s, i)
<1>1. s \in Seq(M) /\ Len(s) \in Nat /\ l.inserted \in 0 .. Len(s)
  BY DEF IsList
<1>2. /\ t \in Seq(M) /\ Len(t) = Len(s) - 1
      /\ \A k \in 1 .. Len(s) - 1 : t[k] = IF k < i THEN s[k] ELSE s[k + 1]
  BY <1>1, Removed
<1>3. \A j, k \in 1 .. Len(s) : j < k => Precedes(s[j], s[k])
  BY DEF Ordered
<1> HIDE DEF t
<1>4. RemoveMessage(l, i).refs = t
  BY DEF RemoveMessage, t
<1>5. IsList(RemoveMessage(l, i), M)
  BY <1>1, <1>2 DEF IsList, RemoveMessage, t
<1>6. Ordered(t)
  <2> SUFFICES ASSUME NEW j \in 1 .. Len(t), NEW k \in 1 .. Len(t), j < k
               PROVE  Precedes(t[j], t[k])
    BY DEF Ordered
  <2> DEFINE a == IF j < i THEN j ELSE j + 1
             b == IF k < i THEN k ELSE k + 1
  <2>1. a \in 1 .. Len(s) /\ b \in 1 .. Len(s) /\ a < b
    BY <1>1, <1>2
  <2>2. t[j] = s[a] /\ t[k] = s[b]
    BY <1>1, <1>2
  <2> HIDE DEF a, b
  <2>3. QED
    BY <1>3, <2>1, <2>2
<1>7. ASSUME NEW x \in ToSet(t) PROVE x \in ToSet(s)
  <2>1. PICK k \in 1 .. Len(t) : t[k] = x
    BY <1>2, Elements
  <2>2. \E j \in 1 .. Len(s) : x = s[j]
    BY <1>1, <1>2, <2>1, SMTT(20)
  <2>3. QED
    BY <1>1, <2>2, Elements
<1>8. ASSUME NEW x \in ToSet(s) PROVE x \in ToSet(t) \union {s[i]}
  <2>1. PICK k \in 1 .. Len(s) : s[k] = x
    BY <1>1, Elements
  <2>2. CASE k < i
    <3>1. k \in 1 .. Len(t) /\ t[k] = x
      BY <1>1, <1>2, <2>1, <2>2
    <3>2. QED
      BY <1>2, <3>1, Elements
  <2>3. CASE k > i
    <3>1. k - 1 \in 1 .. Len(t) /\ t[k - 1] = x
      BY <1>1, <1>2, <2>1, <2>3
    <3>2. QED
      BY <1>2, <3>1, Elements
  <2>4. CASE k = i
    BY <2>1, <2>4
  <2>5. QED
    BY <1>1, <2>2, <2>3, <2>4
<1>9. QED
  BY <1>4, <1>5, <1>6, <1>7, <1>8

(* f gives what has become of l when the first i messages of s are added.   *)
AddedUpTo(f, l, s, n) ==
    f = [i \in 0 .. n |-> IF i = 0 THEN l ELSE AddMessage(f[i - 1], s[i])]

LEMMA AppendListIs ==
    ASSUME NEW l, NEW s, Len(s) \in Nat
    PROVE  \E f : AddedUpTo(f, l, s, Len(s)) /\ AppendList(l, s) = f[Len(s)]
<1> DEFINE S == {n \in Nat : \E f : AddedUpTo(f, l, s, n)}
           list == CHOOSE h : h = [n \in 0 .. Len(s) |->
                                     IF n = 0 THEN l ELSE AddMessage(h[n - 1], s[n])]
<1>1. 0 \in S
  <2>1. AddedUpTo([i \in 0 .. 0 |-> l], l, s, 0)
    BY DEF AddedUpTo
  <2>2. QED
    BY <2>1
<1>2. ASSUME NEW n \in Nat, n \in S PROVE n + 1 \in S
  <2>1. PICK f : AddedUpTo(f, l, s, n)
    BY <1>2
  <2> DEFINE g == [i \in 0 .. n + 1 |-> IF i = n + 1 THEN AddMessage(f[n], s[n + 1]) ELSE f[i]]
  <2>2. ASSUME NEW i \in 0 .. n + 1
        PROVE  g[i] = IF i = 0 THEN l ELSE AddMessage(g[i - 1], s[i])
    BY <2>1 DEF AddedUpTo
  <2>3. AddedUpTo(g, l, s, n + 1)
    BY <2>2 DEF AddedUpTo
  <2>4. QED
    BY <2>3
<1>3. AddedUpTo(list, l, s, Len(s))
  <2>1. \E h : AddedUpTo(h, l, s, Len(s))
    BY <1>1, <1>2, SetInduction
  <2>2. QED
    BY <2>1, Zenon DEF AddedUpTo
<1>4. AppendList(l, s) = list[Len(s)]
  BY Zenon DEF AppendList
<1>5. QED
  BY <1>3, <1>4

(* Messages that differ from each other, and from those in the list, are    *)
(* all added, each in its place.                                            *)
LEMMA AppendListSorts ==
    ASSUME NEW M, WellOrdered(M), NEW l, IsList(l, M), Ordered(l.refs),
           NEW s \in Seq(M), ToSet(l.refs) \cap ToSet(s) = {},
           \A i, j \in 1 .. Len(s) : i # j => s[i] # s[j]
    PROVE  /\ IsList(AppendList(l, s), M)
           /\ Ordered(AppendList(l, s).refs)
           /\ ToSet(AppendList(l, s).refs) = ToSet(l.refs) \union ToSet(s)
<1>1. Len(s) \in Nat /\ \A i \in 1 .. Len(s) : s[i] \in M /\ s[i] \in ToSet(s)
  BY Elements
<1>2. PICK f : AddedUpTo(f, l, s, Len(s)) /\ AppendList(l, s) = f[Len(s)]
  BY <1>1, AppendListIs
<1>3. f[0] = l /\ \A i \in 1 .. Len(s) : f[i] = AddMessage(f[i - 1], s[i])
  BY <1>1, <1>2, SMTT(20) DEF AddedUpTo
<1> DEFINE S == {n \in Nat : n <= Len(s) =>
                    /\ IsList(f[n], M) /\ Ordered(f[n].refs)
                    /\ ToSet(f[n].refs) = ToSet(l.refs) \union {s[i] : i \in 1 .. n}}
<1>4. 0 \in S
  BY <1>3
<1>5. ASSUME NEW n \in Nat, n \in S PROVE n + 1 \in S
  <2> SUFFICES ASSUME n + 1 <= Len(s)
               PROVE  /\ IsList(f[n + 1], M) /\ Ordered(f[n + 1].refs)
                      /\ ToSet(f[n + 1].refs) = ToSet(l.refs) \union {s[i] : i \in 1 .. n + 1}
    OBVIOUS
  <2>1. /\ IsList(f[n], M) /\ Ordered(f[n].refs)
        /\ ToSet(f[n].refs) = ToSet(l.refs) \union {s[i] : i \in 1 .. n}
    BY <1>1, <1>5
  <2>2. f[n + 1] = AddMessage(f[n], s[n + 1]) /\ s[n + 1] \in M /\ s[n + 1] \in ToSet(s)
    BY <1>1, <1>3
  <2>3. s[n + 1] \notin ToSet(f[n].refs)
    BY <1>1, <2>1, <2>2
  <2>4. /\ IsList(f[n + 1], M) /\ Ordered(f[n + 1].refs)
        /\ ToSet(f[n + 1].refs) = ToSet(f[n].refs) \union {s[n + 1]}
    <3> DEFINE l0 == f[n]
               m == s[n + 1]
    <3>1. IsList(l0, M) /\ Ordered(l0.refs) /\ m \in M /\ m \notin ToSet(l0.refs)
      BY <2>1, <2>2, <2>3
    <3> HIDE DEF l0, m
    <3>2. IsList(AddMessage(l0, m), M)
      BY <3>1, AddMessageKeeps
    <3>3. /\ Ordered(AddMessage(l0, m).refs)
          /\ ToSet(AddMessage(l0, m).refs) = ToSet(l0.refs) \union {m}
      BY <3>1, AddMessageSorts, SMTT(40)
    <3>4. QED
      BY <2>2, <3>2, <3>3 DEF l0, m
  <2>5. {s[i] : i \in 1 .. n + 1} = {s[i] : i \in 1 .. n} \union {s[n + 1]}
    OBVIOUS
  <2>6. QED
    BY <2>1, <2>4, <2>5
<1>6. Len(s) \in S
  <2> HIDE DEF S
  <2>1. \A n \in Nat : n \in S => n + 1 \in S
    BY <1>5
  <2>2. Nat \subseteq S
    BY <1>4, <2>1, SetInduction, Zenon
  <2>3. QED
    BY <1>1, <2>2
<1>7. {s[i] : i \in 1 .. Len(s)} = ToSet(s)
  BY DEF ToSet
<1>8. QED
  BY <1>1, <1>2, <1>6, <1>7

-----------------------------------------------------------------------------
(* IDs *)

LEMMA ProductGrows ==
    ASSUME NEW a \in Nat, NEW b \in Nat, NEW c \in Nat, a <= b
    PROVE  a * c <= b * c /\ a * c \in Nat /\ (a + 1) * c = a * c + c
OBVIOUS

LEMMA Remainder ==
    ASSUME NEW d \in Nat, d > 1, NEW a \in Int, -d <= a, a < 2 * d
    PROVE  a % d = IF a < 0 THEN a + d ELSE IF a < d THEN a ELSE a - d
OBVIOUS

LEMMA HalfOf == IdSpace \div 2 \in Nat /\ 2 * (IdSpace \div 2) <= IdSpace
BY IdAssumption

(* Nobody uses more than half of the IDs.                                   *)
LEMMA FewIds ==
    ASSUME NEW p \in Senders, NEW len \in Nat, len <= Len(Script[p]),
           NEW count \in Nat, count <= len * (Chunks + 1)
    PROVE  /\ MaxIds(p) \in Nat /\ count <= MaxIds(p)
           /\ count <= IdSpace \div 2
<1>1. Len(Script[p]) \in Nat /\ Chunks + 1 \in Nat
  BY SendersAssumption
<1>2. /\ len * (Chunks + 1) <= MaxIds(p)
      /\ len * (Chunks + 1) \in Nat /\ MaxIds(p) \in Nat
  BY <1>1, ProductGrows DEF MaxIds
<1>3. MaxIds(p) <= IdSpace \div 2
  BY ScriptAssumption
<1>4. QED
  BY <1>2, <1>3, HalfOf

(* IDs that lie less than half of all IDs apart differ, and compare as they *)
(* were given even where they overflow.                                     *)
LEMMA IdsCompare ==
    ASSUME NEW first \in 0 .. IdSpace - 1, NEW m \in Nat, NEW n \in Nat,
           m < n, n < IdSpace \div 2
    PROVE  LET x == (first + m) % IdSpace
               y == (first + n) % IdSpace
           IN  /\ x \in 0 .. IdSpace - 1 /\ y \in 0 .. IdSpace - 1 /\ x # y
               /\ (y - x) % IdSpace < IdSpace \div 2
               /\ ~((x - y) % IdSpace < IdSpace \div 2)
<1> DEFINE x == (first + m) % IdSpace
           y == (first + n) % IdSpace
           half == IdSpace \div 2
<1>1. IdSpace \in Nat /\ IdSpace > 1 /\ half \in Nat /\ 2 * half <= IdSpace
  BY IdAssumption, HalfOf
<1>2. /\ first + m \in Nat /\ first + m < 2 * IdSpace
      /\ first + n \in Nat /\ first + n < 2 * IdSpace
  BY <1>1
<1>3. /\ x = IF first + m < IdSpace THEN first + m ELSE (first + m) - IdSpace
      /\ y = IF first + n < IdSpace THEN first + n ELSE (first + n) - IdSpace
  <2> DEFINE a == first + m
             b == first + n
  <2>1. /\ a \in Int /\ -IdSpace <= a /\ ~(a < 0) /\ a < 2 * IdSpace
        /\ b \in Int /\ -IdSpace <= b /\ ~(b < 0) /\ b < 2 * IdSpace
    BY <1>1, <1>2
  <2> HIDE DEF a, b
  <2>2. /\ a % IdSpace = IF a < 0 THEN a + IdSpace ELSE IF a < IdSpace THEN a ELSE a - IdSpace
        /\ b % IdSpace = IF b < 0 THEN b + IdSpace ELSE IF b < IdSpace THEN b ELSE b - IdSpace
    BY <1>1, <2>1, Remainder, Zenon
  <2>3. /\ a % IdSpace = IF a < IdSpace THEN a ELSE a - IdSpace
        /\ b % IdSpace = IF b < IdSpace THEN b ELSE b - IdSpace
    <3> DEFINE u == a % IdSpace
               v == b % IdSpace
    <3>1. /\ u = IF a < 0 THEN a + IdSpace ELSE IF a < IdSpace THEN a ELSE a - IdSpace
          /\ v = IF b < 0 THEN b + IdSpace ELSE IF b < IdSpace THEN b ELSE b - IdSpace
      BY <2>2
    <3> HIDE DEF u, v
    <3>2. /\ u = IF a < IdSpace THEN a ELSE a - IdSpace
          /\ v = IF b < IdSpace THEN b ELSE b - IdSpace
      BY <2>1, <3>1
    <3>3. QED
      BY <3>2, Zenon DEF u, v
  <2>4. QED
    BY <2>3, Zenon DEF a, b
<1> HIDE DEF x, y, half
<1>4. x \in 0 .. IdSpace - 1 /\ y \in 0 .. IdSpace - 1 /\ x # y
  BY <1>1, <1>3 DEF half
<1>5. /\ (y - x) % IdSpace = IF y - x < 0 THEN y - x + IdSpace ELSE y - x
      /\ (x - y) % IdSpace = IF x - y < 0 THEN x - y + IdSpace ELSE x - y
  <2>1. y - x \in Int /\ x - y \in Int /\ -IdSpace <= y - x /\ y - x < IdSpace
        /\ -IdSpace <= x - y /\ x - y < IdSpace
    BY <1>1, <1>4
  <2>2. QED
    BY <1>1, <2>1, Remainder
<1>6. /\ (y - x) % IdSpace = n - m
      /\ (x - y) % IdSpace = IdSpace - (n - m)
  <2>1. n - m < IdSpace /\ 0 < n - m /\ IdSpace \in Int /\ x \in Int /\ y \in Int
    BY <1>1, <1>4 DEF half
  <2> DEFINE u == (y - x) % IdSpace
             v == (x - y) % IdSpace
  <2> HIDE DEF u, v
  <2>2. /\ u = IF y - x < 0 THEN y - x + IdSpace ELSE y - x
        /\ v = IF x - y < 0 THEN x - y + IdSpace ELSE x - y
    BY <1>5 DEF u, v
  <2>3. u = n - m /\ v = IdSpace - (n - m)
    BY <1>3, <2>1, <2>2
  <2>4. QED
    BY <2>3 DEF u, v
<1>7. n - m < half
  BY <1>1 DEF half
<1>8. n - m < half /\ ~(IdSpace - (n - m) < half)
  BY <1>1, <1>7
<1>9. QED
  BY <1>4, <1>6, <1>8 DEF x, y, half

(* The messages of all senders are in the order they should be in, in both  *)
(* builds.                                                                  *)
LEMMA OwnIdsOrder ==
    ASSUME retailCompatible \in BOOLEAN, NEW count \in [Senders -> Nat],
           \A p \in Senders : count[p] <= IdSpace \div 2,
           NEW M, OwnIds(M, count)
    PROVE  WellOrdered(M)
<1>1. \A a \in M : IdRule(a, count)
  BY DEF OwnIds
<1>2. \A a \in M : /\ a.type \in Nat /\ a.playerID \in Nat /\ a.nth \in Nat
                   /\ a.playerID \in Senders
                   /\ a.id = (FirstId[a.playerID] + a.nth) % IdSpace
                   /\ a.nth < IdSpace \div 2
                   /\ FirstId[a.playerID] \in 0 .. IdSpace - 1
  <2> TAKE a \in M
  <2>1. a.playerID \in Senders /\ a.nth \in Nat /\ a.nth < count[a.playerID]
    BY <1>1 DEF IdRule
  <2>2. count[a.playerID] \in Nat /\ count[a.playerID] <= IdSpace \div 2
    BY <2>1
  <2>3. a.playerID \in Nat /\ FirstId[a.playerID] \in 0 .. IdSpace - 1
    <3>1. Senders \subseteq Nat /\ FirstId \in [Senders -> 0 .. IdSpace - 1]
      BY SendersAssumption
    <3>2. QED
      BY <2>1, <3>1
  <2>4. QED
    BY <1>1, <2>1, <2>2, <2>3, HalfOf DEF IdRule
<1>3. \A a \in M : a.id \in Nat
  <2> TAKE a \in M
  <2> DEFINE n == FirstId[a.playerID] + a.nth
  <2>1. n \in Nat /\ IdSpace \in Nat /\ IdSpace > 0 /\ a.id = n % IdSpace
    BY <1>2, IdAssumption
  <2> HIDE DEF n
  <2>2. QED
    BY ONLY <2>1
<1>4. ASSUME NEW a \in M, NEW b \in M, a.playerID = b.playerID, a.nth < b.nth
      PROVE  /\ a.id # b.id
             /\ (b.id - a.id) % IdSpace < IdSpace \div 2
             /\ ~((a.id - b.id) % IdSpace < IdSpace \div 2)
  BY <1>2, <1>4, IdsCompare
<1>5. ASSUME NEW a \in M, NEW b \in M, a.playerID = b.playerID, a.nth = b.nth
      PROVE  a = b
  BY <1>5 DEF OwnIds
<1>6. ASSUME NEW a \in M, NEW b \in M, IsEqualCommandMsg(a, b) PROVE a = b
  BY <1>2, <1>4, <1>5, <1>6 DEF IsEqualCommandMsg
<1>7. ASSUME NEW a \in M, NEW b \in M, a # b PROVE Precedes(a, b) \/ Precedes(b, a)
  <2>1. a.playerID = b.playerID => a.id # b.id /\ a.nth # b.nth
    BY <1>5, <1>6, <1>7 DEF IsEqualCommandMsg
  <2>2. QED
    BY <1>2, <1>3, <2>1 DEF Precedes
<1>8. ASSUME NEW a \in M, NEW b \in M, a.type = b.type, a.playerID = b.playerID
      PROVE  IsCommandIdNewer(a.id, b.id) <=> Precedes(b, a)
  <2>1. CASE retailCompatible
    BY <1>2, <1>3, <1>8, <2>1 DEF IsCommandIdNewer, Precedes
  <2>2. CASE ~retailCompatible
    <3>1. Precedes(b, a) <=> b.nth < a.nth
      BY <1>2, <1>8, <2>2 DEF Precedes
    <3>2. CASE b.nth < a.nth
      <4>1. b.id # a.id /\ (a.id - b.id) % IdSpace < IdSpace \div 2
        BY <1>4, <1>8, <3>2
      <4>2. QED
        BY <2>2, <3>1, <3>2, <4>1 DEF IsCommandIdNewer
    <3>3. CASE a.nth < b.nth
      <4>1. ~((a.id - b.id) % IdSpace < IdSpace \div 2)
        BY <1>4, <1>8, <3>3
      <4>2. ~(b.nth < a.nth)
        BY <1>2, <3>3
      <4>3. QED
        BY <2>2, <3>1, <4>1, <4>2 DEF IsCommandIdNewer
    <3>4. CASE a.nth = b.nth
      <4>1. a = b
        BY <1>5, <1>8, <3>4
      <4>2. QED
        BY <1>2, <2>2, <3>1, <3>4, <4>1 DEF IsCommandIdNewer
    <3>5. QED
      BY <1>2, <3>2, <3>3, <3>4
  <2>3. QED
    BY <2>1, <2>2
<1>9. QED
  BY <1>2, <1>3, <1>6, <1>7, <1>8 DEF WellOrdered

LEMMA MessagesOrder ==
    ASSUME GivenInv, IdsInv
    PROVE  WellOrdered(sent \union GivenCommands)
<1>1. \A p \in Senders : generated[p] <= IdSpace \div 2
  <2> TAKE p \in Senders
  <2>1. /\ generated[p] \in Nat /\ Len(given[p]) \in Nat
        /\ Len(given[p]) <= Len(Script[p]) /\ generated[p] <= Len(given[p]) * (Chunks + 1)
    BY DEF GivenInv
  <2>2. QED
    BY <2>1, FewIds
<1>2. QED
  BY <1>1, OwnIdsOrder DEF GivenInv, IdsInv

LEMMA SomeAreOrdered ==
    ASSUME NEW M, WellOrdered(M), NEW T, T \subseteq M
    PROVE  WellOrdered(T)
<1>1. \A a \in T : a \in M
  OBVIOUS
<1>2. QED
  BY <1>1, Zenon DEF WellOrdered

LEMMA GivenByPlayer ==
    ASSUME GivenInv
    PROVE  /\ \A p \in Senders : ToSet(given[p]) \subseteq GivenCommands
           /\ \A c \in GivenCommands : c.playerID \in Senders /\ c \in ToSet(given[c.playerID])
           /\ GivenCommands \subseteq Command
<1>1. \A p \in Senders : given[p] \in Seq(Command)
  BY DEF GivenInv
<1>2. \A p \in Senders : ToSet(given[p]) \subseteq Command
  BY <1>1, Elements
<1>3. ASSUME NEW c \in GivenCommands
      PROVE  c.playerID \in Senders /\ c \in ToSet(given[c.playerID])
  <2>1. PICK p \in Senders : c \in ToSet(given[p])
    BY DEF GivenCommands
  <2>2. c.playerID = p
    BY <2>1 DEF GivenInv
  <2>3. QED
    BY <2>1, <2>2
<1>4. QED
  BY <1>2, <1>3 DEF GivenCommands

-----------------------------------------------------------------------------
(* The commands of a frame *)

FrameUpTo(f, n) ==
    f = [i \in 0 .. n |->
           IF i = 0 THEN EmptyList
           ELSE IF i - 1 \in Senders THEN AppendList(f[i - 1], frameData[i - 1].refs)
           ELSE f[i - 1]]

LEMMA FrameCommandsIs ==
    \E f : FrameUpTo(f, MAX_SLOTS) /\ FrameCommands = f[MAX_SLOTS].refs
<1> DEFINE S == {n \in Nat : \E f : FrameUpTo(f, n)}
           list == CHOOSE h : h = [n \in 0 .. MAX_SLOTS |->
                      IF n = 0 THEN EmptyList
                      ELSE IF n - 1 \in Senders THEN AppendList(h[n - 1], frameData[n - 1].refs)
                      ELSE h[n - 1]]
<1>1. 0 \in S
  <2>1. FrameUpTo([i \in 0 .. 0 |-> EmptyList], 0)
    BY DEF FrameUpTo
  <2>2. QED
    BY <2>1
<1>2. ASSUME NEW n \in Nat, n \in S PROVE n + 1 \in S
  <2>1. PICK f : FrameUpTo(f, n)
    BY <1>2
  <2> DEFINE next == IF n \in Senders THEN AppendList(f[n], frameData[n].refs) ELSE f[n]
             g == [i \in 0 .. n + 1 |-> IF i = n + 1 THEN next ELSE f[i]]
  <2>2. ASSUME NEW i \in 0 .. n + 1
        PROVE  g[i] = IF i = 0 THEN EmptyList
                      ELSE IF i - 1 \in Senders THEN AppendList(g[i - 1], frameData[i - 1].refs)
                      ELSE g[i - 1]
    BY <2>1 DEF FrameUpTo
  <2>3. FrameUpTo(g, n + 1)
    BY <2>2 DEF FrameUpTo
  <2>4. QED
    BY <2>3
<1>3. MAX_SLOTS \in S
  <2> HIDE DEF S
  <2>1. \A n \in Nat : n \in S => n + 1 \in S
    BY <1>2
  <2>2. Nat \subseteq S
    BY <1>1, <2>1, SetInduction, Zenon
  <2>3. QED
    BY <2>2, SendersAssumption
<1>4. FrameUpTo(list, MAX_SLOTS)
  <2>1. \E h : FrameUpTo(h, MAX_SLOTS)
    BY <1>3
  <2>2. QED
    BY <2>1, Zenon DEF FrameUpTo
<1>5. FrameCommands = list[MAX_SLOTS].refs
  BY Zenon DEF FrameCommands
<1>6. QED
  BY <1>4, <1>5

LEMMA EmptyIsList == \A M : IsList(EmptyList, M) /\ Ordered(EmptyList.refs)
                            /\ EmptyList.refs = <<>> /\ ToSet(EmptyList.refs) = {}
<1>1. /\ EmptyList.refs = <<>> /\ EmptyList.inserted = 0 /\ Len(<<>>) = 0
      /\ \A M : EmptyList \in [refs : Seq(M), inserted : Nat]
  BY DEF EmptyList
<1>2. ToSet(<<>>) = {}
  BY DEF ToSet
<1>3. Ordered(<<>>)
  BY <1>1 DEF Ordered
<1>4. QED
  BY <1>1, <1>2, <1>3 DEF IsList

(* However the commands came in, a frame executes all of them, in one order *)
LEMMA FrameIsOrdered ==
    ASSUME GivenInv, IdsInv, ListsInv
    PROVE  /\ Ordered(FrameCommands) /\ FrameCommands \in Seq(GivenCommands)
           /\ ToSet(FrameCommands) = Delivered
<1> DEFINE M == GivenCommands
<1>1. WellOrdered(M)
  BY MessagesOrder, SomeAreOrdered
<1>2. PICK f : FrameUpTo(f, MAX_SLOTS) /\ FrameCommands = f[MAX_SLOTS].refs
  BY FrameCommandsIs
<1>3. MAX_SLOTS \in Nat /\ Senders \subseteq Nat
  BY SendersAssumption
<1>4. /\ f[0] = EmptyList
      /\ \A n \in Nat : n + 1 <= MAX_SLOTS =>
            f[n + 1] = IF n \in Senders THEN AppendList(f[n], frameData[n].refs) ELSE f[n]
  BY <1>2, <1>3 DEF FrameUpTo
<1>5. /\ \A p \in Senders : ToSet(frameData[p].refs) = {c \in Delivered : c.playerID = p}
      /\ \A c \in Delivered : c.playerID \in Senders /\ c \in M
  <2>1. ASSUME NEW p \in Senders, NEW c \in ToSet(frameData[p].refs)
        PROVE  c.playerID = p /\ c \in M
    <3>1. IsList(frameData[p], ToSet(given[p]))
      BY DEF ListsInv
    <3>2. c \in ToSet(given[p])
      BY <3>1, Elements DEF IsList
    <3>3. QED
      BY <3>2, GivenByPlayer DEF GivenInv
  <2>2. QED
    BY <2>1 DEF Delivered
<1> DEFINE Before(n) == {c \in Delivered : c.playerID < n}
           Good(n) == /\ IsList(f[n], M) /\ Ordered(f[n].refs)
                      /\ ToSet(f[n].refs) = Before(n)
           S == {n \in Nat : n <= MAX_SLOTS => Good(n)}
<1>6. 0 \in S
  <2>1. IsList(f[0], M) /\ Ordered(f[0].refs) /\ ToSet(f[0].refs) = {}
    BY <1>4, EmptyIsList
  <2>2. Before(0) = {}
    <3>1. \A c \in Delivered : c.playerID \in Nat
      BY <1>3, <1>5
    <3>2. QED
      BY <3>1
  <2> HIDE DEF Before
  <2>3. Good(0)
    BY <2>1, <2>2
  <2> HIDE DEF Good
  <2>4. QED
    BY <2>3
<1>7. ASSUME NEW n \in Nat, n \in S PROVE n + 1 \in S
  <2> SUFFICES ASSUME n + 1 <= MAX_SLOTS PROVE Good(n + 1)
    OBVIOUS
  <2>1. Good(n)
    BY <1>3, <1>7
  <2>2. CASE n \notin Senders
    <3>1. f[n + 1] = f[n]
      BY <1>4, <2>2
    <3>2. \A c \in Delivered : c.playerID \in Nat /\ c.playerID # n
      BY <1>3, <1>5, <2>2
    <3>3. Before(n + 1) = Before(n)
      BY <3>2
    <3> HIDE DEF Before
    <3>4. QED
      BY <2>1, <3>1, <3>3
  <2>3. CASE n \in Senders
    <3> DEFINE l == f[n]
               s == frameData[n].refs
    <3>1. f[n + 1] = AppendList(l, s)
      BY <1>4, <2>3
    <3>2. IsList(frameData[n], ToSet(given[n])) /\ Ordered(s)
      BY <2>3 DEF ListsInv
    <3>3. ToSet(given[n]) \subseteq M /\ \A c \in ToSet(given[n]) : c.playerID = n
      BY <2>3, GivenByPlayer DEF GivenInv
    <3>4. s \in Seq(ToSet(given[n])) /\ ToSet(s) \subseteq ToSet(given[n])
      BY <3>2, Elements DEF IsList
    <3>5. s \in Seq(M)
      BY <3>3, <3>4
    <3>6. ToSet(l.refs) \cap ToSet(s) = {}
      BY <2>1, <3>3, <3>4
    <3>7. ASSUME NEW i \in 1 .. Len(s), NEW j \in 1 .. Len(s), i # j PROVE s[i] # s[j]
      <4>1. Precedes(s[i], s[j]) \/ Precedes(s[j], s[i])
        BY <3>2, <3>7 DEF Ordered
      <4>2. s[i] \in M
        BY <3>5
      <4>3. QED
        BY <1>1, <4>1, <4>2, PrecedesOrders
    <3>8. ToSet(l.refs) \union ToSet(s) = Before(n + 1)
      <4>1. ToSet(l.refs) = Before(n) /\ ToSet(s) = {c \in Delivered : c.playerID = n}
        BY <1>5, <2>1, <2>3
      <4>2. \A c \in Delivered : c.playerID \in Nat
        BY <1>3, <1>5
      <4>3. QED
        BY <4>1, <4>2
    <3>9. IsList(l, M) /\ Ordered(l.refs)
      BY <2>1
    <3> HIDE DEF l, s, M
    <3>10. /\ IsList(AppendList(l, s), M) /\ Ordered(AppendList(l, s).refs)
           /\ ToSet(AppendList(l, s).refs) = ToSet(l.refs) \union ToSet(s)
      BY <1>1, <3>5, <3>6, <3>7, <3>9, AppendListSorts
    <3>11. QED
      BY <3>1, <3>8, <3>10
  <2>4. QED
    BY <2>2, <2>3
<1>8. MAX_SLOTS \in S
  <2> HIDE DEF S
  <2>1. \A n \in Nat : n \in S => n + 1 \in S
    BY <1>7
  <2>2. Nat \subseteq S
    BY <1>6, <2>1, SetInduction, Zenon
  <2>3. QED
    BY <1>3, <2>2
<1>9. Before(MAX_SLOTS) = Delivered
  <2>1. \A p \in Senders : p < MAX_SLOTS
    BY SendersAssumption
  <2>2. QED
    BY <1>5, <2>1
<1>10. Good(MAX_SLOTS)
  BY <1>3, <1>8
<1>11. QED
  BY <1>2, <1>9, <1>10 DEF IsList

-----------------------------------------------------------------------------
(* Commands added to the frame data *)

DataUpTo(f, p, s, n) ==
    f = [i \in 0 .. n |->
           IF i = 0 THEN [list |-> frameData[p], count |-> commandCount[p]]
           ELSE IF s[i].playerID = p THEN AddCommand(f[i - 1], s[i])
           ELSE f[i - 1]]

LEMMA AddedIs ==
    ASSUME NEW p, NEW s, Len(s) \in Nat
    PROVE  \E f : DataUpTo(f, p, s, Len(s)) /\ Added(p, s) = f[Len(s)]
<1> DEFINE start == [list |-> frameData[p], count |-> commandCount[p]]
           S == {n \in Nat : \E f : DataUpTo(f, p, s, n)}
           data == CHOOSE h : h = [n \in 0 .. Len(s) |->
                      IF n = 0 THEN [list |-> frameData[p], count |-> commandCount[p]]
                      ELSE IF s[n].playerID = p THEN AddCommand(h[n - 1], s[n])
                      ELSE h[n - 1]]
<1>1. 0 \in S
  <2>1. DataUpTo([i \in 0 .. 0 |-> start], p, s, 0)
    BY DEF DataUpTo
  <2>2. QED
    BY <2>1
<1>2. ASSUME NEW n \in Nat, n \in S PROVE n + 1 \in S
  <2>1. PICK f : DataUpTo(f, p, s, n)
    BY <1>2
  <2> DEFINE next == IF s[n + 1].playerID = p THEN AddCommand(f[n], s[n + 1]) ELSE f[n]
             g == [i \in 0 .. n + 1 |-> IF i = n + 1 THEN next ELSE f[i]]
  <2>2. ASSUME NEW i \in 0 .. n + 1
        PROVE  g[i] = IF i = 0 THEN start
                      ELSE IF s[i].playerID = p THEN AddCommand(g[i - 1], s[i])
                      ELSE g[i - 1]
    BY <2>1 DEF DataUpTo
  <2>3. DataUpTo(g, p, s, n + 1)
    BY <2>2 DEF DataUpTo
  <2>4. QED
    BY <2>3
<1>3. Len(s) \in S
  <2> HIDE DEF S
  <2>1. \A n \in Nat : n \in S => n + 1 \in S
    BY <1>2
  <2>2. Nat \subseteq S
    BY <1>1, <2>1, SetInduction, Zenon
  <2>3. QED
    BY <2>2
<1>4. DataUpTo(data, p, s, Len(s))
  <2>1. \E h : DataUpTo(h, p, s, Len(s))
    BY <1>3
  <2>2. QED
    BY <2>1, Zenon DEF DataUpTo
<1>5. Added(p, s) = data[Len(s)]
  BY Zenon DEF Added
<1>6. QED
  BY <1>4, <1>5

(* The list and the count of a player's frame data.                         *)
GoodData(d, M) ==
    /\ IsList(d.list, M) /\ Ordered(d.list.refs)
    /\ d.count = Len(d.list.refs)

(* A command that is there already changes nothing; a new one is added to   *)
(* the list and counted.                                                    *)
LEMMA AddCommandKeeps ==
    ASSUME NEW M, WellOrdered(M), NEW d, GoodData(d, M), NEW c \in M
    PROVE  /\ GoodData(AddCommand(d, c), M)
           /\ ToSet(AddCommand(d, c).list.refs) = ToSet(d.list.refs) \union {c}
<1> DEFINE l == d.list
<1>1. /\ IsList(l, M) /\ Ordered(l.refs) /\ d.count = Len(l.refs)
      /\ l.refs \in Seq(M) /\ Len(l.refs) \in Nat
  BY DEF GoodData, IsList
<1>2. CASE FindMessage(l, c)
  <2>1. PICK i \in 1 .. Len(l.refs) : IsEqualCommandMsg(l.refs[i], c)
    BY <1>2 DEF FindMessage
  <2>2. l.refs[i] = c
    BY <1>1, <2>1 DEF WellOrdered
  <2>3. c \in ToSet(l.refs)
    BY <1>1, <2>2, Elements
  <2>4. AddCommand(d, c) = d
    BY <1>2 DEF AddCommand
  <2>5. QED
    BY <2>3, <2>4
<1>3. CASE ~FindMessage(l, c)
  <2>1. c \notin ToSet(l.refs)
    <3>1. IsEqualCommandMsg(c, c)
      BY DEF IsEqualCommandMsg
    <3>2. QED
      BY <1>1, <1>3, <3>1, Elements DEF FindMessage
  <2> DEFINE k == AddMessage(l, c)
  <2>2. IsList(k, M)
    BY <1>1, AddMessageKeeps
  <2>3. Ordered(k.refs) /\ ToSet(k.refs) = ToSet(l.refs) \union {c} /\ Len(k.refs) = Len(l.refs) + 1
    BY ONLY WellOrdered(M), c \in M, <1>1, <2>1, AddMessageSorts DEF k
  <2>4. AddCommand(d, c) = [list |-> k, count |-> d.count + 1]
    BY <1>3 DEF AddCommand
  <2> HIDE DEF k
  <2>5. QED
    BY <1>1, <2>2, <2>3, <2>4 DEF GoodData
<1>4. QED
  BY <1>2, <1>3

LEMMA AddedKeeps ==
    ASSUME GivenInv, IdsInv, ListsInv, NEW p \in Senders, NEW s \in Seq(GivenCommands)
    PROVE  /\ GoodData(Added(p, s), ToSet(given[p]))
           /\ ToSet(Added(p, s).list.refs) =
                 ToSet(frameData[p].refs) \union {c \in ToSet(s) : c.playerID = p}
<1> DEFINE M == ToSet(given[p])
           old == ToSet(frameData[p].refs)
<1>1. WellOrdered(M)
  BY MessagesOrder, SomeAreOrdered, GivenByPlayer
<1>2. Len(s) \in Nat /\ \A i \in 1 .. Len(s) : s[i] \in GivenCommands
  OBVIOUS
<1>3. \A i \in 1 .. Len(s) : s[i].playerID = p => s[i] \in M
  BY <1>2, GivenByPlayer
<1>4. PICK f : DataUpTo(f, p, s, Len(s)) /\ Added(p, s) = f[Len(s)]
  BY <1>2, AddedIs
<1>5. /\ f[0] = [list |-> frameData[p], count |-> commandCount[p]]
      /\ \A n \in Nat : n + 1 <= Len(s) =>
            f[n + 1] = IF s[n + 1].playerID = p THEN AddCommand(f[n], s[n + 1]) ELSE f[n]
  BY <1>2, <1>4 DEF DataUpTo
<1> DEFINE Some(n) == {c \in {s[i] : i \in 1 .. n} : c.playerID = p}
           Good(n) == GoodData(f[n], M) /\ ToSet(f[n].list.refs) = old \union Some(n)
           S == {n \in Nat : n <= Len(s) => Good(n)}
<1>6. 0 \in S
  <2>1. IsList(frameData[p], M) /\ Ordered(frameData[p].refs) /\ commandCount[p] = Len(frameData[p].refs)
    BY DEF ListsInv
  <2>2. QED
    BY <1>5, <2>1 DEF GoodData
<1>7. ASSUME NEW n \in Nat, n \in S PROVE n + 1 \in S
  <2> SUFFICES ASSUME n + 1 <= Len(s) PROVE Good(n + 1)
    OBVIOUS
  <2>1. Good(n)
    BY <1>2, <1>7
  <2> DEFINE c == s[n + 1]
             d == f[n]
  <2>2. {s[i] : i \in 1 .. n + 1} = {s[i] : i \in 1 .. n} \union {c}
    OBVIOUS
  <2>3. CASE c.playerID # p
    <3>1. f[n + 1] = f[n] /\ Some(n + 1) = Some(n)
      BY <1>5, <2>2, <2>3
    <3>2. QED
      BY <2>1, <3>1
  <2>4. CASE c.playerID = p
    <3>1. f[n + 1] = AddCommand(d, c) /\ Some(n + 1) = Some(n) \union {c}
      BY <1>5, <2>2, <2>4
    <3>2. GoodData(d, M) /\ c \in M
      BY <1>2, <1>3, <2>1, <2>4
    <3>3. ToSet(d.list.refs) = old \union Some(n)
      BY <2>1
    <3> HIDE DEF d, c, M, old, Some
    <3>4. GoodData(AddCommand(d, c), M) /\ ToSet(AddCommand(d, c).list.refs) = ToSet(d.list.refs) \union {c}
      BY <1>1, <3>2, AddCommandKeeps
    <3>5. QED
      BY <3>1, <3>3, <3>4
  <2>5. QED
    BY <2>3, <2>4
<1>8. Len(s) \in S
  <2> HIDE DEF S
  <2>1. \A n \in Nat : n \in S => n + 1 \in S
    BY <1>7
  <2>2. Nat \subseteq S
    BY <1>6, <2>1, SetInduction, Zenon
  <2>3. QED
    BY <1>2, <2>2
<1>9. {s[i] : i \in 1 .. Len(s)} = ToSet(s)
  BY DEF ToSet
<1>10. QED
  BY <1>2, <1>4, <1>8, <1>9

-----------------------------------------------------------------------------
(* Big commands put together *)

LEMMA ConstructedIsCarried ==
    ASSUME NEW node, NEW heard, NodeRule(node, GivenCommands, heard)
    PROVE  \E e \in node.chunks : Constructed(node) = e.of
<1> DEFINE S == {e.chunk : e \in node.chunks}
<1>1. S \subseteq Nat /\ S # {}
  BY SendersAssumption DEF NodeRule, ChunkRule
<1>2. PICK n \in S : \A k \in S : n <= k
  BY <1>1, Least, Zenon
<1>3. PICK e \in node.chunks : e.chunk = n
  BY <1>2
<1>4. \E d \in node.chunks : \A f \in node.chunks : d.chunk <= f.chunk
  BY <1>2, <1>3
<1>5. QED
  BY <1>4 DEF Constructed

(* Who has as many chunks as there are, and each once, has them all.        *)
LEMMA CompleteHasAll ==
    ASSUME NEW node, NEW heard, NodeRule(node, GivenCommands, heard), IsComplete(node), NEW k \in 1 .. Chunks
    PROVE  \E e \in node.chunks : e.chunk = k
<1> DEFINE S == node.chunks
           T == 1 .. Chunks
           f == [e \in S |-> e.chunk]
<1>1. \A e \in S : e.chunk \in T
  BY DEF NodeRule, ChunkRule
<1>2. \A a, b \in S : a.chunk = b.chunk => a = b
  BY DEF NodeRule
<1>3. f \in Injection(S, T)
  BY <1>1, <1>2 DEF Injection, IsInjective
<1>4. IsFiniteSet(T) /\ Cardinality(T) = Chunks
  BY FS_Interval, SendersAssumption
<1>5. Cardinality(S) = Cardinality(T)
  BY <1>4 DEF IsComplete
<1>6. f \in Surjection(S, T)
  <2> HIDE DEF f, S, T
  <2>1. QED
    BY <1>3, <1>4, <1>5, FS_Injection
<1>7. QED
  BY <1>6 DEF Surjection

(* What is ready and what is left after one more node.                      *)
WithNode(r, node) ==
    IF IsComplete(node)
    THEN [ready |-> AddMessage(r.ready, Constructed(node)), left |-> r.left]
    ELSE [ready |-> r.ready, left |-> Append(r.left, node)]

ReadyUpTo(f, n) ==
    f = [i \in 0 .. n |-> IF i = 0 THEN [ready |-> EmptyList, left |-> <<>>]
                          ELSE WithNode(f[i - 1], nodes[i])]

LEMMA GetReadyCommandsIs ==
    ASSUME Len(nodes) \in Nat
    PROVE  \E f : ReadyUpTo(f, Len(nodes)) /\ GetReadyCommands = f[Len(nodes)]
<1> DEFINE start == [ready |-> EmptyList, left |-> <<>>]
           S == {n \in Nat : \E f : ReadyUpTo(f, n)}
           upTo == CHOOSE h : h = [n \in 0 .. Len(nodes) |->
                      IF n = 0 THEN [ready |-> EmptyList, left |-> <<>>]
                      ELSE IF IsComplete(nodes[n])
                      THEN [ready |-> AddMessage(h[n - 1].ready, Constructed(nodes[n])),
                            left |-> h[n - 1].left]
                      ELSE [ready |-> h[n - 1].ready, left |-> Append(h[n - 1].left, nodes[n])]]
<1>1. 0 \in S
  <2>1. ReadyUpTo([i \in 0 .. 0 |-> start], 0)
    BY DEF ReadyUpTo
  <2>2. QED
    BY <2>1
<1>2. ASSUME NEW n \in Nat, n \in S PROVE n + 1 \in S
  <2>1. PICK f : ReadyUpTo(f, n)
    BY <1>2
  <2> DEFINE next == WithNode(f[n], nodes[n + 1])
             g == [i \in 0 .. n + 1 |-> IF i = n + 1 THEN next ELSE f[i]]
  <2>2. ASSUME NEW i \in 0 .. n + 1
        PROVE  g[i] = IF i = 0 THEN start ELSE WithNode(g[i - 1], nodes[i])
    BY <2>1 DEF ReadyUpTo
  <2>3. ReadyUpTo(g, n + 1)
    BY <2>2 DEF ReadyUpTo
  <2>4. QED
    BY <2>3
<1>3. Len(nodes) \in S
  <2> HIDE DEF S
  <2>1. \A n \in Nat : n \in S => n + 1 \in S
    BY <1>2
  <2>2. Nat \subseteq S
    BY <1>1, <2>1, SetInduction, Zenon
  <2>3. QED
    BY <2>2
<1>4. ReadyUpTo(upTo, Len(nodes))
  <2>1. \E h : ReadyUpTo(h, Len(nodes))
    BY <1>3
  <2>2. QED
    BY <2>1, Zenon DEF ReadyUpTo, WithNode
<1>5. GetReadyCommands = upTo[Len(nodes)]
  BY Zenon DEF GetReadyCommands
<1>6. QED
  BY <1>4, <1>5

(* What is ready was put together from a complete node; the rest stays.     *)
LEMMA ReadyIsComplete ==
    ASSUME NodesInv
    PROVE  LET g == GetReadyCommands IN
           /\ IsList(g.ready, GivenCommands)
           /\ \A c \in ToSet(g.ready.refs) : \E i \in 1 .. Len(nodes) :
                 IsComplete(nodes[i]) /\ c = Constructed(nodes[i])
           /\ g.left \in Seq(Node)
           /\ \A j \in 1 .. Len(g.left) : \E i \in 1 .. Len(nodes) : g.left[j] = nodes[i]
<1>1. /\ nodes \in Seq(Node) /\ Len(nodes) \in Nat
      /\ \A i \in 1 .. Len(nodes) : nodes[i] \in Node /\ NodeRule(nodes[i], GivenCommands, sent \intersect acks)
  <2>1. nodes \in Seq(Node) /\ Len(nodes) \in Nat /\ \A i \in 1 .. Len(nodes) : nodes[i] \in Node
    BY DEF NodesInv
  <2>2. QED
    BY <2>1 DEF NodesInv
<1>2. \A i \in 1 .. Len(nodes) : Constructed(nodes[i]) \in GivenCommands
  <2> TAKE i \in 1 .. Len(nodes)
  <2>1. PICK e \in nodes[i].chunks : Constructed(nodes[i]) = e.of
    BY <1>1, ConstructedIsCarried
  <2>2. QED
    BY <1>1, <2>1 DEF NodeRule, ChunkRule
<1>3. PICK f : ReadyUpTo(f, Len(nodes)) /\ GetReadyCommands = f[Len(nodes)]
  BY <1>1, GetReadyCommandsIs
<1>4. /\ f[0] = [ready |-> EmptyList, left |-> <<>>]
      /\ \A n \in Nat : n + 1 <= Len(nodes) =>
            f[n + 1] = WithNode(f[n], nodes[n + 1])
  BY <1>1, <1>3 DEF ReadyUpTo
<1> DEFINE Came(c) == \E i \in 1 .. Len(nodes) : IsComplete(nodes[i]) /\ c = Constructed(nodes[i])
           Stayed(x) == \E i \in 1 .. Len(nodes) : x = nodes[i]
           GoodReady(l) == IsList(l, GivenCommands) /\ \A c \in ToSet(l.refs) : Came(c)
           GoodLeft(s) == s \in Seq(Node) /\ \A j \in 1 .. Len(s) : Stayed(s[j])
           S == {n \in Nat : n <= Len(nodes) => GoodReady(f[n].ready) /\ GoodLeft(f[n].left)}
<1>5. 0 \in S
  <2>1. /\ EmptyList.refs = <<>> /\ EmptyList \in [refs : Seq(GivenCommands), inserted : Nat]
        /\ EmptyList.inserted <= Len(EmptyList.refs) /\ Len(<<>>) = 0
    BY DEF EmptyList
  <2>2. ToSet(<<>>) = {}
    BY DEF ToSet
  <2>3. GoodReady(EmptyList)
    BY <2>1, <2>2 DEF IsList
  <2>4. GoodLeft(<<>>)
    BY <2>1
  <2> HIDE DEF GoodReady, GoodLeft
  <2>5. QED
    BY <1>4, <2>3, <2>4
<1>6. ASSUME NEW n \in Nat, n \in S PROVE n + 1 \in S
  <2> SUFFICES ASSUME n + 1 <= Len(nodes)
               PROVE  GoodReady(f[n + 1].ready) /\ GoodLeft(f[n + 1].left)
    OBVIOUS
  <2>1. GoodReady(f[n].ready) /\ GoodLeft(f[n].left)
    BY <1>1, <1>6
  <2> DEFINE node == nodes[n + 1]
             l == f[n].ready
             s == f[n].left
  <2>2. n + 1 \in 1 .. Len(nodes)
    BY <1>1
  <2>3. CASE IsComplete(node)
    <3> DEFINE c == Constructed(node)
    <3>1. f[n + 1].ready = AddMessage(l, c) /\ f[n + 1].left = s
      <4>1. f[n + 1] = WithNode(f[n], node)
        BY <1>4
      <4>2. WithNode(f[n], node) = [ready |-> AddMessage(l, c), left |-> s]
        BY <2>3 DEF WithNode
      <4> HIDE DEF l, s, c, node
      <4>3. QED
        BY <4>1, <4>2
    <3>2. c \in GivenCommands /\ Came(c)
      BY <1>2, <2>2, <2>3
    <3>3. GoodReady(l) /\ GoodLeft(s)
      BY <2>1
    <3> HIDE DEF l, s, c
    <3>4. /\ IsList(AddMessage(l, c), GivenCommands)
          /\ ToSet(AddMessage(l, c).refs) \subseteq ToSet(l.refs) \union {c}
      BY <3>2, <3>3, AddMessageKeeps
    <3>5. GoodReady(AddMessage(l, c))
      BY <3>2, <3>3, <3>4
    <3>6. QED
      BY <3>1, <3>3, <3>5
  <2>4. CASE ~IsComplete(node)
    <3>1. f[n + 1].ready = l /\ f[n + 1].left = Append(s, node)
      <4>1. f[n + 1] = WithNode(f[n], node)
        BY <1>4
      <4>2. WithNode(f[n], node) = [ready |-> l, left |-> Append(s, node)]
        BY <2>4 DEF WithNode
      <4> HIDE DEF l, s, node
      <4>3. QED
        BY <4>1, <4>2
    <3>2. node \in Node /\ Stayed(node)
      BY <1>1, <2>2
    <3>3. GoodReady(l) /\ GoodLeft(s)
      BY <2>1
    <3> HIDE DEF l, s, node, Stayed
    <3>4. GoodLeft(Append(s, node))
      BY <3>2, <3>3
    <3>5. QED
      BY <3>1, <3>3, <3>4
  <2>5. QED
    BY <2>3, <2>4
<1>7. Len(nodes) \in S
  <2> HIDE DEF S
  <2>1. \A n \in Nat : n \in S => n + 1 \in S
    BY <1>6
  <2>2. Nat \subseteq S
    BY <1>5, <2>1, SetInduction, Zenon
  <2>3. QED
    BY <1>1, <2>2
<1>8. QED
  BY <1>1, <1>3, <1>7

-----------------------------------------------------------------------------
(* Every step keeps the invariant *)

LEMMA InitInv == Init => TransferInv
<1> SUFFICES ASSUME Init PROVE TransferInv
  OBVIOUS
<1>1. \A p \in Senders : given[p] = <<>> /\ generated[p] = 0 /\ queue[p] = EmptyList
                         /\ frameData[p] = EmptyList /\ commandCount[p] = 0
  BY DEF Init
<1>2. ToSet(<<>>) = {} /\ Len(<<>>) = 0
  BY DEF ToSet
<1>3. GivenCommands = {} /\ sent = {} /\ acks = {}
  BY <1>1, <1>2 DEF GivenCommands, Init
<1>4. GivenInv
  <2>1. \A p \in Senders : Len(Script[p]) \in Nat /\ Chunks + 1 \in Nat
    BY SendersAssumption
  <2>2. given \in [Senders -> Seq(Command)] /\ generated \in [Senders -> Nat]
    BY DEF Init
  <2>3. \A p \in Senders : Len(given[p]) = 0 /\ Len(given[p]) * (Chunks + 1) = 0
    BY <1>1, <1>2, <2>1
  <2>4. QED
    BY <1>1, <1>2, <2>1, <2>2, <2>3 DEF GivenInv, Init
<1>5. IdsInv /\ SentInv /\ AcksInv /\ KeptUntilHeard
  BY <1>3 DEF IdsInv, OwnIds, SentInv, AcksInv, KeptUntilHeard
<1>6. ListsInv
  BY <1>1, <1>2, EmptyIsList DEF ListsInv, Init
<1>7. NodesInv
  <2>1. nodes = <<>> /\ Len(nodes) = 0
    BY DEF Init
  <2>2. QED
    BY <2>1 DEF NodesInv
<1>8. OnlyWhole
  BY <1>1, <1>2, EmptyIsList DEF OnlyWhole
<1>9. QED
  BY <1>4, <1>5, <1>6, <1>7, <1>8 DEF TransferInv

(* What is carried is big, and was not sent itself.                         *)
LEMMA WrappersCarry ==
    ASSUME GivenInv, SentInv, NEW m \in sent
    PROVE  /\ m \in GivenCommands => m.carries = {}
           /\ m \notin GivenCommands =>
                 \E c \in GivenCommands \ sent, k \in 1 .. Chunks :
                    /\ m = Wrapper(c, k) /\ m.type = WRAPPER
                    /\ m.carries = {[chunk |-> k, of |-> c]} /\ Carried(m) = {c}
                    /\ \A j \in 1 .. Chunks : Wrapper(c, j) \in sent
<1>1. m \in GivenCommands => m.carries = {}
  BY GivenByPlayer DEF Command
<1>2. ASSUME m \notin GivenCommands
      PROVE  \E c \in GivenCommands \ sent, k \in 1 .. Chunks :
                /\ m = Wrapper(c, k) /\ m.type = WRAPPER
                /\ m.carries = {[chunk |-> k, of |-> c]} /\ Carried(m) = {c}
                /\ \A j \in 1 .. Chunks : Wrapper(c, j) \in sent
  <2>1. PICK c \in GivenCommands \ sent, k \in 1 .. Chunks :
           m = Wrapper(c, k) /\ \A j \in 1 .. Chunks : Wrapper(c, j) \in sent
    BY <1>2 DEF SentInv
  <2>2. m.type = WRAPPER /\ m.carries = {[chunk |-> k, of |-> c]}
    BY <2>1 DEF Wrapper, Message
  <2>3. Carried(m) = {c}
    BY <2>2 DEF Carried
  <2>4. QED
    BY <2>1, <2>2, <2>3
<1>3. QED
  BY <1>1, <1>2

(* The packets of a command: IDs that nobody had before, each its own.      *)
NewPackets(s, c, big) ==
    /\ Len(s) \in Nat
    /\ s = IF big THEN [k \in 1 .. Chunks |-> Wrapper(c, k)] ELSE <<c>>
    /\ \A i \in 1 .. Len(s) :
          /\ IdRule(s[i], generated') /\ s[i].playerID = c.playerID
          /\ IF big THEN s[i] = Wrapper(c, i) /\ s[i].nth = c.nth + i ELSE s[i] = c
          /\ s[i] \notin sent \union GivenCommands

LEMMA PacketsAreNew ==
    ASSUME GivenInv, IdsInv, NEW p \in Senders, SendNetCommandMsg(p)
    PROVE  LET next == Script[p][Len(given[p]) + 1]
               c == Message(next[1], p, generated[p], {})
               s == Packets(c, next[2])
           IN  /\ c \in Command /\ c.playerID = p /\ c.nth = generated[p]
               /\ c \notin sent \union GivenCommands /\ IdRule(c, generated')
               /\ NewPackets(s, c, next[2])
<1> DEFINE next == Script[p][Len(given[p]) + 1]
           n == generated[p]
           c == Message(next[1], p, n, {})
           s == Packets(c, next[2])
<1> SUFFICES /\ c \in Command /\ c.playerID = p /\ c.nth = n
             /\ c \notin sent \union GivenCommands /\ IdRule(c, generated')
             /\ NewPackets(s, c, next[2])
  OBVIOUS
<1>1. /\ n \in Nat /\ p \in Nat /\ Chunks \in Nat /\ IdSpace \in Nat /\ IdSpace > 1
      /\ FirstId[p] \in 0 .. IdSpace - 1 /\ Len(given[p]) \in Nat
  <2>1. Senders \subseteq Nat /\ Chunks \in Nat /\ FirstId \in [Senders -> 0 .. IdSpace - 1]
    BY SendersAssumption
  <2>2. QED
    BY <2>1, IdAssumption DEF GivenInv
<1>2. next \in Nat \X BOOLEAN
  <2>1. Script[p] \in Seq(Nat \X BOOLEAN) /\ Len(given[p]) < Len(Script[p])
    BY SendersAssumption DEF SendNetCommandMsg
  <2>2. Len(given[p]) + 1 \in 1 .. Len(Script[p])
    BY <1>1, <2>1
  <2>3. QED
    BY <2>1, <2>2
<1>3. next[1] \in Nat /\ next[2] \in BOOLEAN
  BY <1>2
<1>4. generated'[p] = n + 1 + (IF next[2] THEN Chunks ELSE 0)
  BY DEF SendNetCommandMsg, GivenInv
<1> HIDE DEF next, n
<1>5. /\ c.type = next[1] /\ c.playerID = p /\ c.nth = n /\ c.carries = {}
      /\ c.id = (FirstId[p] + n) % IdSpace
  BY DEF Message
<1>6. c \in Command
  <2> DEFINE a == FirstId[p] + n
  <2>1. a \in Nat
    BY <1>1
  <2> HIDE DEF a
  <2>2. a % IdSpace \in 0 .. IdSpace - 1
    BY <1>1, <2>1
  <2>3. (FirstId[p] + n) % IdSpace \in 0 .. IdSpace - 1
    BY <2>2 DEF a
  <2>4. QED
    BY <1>1, <1>3, <2>3 DEF Command, Message
<1>7. \A m \in sent \union GivenCommands : m.playerID = p => m.nth < n
  BY DEF IdsInv, OwnIds, IdRule, n
<1>8. c \notin sent \union GivenCommands
  BY <1>1, <1>5, <1>7
<1>9. IdRule(c, generated')
  BY <1>1, <1>3, <1>4, <1>5, SMTT(20) DEF IdRule
<1>10. \A k \in 1 .. Chunks :
          /\ Wrapper(c, k).type = WRAPPER /\ Wrapper(c, k).playerID = p
          /\ Wrapper(c, k).nth = n + k
          /\ Wrapper(c, k).id = (FirstId[p] + (n + k)) % IdSpace
  BY <1>5 DEF Wrapper, Message
<1> HIDE DEF c
<1>11. s = IF next[2] THEN [k \in 1 .. Chunks |-> Wrapper(c, k)] ELSE <<c>>
  BY DEF Packets
<1> HIDE DEF s
<1>12. CASE next[2]
  <2>1. Len(s) = Chunks /\ \A i \in 1 .. Chunks : s[i] = Wrapper(c, i)
    BY <1>1, <1>11, <1>12
  <2>2. ASSUME NEW i \in 1 .. Chunks
        PROVE  /\ IdRule(s[i], generated') /\ s[i].playerID = c.playerID
               /\ s[i] = Wrapper(c, i) /\ s[i].nth = c.nth + i
               /\ s[i] \notin sent \union GivenCommands
    <3> DEFINE w == s[i]
    <3>1. /\ w = Wrapper(c, i) /\ w.type = WRAPPER /\ w.playerID = p /\ w.nth = n + i
          /\ w.id = (FirstId[p] + w.nth) % IdSpace
      BY <1>10, <2>1
    <3>2. /\ n + i \in Nat /\ n + i < generated'[p] /\ ~(n + i < n) /\ WRAPPER \in Nat
      BY <1>1, <1>4, <1>12 DEF WRAPPER
    <3> HIDE DEF w
    <3>3. IdRule(w, generated')
      BY ONLY <3>1, <3>2, p \in Senders DEF IdRule
    <3>4. w \notin sent \union GivenCommands
      BY ONLY <1>7, <3>1, <3>2
    <3>5. QED
      BY ONLY <1>5, <3>1, <3>3, <3>4 DEF w
  <2>3. QED
    BY <1>1, <1>5, <1>6, <1>8, <1>9, <1>11, <1>12, <2>1, <2>2 DEF NewPackets
<1>13. CASE ~next[2]
  <2>1. s = <<c>> /\ Len(s) = 1 /\ s[1] = c
    BY <1>11, <1>13
  <2>2. \A i \in 1 .. Len(s) : s[i] = c
    BY <2>1
  <2>3. QED
    BY ONLY <1>5, <1>6, <1>8, <1>9, <1>13, <2>1, <2>2 DEF NewPackets
<1>14. QED
  BY <1>12, <1>13

LEMMA Appended ==
    ASSUME NEW S, NEW s \in Seq(S), NEW x \in S
    PROVE  /\ Append(s, x) \in Seq(S) /\ Len(Append(s, x)) = Len(s) + 1
           /\ ToSet(Append(s, x)) = ToSet(s) \union {x}
<1>1. /\ Append(s, x) \in Seq(S) /\ Len(Append(s, x)) = Len(s) + 1 /\ Len(s) \in Nat
      /\ \A i \in 1 .. Len(s) : Append(s, x)[i] = s[i]
      /\ Append(s, x)[Len(s) + 1] = x
  OBVIOUS
<1> DEFINE a == Append(s, x)
<1> HIDE DEF a
<1>2. ASSUME NEW y \in ToSet(a) PROVE y \in ToSet(s) \union {x}
  <2>0. a \in Seq(S) /\ Len(a) = Len(s) + 1
    BY <1>1 DEF a
  <2>1. PICK i \in 1 .. Len(s) + 1 : a[i] = y
    BY ONLY <1>2, <2>0, Elements
  <2>2. i \in 1 .. Len(s) => y = s[i]
    BY <1>1, <2>1 DEF a
  <2>3. i \in 1 .. Len(s) \/ i = Len(s) + 1
    BY <1>1
  <2>4. CASE i \in 1 .. Len(s)
    BY <2>2, <2>4, Elements
  <2>5. CASE i = Len(s) + 1
    BY <1>1, <2>1, <2>5 DEF a
  <2>6. QED
    BY <2>3, <2>4, <2>5
<1>3. ASSUME NEW y \in ToSet(s) PROVE y \in ToSet(a)
  <2>1. PICK i \in 1 .. Len(s) : s[i] = y
    BY Elements
  <2>2. i \in 1 .. Len(a) /\ a[i] = y
    BY <1>1, <2>1 DEF a
  <2>3. QED
    BY <1>1, <2>2, Elements DEF a
<1>4. x \in ToSet(a)
  <2>1. Len(s) + 1 \in 1 .. Len(a) /\ a[Len(s) + 1] = x /\ a \in Seq(S)
    BY <1>1 DEF a
  <2>2. QED
    BY <2>1, Elements
<1>5. QED
  BY <1>1, <1>2, <1>3, <1>4 DEF a

(* A list stays a list of a set that grows.                                 *)
LEMMA ListGrows ==
    ASSUME NEW M, NEW T, M \subseteq T, NEW l, IsList(l, M)
    PROVE  IsList(l, T)
BY DEF IsList

(* What giving a command changes.                                           *)
LEMMA SendChanges ==
    ASSUME TransferInv, NEW p \in Senders, SendNetCommandMsg(p)
    PROVE  \E c \in Command, big \in BOOLEAN, s \in Seq(sent') :
              /\ c.playerID = p /\ c.nth = generated[p] /\ c \notin sent \union GivenCommands
              /\ IdRule(c, generated') /\ NewPackets(s, c, big)
              /\ given' = [given EXCEPT ![p] = Append(@, c)]
              /\ generated' = [generated EXCEPT ![p] = @ + 1 + (IF big THEN Chunks ELSE 0)]
              /\ queue' = [queue EXCEPT ![p] = AppendList(@, s)]
              /\ sent' = sent \union ToSet(s)
              /\ GivenCommands' = GivenCommands \union {c}
              /\ \E i \in 1 .. Len(Script[p]) : c.type = Script[p][i][1]
              /\ Len(given[p]) < Len(Script[p])
<1> DEFINE next == Script[p][Len(given[p]) + 1]
           c == Message(next[1], p, generated[p], {})
           s == Packets(c, next[2])
<1>1. GivenInv /\ IdsInv
  BY DEF TransferInv
<1>2. /\ c \in Command /\ c.playerID = p /\ c.nth = generated[p]
      /\ c \notin sent \union GivenCommands /\ IdRule(c, generated')
      /\ NewPackets(s, c, next[2])
  BY <1>1, PacketsAreNew
<1>3. /\ given' = [given EXCEPT ![p] = Append(@, c)]
      /\ generated' = [generated EXCEPT ![p] = @ + 1 + (IF next[2] THEN Chunks ELSE 0)]
      /\ queue' = [queue EXCEPT ![p] = AppendList(@, s)]
      /\ sent' = sent \union ToSet(s)
      /\ Len(given[p]) < Len(Script[p])
  BY DEF SendNetCommandMsg
<1>4. /\ Len(given[p]) + 1 \in 1 .. Len(Script[p]) /\ next[2] \in BOOLEAN /\ c.type = next[1]
      /\ given[p] \in Seq(Command)
  <2>1. Script[p] \in Seq(Nat \X BOOLEAN) /\ given[p] \in Seq(Command)
    BY <1>1, SendersAssumption DEF GivenInv
  <2>2. Len(given[p]) + 1 \in 1 .. Len(Script[p])
    BY <1>3, <2>1
  <2>3. next \in Nat \X BOOLEAN
    BY <2>1, <2>2
  <2>4. QED
    BY <2>1, <2>2, <2>3 DEF Message
<1>5. \E i \in 1 .. Len(Script[p]) : c.type = Script[p][i][1]
  BY <1>4
<1> HIDE DEF next, c, s
<1>6. GivenCommands' = GivenCommands \union {c}
  <2>1. given'[p] = Append(given[p], c) /\ \A q \in Senders \ {p} : given'[q] = given[q]
    BY <1>1, <1>3 DEF GivenInv
  <2>2. ToSet(given'[p]) = ToSet(given[p]) \union {c}
    BY <1>2, <1>4, <2>1, Appended
  <2>3. QED
    BY <2>1, <2>2 DEF GivenCommands
<1>7. s \in Seq(sent')
  <2>1. s = IF next[2] THEN [k \in 1 .. Chunks |-> Wrapper(c, k)] ELSE <<c>>
    BY <1>2 DEF NewPackets
  <2>2. \E S : s \in Seq(S)
    <3>1. CASE next[2]
      <4>1. s \in Seq({Wrapper(c, k) : k \in 1 .. Chunks})
        BY <2>1, <3>1, SendersAssumption, SMTT(20)
      <4>2. QED
        BY <4>1
    <3>2. CASE ~next[2]
      <4>1. s \in Seq({c})
        BY <2>1, <3>2
      <4>2. QED
        BY <4>1
    <3>3. QED
      BY <3>1, <3>2
  <2>3. PICK S : s \in Seq(S)
    BY <2>2
  <2>4. \A i \in 1 .. Len(s) : s[i] \in sent'
    BY <1>3, <2>3, Elements
  <2>5. QED
    BY <2>3, <2>4
<1>8. QED
  BY <1>2, <1>3, <1>4, <1>5, <1>6, <1>7

LEMMA SendKeeps ==
    ASSUME TransferInv, NEW p \in Senders, SendNetCommandMsg(p)
    PROVE  TransferInv'
<1>1. GivenInv /\ IdsInv /\ SentInv /\ ListsInv /\ AcksInv /\ NodesInv /\ KeptUntilHeard /\ OnlyWhole
  BY DEF TransferInv
<1>2. PICK c \in Command, big \in BOOLEAN, s \in Seq(sent') :
         /\ c.playerID = p /\ c.nth = generated[p] /\ c \notin sent \union GivenCommands
         /\ IdRule(c, generated') /\ NewPackets(s, c, big)
         /\ given' = [given EXCEPT ![p] = Append(@, c)]
         /\ generated' = [generated EXCEPT ![p] = @ + 1 + (IF big THEN Chunks ELSE 0)]
         /\ queue' = [queue EXCEPT ![p] = AppendList(@, s)]
         /\ sent' = sent \union ToSet(s)
         /\ GivenCommands' = GivenCommands \union {c}
         /\ \E i \in 1 .. Len(Script[p]) : c.type = Script[p][i][1]
         /\ Len(given[p]) < Len(Script[p])
  BY SendChanges
<1>3. /\ acks' = acks /\ nodes' = nodes /\ frameData' = frameData
      /\ commandCount' = commandCount /\ retailCompatible' = retailCompatible
  BY DEF SendNetCommandMsg, receiver
<1>4. /\ Chunks \in Nat /\ generated[p] \in Nat /\ given[p] \in Seq(Command)
      /\ Len(given[p]) \in Nat /\ Len(Script[p]) \in Nat
  BY <1>1, SendersAssumption DEF GivenInv
<1>5. /\ given'[p] = Append(given[p], c) /\ Len(given'[p]) = Len(given[p]) + 1
      /\ given'[p] \in Seq(Command) /\ ToSet(given'[p]) = ToSet(given[p]) \union {c}
      /\ \A q \in Senders \ {p} : given'[q] = given[q]
      /\ generated'[p] = generated[p] + 1 + (IF big THEN Chunks ELSE 0)
      /\ \A q \in Senders \ {p} : generated'[q] = generated[q]
      /\ given' \in [Senders -> Seq(Command)] /\ generated' \in [Senders -> Nat]
  <2>1. given \in [Senders -> Seq(Command)] /\ generated \in [Senders -> Nat]
    BY <1>1 DEF GivenInv
  <2>2. /\ Append(given[p], c) \in Seq(Command) /\ Len(Append(given[p], c)) = Len(given[p]) + 1
        /\ ToSet(Append(given[p], c)) = ToSet(given[p]) \union {c}
    BY <1>4, Appended
  <2>3. generated[p] + 1 + (IF big THEN Chunks ELSE 0) \in Nat
    BY <1>4
  <2> HIDE <1>1
  <2>4. QED
    BY <1>2, <1>4, <2>1, <2>2, <2>3
<1>6. \A q \in Senders : generated[q] <= generated'[q] /\ generated[q] \in Nat
  <2> TAKE q \in Senders
  <2>1. generated[q] \in Nat
    BY <1>1 DEF GivenInv
  <2>2. CASE q = p
    BY ONLY <1>4, <1>5, <2>2
  <2>3. CASE q # p
    BY ONLY <1>5, <2>1, <2>3, q \in Senders
  <2>4. QED
    BY <2>1, <2>2, <2>3
<1>7. GivenInv'
  <2>1. Len(given'[p]) <= Len(Script[p])
    BY <1>2, <1>4, <1>5
  <2>2. generated'[p] <= Len(given'[p]) * (Chunks + 1)
    <3> DEFINE n == Len(given[p])
               k == Chunks + 1
    <3>1. /\ n \in Nat /\ k \in Nat /\ Len(given'[p]) = n + 1 /\ generated[p] <= n * k
          /\ generated'[p] <= generated[p] + k /\ generated'[p] \in Nat /\ generated[p] \in Nat
      <4>1. generated[p] <= Len(given[p]) * (Chunks + 1)
        BY <1>1 DEF GivenInv
      <4>2. generated'[p] <= generated[p] + (Chunks + 1)
        BY ONLY <1>4, <1>5
      <4>3. generated'[p] \in Nat
        BY <1>5
      <4> HIDE DEF n, k
      <4>4. n \in Nat /\ k \in Nat
        BY <1>4 DEF n, k
      <4>5. generated[p] <= n * k /\ generated'[p] <= generated[p] + k /\ Len(given'[p]) = n + 1
        BY <1>5, <4>1, <4>2, Zenon DEF n, k
      <4>6. QED
        BY <1>4, <4>3, <4>4, <4>5
    <3> HIDE DEF n, k
    <3>2. (n + 1) * k = n * k + k /\ n * k \in Nat
      BY <3>1, ProductGrows
    <3>3. generated'[p] <= (n + 1) * k
      BY ONLY <3>1, <3>2
    <3>4. QED
      BY <3>1, <3>3 DEF k
  <2>3. ASSUME NEW q \in Senders
        PROVE  /\ Len(given'[q]) <= Len(Script[q])
               /\ generated'[q] <= Len(given'[q]) * (Chunks + 1)
               /\ \A d \in ToSet(given'[q]) :
                     d.playerID = q /\ \E i \in 1 .. Len(Script[q]) : d.type = Script[q][i][1]
    <3>1. CASE q = p
      <4>1. \A d \in ToSet(given[p]) :
               d.playerID = p /\ \E i \in 1 .. Len(Script[p]) : d.type = Script[p][i][1]
        BY <1>1 DEF GivenInv
      <4>2. \A d \in ToSet(given'[p]) :
               d.playerID = p /\ \E i \in 1 .. Len(Script[p]) : d.type = Script[p][i][1]
        BY <1>2, <1>5, <4>1
      <4>3. QED
        BY <2>1, <2>2, <3>1, <4>2
    <3>2. CASE q # p
      BY <1>1, <1>5, <3>2 DEF GivenInv
    <3>3. QED
      BY <3>1, <3>2
  <2>4. QED
    BY <1>1, <1>3, <1>5, <2>3 DEF GivenInv
<1> DEFINE M == sent \union GivenCommands
           N == ToSet(s) \union {c}
<1>8. /\ s \in Seq(ToSet(s)) /\ Len(s) \in Nat
      /\ \A m \in ToSet(s) : \E i \in 1 .. Len(s) : m = s[i]
      /\ \A i \in 1 .. Len(s) : s[i] \in ToSet(s)
  <2>1. \A i \in 1 .. Len(s) : s[i] \in ToSet(s)
    BY Elements
  <2>2. \A m \in ToSet(s) : \E i \in 1 .. Len(s) : m = s[i]
    BY Elements
  <2>3. QED
    BY <2>1, <2>2
<1>9. \A i \in 1 .. Len(s) :
          /\ IdRule(s[i], generated') /\ s[i].playerID = p
          /\ IF big THEN s[i] = Wrapper(c, i) /\ s[i].nth = c.nth + i ELSE s[i] = c
          /\ s[i] \notin M
  BY <1>2 DEF NewPackets
<1>10. IF big THEN Len(s) = Chunks ELSE Len(s) = 1
  BY <1>2, <1>4 DEF NewPackets
<1>11. \A m \in N : /\ IdRule(m, generated') /\ m.playerID = p /\ m \notin M
                    /\ m.nth \in Nat /\ m.nth >= generated[p]
  <2>1. \A i \in 1 .. Len(s) : s[i].nth \in Nat /\ s[i].nth >= generated[p]
    BY <1>2, <1>4, <1>9
  <2> TAKE m \in N
  <2>2. CASE m \in ToSet(s)
    <3>1. PICK i \in 1 .. Len(s) : m = s[i]
      BY <1>8, <2>2
    <3> HIDE DEF M
    <3>2. QED
      BY ONLY <1>9, <2>1, <3>1
  <2>3. CASE m = c
    BY <1>2, <1>4, <2>3
  <2>4. QED
    BY <2>2, <2>3
<1>12. \A m, n \in N : m.nth = n.nth => m = n
  <2>1. \A i, j \in 1 .. Len(s) : s[i].nth = s[j].nth => i = j
    BY <1>2, <1>4, <1>9, <1>10, SMTT(20)
  <2>2. \A i \in 1 .. Len(s) : s[i].nth = c.nth => s[i] = c
    BY <1>2, <1>4, <1>9
  <2> TAKE m, n \in N
  <2>3. CASE m = c \/ n = c
    <3>1. \A x \in ToSet(s) : x.nth = c.nth => x = c
      BY ONLY <1>8, <2>2
    <3>2. QED
      BY <2>3, <3>1
  <2>4. CASE m \in ToSet(s) /\ n \in ToSet(s)
    <3>1. PICK i \in 1 .. Len(s) : m = s[i]
      BY <1>8, <2>4
    <3>2. PICK j \in 1 .. Len(s) : n = s[j]
      BY <1>8, <2>4
    <3>3. QED
      BY ONLY <2>1, <3>1, <3>2
  <2>5. QED
    BY <2>3, <2>4
<1>13. \A m \in M : IdRule(m, generated') /\ (m.playerID = p => m.nth < generated[p])
  <2>1. \A m \in M : IdRule(m, generated)
    BY <1>1 DEF IdsInv, OwnIds
  <2> TAKE m \in M
  <2>2. /\ IdRule(m, generated) /\ m.playerID \in Senders /\ m.nth \in Nat
        /\ m.nth < generated[m.playerID]
    BY <2>1 DEF IdRule
  <2>3. generated'[m.playerID] \in Nat
    BY <1>5, <2>2
  <2>4. m.nth < generated'[m.playerID]
    BY ONLY <1>6, <2>2, <2>3
  <2> HIDE DEF M
  <2>5. QED
    BY ONLY <2>2, <2>4 DEF IdRule
<1>14. OwnIds(M \union N, generated')
  <2>1. \A m, n \in M : m.playerID = n.playerID /\ m.nth = n.nth => m = n
    BY <1>1 DEF IdsInv, OwnIds
  <2>2. \A m \in M, n \in N : ~(m.playerID = n.playerID /\ m.nth = n.nth)
    BY <1>4, <1>11, <1>13 DEF IdRule
  <2>3. \A m \in M \union N : IdRule(m, generated')
    BY <1>11, <1>13
  <2> HIDE DEF M, N
  <2>4. QED
    BY <1>12, <2>1, <2>2, <2>3 DEF OwnIds
<1>15. sent' \union GivenCommands' = M \union N
  BY <1>2
<1>16. IdsInv'
  BY <1>14, <1>15 DEF IdsInv
<1>17. WellOrdered(M \union N)
  <2>1. \A q \in Senders : generated'[q] <= IdSpace \div 2
    <3> TAKE q \in Senders
    <3>1. /\ given'[q] \in Seq(Command) /\ Len(given'[q]) \in Nat /\ generated'[q] \in Nat
          /\ Len(given'[q]) <= Len(Script[q])
          /\ generated'[q] <= Len(given'[q]) * (Chunks + 1)
      BY <1>5, <1>7 DEF GivenInv
    <3>2. QED
      BY <3>1, FewIds
  <2> HIDE DEF M, N
  <2>2. QED
    BY <1>1, <1>5, <1>14, <2>1, OwnIdsOrder DEF GivenInv
<1>18. SentInv'
  <2> SUFFICES ASSUME NEW m \in sent' \ GivenCommands'
               PROVE  \E d \in GivenCommands' \ sent', k \in 1 .. Chunks :
                         m = Wrapper(d, k) /\ \A j \in 1 .. Chunks : Wrapper(d, j) \in sent'
    BY DEF SentInv
  <2>1. CASE m \in sent
    <3>1. PICK d \in GivenCommands \ sent, k \in 1 .. Chunks :
             m = Wrapper(d, k) /\ \A j \in 1 .. Chunks : Wrapper(d, j) \in sent
      BY <1>1, <1>2, <2>1 DEF SentInv
    <3>2. d \notin sent'
      BY <1>2, <1>11
    <3>3. QED
      BY <1>2, <3>1, <3>2
  <2>2. CASE m \in ToSet(s)
    <3>1. PICK k \in 1 .. Len(s) : m = s[k]
      BY <1>8, <2>2
    <3>2. big /\ Len(s) = Chunks
      BY <1>2, <1>9, <1>10, <3>1
    <3>3. \A j \in 1 .. Chunks : s[j] = Wrapper(c, j) /\ s[j] \in sent'
      BY <1>2, <1>8, <1>9, <3>2
    <3>4. c \notin sent'
      <4>1. c \notin ToSet(s)
        <5>1. \A i \in 1 .. Len(s) : s[i].nth # c.nth
          BY <1>2, <1>4, <1>9, <3>2
        <5>2. QED
          BY <1>8, <5>1
      <4>2. QED
        BY <1>2, <4>1
    <3>5. QED
      BY <1>2, <3>1, <3>2, <3>3, <3>4
  <2>3. QED
    BY <1>2, <2>1, <2>2
<1> DEFINE T == {m \in sent' : m.playerID = p}
<1>19. IsList(queue'[p], T) /\ Ordered(queue'[p].refs) /\ ToSet(queue'[p].refs) = ToSet(queue[p].refs) \union ToSet(s)
  <2> DEFINE l == queue[p]
  <2>1. queue'[p] = AppendList(l, s)
    BY <1>1, <1>2 DEF ListsInv
  <2>2. IsList(l, {m \in sent : m.playerID = p}) /\ Ordered(l.refs)
    BY <1>1 DEF ListsInv
  <2>3. IsList(l, T)
    BY <1>2, <2>2, ListGrows
  <2>4. ToSet(l.refs) \subseteq sent
    BY <2>2, Elements DEF IsList
  <2>5. ToSet(l.refs) \cap ToSet(s) = {}
    BY <1>11, <2>4
  <2>6. \A i, j \in 1 .. Len(s) : i # j => s[i] # s[j]
    <3>1. \A i, j \in 1 .. Len(s) : s[i].nth = s[j].nth => i = j
      BY <1>2, <1>4, <1>9, <1>10, SMTT(20)
    <3>2. QED
      BY ONLY <3>1
  <2>7. WellOrdered(T)
    <3>1. T \subseteq M \union N
      BY <1>2
    <3> HIDE DEF T, M, N
    <3>2. QED
      BY <1>17, <3>1, SomeAreOrdered
  <2>8. s \in Seq(T)
    <3>1. \A i \in 1 .. Len(s) : s[i] \in T
      BY <1>2, <1>8, <1>9
    <3> HIDE DEF T
    <3>2. QED
      BY <1>8, <3>1, SMTT(20)
  <2> HIDE DEF l, T
  <2>9. /\ IsList(AppendList(l, s), T) /\ Ordered(AppendList(l, s).refs)
        /\ ToSet(AppendList(l, s).refs) = ToSet(l.refs) \union ToSet(s)
    BY ONLY <2>2, <2>3, <2>5, <2>6, <2>7, <2>8, AppendListSorts
  <2>10. QED
    BY <2>1, <2>9 DEF l
<1>20. ListsInv'
  <2>1. queue' = [q \in Senders |-> queue'[q]] /\ \A q \in Senders \ {p} : queue'[q] = queue[q]
    BY <1>1, <1>2 DEF ListsInv
  <2>2. frameData' = [q \in Senders |-> frameData'[q]]
    BY <1>1, <1>3 DEF ListsInv
  <2>3. ASSUME NEW q \in Senders
        PROVE  /\ IsList(queue'[q], {m \in sent' : m.playerID = q}) /\ Ordered(queue'[q].refs)
               /\ IsList(frameData'[q], ToSet(given'[q])) /\ Ordered(frameData'[q].refs)
               /\ commandCount'[q] = Len(frameData'[q].refs)
    <3>1. IsList(frameData[q], ToSet(given[q])) /\ Ordered(frameData[q].refs)
          /\ commandCount[q] = Len(frameData[q].refs)
      BY <1>1 DEF ListsInv
    <3>2. ToSet(given[q]) \subseteq ToSet(given'[q])
      BY <1>5
    <3>3. IsList(frameData[q], ToSet(given'[q]))
      BY <3>1, <3>2, ListGrows
    <3>4. IsList(queue'[q], {m \in sent' : m.playerID = q}) /\ Ordered(queue'[q].refs)
      <4>1. CASE q = p
        BY <1>19, <4>1
      <4>2. CASE q # p
        <5>1. IsList(queue[q], {m \in sent : m.playerID = q}) /\ Ordered(queue[q].refs)
          BY <1>1 DEF ListsInv
        <5>2. {m \in sent : m.playerID = q} \subseteq {m \in sent' : m.playerID = q}
          BY <1>2
        <5>3. QED
          BY <2>1, <4>2, <5>1, <5>2, ListGrows
      <4>3. QED
        BY <4>1, <4>2
    <3>5. QED
      BY <1>3, <3>1, <3>3, <3>4
  <2>4. \A q \in Senders : Ordered(queue[q].refs)' /\ Ordered(frameData[q].refs)'
    <3> TAKE q \in Senders
    <3>1. Ordered(queue'[q].refs) /\ Ordered(frameData'[q].refs)
      BY <2>3
    <3>2. QED
      BY ONLY <1>3, <3>1 DEF Ordered, Precedes
  <2>5. QED
    BY <2>1, <2>2, <2>3, <2>4 DEF ListsInv
<1>21. AcksInv'
  BY <1>1, <1>2, <1>3 DEF AcksInv
<1>22. NodesInv'
  <2>1. \A i \in 1 .. Len(nodes) : NodeRule(nodes[i], GivenCommands, sent \intersect acks)'
    BY <1>1, <1>2, <1>3 DEF NodesInv, NodeRule, ChunkRule
  <2>2. QED
    BY <1>1, <1>3, <2>1 DEF NodesInv
<1>23. KeptUntilHeard'
  <2> SUFFICES ASSUME NEW q \in Senders, NEW m \in sent', m.playerID = q
               PROVE  m \in ToSet(queue'[q].refs) \/ m \in acks'
    BY DEF KeptUntilHeard, InList
  <2>1. CASE m \in sent
    <3>1. m \in ToSet(queue[q].refs) \/ m \in acks
      BY <1>1, <2>1 DEF KeptUntilHeard, InList
    <3>2. q = p \/ queue'[q] = queue[q]
      BY <1>1, <1>2 DEF ListsInv
    <3>3. QED
      BY <1>3, <1>19, <3>1, <3>2
  <2>2. CASE m \in ToSet(s)
    <3>1. q = p
      BY <1>11, <2>2
    <3>2. QED
      BY <1>19, <2>2, <3>1
  <2>3. QED
    BY <1>2, <2>1, <2>2
<1>24. OnlyWhole'
  <2> SUFFICES ASSUME NEW q \in Senders, NEW d \in ToSet(frameData[q].refs),
                      AloneWithItsId(d)', NEW m \in sent', d \in Carried(m)
               PROVE  m \in acks
    BY <1>3 DEF OnlyWhole, Carried
  <2>1. d \in GivenCommands
    <3>1. IsList(frameData[q], ToSet(given[q]))
      BY <1>1 DEF ListsInv
    <3>2. d \in ToSet(given[q])
      BY <3>1, Elements DEF IsList
    <3>3. QED
      BY <3>2 DEF GivenCommands
  <2>2. AloneWithItsId(d)
    BY <1>2 DEF AloneWithItsId, Carried
  <2>3. CASE m \in sent
    BY <1>1, <2>2, <2>3 DEF OnlyWhole
  <2>4. CASE m \in ToSet(s)
    <3>1. PICK k \in 1 .. Len(s) : m = s[k]
      BY <1>8, <2>4
    <3>2. d = c
      <4>1. CASE big
        <5>1. m = Wrapper(c, k)
          BY <1>9, <3>1, <4>1
        <5>2. Carried(m) = {c}
          BY <5>1 DEF Carried, Wrapper, Message
        <5>3. QED
          BY <5>2
      <4>2. CASE ~big
        <5>1. m.carries = {}
          BY <1>2, <1>9, <3>1, <4>2 DEF Command
        <5>2. QED
          BY <5>1 DEF Carried
      <4>3. QED
        BY <4>1, <4>2
    <3>3. QED
      BY <1>2, <2>1, <3>2
  <2>5. QED
    BY <1>2, <2>3, <2>4
<1>25. QED
  BY <1>7, <1>16, <1>18, <1>20, <1>21, <1>22, <1>23, <1>24 DEF TransferInv

LEMMA AckKeeps ==
    ASSUME TransferInv, NEW p \in Senders, NEW m, ProcessAck(p, m)
    PROVE  TransferInv'
<1>1. GivenInv /\ IdsInv /\ SentInv /\ ListsInv /\ AcksInv /\ NodesInv /\ KeptUntilHeard /\ OnlyWhole
  BY DEF TransferInv
<1>2. /\ m \in acks /\ m.playerID = p /\ FindMessage(queue[p], m)
      /\ queue' = [queue EXCEPT ![p] = RemoveMessage(@, Acked(@, m))]
      /\ UNCHANGED <<given, generated, sent, acks, retailCompatible>>
      /\ nodes' = nodes /\ frameData' = frameData /\ commandCount' = commandCount
  BY DEF ProcessAck, receiver
<1>3. GivenCommands' = GivenCommands
  BY <1>2 DEF GivenCommands
<1>4. GivenInv' /\ IdsInv' /\ SentInv' /\ AcksInv' /\ OnlyWhole'
  <2>1. GivenInv' /\ IdsInv'
    BY <1>1, <1>2, <1>3 DEF GivenInv, IdsInv
  <2>2. SentInv' /\ AcksInv'
    BY <1>1, <1>2, <1>3 DEF SentInv, AcksInv
  <2>3. OnlyWhole'
    BY <1>1, <1>2 DEF OnlyWhole, AloneWithItsId, Carried
  <2>4. QED
    BY <2>1, <2>2, <2>3
<1>5. NodesInv'
  <2>1. \A i \in 1 .. Len(nodes) : NodeRule(nodes[i], GivenCommands, sent \intersect acks)'
    BY <1>1, <1>2, <1>3 DEF NodesInv, NodeRule, ChunkRule
  <2>2. QED
    BY <1>1, <1>2, <2>1 DEF NodesInv
<1> DEFINE l == queue[p]
           T == {n \in sent : n.playerID = p}
           i == Acked(l, m)
<1>6. IsList(l, T) /\ Ordered(l.refs) /\ l.refs \in Seq(T) /\ Len(l.refs) \in Nat
  <2>1. IsList(l, T) /\ Ordered(l.refs)
    BY <1>1 DEF ListsInv
  <2> HIDE DEF l, T
  <2>2. QED
    BY <2>1 DEF IsList
<1>7. i \in 1 .. Len(l.refs) /\ IsEqualCommandMsg(l.refs[i], m)
  <2> DEFINE S == {j \in 1 .. Len(l.refs) : IsEqualCommandMsg(l.refs[j], m)}
  <2>1. S # {} /\ S \subseteq Nat
    BY <1>2, <1>6 DEF FindMessage
  <2>2. PICK j \in S : \A k \in S : j <= k
    BY <2>1, Least, Zenon
  <2>3. \A k \in 1 .. j - 1 : ~IsEqualCommandMsg(l.refs[k], m)
    BY <1>6, <2>2
  <2>4. \E n \in 1 .. Len(l.refs) :
           /\ IsEqualCommandMsg(l.refs[n], m)
           /\ \A k \in 1 .. n - 1 : ~IsEqualCommandMsg(l.refs[k], m)
    BY <2>2, <2>3
  <2>5. QED
    BY <2>4 DEF Acked
<1>8. l.refs[i] = m
  <2>1. l.refs[i] \in sent \union GivenCommands /\ m \in sent \union GivenCommands
    BY <1>1, <1>2, <1>6, <1>7 DEF AcksInv
  <2>2. WellOrdered(sent \union GivenCommands)
    BY <1>1, MessagesOrder
  <2>3. QED
    BY <1>7, <2>1, <2>2 DEF WellOrdered
<1>9. /\ queue'[p] = RemoveMessage(l, i)
      /\ queue' = [q \in Senders |-> queue'[q]] /\ \A q \in Senders \ {p} : queue'[q] = queue[q]
  BY <1>1, <1>2 DEF ListsInv
<1> HIDE DEF l, i, T
<1>10. /\ IsList(queue'[p], T) /\ Ordered(queue'[p].refs)
       /\ ToSet(l.refs) \subseteq ToSet(queue'[p].refs) \union {m}
  BY <1>6, <1>7, <1>8, <1>9, RemoveMessageKeeps
<1>11. ListsInv'
  <2>1. ASSUME NEW q \in Senders
        PROVE  /\ IsList(queue'[q], {n \in sent' : n.playerID = q}) /\ Ordered(queue'[q].refs)
               /\ IsList(frameData'[q], ToSet(given'[q])) /\ Ordered(frameData'[q].refs)
               /\ commandCount'[q] = Len(frameData'[q].refs)
    <3>1. CASE q = p
      BY <1>1, <1>2, <1>10, <3>1 DEF ListsInv, T
    <3>2. CASE q # p
      BY <1>1, <1>2, <1>9, <3>2 DEF ListsInv
    <3>3. QED
      BY <3>1, <3>2
  <2>2. \A q \in Senders : Ordered(queue[q].refs)' /\ Ordered(frameData[q].refs)'
    <3> TAKE q \in Senders
    <3>1. Ordered(queue'[q].refs) /\ Ordered(frameData'[q].refs)
      BY <2>1
    <3>2. retailCompatible' = retailCompatible
      BY <1>2
    <3>3. Ordered(queue[q].refs)'
      BY ONLY <3>1, <3>2 DEF Ordered, Precedes
    <3>4. Ordered(frameData[q].refs)'
      BY ONLY <3>1, <3>2 DEF Ordered, Precedes
    <3>5. QED
      BY <3>3, <3>4
  <2>3. frameData' = [q \in Senders |-> frameData'[q]]
    BY <1>1, <1>2 DEF ListsInv
  <2>4. QED
    BY <1>9, <2>1, <2>2, <2>3 DEF ListsInv
<1>12. KeptUntilHeard'
  <2> SUFFICES ASSUME NEW q \in Senders, NEW n \in sent, n.playerID = q
               PROVE  n \in ToSet(queue'[q].refs) \/ n \in acks
    BY <1>2 DEF KeptUntilHeard, InList
  <2>1. n \in ToSet(queue[q].refs) \/ n \in acks
    BY <1>1 DEF KeptUntilHeard, InList
  <2>2. CASE q = p
    BY <1>2, <1>10, <2>1, <2>2 DEF l
  <2>3. CASE q # p
    BY <1>9, <2>1, <2>3
  <2>4. QED
    BY <2>2, <2>3
<1>13. QED
  BY <1>4, <1>5, <1>11, <1>12 DEF TransferInv

(* What adding commands to the frame changes: every player's list grows by  *)
(* his own.                                                                 *)
LEMMA AddToFrameKeeps ==
    ASSUME GivenInv, IdsInv, ListsInv, NEW s \in Seq(GivenCommands), AddToFrame(s),
           UNCHANGED <<sender, retailCompatible>>
    PROVE  /\ ListsInv'
           /\ \A p \in Senders : ToSet(frameData'[p].refs) =
                 ToSet(frameData[p].refs) \union {c \in ToSet(s) : c.playerID = p}
<1>1. /\ frameData' = [p \in Senders |-> Added(p, s).list]
      /\ commandCount' = [p \in Senders |-> Added(p, s).count]
      /\ given' = given /\ queue' = queue /\ sent' = sent /\ retailCompatible' = retailCompatible
  BY DEF AddToFrame, sender
<1>2. ASSUME NEW p \in Senders
      PROVE  /\ GoodData(Added(p, s), ToSet(given[p]))
             /\ ToSet(Added(p, s).list.refs) =
                   ToSet(frameData[p].refs) \union {c \in ToSet(s) : c.playerID = p}
  BY AddedKeeps
<1>3. ASSUME NEW p \in Senders
      PROVE  /\ IsList(queue'[p], {m \in sent' : m.playerID = p}) /\ Ordered(queue'[p].refs)
             /\ IsList(frameData'[p], ToSet(given'[p])) /\ Ordered(frameData'[p].refs)
             /\ commandCount'[p] = Len(frameData'[p].refs)
  BY <1>1, <1>2 DEF ListsInv, GoodData
<1>4. \A p \in Senders : Ordered(queue[p].refs)' /\ Ordered(frameData[p].refs)'
  <2> TAKE p \in Senders
  <2>1. Ordered(queue'[p].refs) /\ Ordered(frameData'[p].refs)
    BY <1>3
  <2>2. QED
    BY ONLY <1>1, <2>1 DEF Ordered, Precedes
<1>5. queue' = [p \in Senders |-> queue'[p]] /\ frameData' = [p \in Senders |-> frameData'[p]]
  BY <1>1 DEF ListsInv
<1>6. ListsInv'
  BY <1>3, <1>4, <1>5 DEF ListsInv
<1>7. QED
  BY <1>1, <1>2, <1>6

(* What was heard stays heard.                                              *)
LEMMA HeardMore ==
    ASSUME NEW node, NEW commands, NEW heard, NEW more, heard \subseteq more,
           NodeRule(node, commands, heard)
    PROVE  NodeRule(node, commands, more)
<1>1. \A e \in node.chunks : ChunkRule(node, e, commands, more)
  BY DEF NodeRule, ChunkRule
<1>2. QED
  BY <1>1 DEF NodeRule

(* A chunk that is acked joins the nodes of its command's ID.               *)
LEMMA ChunkKept ==
    ASSUME GivenInv, NodesInv, NEW heard, sent \intersect acks \subseteq heard,
           NEW c \in GivenCommands, NEW k \in 1 .. Chunks, Wrapper(c, k) \in heard,
           ProcessWrapper([chunk |-> k, of |-> c])
    PROVE  /\ nodes' \in Seq(Node)
           /\ \A i \in 1 .. Len(nodes') : NodeRule(nodes'[i], GivenCommands, heard)
<1> DEFINE e == [chunk |-> k, of |-> c]
           fresh == [commandID |-> c.id, chunks |-> {e}]
           G == GivenCommands
<1>1. c \in Command /\ c.id \in Nat
  BY GivenByPlayer, IdAssumption DEF Command
<1>2. e \in [chunk : 1 .. Chunks, of : Command] /\ e.chunk = k /\ e.of = c
  BY <1>1
<1>3. /\ nodes \in Seq(Node) /\ Len(nodes) \in Nat
      /\ \A i \in 1 .. Len(nodes) : nodes[i] \in Node /\ NodeRule(nodes[i], G, heard)
  <2>1. \A i \in 1 .. Len(nodes) : NodeRule(nodes[i], G, heard)
    BY HeardMore DEF NodesInv
  <2>2. QED
    BY <2>1 DEF NodesInv
<1>4. ASSUME NEW node, node.commandID = c.id PROVE ChunkRule(node, e, G, heard)
  BY <1>2, <1>4 DEF ChunkRule
<1>5. CASE NodesOf(e) = {}
  <2>1. nodes' = <<fresh>> \o nodes
    BY <1>2, <1>5 DEF ProcessWrapper
  <2>2. fresh \in Node
    BY <1>1, <1>2 DEF Node
  <2>3. NodeRule(fresh, G, heard)
    <3>1. fresh.chunks = {e} /\ fresh.commandID = c.id
      OBVIOUS
    <3> HIDE DEF e, fresh, G
    <3>2. ChunkRule(fresh, e, G, heard)
      BY <1>4, <3>1
    <3>3. QED
      BY <3>1, <3>2 DEF NodeRule
  <2> HIDE DEF fresh, G
  <2>4. <<fresh>> \in Seq(Node) /\ Len(<<fresh>>) = 1 /\ <<fresh>>[1] = fresh
    BY <2>2
  <2>5. /\ nodes' \in Seq(Node) /\ Len(nodes') = 1 + Len(nodes)
        /\ \A i \in 1 .. 1 + Len(nodes) : nodes'[i] =
              IF i <= 1 THEN <<fresh>>[i] ELSE nodes[i - 1]
    BY <1>3, <2>1, <2>4, Joined
  <2>6. ASSUME NEW i \in 1 .. Len(nodes') PROVE NodeRule(nodes'[i], G, heard)
    <3>1. CASE i = 1
      <4>1. nodes'[i] = fresh
        BY <1>3, <2>4, <2>5, <3>1
      <4>2. QED
        BY <2>3, <4>1
    <3>2. CASE i # 1
      <4>1. i - 1 \in 1 .. Len(nodes) /\ nodes'[i] = nodes[i - 1]
        BY <1>3, <2>5, <3>2
      <4>2. QED
        BY <1>3, <4>1
    <3>3. QED
      BY <3>1, <3>2
  <2>7. QED
    BY <2>5, <2>6 DEF G
<1>6. CASE NodesOf(e) # {}
  <2>1. nodes' = [i \in 1 .. Len(nodes) |->
                    IF i \in NodesOf(e) THEN WithChunk(nodes[i], e) ELSE nodes[i]]
    BY <1>6 DEF ProcessWrapper
  <2>2. ASSUME NEW i \in 1 .. Len(nodes), i \in NodesOf(e)
        PROVE  WithChunk(nodes[i], e) \in Node /\ NodeRule(WithChunk(nodes[i], e), G, heard)
    <3> DEFINE node == nodes[i]
    <3>1. node \in Node /\ NodeRule(node, G, heard) /\ node.commandID = c.id
      BY <1>2, <1>3, <2>2 DEF NodesOf
    <3>2. CASE \E f \in node.chunks : f.chunk = e.chunk
      BY <3>1, <3>2 DEF WithChunk
    <3>3. CASE ~ \E f \in node.chunks : f.chunk = e.chunk
      <4> DEFINE new == [node EXCEPT !.chunks = @ \union {e}]
      <4>1. WithChunk(node, e) = new
        BY <3>3 DEF WithChunk
      <4>2. new \in Node /\ new.chunks = node.chunks \union {e} /\ new.commandID = node.commandID
        BY <1>2, <3>1 DEF Node
      <4> HIDE DEF new, node, e, G
      <4>3. \A f \in node.chunks : ChunkRule(new, f, G, heard)
        BY <3>1, <4>2 DEF NodeRule, ChunkRule
      <4>4. ChunkRule(new, e, G, heard)
        BY <1>4, <3>1, <4>2
      <4>5. NodeRule(new, G, heard)
        <5>1. \A f, g \in new.chunks : f.chunk = g.chunk => f = g
          BY <3>1, <3>3, <4>2 DEF NodeRule
        <5>2. QED
          BY <4>2, <4>3, <4>4, <5>1 DEF NodeRule
      <4>6. QED
        BY <4>1, <4>2, <4>5 DEF node
    <3>4. QED
      BY <3>2, <3>3
  <2> HIDE DEF G, e
  <2>3. ASSUME NEW i \in 1 .. Len(nodes)
        PROVE  nodes'[i] \in Node /\ NodeRule(nodes'[i], G, heard)
    BY <1>3, <2>1, <2>2
  <2>4. nodes' \in Seq(Node) /\ Len(nodes') = Len(nodes)
    BY <1>3, <2>1, <2>3
  <2>5. QED
    BY <2>3, <2>4 DEF G
<1>7. QED
  BY <1>5, <1>6

(* What the receiver does leaves the senders alone.                         *)
LEMMA SendersStay ==
    ASSUME TransferInv, UNCHANGED <<sender, retailCompatible>>,
           acks \subseteq acks', acks' \subseteq sent \union GivenCommands
    PROVE  /\ GivenInv' /\ IdsInv' /\ SentInv' /\ AcksInv' /\ KeptUntilHeard'
           /\ GivenCommands' = GivenCommands /\ sent' = sent
<1>1. /\ given' = given /\ generated' = generated /\ queue' = queue /\ sent' = sent
      /\ retailCompatible' = retailCompatible /\ GivenCommands' = GivenCommands
  BY DEF sender, GivenCommands
<1>2. GivenInv /\ IdsInv /\ SentInv /\ KeptUntilHeard
  BY DEF TransferInv
<1>3. GivenInv' /\ IdsInv'
  BY <1>1, <1>2 DEF GivenInv, IdsInv
<1>4. SentInv' /\ AcksInv'
  BY <1>1, <1>2 DEF SentInv, AcksInv
<1>5. KeptUntilHeard'
  BY <1>1, <1>2 DEF KeptUntilHeard, InList
<1>6. QED
  BY <1>1, <1>3, <1>4, <1>5

LEMMA RelayKeeps ==
    ASSUME TransferInv, NEW m \in sent, Relay(m)
    PROVE  TransferInv'
<1>1. GivenInv /\ IdsInv /\ SentInv /\ ListsInv /\ AcksInv /\ NodesInv /\ OnlyWhole
  BY DEF TransferInv
<1>2. /\ UNCHANGED <<sender, retailCompatible>> /\ acks' = acks \union {m}
      /\ given' = given /\ sent' = sent /\ queue' = queue /\ retailCompatible' = retailCompatible
  BY DEF Relay, sender
<1>3. /\ GivenInv' /\ IdsInv' /\ SentInv' /\ AcksInv' /\ KeptUntilHeard'
      /\ GivenCommands' = GivenCommands
  BY <1>1, <1>2, SendersStay DEF AcksInv
<1>4. \A d : AloneWithItsId(d)' => AloneWithItsId(d)
  BY <1>2 DEF AloneWithItsId, Carried
<1>5. CASE m.type = WRAPPER /\ (\E e \in m.carries : ProcessWrapper(e))
           /\ UNCHANGED <<frameData, commandCount>>
  <2>1. PICK e \in m.carries : ProcessWrapper(e)
    BY <1>5
  <2>2. PICK c \in GivenCommands, k \in 1 .. Chunks :
           m = Wrapper(c, k) /\ m.carries = {[chunk |-> k, of |-> c]}
    BY <1>1, <2>1, WrappersCarry
  <2>3. e = [chunk |-> k, of |-> c]
    BY <2>1, <2>2
  <2>4. ListsInv'
    <3>1. \A q \in Senders : Ordered(queue[q].refs)' /\ Ordered(frameData[q].refs)'
      <4> TAKE q \in Senders
      <4>1. Ordered(queue[q].refs) /\ Ordered(frameData[q].refs)
        BY <1>1 DEF ListsInv
      <4>2. QED
        BY ONLY <1>2, <1>5, <4>1 DEF Ordered, Precedes
    <3>2. QED
      BY <1>1, <1>2, <1>5, <3>1 DEF ListsInv
  <2>5. NodesInv'
    <3> DEFINE heard == sent \intersect acks'
    <3>1. sent \intersect acks \subseteq heard /\ Wrapper(c, k) \in heard
      BY <1>2, <2>2
    <3> HIDE DEF heard
    <3>2. /\ nodes' \in Seq(Node)
          /\ \A i \in 1 .. Len(nodes') : NodeRule(nodes'[i], GivenCommands, heard)
      BY <1>1, <2>1, <2>3, <3>1, ChunkKept
    <3>3. QED
      BY <1>2, <1>3, <3>2 DEF NodesInv, heard
  <2>6. OnlyWhole'
    BY <1>1, <1>2, <1>4, <1>5 DEF OnlyWhole, Carried
  <2>7. QED
    BY <1>3, <2>4, <2>5, <2>6 DEF TransferInv
<1>6. CASE m.type # WRAPPER /\ AddToFrame(<<m>>) /\ UNCHANGED nodes
  <2>1. m \in GivenCommands
    BY <1>1, <1>6, WrappersCarry
  <2>2. <<m>> \in Seq(GivenCommands) /\ ToSet(<<m>>) = {m}
    BY <2>1, Single
  <2>3. /\ ListsInv'
        /\ \A p \in Senders : ToSet(frameData'[p].refs) =
              ToSet(frameData[p].refs) \union {c \in {m} : c.playerID = p}
    BY <1>1, <1>2, <1>6, <2>2, AddToFrameKeeps
  <2>4. NodesInv'
    <3> DEFINE heard == sent \intersect acks'
    <3>1. \A i \in 1 .. Len(nodes) : NodeRule(nodes[i], GivenCommands, heard)
      BY <1>1, <1>2, HeardMore DEF NodesInv
    <3> HIDE DEF heard
    <3>2. QED
      BY <1>1, <1>2, <1>3, <1>6, <3>1 DEF NodesInv, heard
  <2>5. OnlyWhole'
    <3> SUFFICES ASSUME NEW p \in Senders, NEW c \in ToSet(frameData'[p].refs),
                        AloneWithItsId(c)', NEW n \in sent, c \in Carried(n)
                 PROVE  n \in acks'
      BY <1>2 DEF OnlyWhole, Carried
    <3>1. CASE c \in ToSet(frameData[p].refs)
      BY <1>1, <1>2, <1>4, <3>1 DEF OnlyWhole
    <3>2. CASE c = m
      <4>1. n \notin GivenCommands
        BY <1>1, WrappersCarry DEF Carried
      <4>2. PICK d \in GivenCommands \ sent : Carried(n) = {d}
        BY <1>1, <4>1, WrappersCarry
      <4>3. QED
        BY <3>2, <4>2
    <3>3. QED
      BY <2>3, <3>1, <3>2
  <2>6. QED
    BY <1>3, <2>3, <2>4, <2>5 DEF TransferInv
<1>7. QED
  BY <1>5, <1>6 DEF Relay

(* A command that is put together, and has its ID for itself, was carried   *)
(* by wrappers that were all heard.                                         *)
LEMMA ReadyIsWhole ==
    ASSUME GivenInv, SentInv, NEW node, NEW n \in sent,
           NodeRule(node, GivenCommands, sent \intersect acks), IsComplete(node),
           AloneWithItsId(Constructed(node)), Constructed(node) \in Carried(n)
    PROVE  n \in acks
<1> DEFINE c == Constructed(node)
<1>1. PICK e \in node.chunks : c = e.of
  BY ConstructedIsCarried
<1>2. n \notin GivenCommands
  BY WrappersCarry DEF Carried
<1>3. PICK d \in GivenCommands \ sent, k \in 1 .. Chunks : n = Wrapper(d, k) /\ Carried(n) = {d}
  BY <1>2, WrappersCarry
<1>4. n = Wrapper(c, k)
  BY <1>3
<1>5. PICK f \in node.chunks : f.chunk = k
  BY CompleteHasAll
<1>6. f.of.id = c.id /\ Wrapper(f.of, k) \in sent \intersect acks
  BY <1>1, <1>5 DEF NodeRule, ChunkRule
<1>7. f.of \in Carried(Wrapper(f.of, k))
  BY DEF Carried, Wrapper, Message
<1>8. f.of = c
  BY <1>6, <1>7 DEF AloneWithItsId
<1>9. QED
  BY <1>4, <1>6, <1>8

LEMMA ReadyKeeps ==
    ASSUME TransferInv, ProcessReadyCommands
    PROVE  TransferInv'
<1> DEFINE s == GetReadyCommands.ready.refs
           heard == sent \intersect acks'
<1>1. GivenInv /\ IdsInv /\ SentInv /\ ListsInv /\ AcksInv /\ NodesInv /\ OnlyWhole
  BY DEF TransferInv
<1>2. /\ UNCHANGED <<sender, retailCompatible>> /\ acks' = acks \union ToSet(s)
      /\ sent' = sent /\ AddToFrame(s) /\ nodes' = GetReadyCommands.left
  BY DEF ProcessReadyCommands, sender
<1>3. /\ s \in Seq(GivenCommands)
      /\ \A c \in ToSet(s) : \E i \in 1 .. Len(nodes) :
            IsComplete(nodes[i]) /\ c = Constructed(nodes[i])
      /\ nodes' \in Seq(Node)
      /\ \A j \in 1 .. Len(nodes') : \E i \in 1 .. Len(nodes) : nodes'[j] = nodes[i]
  BY <1>1, <1>2, ReadyIsComplete DEF IsList
<1>4. \A i \in 1 .. Len(nodes) : NodeRule(nodes[i], GivenCommands, sent \intersect acks)
  BY <1>1 DEF NodesInv
<1> HIDE DEF s
<1>5. ToSet(s) \subseteq GivenCommands
  BY <1>3, Elements
<1>6. /\ GivenInv' /\ IdsInv' /\ SentInv' /\ AcksInv' /\ KeptUntilHeard'
      /\ GivenCommands' = GivenCommands
  BY <1>1, <1>2, <1>5, SendersStay DEF AcksInv
<1>7. /\ ListsInv'
      /\ \A p \in Senders : ToSet(frameData'[p].refs) =
            ToSet(frameData[p].refs) \union {c \in ToSet(s) : c.playerID = p}
  BY <1>1, <1>2, <1>3, AddToFrameKeeps
<1>8. NodesInv'
  <2>1. \A i \in 1 .. Len(nodes) : NodeRule(nodes[i], GivenCommands, heard)
    BY <1>2, <1>4, HeardMore
  <2> HIDE DEF heard
  <2>2. \A j \in 1 .. Len(nodes') : NodeRule(nodes'[j], GivenCommands, heard)
    BY <1>3, <2>1
  <2>3. QED
    BY <1>2, <1>3, <1>6, <2>2 DEF NodesInv, heard
<1>9. OnlyWhole'
  <2> SUFFICES ASSUME NEW p \in Senders, NEW c \in ToSet(frameData'[p].refs),
                      AloneWithItsId(c)', NEW n \in sent, c \in Carried(n)
               PROVE  n \in acks'
    BY <1>2 DEF OnlyWhole, Carried
  <2>1. AloneWithItsId(c)
    BY <1>2 DEF AloneWithItsId, Carried
  <2>2. CASE c \in ToSet(frameData[p].refs)
    BY <1>1, <1>2, <2>1, <2>2 DEF OnlyWhole
  <2>3. CASE c \in ToSet(s)
    <3>1. PICK i \in 1 .. Len(nodes) : IsComplete(nodes[i]) /\ c = Constructed(nodes[i])
      BY <1>3, <2>3
    <3>2. n \in acks
      BY <1>1, <1>4, <2>1, <3>1, ReadyIsWhole
    <3>3. QED
      BY <1>2, <3>2
  <2>4. QED
    BY <1>7, <2>2, <2>3
<1>10. QED
  BY <1>6, <1>7, <1>8, <1>9 DEF TransferInv

LEMMA NextKeeps == TransferInv /\ [Next]_vars => TransferInv'
<1> SUFFICES ASSUME TransferInv, [Next]_vars PROVE TransferInv'
  OBVIOUS
<1>1. ASSUME NEW p \in Senders, SendNetCommandMsg(p) PROVE TransferInv'
  BY <1>1, SendKeeps
<1>2. ASSUME NEW m \in sent, Relay(m) PROVE TransferInv'
  BY <1>2, RelayKeeps
<1>3. ASSUME NEW m \in acks, ProcessAck(m.playerID, m) PROVE TransferInv'
  <2>1. IdsInv /\ AcksInv
    BY DEF TransferInv
  <2>2. m.playerID \in Senders
    BY <2>1 DEF IdsInv, OwnIds, IdRule, AcksInv
  <2>3. QED
    BY <1>3, <2>2, AckKeeps
<1>4. CASE ProcessReadyCommands
  BY <1>4, ReadyKeeps
<1>5. CASE UNCHANGED vars
  <2>1. /\ UNCHANGED <<sender, retailCompatible>> /\ acks' = acks /\ sent' = sent
        /\ nodes' = nodes /\ frameData' = frameData /\ commandCount' = commandCount
        /\ given' = given /\ queue' = queue /\ retailCompatible' = retailCompatible
    BY <1>5 DEF vars, sender, receiver
  <2>2. AcksInv /\ ListsInv /\ NodesInv /\ OnlyWhole
    BY DEF TransferInv
  <2>3. /\ GivenInv' /\ IdsInv' /\ SentInv' /\ AcksInv' /\ KeptUntilHeard'
        /\ GivenCommands' = GivenCommands
    BY <2>1, <2>2, SendersStay DEF AcksInv
  <2>4. \A q \in Senders : Ordered(queue[q].refs)' /\ Ordered(frameData[q].refs)'
    <3> TAKE q \in Senders
    <3>1. Ordered(queue[q].refs) /\ Ordered(frameData[q].refs)
      BY <2>2 DEF ListsInv
    <3>2. QED
      BY ONLY <2>1, <3>1 DEF Ordered, Precedes
  <2>5. ListsInv'
    BY <2>1, <2>2, <2>4 DEF ListsInv
  <2>6. NodesInv'
    BY <2>1, <2>2, <2>3 DEF NodesInv
  <2>7. OnlyWhole'
    BY <2>1, <2>2 DEF OnlyWhole, AloneWithItsId, Carried
  <2>8. QED
    BY <2>3, <2>5, <2>6, <2>7 DEF TransferInv
<1>6. QED
  BY <1>1, <1>2, <1>3, <1>4, <1>5 DEF Next

(* The invariant holds throughout.                                          *)
THEOREM TransferInvariance == Spec => []TransferInv
BY InitInv, NextKeeps, PTL DEF Spec

-----------------------------------------------------------------------------
(* What follows *)

LEMMA MessagesAreTyped ==
    ASSUME GivenInv, SentInv
    PROVE  sent \subseteq MessageType
<1>1. GivenCommands \subseteq Command
  BY GivenByPlayer
<1>2. ASSUME NEW m \in sent, m \in GivenCommands PROVE m \in MessageType
  BY <1>1, <1>2 DEF Command, MessageType
<1>3. ASSUME NEW m \in sent, m \notin GivenCommands PROVE m \in MessageType
  <2>1. PICK c \in GivenCommands, k \in 1 .. Chunks : m = Wrapper(c, k)
    BY <1>3, WrappersCarry
  <2> DEFINE n == c.nth + k
             id == (FirstId[c.playerID] + n) % IdSpace
  <2>2. c.playerID \in Senders /\ n \in Nat
    BY <1>1, SendersAssumption DEF Command
  <2>3. id \in 0 .. IdSpace - 1
    <3> DEFINE x == FirstId[c.playerID] + n
    <3>1. x \in Nat
      <4>1. FirstId[c.playerID] \in 0 .. IdSpace - 1
        BY <2>2, SendersAssumption
      <4>2. FirstId[c.playerID] \in Nat
        BY <4>1, IdAssumption
      <4> HIDE DEF n
      <4>3. QED
        BY <2>2, <4>2
    <3> HIDE DEF x
    <3>2. x % IdSpace \in 0 .. IdSpace - 1
      BY <3>1, IdAssumption
    <3>3. QED
      BY <3>2 DEF x
  <2>4. m = [type |-> WRAPPER, playerID |-> c.playerID, nth |-> n, id |-> id,
             carries |-> {[chunk |-> k, of |-> c]}]
    BY <2>1 DEF Wrapper, Message
  <2>5. WRAPPER \in Nat
    BY DEF WRAPPER
  <2> HIDE DEF n, id
  <2>6. QED
    BY <2>2, <2>3, <2>4, <2>5 DEF MessageType
<1>4. QED
  BY <1>2, <1>3

(* Every variable keeps its type; the place inserted last is in its list.   *)
THEOREM TransferTypes == Spec => []TypeOK
<1>1. TransferInv => TypeOK
  <2> SUFFICES ASSUME TransferInv PROVE TypeOK
    OBVIOUS
  <2>1. GivenInv /\ SentInv /\ ListsInv /\ AcksInv
    BY DEF TransferInv
  <2>2. sent \subseteq MessageType
    BY <2>1, MessagesAreTyped
  <2>3. ASSUME NEW M, NEW l, IsList(l, M) PROVE ListOf(l, M) /\ Len(l.refs) \in Nat
    <3>1. l.refs \in Seq(M) /\ Len(l.refs) \in Nat /\ l.inserted \in 0 .. Len(l.refs)
      BY <2>3 DEF IsList
    <3>2. QED
      BY <3>1, Elements DEF ListOf
  <2>4. ASSUME NEW p \in Senders
        PROVE  /\ generated[p] \in 0 .. MaxIds(p) /\ commandCount[p] \in Nat
               /\ ListOf(queue[p], sent) /\ ListOf(frameData[p], ToSet(given[p]))
    <3>1. generated[p] \in 0 .. MaxIds(p)
      <4>1. /\ generated[p] \in Nat /\ Len(given[p]) \in Nat
            /\ Len(given[p]) <= Len(Script[p]) /\ generated[p] <= Len(given[p]) * (Chunks + 1)
        BY <2>1 DEF GivenInv
      <4>2. QED
        BY <4>1, FewIds
    <3>2. /\ IsList(queue[p], {m \in sent : m.playerID = p})
          /\ IsList(frameData[p], ToSet(given[p])) /\ commandCount[p] = Len(frameData[p].refs)
      BY <2>1 DEF ListsInv
    <3>3. IsList(queue[p], sent)
      BY <3>2, ListGrows
    <3>4. QED
      BY <2>3, <3>1, <3>2, <3>3
  <2>5. QED
    BY <2>1, <2>2, <2>4 DEF TypeOK, GivenInv, AcksInv
<1>2. QED
  BY <1>1, TransferInvariance, PTL

(* The commands of a frame are executed in the one order of their types,    *)
(* players and IDs, and a connection sends in it, whatever came when and    *)
(* however often (NetCommandList::addMessage, getFrameCommandList).         *)
THEOREM OneOrderForAll == Spec => []SameOrder
<1>1. TransferInv => SameOrder
  BY FrameIsOrdered DEF TransferInv, SameOrder, ListsInv
<1>2. QED
  BY <1>1, TransferInvariance, PTL

(* A message leaves its connection's queue only when the other side has     *)
(* heard it: the ack of another that looks like it never takes it           *)
(* (Connection::processAck).                                                *)
THEOREM KeptTillHeard == Spec => []KeptUntilHeard
<1>1. TransferInv => KeptUntilHeard
  BY DEF TransferInv
<1>2. QED
  BY <1>1, TransferInvariance, PTL

(* A big command is in a frame only when all its chunks came, and no others *)
(* in their places, if no other has its ID (getReadyCommands).              *)
THEOREM BigOnesComeWhole == Spec => []OnlyWhole
<1>1. TransferInv => OnlyWhole
  BY DEF TransferInv
<1>2. QED
  BY <1>1, TransferInvariance, PTL

(* What is ordered does not repeat.                                         *)
LEMMA OrderedIsDistinct ==
    ASSUME NEW M, WellOrdered(M), NEW s \in Seq(M), Ordered(s)
    PROVE  \A i, j \in 1 .. Len(s) : s[i] = s[j] => i = j
<1>1. Len(s) \in Nat /\ \A i \in 1 .. Len(s) : s[i] \in M /\ ~Precedes(s[i], s[i])
  BY PrecedesOrders
<1>2. QED
  BY <1>1 DEF Ordered

(* The count that tells a frame is ready is that of the different commands  *)
(* that came, so a command that comes twice is not taken for two            *)
(* (FrameData::addCommand, allCommandsReady).                               *)
THEOREM CountsAreTrue == Spec => []CountMatches
<1>1. TransferInv => CountMatches
  <2> SUFFICES ASSUME TransferInv, NEW p \in Senders
               PROVE  commandCount[p] = Cardinality(ToSet(frameData[p].refs))
    BY DEF CountMatches
  <2> DEFINE s == frameData[p].refs
             T == ToSet(s)
  <2>1. GivenInv /\ IdsInv /\ ListsInv
    BY DEF TransferInv
  <2>2. s \in Seq(ToSet(given[p])) /\ Ordered(s) /\ commandCount[p] = Len(s) /\ Len(s) \in Nat
    <3>1. IsList(frameData[p], ToSet(given[p])) /\ Ordered(s) /\ commandCount[p] = Len(s)
      BY <2>1 DEF ListsInv
    <3>2. s \in Seq(ToSet(given[p]))
      BY <3>1 DEF IsList
    <3> HIDE DEF s
    <3>3. QED
      BY <3>1, <3>2
  <2>3. WellOrdered(ToSet(given[p]))
    BY <2>1, MessagesOrder, SomeAreOrdered, GivenByPlayer
  <2> HIDE DEF s
  <2>4. \A i, j \in 1 .. Len(s) : s[i] = s[j] => i = j
    BY <2>2, <2>3, OrderedIsDistinct
  <2>5. s \in [1 .. Len(s) -> T] /\ \A x \in T : \E i \in 1 .. Len(s) : s[i] = x
    <3>1. \A x : x \in T <=> \E i \in 1 .. Len(s) : s[i] = x
      BY <2>2, Elements
    <3>2. s = [i \in 1 .. Len(s) |-> s[i]]
      BY <2>2
    <3>3. QED
      BY <3>1, <3>2
  <2> HIDE DEF T
  <2>6. s \in Surjection(1 .. Len(s), T) /\ s \in Injection(1 .. Len(s), T)
    BY <2>4, <2>5 DEF Surjection, Injection, IsInjective
  <2>7. IsFiniteSet(1 .. Len(s)) /\ Cardinality(1 .. Len(s)) = Len(s)
    <3>1. 1 \in Int /\ Len(s) \in Int
      BY <2>2
    <3>2. IsFiniteSet(1 .. Len(s)) /\ Cardinality(1 .. Len(s)) =
             IF 1 > Len(s) THEN 0 ELSE Len(s) - 1 + 1
      BY ONLY <3>1, FS_Interval
    <3>3. QED
      BY <2>2, <3>2
  <2>8. Cardinality(T) = Len(s)
    BY <2>6, <2>7, FS_Surjection
  <2>9. QED
    BY <2>2, <2>8 DEF T, s
<1>2. QED
  BY <1>1, TransferInvariance, PTL

(* What is ordered is told by its elements.                                 *)
LEMMA OneOrderOnly ==
    ASSUME NEW M, WellOrdered(M), NEW s \in Seq(M), NEW t \in Seq(M),
           Ordered(s), Ordered(t), ToSet(s) = ToSet(t)
    PROVE  s = t
<1>1. ASSUME NEW a \in Seq(M), NEW b \in Seq(M), Ordered(a), Ordered(b), ToSet(a) = ToSet(b)
      PROVE  Len(a) <= Len(b) /\ \A i \in 1 .. Len(a) : a[i] = b[i]
  <2> DEFINE Differ == {i \in 1 .. Len(a) : i > Len(b) \/ a[i] # b[i]}
  <2>1. Len(a) \in Nat /\ Len(b) \in Nat /\ Differ \subseteq Nat
    OBVIOUS
  <2>2. Differ = {}
    <3> SUFFICES ASSUME Differ # {} PROVE FALSE
      OBVIOUS
    <3>1. PICK n \in Differ : \A k \in Differ : n <= k
      BY <2>1, Least, Zenon
    <3> DEFINE x == a[n]
    <3>2. n \in 1 .. Len(a) /\ (n > Len(b) \/ x # b[n])
      BY <3>1
    <3>3. \A i \in 1 .. n - 1 : i <= Len(b) /\ a[i] = b[i] /\ i \in 1 .. Len(a)
      BY <2>1, <3>1, <3>2
    <3>4. x \in M /\ ~Precedes(x, x)
      BY <3>2, PrecedesOrders
    <3>5. PICK j \in 1 .. Len(b) : b[j] = x
      <4>1. x \in ToSet(a)
        BY <1>1, <3>2, Elements
      <4>2. x \in ToSet(b)
        BY <1>1, <4>1
      <4> QED
        BY <1>1, <4>2, Elements
    <3>6. j > n
      <4>1. j # n
        BY <3>2, <3>5
      <4>2. ~(j < n)
        <5> SUFFICES ASSUME j < n PROVE FALSE
          OBVIOUS
        <5>1. j \in 1 .. Len(a) /\ a[j] = x
          BY <2>1, <3>2, <3>3, <3>5
        <5>2. Precedes(a[j], a[n])
          BY <1>1, <3>2, <5>1 DEF Ordered
        <5>3. QED
          BY <3>4, <5>1, <5>2
      <4>3. QED
        BY <2>1, <3>2, <4>1, <4>2
    <3> DEFINE y == b[n]
    <3>7. n \in 1 .. Len(b) /\ y \in M
      BY <2>1, <3>2, <3>5, <3>6
    <3>8. Precedes(y, x)
      BY <1>1, <3>5, <3>6, <3>7 DEF Ordered
    <3>9. PICK k \in 1 .. Len(a) : a[k] = y
      <4>1. y \in ToSet(b)
        BY <1>1, <3>7, Elements
      <4>2. y \in ToSet(a)
        BY <1>1, <4>1
      <4> QED
        BY <1>1, <4>2, Elements
    <3>10. ~(k < n)
      <4> SUFFICES ASSUME k < n PROVE FALSE
        OBVIOUS
      <4>1. k \in 1 .. Len(b) /\ b[k] = y
        BY <2>1, <3>2, <3>3, <3>9
      <4>2. Precedes(b[k], b[n])
        BY <1>1, <3>7, <4>1 DEF Ordered
      <4>3. ~Precedes(y, y)
        BY <3>7, PrecedesOrders
      <4>4. QED
        BY <4>1, <4>2, <4>3
    <3>11. k # n
      BY <3>2, <3>7, <3>9
    <3>12. Precedes(x, y)
      <4>1. n < k
        BY <2>1, <3>2, <3>10, <3>11
      <4>2. QED
        BY <1>1, <3>2, <3>9, <4>1 DEF Ordered
    <3>13. QED
      BY <3>4, <3>7, <3>8, <3>12, PrecedesOrders
  <2>3. \A i \in 1 .. Len(a) : i <= Len(b) /\ a[i] = b[i]
    BY <2>1, <2>2
  <2>4. Len(a) <= Len(b)
    BY <2>1, <2>3
  <2>5. QED
    BY <2>3, <2>4
<1>2. Len(s) <= Len(t) /\ Len(t) <= Len(s) /\ \A i \in 1 .. Len(s) : s[i] = t[i]
  BY <1>1
<1>3. Len(s) = Len(t) /\ Len(s) \in Nat
  BY <1>2
<1>4. QED
  BY <1>2, <1>3

(* What a frame executes is told by the set of commands that came: two      *)
(* machines with the same ones execute the same sequence, however they came *)
(* to each (NetCommandList::addMessage, getFrameCommandList).               *)
OnlyOneOrder ==
    \A s \in Seq(GivenCommands) :
        Ordered(s) /\ ToSet(s) = Delivered => s = FrameCommands

THEOREM SameCommandsSameFrame == Spec => []OnlyOneOrder
<1>1. TransferInv => OnlyOneOrder
  <2> SUFFICES ASSUME TransferInv, NEW s \in Seq(GivenCommands), Ordered(s), ToSet(s) = Delivered
               PROVE  s = FrameCommands
    BY DEF OnlyOneOrder
  <2>1. GivenInv /\ IdsInv /\ ListsInv
    BY DEF TransferInv
  <2>2. /\ Ordered(FrameCommands) /\ FrameCommands \in Seq(GivenCommands)
        /\ ToSet(FrameCommands) = Delivered
    BY <2>1, FrameIsOrdered
  <2>3. WellOrdered(GivenCommands)
    BY <2>1, MessagesOrder, SomeAreOrdered
  <2>4. QED
    BY <2>2, <2>3, OneOrderOnly
<1>2. QED
  BY <1>1, TransferInvariance, PTL

-----------------------------------------------------------------------------
(* What is promised *)

LEMMA GiveRefines ==
    ASSUME TransferInv, NEW p \in Senders, SendNetCommandMsg(p)
    PROVE  \E c \in ScriptCommands :
              /\ c \notin GivenCommands /\ GivenCommands' = GivenCommands \union {c}
              /\ Delivered' = Delivered
<1>1. PICK c \in Command :
         /\ c.playerID = p /\ c.nth = generated[p] /\ c \notin sent \union GivenCommands
         /\ IdRule(c, generated') /\ GivenCommands' = GivenCommands \union {c}
         /\ \E i \in 1 .. Len(Script[p]) : c.type = Script[p][i][1]
  BY SendChanges
<1>2. PICK i \in 1 .. Len(Script[p]) : c.type = Script[p][i][1]
  BY <1>1
<1>3. generated[p] \in 0 .. MaxIds(p)
  <2>1. /\ generated[p] \in Nat /\ Len(given[p]) \in Nat
        /\ Len(given[p]) <= Len(Script[p]) /\ generated[p] <= Len(given[p]) * (Chunks + 1)
    BY DEF TransferInv, GivenInv
  <2>2. QED
    BY <2>1, FewIds
<1>4. c = Message(Script[p][i][1], p, generated[p], {})
  <2>1. c.id = (FirstId[p] + generated[p]) % IdSpace
    BY <1>1 DEF IdRule
  <2> DEFINE id == (FirstId[p] + generated[p]) % IdSpace
             n == generated[p]
             type == Script[p][i][1]
  <2>2. c.type = type /\ c.playerID = p /\ c.nth = n /\ c.id = id
    BY <1>1, <1>2, <2>1
  <2> HIDE DEF id, n, type
  <2>3. c = [type |-> type, playerID |-> p, nth |-> n, id |-> id, carries |-> {}]
    BY <2>2 DEF Command
  <2>4. QED
    BY <2>3 DEF Message, id, n, type
<1>5. i \in DOMAIN Script[p]
  BY SendersAssumption
<1>6. Delivered' = Delivered
  BY DEF SendNetCommandMsg, receiver, Delivered
<1>7. QED
  BY <1>1, <1>3, <1>4, <1>5, <1>6 DEF ScriptCommands

(* What goes into the frame data, of all players together.                  *)
LEMMA AddRefines ==
    ASSUME TransferInv, NEW s \in Seq(GivenCommands), AddToFrame(s),
           UNCHANGED <<sender, retailCompatible>>
    PROVE  /\ GivenCommands' = GivenCommands
           /\ ToSet(s) \subseteq GivenCommands
           /\ Delivered' = Delivered \union ToSet(s)
<1>1. GivenInv /\ IdsInv /\ ListsInv
  BY DEF TransferInv
<1>2. GivenCommands' = GivenCommands
  BY DEF sender, GivenCommands
<1>3. ToSet(s) \subseteq GivenCommands
  BY Elements
<1>4. \A p \in Senders : ToSet(frameData'[p].refs) =
         ToSet(frameData[p].refs) \union {c \in ToSet(s) : c.playerID = p}
  BY <1>1, AddToFrameKeeps
<1>5. \A c \in ToSet(s) : c.playerID \in Senders
  BY <1>1, <1>3, GivenByPlayer
<1>6. Delivered' = UNION {ToSet(frameData'[p].refs) : p \in Senders}
  BY DEF Delivered
<1> HIDE DEF AddToFrame
<1>7. Delivered' = Delivered \union ToSet(s)
  <2>1. ASSUME NEW c, c \in Delivered' PROVE c \in Delivered \union ToSet(s)
    BY <1>4, <1>6, <2>1 DEF Delivered
  <2>2. ASSUME NEW c, c \in Delivered \union ToSet(s) PROVE c \in Delivered'
    <3>1. CASE c \in ToSet(s)
      BY <1>4, <1>5, <1>6, <3>1
    <3>2. CASE c \in Delivered
      <4>1. PICK p \in Senders : c \in ToSet(frameData[p].refs)
        BY <3>2 DEF Delivered
      <4>2. c \in ToSet(frameData'[p].refs)
        BY <1>4, <4>1
      <4>3. QED
        BY <1>6, <4>2
    <3>3. QED
      BY <2>2, <3>1, <3>2
  <2>3. QED
    BY <2>1, <2>2
<1>8. QED
  BY <1>2, <1>3, <1>7

(* In the terms of CommandDelivery: giving a command is one step, bringing  *)
(* some is another, and whatever else happens does not show.                *)
LEMMA StepsRefine ==
    ASSUME TransferInv, [Next]_vars
    PROVE  [Delivery!Next]_(Delivery!vars)
<1> DEFINE Gives == \E c \in ScriptCommands : /\ c \notin GivenCommands /\ Delivered' = Delivered
                                              /\ GivenCommands' = GivenCommands \union {c}
           Brings == \E C \in SUBSET (GivenCommands \ Delivered) :
                        /\ C # {} /\ Delivered' = Delivered \union C
                        /\ GivenCommands' = GivenCommands
           Stays == GivenCommands' = GivenCommands /\ Delivered' = Delivered
<1>1. Gives \/ Brings \/ Stays => [Delivery!Next]_(Delivery!vars)
  BY DEF Delivery!Next, Delivery!vars, Delivery!Give, Delivery!DeliverSome, Delivery!Deliver
<1>2. GivenInv /\ SentInv /\ NodesInv
  BY DEF TransferInv
<1>3. ASSUME NEW p \in Senders, SendNetCommandMsg(p) PROVE Gives
  BY <1>3, GiveRefines
<1>4. ASSUME NEW s \in Seq(GivenCommands), AddToFrame(s), UNCHANGED <<sender, retailCompatible>>
      PROVE  Brings \/ Stays
  <2> DEFINE C == ToSet(s) \ Delivered
  <2>1. /\ GivenCommands' = GivenCommands /\ ToSet(s) \subseteq GivenCommands
        /\ Delivered' = Delivered \union ToSet(s)
    BY <1>4, AddRefines
  <2>2. Delivered' = Delivered \union C /\ C \in SUBSET (GivenCommands \ Delivered)
    BY <2>1
  <2>3. C = {} => Delivered' = Delivered
    BY <2>2
  <2> HIDE DEF C
  <2>4. QED
    BY <2>1, <2>2, <2>3
<1>5. ASSUME UNCHANGED <<given, frameData>> PROVE Stays
  BY <1>5 DEF GivenCommands, Delivered
<1>6. ASSUME NEW m \in sent, Relay(m) PROVE Brings \/ Stays
  <2>1. UNCHANGED <<sender, retailCompatible>> /\ given' = given
    BY <1>6 DEF Relay, sender
  <2>2. CASE frameData' = frameData
    BY <1>5, <2>1, <2>2
  <2>3. CASE m.type # WRAPPER /\ AddToFrame(<<m>>)
    <3>1. <<m>> \in Seq(GivenCommands)
      BY <1>2, <2>3, WrappersCarry
    <3>2. QED
      BY <1>4, <2>1, <2>3, <3>1
  <2>4. QED
    BY <1>6, <2>2, <2>3 DEF Relay
<1>7. ASSUME NEW p, NEW m \in acks, ProcessAck(p, m) PROVE Stays
  BY <1>5, <1>7 DEF ProcessAck, receiver
<1>8. ASSUME ProcessReadyCommands PROVE Brings \/ Stays
  <2> DEFINE s == GetReadyCommands.ready.refs
  <2>1. UNCHANGED <<sender, retailCompatible>> /\ AddToFrame(s)
    BY <1>8 DEF ProcessReadyCommands
  <2>2. s \in Seq(GivenCommands)
    BY <1>2, ReadyIsComplete DEF IsList
  <2> HIDE DEF s
  <2>3. QED
    BY <1>4, <2>1, <2>2
<1>9. ASSUME UNCHANGED vars PROVE Stays
  BY <1>5, <1>9 DEF vars, sender, receiver
<1> HIDE DEF Gives, Brings, Stays
<1>10. QED
  BY <1>1, <1>3, <1>6, <1>7, <1>8, <1>9 DEF Next

(* Only what was given comes into the frame data, and what came stays: the  *)
(* safety part of what CommandDelivery promises.                            *)
THEOREM OnlyGivenIsDelivered == Spec => Delivery!Spec
<1>1. Init => Delivery!Init
  <2> SUFFICES ASSUME Init PROVE Delivery!Init
    OBVIOUS
  <2>1. \A p \in Senders : given[p] = <<>> /\ frameData[p].refs = <<>>
    BY DEF Init, EmptyList
  <2>2. ToSet(<<>>) = {}
    BY DEF ToSet
  <2>3. QED
    BY <2>1, <2>2 DEF Delivery!Init, Init, GivenCommands, Delivered
<1>2. TransferInv /\ [Next]_vars => [Delivery!Next]_(Delivery!vars)
  BY StepsRefine
<1>3. QED
  BY <1>1, <1>2, TransferInvariance, PTL DEF Spec, Delivery!Spec

=============================================================================
