--------------------------- MODULE NetCommandList ---------------------------
(***************************************************************************)
(* NetCommandList, the sorted list behind every queue of network commands  *)
(* and behind the commands of a frame: by type, then player, then command  *)
(* ID, each command once. Machines get commands in different orders; that  *)
(* they execute them in the same one rests on this insertion sort.         *)
(*                                                                         *)
(* Commands here are those that need an ID. The list remembers where it    *)
(* inserted last and tries there first; its other short cuts (a type after *)
(* the last, before the first) only find the same place sooner.            *)
(***************************************************************************)
EXTENDS Integers, Sequences, FiniteSets, SequencesExt

CONSTANT IdSpace    \* how many values a command ID has, 2^16 in the code

ASSUME IdAssumption == IdSpace \in Nat /\ IdSpace > 1

VARIABLE retailCompatible   \* RETAIL_COMPATIBLE_NETWORKING of the build

-----------------------------------------------------------------------------
(* A command list: refs is the chain from m_first to m_last, inserted the   *)
(* place of m_lastMessageInserted in it, 0 for null.                        *)
EmptyList == [refs |-> <<>>, inserted |-> 0]

InList(l, m) == m \in ToSet(l.refs)

(* The other build compares modulo the width of the ID.                     *)
IsCommandIdNewer(a, b) ==
    IF retailCompatible
    THEN a > b
    ELSE a # b /\ (a - b) % IdSpace < IdSpace \div 2

IsEqualCommandMsg(a, b) == a.playerID = b.playerID /\ a.id = b.id

FindMessage(l, m) == \E i \in 1 .. Len(l.refs) : IsEqualCommandMsg(l.refs[i], m)

(* The first place from i on where Passes fails, or the end.                *)
SkipWhile(s, i, Passes(_)) ==
    CHOOSE j \in i .. Len(s) + 1 :
        /\ \A k \in i .. j - 1 : Passes(s[k])
        /\ j <= Len(s) => ~Passes(s[j])

(* The scan: to the type, to the player, to the ID.                         *)
Scan(s, m) ==
    LET type == SkipWhile(s, 1, LAMBDA r : r.type < m.type)
        player == SkipWhile(s, type, LAMBDA r :
                      r.type = m.type /\ r.playerID < m.playerID)
    IN  SkipWhile(s, player, LAMBDA r :
            /\ r.type = m.type /\ r.playerID = m.playerID
            /\ IsCommandIdNewer(m.id, r.id))

(* Whether m goes right behind the message inserted last.                   *)
FollowsAnyhow(l, m) ==  \* mutant: never minds what comes next
    /\ l.inserted # 0
    /\ LET r == l.refs[l.inserted]
       IN r.type = m.type /\ r.playerID = m.playerID /\ IsCommandIdNewer(m.id, r.id)

FollowsInserted(l, m) ==
    /\ l.inserted # 0
    /\ LET r == l.refs[l.inserted]
       IN r.type = m.type /\ r.playerID = m.playerID /\ IsCommandIdNewer(m.id, r.id)
    /\ \/ l.inserted = Len(l.refs)
       \/ LET next == l.refs[l.inserted + 1]
          IN \/ next.type > m.type \/ next.playerID > m.playerID
             \/ IsCommandIdNewer(next.id, m.id)

Place(l, m) == IF FollowsInserted(l, m) THEN l.inserted + 1 ELSE Scan(l.refs, m)

(* Where a copy of m would be: behind its place, or before it where there   *)
(* is nothing behind or the place was not looked for.                       *)
Twin(l, m) ==
    IF FollowsInserted(l, m) \/ Place(l, m) > Len(l.refs)
    THEN l.refs[Place(l, m) - 1] ELSE l.refs[Place(l, m)]

AddMessage(l, m) ==
    IF l.refs = <<>>
    THEN [refs |-> <<m>>, inserted |-> 1]
    ELSE IF IsEqualCommandMsg(Twin(l, m), m)
         THEN l
         ELSE [refs |-> InsertAt(l.refs, Place(l, m), m), inserted |-> Place(l, m)]

AppendList(l, s) ==
    LET list[n \in 0 .. Len(s)] == IF n = 0 THEN l ELSE AddMessage(list[n - 1], s[n])
    IN  list[Len(s)]

ForgetInserted(l, i) ==  \* mutant: leaves the place inserted last alone
    [refs |-> RemoveAt(l.refs, i), inserted |-> l.inserted]

(* The place inserted last moves on to the next one when it is removed.     *)
RemoveMessage(l, i) ==
    [refs |-> RemoveAt(l.refs, i),
     inserted |-> IF l.inserted > i THEN l.inserted - 1
                  ELSE IF l.inserted = i /\ i = Len(l.refs) THEN 0
                  ELSE l.inserted]

=============================================================================
