----------------------- MODULE DisconnectManager_proofs -----------------------
(***************************************************************************)
(* Why nobody is left behind: what a machine believes of another's frame   *)
(* is never ahead of it, and who told the others where he waits is still   *)
(* there while his screen is on. Why nobody who answers is put out by less *)
(* than all others: a machine holds at most one vote of each player        *)
(* against each, every one of them cast by its owner.                      *)
(***************************************************************************)
EXTENDS DisconnectManager, FiniteSetTheorems, WellFoundedInduction, TLAPS

-----------------------------------------------------------------------------
(* The inductive invariant *)

Shape ==
    /\ running \subseteq Players /\ screen \subseteq Players /\ notified \subseteq Players
    /\ frame \in [Players -> Nat]
    /\ connected \in [Players -> SUBSET Players]
    /\ disconnectFrames \in [Players -> [Players -> Nat]]
    /\ framesReceived \in [Players -> SUBSET Players]

(* Nobody has a connection to himself.                                      *)
NotToOneself == \A p \in Players : p \notin connected[p]

(* Frame news is never from a frame its sender has not reached.             *)
FrameNews == {m \in net : m.type \in {"FRAME", "SCREENOFF"}}
NewsIsPast ==
    \A m \in FrameNews : m.from \in Players /\ m.frame \in Nat /\ m.frame <= frame[m.from]

BeliefIsPast == \A p, i \in Players : disconnectFrames[p][i] <= frame[i]

(* Who has notified the others waits in the frame he named.                 *)
NotifiedWaits ==
    \A p \in notified \intersect screen : disconnectFrames[p][p] = frame[p]

FrameInv == Shape /\ NotToOneself /\ NewsIsPast /\ BeliefIsPast /\ NotifiedWaits

-----------------------------------------------------------------------------
(* It holds initially.                                                     *)
LEMMA FrameInvInit == Init => FrameInv
BY PlayersAssumption
   DEF Init, FrameInv, Shape, NotToOneself, FrameNews, NewsIsPast, BeliefIsPast, NotifiedWaits

(* A frame that is run leaves the others' belief behind it.                *)
LEMMA RunFrameStep ==
    ASSUME FrameInv, NEW p \in Players, RunFrame(p)
    PROVE  FrameInv'
<1>1. Shape'
  <2>1. frame' \in [Players -> Nat] /\ screen' \subseteq Players
    BY DEF FrameInv, Shape, RunFrame
  <2>2. disconnectFrames' \in [Players -> [Players -> Nat]]
    <3>1. CASE p \in screen
      BY <3>1 DEF FrameInv, Shape, RunFrame
    <3>2. CASE p \notin screen
      BY <3>2 DEF FrameInv, Shape, RunFrame, frames
    <3>3. QED
      BY <3>1, <3>2
  <2>3. framesReceived' \in [Players -> SUBSET Players]
    <3>1. CASE p \in screen
      BY <3>1 DEF FrameInv, Shape, RunFrame
    <3>2. CASE p \notin screen
      BY <3>2 DEF FrameInv, Shape, RunFrame, frames
    <3>3. QED
      BY <3>1, <3>2
  <2>4. QED
    BY <2>1, <2>2, <2>3 DEF FrameInv, Shape, RunFrame
<1>2. NotToOneself'
  BY DEF FrameInv, NotToOneself, RunFrame
<1>3. \A i \in Players : frame[i] \in Nat /\ frame'[i] \in Nat /\ frame[i] <= frame'[i]
  BY DEF FrameInv, Shape, RunFrame
<1>4. NewsIsPast'
  <2> SUFFICES ASSUME NEW m \in FrameNews'
               PROVE  m.from \in Players /\ m.frame \in Nat /\ m.frame <= frame'[m.from]
    BY DEF NewsIsPast
  <2>1. CASE m \in net
    BY <2>1, <1>3 DEF FrameInv, FrameNews, NewsIsPast
  <2>2. CASE m = Msg("SCREENOFF", p, connected[p], frame[p], {})
    BY <2>2, <1>3 DEF Msg
  <2>3. QED
    BY <2>1, <2>2 DEF FrameNews, RunFrame, frames
<1>5. BeliefIsPast'
  <2> SUFFICES ASSUME NEW q \in Players, NEW i \in Players
               PROVE  disconnectFrames'[q][i] <= frame'[i]
    BY DEF BeliefIsPast
  <2>1. disconnectFrames'[q][i] \in {disconnectFrames[q][i], frame[i]}
    BY DEF FrameInv, Shape, RunFrame, frames
  <2>2. disconnectFrames[q][i] \in Nat /\ disconnectFrames[q][i] <= frame[i]
    BY DEF FrameInv, Shape, BeliefIsPast
  <2>3. QED
    BY <1>3, <2>1, <2>2
<1>6. NotifiedWaits'
  BY DEF FrameInv, Shape, NotifiedWaits, RunFrame, frames
<1>7. QED
  BY <1>1, <1>2, <1>4, <1>5, <1>6 DEF FrameInv

(* A screen that comes on has not notified anybody yet.                    *)
LEMMA TurnOnScreenStep ==
    ASSUME FrameInv, NEW p \in Players, TurnOnScreen(p)
    PROVE  FrameInv'
BY DEF TurnOnScreen, game, frames, FrameInv, Shape, NotToOneself, FrameNews, NewsIsPast,
       BeliefIsPast, NotifiedWaits

(* Notifying names the frame the machine is in.                            *)
LEMMA NotifyStep ==
    ASSUME FrameInv, NEW p \in Players, Notify(p)
    PROVE  FrameInv'
<1> DEFINE news == disconnectFrames[p][p] < frame[p]
<1> USE DEF FrameInv
<1>1. Shape'
  <2>1. notified' \subseteq Players /\ UNCHANGED game /\ screen' = screen
    BY DEF Shape, Notify
  <2>2. disconnectFrames' \in [Players -> [Players -> Nat]]
    <3>1. CASE news
      BY <3>1 DEF Shape, Notify
    <3>2. CASE ~news
      BY <3>2 DEF Shape, Notify, frames
    <3>3. QED
      BY <3>1, <3>2
  <2>3. framesReceived' \in [Players -> SUBSET Players]
    <3>1. CASE news
      BY <3>1 DEF Shape, Notify
    <3>2. CASE ~news
      BY <3>2 DEF Shape, Notify, frames
    <3>3. QED
      BY <3>1, <3>2
  <2>4. QED
    BY <2>1, <2>2, <2>3 DEF Shape, game
<1>2. NotToOneself'
  BY DEF NotToOneself, Notify, game
<1>3. NewsIsPast'
  <2> SUFFICES ASSUME NEW m \in FrameNews'
               PROVE  m.from \in Players /\ m.frame \in Nat /\ m.frame <= frame'[m.from]
    BY DEF NewsIsPast
  <2>1. CASE m \in net
    BY <2>1 DEF FrameNews, NewsIsPast, Notify, game
  <2>2. CASE m = Msg("FRAME", p, connected[p], frame[p], {})
    BY <2>2 DEF Msg, Shape, Notify, game
  <2>3. ASSUME NEW i, m = FrameData(p, i) PROVE FALSE
    BY <2>3 DEF FrameData, Msg, FrameNews
  <2>4. QED
    BY <2>1, <2>2, <2>3 DEF FrameNews, Notify
<1>4. BeliefIsPast'
  BY DEF Shape, BeliefIsPast, Notify, game, frames
<1>5. NotifiedWaits'
  BY DEF Shape, BeliefIsPast, NotifiedWaits, Notify, game, frames
<1>6. QED
  BY <1>1, <1>2, <1>3, <1>4, <1>5

(* News of a frame is about another player,                                *)
LEMMA ReceiveFrameStep ==
    ASSUME FrameInv, NEW p \in Players, NEW q \in connected[p],
           NEW m \in net, m.from = q, ReceiveFrame(p, m)
    PROVE  FrameInv'
<1> USE DEF FrameInv
<1>1. m \in FrameNews /\ q \in Players /\ m.frame \in Nat /\ m.frame <= frame[q] /\ q # p
  BY DEF FrameNews, NewsIsPast, ReceiveFrame, Shape, NotToOneself
<1>2. Shape'
  BY <1>1 DEF Shape, ReceiveFrame, game, flags
<1>3. NotToOneself'
  BY DEF NotToOneself, ReceiveFrame, game
<1>4. NewsIsPast'
  BY DEF NewsIsPast, FrameNews, ReceiveFrame, game, FrameData, Msg
<1>5. BeliefIsPast'
  BY <1>1 DEF Shape, BeliefIsPast, ReceiveFrame, game
<1>6. NotifiedWaits'
  BY <1>1 DEF Shape, NotifiedWaits, ReceiveFrame, game, flags
<1>7. QED
  BY <1>2, <1>3, <1>4, <1>5, <1>6

(* and so is the news of a screen that went off.                           *)
LEMMA ReceiveScreenOffStep ==
    ASSUME FrameInv, NEW p \in Players, NEW q \in connected[p],
           NEW m \in net, m.from = q, ReceiveScreenOff(p, m)
    PROVE  FrameInv'
<1> USE DEF FrameInv
<1>1. m \in FrameNews /\ q \in Players /\ m.frame \in Nat /\ m.frame <= frame[q] /\ q # p
  BY DEF FrameNews, NewsIsPast, ReceiveScreenOff, Shape, NotToOneself
<1>2. Shape'
  BY <1>1 DEF Shape, ReceiveScreenOff, game, flags
<1>3. NotToOneself' /\ NewsIsPast'
  BY DEF NotToOneself, NewsIsPast, FrameNews, ReceiveScreenOff, game
<1>4. BeliefIsPast'
  BY <1>1 DEF Shape, BeliefIsPast, ReceiveScreenOff, game
<1>5. NotifiedWaits'
  BY <1>1 DEF Shape, NotifiedWaits, ReceiveScreenOff, game, flags
<1>6. QED
  BY <1>2, <1>3, <1>4, <1>5

(* All other steps leave frames, screens and what is known of them alone;   *)
(* whoever is disconnected stays so.                                        *)
LEMMA OtherSteps ==
    ASSUME FrameInv, UNCHANGED <<frame, screen, notified, frames>>,
           running' \subseteq Players,
           connected' \in [Players -> SUBSET Players],
           \A p \in Players : connected'[p] \subseteq connected[p],
           FrameNews' = FrameNews
    PROVE  FrameInv'
BY DEF FrameInv, Shape, NotToOneself, NewsIsPast, BeliefIsPast, NotifiedWaits, frames

(* Disconnecting takes a connection away,                                  *)
LEMMA DisconnectStep ==
    ASSUME FrameInv, NEW p \in Players, NEW i \in Players, Disconnect(p, i)
    PROVE  FrameInv'
<1>1. FrameNews' = FrameNews
  BY DEF FrameNews, Disconnect, Msg
<1>2. QED
  BY <1>1, OtherSteps DEF Disconnect, flags, FrameInv, Shape

(* quitting stops a machine,                                               *)
LEMMA QuitGameStep ==
    ASSUME FrameInv, NEW p \in Players, QuitGame(p)
    PROVE  FrameInv'
<1>1. FrameNews' = FrameNews
  BY DEF FrameNews, QuitGame, Msg
<1>2. QED
  BY <1>1, OtherSteps DEF QuitGame, flags, FrameInv, Shape

(* a vote says nothing about frames,                                       *)
LEMMA VoteStep ==
    ASSUME FrameInv, NEW p \in Players, NEW q \in Players, VoteForPlayerDisconnect(p, q)
    PROVE  FrameInv'
<1>1. FrameNews' = FrameNews
  BY DEF FrameNews, VoteForPlayerDisconnect, Msg
<1>2. QED
  BY <1>1, OtherSteps DEF VoteForPlayerDisconnect, flags, game, FrameInv, Shape

(* and these send nothing.                                                 *)
LEMMA QuietSteps ==
    ASSUME FrameInv, NEW p \in Players, NEW q \in Players,
           Crash(p) \/ Hear(p, q) \/ TimeOut(p, q) \/ KeepAlive(p, q) \/ UNCHANGED vars
    PROVE  FrameInv'
<1>1. net' = net
  BY DEF Crash, Hear, TimeOut, KeepAlive, vars
<1>2. FrameNews' = FrameNews
  BY <1>1 DEF FrameNews
<1>3. QED
  BY <1>2, OtherSteps DEF Crash, Hear, TimeOut, KeepAlive, vars, game, flags, FrameInv, Shape

(* Whatever is received keeps the invariant.                               *)
LEMMA ReceiveStep ==
    ASSUME FrameInv, NEW p \in Players, NEW q \in Players, Receive(p, q) \/ ReceiveVotes(p, q)
    PROVE  FrameInv'
<1>1. PICK m \in net :
         /\ m.from = q /\ (m.type # "DATA" => q \in connected[p])
         /\ \/ ReceiveFrame(p, m) \/ ReceiveData(p, m) \/ ReceivePlayer(p, m)
            \/ ReceiveVote(p, m) \/ ReceiveScreenOff(p, m)
  BY DEF Receive, ReceiveVotes, Heeds
<1>2. ReceiveFrame(p, m) \/ ReceiveScreenOff(p, m) => q \in connected[p]
  BY <1>1 DEF ReceiveFrame, ReceiveScreenOff
<1>3. CASE ReceiveFrame(p, m)
  BY <1>1, <1>2, <1>3, ReceiveFrameStep
<1>4. CASE ReceiveScreenOff(p, m)
  BY <1>1, <1>2, <1>4, ReceiveScreenOffStep
<1>5. CASE ReceiveData(p, m) \/ ReceivePlayer(p, m) \/ ReceiveVote(p, m)
  <2>1. FrameNews' = FrameNews
    BY <1>5 DEF FrameNews, ReceiveData, ReceivePlayer, ReceiveVote
  <2>2. QED
    BY <1>5, <2>1, OtherSteps
       DEF ReceiveData, ReceivePlayer, ReceiveVote, game, flags, FrameInv, Shape
<1>6. QED
  BY <1>1, <1>3, <1>4, <1>5

(* So does every step.                                                     *)
LEMMA FrameInvStep == FrameInv /\ [Next]_vars => FrameInv'
<1> SUFFICES ASSUME FrameInv, [Next]_vars PROVE FrameInv'
  OBVIOUS
<1>1. ASSUME NEW p \in Players,
             RunFrame(p) \/ TurnOnScreen(p) \/ Notify(p) \/ QuitGame(p) \/ Crash(p)
      PROVE  FrameInv'
  BY <1>1, RunFrameStep, TurnOnScreenStep, NotifyStep, QuitGameStep, QuietSteps
<1>2. ASSUME NEW p \in Players, NEW q \in Players,
             \/ Hear(p, q) \/ TimeOut(p, q) \/ KeepAlive(p, q) \/ Disconnect(p, q)
             \/ VoteForPlayerDisconnect(p, q) \/ Receive(p, q) \/ ReceiveVotes(p, q)
      PROVE  FrameInv'
  BY <1>2, QuietSteps, DisconnectStep, VoteStep, ReceiveStep
<1>3. CASE UNCHANGED vars
  BY <1>3, OtherSteps DEF vars, game, flags, FrameNews, FrameInv, Shape
<1>4. QED
  BY <1>1, <1>2, <1>3 DEF Next

-----------------------------------------------------------------------------
(* Only Disconnect decides: a player who quits keeps his connections, and   *)
(* who is told sends nothing.                                               *)
LEMMA OnlyDisconnectDecides ==
    ASSUME FrameInv, [Next]_vars, NEW p \in Players, NEW q \in Players, Decides(p, q)
    PROVE  Disconnect(p, q)
<1> USE DEF Decides
<1>1. connected' # connected /\ net' # net
  OBVIOUS
<1>2. ASSUME NEW r \in Players,
             RunFrame(r) \/ TurnOnScreen(r) \/ Notify(r) \/ QuitGame(r) \/ Crash(r)
      PROVE  connected' = connected
  BY <1>2 DEF RunFrame, TurnOnScreen, Notify, QuitGame, Crash, game
<1>3. ASSUME NEW r \in Players, NEW s \in Players,
             Hear(r, s) \/ TimeOut(r, s) \/ KeepAlive(r, s) \/ VoteForPlayerDisconnect(r, s)
      PROVE  connected' = connected
  BY <1>3 DEF Hear, TimeOut, KeepAlive, VoteForPlayerDisconnect, game
<1>4. ASSUME NEW r, NEW m,
             ReceiveFrame(r, m) \/ ReceiveVote(r, m) \/ ReceiveScreenOff(r, m)
      PROVE  connected' = connected
  BY <1>4 DEF ReceiveFrame, ReceiveVote, ReceiveScreenOff, game
<1>5. ASSUME NEW r, NEW m, ReceiveData(r, m) \/ ReceivePlayer(r, m)
      PROVE  net' = net
  BY <1>5 DEF ReceiveData, ReceivePlayer
<1>6. PICK r \in Players, s \in Players : Disconnect(r, s)
  BY <1>1, <1>2, <1>3, <1>4, <1>5 DEF Next, vars, game, Receive, ReceiveVotes
<1>7. r = p /\ s = q
  BY <1>6 DEF Disconnect, FrameInv, Shape
<1>8. QED
  BY <1>6, <1>7

(* Who decides waits in the frame he notified the others of, and so do they.*)
LEMMA DecidesInLastFrame ==
    ASSUME FrameInv, NEW p \in Players, NEW q \in Players, Disconnect(p, q),
           NEW i \in InGame(p)
    PROVE  frame[i] >= frame[p]
<1>1. i \in Players /\ p \in notified \intersect screen
  BY DEF FrameInv, Shape, InGame, Everybody, Disconnect
<1>2. disconnectFrames[p][p] = frame[p]
  BY <1>1 DEF FrameInv, NotifiedWaits
<1>3. CASE i = p
  BY <1>3 DEF FrameInv, Shape
<1>4. CASE i # p
  <2>1. disconnectFrames[p][i] = frame[p]
    BY <1>2, <1>4 DEF Disconnect, AllOnSameFrame
  <2>2. QED
    BY <1>1, <2>1 DEF FrameInv, Shape, BeliefIsPast
<1>5. QED
  BY <1>3, <1>4

(* Whoever puts a player out counts only on players who have run every      *)
(* frame he has: processDisconnectFrame and updateDisconnectStatus.         *)
THEOREM NobodyIsLeftBehind == Spec => NobodyLeftBehind
<1>1. FrameInv /\ [Next]_vars =>
         [\A p, q \in Players : Decides(p, q) =>
            \A i \in InGame(p) : frame[i] >= frame[p]]_vars
  BY OnlyDisconnectDecides, DecidesInLastFrame
<1>2. QED
  BY <1>1, FrameInvInit, FrameInvStep, PTL DEF Spec, NobodyLeftBehind

-----------------------------------------------------------------------------
(* Votes *)

IsVoteOf(m, v) ==
    m.type = "VOTE" /\ m.from = v.by /\ m.slots = {v.slot} /\ m.frame = v.frame

(* A vote that travels is a player's, against another.                      *)
Ballots ==
    \A m \in net : m.type = "VOTE" =>
        m.from \in Players /\ m.frame \in Nat /\ \E q \in Players \ {m.from} : m.slots = {q}

(* A vote that a machine holds was cast by its owner, against another.      *)
WasCast ==
    \A p \in Players, v \in Vote :
        v \in playerVotes[p] => v.by # v.slot /\ \E m \in net : IsVoteOf(m, v)

OneVoteEach ==
    \A p \in Players, v, w \in Vote :
        /\ v \in playerVotes[p] /\ w \in playerVotes[p]
        /\ v.slot = w.slot /\ v.by = w.by
        => v = w

VoteInv ==
    /\ playerVotes \in [Players -> SUBSET Vote]
    /\ Ballots /\ WasCast /\ OneVoteEach

(* Nobody has voted initially.                                             *)
LEMMA VoteInvInit == Init => VoteInv
BY DEF Init, VoteInv, Ballots, WasCast, OneVoteEach

(* Votes may be forgotten and other messages sent.                          *)
LEMMA FewerVotes ==
    ASSUME VoteInv, playerVotes' \in [Players -> SUBSET Vote],
           \A p \in Players : playerVotes'[p] \subseteq playerVotes[p],
           net \subseteq net', \A m \in net' \ net : m.type # "VOTE"
    PROVE  VoteInv'
BY DEF VoteInv, Ballots, WasCast, OneVoteEach, IsVoteOf

(* Whoever votes, or hears of a vote, replaces that player's vote against   *)
(* that other.                                                              *)
LEMMA VoteAdded ==
    ASSUME VoteInv, NEW p \in Players, NEW v \in Vote, v.by # v.slot,
           playerVotes' = [playerVotes EXCEPT ![p] = WithVote(p, v)],
           net \subseteq net', Ballots', \E m \in net' : IsVoteOf(m, v)
    PROVE  VoteInv'
<1>1. /\ playerVotes' \in [Players -> SUBSET Vote]
      /\ \A r \in Players : playerVotes'[r] \subseteq playerVotes[r] \union {v}
      /\ playerVotes'[p] = WithVote(p, v)
      /\ \A r \in Players \ {p} : playerVotes'[r] = playerVotes[r]
  BY DEF VoteInv, WithVote
<1>2. WasCast'
  BY <1>1 DEF VoteInv, WasCast, IsVoteOf
<1>3. OneVoteEach'
  BY <1>1 DEF VoteInv, OneVoteEach, WithVote
<1>4. QED
  BY <1>1, <1>2, <1>3 DEF VoteInv

(* A player votes against another in his own frame.                        *)
LEMMA VoteForStep ==
    ASSUME FrameInv, VoteInv, NEW p \in Players, NEW q \in Players,
           VoteForPlayerDisconnect(p, q)
    PROVE  VoteInv'
<1> DEFINE v == [slot |-> q, by |-> p, frame |-> frame[p]]
           m == Msg("VOTE", p, connected[p], frame[p], {q})
<1>1. v \in Vote /\ p # q /\ frame[p] \in Nat
  BY DEF Vote, FrameInv, Shape, NotToOneself, VoteForPlayerDisconnect
<1>2. net' = net \union {m} /\ playerVotes' = [playerVotes EXCEPT ![p] = WithVote(p, v)]
  BY DEF VoteForPlayerDisconnect
<1>3. m.type = "VOTE" /\ m.from = p /\ m.slots = {q} /\ m.frame = frame[p]
  BY DEF Msg
<1>4. Ballots'
  BY <1>1, <1>2, <1>3 DEF VoteInv, Ballots
<1>5. \E x \in net' : IsVoteOf(x, v)
  BY <1>2, <1>3 DEF IsVoteOf
<1>6. QED
  BY <1>1, <1>2, <1>4, <1>5, VoteAdded

(* A vote that arrives is the one that was sent.                           *)
LEMMA ReceiveVoteStep ==
    ASSUME VoteInv, NEW p \in Players, NEW m \in net, ReceiveVote(p, m)
    PROVE  VoteInv'
<1>1. PICK q \in m.slots : playerVotes' = [playerVotes EXCEPT
              ![p] = WithVote(p, [slot |-> q, by |-> m.from, frame |-> m.frame])]
  BY DEF ReceiveVote
<1> DEFINE v == [slot |-> q, by |-> m.from, frame |-> m.frame]
<1>2. m.from \in Players /\ m.frame \in Nat /\ q \in Players \ {m.from} /\ m.slots = {q}
  BY <1>1 DEF VoteInv, Ballots, ReceiveVote
<1>3. v \in Vote /\ v.by # v.slot /\ IsVoteOf(m, v)
  BY <1>2 DEF Vote, IsVoteOf, ReceiveVote
<1>4. net' = net /\ Ballots'
  BY DEF ReceiveVote, VoteInv, Ballots
<1>5. QED
  BY <1>1, <1>3, <1>4, VoteAdded

(* Every step keeps the invariant of the votes.                            *)
LEMMA VoteInvStep == FrameInv /\ VoteInv /\ [Next]_vars => VoteInv'
<1> SUFFICES ASSUME FrameInv, VoteInv, [Next]_vars PROVE VoteInv'
  OBVIOUS
<1> USE DEF VoteInv
<1>1. ASSUME NEW p \in Players, RunFrame(p)
      PROVE  VoteInv'
  <2>1. /\ net \subseteq net' /\ \A m \in net' \ net : m.type # "VOTE"
        /\ playerVotes' \in [Players -> SUBSET Vote]
        /\ \A r \in Players : playerVotes'[r] \subseteq playerVotes[r]
    BY <1>1 DEF RunFrame, Msg
  <2>2. QED
    BY <2>1, FewerVotes
<1>2. ASSUME NEW p \in Players, Notify(p)
      PROVE  VoteInv'
  <2>1. net \subseteq net' /\ \A m \in net' \ net : m.type # "VOTE"
    BY <1>2 DEF Notify, Msg, FrameData
  <2>2. /\ playerVotes' \in [Players -> SUBSET Vote]
        /\ \A r \in Players : playerVotes'[r] \subseteq playerVotes[r]
    BY <1>2 DEF Notify, VotesAfter
  <2>3. QED
    BY <2>1, <2>2, FewerVotes
<1>3. ASSUME NEW p \in Players, NEW q \in Players,
             TurnOnScreen(p) \/ QuitGame(p) \/ Crash(p) \/ Disconnect(p, q)
             \/ Hear(p, q) \/ TimeOut(p, q) \/ KeepAlive(p, q)
      PROVE  VoteInv'
  <2>1. playerVotes' = playerVotes
    BY <1>3 DEF TurnOnScreen, QuitGame, Crash, Disconnect, Hear, TimeOut, KeepAlive
  <2>2. net \subseteq net' /\ \A m \in net' \ net : m.type # "VOTE"
    <3>1. CASE QuitGame(p) \/ Disconnect(p, q)
      <4>1. \E to, f, slots : net' = net \union {Msg("PLAYER", p, to, f, slots)}
        BY <3>1, Zenon DEF QuitGame, Disconnect
      <4>2. QED
        BY <4>1 DEF Msg
    <3>2. CASE TurnOnScreen(p) \/ Crash(p) \/ Hear(p, q) \/ TimeOut(p, q) \/ KeepAlive(p, q)
      BY <3>2 DEF TurnOnScreen, Crash, Hear, TimeOut, KeepAlive
    <3>3. QED
      BY <1>3, <3>1, <3>2
  <2>3. QED
    BY <2>1, <2>2, FewerVotes
<1>4. ASSUME NEW p \in Players, NEW q \in Players, Receive(p, q) \/ ReceiveVotes(p, q)
      PROVE  VoteInv'
  <2>1. PICK m \in net :
           \/ ReceiveFrame(p, m) \/ ReceiveData(p, m) \/ ReceivePlayer(p, m)
           \/ ReceiveVote(p, m) \/ ReceiveScreenOff(p, m)
    BY <1>4 DEF Receive, ReceiveVotes
  <2>2. CASE ReceiveFrame(p, m) \/ ReceiveScreenOff(p, m)
    <3>1. net \subseteq net' /\ \A x \in net' \ net : x.type # "VOTE"
      BY <2>2 DEF ReceiveFrame, ReceiveScreenOff, FrameData, Msg
    <3>2. /\ playerVotes' \in [Players -> SUBSET Vote]
          /\ \A r \in Players : playerVotes'[r] \subseteq playerVotes[r]
      BY <2>2 DEF ReceiveFrame, ReceiveScreenOff, VotesAfter
    <3>3. QED
      BY <3>1, <3>2, FewerVotes
  <2>3. CASE ReceiveData(p, m) \/ ReceivePlayer(p, m)
    <3>1. playerVotes' = playerVotes /\ net' = net
      BY <2>3 DEF ReceiveData, ReceivePlayer
    <3>2. QED
      BY <3>1, FewerVotes
  <2>4. QED
    BY <2>1, <2>2, <2>3, ReceiveVoteStep
<1>5. CASE UNCHANGED vars
  BY <1>5, FewerVotes DEF vars
<1>6. QED
  BY <1>1, <1>2, <1>3, <1>4, <1>5, VoteForStep DEF Next

(* As many votes as there are others means that each of them voted.         *)
LEMMA AllVoted ==
    ASSUME FrameInv, VoteInv, NEW p \in Players, NEW q \in connected[p],
           Everybody(p) = Players, VotedOut(p, q), NEW i \in Players \ {q}
    PROVE  \E v \in VotesFor(p, q) : v.by = i
<1> DEFINE votes == VotesFor(p, q)
           others == Players \ {q}
           by == [v \in votes |-> v.by]
<1>1. q \in Players /\ connected[p] = Players \ {p}
  BY DEF FrameInv, Shape, NotToOneself, Everybody
<1>2. /\ IsFiniteSet(others) /\ Cardinality(others) = Cardinality(connected[p])
      /\ Cardinality(others) \in Nat
  BY <1>1, PlayersAssumption, FS_RemoveElement, FS_CardinalityType
<1>3. votes \subseteq Vote /\ \A v \in votes : v \in playerVotes[p] /\ v.slot = q
  BY DEF VotesFor, VoteInv
<1>4. \A v \in votes : v.by \in others
  BY <1>3 DEF VoteInv, WasCast, Vote
<1>5. by \in [votes -> others]
  BY <1>4
<1>6. \A v, w \in votes : v.by = w.by => v = w
  BY <1>3 DEF VoteInv, OneVoteEach
<1>7. by \in Injection(votes, others)
  BY <1>5, <1>6 DEF Injection, IsInjective
<1>8. /\ IsFiniteSet(votes) /\ Cardinality(votes) <= Cardinality(others)
      /\ Cardinality(votes) = Cardinality(others) <=> by \in Surjection(votes, others)
  BY <1>2, <1>7, FS_Injection
<1>9. Cardinality(votes) = Cardinality(others)
  BY <1>2, <1>8, FS_CardinalityType DEF VotedOut
<1>10. by \in Surjection(votes, others)
  BY <1>8, <1>9
<1>11. PICK v \in votes : by[v] = i
  BY <1>10 DEF Surjection
<1>12. QED
  BY <1>11

(* The first player to go who has not timed out goes by the votes of all    *)
(* others in the frame they wait in: isPlayerVotedOut, applyDisconnectVote. *)
THEOREM NobodyIsOustedByAFew == Spec => VotedOutByAll
<1>1. ASSUME FrameInv, VoteInv, [Next]_vars, NEW p \in Players, NEW q \in Players,
             Decides(p, q), q \notin timedOut[p], Everybody(p) = Players,
             NEW i \in Everybody(p) \ {q}
      PROVE  \E m \in net : /\ m.type = "VOTE" /\ m.from = i
                           /\ m.slots = {q} /\ m.frame = frame[p]
  <2>1. q \in connected[p] /\ VotedOut(p, q)
    BY <1>1, OnlyDisconnectDecides DEF Disconnect, Out
  <2>2. PICK v \in VotesFor(p, q) : v.by = i
    BY <1>1, <2>1, AllVoted
  <2>3. v \in Vote /\ v \in playerVotes[p] /\ v.slot = q /\ v.frame = frame[p]
    BY <1>1 DEF VotesFor, VoteInv
  <2>4. QED
    BY <1>1, <2>2, <2>3 DEF VoteInv, WasCast, IsVoteOf
<1>2. FrameInv /\ VoteInv /\ [Next]_vars =>
         [\A p, q \in Players :
            Decides(p, q) /\ q \notin timedOut[p] /\ Everybody(p) = Players =>
            \A i \in Everybody(p) \ {q} :
                \E m \in net : /\ m.type = "VOTE" /\ m.from = i
                              /\ m.slots = {q} /\ m.frame = frame[p]]_vars
  BY <1>1
<1>3. QED
  BY <1>2, FrameInvInit, FrameInvStep, VoteInvInit, VoteInvStep, PTL DEF Spec, VotedOutByAll

-----------------------------------------------------------------------------
(* Types, and what a machine has of the others' commands *)

(* A set of numbers that is not empty has a least,                          *)
LEMMA Least ==
    ASSUME NEW S, S \subseteq Nat, S # {}
    PROVE  Min(S) \in S
<1>1. IsWellFoundedOn(OpToRel(<, Nat), Nat)
  BY NatLessThanWellFounded
<1>2. PICK n \in S : \A k \in S : <<k, n>> \notin OpToRel(<, Nat)
  BY <1>1, WFMin
<1>3. n \in Nat /\ \A k \in S : k \in Nat /\ ~(k < n)
  BY <1>2 DEF OpToRel
<1>4. \A k \in S : n <= k
  BY <1>3
<1>5. QED
  BY <1>2, <1>4 DEF Min

(* and one that has a bound has a greatest.                                 *)
LEMMA Greatest ==
    ASSUME NEW N \in Nat, NEW S, S \subseteq 0 .. N, S # {}
    PROVE  Max(S) \in S
<1> DEFINE T == {k \in Nat : N - k \in S}
           n == Min(T)
<1>1. PICK x \in S : TRUE
  OBVIOUS
<1>2. N - x \in T /\ T \subseteq Nat
  BY <1>1
<1>3. n \in T
  <2> HIDE DEF T
  <2>1. QED
    BY <1>2, Least
<1>4. \A k \in T : n <= k
  <2>1. IsWellFoundedOn(OpToRel(<, Nat), Nat)
    BY NatLessThanWellFounded
  <2> HIDE DEF T
  <2>2. PICK l \in T : \A k \in T : <<k, l>> \notin OpToRel(<, Nat)
    BY <1>2, <2>1, WFMin
  <2>3. l \in Nat /\ \A k \in T : k \in Nat /\ ~(k < l)
    BY <1>2, <2>2 DEF OpToRel
  <2>4. \A k \in T : l <= k
    BY <2>3
  <2>5. QED
    BY <2>2, <2>4 DEF Min
<1> HIDE DEF n
<1>5. N - n \in S /\ \A y \in S : N - y \in T /\ y \in Nat /\ y <= N - n
  BY <1>3, <1>4
<1>6. QED
  BY <1>5 DEF Max

(* What a machine has of a player's commands the player has given; it has   *)
(* those of all it is connected to up to the frame it ran last, and what it *)
(* sends to who fell behind is no more than that.                           *)
HeardIsGiven == \A p, q \in Players : heard[p][q] <= Announced(q)
RunIsHeard == \A p \in Players : \A q \in connected[p] : heard[p][q] >= frame[p] - 1
DataIsGiven ==
    \A m \in net : m.type = "DATA" =>
        m.frame \in 0 .. LastFrame - 1 /\ \A q \in m.slots : m.frame <= Announced(q)

HeardInv ==
    /\ frame \in [Players -> 1 .. LastFrame]
    /\ heard \in [Players -> [Players -> 0 .. LastFrame - 1]]
    /\ timedOut \in [Players -> SUBSET Players] /\ net \subseteq Message
    /\ HeardIsGiven /\ RunIsHeard /\ DataIsGiven

LEMMA HeardInvInit == Init => HeardInv
<1> SUFFICES ASSUME Init PROVE HeardInv
  OBVIOUS
<1>1. 1 \in 1 .. LastFrame /\ 0 \in 0 .. LastFrame - 1 /\ RunAhead \in Nat
  BY FrameAssumption
<1>2. /\ frame \in [Players -> 1 .. LastFrame]
      /\ heard \in [Players -> [Players -> 0 .. LastFrame - 1]]
      /\ timedOut \in [Players -> SUBSET Players] /\ net \subseteq Message
  BY <1>1 DEF Init
<1>3. HeardIsGiven
  BY FrameAssumption DEF Init, HeardIsGiven, Announced
<1>4. RunIsHeard /\ DataIsGiven
  BY DEF Init, RunIsHeard, DataIsGiven
<1>5. QED
  BY <1>2, <1>3, <1>4 DEF HeardInv

LEMMA HeardTypes ==
    ASSUME HeardInv, NEW p \in Players, NEW q \in Players
    PROVE  /\ frame[p] \in Nat /\ frame[p] >= 1 /\ frame[p] <= LastFrame /\ LastFrame \in Nat
           /\ heard[p][q] \in Nat /\ heard[p][q] <= LastFrame - 1
           /\ RunAhead \in Nat /\ RunAhead >= 1
           /\ Announced(p) \in Nat /\ Announced(p) >= frame[p]
BY FrameAssumption DEF HeardInv, Announced

(* Steps that run no frame, and send no frame data.                         *)
LEMMA HeardStays ==
    ASSUME HeardInv, UNCHANGED <<frame, heard>>,
           \A p \in Players : connected'[p] \subseteq connected[p],
           timedOut' \in [Players -> SUBSET Players], net' \subseteq Message,
           \A m \in net' \ net : m.type # "DATA"
    PROVE  HeardInv'
BY DEF HeardInv, HeardIsGiven, RunIsHeard, DataIsGiven, Announced

(* The commands p has when he sends what he has to i.                       *)
LEMMA FrameDataGiven ==
    ASSUME HeardInv, FrameInv, NEW p \in Players, NEW i \in Players
    PROVE  /\ FrameData(p, i) \in Message
           /\ FrameData(p, i).frame \in 0 .. LastFrame - 1
           /\ \A q \in FrameData(p, i).slots : FrameData(p, i).frame <= Announced(q)
<1> DEFINE m == FrameData(p, i)
<1>1. /\ m.type = "DATA" /\ m.from = p /\ m.to = {i} /\ m.frame = frame[p] - 1
      /\ m.slots = Everybody(p) \ {i}
  BY DEF FrameData, Msg
<1>2. frame[p] - 1 \in 0 .. LastFrame - 1
  BY HeardTypes
<1>3. Everybody(p) \subseteq Players
  BY DEF Everybody, FrameInv, Shape
<1>4. m \in Message
  BY <1>2, <1>3 DEF FrameData, Msg, Message
<1>5. ASSUME NEW q \in Everybody(p) PROVE frame[p] - 1 <= Announced(q)
  <2>1. CASE q = p
    BY <2>1, HeardTypes
  <2>2. CASE q \in connected[p]
    <3>1. heard[p][q] >= frame[p] - 1 /\ heard[p][q] <= Announced(q)
      BY <1>3, <1>5, <2>2 DEF HeardInv, RunIsHeard, HeardIsGiven
    <3>2. heard[p][q] \in Nat /\ frame[p] \in Nat /\ Announced(q) \in Nat
      BY <1>3, <1>5, HeardTypes
    <3>3. QED
      BY <3>1, <3>2
  <2>3. QED
    BY <1>5, <2>1, <2>2 DEF Everybody
<1> HIDE DEF m
<1>6. /\ m \in Message /\ m.frame \in 0 .. LastFrame - 1
      /\ \A q \in m.slots : m.frame <= Announced(q)
  BY <1>1, <1>2, <1>4, <1>5
<1>7. QED
  BY <1>6 DEF m

(* So may frame data of p be sent.                                          *)
LEMMA FrameDataStep ==
    ASSUME HeardInv, FrameInv, UNCHANGED <<frame, heard, connected, timedOut>>,
           NEW p \in Players,
           \A m \in net' \ net : \/ m \in Message /\ m.type # "DATA"
                                 \/ \E i \in Players : m = FrameData(p, i)
    PROVE  HeardInv'
<1>1. net' \subseteq Message
  BY FrameDataGiven DEF HeardInv
<1>2. DataIsGiven'
  <2> SUFFICES ASSUME NEW m \in net', m.type = "DATA"
               PROVE  /\ m.frame \in 0 .. LastFrame - 1
                      /\ \A q \in m.slots : m.frame <= Announced(q)
    BY DEF DataIsGiven, Announced
  <2>1. CASE m \in net
    BY <2>1 DEF HeardInv, DataIsGiven
  <2>2. CASE m \notin net
    BY <2>2, FrameDataGiven
  <2>3. QED
    BY <2>1, <2>2
<1>3. HeardIsGiven' /\ RunIsHeard'
  BY DEF HeardInv, HeardIsGiven, RunIsHeard, Announced
<1>4. QED
  BY <1>1, <1>2, <1>3 DEF HeardInv

(* A frame runs when the commands of all for it are there.                  *)
LEMMA RunFrameHeard ==
    ASSUME HeardInv, FrameInv, NEW p \in Players, RunFrame(p)
    PROVE  HeardInv'
<1>1. /\ frame' = [frame EXCEPT ![p] = @ + 1] /\ UNCHANGED <<heard, connected>>
      /\ Ready(p) /\ frame[p] # LastFrame /\ timedOut' = [timedOut EXCEPT ![p] = {}]
  BY DEF RunFrame, Stalls
<1>2. frame' \in [Players -> 1 .. LastFrame] /\ timedOut' \in [Players -> SUBSET Players]
  <2>1. frame[p] + 1 \in 1 .. LastFrame
    BY <1>1, HeardTypes
  <2>2. QED
    BY <1>1, <2>1 DEF HeardInv
<1>3. \A q \in Players : Announced(q) <= Announced(q)'
  BY <1>1, HeardTypes, FrameAssumption DEF Announced, HeardInv
<1>4. \A q \in Players : Announced(q) \in Nat /\ Announced(q)' \in Nat
  BY <1>2, FrameAssumption DEF Announced, HeardInv
<1>5. HeardIsGiven'
  <2> SUFFICES ASSUME NEW r \in Players, NEW q \in Players PROVE heard[r][q] <= Announced(q)'
    BY <1>1 DEF HeardIsGiven
  <2>1. heard[r][q] <= Announced(q) /\ heard[r][q] \in Nat
    BY HeardTypes DEF HeardInv, HeardIsGiven
  <2>2. QED
    BY <1>3, <1>4, <2>1
<1>6. RunIsHeard'
  <2> SUFFICES ASSUME NEW r \in Players, NEW q \in connected[r]
               PROVE  heard[r][q] >= frame'[r] - 1
    BY <1>1 DEF RunIsHeard
  <2>1. CASE r = p
    BY <1>1, <2>1, HeardTypes DEF Ready, HeardInv
  <2>2. CASE r # p
    BY <1>1, <2>2 DEF HeardInv, RunIsHeard
  <2>3. QED
    BY <2>1, <2>2
<1>7. \A m \in net' \ net : m = Msg("SCREENOFF", p, connected[p], frame[p], {})
  BY DEF RunFrame
<1>8. \A m \in net' : m \in Message /\ (m.type = "DATA" => m \in net)
  <2>1. Msg("SCREENOFF", p, connected[p], frame[p], {}) \in Message
    BY HeardTypes DEF Msg, Message, FrameInv, Shape
  <2>2. Msg("SCREENOFF", p, connected[p], frame[p], {}).type # "DATA"
    BY DEF Msg
  <2>3. QED
    BY <1>7, <2>1, <2>2 DEF HeardInv
<1>9. DataIsGiven'
  <2> SUFFICES ASSUME NEW m \in net', m.type = "DATA"
               PROVE  /\ m.frame \in 0 .. LastFrame - 1
                      /\ \A q \in m.slots : m.frame <= Announced(q)'
    BY DEF DataIsGiven
  <2>1. /\ m \in Message /\ m.frame \in 0 .. LastFrame - 1 /\ LastFrame \in Nat
        /\ \A q \in m.slots : m.frame <= Announced(q)
    BY <1>8, FrameAssumption DEF HeardInv, DataIsGiven
  <2>2. m.slots \subseteq Players
    BY <2>1 DEF Message
  <2>3. QED
    BY <1>3, <1>4, <2>1, <2>2
<1>10. QED
  BY <1>1, <1>2, <1>5, <1>6, <1>8, <1>9 DEF HeardInv

(* More commands of q arrive than p had, but not more than are under way.   *)
LEMMA HearHeard ==
    ASSUME HeardInv, FrameInv, NEW p \in Players, NEW q \in Players, Hear(p, q)
    PROVE  HeardInv'
<1> DEFINE r == PacketRouter(q)
<1>1. r \in Players
  <2>1. Everybody(q) \subseteq Players /\ Everybody(q) # {}
    BY DEF Everybody, FrameInv, Shape
  <2>2. Min(Everybody(q)) \in Everybody(q)
    BY <2>1, PlayersAssumption, Least
  <2>3. QED
    BY <2>1, <2>2 DEF PacketRouter
<1>2. Reaches(q, p) <= Announced(q) /\ Reaches(q, p) \in Nat
  BY <1>1, HeardTypes DEF Reaches, HeardInv, HeardIsGiven
<1>3. /\ heard' = [heard EXCEPT ![p][q] = @ + 1] /\ heard[p][q] + 1 < LastFrame
      /\ heard[p][q] < Reaches(q, p)
      /\ UNCHANGED <<frame, connected, timedOut, net>>
  BY DEF Hear, flags
<1>4. heard[p][q] \in Nat /\ Announced(q) \in Nat /\ LastFrame \in Nat
  BY HeardTypes
<1>5. heard[p][q] + 1 \in 0 .. LastFrame - 1 /\ heard[p][q] + 1 <= Announced(q)
  BY <1>2, <1>3, <1>4
<1>6. /\ heard' \in [Players -> [Players -> 0 .. LastFrame - 1]]
      /\ heard'[p][q] = heard[p][q] + 1
      /\ \A s, i \in Players : s # p \/ i # q => heard'[s][i] = heard[s][i]
  BY <1>3, <1>5 DEF HeardInv
<1>7. HeardIsGiven'
  BY <1>3, <1>5, <1>6 DEF HeardInv, HeardIsGiven, Announced
<1>8. RunIsHeard'
  <2> SUFFICES ASSUME NEW s \in Players, NEW i \in connected[s]
               PROVE  heard'[s][i] >= frame[s] - 1
    BY <1>3 DEF RunIsHeard
  <2>1. i \in Players /\ heard[s][i] >= frame[s] - 1
    BY DEF HeardInv, RunIsHeard, FrameInv, Shape
  <2>2. QED
    BY <1>4, <1>6, <2>1, HeardTypes
<1>9. QED
  BY <1>3, <1>6, <1>7, <1>8 DEF HeardInv, DataIsGiven, Announced

(* What who fell behind is sent, its givers have given.                     *)
LEMMA DataHeard ==
    ASSUME HeardInv, FrameInv, NEW p \in Players, NEW m \in net, ReceiveData(p, m)
    PROVE  HeardInv'
<1> DEFINE new(q) == IF q \in m.slots \intersect connected[p] /\ heard[p][q] < m.frame
                     THEN m.frame ELSE heard[p][q]
<1>1. /\ heard' = [heard EXCEPT ![p] = [q \in Players |-> new(q)]]
      /\ UNCHANGED <<frame, connected, timedOut, net>>
  BY DEF ReceiveData, flags
<1>2. /\ m.frame \in 0 .. LastFrame - 1 /\ \A q \in m.slots : m.frame <= Announced(q)
  BY DEF ReceiveData, HeardInv, DataIsGiven
<1>3. \A q \in Players : /\ new(q) \in 0 .. LastFrame - 1 /\ new(q) <= Announced(q)
                         /\ new(q) >= heard[p][q]
  <2> TAKE q \in Players
  <2>1. heard[p][q] \in 0 .. LastFrame - 1 /\ heard[p][q] <= Announced(q)
    BY DEF HeardInv, HeardIsGiven
  <2>2. QED
    BY <1>2, <2>1, FrameAssumption
<1>4. /\ \A q \in Players : heard'[p][q] = new(q)
      /\ \A s \in Players \ {p} : heard'[s] = heard[s]
  BY <1>1 DEF HeardInv
<1> HIDE DEF new
<1>5. heard' \in [Players -> [Players -> 0 .. LastFrame - 1]]
  BY <1>1, <1>3 DEF HeardInv
<1>6. HeardIsGiven'
  BY <1>1, <1>3, <1>4 DEF HeardInv, HeardIsGiven, Announced
<1>7. RunIsHeard'
  <2> SUFFICES ASSUME NEW s \in Players, NEW i \in connected[s]
               PROVE  heard'[s][i] >= frame[s] - 1
    BY <1>1 DEF RunIsHeard
  <2>1. i \in Players /\ heard[s][i] >= frame[s] - 1
    BY DEF HeardInv, RunIsHeard, FrameInv, Shape
  <2>2. heard'[s][i] >= heard[s][i] /\ heard'[s][i] \in Nat
    BY <1>3, <1>4, <1>5, <2>1, HeardTypes, FrameAssumption
  <2>3. QED
    BY <2>1, <2>2, HeardTypes
<1>8. QED
  BY <1>1, <1>5, <1>6, <1>7 DEF HeardInv, DataIsGiven, Announced

(* What the screen says is of the types of its messages.                    *)
LEMMA NotifyHeard ==
    ASSUME HeardInv, FrameInv, NEW p \in Players, Notify(p)
    PROVE  HeardInv'
<1> DEFINE told == Msg("FRAME", p, connected[p], frame[p], {})
<1>1. told \in Message /\ told.type # "DATA"
  BY HeardTypes DEF Msg, Message, FrameInv, Shape
<1>2. InGame(p) \subseteq Players
  BY DEF InGame, Everybody, FrameInv, Shape
<1>3. \A m \in net' \ net : m = told \/ \E i \in Players : m = FrameData(p, i)
  BY <1>2 DEF Notify
<1>4. UNCHANGED <<frame, heard, connected, timedOut>>
  BY DEF Notify, game
<1> HIDE DEF told
<1>5. QED
  BY <1>1, <1>3, <1>4, FrameDataStep

LEMMA ReceiveHeard ==
    ASSUME HeardInv, FrameInv, NEW p \in Players, NEW q \in Players,
           Receive(p, q) \/ ReceiveVotes(p, q)
    PROVE  HeardInv'
<1>1. PICK m \in net :
         \/ ReceiveFrame(p, m) \/ ReceiveData(p, m) \/ ReceivePlayer(p, m)
         \/ ReceiveVote(p, m) \/ ReceiveScreenOff(p, m)
  BY DEF Receive, ReceiveVotes
<1>2. m.from \in Players
  BY DEF HeardInv, Message
<1>3. CASE ReceiveFrame(p, m)
  <2>1. UNCHANGED <<frame, heard, connected, timedOut>>
    BY <1>3 DEF ReceiveFrame, game, flags
  <2>2. \A x \in net' \ net : x = FrameData(p, m.from)
    BY <1>3 DEF ReceiveFrame
  <2>3. QED
    BY <1>2, <2>1, <2>2, FrameDataStep
<1>4. CASE ReceivePlayer(p, m) \/ ReceiveVote(p, m) \/ ReceiveScreenOff(p, m)
  <2>1. UNCHANGED <<frame, heard, timedOut, net>>
    BY <1>4 DEF ReceivePlayer, ReceiveVote, ReceiveScreenOff, game, flags
  <2>2. \A r \in Players : connected'[r] \subseteq connected[r]
    BY <1>4 DEF ReceivePlayer, ReceiveVote, ReceiveScreenOff, game, FrameInv, Shape
  <2>3. QED
    BY <2>1, <2>2, HeardStays DEF HeardInv
<1>5. QED
  BY <1>1, <1>3, <1>4, DataHeard

LEMMA DisconnectHeard ==
    ASSUME HeardInv, FrameInv, NEW p \in Players, NEW i \in Players, Disconnect(p, i)
    PROVE  HeardInv'
<1> DEFINE S == {disconnectFrames[p][q] : q \in Players}
           m == Msg("PLAYER", p, connected[p], Max(S), {i})
<1>1. S \subseteq 0 .. LastFrame /\ S # {} /\ LastFrame \in Nat
  <2>1. \A q \in Players : disconnectFrames[p][q] \in 0 .. LastFrame
    <3> TAKE q \in Players
    <3>1. disconnectFrames[p][q] \in Nat /\ disconnectFrames[p][q] <= frame[q]
      BY DEF FrameInv, Shape, BeliefIsPast
    <3>2. QED
      BY <3>1, HeardTypes
  <2>2. QED
    BY <2>1, FrameAssumption
<1>2. Max(S) \in Nat
  <2> HIDE DEF S
  <2>1. Max(S) \in S
    BY <1>1, Greatest
  <2>2. \A x \in S : x \in Nat
    BY <1>1
  <2>3. QED
    BY <2>1, <2>2
<1> HIDE DEF S
<1>3. m \in Message /\ m.type # "DATA"
  BY <1>2 DEF Msg, Message, FrameInv, Shape
<1>4. net' = net \union {m} /\ UNCHANGED <<frame, heard, timedOut>>
  BY DEF Disconnect, flags, S
<1>5. \A r \in Players : connected'[r] \subseteq connected[r]
  BY DEF Disconnect, FrameInv, Shape
<1> HIDE DEF m
<1>6. QED
  BY <1>3, <1>4, <1>5, HeardStays DEF HeardInv

LEMMA QuitHeard ==
    ASSUME HeardInv, FrameInv, NEW p \in Players, QuitGame(p)
    PROVE  HeardInv'
<1> DEFINE m == Msg("PLAYER", p, connected[p], frame[p], {p})
<1>1. m \in Message /\ m.type # "DATA"
  BY HeardTypes DEF Msg, Message, FrameInv, Shape
<1>2. net' = net \union {m} /\ UNCHANGED <<frame, heard, connected, timedOut>>
  BY DEF QuitGame, flags
<1> HIDE DEF m
<1>3. QED
  BY <1>1, <1>2, HeardStays DEF HeardInv

LEMMA VoteHeard ==
    ASSUME HeardInv, FrameInv, NEW p \in Players, NEW q \in Players,
           VoteForPlayerDisconnect(p, q)
    PROVE  HeardInv'
<1> DEFINE m == Msg("VOTE", p, connected[p], frame[p], {q})
<1>1. m \in Message /\ m.type # "DATA"
  BY HeardTypes DEF Msg, Message, FrameInv, Shape
<1>2. net' = net \union {m} /\ UNCHANGED <<frame, heard, connected, timedOut>>
  BY DEF VoteForPlayerDisconnect, game, flags
<1> HIDE DEF m
<1>3. QED
  BY <1>1, <1>2, HeardStays DEF HeardInv

(* The steps of the clock and of the keep-alives send nothing.              *)
LEMMA QuietHeard ==
    ASSUME HeardInv, FrameInv, NEW p \in Players, NEW q \in Players,
           TurnOnScreen(p) \/ Crash(p) \/ TimeOut(p, q) \/ KeepAlive(p, q) \/ UNCHANGED vars
    PROVE  HeardInv'
<1>1. UNCHANGED <<frame, heard, connected, net>>
  BY DEF TurnOnScreen, Crash, TimeOut, KeepAlive, vars, game
<1>2. timedOut' \in [Players -> SUBSET Players]
  BY DEF TurnOnScreen, Crash, TimeOut, KeepAlive, vars, game, flags, HeardInv
<1>3. QED
  BY <1>1, <1>2, HeardStays DEF HeardInv

LEMMA HeardInvStep == FrameInv /\ HeardInv /\ [Next]_vars => HeardInv'
<1> SUFFICES ASSUME FrameInv, HeardInv, [Next]_vars PROVE HeardInv'
  OBVIOUS
<1>1. ASSUME NEW p \in Players,
             RunFrame(p) \/ TurnOnScreen(p) \/ Notify(p) \/ QuitGame(p) \/ Crash(p)
      PROVE  HeardInv'
  BY <1>1, RunFrameHeard, NotifyHeard, QuitHeard, QuietHeard
<1>2. ASSUME NEW p \in Players, NEW q \in Players,
             \/ Hear(p, q) \/ TimeOut(p, q) \/ KeepAlive(p, q) \/ Disconnect(p, q)
             \/ VoteForPlayerDisconnect(p, q) \/ Receive(p, q) \/ ReceiveVotes(p, q)
      PROVE  HeardInv'
  BY <1>2, HearHeard, QuietHeard, DisconnectHeard, VoteHeard, ReceiveHeard
<1>3. CASE UNCHANGED vars
  <2>1. UNCHANGED <<frame, heard, connected, timedOut, net>>
    BY <1>3 DEF vars, game, flags
  <2>2. QED
    BY <2>1, HeardStays DEF HeardInv
<1>4. QED
  BY <1>1, <1>2, <1>3 DEF Next

(* Every variable keeps its type, and whatever the screen has those who are *)
(* ahead send to those behind, nobody has commands of a player that he has  *)
(* not given (sendFrameDataToPlayer, allCommandsReady).                     *)
THEOREM ScreenTypes == Spec => []TypeOK
<1>1. FrameInv /\ VoteInv /\ HeardInv => TypeOK
  <2> SUFFICES ASSUME FrameInv, VoteInv, HeardInv PROVE TypeOK
    OBVIOUS
  <2>1. disconnectFrames \in [Players -> [Players -> 0 .. LastFrame]]
    <3>1. \A p, q \in Players : disconnectFrames[p][q] \in 0 .. LastFrame
      <4> TAKE p, q \in Players
      <4>1. disconnectFrames[p][q] \in Nat /\ disconnectFrames[p][q] <= frame[q]
        BY DEF FrameInv, Shape, BeliefIsPast
      <4>2. QED
        BY <4>1, HeardTypes
    <3>2. QED
      BY <3>1 DEF FrameInv, Shape
  <2>2. QED
    BY <2>1 DEF FrameInv, Shape, VoteInv, HeardInv, HeardIsGiven, TypeOK
<1>2. QED
  BY <1>1, FrameInvInit, FrameInvStep, VoteInvInit, VoteInvStep, HeardInvInit, HeardInvStep,
     PTL DEF Spec

=============================================================================
