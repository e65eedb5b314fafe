------------------------- MODULE AgreedFrames_proofs -------------------------
(* Proof that the promise of lockstep is enough for agreement. *)
EXTENDS AgreedFrames, TLAPS

(* No machine is past the frames of a player who may still give commands.   *)
AgreedInv ==
    /\ sealed \in [Players -> Nat] /\ frame \in [Players -> Nat]
    /\ open \subseteq Players /\ DOMAIN log = Players /\ log = [p \in Players |-> log[p]]
    /\ \A c \in given : c.executionFrame \in Nat
    /\ \A p \in Players, q \in open : frame[p] <= sealed[q] + 1
    /\ Agreement

(* At the start nothing is given and nobody has run a frame.                *)
LEMMA AgreedInit == Init => AgreedInv
<1> SUFFICES ASSUME Init PROVE AgreedInv
  OBVIOUS
<1>1. \A p \in Players, q \in open : frame[p] <= sealed[q] + 1
  BY SMT DEF Init
<1>2. frame \in [Players -> Nat]
  BY SMT DEF Init
<1> QED
  BY <1>1, <1>2 DEF Init, AgreedInv, Agreement

(* A command is given above the frames any machine has run.                 *)
LEMMA AgreedGive ==
    ASSUME AgreedInv, NEW p \in Players, Give(p)
    PROVE  AgreedInv'
<1> USE DEF AgreedInv
<1>1. /\ sealed' \in [Players -> Nat] /\ sealed[p] <= sealed'[p]
      /\ \A q \in Players \ {p} : sealed'[q] = sealed[q]
  BY DEF Give, CloseMore
<1>2. /\ frame' = frame /\ log' = log /\ open' \subseteq open /\ p \in open
      /\ given \subseteq given'
  BY DEF Give
<1>3. \A c \in given' \ given : c.executionFrame \in Nat /\ sealed[p] < c.executionFrame
  BY DEF Give
<1>4. ASSUME NEW r \in Players, NEW q \in open'
      PROVE  frame'[r] <= sealed'[q] + 1
  <2>1. frame[r] <= sealed[q] + 1 /\ frame[r] \in Nat /\ q \in Players
    BY <1>2
  <2>2. sealed[q] \in Nat /\ sealed'[q] \in Nat /\ sealed[q] <= sealed'[q]
    BY <1>1, <2>1, SMT
  <2> QED
    BY <1>2, <2>1, <2>2, SMT
<1>5. ASSUME NEW r \in Players
      PROVE  {d \in given' : d.executionFrame < frame'[r]} =
             {d \in given : d.executionFrame < frame[r]}
  <2>1. frame[r] <= sealed[p] + 1 /\ frame[r] \in Nat /\ sealed[p] \in Nat
    BY <1>2
  <2>2. \A c \in given' \ given : ~(c.executionFrame < frame[r])
    BY <1>3, <2>1, SMT
  <2> QED
    BY <1>2, <2>2
<1>6. Agreement'
  BY <1>2, <1>5 DEF Agreement
<1>7. \A c \in given' : c.executionFrame \in Nat
  BY <1>3
<1> QED
  BY <1>1, <1>2, <1>4, <1>6, <1>7

(* Running a frame takes every command given for it.                        *)
LEMMA AgreedRun ==
    ASSUME AgreedInv, NEW p \in Players, Run(p)
    PROVE  AgreedInv'
<1> USE DEF AgreedInv
<1> DEFINE f == frame[p]
           ran == {<<c.executionFrame, c>> : c \in GivenFor(f)}
<1>1. /\ sealed' \in [Players -> Nat] /\ sealed[p] <= sealed'[p]
      /\ \A q \in Players \ {p} : sealed'[q] = sealed[q]
  BY DEF Run, CloseMore
<1>2. /\ given' = given /\ open' = open /\ f \in Nat
      /\ \A q \in open : f <= sealed[q]
  BY DEF Run
<1>3. /\ frame'[p] = f + 1 /\ \A r \in Players \ {p} : frame'[r] = frame[r]
      /\ frame' \in [Players -> Nat]
  <2>1. f + 1 \in Nat /\ frame' = [frame EXCEPT ![p] = f + 1]
    BY <1>2, SMT DEF Run
  <2> QED
    BY <2>1
<1>4. /\ log'[p] = log[p] \union ran /\ \A r \in Players \ {p} : log'[r] = log[r]
      /\ log' = [r \in Players |-> log'[r]] /\ DOMAIN log' = Players
  BY DEF Run
<1> HIDE DEF f
<1>5. ASSUME NEW r \in Players, NEW q \in open'
      PROVE  frame'[r] <= sealed'[q] + 1
  <2>1. frame[r] <= sealed[q] + 1 /\ frame[r] \in Nat /\ q \in Players /\ f <= sealed[q]
    BY <1>2
  <2>2. sealed[q] \in Nat /\ sealed'[q] \in Nat /\ sealed[q] <= sealed'[q]
    BY <1>1, <2>1, SMT
  <2>3. CASE r = p
    BY <1>2, <1>3, <2>1, <2>2, <2>3, SMT
  <2>4. CASE r # p
    BY <1>3, <2>1, <2>2, <2>4, SMT
  <2> QED
    BY <2>3, <2>4
<1>6. Agreement'
  <2> SUFFICES ASSUME NEW r \in Players
               PROVE  log'[r] = {<<c.executionFrame, c>> :
                                   c \in {d \in given : d.executionFrame < frame'[r]}}
    BY <1>2 DEF Agreement
  <2>1. log[r] = {<<c.executionFrame, c>> :
                    c \in {d \in given : d.executionFrame < frame[r]}}
    BY DEF Agreement
  <2>2. CASE r # p
    BY <1>3, <1>4, <2>1, <2>2
  <2>3. CASE r = p
    <3>1. {d \in given : d.executionFrame < f + 1} =
          {d \in given : d.executionFrame < f} \union GivenFor(f)
      BY <1>2, SMT DEF GivenFor
    <3> QED
      BY <1>3, <1>4, <2>1, <2>3, <3>1 DEF f
  <2> QED
    BY <2>2, <2>3
<1> QED
  BY <1>1, <1>2, <1>3, <1>4, <1>5, <1>6

(* If frames run only once they are closed, all machines agree.             *)
THEOREM AgreedFramesAgree == Spec => []Agreement
<1>1. AgreedInv /\ [Next]_vars => AgreedInv'
  <2> SUFFICES ASSUME AgreedInv, [Next]_vars PROVE AgreedInv'
    OBVIOUS
  <2>1. ASSUME NEW p \in Players, Give(p) PROVE AgreedInv'
    BY <2>1, AgreedGive
  <2>2. ASSUME NEW p \in Players, Run(p) PROVE AgreedInv'
    BY <2>2, AgreedRun
  <2>3. CASE UNCHANGED vars
    BY <2>3 DEF vars, AgreedInv, Agreement
  <2> QED
    BY <2>1, <2>2, <2>3 DEF Next
<1>2. AgreedInv => Agreement
  BY DEF AgreedInv
<1> QED
  BY <1>1, <1>2, AgreedInit, PTL DEF Spec

=============================================================================
