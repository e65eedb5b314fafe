---------------------------- MODULE AgreedFrames ----------------------------
(***************************************************************************)
(* What lockstep promises, without messages, rings or run ahead: players   *)
(* give commands for frames they have not closed yet, and a machine runs a *)
(* frame, with every command given for it, once all who may still give     *)
(* commands have closed it.                                                *)
(***************************************************************************)
EXTENDS Integers

CONSTANT Players

VARIABLES
    given,      \* the commands given so far
    sealed,     \* sealed[p]: the last frame p has closed
    open,       \* the players who may still give commands
    frame,      \* the next frame of every machine
    log         \* the <<frame, command>> pairs every machine has run

vars == <<given, sealed, open, frame, log>>

Init ==
    /\ given = {}
    /\ sealed \in [Players -> Nat]
    /\ open = Players
    /\ frame = [p \in Players |-> 0]
    /\ log = [p \in Players |-> {}]

CloseMore(p) ==
    /\ sealed' = [sealed EXCEPT ![p] = sealed'[p]]
    /\ sealed[p] <= sealed'[p] /\ sealed'[p] \in Nat

(* p gives commands for frames he has not closed, and may close some or     *)
(* leave for good.                                                          *)
Give(p) ==
    /\ p \in open
    /\ given \subseteq given'
    /\ \A c \in given' \ given :
          c.playerID = p /\ c.executionFrame \in Nat /\ sealed[p] < c.executionFrame
    /\ CloseMore(p)
    /\ open' \in {open, open \ {p}}
    /\ UNCHANGED <<frame, log>>

GivenFor(f) == {c \in given : c.executionFrame = f}

(* p runs his next frame, which nobody can give a command for any more.     *)
Run(p) ==
    /\ \A q \in open : frame[p] <= sealed[q]
    /\ frame' = [frame EXCEPT ![p] = @ + 1]
    /\ log' = [log EXCEPT ![p] = @ \union {<<c.executionFrame, c>> : c \in GivenFor(frame[p])}]
    /\ CloseMore(p)
    /\ UNCHANGED <<given, open>>

Next == \E p \in Players : Give(p) \/ Run(p)

Spec == Init /\ [][Next]_vars

(* All machines agree: each has run what was given for the frames behind it.*)
Agreement ==
    \A p \in Players :
        log[p] = {<<c.executionFrame, c>> : c \in {d \in given : d.executionFrame < frame[p]}}

=============================================================================
