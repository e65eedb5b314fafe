--------------------------- MODULE CommandDelivery ---------------------------
(***************************************************************************)
(* What the queues of a connection, the splitting of big commands and the  *)
(* frame data promise together: every command that is given reaches the    *)
(* frame data of the other side, whole, once, and nothing else does.       *)
(***************************************************************************)
CONSTANT Command    \* the commands there are

VARIABLES
    given,          \* the commands that were given
    delivered       \* those in the other side's frame data

vars == <<given, delivered>>

Init == given = {} /\ delivered = {}

Give(c) ==
    /\ c \notin given
    /\ given' = given \union {c}
    /\ UNCHANGED delivered

(* One update may bring several commands.                                   *)
Deliver(C) ==
    /\ C # {} /\ C \subseteq given \ delivered
    /\ delivered' = delivered \union C
    /\ UNCHANGED given

DeliverSome == \E C \in SUBSET (given \ delivered) : Deliver(C)

Next == (\E c \in Command : Give(c)) \/ DeliverSome

Spec == Init /\ [][Next]_vars

(* Whatever is given is delivered at last.                                  *)
FairSpec == Spec /\ WF_vars(DeliverSome)

=============================================================================
