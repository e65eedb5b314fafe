--------------------------- MODULE MCPacketRelay ---------------------------
(* Small instances of PacketRelay for TLC. *)
EXTENDS PacketRelay

MCPlayers3 == {0, 1, 2}

MCSecondGives == [p \in Players |-> IF p = 1 THEN 1 ELSE 0]

=============================================================================
