---------------------------- MODULE MCFrameSync ----------------------------
(* Small instances of FrameSync for TLC. *)
EXTENDS FrameSyncInv

MCPlayers2 == {0, 1}
MCPlayers3 == {0, 1, 2}

MCNoCommands == [p \in Players |-> 0]
MCOnlySecond == [p \in Players |-> IF p = 1 THEN 1 ELSE 0]

=============================================================================
