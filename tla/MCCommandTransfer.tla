------------------------- MODULE MCCommandTransfer -------------------------
(* A small instance of CommandTransfer for TLC: two players, one of whose   *)
(* command IDs overflow while his messages are on their way.                *)
EXTENDS CommandTransfer

MCGAMECOMMAND == 4
MCRUNAHEAD == 7

MCSenders == {1, 2}
MCScript == 1 :> <<<<MCGAMECOMMAND, TRUE>>, <<MCRUNAHEAD, FALSE>>>> @@
            2 :> <<<<MCGAMECOMMAND, FALSE>>, <<MCGAMECOMMAND, FALSE>>,
                   <<MCGAMECOMMAND, FALSE>>>>
MCFirstId == 1 :> 2 @@ 2 :> IdSpace - 2
=============================================================================
