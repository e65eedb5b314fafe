------------------------ MODULE MCDisconnectManager ------------------------
(* Small instances of DisconnectManager for TLC.                           *)
EXTENDS DisconnectManager

MCPlayers3 == 0 .. 2

(* Nobody votes, everybody is heard.                                        *)
MCNoPairs == {}

(* The two others may vote against the router.                              *)
MCRouterVotes == {<<1, 0>>, <<2, 0>>}

(* The second may not hear from the third.                                  *)
MCThirdUnheard == {<<1, 2>>}
=============================================================================
