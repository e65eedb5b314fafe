-------------------------- MODULE MCSettingsProfile --------------------------
(* Three actions, one of version 1 and one added in each of versions 2 and  *)
(* 3, on four inputs: an older profile may have given the default of either *)
(* away, and the first fallback key is the other one's default.             *)
EXTENDS SettingsProfile

MCAction == {"Pause", "ProduceLancer", "BuildArcSentry"}
MCInput == {"Space", "I", "T", "J"}
MCDefaults ==
    [a \in MCAction |-> CASE a = "Pause" -> "Space" [] a = "ProduceLancer" -> "I"
                          [] a = "BuildArcSentry" -> "T"]
MCVersion2 == <<"ProduceLancer">>
MCVersion3 == <<"BuildArcSentry">>
MCFallbackKeys == <<"I", "T", "J">>

(* Every profile of an older version, and any that names all actions, with  *)
(* inputs bound twice among them; no profile; one cut short at once, or     *)
(* after the first binding.                                                 *)
MCProfiles ==
    {NoProfile, Unfinished}
    \union [version : {4}, bindings : [{"Pause"} -> MCInput]]
    \union [version : {1}, bindings : [{"Pause"} -> MCInput]]
    \union [version : {1, 2}, bindings : [{"Pause", "ProduceLancer"} -> MCInput]]
    \union [version : {2, 4}, bindings : [MCAction -> MCInput]]

=============================================================================
