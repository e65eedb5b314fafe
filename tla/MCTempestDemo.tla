---------------------------- MODULE MCTempestDemo ----------------------------
(* Small instances of TempestDemo for TLC. *)
EXTENDS TempestDemo, MCTempestMatch

MCDemoRequests == [kind : {"ArcPulse"}] \union [kind : {"ProduceUnit"}, unit : {"FabricatorRig"}]

=============================================================================
