------------------------------- MODULE MCTask -------------------------------
(* Two task types with the same label, which have one identifier.          *)
EXTENDS Task

MCGid == [ty \in Type |-> "g"]
=============================================================================
