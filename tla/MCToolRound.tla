---------------------------- MODULE MCToolRound ----------------------------
(* Instances of ToolRound for TLC.                                         *)
EXTENDS ToolRound

MCWeight == [c \in Calls |->
    CASE c = "getTableSchema" -> 3 [] c = "getBlueprint" -> 2 [] OTHER -> 1]

MCScopes == {{}, {"city"}}
MCFootprints == {{"salary"}}
=============================================================================
