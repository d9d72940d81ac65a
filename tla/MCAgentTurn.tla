---------------------------- MODULE MCAgentTurn ----------------------------
(* Model-checking instances of AgentTurn; the bounds are in the .cfg       *)
(* files.                                                                  *)
EXTENDS AgentTurn

(* Enough model values for the instances.                                  *)
CONSTANTS p1, p2, i1
============================================================================
