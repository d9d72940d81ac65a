-------------------------- MODULE MCSessionDocument --------------------------
(* What one session document is for, in one run: how concurrent requests   *)
(* write it (SessionStore), and what its trail makes of an answer's tables *)
(* (AnswerTables).  A behaviour is one of the two; the other one stays in  *)
(* its initial state.                                                      *)
EXTENDS MCAnswerTables, SessionStore, TLC

VARIABLE part

Symmetry == Permutations(Procs)

DocumentInit ==
    /\ Init /\ TablesInit
    /\ part \in IF narrow THEN {"tables"} ELSE {"store", "tables"}

DocumentNext ==
    \/ part = "store" /\ Next /\ UNCHANGED tablesVars
    \/ part = "tables" /\ TablesNext /\ UNCHANGED vars

DocumentSpec ==
    DocumentInit /\ [][DocumentNext /\ UNCHANGED part]_<<part, vars, tablesVars>>
=============================================================================
