--------------------------- MODULE MCAnswerTables ---------------------------
(* Designations for AnswerTables.                                          *)
EXTENDS AnswerTables

Q(n) == [sql |-> <<"sql", n>>, bp |-> "none"]
B == [sql |-> NoText, bp |-> "b"]
Both == [sql |-> <<"sql", 1>>, bp |-> "b"]

(* A blueprint, beside it a table that a narrow scope hides, or one item   *)
(* for a query and a blueprint before the same text again; and the old     *)
(* shape below an array that designates nothing, hidden too.               *)
MCDesignations ==
    {[args |-> a, top |-> NoItem] : a \in {<<B>>, <<Q(2), B>>, <<Both, Q(1), B>>}}
    \cup {[args |-> <<NoItem>>, top |-> Q(2)]}
=============================================================================
