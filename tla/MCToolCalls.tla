---------------------------- MODULE MCToolCalls ----------------------------
(* What a call of a tool goes through, in one run: the rounds of the model *)
(* loop, the execution of a blueprint, the preview of a schema or of       *)
(* candidate cards, and the ledger that cites the call as evidence.  A     *)
(* behaviour is one of the four; the others stay in one of their initial   *)
(* states.                                                                 *)
EXTENDS MCToolRound, MCBlueprintRun, MCResultPreview, AnalysisLedger

WorkerSymmetry == Permutations(Workers)

VARIABLE part

(* The first call of a ledger's turn is a query with rows, a denied one, or *)
(* a verified blueprint; any call may follow it.                           *)
FirstCallPlain ==
    trail # <<>> => trail[1].out \in {Outcome("runQuery", "none", FALSE, "some"),
                                      Outcome("runQuery", "NO_ACCESS", FALSE, "absent"),
                                      Outcome("runBlueprint", "none", TRUE, "some")}

RoundRests     == scope = {} /\ Init
BlueprintRests == stored = Leaf /\ inScope = TRUE /\ BlueprintInit
PreviewRests   == rungs = "cards" /\ schema = <<1, 1, 1>> /\ cap = 2 /\ PInit

CallInit ==
    \/ part = "round" /\ Init /\ BlueprintRests /\ PreviewRests /\ LedgerInit
    \/ part = "blueprint" /\ BlueprintInit /\ RoundRests /\ PreviewRests /\ LedgerInit
    \/ part = "preview" /\ PInit /\ RoundRests /\ BlueprintRests /\ LedgerInit
    \/ part = "ledger" /\ LedgerInit /\ RoundRests /\ BlueprintRests /\ PreviewRests

CallNext ==
    \/ part = "round" /\ Next /\ UNCHANGED <<blueprintVars, pvars, ledgerVars>>
    \/ part = "blueprint" /\ BlueprintNext /\ UNCHANGED <<vars, pvars, ledgerVars>>
    \/ part = "preview" /\ PNext /\ UNCHANGED <<vars, blueprintVars, ledgerVars>>
    \/ part = "ledger" /\ LedgerNext /\ FirstCallPlain' /\ UNCHANGED <<vars, blueprintVars, pvars>>

CallSpec ==
    CallInit /\ [][CallNext /\ UNCHANGED part]_<<part, vars, blueprintVars, pvars, ledgerVars>>
=============================================================================
