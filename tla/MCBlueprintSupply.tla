-------------------------- MODULE MCBlueprintSupply --------------------------
(* Where blueprints come from, in one run: the extraction of candidates    *)
(* from a session, their generalization and landing, and the load of the   *)
(* published corpus into the graph.  A behaviour is one of the three; the  *)
(* others rest, the extraction after a send that failed, the corpus with   *)
(* an export that does not load, so that nothing is owed by one that rests.*)
EXTENDS MCExtraction, MCCorpusGraph, MCGeneralize

VARIABLE part

supplyVars == <<part, evars, corpusVars, gvars>>

ExtractionRests ==
    /\ outcome = "failed" /\ answered = "no_index" /\ sends = 1
    /\ told = PriorArtBlock(answered)
    /\ searchesLeft = 0 /\ attemptsLeft = MaxRetries + 1 /\ correctionsLeft = MaxCorrections
    /\ kept = {} /\ settled = {} /\ pending = {} /\ raw = <<>>
    /\ history = <<>> /\ report = {}

CorpusRests ==
    /\ mcp = [catalog |-> "c1", bps |-> "loop", kns |-> "k2"]
    /\ env = [model |-> "m1", dim |-> 1]
    /\ CorpusInit

GeneralizationRests == plan = PlanOf("single", <<>>, <<>>, <<>>) /\ GInit

SupplyInit ==
    \/ part = "extraction" /\ EInit /\ CorpusRests /\ GeneralizationRests
    \/ part = "corpus" /\ CorpusInit /\ ExtractionRests /\ GeneralizationRests
    \/ part = "generalization" /\ GInit /\ ExtractionRests /\ CorpusRests

Extracts(step)    == part = "extraction" /\ step /\ UNCHANGED <<part, corpusVars, gvars>>
Loads(step)       == part = "corpus" /\ step /\ UNCHANGED <<part, evars, gvars>>
Generalizes(step) == part = "generalization" /\ step /\ UNCHANGED <<part, evars, corpusVars>>

SupplySpec ==
    /\ SupplyInit /\ [][Extracts(ENext) \/ Loads(CorpusNext) \/ Generalizes(GNext)]_supplyVars
    /\ WF_supplyVars(Extracts(ENext)) /\ WF_supplyVars(Loads(CycleStep))

-----------------------------------------------------------------------------
\* What the two ends of the supply hand on is what they were given: the load
\* serves what it was published, a template is the query that was accepted.
SupplySound == ServedSound /\ GeneralizedSound
=============================================================================
