----------------------- MODULE BlueprintSupplyProofs -----------------------
(***************************************************************************)
(* Where blueprints come from, for every session, model answer, catalog,   *)
(* plan and export.  The extraction of candidates: its budgets hold and    *)
(* what is kept has the filters of the SQL the user accepted.  The load of *)
(* the corpus: what a runtime pod reads in the graph is what was published *)
(* and validated, inlined in order.  The generalization of a candidate: a  *)
(* template is the query that was accepted, and it lands.                  *)
(***************************************************************************)
EXTENDS MCBlueprintSupply, FiniteSetTheorems, SequenceTheorems,
        WellFoundedInduction, TLAPS

---------------------------------------------------------------------------
(* to_candidate: the gates of a candidate                                  *)

(* Of numbers, positions and orders, one is first.                         *)
LEMMA FirstNumber ==
    ASSUME NEW T \in SUBSET Nat, T # {}
    PROVE  \E i \in T : \A j \in T : i <= j
<1> DEFINE R == OpToRel(<, Nat)
<1>1. IsWellFoundedOn(R, Nat)
  BY NatLessThanWellFounded
<1>2. \A x, y \in Nat : <<y, x>> \in R <=> y < x
  BY DEF OpToRel
<1> HIDE DEF R
<1>3. PICK x \in T : \A y \in T : ~ (<<y, x>> \in R)
  BY <1>1, WFMin, Zenon
<1>4. \A y \in T : ~ (y < x)
  BY <1>2, <1>3
<1>5. \A y \in T : x <= y
  BY <1>4, SMT
<1> QED
  BY <1>5

(* The first of some gates that does not pass is one that does not pass.   *)
LEMMA AllGatesPass ==
    ASSUME NEW gates, Len(gates) \in Nat,
           FirstFailure(gates) = Pass
    PROVE  \A i \in 1..Len(gates) : gates[i] = Pass
<1> DEFINE failing == {i \in 1..Len(gates) : gates[i] # Pass}
<1> SUFFICES ASSUME failing # {} PROVE FALSE
  OBVIOUS
<1>2. failing \in SUBSET Nat
  OBVIOUS
<1>3. PICK at \in failing : at = Min(failing)
  <2>1. \E i \in failing : \A j \in failing : i <= j
    <3> HIDE DEF failing
    <3> QED
      BY <1>2, FirstNumber
  <2> QED
    BY <2>1 DEF Min
<1>4. SelectInSeq(gates, LAMBDA gate : gate # Pass) = at
  BY <1>3 DEF SelectInSeq
<1>5. at # 0 /\ gates[at] # Pass
  BY <1>3
<1> QED
  BY <1>4, <1>5 DEF FirstFailure

---------------------------------------------------------------------------
(* Four gates in a row.                                                    *)
LEMMA FourGatesPass ==
    ASSUME NEW a, NEW b, NEW c, NEW d, FirstFailure(<<a, b, c, d>>) = Pass
    PROVE  a = Pass /\ b = Pass /\ c = Pass /\ d = Pass
<1> DEFINE gates == <<a, b, c, d>>
<1>1. Len(gates) = 4 /\ gates[1] = a /\ gates[2] = b /\ gates[3] = c /\ gates[4] = d
  OBVIOUS
<1>2. \A i \in 1..Len(gates) : gates[i] = Pass
  BY <1>1, AllGatesPass
<1> HIDE DEF gates
<1> QED
  BY <1>1, <1>2

(* to_candidate: a candidate that is kept passed every gate.               *)
LEMMA GatesOf ==
    ASSUME NEW c \in Candidates, Judgement(c) = Pass
    PROVE  /\ Readable(c, "envelope") = Pass /\ EvidenceGate(c) = Pass
           /\ Readable(c, "header") = Pass
           /\ c.type # "blueprint" => Readable(c, "payload") = Pass
           /\ c.type = "blueprint" =>
                /\ Readable(c, "payload") = Pass /\ Readable(c, "composes") = Pass
                /\ Readable(c, "parameterization") = Pass
                /\ Readable(c, "result_signature") = Pass
                /\ c.accepted /\ RoleGate(c) = Pass /\ TotalityGate(c) = Pass
<1>1. /\ Readable(c, "envelope") = Pass /\ EvidenceGate(c) = Pass /\ HeaderGate(c) = Pass
      /\ (IF c.type = "blueprint" THEN BlueprintGate(c) ELSE Readable(c, "payload")) = Pass
  BY FourGatesPass DEF Judgement
<1>2. ASSUME c.type = "blueprint"
      PROVE  /\ PayloadGate(c) = Pass /\ c.accepted
             /\ RoleGate(c) = Pass /\ TotalityGate(c) = Pass
  <2>1. BlueprintGate(c) = Pass
    BY <1>1, <1>2
  <2>2. /\ PayloadGate(c) = Pass /\ RoleGate(c) = Pass /\ TotalityGate(c) = Pass
        /\ (IF c.accepted THEN Pass ELSE "no_acceptance") = Pass
    BY <2>1, FourGatesPass DEF BlueprintGate
  <2> QED
    BY <2>2 DEF Pass
<1>3. ASSUME PayloadGate(c) = Pass
      PROVE  /\ Readable(c, "payload") = Pass /\ Readable(c, "composes") = Pass
             /\ Readable(c, "parameterization") = Pass
             /\ Readable(c, "result_signature") = Pass
  BY <1>3, FourGatesPass DEF PayloadGate, ComposesGate, EntriesGate, SignatureGate
<1> QED
  BY <1>1, <1>2, <1>3 DEF HeaderGate

LEMMA NothingMisread ==
    ASSUME NEW c \in Candidates, Judgement(c) = Pass
    PROVE  c.misshapen = {} /\ c.broken = {} /\ c.evidence # {}
<1>1. c.evidence # {}
  BY GatesOf DEF EvidenceGate, Pass
<1>2. \A section : Readable(c, section) = Pass => section \notin c.misshapen \cup c.broken
  BY DEF Readable, Pass
<1>3. c.misshapen \cup c.broken \subseteq
        {"envelope", "header", "payload"} \cup
          IF c.type = "blueprint" THEN {"composes", "parameterization", "result_signature"} ELSE {}
  BY CandidatesHaveParts
<1>4. c.misshapen \cup c.broken = {}
  BY <1>2, <1>3, GatesOf
<1> QED
  BY <1>1, <1>4

(* A rule that an entry of a kept blueprint cites is in the catalog.       *)
LEMMA CitedRulesAreKnown ==
    ASSUME NEW c \in Candidates, Judgement(c) = Pass, c.type = "blueprint",
           NEW e \in Entries(c), e.role = "rule"
    PROVE  e.rule \in KnownRules
<1> DEFINE gates == [i \in 1..Len(c.entries) |-> EntryGate(c.entries[i])]
<1>1. Len(c.entries) \in Nat
  BY CandidatesHaveParts
<1>2. Len(gates) = Len(c.entries)
  BY <1>1
<1>3. FirstFailure(gates) = Pass
  BY GatesOf DEF RoleGate
<1>4. \A i \in 1..Len(gates) : gates[i] = Pass
  <2> HIDE DEF gates
  <2> QED
    BY <1>1, <1>2, <1>3, AllGatesPass
<1>5. EntryGate(e) = Pass
  BY <1>2, <1>4 DEF Entries
<1> QED
  BY <1>5 DEF EntryGate, Pass

(* _validate_totality: the predicates of the accepted SQL are accounted    *)
(* for, by entries that no catalog rule disproves.                         *)
FiltersKept(c) ==
    c.type = "blueprint" =>
        \A ref \in c.refs : \A sql \in SqlByRef[ref] :
            /\ sql # Unparsed
            /\ \A p \in sql :
                /\ \E e \in Entries(c) : Covers(e, p)
                /\ \A e \in Entries(c) : Covers(e, p) /\ e.role = "rule" =>
                      \E rule \in Catalog : rule.id = e.rule
                         /\ (rule.declares = Unparsed \/ SameFilter(rule.declares, p))

LEMMA TotalityHolds ==
    ASSUME NEW c \in Candidates, Judgement(c) = Pass, c.type = "blueprint"
    PROVE  /\ AcceptedSql(c) # {} /\ Unparsed \notin AcceptedSql(c) /\ Uncovered(c) = {}
           /\ \A p \in Predicates(c), e \in Entries(c) :
                Covers(e, p) /\ e.role = "rule" => ~RuleContradicts(e.rule, p)
<1>1. TotalityGate(c) = Pass
  BY GatesOf
<1> QED
  BY <1>1 DEF TotalityGate, Pass

LEMMA KeptKeepsFilters ==
    ASSUME NEW c \in Candidates, Judgement(c) = Pass
    PROVE  FiltersKept(c)
<1> SUFFICES ASSUME c.type = "blueprint", NEW ref \in c.refs, NEW sql \in SqlByRef[ref]
             PROVE  /\ sql # Unparsed
                    /\ \A p \in sql :
                        /\ \E e \in Entries(c) : Covers(e, p)
                        /\ \A e \in Entries(c) : Covers(e, p) /\ e.role = "rule" =>
                              \E rule \in Catalog : rule.id = e.rule
                                 /\ (rule.declares = Unparsed \/ SameFilter(rule.declares, p))
  BY DEF FiltersKept
<1>1. sql \in AcceptedSql(c)
  BY DEF AcceptedSql
<1>2. sql # Unparsed
  BY <1>1, TotalityHolds
<1>3. \A p \in sql : p \in Predicates(c)
  BY <1>1, <1>2 DEF Predicates
<1>4. ASSUME NEW p \in sql PROVE \E e \in Entries(c) : Covers(e, p)
  BY <1>3, <1>4, TotalityHolds DEF Uncovered
<1>5. ASSUME NEW p \in sql, NEW e \in Entries(c), Covers(e, p), e.role = "rule"
      PROVE  \E rule \in Catalog : rule.id = e.rule
                 /\ (rule.declares = Unparsed \/ SameFilter(rule.declares, p))
  <2>1. e.rule \in KnownRules
    BY <1>5, CitedRulesAreKnown
  <2>2. ~RuleContradicts(e.rule, p)
    BY <1>3, <1>5, TotalityHolds
  <2>3. \E rule \in Catalog : rule.id = e.rule
    BY <2>1 DEF KnownRules
  <2> QED
    BY <2>2, <2>3 DEF RuleContradicts
<1> QED
  BY <1>2, <1>4, <1>5

(* models.py: what a kept candidate is.                                    *)
LEMMA KeptIsExtracted ==
    ASSUME NEW c \in Candidates, Judgement(c) = Pass
    PROVE  ExtractedCandidate(c)
<1>1. c.misshapen = {} /\ c.broken = {} /\ c.evidence # {}
  BY NothingMisread
<1>2. ASSUME c.type = "blueprint"
      PROVE  c.accepted /\ c.refs # {} /\ (Predicates(c) # {} => c.entries # <<>>)
  <2>1. c.accepted
    BY <1>2, GatesOf
  <2>2. c.refs # {}
    BY <1>2, TotalityHolds DEF AcceptedSql
  <2>3. ASSUME NEW p \in Predicates(c), c.entries = <<>> PROVE FALSE
    <3>1. Entries(c) = {}
      BY <2>3 DEF Entries
    <3> QED
      BY <1>2, <2>3, <3>1, TotalityHolds DEF Uncovered
  <2> QED
    BY <2>1, <2>2, <2>3
<1> QED
  BY <1>1, <1>2 DEF ExtractedCandidate
---------------------------------------------------------------------------
(* The dialogue with the model                                             *)
Asked == SUBSET {"rule", "predicate", "shape", "mixed"}

Budgets ==
    /\ outcome \in {"running", "done", "dead_letter", "failed"}
    /\ searchesLeft \in 0..MaxSearches
    /\ attemptsLeft \in 0..(MaxRetries + 1)
    /\ correctionsLeft \in 0..MaxCorrections
    /\ history \in Seq(Asked) /\ Len(history) = MaxCorrections - correctionsLeft
    /\ sends \in Nat

(* While it runs, what was sent and what may still be asked is bounded.    *)
Spent ==
    /\ outcome = "running" =>
         sends + searchesLeft + attemptsLeft + correctionsLeft
           <= MaxSearches + (MaxRetries + 1) + MaxCorrections
    /\ sends <= MaxSearches + (MaxRetries + 1) + MaxCorrections

(* The declines of the last batch that was read.                           *)
PendingOf(declines, batch) ==
    /\ batch \in Seq(Candidates)
    /\ \A d \in declines : d[1] \in 1..Len(batch) /\ d[2] = Verdict[batch[d[1]]]
                                                 /\ d[2] \in Correctable

Reported == report \subseteq {d \in Decline : Verdict[d.payload] = d.reason}

KeptPassed == \A c \in kept : c \in Candidates /\ Judgement(c) = Pass

(* Nothing is kept or settled before the first correction, unless it ends. *)
FirstRound ==
    /\ outcome \in {"running", "dead_letter"} /\ history = <<>> => kept = {} /\ settled = {}
    /\ outcome = "dead_letter" => history = <<>>

ExtractionInv ==
    /\ Budgets
    /\ Spent
    /\ PendingOf(pending, raw)
    /\ Reported
    /\ KeptPassed
    /\ FirstRound
    /\ AskedBeforeGivenUp
    /\ NoNoveltyFromAnOutage

LEMMA InitExtractionInv == EInit => ExtractionInv
<1> SUFFICES ASSUME EInit PROVE ExtractionInv
  OBVIOUS
<1>1. Budgets /\ Spent
  BY BudgetsAreNumbers DEF EInit, Budgets, Spent
<1>2. PendingOf(pending, raw) /\ Reported /\ KeptPassed /\ FirstRound
  BY DEF EInit, PendingOf, Reported, KeptPassed, FirstRound
<1>3. AskedBeforeGivenUp /\ NoNoveltyFromAnOutage
  BY DEF EInit, AskedBeforeGivenUp, NoNoveltyFromAnOutage, PriorArtBlock
<1> QED
  BY <1>1, <1>2, <1>3 DEF ExtractionInv

(* _serve_search_calls: a response that searches spends a search at least. *)
LEMMA ServeKeeps ==
    ASSUME ExtractionInv, NEW calls \in 1..MaxCalls, NEW answer, ServeSearches(calls, answer)
    PROVE  ExtractionInv'
<1> USE DEF ServeSearches, Asking
<1>1. searchesLeft' \in 0..MaxSearches /\ searchesLeft' <= searchesLeft - 1
  BY BudgetsAreNumbers DEF ExtractionInv, Budgets
<1>2. Budgets'
  BY <1>1 DEF ExtractionInv, Budgets
<1>3. Spent'
  BY <1>1, BudgetsAreNumbers DEF ExtractionInv, Budgets, Spent
<1>4. PendingOf(pending, raw)' /\ Reported' /\ KeptPassed' /\ FirstRound' /\ AskedBeforeGivenUp'
  BY DEF ExtractionInv, PendingOf, Reported, KeptPassed, FirstRound, AskedBeforeGivenUp
<1>5. NoNoveltyFromAnOutage'
  BY DEF ExtractionInv, NoNoveltyFromAnOutage, PriorArtBlock
<1> QED
  BY <1>2, <1>3, <1>4, <1>5 DEF ExtractionInv

(* _finish: a decline is reported with the candidate it was judged on.     *)
LEMMA FinishReports ==
    ASSUME NEW declines, NEW batch, PendingOf(declines, batch), history' \in Seq(Asked),
           Finish(declines, batch)
    PROVE  Reported' /\ outcome' = "done" /\ (report' # {} => declines # {})
<1>1. ASSUME NEW d \in declines
      PROVE  /\ [reason |-> d[2], payload |-> batch[d[1]], corrections |-> history'] \in Decline
             /\ Verdict[batch[d[1]]] = d[2]
  <2>1. batch[d[1]] \in Candidates
    BY <1>1 DEF PendingOf
  <2> QED
    BY <1>1, <2>1 DEF PendingOf, Decline, Asked
<1>2. Verdict' = Verdict
  BY DEF Verdict
<1> QED
  BY <1>1, <1>2 DEF Finish, Reported

LEMMA UnreadableKeeps == ASSUME ExtractionInv, Unreadable PROVE ExtractionInv'
<1>1. /\ attemptsLeft > 0 /\ outcome = "running" /\ attemptsLeft' = attemptsLeft - 1
      /\ sends' = sends + 1
      /\ UNCHANGED <<history, searchesLeft, correctionsLeft, kept, settled, pending, raw,
                     told, answered>>
  BY DEF Unreadable, Asking
<1>2. \/ outcome' = "running" /\ report' = report
      \/ attemptsLeft' = 0 /\ history # <<>> /\ Finish(pending, raw)
      \/ outcome' = "dead_letter" /\ history = <<>> /\ report' = report
  BY <1>1 DEF Unreadable, ExtractionInv, Budgets
<1>3. outcome' \in {"running", "done", "dead_letter"}
  BY <1>2 DEF Finish
<1>4. Budgets'
  BY <1>1, <1>3, BudgetsAreNumbers DEF ExtractionInv, Budgets
<1>5. Spent'
  BY <1>1, BudgetsAreNumbers DEF ExtractionInv, Budgets, Spent
<1>6. PendingOf(pending, raw)' /\ KeptPassed' /\ NoNoveltyFromAnOutage'
  BY <1>1 DEF ExtractionInv, PendingOf, KeptPassed, NoNoveltyFromAnOutage
<1>7. Reported' /\ FirstRound' /\ AskedBeforeGivenUp'
  <2>1. CASE outcome' \in {"running", "dead_letter"} /\ report' = report
    BY <1>1, <1>2, <2>1 DEF ExtractionInv, Reported, FirstRound, AskedBeforeGivenUp, Finish
  <2>2. CASE attemptsLeft' = 0 /\ Finish(pending, raw)
    <3>1. history' \in Seq(Asked) /\ PendingOf(pending, raw)
      BY <1>1 DEF ExtractionInv, Budgets
    <3>2. Reported' /\ outcome' = "done"
      BY <2>2, <3>1, FinishReports
    <3> QED
      BY <2>2, <3>2 DEF FirstRound, AskedBeforeGivenUp
  <2> QED
    BY <1>2, <2>1, <2>2
<1> QED
  BY <1>4, <1>5, <1>6, <1>7 DEF ExtractionInv

LEMMA CorrectionType == ASSUME NEW asks PROVE Correction(asks) \in Asked
BY DEF Correction, Family, Asked

LEMMA BatchKeeps ==
    ASSUME ExtractionInv, NEW batch \in Emissions, Batch(batch)
    PROVE  ExtractionInv'
<1> DEFINE passed == Judged(batch, {Pass})
           shape  == Judged(batch, Correctable)
           asks   == {<<i, Verdict[batch[i]]>> : i \in shape}
<1>1. /\ attemptsLeft > 0 /\ outcome = "running" /\ raw' = batch /\ pending' = asks
      /\ kept' = kept \cup {batch[i] : i \in passed} /\ sends' = sends + 1
      /\ UNCHANGED <<searchesLeft, attemptsLeft, told, answered>>
  BY DEF Batch, Asking
<1>2. \/ /\ asks # {} /\ correctionsLeft > 0 /\ correctionsLeft' = correctionsLeft - 1
         /\ history' = Append(history, Correction(asks)) /\ UNCHANGED <<outcome, report>>
      \/ /\ asks = {} \/ ~ (correctionsLeft > 0)
         /\ history' = history /\ Finish(asks, batch) /\ UNCHANGED correctionsLeft
  BY DEF Batch
<1>3. batch \in Seq(Candidates)
  BY CandidatesHaveParts
<1>4. PendingOf(asks, batch)
  BY <1>3 DEF PendingOf, Judged
<1>5. PendingOf(pending, raw)'
  <2>1. Verdict' = Verdict
    BY DEF Verdict
  <2> HIDE DEF asks
  <2> QED
    BY <1>1, <1>4, <2>1 DEF PendingOf
<1>6. KeptPassed'
  <2>1. \A i \in passed : batch[i] \in Candidates /\ Judgement(batch[i]) = Pass
    BY <1>3 DEF Judged, Verdict
  <2> HIDE DEF passed
  <2> QED
    BY <1>1, <2>1 DEF ExtractionInv, KeptPassed
<1>7. NoNoveltyFromAnOutage'
  BY <1>1 DEF ExtractionInv, NoNoveltyFromAnOutage
<1> HIDE DEF passed, asks
<1>8. CASE /\ asks # {} /\ correctionsLeft > 0 /\ correctionsLeft' = correctionsLeft - 1
           /\ history' = Append(history, Correction(asks)) /\ UNCHANGED <<outcome, report>>
  <2>1. history' \in Seq(Asked) /\ Len(history') = Len(history) + 1 /\ history' # <<>>
    BY <1>8, CorrectionType DEF ExtractionInv, Budgets
  <2>2. Budgets'
    BY <1>1, <1>8, <2>1, BudgetsAreNumbers DEF ExtractionInv, Budgets
  <2>3. Spent'
    <3>1. /\ searchesLeft \in Nat /\ attemptsLeft \in Nat /\ correctionsLeft \in Nat /\ sends \in Nat
          /\ MaxSearches \in Nat /\ MaxRetries \in Nat /\ MaxCorrections \in Nat
      BY BudgetsAreNumbers DEF ExtractionInv, Budgets
    <3>2. sends + searchesLeft + attemptsLeft + correctionsLeft <= MaxSearches + (MaxRetries + 1) + MaxCorrections
      BY <1>1 DEF ExtractionInv, Spent
    <3>3. sends' = sends + 1 /\ searchesLeft' = searchesLeft /\ attemptsLeft' = attemptsLeft
          /\ correctionsLeft' = correctionsLeft - 1 /\ correctionsLeft > 0
      BY <1>1, <1>8
    <3>4. sends' + searchesLeft' + attemptsLeft' + correctionsLeft' <= MaxSearches + (MaxRetries + 1) + MaxCorrections
      BY <3>1, <3>2, <3>3
    <3>5. sends' <= MaxSearches + (MaxRetries + 1) + MaxCorrections
      BY <3>1, <3>2, <3>3
    <3> QED
      BY <3>4, <3>5 DEF Spent
  <2>4. Reported' /\ FirstRound' /\ AskedBeforeGivenUp'
    BY <1>1, <1>8, <2>1 DEF ExtractionInv, Reported, FirstRound, AskedBeforeGivenUp
  <2> QED
    BY <1>5, <1>6, <1>7, <2>2, <2>3, <2>4 DEF ExtractionInv
<1>9. CASE /\ asks = {} \/ ~ (correctionsLeft > 0)
           /\ history' = history /\ Finish(asks, batch) /\ UNCHANGED correctionsLeft
  <2>1. Reported' /\ outcome' = "done" /\ (report' # {} => asks # {})
    <3>1. history' \in Seq(Asked)
      BY <1>9 DEF ExtractionInv, Budgets
    <3> QED
      BY <1>4, <1>9, <3>1, FinishReports
  <2>2. Budgets'
    BY <1>1, <1>9, <2>1 DEF ExtractionInv, Budgets
  <2>3. Spent'
    <3>1. sends + 1 <= MaxSearches + (MaxRetries + 1) + MaxCorrections
      BY <1>1, BudgetsAreNumbers DEF ExtractionInv, Budgets, Spent
    <3> QED
      BY <1>1, <2>1, <3>1 DEF Spent
  <2>4. FirstRound'
    BY <2>1 DEF FirstRound
  <2>5. AskedBeforeGivenUp'
    BY <1>9, <2>1 DEF AskedBeforeGivenUp, ExtractionInv, Budgets
  <2> QED
    BY <1>5, <1>6, <1>7, <2>1, <2>2, <2>3, <2>4, <2>5 DEF ExtractionInv
<1> QED
  BY <1>2, <1>8, <1>9

LEMMA SendFailsKeeps == ASSUME ExtractionInv, SendFails PROVE ExtractionInv'
<1> USE DEF SendFails, Asking
<1>1. Budgets' /\ Spent'
  BY BudgetsAreNumbers DEF ExtractionInv, Budgets, Spent
<1>2. PendingOf(pending, raw)' /\ Reported' /\ KeptPassed' /\ FirstRound'
  BY DEF ExtractionInv, PendingOf, Reported, KeptPassed, FirstRound
<1>3. AskedBeforeGivenUp' /\ NoNoveltyFromAnOutage'
  BY DEF ExtractionInv, AskedBeforeGivenUp, NoNoveltyFromAnOutage
<1> QED
  BY <1>1, <1>2, <1>3 DEF ExtractionInv

LEMMA NextKeepsExtractionInv == ExtractionInv /\ [ENext]_evars => ExtractionInv'
<1> SUFFICES ASSUME ExtractionInv, [ENext]_evars PROVE ExtractionInv'
  OBVIOUS
<1>1. ASSUME NEW calls \in 1..MaxCalls, NEW answer \in SearchAnswers,
             ServeSearches(calls, answer)
      PROVE  ExtractionInv'
  BY <1>1, ServeKeeps
<1>2. CASE Unreadable
  BY <1>2, UnreadableKeeps
<1>3. ASSUME NEW batch \in Emissions, Batch(batch) PROVE ExtractionInv'
  BY <1>3, BatchKeeps
<1>4. CASE SendFails
  BY <1>4, SendFailsKeeps
<1>5. CASE UNCHANGED evars
  BY <1>5 DEF evars, ExtractionInv, Budgets, Spent, PendingOf, Reported, KeptPassed, FirstRound,
              AskedBeforeGivenUp, NoNoveltyFromAnOutage, Decline, Verdict
<1> QED
  BY <1>1, <1>2, <1>3, <1>4, <1>5 DEF ENext

(* The inductive invariant of the dialogue: what was sent and what may     *)
(* still be asked never exceeds the three budgets together, a decline goes *)
(* with the candidate of the batch it was judged in, and what is kept has  *)
(* passed every gate (_drive_turns, extractor.py:316-426).                 *)
THEOREM ExtractionInvariant == ESpec => []ExtractionInv
<1>1. EInit => ExtractionInv
  BY InitExtractionInv
<1>2. ExtractionInv /\ [ENext]_evars => ExtractionInv'
  BY NextKeepsExtractionInv
<1> QED
  BY <1>1, <1>2, PTL DEF ESpec

(* Every extraction: the budgets hold, nothing that was accepted is sent   *)
(* to the dead letters, a reported decline shows its candidate and was     *)
(* asked again while a budget was left, and an outage is no novelty.       *)
THEOREM ExtractionIsSound == ESpec => []DialogueSound
<1>1. ExtractionInv => DialogueSound
  <2> SUFFICES ASSUME ExtractionInv PROVE DialogueSound
    OBVIOUS
  <2>1. \A ask \in pending : ask[1] \in 1..Len(raw)
    BY DEF ExtractionInv, PendingOf
  <2>2. \A c \in kept : ExtractedCandidate(c)
    BY KeptIsExtracted DEF ExtractionInv, KeptPassed
  <2>3. ExtractionTypeOK
    BY <2>1, <2>2 DEF ExtractionInv, Budgets, Reported, ExtractionTypeOK
  <2>4. SendsBounded /\ AcceptedNotDeadLettered /\ DeclineShowsItsCandidate
    BY DEF ExtractionInv, Spent, FirstRound, Reported, SendsBounded,
           AcceptedNotDeadLettered, DeclineShowsItsCandidate
  <2> QED
    BY <2>3, <2>4 DEF ExtractionInv, DialogueSound
<1> QED
  BY <1>1, ExtractionInvariant, PTL

(* A blueprint that is kept drops no filter of the SQL the user accepted   *)
(* and cites no rule the catalog proves to be another filter, for every    *)
(* accepted SQL, catalog and candidate (_validate_totality).               *)
THEOREM FiltersAreKept == ESpec => []KeptFiltersTheSame
<1>1. ExtractionInv => KeptFiltersTheSame
  BY KeptKeepsFilters DEF ExtractionInv, KeptPassed, KeptFiltersTheSame, FiltersKept
<1> QED
  BY <1>1, ExtractionInvariant, PTL

---------------------------------------------------------------------------
(* The corpus in the graph                                                 *)

(* A node, a graph and a cycle are records of known fields.                *)
Node(n) ==
    n = [source |-> n.source, status |-> n.status, drift |-> n.drift, bp |-> n.bp,
         model |-> n.model, dim |-> n.dim, sha |-> n.sha, edges |-> n.edges]

GraphShape(g) ==
    g = [nodes |-> g.nodes, idx |-> g.idx, columns |-> g.columns,
         catalogSha |-> g.catalogSha, corpusSha |-> g.corpusSha]

CycleShape(h) ==
    h = [pc |-> h.pc, catalog |-> h.catalog, bps |-> h.bps, kns |-> h.kns,
         dim |-> h.dim, handled |-> h.handled, fresh |-> h.fresh]

(* Nodes without a stamp are those a human staged.                         *)
StagedOnly(nodes) ==
    \A k \in DOMAIN nodes :
      nodes[k].sha = <<>> => nodes[k] = StagedNode /\ k[1] = "blueprint"

(* The mcp nodes are those of an export, and this export was accepted.     *)
Content(n) == <<n.bp, n.source, n.status, n.drift>>
Want(b, n) == Upserts(b, n, None, 0, {})
HoldsExport(nodes, b, n) ==
    /\ b \in DOMAIN BlueprintExports /\ n \in DOMAIN KnowledgeExports
    /\ Compiled[b].ok
    /\ McpKeys(nodes) = McpKeys(Want(b, n))
    /\ \A k \in McpKeys(Want(b, n)) : Content(nodes[k]) = Content(Want(b, n)[k])

StampedBySha(nodes, sha) ==
    /\ \A k \in DOMAIN nodes : Node(nodes[k])
    /\ StagedOnly(nodes)
    /\ \A k \in McpKeys(nodes) : nodes[k].sha = sha
    /\ sha # <<>> => \E b, n : sha = <<b, n>> /\ HoldsExport(nodes, b, n)

Whole == GraphShape(graph) /\ StampedBySha(graph.nodes, graph.corpusSha)

(* What a cycle has fetched and checked; before the write, that the graph  *)
(* does not hold this export, and that it was accepted.                    *)
Fetched(h, g) ==
    /\ CycleShape(h)
    /\ h.pc \notin {"idle", "fetchBlueprints"} => h.bps \in DOMAIN BlueprintExports
    /\ h.pc \notin {"idle", "fetchBlueprints", "fetchKnowledge"} =>
         h.kns \in DOMAIN KnowledgeExports
    /\ h.pc = "write" => g.corpusSha # <<h.bps, h.kns>> /\ Compiled[h.bps].ok

Published ==
    mcp \in [catalog : DOMAIN Catalogs, bps : DOMAIN BlueprintExports,
             kns : DOMAIN KnowledgeExports]

CorpusInv == Published /\ Whole /\ Fetched(hyd, graph)

---------------------------------------------------------------------------
(* What a load writes                                                      *)

LEMMA UpsertDomain ==
    ASSUME NEW b, NEW n, NEW m, NEW d, NEW cs
    PROVE  DOMAIN Upserts(b, n, m, d, cs)
             = {<<"blueprint", x>> : x \in DOMAIN Compiled[b].byId}
               \cup {<<"knowledge", x>> : x \in KnowledgeExports[n]}
BY DEF Upserts

LEMMA UpsertOrigin ==
    ASSUME NEW b, NEW n, NEW m, NEW d, NEW cs, NEW k \in DOMAIN Upserts(b, n, m, d, cs)
    PROVE  \/ \E x \in DOMAIN Compiled[b].byId : k = <<"blueprint", x>>
           \/ \E x \in KnowledgeExports[n] : k = <<"knowledge", x>>
<1>1. k \in {<<"blueprint", x>> : x \in DOMAIN Compiled[b].byId}
             \cup {<<"knowledge", x>> : x \in KnowledgeExports[n]}
  BY UpsertDomain, Zenon
<1>. QED
  BY <1>1

LEMMA UpsertKeys ==
    ASSUME NEW b, NEW n, NEW m, NEW d, NEW cs
    PROVE  LET U == Upserts(b, n, m, d, cs)
               byId == Compiled[b].byId
           IN  /\ \A k \in DOMAIN U :
                    \/ \E x \in DOMAIN byId : k = <<"blueprint", x>>
                    \/ \E x \in KnowledgeExports[n] : k = <<"knowledge", x>>
               /\ \A x \in DOMAIN byId : <<"blueprint", x>> \in DOMAIN U
               /\ \A x \in KnowledgeExports[n] : <<"knowledge", x>> \in DOMAIN U
               /\ \A x \in DOMAIN byId :
                    U[<<"blueprint", x>>] = BlueprintNode(byId[x], m, d, <<b, n>>, cs)
               /\ \A x \in KnowledgeExports[n] :
                    U[<<"knowledge", x>>] = KnowledgeNode(m, d, <<b, n>>)
<1> DEFINE byId == Compiled[b].byId
           B == {<<"blueprint", x>> : x \in DOMAIN byId}
           K == {<<"knowledge", x>> : x \in KnowledgeExports[n]}
           U == Upserts(b, n, m, d, cs)
<1>1. U = [k \in B \cup K |->
             IF k[1] = "blueprint" THEN BlueprintNode(byId[k[2]], m, d, <<b, n>>, cs)
             ELSE KnowledgeNode(m, d, <<b, n>>)]
  BY DEF Upserts
<1> HIDE DEF byId, U
<1>2. ASSUME NEW x \in DOMAIN byId
      PROVE  /\ <<"blueprint", x>> \in DOMAIN U
             /\ U[<<"blueprint", x>>] = BlueprintNode(byId[x], m, d, <<b, n>>, cs)
  <2>1. <<"blueprint", x>>[1] = "blueprint" /\ <<"blueprint", x>>[2] = x
    OBVIOUS
  <2>. QED
    BY <1>1, <2>1
<1>3. ASSUME NEW x \in KnowledgeExports[n]
      PROVE  /\ <<"knowledge", x>> \in DOMAIN U
             /\ U[<<"knowledge", x>>] = KnowledgeNode(m, d, <<b, n>>)
  <2>1. <<"knowledge", x>>[1] # "blueprint"
    OBVIOUS
  <2>. QED
    BY <1>1, <2>1
<1>4. DOMAIN U = B \cup K
  BY <1>1
<1>. QED
  BY <1>2, <1>3, <1>4 DEF U, byId

(* Model, dimension and columns do not decide what an export stands for.   *)
LEMMA UpsertContent ==
    ASSUME NEW b, NEW n, NEW m, NEW d, NEW cs
    PROVE  LET U == Upserts(b, n, m, d, cs) IN
           /\ \A k \in DOMAIN U : Node(U[k]) /\ U[k].sha = <<b, n>>
           /\ DOMAIN U = DOMAIN Want(b, n)
           /\ \A k \in DOMAIN U : Content(U[k]) = Content(Want(b, n)[k])
           /\ McpKeys(U) = McpKeys(Want(b, n))
<1> DEFINE U == Upserts(b, n, m, d, cs)
           W == Want(b, n)
           byId == Compiled[b].byId
<1>1. /\ \A k \in DOMAIN U :
           \/ \E x \in DOMAIN byId : k = <<"blueprint", x>>
           \/ \E x \in KnowledgeExports[n] : k = <<"knowledge", x>>
      /\ \A x \in DOMAIN byId : <<"blueprint", x>> \in DOMAIN U
      /\ \A x \in KnowledgeExports[n] : <<"knowledge", x>> \in DOMAIN U
      /\ \A x \in DOMAIN byId :
           U[<<"blueprint", x>>] = BlueprintNode(byId[x], m, d, <<b, n>>, cs)
      /\ \A x \in KnowledgeExports[n] :
           U[<<"knowledge", x>>] = KnowledgeNode(m, d, <<b, n>>)
  BY UpsertKeys
<1>2. /\ \A k \in DOMAIN W :
           \/ \E x \in DOMAIN byId : k = <<"blueprint", x>>
           \/ \E x \in KnowledgeExports[n] : k = <<"knowledge", x>>
      /\ \A x \in DOMAIN byId : <<"blueprint", x>> \in DOMAIN W
      /\ \A x \in KnowledgeExports[n] : <<"knowledge", x>> \in DOMAIN W
      /\ \A x \in DOMAIN byId :
           W[<<"blueprint", x>>] = BlueprintNode(byId[x], None, 0, <<b, n>>, {})
      /\ \A x \in KnowledgeExports[n] :
           W[<<"knowledge", x>>] = KnowledgeNode(None, 0, <<b, n>>)
  BY UpsertKeys DEF Want
<1> HIDE DEF U, W, byId
<1>3. DOMAIN U = DOMAIN W
  BY <1>1, <1>2
<1>4. ASSUME NEW k \in DOMAIN U
      PROVE  /\ Node(U[k]) /\ U[k].sha = <<b, n>>
             /\ Content(U[k]) = Content(W[k]) /\ U[k].source = W[k].source
  <2>1. CASE \E x \in DOMAIN byId : k = <<"blueprint", x>>
    <3>1. PICK x \in DOMAIN byId : k = <<"blueprint", x>>
      BY <2>1
    <3>2. /\ U[k] = BlueprintNode(byId[x], m, d, <<b, n>>, cs)
          /\ W[k] = BlueprintNode(byId[x], None, 0, <<b, n>>, {})
      BY <1>1, <1>2, <3>1
    <3>. QED
      BY <3>2 DEF BlueprintNode, Node, Content
  <2>2. CASE \E x \in KnowledgeExports[n] : k = <<"knowledge", x>>
    BY <1>1, <1>2, <2>2 DEF KnowledgeNode, Node, Content
  <2>. QED
    BY <1>1, <2>1, <2>2
<1>5. McpKeys(U) = McpKeys(W)
  BY <1>3, <1>4 DEF McpKeys, IsMcp
<1>. QED
  BY <1>3, <1>4, <1>5 DEF U, W

(* A stored node that comes from an accepted export: its blueprint has     *)
(* passed validate_blueprint_dag, and a chunk of knowledge has no query.   *)
LEMMA AcceptedNode ==
    ASSUME NEW nodes, NEW sha, StampedBySha(nodes, sha), NEW k \in McpKeys(nodes)
    PROVE  \/ ValidDag(nodes[k].bp) /\ k[1] = "blueprint"
           \/ nodes[k].bp = Blank /\ k[1] = "knowledge"
<1>1. sha # <<>>
  BY DEF StampedBySha, StagedOnly, StagedNode, McpKeys, IsMcp
<1>2. PICK b, n : sha = <<b, n>> /\ HoldsExport(nodes, b, n)
  BY <1>1 DEF StampedBySha
<1> DEFINE W == Want(b, n)
           byId == Compiled[b].byId
<1>3. k \in DOMAIN W /\ nodes[k].bp = W[k].bp
  BY <1>2 DEF HoldsExport, McpKeys, Content
<1>4. \A x \in DOMAIN byId : ValidDag(byId[x].bp)
  BY <1>2 DEF HoldsExport, Compiled, Compile
<1>5. /\ \A q \in DOMAIN W :
           \/ \E x \in DOMAIN byId : q = <<"blueprint", x>>
           \/ \E x \in KnowledgeExports[n] : q = <<"knowledge", x>>
      /\ \A x \in DOMAIN byId :
           W[<<"blueprint", x>>] = BlueprintNode(byId[x], None, 0, <<b, n>>, {})
      /\ \A x \in KnowledgeExports[n] :
           W[<<"knowledge", x>>] = KnowledgeNode(None, 0, <<b, n>>)
  BY UpsertKeys DEF Want
<1> HIDE DEF W, byId
<1>6. CASE \E x \in DOMAIN byId : k = <<"blueprint", x>>
  <2>1. PICK x \in DOMAIN byId : k = <<"blueprint", x>>
    BY <1>6
  <2>2. W[k] = BlueprintNode(byId[x], None, 0, <<b, n>>, {}) /\ k[1] = "blueprint"
    BY <1>5, <2>1
  <2>3. W[k].bp = byId[x].bp
    BY <2>2 DEF BlueprintNode
  <2>. QED
    BY <1>3, <1>4, <2>2, <2>3
<1>7. CASE \E x \in KnowledgeExports[n] : k = <<"knowledge", x>>
  BY <1>3, <1>5, <1>7 DEF KnowledgeNode
<1>. QED
  BY <1>3, <1>5, <1>6, <1>7
---------------------------------------------------------------------------
(* Steps                                                                   *)

LEMMA InitCorpusInv == CorpusInit => CorpusInv
<1> SUFFICES ASSUME CorpusInit PROVE CorpusInv
  OBVIOUS
<1>1. graph = [nodes |-> [k \in {<<"blueprint", x>> : x \in Staged} |-> StagedNode],
               idx |-> [c \in ModelKinds |-> 0], columns |-> {},
               catalogSha |-> None, corpusSha |-> <<>>]
  BY DEF CorpusInit
<1>2. GraphShape(graph) /\ graph.corpusSha = <<>>
  BY <1>1 DEF GraphShape
<1>3. ASSUME NEW k \in DOMAIN graph.nodes
      PROVE  graph.nodes[k] = StagedNode /\ k[1] = "blueprint"
  BY <1>1
<1>4. Node(StagedNode) /\ StagedNode.source # "mcp"
  BY DEF Node, StagedNode
<1>5. StampedBySha(graph.nodes, graph.corpusSha)
  BY <1>2, <1>3, <1>4 DEF StampedBySha, StagedOnly, McpKeys, IsMcp
<1>6. Fetched(hyd, graph)
  BY DEF CorpusInit, IdleCycle, Fetched, CycleShape
<1>. QED
  BY <1>2, <1>5, <1>6 DEF CorpusInv, Whole, Published, CorpusInit

LEMMA IdleFetched == \A g : Fetched(IdleCycle, g)
BY DEF IdleCycle, Fetched, CycleShape

(* The publishers, the deployments and the failures.                       *)
LEMMA OutsideKeeps ==
    ASSUME CorpusInv, Publish \/ Deploy \/ CycleFails
    PROVE  CorpusInv'
<1>1. CASE Publish
  <2>1. mcp' \in [catalog : DOMAIN Catalogs, bps : DOMAIN BlueprintExports,
                  kns : DOMAIN KnowledgeExports]
    BY <1>1 DEF Publish, CorpusInv, Published
  <2>. QED
    BY <1>1, <2>1 DEF Publish, CorpusInv, Published, Whole
<1>2. CASE Deploy \/ CycleFails
  BY <1>2, IdleFetched DEF Deploy, CycleFails, CorpusInv, Published, Whole
<1>. QED
  BY <1>1, <1>2

(* A step of a cycle that goes on before its write keeps what was fetched. *)
LEMMA GoesOn ==
    ASSUME CorpusInv, NEW h, NEW g, CycleShape(h),
           h.bps = hyd.bps, h.kns = hyd.kns, h.pc # "write",
           hyd.pc \notin {"idle", "fetchBlueprints", "fetchKnowledge"}
    PROVE  Fetched(h, g)
BY DEF CorpusInv, Fetched

LEMMA PcStep ==
    ASSUME CycleShape(hyd), NEW to, CycleTo(to)
    PROVE  /\ CycleShape(hyd') /\ hyd'.pc = to
           /\ hyd'.bps = hyd.bps /\ hyd'.kns = hyd.kns
BY DEF CycleTo, CycleShape

(* The steps that only read.                                               *)
LEMMA FetchKeeps ==
    ASSUME CorpusInv,
           FetchCatalog \/ FetchBlueprints \/ FetchKnowledge \/ ProbeDimension \/ ReadState
    PROVE  CorpusInv'
<1>1. UNCHANGED <<mcp, graph>>
  BY DEF FetchCatalog, FetchBlueprints, FetchKnowledge, ProbeDimension, ReadState
<1>2. mcp.bps \in DOMAIN BlueprintExports /\ mcp.kns \in DOMAIN KnowledgeExports
  BY DEF CorpusInv, Published
<1>3. CycleShape(hyd)
  BY DEF CorpusInv, Fetched
<1>4. ASSUME FetchCatalog PROVE Fetched(hyd', graph)
  BY <1>4 DEF FetchCatalog, IdleCycle, Fetched, CycleShape
<1>5. ASSUME FetchBlueprints PROVE Fetched(hyd', graph)
  <2>1. hyd' = [hyd EXCEPT !.pc = "fetchKnowledge", !.bps = mcp.bps]
    BY <1>5 DEF FetchBlueprints
  <2>. QED
    BY <1>2, <1>3, <2>1 DEF Fetched, CycleShape
<1>6. ASSUME FetchKnowledge PROVE Fetched(hyd', graph)
  <2>1. hyd' = [hyd EXCEPT !.pc = "probe", !.kns = mcp.kns] /\ hyd.pc = "fetchKnowledge"
    BY <1>6 DEF FetchKnowledge, CycleAt
  <2>2. hyd.bps \in DOMAIN BlueprintExports
    BY <2>1 DEF CorpusInv, Fetched
  <2>. QED
    BY <1>2, <1>3, <2>1, <2>2 DEF Fetched, CycleShape
<1>7. ASSUME ProbeDimension \/ ReadState PROVE Fetched(hyd', graph)
  <2>1. /\ CycleShape(hyd') /\ hyd'.pc # "write"
        /\ hyd'.bps = hyd.bps /\ hyd'.kns = hyd.kns
    <3>1. CASE ProbeDimension
      <4>1. hyd' = [hyd EXCEPT !.pc = "read", !.dim = env.dim]
        BY <3>1 DEF ProbeDimension
      <4>. QED
        BY <1>3, <4>1 DEF CycleShape
    <3>2. CASE ReadState
      <4>1. PICK to \in {"dropBlueprint", "clear", "schema"} : CycleTo(to)
        BY <3>2 DEF ReadState
      <4>. QED
        BY <1>3, <4>1, PcStep
    <3>. QED
      BY <1>7, <3>1, <3>2
  <2>2. hyd.pc \in {"probe", "read"}
    BY <1>7 DEF ProbeDimension, ReadState, CycleAt
  <2>. QED
    BY <2>1, <2>2, GoesOn
<1>8. Fetched(hyd', graph)
  BY <1>4, <1>5, <1>6, <1>7
<1>. QED
  BY <1>1, <1>8 DEF CorpusInv, Published, Whole

(* The steps that write to the graph before the corpus.                    *)
LEMMA IndexKeeps ==
    ASSUME CorpusInv, DropBlueprintIndex \/ DropKnowledgeIndex \/ Recreate \/ ApplySchema
    PROVE  CorpusInv' /\ graph'.nodes = graph.nodes
<1>1. CycleShape(hyd) /\ GraphShape(graph) /\ UNCHANGED mcp
  BY DEF CorpusInv, Fetched, Whole, DropBlueprintIndex, DropIndex, DropKnowledgeIndex,
         Recreate, ApplySchema
<1>2. /\ GraphShape(graph') /\ graph'.nodes = graph.nodes
      /\ graph'.corpusSha = graph.corpusSha
  BY <1>1 DEF DropBlueprintIndex, DropIndex, DropKnowledgeIndex, Recreate, ApplySchema,
              CreateMissing, GraphShape
<1>3. Fetched(hyd', graph')
  <2>1. CASE DropBlueprintIndex \/ Recreate
    <3>1. PICK to \in {"dropKnowledge", "schema"} :
            CycleTo(to) /\ hyd.pc \in {"dropBlueprint", "recreate"}
      BY <2>1 DEF DropBlueprintIndex, DropIndex, Recreate, CycleAt
    <3>. QED
      BY <1>1, <3>1, PcStep, GoesOn
  <2>2. CASE DropKnowledgeIndex
    <3>1. /\ hyd' = [hyd EXCEPT !.pc = "clear", !.fresh = TRUE]
          /\ hyd.pc = "dropKnowledge"
      BY <2>2 DEF DropKnowledgeIndex, CycleAt
    <3>2. /\ CycleShape(hyd') /\ hyd'.pc = "clear"
          /\ hyd'.bps = hyd.bps /\ hyd'.kns = hyd.kns
      BY <1>1, <3>1 DEF CycleShape
    <3>. QED
      BY <3>1, <3>2, GoesOn
  <2>3. CASE ApplySchema
    <3>1. hyd.pc = "schema"
      BY <2>3 DEF ApplySchema, CycleAt
    <3>2. CASE CycleTo("loadCatalog")
      BY <1>1, <3>1, <3>2, PcStep, GoesOn
    <3>3. CASE Abort
      BY <3>3, IdleFetched DEF Abort
    <3>4. CASE hyd' = [hyd EXCEPT !.pc = "dropBlueprint", !.handled = TRUE]
      <4>1. /\ CycleShape(hyd') /\ hyd'.pc = "dropBlueprint"
            /\ hyd'.bps = hyd.bps /\ hyd'.kns = hyd.kns
        BY <1>1, <3>4 DEF CycleShape
      <4>. QED
        BY <3>1, <4>1, GoesOn
    <3>. QED
      BY <2>3, <3>2, <3>3, <3>4 DEF ApplySchema
  <2>. QED
    BY <2>1, <2>2, <2>3
<1>. QED
  BY <1>1, <1>2, <1>3 DEF CorpusInv, Published, Whole

(* Clear: what is left is staged, or came with another export's learning   *)
(* nodes; the stamp is gone.                                               *)
LEMMA ClearKeeps ==
    ASSUME CorpusInv, Clear
    PROVE  CorpusInv' /\ graph'.nodes = WithoutMcp(graph.nodes)
<1>1. CycleShape(hyd) /\ GraphShape(graph) /\ UNCHANGED mcp
  BY DEF CorpusInv, Fetched, Whole, Clear
<1>2. /\ GraphShape(graph') /\ graph'.nodes = WithoutMcp(graph.nodes)
      /\ graph'.corpusSha = <<>>
  BY <1>1 DEF Clear, Cleared, GraphShape
<1> DEFINE left == WithoutMcp(graph.nodes)
<1>3. /\ DOMAIN left = DOMAIN graph.nodes \ McpKeys(graph.nodes)
      /\ \A k \in DOMAIN left : left[k] = graph.nodes[k]
  BY DEF WithoutMcp
<1>4. McpKeys(left) = {}
  BY <1>3 DEF McpKeys
<1>5. StampedBySha(left, <<>>)
  BY <1>3, <1>4 DEF CorpusInv, Whole, StampedBySha, StagedOnly
<1>6. Fetched(hyd', graph')
  <2>1. PICK to \in {"recreate", "schema"} : CycleTo(to)
    BY DEF Clear
  <2>2. hyd.pc = "clear"
    BY DEF Clear, CycleAt
  <2>. QED
    BY <1>1, <2>1, <2>2, PcStep, GoesOn
<1>. QED
  BY <1>1, <1>2, <1>5, <1>6 DEF CorpusInv, Published, Whole

(* The catalog's load takes edges away and touches nothing else of a node. *)
LEMMA TrimmedNode ==
    ASSUME NEW n, Node(n), NEW cols
    PROVE  LET t == [n EXCEPT !.edges = @ \cap cols] IN
           /\ Node(t) /\ t.source = n.source /\ t.sha = n.sha
           /\ Content(t) = Content(n)
           /\ n = StagedNode => t = StagedNode
<1> DEFINE t == [n EXCEPT !.edges = @ \cap cols]
<1>1. t = [source |-> n.source, status |-> n.status, drift |-> n.drift, bp |-> n.bp,
           model |-> n.model, dim |-> n.dim, sha |-> n.sha, edges |-> n.edges \cap cols]
  <2> DEFINE less == n.edges \cap cols
  <2>1. t = [n EXCEPT !.edges = less]
    OBVIOUS
  <2> HIDE DEF less, t
  <2>2. [n EXCEPT !.edges = less]
          = [source |-> n.source, status |-> n.status, drift |-> n.drift, bp |-> n.bp,
             model |-> n.model, dim |-> n.dim, sha |-> n.sha, edges |-> less]
    BY DEF Node
  <2>. QED
    BY <2>1, <2>2 DEF less
<1> HIDE DEF t
<1>2. Node(t) /\ t.source = n.source /\ t.sha = n.sha /\ Content(t) = Content(n)
  BY <1>1 DEF Node, Content
<1>3. ASSUME n = StagedNode PROVE t = StagedNode
  <2>1. n.edges \cap cols = {}
    BY <1>3 DEF StagedNode
  <2>. QED
    BY <1>1, <1>3, <2>1 DEF StagedNode
<1>. QED
  BY <1>2, <1>3 DEF t

LEMMA LoadCatalogKeeps ==
    ASSUME CorpusInv, LoadCatalog
    PROVE  /\ CorpusInv'
           /\ graph' # graph => graph'.nodes = EdgesWithin(graph.nodes, Catalogs[hyd.catalog])
<1>1. CycleShape(hyd) /\ GraphShape(graph) /\ UNCHANGED mcp
  BY DEF CorpusInv, Fetched, Whole, LoadCatalog
<1>2. Fetched(hyd', graph')
  BY <1>1, PcStep, GoesOn DEF LoadCatalog, CycleAt
<1>3. CASE graph' = graph
  BY <1>1, <1>2, <1>3 DEF CorpusInv, Published, Whole
<1>4. CASE graph' = WithCatalog(graph, hyd.catalog)
  <2> DEFINE cols == Catalogs[hyd.catalog]
             new == EdgesWithin(graph.nodes, cols)
  <2>1. GraphShape(graph') /\ graph'.nodes = new /\ graph'.corpusSha = graph.corpusSha
    <3>1. graph' = [graph EXCEPT !.columns = cols, !.catalogSha = hyd.catalog, !.nodes = new]
      BY <1>4 DEF WithCatalog
    <3> HIDE DEF new, cols
    <3>. QED
      BY <1>1, <3>1 DEF GraphShape
  <2>2. DOMAIN new = DOMAIN graph.nodes
    BY DEF EdgesWithin
  <2>3. \A k \in DOMAIN new :
          /\ Node(new[k]) /\ new[k].source = graph.nodes[k].source
          /\ new[k].sha = graph.nodes[k].sha
          /\ Content(new[k]) = Content(graph.nodes[k])
          /\ graph.nodes[k] = StagedNode => new[k] = StagedNode
    <3>1. \A k \in DOMAIN new : new[k] = [graph.nodes[k] EXCEPT !.edges = @ \cap cols]
      BY DEF EdgesWithin
    <3>2. \A k \in DOMAIN graph.nodes : Node(graph.nodes[k])
      BY DEF CorpusInv, Whole, StampedBySha
    <3> HIDE DEF new, cols
    <3>3. ASSUME NEW k \in DOMAIN new
          PROVE  /\ Node(new[k]) /\ new[k].source = graph.nodes[k].source
                 /\ new[k].sha = graph.nodes[k].sha
                 /\ Content(new[k]) = Content(graph.nodes[k])
                 /\ graph.nodes[k] = StagedNode => new[k] = StagedNode
      <4> DEFINE n == graph.nodes[k]
      <4>1. Node(n) /\ new[k] = [n EXCEPT !.edges = @ \cap cols]
        BY <2>2, <3>1, <3>2
      <4> HIDE DEF n
      <4>2. LET t == [n EXCEPT !.edges = @ \cap cols] IN
            /\ Node(t) /\ t.source = n.source /\ t.sha = n.sha
            /\ Content(t) = Content(n)
            /\ n = StagedNode => t = StagedNode
        BY <4>1, TrimmedNode
      <4>. QED
        BY <4>1, <4>2 DEF n
    <3>. QED
      BY <3>3
  <2> HIDE DEF new
  <2>4. McpKeys(new) = McpKeys(graph.nodes)
    BY <2>2, <2>3 DEF McpKeys, IsMcp
  <2>5. \A b, n : HoldsExport(graph.nodes, b, n) => HoldsExport(new, b, n)
    <3>1. \A k \in McpKeys(new) : k \in DOMAIN new
      BY DEF McpKeys
    <3>. QED
      BY <2>3, <2>4, <3>1 DEF HoldsExport
  <2>6. StampedBySha(new, graph.corpusSha)
    <3>1. \A k \in McpKeys(new) : k \in DOMAIN new
      BY DEF McpKeys
    <3>. QED
      BY <2>2, <2>3, <2>4, <2>5, <3>1 DEF CorpusInv, Whole, StampedBySha, StagedOnly
  <2>. QED
    BY <1>1, <1>2, <2>1, <2>6 DEF CorpusInv, Published, Whole, new
<1>. QED
  BY <1>3, <1>4 DEF LoadCatalog

LEMMA LoadCorpusKeeps ==
    ASSUME CorpusInv, LoadCorpus
    PROVE  CorpusInv'
<1>1. CycleShape(hyd) /\ UNCHANGED <<mcp, graph>> /\ hyd.pc = "loadCorpus"
  BY DEF CorpusInv, Fetched, LoadCorpus, CycleAt
<1>2. CASE Abort
  BY <1>1, <1>2, IdleFetched DEF Abort, CorpusInv, Published, Whole
<1>3. CASE /\ graph.corpusSha # <<hyd.bps, hyd.kns>> /\ Compiled[hyd.bps].ok
           /\ CycleTo("write")
  <2>1. /\ CycleShape(hyd') /\ hyd'.bps = hyd.bps /\ hyd'.kns = hyd.kns
    BY <1>1, <1>3, PcStep
  <2>2. Fetched(hyd', graph)
    BY <1>1, <1>3, <2>1 DEF CorpusInv, Fetched
  <2>. QED
    BY <1>1, <2>2 DEF CorpusInv, Published, Whole
<1>. QED
  BY <1>2, <1>3 DEF LoadCorpus

(* The write: what it brings, and what it leaves of the rest.              *)
LEMMA WrittenNodes ==
    ASSUME CorpusInv, hyd.pc = "write"
    PROVE  LET U == Upserts(hyd.bps, hyd.kns, env.model, hyd.dim, graph.columns)
               sha == <<hyd.bps, hyd.kns>>
               new == CollectGarbage(Merged(U, graph.nodes), sha)
           IN  /\ StampedBySha(new, sha)
               /\ \A k \in DOMAIN U : k \in DOMAIN new /\ new[k] = U[k]
               /\ \A k \in DOMAIN graph.nodes \ DOMAIN U :
                    graph.nodes[k].sha = <<>> => k \in DOMAIN new /\ new[k] = graph.nodes[k]
<1> DEFINE U == Upserts(hyd.bps, hyd.kns, env.model, hyd.dim, graph.columns)
           sha == <<hyd.bps, hyd.kns>>
           old == graph.nodes
           all == Merged(U, old)
           new == CollectGarbage(all, sha)
           W == Want(hyd.bps, hyd.kns)
<1>1. /\ \A k \in DOMAIN U : Node(U[k]) /\ U[k].sha = sha
      /\ DOMAIN U = DOMAIN W
      /\ \A k \in DOMAIN U : Content(U[k]) = Content(W[k])
      /\ McpKeys(U) = McpKeys(W)
  BY UpsertContent
<1>2. StampedBySha(old, graph.corpusSha) /\ graph.corpusSha # sha
  BY DEF CorpusInv, Whole, Fetched
<1>3. /\ hyd.bps \in DOMAIN BlueprintExports /\ hyd.kns \in DOMAIN KnowledgeExports
      /\ Compiled[hyd.bps].ok
  BY DEF CorpusInv, Fetched
<1>4. sha # <<>>
  OBVIOUS
<1> HIDE DEF U, W, sha, old
<1>5. /\ DOMAIN all = DOMAIN U \cup DOMAIN old
      /\ \A k \in DOMAIN U : all[k] = U[k]
      /\ \A k \in DOMAIN old \ DOMAIN U : all[k] = old[k]
  BY DEF Merged
<1> HIDE DEF all
<1>6. /\ DOMAIN new = {q \in DOMAIN all : IsMcp(all[q]) => all[q].sha = sha}
      /\ \A k \in DOMAIN new : new[k] = all[k]
  BY DEF CollectGarbage
<1> HIDE DEF new
<1>7. \A k \in DOMAIN U : k \in DOMAIN new /\ new[k] = U[k]
  BY <1>1, <1>5, <1>6
<1>8. \A k \in DOMAIN new \ DOMAIN U :
        k \in DOMAIN old /\ new[k] = old[k] /\ ~IsMcp(old[k])
  BY <1>2, <1>5, <1>6 DEF StampedBySha, McpKeys
<1>9. McpKeys(new) = McpKeys(U)
  BY <1>7, <1>8 DEF McpKeys
<1>10. \A k \in DOMAIN new : Node(new[k])
  BY <1>1, <1>2, <1>7, <1>8 DEF StampedBySha
<1>11. StagedOnly(new)
  BY <1>1, <1>2, <1>4, <1>7, <1>8 DEF StampedBySha, StagedOnly
<1>12. \A k \in McpKeys(new) : new[k].sha = sha
  BY <1>1, <1>7, <1>9 DEF McpKeys
<1>13. HoldsExport(new, hyd.bps, hyd.kns)
  <2>1. \A k \in McpKeys(W) : k \in DOMAIN U
    BY <1>1 DEF McpKeys
  <2>. QED
    BY <1>1, <1>3, <1>7, <1>9, <2>1 DEF HoldsExport, W
<1>14. StampedBySha(new, sha)
  BY <1>10, <1>11, <1>12, <1>13 DEF StampedBySha, sha
<1>15. ASSUME NEW k \in DOMAIN old \ DOMAIN U, old[k].sha = <<>>
       PROVE  k \in DOMAIN new /\ new[k] = old[k]
  <2>1. ~IsMcp(old[k])
    BY <1>2, <1>15 DEF StampedBySha, StagedOnly, StagedNode, IsMcp
  <2>. QED
    BY <1>5, <1>6, <1>15, <2>1
<1>. QED
  BY <1>7, <1>14, <1>15 DEF U, sha, old, new, all

LEMMA WriteKeeps ==
    ASSUME CorpusInv, WriteCorpus
    PROVE  CorpusInv'
<1>1. GraphShape(graph) /\ UNCHANGED mcp /\ hyd.pc = "write" /\ hyd' = IdleCycle
  BY DEF CorpusInv, Whole, WriteCorpus, Abort, CycleAt
<1>2. CASE graph' = graph
  BY <1>1, <1>2, IdleFetched DEF CorpusInv, Published, Whole
<1>3. CASE graph' = Written(graph, hyd, env)
  <2> DEFINE sha == <<hyd.bps, hyd.kns>>
             new == CollectGarbage(Merged(Upserts(hyd.bps, hyd.kns, env.model, hyd.dim,
                                                  graph.columns), graph.nodes), sha)
  <2>1. graph' = [graph EXCEPT !.nodes = new, !.corpusSha = sha]
    BY <1>3 DEF Written
  <2>2. StampedBySha(new, sha)
    BY <1>1, WrittenNodes
  <2> HIDE DEF new, sha
  <2>3. GraphShape(graph') /\ graph'.nodes = new /\ graph'.corpusSha = sha
    BY <1>1, <2>1 DEF GraphShape
  <2>. QED
    BY <1>1, <2>2, <2>3, IdleFetched DEF CorpusInv, Published, Whole
<1>. QED
  BY <1>2, <1>3 DEF WriteCorpus

LEMMA NextKeepsCorpusInv == CorpusInv /\ [CorpusNext]_corpusVars => CorpusInv'
<1> SUFFICES ASSUME CorpusInv, [CorpusNext]_corpusVars PROVE CorpusInv'
  OBVIOUS
<1>1. CASE UNCHANGED corpusVars
  BY <1>1 DEF corpusVars, CorpusInv, Published, Whole
<1>2. CASE CorpusNext
  BY <1>2, OutsideKeeps, FetchKeeps, IndexKeeps, ClearKeeps, LoadCatalogKeeps,
     LoadCorpusKeeps, WriteKeeps DEF CorpusNext, CycleStep
<1>. QED
  BY <1>1, <1>2

---------------------------------------------------------------------------
(* The theorems                                                            *)

(* In every reachable state the stamp names an accepted export, and the    *)
(* mcp partition is that export.                                           *)
THEOREM CorpusInvariant == CorpusSpec => []CorpusInv
BY InitCorpusInv, NextKeepsCorpusInv, PTL DEF CorpusSpec

(* graph_ready reads one sha, and it stands for the whole partition: what  *)
(* is under a stamp is the stamped export, and without a stamp there is    *)
(* nothing, wherever a cycle raised or was killed.                         *)
THEOREM ReadyIsComplete == CorpusSpec => []ReadyMeansComplete
<1>1. CorpusInv => ReadyMeansComplete
  <2> SUFFICES ASSUME CorpusInv PROVE ReadyMeansComplete
    OBVIOUS
  <2> DEFINE sha == graph.corpusSha
             want == Upserts(sha[1], sha[2], env.model, env.dim, {})
  <2>1. StampedBySha(graph.nodes, sha)
    BY DEF CorpusInv, Whole
  <2>2. CASE sha = <<>>
    <3>1. McpKeys(graph.nodes) = {}
      BY <2>1, <2>2 DEF StampedBySha, StagedOnly, StagedNode, McpKeys, IsMcp
    <3>. QED
      BY <2>2, <3>1 DEF ReadyMeansComplete, GraphReady
  <2>3. CASE sha # <<>>
    <3>1. PICK b, n : sha = <<b, n>> /\ HoldsExport(graph.nodes, b, n)
      BY <2>1, <2>3 DEF StampedBySha
    <3>2. want = Upserts(b, n, env.model, env.dim, {})
      BY <3>1
    <3>3. /\ McpKeys(want) = McpKeys(Want(b, n))
          /\ \A k \in DOMAIN want : Content(want[k]) = Content(Want(b, n)[k])
      BY <3>2, UpsertContent
    <3> HIDE DEF want
    <3>4. \A k \in McpKeys(want) : k \in DOMAIN want
      BY DEF McpKeys
    <3>5. /\ McpKeys(graph.nodes) = McpKeys(want)
          /\ \A k \in McpKeys(want) : Content(graph.nodes[k]) = Content(want[k])
      BY <3>1, <3>3, <3>4 DEF HoldsExport
    <3>. QED
      BY <2>3, <3>5 DEF ReadyMeansComplete, GraphReady, want, Content
  <2>. QED
    BY <2>2, <2>3
<1>. QED
  BY <1>1, CorpusInvariant, PTL

(* What a reader gets is of the mcp tier and in its scope.                 *)
LEMMA ServedNodes ==
    ASSUME NEW scope, NEW k \in Served(graph, env, scope)
    PROVE  /\ k \in McpKeys(graph.nodes)
           /\ k[1] = "blueprint" => InScope(graph.nodes[k].bp.uses, scope)
BY DEF Served, Recalled, RecallEligible, GetBlueprint, McpKeys, IsMcp

(* Every column a blueprint reads comes from a template, a rule or a slot. *)
LEMMA ReadsOf ==
    ASSUME NEW b, NEW x \in Reads(b)
    PROVE  \/ \E t \in Templates(b) : x \in t.reads
           \/ x \in Range(b.rules)
           \/ \E i \in DOMAIN b.slots : x = b.slots[i].binds /\ x # "none"
BY DEF Reads, None

(* What is served is blank or valid, so it reads what it declares.         *)
LEMMA InScopeWhileStamped == CorpusInv => ServedInScope
<1> SUFFICES ASSUME CorpusInv, NEW scope \in Scopes \ {{}},
                    NEW k \in Served(graph, env, scope)
             PROVE  Reads(graph.nodes[k].bp) \subseteq scope
  BY DEF ServedInScope
<1> DEFINE b == graph.nodes[k].bp
<1>1. \/ ValidDag(b) /\ k[1] = "blueprint"
      \/ b = Blank
  BY ServedNodes, AcceptedNode DEF CorpusInv, Whole
<1>2. k[1] = "blueprint" => b.uses \subseteq scope
  BY ServedNodes DEF InScope
<1> HIDE DEF b
<1>3. CASE ValidDag(b) /\ k[1] = "blueprint"
  <2>1. \A t \in Templates(b) : t.reads \subseteq b.uses
    BY <1>3 DEF ValidDag, ValidTemplate, ReadsWithinUses
  <2>2. Range(b.rules) \subseteq b.uses
    BY <1>3 DEF ValidDag, ValidRules, RuleTokens, Range
  <2>3. \A i \in DOMAIN b.slots : b.slots[i].binds # "none" => b.slots[i].binds \in b.uses
    BY <1>3 DEF ValidDag, ValidSlotUse
  <2>4. Reads(b) \subseteq b.uses
    <3>1. SUFFICES ASSUME NEW x \in Reads(b) PROVE x \in b.uses
      OBVIOUS
    <3>2. CASE \E t \in Templates(b) : x \in t.reads
      BY <2>1, <3>2
    <3>3. CASE x \in Range(b.rules)
      BY <2>2, <3>3
    <3>4. CASE \E i \in DOMAIN b.slots : x = b.slots[i].binds /\ x # "none"
      BY <2>3, <3>4
    <3>. QED
      BY <3>1, ReadsOf, <3>2, <3>3, <3>4
  <2>. QED
    BY <1>2, <1>3, <2>4 DEF b
<1>4. CASE b = Blank
  <2>1. b.nodes = <<>> /\ b.sql = NoSql /\ b.slots = <<>> /\ b.rules = <<>>
    BY <1>4 DEF Blank
  <2>2. Templates(b) = {}
    BY <2>1 DEF Templates, HasSql, NoSql
  <2>3. Reads(b) = {}
    BY <2>1, <2>2 DEF Reads, Range
  <2>. QED
    BY <2>3 DEF b
<1>. QED
  BY <1>1, <1>3, <1>4

(* The scope check of recall and getBlueprint looks at declared columns    *)
(* only; a served query reads no other, its inlined references, rules and  *)
(* slots included (_assert_template_reads_within_uses).                    *)
THEOREM ServedStaysInScope == CorpusSpec => []ServedInScope
BY InScopeWhileStamped, CorpusInvariant, PTL

(* And what is valid can run.                                              *)
LEMMA RunnableWhileStamped == CorpusInv => ServedIsRunnable
<1> SUFFICES ASSUME CorpusInv, NEW k \in Served(graph, env, {}), k[1] = "blueprint"
             PROVE  LET b == graph.nodes[k].bp IN
                    /\ ParsesBlueprint(b) /\ RefNodes(b) = {} /\ IsDag(b.nodes)
                    /\ \A t \in Templates(b) :
                         /\ ReadOnly(t)
                         /\ ReferencedSlots(t) \subseteq AllSlotTokens(b) \cup RuleTokens(b)
  BY DEF ServedIsRunnable
<1>1. ValidDag(graph.nodes[k].bp)
  BY ServedNodes, AcceptedNode DEF CorpusInv, Whole
<1>. QED
  BY <1>1 DEF ValidDag, ValidTemplate, ParsesBlueprint, ParsesNode, RefNodes

(* What recall or getBlueprint hands out, the executor can walk, although  *)
(* nobody validates it again (validate_blueprint_dag before the write).    *)
THEOREM ServedCanRun == CorpusSpec => []ServedIsRunnable
BY RunnableWhileStamped, CorpusInvariant, PTL

(* The hydrator never destroys the staging tier: a staged node is changed  *)
(* only by an export that brings its id (the source='mcp' in every DELETE  *)
(* of the loader).                                                         *)
THEOREM StagingIsKept == CorpusSpec => LearningTierKept
<1> DEFINE NodeStays == \A k \in DOMAIN graph.nodes :
         ~IsMcp(graph.nodes[k]) /\ graph.nodes[k].sha = <<>> =>
           \/ k \in DOMAIN graph'.nodes /\ graph'.nodes[k] = graph.nodes[k]
           \/ k[2] \in DOMAIN Compiled[hyd.bps].byId
<1>1. CorpusInv /\ [CorpusNext]_corpusVars => [NodeStays]_corpusVars
  <2> SUFFICES ASSUME CorpusInv, CorpusNext,
                      NEW k \in DOMAIN graph.nodes,
                      ~IsMcp(graph.nodes[k]), graph.nodes[k].sha = <<>>
               PROVE  \/ k \in DOMAIN graph'.nodes /\ graph'.nodes[k] = graph.nodes[k]
                      \/ k[2] \in DOMAIN Compiled[hyd.bps].byId
    OBVIOUS
  <2>1. graph.nodes[k] = StagedNode /\ k[1] = "blueprint"
    BY DEF CorpusInv, Whole, StampedBySha, StagedOnly
  <2>2. CASE graph'.nodes = graph.nodes
    BY <2>2
  <2>3. CASE Clear
    BY <2>3, ClearKeeps DEF WithoutMcp, McpKeys
  <2>4. CASE LoadCatalog
    <3>1. CASE graph' # graph
      <4>1. Node(graph.nodes[k])
        BY DEF CorpusInv, Whole, StampedBySha
      <4>2. graph'.nodes = EdgesWithin(graph.nodes, Catalogs[hyd.catalog])
        BY <2>4, <3>1, LoadCatalogKeeps
      <4>. QED
        BY <2>1, <4>1, <4>2, TrimmedNode DEF EdgesWithin
    <3>. QED
      BY <3>1
  <2>5. CASE WriteCorpus /\ graph' = Written(graph, hyd, env)
    <3> DEFINE U == Upserts(hyd.bps, hyd.kns, env.model, hyd.dim, graph.columns)
               new == CollectGarbage(Merged(U, graph.nodes), <<hyd.bps, hyd.kns>>)
    <3>1. graph'.nodes = new
      BY <2>5 DEF Written, CorpusInv, Whole, GraphShape
    <3>2. \A q \in DOMAIN graph.nodes \ DOMAIN U :
            graph.nodes[q].sha = <<>> => q \in DOMAIN new /\ new[q] = graph.nodes[q]
      BY <2>5, WrittenNodes DEF WriteCorpus, CycleAt
    <3>3. \A q \in DOMAIN Upserts(hyd.bps, hyd.kns, env.model, hyd.dim, graph.columns) :
            \/ \E x \in DOMAIN Compiled[hyd.bps].byId : q = <<"blueprint", x>>
            \/ \E x \in KnowledgeExports[hyd.kns] : q = <<"knowledge", x>>
      BY UpsertOrigin
    <3> HIDE DEF U, new
    <3>4. CASE k \in DOMAIN U
      BY <2>1, <3>3, <3>4 DEF U
    <3>5. CASE k \notin DOMAIN U
      BY <3>1, <3>2, <3>5
    <3>. QED
      BY <3>4, <3>5
  <2>6. \/ graph'.nodes = graph.nodes \/ Clear \/ LoadCatalog
        \/ WriteCorpus /\ graph' = Written(graph, hyd, env)
    <3>1. CASE Publish \/ Deploy \/ CycleFails
      BY <3>1 DEF Publish, Deploy, CycleFails
    <3>2. CASE FetchCatalog \/ FetchBlueprints \/ FetchKnowledge \/ ProbeDimension \/ ReadState
      BY <3>2 DEF FetchCatalog, FetchBlueprints, FetchKnowledge, ProbeDimension, ReadState
    <3>3. CASE DropBlueprintIndex \/ DropKnowledgeIndex \/ Recreate \/ ApplySchema
      BY <3>3, IndexKeeps
    <3>4. CASE LoadCorpus \/ WriteCorpus
      BY <3>4 DEF LoadCorpus, WriteCorpus
    <3>. QED
      BY <3>1, <3>2, <3>3, <3>4 DEF CorpusNext, CycleStep
  <2>. QED
    BY <2>2, <2>3, <2>4, <2>5, <2>6
<1>. QED
  BY <1>1, CorpusInvariant, PTL DEF CorpusSpec, LearningTierKept

---------------------------------------------------------------------------
(* Numbers and positions in order.                                         *)

(* How many members of a set are below a number.                           *)
Below(S, i) == {j \in S : j < i}

LEMMA BelowFacts ==
    ASSUME NEW S, S \subseteq Int, IsFiniteSet(S)
    PROVE  /\ Cardinality(S) \in Nat
           /\ \A i \in S : Cardinality(Below(S, i)) \in 0..(Cardinality(S) - 1)
           /\ \A i, j \in S : i < j => Cardinality(Below(S, i)) < Cardinality(Below(S, j))
<1>1. Cardinality(S) \in Nat
  BY FS_CardinalityType
<1>2. \A i \in Int : IsFiniteSet(Below(S, i)) /\ Cardinality(Below(S, i)) \in Nat
  <2> SUFFICES ASSUME NEW i \in Int
               PROVE  IsFiniteSet(Below(S, i)) /\ Cardinality(Below(S, i)) \in Nat
    OBVIOUS
  <2>1. Below(S, i) \subseteq S
    BY DEF Below
  <2>2. IsFiniteSet(Below(S, i))
    BY <2>1, FS_Subset
  <2> QED
    BY <2>2, FS_CardinalityType
<1>3. \A i \in S : IsFiniteSet(Below(S, i) \cup {i})
                   /\ Cardinality(Below(S, i) \cup {i}) = Cardinality(Below(S, i)) + 1
  <2> SUFFICES ASSUME NEW i \in S
               PROVE  IsFiniteSet(Below(S, i) \cup {i})
                      /\ Cardinality(Below(S, i) \cup {i}) = Cardinality(Below(S, i)) + 1
    OBVIOUS
  <2>1. IsFiniteSet(Below(S, i)) /\ i \notin Below(S, i)
    BY <1>2 DEF Below
  <2> QED
    BY <2>1, FS_AddElement
<1>4. \A i \in S : Cardinality(Below(S, i)) + 1 <= Cardinality(S)
  <2> SUFFICES ASSUME NEW i \in S PROVE Cardinality(Below(S, i)) + 1 <= Cardinality(S)
    OBVIOUS
  <2>1. Below(S, i) \cup {i} \in SUBSET S
    BY DEF Below
  <2>2. Cardinality(Below(S, i) \cup {i}) <= Cardinality(S)
    BY <2>1, FS_Subset
  <2> QED
    BY <1>3, <2>2
<1>5. \A i, j \in S : i < j => Cardinality(Below(S, i)) + 1 <= Cardinality(Below(S, j))
  <2> SUFFICES ASSUME NEW i \in S, NEW j \in S, i < j
               PROVE  Cardinality(Below(S, i)) + 1 <= Cardinality(Below(S, j))
    OBVIOUS
  <2>1. i \in Int /\ j \in Int
    OBVIOUS
  <2>2. ASSUME NEW x \in Below(S, i) \cup {i} PROVE x \in Below(S, j)
    <3>1. x \in S /\ x \in Int /\ (x = i \/ x < i)
      BY DEF Below
    <3>2. x < j
      BY <2>1, <3>1
    <3> QED
      BY <3>1, <3>2 DEF Below
  <2>5. Below(S, i) \cup {i} \in SUBSET Below(S, j)
    BY <2>2
  <2>3. IsFiniteSet(Below(S, j))
    BY <1>2, <2>1
  <2>4. Cardinality(Below(S, i) \cup {i}) <= Cardinality(Below(S, j))
    BY <2>5, <2>3, FS_Subset
  <2> QED
    BY <1>3, <2>4
<1>6. ASSUME NEW i \in S PROVE Cardinality(Below(S, i)) \in 0..(Cardinality(S) - 1)
  <2>1. Cardinality(Below(S, i)) \in Nat /\ Cardinality(Below(S, i)) + 1 <= Cardinality(S)
    BY <1>2, <1>4
  <2> QED
    BY <1>1, <2>1
<1>7. ASSUME NEW i \in S, NEW j \in S, i < j
      PROVE  Cardinality(Below(S, i)) < Cardinality(Below(S, j))
  <2>1. /\ Cardinality(Below(S, i)) \in Nat /\ Cardinality(Below(S, j)) \in Nat
        /\ Cardinality(Below(S, i)) + 1 <= Cardinality(Below(S, j))
    BY <1>2, <1>5, <1>7
  <2> QED
    BY <2>1
<1> QED
  BY <1>1, <1>6, <1>7

(* Every rank is somebody's.                                               *)
LEMMA EveryRank ==
    ASSUME NEW S, S \subseteq Int, IsFiniteSet(S), NEW k \in 1..Cardinality(S)
    PROVE  \E i \in S : Cardinality(Below(S, i)) = k - 1
<1> DEFINE f == [i \in S |-> Cardinality(Below(S, i)) + 1]
           n == Cardinality(S)
<1>1. n \in Nat /\ IsFiniteSet(1..n) /\ Cardinality(1..n) = n
  <2>1. n \in Nat
    BY FS_CardinalityType
  <2>2. IsFiniteSet(1..n) /\ Cardinality(1..n) = IF 1 > n THEN 0 ELSE n - 1 + 1
    BY <2>1, FS_Interval
  <2> QED
    BY <2>1, <2>2
<1>2. f \in [S -> 1..n]
  <2>1. ASSUME NEW i \in S PROVE Cardinality(Below(S, i)) + 1 \in 1..n
    <3>1. Cardinality(Below(S, i)) \in 0..(n - 1)
      BY BelowFacts
    <3> QED
      BY <1>1, <3>1
  <2> QED
    BY <2>1
<1>3. \A i, j \in S : f[i] = f[j] => i = j
  <2> SUFFICES ASSUME NEW i \in S, NEW j \in S, i # j PROVE f[i] # f[j]
    OBVIOUS
  <2>0. /\ \A x \in S : Cardinality(Below(S, x)) \in 0..(n - 1)
        /\ \A x, y \in S : x < y => Cardinality(Below(S, x)) < Cardinality(Below(S, y))
    BY BelowFacts
  <2>1. /\ Cardinality(Below(S, i)) \in 0..(n - 1) /\ Cardinality(Below(S, j)) \in 0..(n - 1)
        /\ i < j => Cardinality(Below(S, i)) < Cardinality(Below(S, j))
        /\ j < i => Cardinality(Below(S, j)) < Cardinality(Below(S, i))
    BY <2>0
  <2>2. i < j \/ j < i
    OBVIOUS
  <2> QED
    BY <1>1, <2>1, <2>2
<1>4. f \in Injection(S, 1..n)
  BY <1>2, <1>3 DEF Injection, IsInjective
<1>5. f \in Surjection(S, 1..n)
  BY <1>1, <1>4, FS_Injection
<1>6. PICK i \in S : f[i] = k
  BY <1>5 DEF Surjection
<1>7. Cardinality(Below(S, i)) \in 0..(n - 1)
  BY BelowFacts
<1> QED
  BY <1>6, <1>7

LEMMA InOrderFacts ==
    ASSUME NEW S, S \subseteq Int, IsFiniteSet(S)
    PROVE  /\ InOrder(S) \in Seq(S) /\ Len(InOrder(S)) = Cardinality(S)
           /\ \A i \in S : \E k \in 1..Len(InOrder(S)) : InOrder(S)[k] = i
           /\ \A k, l \in 1..Len(InOrder(S)) : k < l => InOrder(S)[k] < InOrder(S)[l]
<1> DEFINE n == Cardinality(S)
           p == InOrder(S)
<1>1. n \in Nat
  BY FS_CardinalityType
<1>2. \A k \in 1..n : p[k] \in S /\ Cardinality(Below(S, p[k])) = k - 1
  <2> SUFFICES ASSUME NEW k \in 1..n
               PROVE  p[k] \in S /\ Cardinality(Below(S, p[k])) = k - 1
    OBVIOUS
  <2>1. p[k] = CHOOSE i \in S : Cardinality(Below(S, i)) = k - 1
    BY DEF InOrder, Below
  <2>2. \E i \in S : Cardinality(Below(S, i)) = k - 1
    BY EveryRank
  <2> QED
    BY <2>1, <2>2
<1>3. p \in Seq(S) /\ Len(p) = n
  <2> DEFINE Nth(k) == CHOOSE i \in S : Cardinality({j \in S : j < i}) = k - 1
  <2>1. p = [k \in 1..n |-> Nth(k)]
    BY DEF InOrder
  <2> HIDE DEF Nth, p
  <2>2. p \in [1..n -> S]
    BY <1>2, <2>1
  <2> QED
    BY <1>1, <2>2
<1>4. ASSUME NEW k \in 1..n, NEW l \in 1..n, k < l PROVE p[k] < p[l]
  <2>1. /\ p[k] \in S /\ Cardinality(Below(S, p[k])) = k - 1
        /\ p[l] \in S /\ Cardinality(Below(S, p[l])) = l - 1
    BY <1>2
  <2>2. p[l] < p[k] => Cardinality(Below(S, p[l])) < Cardinality(Below(S, p[k]))
    BY <2>1, BelowFacts
  <2>3. p[k] \in Int /\ p[l] \in Int
    BY <2>1
  <2> HIDE DEF p, n
  <2>4. ~(p[l] < p[k]) /\ p[l] # p[k]
    BY <1>1, <1>4, <2>1, <2>2
  <2> QED
    BY <2>3, <2>4
<1>5. ASSUME NEW i \in S PROVE \E k \in 1..n : p[k] = i
  <2> DEFINE k == Cardinality(Below(S, i)) + 1
  <2>1. Cardinality(Below(S, i)) \in 0..(n - 1)
    BY BelowFacts
  <2>2. k \in 1..n
    BY <1>1, <2>1
  <2>3. p[k] \in S /\ Cardinality(Below(S, p[k])) = Cardinality(Below(S, i))
    BY <1>2, <2>1, <2>2
  <2>4. /\ i < p[k] => Cardinality(Below(S, i)) < Cardinality(Below(S, p[k]))
        /\ p[k] < i => Cardinality(Below(S, p[k])) < Cardinality(Below(S, i))
    BY <2>3, BelowFacts
  <2>5. ~(i < p[k]) /\ ~(p[k] < i)
    BY <2>1, <2>3, <2>4
  <2>6. i \in Int /\ p[k] \in Int
    BY <2>3
  <2> HIDE DEF p, k
  <2>7. p[k] = i
    BY <2>5, <2>6
  <2> QED
    BY <2>2, <2>7
<1> HIDE DEF p, n
<1>6. /\ p \in Seq(S) /\ Len(p) = n
      /\ \A i \in S : \E k \in 1..Len(p) : p[k] = i
      /\ \A k, l \in 1..Len(p) : k < l => p[k] < p[l]
  BY <1>3, <1>4, <1>5
<1> QED
  BY <1>6 DEF p, n

(* A list comprehension keeps the chosen positions, all of them, in order. *)
LEMMA PickFacts ==
    ASSUME NEW U, NEW s \in Seq(U), NEW S \in SUBSET (1..Len(s))
    PROVE  /\ Pick(s, S) \in Seq(U)
           /\ DOMAIN Pick(s, S) = DOMAIN InOrder(S)
           /\ DOMAIN InOrder(S) = 1..Len(Pick(s, S))
           /\ \A k \in DOMAIN InOrder(S) : InOrder(S)[k] \in S /\ Pick(s, S)[k] = s[InOrder(S)[k]]
           /\ \A i \in S : \E k \in DOMAIN InOrder(S) : InOrder(S)[k] = i
           /\ \A k, l \in DOMAIN InOrder(S) : k < l => InOrder(S)[k] < InOrder(S)[l]
<1> DEFINE p == InOrder(S)
<1>1. S \subseteq Int /\ IsFiniteSet(S)
  <2>1. IsFiniteSet(1..Len(s)) /\ S \in SUBSET (1..Len(s))
    BY FS_Interval
  <2>2. IsFiniteSet(S)
    BY <2>1, FS_Subset
  <2> QED
    BY <2>2
<1>2. /\ p \in Seq(S)
      /\ \A i \in S : \E k \in 1..Len(p) : p[k] = i
      /\ \A k, l \in 1..Len(p) : k < l => p[k] < p[l]
  BY <1>1, InOrderFacts
<1>3. Pick(s, S) = [k \in DOMAIN p |-> s[p[k]]]
  BY DEF Pick
<1> HIDE DEF p
<1>4. DOMAIN p = 1..Len(p) /\ Len(p) \in Nat /\ \A k \in DOMAIN p : p[k] \in S
  BY <1>2
<1>5. \A k \in DOMAIN p : s[p[k]] \in U
  <2>1. \A i \in S : s[i] \in U
    OBVIOUS
  <2> QED
    BY <1>4, <2>1
<1>6. Pick(s, S) \in Seq(U) /\ Len(Pick(s, S)) = Len(p) /\ DOMAIN Pick(s, S) = DOMAIN p
  BY <1>3, <1>4, <1>5
<1>7. /\ Pick(s, S) \in Seq(U) /\ DOMAIN Pick(s, S) = DOMAIN p /\ DOMAIN p = 1..Len(Pick(s, S))
      /\ \A k \in DOMAIN p : p[k] \in S /\ Pick(s, S)[k] = s[p[k]]
      /\ \A i \in S : \E k \in DOMAIN p : p[k] = i
      /\ \A k, l \in DOMAIN p : k < l => p[k] < p[l]
  BY <1>2, <1>3, <1>4, <1>6
<1> QED
  BY <1>7 DEF p

---------------------------------------------------------------------------
(* The depth-first search over the references.                             *)
ReferenceMap(refs, ids) ==
    /\ IsFiniteSet(ids) /\ DOMAIN refs \subseteq ids
    /\ \A x \in DOMAIN refs : refs[x] \in Seq(ids)

SearchStates(ids) ==
    [stack : Seq(ids \X {"enter", "leave"}), color : [ids -> {"white", "grey", "black"}],
     order : Seq(ids), cyclic : BOOLEAN]

(* Grey is what was entered and not left, once, and what is yet to be      *)
(* entered by that name lies below it.                                     *)
GreyIsOpen(ids, s) ==
    /\ \A x \in ids : s.color[x] = "grey" <=> \E i \in 1..Len(s.stack) : s.stack[i] = <<x, "leave">>
    /\ \A i, j \in 1..Len(s.stack) :
         s.stack[i][1] = s.stack[j][1] /\ s.stack[j][2] = "leave" /\ i # j => s.stack[i][2] = "enter" /\ i < j

(* The order has the black, once each, after their targets.                *)
BlackIsOrdered(refs, ids, s) ==
    /\ \A x \in ids : s.color[x] = "black" <=> \E i \in 1..Len(s.order) : s.order[i] = x
    /\ \A i, j \in 1..Len(s.order) : s.order[i] = s.order[j] => i = j
    /\ \A i \in 1..Len(s.order) : \A y \in Range(Succ(refs, s.order[i])) :
         \E j \in 1..Len(s.order) : j < i /\ s.order[j] = y

(* A target of an open blueprint is done or above it, and what is above it *)
(* up to the next open one is a target of it.                              *)
OpenTargets(refs, s) ==
    /\ \A i \in 1..Len(s.stack) : s.stack[i][2] = "leave" =>
         \A y \in Range(Succ(refs, s.stack[i][1])) :
            s.color[y] = "black" \/ \E j \in 1..Len(s.stack) : i < j /\ s.stack[j][1] = y
    /\ \A i, j \in 1..Len(s.stack) :
         i < j /\ s.stack[i][2] = "leave" /\ (\A k \in 1..Len(s.stack) : i < k /\ k < j => s.stack[k][2] = "enter") =>
            s.stack[j][1] \in Range(Succ(refs, s.stack[i][1]))

(* Nobody is forgotten, and only a cycle is called one.                    *)
NoneForgotten(refs, s) ==
    \A x \in DOMAIN refs : s.color[x] = "black" \/ \E i \in 1..Len(s.stack) : s.stack[i][1] = x

SearchInv(refs, ids, s) ==
    /\ s \in SearchStates(ids)
    /\ GreyIsOpen(ids, s)
    /\ BlackIsOrdered(refs, ids, s)
    /\ OpenTargets(refs, s)
    /\ NoneForgotten(refs, s)
    /\ s.cyclic => Cyclic(refs)

LEMMA SuccSeq ==
    ASSUME NEW ids, NEW refs, ReferenceMap(refs, ids), NEW x
    PROVE  Succ(refs, x) \in Seq(ids) /\ (Range(Succ(refs, x)) # {} => x \in DOMAIN refs)
<1>1. CASE x \in DOMAIN refs
  BY <1>1 DEF Succ, ReferenceMap
<1>2. CASE x \notin DOMAIN refs
  <2>1. Succ(refs, x) = <<>>
    BY <1>2 DEF Succ
  <2>2. Succ(refs, x) \in Seq(ids) /\ Range(Succ(refs, x)) = {}
    BY <2>1 DEF Range
  <2> QED
    BY <2>2
<1> QED
  BY <1>1, <1>2

(* The members of a set in some order.                                     *)
LEMMA SetToSeqFacts ==
    ASSUME NEW S, IsFiniteSet(S)
    PROVE  /\ SetToSeq(S) \in Seq(S) /\ Len(SetToSeq(S)) = Cardinality(S)
           /\ DOMAIN SetToSeq(S) = 1..Cardinality(S) /\ Cardinality(S) \in Nat
           /\ \A x \in S : \E i \in 1..Cardinality(S) : SetToSeq(S)[i] = x
           /\ \A i, j \in 1..Cardinality(S) : SetToSeq(S)[i] = SetToSeq(S)[j] => i = j
<1> DEFINE n == Cardinality(S)
<1>1. n \in Nat /\ ExistsBijection(1..n, S)
  BY FS_CardinalityType
<1>2. PICK f : f \in Bijection(1..n, S)
  BY <1>1 DEF ExistsBijection
<1>3. f \in [1..n -> S] /\ IsInjective(f)
  BY <1>2 DEF Bijection, Injection, IsInjective
<1>4. SetToSeq(S) \in [1..n -> S] /\ IsInjective(SetToSeq(S))
  BY <1>3 DEF SetToSeq
<1> DEFINE g == SetToSeq(S)
<1> HIDE DEF g
<1>5. g \in [1..n -> S] /\ \A i, j \in 1..n : g[i] = g[j] => i = j
  BY <1>4 DEF IsInjective, g
<1>6. g \in Injection(1..n, S)
  BY <1>5 DEF Injection, IsInjective
<1>7. IsFiniteSet(1..n) /\ Cardinality(1..n) = n
  <2>1. Cardinality(1..n) = IF 1 > n THEN 0 ELSE n - 1 + 1
    BY <1>1, FS_Interval
  <2> QED
    BY <1>1, <2>1, FS_Interval
<1>8. g \in Surjection(1..n, S)
  BY <1>6, <1>7, FS_Injection
<1>9. \A x \in S : \E i \in 1..n : g[i] = x
  BY <1>8 DEF Surjection
<1>10. g \in Seq(S) /\ Len(g) = n /\ DOMAIN g = 1..n
  <2> HIDE DEF n
  <2> QED
    BY <1>1, <1>5
<1> QED
  BY <1>1, <1>5, <1>9, <1>10 DEF g

AreTheWhite(w, color, targets, ids) ==
    /\ w \in Seq(ids) /\ Len(w) \in Nat /\ Len(w) <= Len(targets)
    /\ \A k \in 1..Len(w) : w[k] \in Range(targets) /\ w[k] \in ids /\ color[w[k]] = "white"
    /\ \A y \in Range(targets) : color[y] = "white" => \E k \in 1..Len(w) : w[k] = y

LEMMA WhiteFacts ==
    ASSUME NEW ids, NEW targets \in Seq(ids), NEW color
    PROVE  AreTheWhite(White(color, targets), color, targets, ids)
<1> DEFINE S == {i \in DOMAIN targets : color[targets[i]] = "white"}
           at == InOrder(S)
           W == White(color, targets)
<1>1. S \in SUBSET (1..Len(targets)) /\ Len(targets) \in Nat /\ W = Pick(targets, S)
  BY DEF White
<1>2. \A i \in S : targets[i] \in ids /\ targets[i] \in Range(targets) /\ color[targets[i]] = "white"
  BY DEF Range
<1>3. \A y \in Range(targets) : color[y] = "white" => \E i \in S : targets[i] = y
  BY DEF Range
<1> HIDE DEF S, at, W
<1>4. /\ W \in Seq(ids) /\ DOMAIN at = 1..Len(W)
      /\ \A k \in DOMAIN at : at[k] \in S /\ W[k] = targets[at[k]]
      /\ \A i \in S : \E k \in DOMAIN at : at[k] = i
  BY <1>1, PickFacts DEF at
<1>5. IsFiniteSet(1..Len(targets)) /\ Cardinality(1..Len(targets)) = Len(targets)
  <2>1. Cardinality(1..Len(targets)) = IF 1 > Len(targets) THEN 0 ELSE Len(targets) - 1 + 1
    BY <1>1, FS_Interval
  <2> QED
    BY <1>1, <2>1, FS_Interval
<1>6. Len(W) <= Len(targets)
  <2>1. IsFiniteSet(S) /\ Cardinality(S) <= Len(targets)
    BY <1>1, <1>5, FS_Subset
  <2>2. S \subseteq Int
    BY <1>1
  <2>3. Len(at) = Cardinality(S) /\ at \in Seq(S)
    BY <2>1, <2>2, InOrderFacts DEF at
  <2>4. Len(at) = Len(W)
    BY <1>4, <2>3
  <2> QED
    BY <2>1, <2>3, <2>4
<1>7. Len(W) \in Nat /\ \A k \in 1..Len(W) : W[k] \in ids /\ W[k] \in Range(targets) /\ color[W[k]] = "white"
  BY <1>2, <1>4
<1>8. ASSUME NEW y \in Range(targets), color[y] = "white" PROVE \E k \in 1..Len(W) : W[k] = y
  <2>1. PICK i \in S : targets[i] = y
    BY <1>3, <1>8
  <2>2. PICK k \in DOMAIN at : at[k] = i
    BY <1>4
  <2> QED
    BY <1>4, <2>1, <2>2
<1>9. AreTheWhite(W, color, targets, ids)
  BY <1>4, <1>6, <1>7, <1>8 DEF AreTheWhite
<1> QED
  BY <1>9 DEF W

(* Taking the top entry away leaves the rest.                              *)
LEMMA PoppedStack ==
    ASSUME NEW U, NEW st \in Seq(U), st # <<>>
    PROVE  /\ Len(st) \in Nat \ {0} /\ Last(st) = st[Len(st)] /\ st[Len(st)] \in U
           /\ Front(st) \in Seq(U) /\ Len(Front(st)) = Len(st) - 1
           /\ \A i \in 1..(Len(st) - 1) : Front(st)[i] = st[i] /\ st[i] \in U
<1> DEFINE n == Len(st)
<1>1. n \in Nat \ {0}
  OBVIOUS
<1>2. Last(st) = st[n] /\ Front(st) = SubSeq(st, 1, n - 1)
  BY DEF Last, Front
<1>3. \A i \in 1..n : st[i] \in U
  OBVIOUS
<1> HIDE DEF n
<1>4. \A i \in 1..(n - 1) : i \in 1..n
  BY <1>1
<1> DEFINE f == SubSeq(st, 1, n - 1)
<1>5. /\ f \in Seq(U) /\ Len(f) = n - 1
      /\ \A i \in 1..(n - 1) : f[i] = st[i]
  <2>1. /\ f \in Seq(U) /\ Len(f) = IF 1 <= n - 1 THEN (n - 1) - 1 + 1 ELSE 0
        /\ \A i \in 1..((n - 1) - 1 + 1) : f[i] = st[1 + i - 1]
    BY <1>1, <1>3, <1>4, SubSeqProperties
  <2> HIDE DEF f
  <2> QED
    BY <1>1, <2>1
<1>6. n \in 1..n
  BY <1>1
<1> QED
  BY <1>1, <1>2, <1>3, <1>4, <1>5, <1>6 DEF n

LEMMA LeavePreserves ==
    ASSUME NEW refs, NEW ids, ReferenceMap(refs, ids), NEW s, SearchInv(refs, ids, s),
           s.stack # <<>>, Last(s.stack)[2] = "leave"
    PROVE  LET x == Last(s.stack)[1]
           IN  SearchInv(refs, ids, [stack |-> Front(s.stack), color |-> [s.color EXCEPT ![x] = "black"],
                                     order |-> Append(s.order, x), cyclic |-> s.cyclic])
<1> DEFINE st == s.stack
           n == Len(st)
           x == Last(st)[1]
           t == [stack |-> Front(st), color |-> [s.color EXCEPT ![x] = "black"],
                 order |-> Append(s.order, x), cyclic |-> s.cyclic]
<1>1. s \in SearchStates(ids) /\ st \in Seq(ids \X {"enter", "leave"})
  BY DEF SearchInv, SearchStates
<1>2. /\ n \in Nat \ {0} /\ st[n] \in ids \X {"enter", "leave"} /\ Last(st) = st[n]
      /\ Front(st) \in Seq(ids \X {"enter", "leave"}) /\ Len(Front(st)) = n - 1
      /\ \A i \in 1..(n - 1) : Front(st)[i] = st[i] /\ st[i] \in ids \X {"enter", "leave"}
  BY <1>1, PoppedStack
<1>3. x \in ids /\ st[n] = <<x, "leave">>
  BY <1>2
<1>4. /\ t.stack = Front(st) /\ t.color = [s.color EXCEPT ![x] = "black"]
      /\ t.order = Append(s.order, x) /\ t.cyclic = s.cyclic
      /\ t \in SearchStates(ids)
  <2>1. /\ s.color \in [ids -> {"white", "grey", "black"}] /\ s.order \in Seq(ids)
        /\ s.cyclic \in BOOLEAN
    BY <1>1 DEF SearchStates
  <2> HIDE DEF x, st
  <2>2. [s.color EXCEPT ![x] = "black"] \in [ids -> {"white", "grey", "black"}]
    BY <2>1
  <2>3. Append(s.order, x) \in Seq(ids)
    BY <1>3, <2>1
  <2> QED
    BY <1>2, <2>1, <2>2, <2>3 DEF SearchStates
<1>5. /\ s.color \in [ids -> {"white", "grey", "black"}] /\ s.order \in Seq(ids)
      /\ GreyIsOpen(ids, s) /\ BlackIsOrdered(refs, ids, s) /\ OpenTargets(refs, s)
      /\ NoneForgotten(refs, s) /\ (s.cyclic => Cyclic(refs))
  BY <1>1 DEF SearchInv, SearchStates
<1> HIDE DEF t, x, n, st
<1>6. \A y \in ids : t.color[y] = IF y = x THEN "black" ELSE s.color[y]
  BY <1>3, <1>4, <1>5
<1>7. Len(t.stack) = n - 1 /\ \A i \in 1..(n - 1) : t.stack[i] = st[i] /\ st[i] \in ids \X {"enter", "leave"}
  BY <1>2, <1>4
<1>8. /\ Len(t.order) = Len(s.order) + 1 /\ Len(s.order) \in Nat /\ t.order[Len(s.order) + 1] = x
      /\ \A i \in 1..Len(s.order) : t.order[i] = s.order[i] /\ s.order[i] \in ids
  BY <1>3, <1>4, <1>5
<1>9. s.color[x] = "grey" /\ \A i \in 1..(n - 1) : st[i][1] = x => st[i][2] = "enter"
  <2>1. /\ \A y \in ids : s.color[y] = "grey" <=> \E i \in 1..n : st[i] = <<y, "leave">>
        /\ \A i, j \in 1..n :
             st[i][1] = st[j][1] /\ st[j][2] = "leave" /\ i # j => st[i][2] = "enter" /\ i < j
    BY <1>5 DEF GreyIsOpen, st, n
  <2>2. n \in 1..n /\ \A i \in 1..(n - 1) : i \in 1..n /\ i # n
    BY <1>2
  <2>3. s.color[x] = "grey"
    BY <1>3, <2>1, <2>2
  <2>4. st[n][1] = x /\ st[n][2] = "leave"
    BY <1>3
  <2> QED
    BY <2>1, <2>2, <2>3, <2>4
<1>10. GreyIsOpen(ids, t)
  <2>1. ASSUME NEW y \in ids
        PROVE  t.color[y] = "grey" <=> \E i \in 1..(n - 1) : t.stack[i] = <<y, "leave">>
    <3>1. CASE y = x
      <4>1. \A i \in 1..(n - 1) : t.stack[i] # <<y, "leave">>
        BY <1>7, <1>9, <3>1
      <4> QED
        BY <1>6, <4>1, <3>1
    <3>2. CASE y # x
      <4>1. t.color[y] = s.color[y]
        BY <1>6, <3>2
      <4>2. s.color[y] = "grey" <=> \E i \in 1..n : st[i] = <<y, "leave">>
        BY <1>5 DEF GreyIsOpen, st, n
      <4>3. \A i \in 1..n : i = n \/ i \in 1..(n - 1)
        BY <1>2
      <4>4. \A i \in 1..(n - 1) : i \in 1..n
        BY <1>2
      <4>5. st[n] # <<y, "leave">>
        BY <1>3, <3>2
      <4> QED
        BY <1>7, <4>1, <4>2, <4>3, <4>4, <4>5
    <3> QED
      BY <3>1, <3>2
  <2>2. ASSUME NEW i \in 1..(n - 1), NEW j \in 1..(n - 1),
               t.stack[i][1] = t.stack[j][1], t.stack[j][2] = "leave", i # j
        PROVE  t.stack[i][2] = "enter" /\ i < j
    <3>1. i \in 1..n /\ j \in 1..n /\ t.stack[i] = st[i] /\ t.stack[j] = st[j]
      BY <1>2, <1>7
    <3> QED
      BY <1>5, <2>2, <3>1 DEF GreyIsOpen, st, n
  <2> QED
    BY <1>7, <2>1, <2>2 DEF GreyIsOpen
<1>11. BlackIsOrdered(refs, ids, t)
  <2> DEFINE m == Len(s.order)
  <2>0. /\ \A y \in ids : s.color[y] = "black" <=> \E i \in 1..m : s.order[i] = y
        /\ \A i, j \in 1..m : s.order[i] = s.order[j] => i = j
        /\ \A i \in 1..m : \A y \in Range(Succ(refs, s.order[i])) :
              \E j \in 1..m : j < i /\ s.order[j] = y
    BY <1>5 DEF BlackIsOrdered
  <2>h. m \in Nat /\ Len(t.order) = m + 1 /\ t.order[m + 1] = x
        /\ \A i \in 1..m : t.order[i] = s.order[i] /\ s.order[i] \in ids
    BY <1>8
  <2> HIDE DEF m
  <2>p. \A i \in 1..(m + 1) : i = m + 1 \/ i \in 1..m
    BY <2>h
  <2>q. \A i \in 1..m : i \in 1..(m + 1) /\ i < m + 1
    BY <2>h
  <2>r. m + 1 \in 1..(m + 1)
    BY <2>h
  <2>1. ASSUME NEW y \in ids
        PROVE  t.color[y] = "black" <=> \E i \in 1..(m + 1) : t.order[i] = y
    <3>1. CASE y = x
      BY <1>6, <2>h, <2>r, <3>1
    <3>2. CASE y # x
      <4>1. t.color[y] = s.color[y]
        BY <1>6, <3>2
      <4>2. s.color[y] = "black" <=> \E i \in 1..m : s.order[i] = y
        BY <2>0
      <4>3. (\E i \in 1..m : s.order[i] = y) <=> \E i \in 1..(m + 1) : t.order[i] = y
        BY <2>h, <2>p, <2>q, <3>2
      <4> QED
        BY <4>1, <4>2, <4>3
    <3> QED
      BY <3>1, <3>2
  <2>2. ASSUME NEW i \in 1..(m + 1), NEW j \in 1..(m + 1), t.order[i] = t.order[j]
        PROVE  i = j
    <3>1. \A k \in 1..m : s.order[k] # x
      <4>1. s.color[x] # "black"
        BY <1>9
      <4> QED
        BY <1>3, <2>0, <4>1
    <3>2. t.order[m + 1] = x /\ \A k \in 1..m : t.order[k] = s.order[k]
      BY <2>h
    <3>3. CASE i \in 1..m /\ j \in 1..m
      <4>1. s.order[i] = s.order[j]
        BY <2>2, <3>2, <3>3
      <4> QED
        BY <2>0, <3>3, <4>1
    <3>4. CASE i = m + 1 /\ j \in 1..m
      BY <2>2, <3>1, <3>2, <3>4
    <3>5. CASE i \in 1..m /\ j = m + 1
      BY <2>2, <3>1, <3>2, <3>5
    <3>6. CASE i = m + 1 /\ j = m + 1
      BY <3>6
    <3> QED
      BY <2>p, <3>3, <3>4, <3>5, <3>6
  <2>3. ASSUME NEW i \in 1..(m + 1), NEW y \in Range(Succ(refs, t.order[i]))
        PROVE  \E j \in 1..(m + 1) : j < i /\ t.order[j] = y
    <3>1. CASE i \in 1..m
      <4>1. \E j \in 1..m : j < i /\ s.order[j] = y
        BY <2>0, <2>3, <2>h, <3>1
      <4> QED
        BY <2>h, <2>q, <4>1
    <3>2. CASE i = m + 1
      <4>1. y \in Range(Succ(refs, x)) /\ y \in ids
        BY <2>3, <2>h, <3>2, SuccSeq DEF Range
      <4>2. s.color[y] = "black" \/ \E j \in 1..n : n < j /\ st[j][1] = y
        BY <1>2, <1>3, <1>5, <4>1 DEF OpenTargets, st, n
      <4>3. s.color[y] = "black"
        BY <1>2, <4>2
      <4> QED
        BY <2>0, <2>h, <2>q, <3>2, <4>1, <4>3
    <3> QED
      BY <2>p, <3>1, <3>2
  <2> QED
    BY <2>1, <2>2, <2>3, <2>h DEF BlackIsOrdered
<1>12. OpenTargets(refs, t)
  <2>1. ASSUME NEW i \in 1..(n - 1), t.stack[i][2] = "leave",
               NEW y \in Range(Succ(refs, t.stack[i][1]))
        PROVE  t.color[y] = "black" \/ \E j \in 1..(n - 1) : i < j /\ t.stack[j][1] = y
    <3>1. i \in 1..n /\ t.stack[i] = st[i]
      BY <1>2, <1>7
    <3>2. y \in ids
      BY SuccSeq DEF Range
    <3>3. s.color[y] = "black" \/ \E j \in 1..n : i < j /\ st[j][1] = y
      BY <1>5, <2>1, <3>1 DEF OpenTargets, st, n
    <3>4. CASE s.color[y] = "black"
      BY <1>6, <3>2, <3>4
    <3>5. ASSUME NEW j \in 1..n, i < j, st[j][1] = y
          PROVE  t.color[y] = "black" \/ \E k \in 1..(n - 1) : i < k /\ t.stack[k][1] = y
      <4>1. CASE j = n
        BY <1>3, <1>6, <3>2, <3>5, <4>1
      <4>2. CASE j # n
        <5>1. j \in 1..(n - 1)
          BY <1>2, <4>2
        <5> QED
          BY <1>7, <3>5, <5>1
      <4> QED
        BY <4>1, <4>2
    <3> QED
      BY <3>3, <3>4, <3>5
  <2>2. ASSUME NEW i \in 1..(n - 1), NEW j \in 1..(n - 1), i < j, t.stack[i][2] = "leave",
               \A k \in 1..(n - 1) : i < k /\ k < j => t.stack[k][2] = "enter"
        PROVE  t.stack[j][1] \in Range(Succ(refs, t.stack[i][1]))
    <3>1. i \in 1..n /\ j \in 1..n /\ t.stack[i] = st[i] /\ t.stack[j] = st[j]
      BY <1>2, <1>7
    <3>2. ASSUME NEW k \in 1..n, i < k, k < j PROVE st[k][2] = "enter"
      <4>1. k \in 1..(n - 1)
        BY <1>2, <3>2
      <4> QED
        BY <1>7, <2>2, <3>2, <4>1
    <3> QED
      BY <1>5, <2>2, <3>1, <3>2 DEF OpenTargets, st, n
  <2> QED
    BY <1>7, <2>1, <2>2 DEF OpenTargets
<1>13. NoneForgotten(refs, t)
  <2>1. ASSUME NEW y \in DOMAIN refs
        PROVE  t.color[y] = "black" \/ \E i \in 1..(n - 1) : t.stack[i][1] = y
    <3>1. y \in ids
      BY DEF ReferenceMap
    <3>2. s.color[y] = "black" \/ \E i \in 1..n : st[i][1] = y
      BY <1>5 DEF NoneForgotten, st, n
    <3>3. \A i \in 1..n : i = n \/ i \in 1..(n - 1)
      BY <1>2
    <3> QED
      BY <1>3, <1>6, <1>7, <3>1, <3>2, <3>3
  <2> QED
    BY <1>7, <2>1 DEF NoneForgotten
<1>14. SearchInv(refs, ids, t)
  BY <1>4, <1>5, <1>10, <1>11, <1>12, <1>13 DEF SearchInv
<1> QED
  BY <1>14 DEF t, x, st

LEMMA SkipPreserves ==
    ASSUME NEW refs, NEW ids, ReferenceMap(refs, ids), NEW s, SearchInv(refs, ids, s),
           s.stack # <<>>, Last(s.stack)[2] # "leave", s.color[Last(s.stack)[1]] = "black"
    PROVE  SearchInv(refs, ids, [stack |-> Front(s.stack), color |-> s.color,
                                 order |-> s.order, cyclic |-> s.cyclic])
<1> DEFINE st == s.stack
           n == Len(st)
           x == Last(st)[1]
           t == [stack |-> Front(st), color |-> s.color, order |-> s.order, cyclic |-> s.cyclic]
<1>1. s \in SearchStates(ids) /\ st \in Seq(ids \X {"enter", "leave"})
  BY DEF SearchInv, SearchStates
<1>2. /\ n \in Nat \ {0} /\ st[n] \in ids \X {"enter", "leave"} /\ Last(st) = st[n]
      /\ Front(st) \in Seq(ids \X {"enter", "leave"}) /\ Len(Front(st)) = n - 1
      /\ \A i \in 1..(n - 1) : Front(st)[i] = st[i] /\ st[i] \in ids \X {"enter", "leave"}
  BY <1>1, PoppedStack
<1>3. x \in ids /\ st[n] = <<x, "enter">> /\ s.color[x] = "black"
  BY <1>2
<1>4. /\ t.stack = Front(st) /\ t.color = s.color /\ t.order = s.order /\ t.cyclic = s.cyclic
      /\ t \in SearchStates(ids)
  BY <1>1, <1>2 DEF SearchStates
<1>5. /\ GreyIsOpen(ids, s) /\ BlackIsOrdered(refs, ids, s) /\ OpenTargets(refs, s)
      /\ NoneForgotten(refs, s) /\ (s.cyclic => Cyclic(refs))
  BY DEF SearchInv
<1> HIDE DEF t, x, n, st
<1>6. /\ \A i \in 1..n : i = n \/ i \in 1..(n - 1)
      /\ \A i \in 1..(n - 1) : i \in 1..n
  BY <1>2
<1>7. Len(t.stack) = n - 1 /\ \A i \in 1..(n - 1) : t.stack[i] = st[i] /\ st[i] \in ids \X {"enter", "leave"}
  BY <1>2, <1>4
<1>10. GreyIsOpen(ids, t)
  <2>1. ASSUME NEW y \in ids
        PROVE  t.color[y] = "grey" <=> \E i \in 1..(n - 1) : t.stack[i] = <<y, "leave">>
    <3>2. s.color[y] = "grey" <=> \E i \in 1..n : st[i] = <<y, "leave">>
      BY <1>5 DEF GreyIsOpen, st, n
    <3>5. st[n] # <<y, "leave">>
      BY <1>3
    <3>6. (\E i \in 1..n : st[i] = <<y, "leave">>) <=> \E i \in 1..(n - 1) : t.stack[i] = <<y, "leave">>
      BY <1>6, <1>7, <3>5
    <3> QED
      BY <1>4, <3>2, <3>6
  <2>2. ASSUME NEW i \in 1..(n - 1), NEW j \in 1..(n - 1),
               t.stack[i][1] = t.stack[j][1], t.stack[j][2] = "leave", i # j
        PROVE  t.stack[i][2] = "enter" /\ i < j
    <3>1. i \in 1..n /\ j \in 1..n /\ t.stack[i] = st[i] /\ t.stack[j] = st[j]
      BY <1>6, <1>7
    <3> QED
      BY <1>5, <2>2, <3>1 DEF GreyIsOpen, st, n
  <2> QED
    BY <1>7, <2>1, <2>2 DEF GreyIsOpen
<1>11. BlackIsOrdered(refs, ids, t)
  <2>1. t.order = s.order /\ t.color = s.color
    BY <1>4
  <2> DEFINE o == s.order
             c == s.color
             m == Len(o)
  <2>2. /\ \A y \in ids : c[y] = "black" <=> \E i \in 1..m : o[i] = y
        /\ \A i, j \in 1..m : o[i] = o[j] => i = j
        /\ \A i \in 1..m : \A y \in Range(Succ(refs, o[i])) : \E j \in 1..m : j < i /\ o[j] = y
    BY <1>5 DEF BlackIsOrdered
  <2>3. t.order = o /\ t.color = c /\ Len(t.order) = m
    BY <2>1
  <2> HIDE DEF o, c, m
  <2> QED
    BY <2>2, <2>3 DEF BlackIsOrdered
<1>12. OpenTargets(refs, t)
  <2>1. ASSUME NEW i \in 1..(n - 1), t.stack[i][2] = "leave",
               NEW y \in Range(Succ(refs, t.stack[i][1]))
        PROVE  t.color[y] = "black" \/ \E j \in 1..(n - 1) : i < j /\ t.stack[j][1] = y
    <3>1. i \in 1..n /\ t.stack[i] = st[i]
      BY <1>6, <1>7
    <3>3. s.color[y] = "black" \/ \E j \in 1..n : i < j /\ st[j][1] = y
      BY <1>5, <2>1, <3>1 DEF OpenTargets, st, n
    <3>4. st[n][1] = x
      BY <1>3
    <3> QED
      BY <1>3, <1>4, <1>6, <1>7, <3>3, <3>4
  <2>2. ASSUME NEW i \in 1..(n - 1), NEW j \in 1..(n - 1), i < j, t.stack[i][2] = "leave",
               \A k \in 1..(n - 1) : i < k /\ k < j => t.stack[k][2] = "enter"
        PROVE  t.stack[j][1] \in Range(Succ(refs, t.stack[i][1]))
    <3>1. i \in 1..n /\ j \in 1..n /\ t.stack[i] = st[i] /\ t.stack[j] = st[j]
      BY <1>6, <1>7
    <3>2. ASSUME NEW k \in 1..n, i < k, k < j PROVE st[k][2] = "enter"
      <4>1. k \in 1..(n - 1)
        BY <1>2, <3>2
      <4> QED
        BY <1>7, <2>2, <3>2, <4>1
    <3> QED
      BY <1>5, <2>2, <3>1, <3>2 DEF OpenTargets, st, n
  <2> QED
    BY <1>7, <2>1, <2>2 DEF OpenTargets
<1>13. NoneForgotten(refs, t)
  <2>1. ASSUME NEW y \in DOMAIN refs
        PROVE  t.color[y] = "black" \/ \E i \in 1..(n - 1) : t.stack[i][1] = y
    <3>2. s.color[y] = "black" \/ \E i \in 1..n : st[i][1] = y
      BY <1>5 DEF NoneForgotten, st, n
    <3>3. st[n][1] = x
      BY <1>3
    <3> QED
      BY <1>3, <1>4, <1>6, <1>7, <3>2, <3>3
  <2> QED
    BY <1>7, <2>1 DEF NoneForgotten
<1>14. SearchInv(refs, ids, t)
  BY <1>4, <1>5, <1>10, <1>11, <1>12, <1>13 DEF SearchInv
<1> QED
  BY <1>14 DEF t, st

(* What is on top to be entered is not open.                               *)
LEMMA TopIsNotOpen ==
    ASSUME NEW refs, NEW ids, ReferenceMap(refs, ids), NEW s, SearchInv(refs, ids, s),
           s.stack # <<>>, Last(s.stack)[2] # "leave"
    PROVE  LET n == Len(s.stack)
               x == Last(s.stack)[1]
           IN  /\ x \in ids /\ s.stack[n] = <<x, "enter">> /\ n \in Nat \ {0}
               /\ s.color[x] # "grey"
               /\ \A i \in 1..n : s.stack[i] # <<x, "leave">>
<1> DEFINE st == s.stack
           n == Len(st)
           x == Last(st)[1]
<1>1. s \in SearchStates(ids) /\ st \in Seq(ids \X {"enter", "leave"})
  BY DEF SearchInv, SearchStates
<1>2. n \in Nat \ {0} /\ st[n] \in ids \X {"enter", "leave"} /\ Last(st) = st[n]
  BY <1>1, PoppedStack
<1>3. x \in ids /\ st[n] = <<x, "enter">>
  BY <1>2
<1>4. /\ \A y \in ids : s.color[y] = "grey" <=> \E i \in 1..n : st[i] = <<y, "leave">>
      /\ \A i, j \in 1..n :
           st[i][1] = st[j][1] /\ st[j][2] = "leave" /\ i # j => st[i][2] = "enter" /\ i < j
  BY DEF SearchInv, GreyIsOpen
<1> HIDE DEF x, n, st
<1>5. ASSUME NEW i \in 1..n, st[i] = <<x, "leave">> PROVE FALSE
  <2>1. n \in 1..n
    BY <1>2
  <2>2. st[n][1] = st[i][1] /\ st[i][2] = "leave" /\ n # i
    BY <1>3, <1>5
  <2>3. n < i
    BY <1>4, <2>1, <2>2
  <2> QED
    BY <1>2, <2>3
<1>6. s.color[x] # "grey"
  BY <1>3, <1>4, <1>5
<1> QED
  BY <1>2, <1>3, <1>5, <1>6 DEF x, n, st

(* A grey target closes a cycle of open blueprints.                        *)
LEMMA GreyClosesCycle ==
    ASSUME NEW refs, NEW ids, ReferenceMap(refs, ids), NEW s, SearchInv(refs, ids, s),
           s.stack # <<>>, Last(s.stack)[2] # "leave",
           NEW y \in Range(Succ(refs, Last(s.stack)[1])),
           y = Last(s.stack)[1] \/ s.color[y] = "grey"
    PROVE  Cyclic(refs)
<1> DEFINE st == s.stack
           n == Len(st)
           x == Last(st)[1]
<1>1. /\ x \in ids /\ st[n] = <<x, "enter">> /\ n \in Nat \ {0}
      /\ \A i \in 1..n : st[i] # <<x, "leave">>
  BY TopIsNotOpen
<1>2. st \in Seq(ids \X {"enter", "leave"})
  BY DEF SearchInv, SearchStates
<1>3. /\ \A z \in ids : s.color[z] = "grey" <=> \E i \in 1..n : st[i] = <<z, "leave">>
      /\ \A i, j \in 1..n :
           i < j /\ st[i][2] = "leave" /\ (\A k \in 1..n : i < k /\ k < j => st[k][2] = "enter") =>
             st[j][1] \in Range(Succ(refs, st[i][1]))
  BY DEF SearchInv, GreyIsOpen, OpenTargets
<1>4. y \in ids
  BY SuccSeq DEF Range
<1>5. \A z : Range(Succ(refs, z)) # {} => z \in DOMAIN refs /\ Succ(refs, z) = refs[z]
  BY SuccSeq DEF Succ
<1>6. y \in Range(Succ(refs, x))
  OBVIOUS
<1>7. y = x \/ s.color[y] = "grey"
  OBVIOUS
<1> HIDE DEF x, n, st
<1>8. CASE y = x
  <2>1. x \in DOMAIN refs /\ Range(refs[x]) \cap {x} # {}
    BY <1>5, <1>6, <1>8
  <2> DEFINE S == {x}
  <2>2. S \in SUBSET DOMAIN refs /\ S # {} /\ \A z \in S : Range(refs[z]) \cap S # {}
    BY <2>1
  <2> HIDE DEF S
  <2> QED
    BY <2>2 DEF Cyclic
<1>9. CASE s.color[y] = "grey"
  <2>1. PICK p \in 1..n : st[p] = <<y, "leave">>
    BY <1>3, <1>4, <1>9
  <2> DEFINE S == {st[i][1] : i \in {k \in 1..n : p <= k /\ st[k][2] = "leave"}} \cup {x}
  <2>2. y \in S /\ x \in S
    <3>1. p \in {k \in 1..n : p <= k /\ st[k][2] = "leave"} /\ st[p][1] = y
      BY <2>1
    <3> QED
      BY <3>1
  <2>3. ASSUME NEW i \in 1..n, p <= i, st[i][2] = "leave"
        PROVE  Range(Succ(refs, st[i][1])) \cap S # {}
    <3> DEFINE T == {j \in 1..n : i < j /\ (st[j][2] = "leave" \/ j = n)}
    <3>1. i # n
      BY <1>1, <2>3
    <3>2. n \in T /\ T \in SUBSET Nat
      BY <1>1, <3>1
    <3>3. PICK j \in T : \A k \in T : j <= k
      <4> HIDE DEF T
      <4> QED
        BY <3>2, FirstNumber
    <3>4. j \in 1..n /\ i < j /\ (st[j][2] = "leave" \/ j = n)
      OBVIOUS
    <3>5. ASSUME NEW k \in 1..n, i < k, k < j PROVE st[k][2] = "enter"
      <4>1. k \notin T
        BY <3>3, <3>4, <3>5
      <4>2. st[k][2] # "leave"
        BY <3>5, <4>1
      <4>3. st[k] \in ids \X {"enter", "leave"}
        BY <1>2 DEF n
      <4> QED
        BY <4>2, <4>3
    <3>6. st[j][1] \in Range(Succ(refs, st[i][1]))
      BY <1>3, <2>3, <3>4, <3>5
    <3>7. st[j][1] \in S
      <4>1. CASE j = n
        BY <1>1, <4>1
      <4>2. CASE st[j][2] = "leave"
        <5>1. j \in {k \in 1..n : p <= k /\ st[k][2] = "leave"}
          BY <2>3, <3>4, <4>2
        <5> QED
          BY <5>1
      <4> QED
        BY <3>4, <4>1, <4>2
    <3> QED
      BY <3>6, <3>7
  <2>4. ASSUME NEW z \in S PROVE Range(Succ(refs, z)) \cap S # {}
    <3>1. CASE z = x
      BY <1>6, <2>2, <3>1
    <3>2. CASE z # x
      <4>1. PICK i \in 1..n : p <= i /\ st[i][2] = "leave" /\ z = st[i][1]
        BY <3>2
      <4> QED
        BY <2>3, <4>1
    <3> QED
      BY <3>1, <3>2
  <2> HIDE DEF S
  <2>5. S \subseteq DOMAIN refs /\ S # {} /\ \A z \in S : Range(refs[z]) \cap S # {}
    BY <1>5, <2>2, <2>4
  <2> QED
    BY <2>5 DEF Cyclic
<1> QED
  BY <1>7, <1>8, <1>9

(* Putting what is entered, and its targets, in the place of the top.      *)
IsEntered(new, st, x, w, ids) ==
    /\ new \in Seq(ids \X {"enter", "leave"})
    /\ Len(new) = Len(st) + Len(w)
    /\ \A i \in 1..(Len(st) - 1) : new[i] = st[i]
    /\ new[Len(st)] = <<x, "leave">>
    /\ \A k \in 1..Len(w) : new[Len(st) + k] = <<w[k], "enter">>

LEMMA EnteredStack ==
    ASSUME NEW ids, NEW st \in Seq(ids \X {"enter", "leave"}), st # <<>>, NEW x \in ids,
           NEW w \in Seq(ids)
    PROVE  IsEntered(Append(Front(st), <<x, "leave">>) \o Entering(w), st, x, w, ids)
<1> DEFINE U == ids \X {"enter", "leave"}
           n == Len(st)
           rest == Front(st)
           e == Entering(w)
           h == Append(rest, <<x, "leave">>)
           new == h \o e
<1>1. n \in Nat \ {0} /\ rest \in Seq(U) /\ Len(rest) = n - 1
      /\ \A i \in 1..(n - 1) : rest[i] = st[i]
  BY PoppedStack
<1>2. e = [i \in 1..Len(w) |-> <<w[i], "enter">>] /\ Len(w) \in Nat
      /\ \A i \in 1..Len(w) : <<w[i], "enter">> \in U
  <2>1. e = [i \in DOMAIN w |-> <<w[i], "enter">>]
    BY DEF Entering
  <2>2. DOMAIN w = 1..Len(w) /\ Len(w) \in Nat /\ \A i \in 1..Len(w) : w[i] \in ids
    OBVIOUS
  <2> QED
    BY <2>1, <2>2
<1>3. <<x, "leave">> \in U
  OBVIOUS
<1> HIDE DEF U, n, rest, e
<1>4. e \in Seq(U) /\ Len(e) = Len(w) /\ \A i \in 1..Len(w) : e[i] = <<w[i], "enter">>
  <2>1. e \in [1..Len(w) -> U]
    BY <1>2
  <2> QED
    BY <1>2, <2>1
<1>5. h \in Seq(U) /\ Len(h) = n /\ h[n] = <<x, "leave">> /\ \A i \in 1..(n - 1) : h[i] = rest[i]
  BY <1>1, <1>3
<1> HIDE DEF h
<1>6. /\ new \in Seq(U) /\ Len(new) = Len(h) + Len(e)
      /\ \A i \in 1..Len(h) : new[i] = h[i]
      /\ \A k \in 1..Len(e) : new[Len(h) + k] = e[k]
  <2>0. h \in Seq(U) /\ e \in Seq(U)
    BY <1>4, <1>5
  <2>1. new \in Seq(U) /\ Len(new) = Len(h) + Len(e)
    BY <2>0, ConcatProperties
  <2>2. \A i \in 1..(Len(h) + Len(e)) : new[i] = IF i <= Len(h) THEN h[i] ELSE e[i - Len(h)]
    BY <2>0, ConcatProperties
  <2>3. Len(h) \in Nat /\ Len(e) \in Nat
    BY <1>4, <1>5
  <2>4. ASSUME NEW i \in 1..Len(h) PROVE new[i] = h[i]
    <3>1. i \in 1..(Len(h) + Len(e)) /\ i <= Len(h)
      BY <2>3
    <3> QED
      BY <2>2, <3>1
  <2>5. ASSUME NEW k \in 1..Len(e) PROVE new[Len(h) + k] = e[k]
    <3>1. Len(h) + k \in 1..(Len(h) + Len(e)) /\ ~(Len(h) + k <= Len(h)) /\ Len(h) + k - Len(h) = k
      BY <2>3
    <3> HIDE DEF new
    <3> QED
      BY <2>2, <3>1
  <2> QED
    BY <2>1, <2>4, <2>5
<1> HIDE DEF new
<1>7. /\ Len(new) = n + Len(w)
      /\ \A k \in 1..Len(w) : new[n + k] = <<w[k], "enter">>
  BY <1>4, <1>5, <1>6
<1>8. ASSUME NEW i \in 1..(n - 1) PROVE new[i] = st[i]
  <2>1. i \in 1..n
    BY <1>1
  <2> QED
    BY <1>1, <1>5, <1>6, <2>1
<1>9. new[n] = <<x, "leave">>
  <2>1. n \in 1..n
    BY <1>1
  <2> QED
    BY <1>5, <1>6, <2>1
<1>10. IsEntered(new, st, x, w, ids)
  BY <1>6, <1>7, <1>8, <1>9 DEF IsEntered, U, n
<1> QED
  BY <1>10 DEF new, h, rest, e

LEMMA EnterPreserves ==
    ASSUME NEW refs, NEW ids, ReferenceMap(refs, ids), NEW s, SearchInv(refs, ids, s),
           s.stack # <<>>, Last(s.stack)[2] # "leave", s.color[Last(s.stack)[1]] # "black",
           NEW color, color = [s.color EXCEPT ![Last(s.stack)[1]] = "grey"],
           NEW targets, targets = Succ(refs, Last(s.stack)[1]),
           ~ \E i \in DOMAIN targets : color[targets[i]] = "grey"
    PROVE  SearchInv(refs, ids,
             [stack |-> Append(Front(s.stack), <<Last(s.stack)[1], "leave">>)
                          \o Entering(White(color, targets)),
              color |-> color, order |-> s.order, cyclic |-> s.cyclic])
<1> DEFINE st == s.stack
           n == Len(st)
           x == Last(st)[1]
           w == White(color, targets)
           new == Append(Front(st), <<x, "leave">>) \o Entering(w)
           t == [stack |-> new, color |-> color, order |-> s.order, cyclic |-> s.cyclic]
<1>1. /\ x \in ids /\ st[n] = <<x, "enter">> /\ n \in Nat \ {0}
      /\ s.color[x] # "grey"
      /\ \A i \in 1..n : st[i] # <<x, "leave">>
  BY TopIsNotOpen
<1>2. /\ s \in SearchStates(ids) /\ st \in Seq(ids \X {"enter", "leave"})
      /\ GreyIsOpen(ids, s) /\ BlackIsOrdered(refs, ids, s) /\ OpenTargets(refs, s)
      /\ NoneForgotten(refs, s) /\ (s.cyclic => Cyclic(refs))
  BY DEF SearchInv, SearchStates
<1>3. targets \in Seq(ids)
  BY SuccSeq
<1>4. /\ w \in Seq(ids) /\ Len(w) \in Nat
      /\ \A k \in 1..Len(w) : w[k] \in Range(targets) /\ color[w[k]] = "white" /\ w[k] \in ids
      /\ \A y \in Range(targets) : color[y] = "white" => \E k \in 1..Len(w) : w[k] = y
  <2>1. AreTheWhite(w, color, targets, ids)
    BY <1>3, WhiteFacts
  <2> HIDE DEF w
  <2> QED
    BY <2>1 DEF AreTheWhite
<1>5. /\ new \in Seq(ids \X {"enter", "leave"}) /\ Len(new) = n + Len(w)
      /\ \A i \in 1..(n - 1) : new[i] = st[i]
      /\ new[n] = <<x, "leave">>
      /\ \A k \in 1..Len(w) : new[n + k] = <<w[k], "enter">>
  <2>1. st \in Seq(ids \X {"enter", "leave"}) /\ st # <<>> /\ x \in ids /\ w \in Seq(ids)
    BY <1>1, <1>2, <1>4
  <2> HIDE DEF st, x, w
  <2>2. IsEntered(new, st, x, w, ids)
    BY <2>1, EnteredStack
  <2> HIDE DEF new
  <2> QED
    BY <2>2 DEF IsEntered, n
<1>6. /\ color \in [ids -> {"white", "grey", "black"}]
      /\ \A y \in ids : color[y] = IF y = x THEN "grey" ELSE s.color[y]
      /\ s.color[x] = "white"
  <2>1. s.color \in [ids -> {"white", "grey", "black"}]
    BY <1>2 DEF SearchStates
  <2>2. s.color[x] # "black" /\ color = [s.color EXCEPT ![x] = "grey"]
    OBVIOUS
  <2> HIDE DEF x
  <2> QED
    BY <1>1, <2>1, <2>2
<1>7. /\ t.stack = new /\ t.color = color /\ t.order = s.order /\ t.cyclic = s.cyclic
      /\ t \in SearchStates(ids)
  <2> HIDE DEF new
  <2>1. s.order \in Seq(ids) /\ s.cyclic \in BOOLEAN
    BY <1>2 DEF SearchStates
  <2> QED
    BY <1>5, <1>6, <2>1 DEF SearchStates
<1>8. /\ \A y \in Range(targets) : y \in ids /\ color[y] # "grey"
      /\ Range(targets) = Range(Succ(refs, x))
  BY <1>3 DEF Range
<1> HIDE DEF t, x, n, st, w, new
<1>9. /\ \A i \in 1..n : i = n \/ i \in 1..(n - 1)
      /\ \A i \in 1..(n - 1) : i \in 1..n /\ i # n /\ i < n
      /\ n \in 1..(n + Len(w))
      /\ \A i \in 1..(n - 1) : i \in 1..(n + Len(w))
      /\ \A k \in 1..Len(w) : n + k \in 1..(n + Len(w)) /\ n < n + k
  BY <1>1, <1>4
<1>10. ASSUME NEW i \in 1..(n + Len(w))
       PROVE  \/ i \in 1..(n - 1) /\ new[i] = st[i] /\ i \in 1..n /\ i < n
              \/ i = n /\ new[i] = <<x, "leave">>
              \/ \E k \in 1..Len(w) : i = n + k /\ new[i] = <<w[k], "enter">> /\ n < i
  <2>1. CASE i < n
    <3>1. i \in 1..(n - 1)
      BY <1>1, <1>4, <2>1
    <3> QED
      BY <1>5, <1>9, <3>1
  <2>2. CASE i = n
    BY <1>5, <2>2
  <2>3. CASE i > n
    <3>1. i - n \in 1..Len(w) /\ i = n + (i - n)
      BY <1>1, <1>4, <2>3
    <3> QED
      BY <1>5, <2>3, <3>1
  <2> QED
    BY <1>1, <1>4, <2>1, <2>2, <2>3
<1>11. /\ \A y \in ids : s.color[y] = "grey" <=> \E i \in 1..n : st[i] = <<y, "leave">>
       /\ \A i, j \in 1..n :
            st[i][1] = st[j][1] /\ st[j][2] = "leave" /\ i # j => st[i][2] = "enter" /\ i < j
       /\ \A i \in 1..n : st[i] \in ids \X {"enter", "leave"}
  BY <1>2 DEF GreyIsOpen, st, n
<1>12. GreyIsOpen(ids, t)
  <2>1. ASSUME NEW y \in ids
        PROVE  color[y] = "grey" <=> \E i \in 1..(n + Len(w)) : new[i] = <<y, "leave">>
    <3>1. CASE y = x
      BY <1>5, <1>6, <1>9, <3>1
    <3>2. CASE y # x
      <4>1. color[y] = s.color[y]
        BY <1>6, <3>2
      <4>2. ASSUME NEW i \in 1..(n + Len(w)), new[i] = <<y, "leave">>
            PROVE  \E j \in 1..n : st[j] = <<y, "leave">>
        BY <1>10, <3>2, <4>2
      <4>3. ASSUME NEW j \in 1..n, st[j] = <<y, "leave">>
            PROVE  \E i \in 1..(n + Len(w)) : new[i] = <<y, "leave">>
        <5>1. j # n
          BY <1>1, <4>3
        <5> QED
          BY <1>5, <1>9, <4>3, <5>1
      <4> QED
        BY <1>11, <4>1, <4>2, <4>3
    <3> QED
      BY <3>1, <3>2
  <2>2. ASSUME NEW i \in 1..(n + Len(w)), NEW j \in 1..(n + Len(w)),
               new[i][1] = new[j][1], new[j][2] = "leave", i # j
        PROVE  new[i][2] = "enter" /\ i < j
    <3>1. j < n \/ j = n
      <4>1. ASSUME NEW k \in 1..Len(w), j = n + k, new[j] = <<w[k], "enter">> PROVE FALSE
        BY <2>2, <4>1
      <4> QED
        BY <1>10, <4>1
    <3>2. CASE j = n
      <4>1. new[i][1] = x
        BY <1>5, <2>2, <3>2
      <4>2. CASE i \in 1..(n - 1) /\ new[i] = st[i] /\ i \in 1..n /\ i < n
        <5>1. st[i] \in ids \X {"enter", "leave"} /\ st[i] # <<x, "leave">> /\ st[i][1] = x
          BY <1>1, <1>11, <4>1, <4>2
        <5>2. st[i][2] = "enter"
          BY <5>1
        <5> QED
          BY <3>2, <4>2, <5>2
      <4>3. ASSUME NEW k \in 1..Len(w), i = n + k, new[i] = <<w[k], "enter">> PROVE FALSE
        BY <1>4, <1>6, <4>1, <4>3
      <4> QED
        BY <1>10, <2>2, <3>2, <4>2, <4>3
    <3>3. CASE j < n
      <4>1. j \in 1..(n - 1) /\ new[j] = st[j] /\ j \in 1..n
        BY <1>1, <1>10, <3>3
      <4>2. CASE i \in 1..(n - 1) /\ new[i] = st[i] /\ i \in 1..n
        BY <1>11, <2>2, <4>1, <4>2
      <4>3. CASE i = n /\ new[i] = <<x, "leave">>
        <5>1. st[j] = <<x, "leave">>
          <6>1. st[j] \in ids \X {"enter", "leave"} /\ st[j][1] = x /\ st[j][2] = "leave"
            BY <1>11, <2>2, <4>1, <4>3
          <6> QED
            BY <6>1
        <5> QED
          BY <1>1, <4>1, <5>1
      <4>4. ASSUME NEW k \in 1..Len(w), i = n + k, new[i] = <<w[k], "enter">> PROVE FALSE
        <5>1. st[j] \in ids \X {"enter", "leave"} /\ st[j][1] = w[k] /\ st[j][2] = "leave"
          BY <1>11, <2>2, <4>1, <4>4
        <5>2. st[j] = <<w[k], "leave">>
          BY <5>1
        <5>3. s.color[w[k]] = "grey" /\ w[k] # x
          BY <1>1, <1>4, <1>11, <4>1, <5>2
        <5> QED
          BY <1>4, <1>6, <5>3
      <4> QED
        BY <1>10, <4>2, <4>3, <4>4
    <3> QED
      BY <3>1, <3>2, <3>3
  <2>3. \A y \in ids : t.color[y] = "grey" <=> \E i \in 1..Len(t.stack) : t.stack[i] = <<y, "leave">>
    BY <1>5, <1>7, <2>1
  <2>4. \A i, j \in 1..Len(t.stack) :
          t.stack[i][1] = t.stack[j][1] /\ t.stack[j][2] = "leave" /\ i # j => t.stack[i][2] = "enter" /\ i < j
    BY <1>5, <1>7, <2>2
  <2> QED
    BY <2>3, <2>4 DEF GreyIsOpen
<1>13. BlackIsOrdered(refs, ids, t)
  <2> DEFINE o == s.order
             c == s.color
             m == Len(o)
  <2>2. /\ \A y \in ids : c[y] = "black" <=> \E i \in 1..m : o[i] = y
        /\ \A i, j \in 1..m : o[i] = o[j] => i = j
        /\ \A i \in 1..m : \A y \in Range(Succ(refs, o[i])) : \E j \in 1..m : j < i /\ o[j] = y
    BY <1>2 DEF BlackIsOrdered
  <2>3. t.order = o /\ Len(t.order) = m /\ \A y \in ids : t.color[y] = "black" <=> c[y] = "black"
    BY <1>6, <1>7
  <2> HIDE DEF o, c, m
  <2> QED
    BY <2>2, <2>3 DEF BlackIsOrdered
<1>14. OpenTargets(refs, t)
  <2>1. ASSUME NEW i \in 1..(n + Len(w)), new[i][2] = "leave",
               NEW y \in Range(Succ(refs, new[i][1]))
        PROVE  color[y] = "black" \/ \E j \in 1..(n + Len(w)) : i < j /\ new[j][1] = y
    <3>1. y \in ids
      BY SuccSeq DEF Range
    <3>2. CASE i \in 1..(n - 1) /\ new[i] = st[i] /\ i \in 1..n /\ i < n
      <4>1. s.color[y] = "black" \/ \E j \in 1..n : i < j /\ st[j][1] = y
        BY <1>2, <2>1, <3>2 DEF OpenTargets, st, n
      <4>2. CASE s.color[y] = "black"
        BY <1>6, <3>1, <4>2
      <4>3. ASSUME NEW j \in 1..n, i < j, st[j][1] = y
            PROVE  \E k \in 1..(n + Len(w)) : i < k /\ new[k][1] = y
        <5>1. CASE j = n
          <6>1. new[n][1] = y
            BY <1>1, <1>5, <4>3, <5>1
          <6> QED
            BY <1>9, <3>2, <6>1
        <5>2. CASE j # n
          BY <1>5, <1>9, <4>3, <5>2
        <5> QED
          BY <5>1, <5>2
      <4> QED
        BY <4>1, <4>2, <4>3
    <3>3. CASE i = n /\ new[i] = <<x, "leave">>
      <4>1. y \in Range(targets) /\ color[y] # "grey"
        BY <1>8, <2>1, <3>3
      <4>2. CASE color[y] = "white"
        <5>1. PICK k \in 1..Len(w) : w[k] = y
          BY <1>4, <4>1, <4>2
        <5>2. new[n + k][1] = y
          BY <1>5, <5>1
        <5> QED
          BY <1>9, <3>3, <5>2
      <4>3. color[y] \in {"white", "grey", "black"}
        BY <1>6, <3>1
      <4> QED
        BY <4>1, <4>2, <4>3
    <3>4. ASSUME NEW k \in 1..Len(w), new[i] = <<w[k], "enter">> PROVE FALSE
      BY <2>1, <3>4
    <3> QED
      BY <1>10, <3>2, <3>3, <3>4
  <2>2. ASSUME NEW i \in 1..(n + Len(w)), NEW j \in 1..(n + Len(w)), i < j, new[i][2] = "leave",
               \A k \in 1..(n + Len(w)) : i < k /\ k < j => new[k][2] = "enter"
        PROVE  new[j][1] \in Range(Succ(refs, new[i][1]))
    <3>1. CASE i \in 1..(n - 1) /\ new[i] = st[i] /\ i \in 1..n /\ i < n
      <4>1. ~(n < j)
        <5>1. ASSUME n < j PROVE FALSE
          <6>1. new[n][2] = "enter"
            BY <1>9, <2>2, <3>1, <5>1
          <6> QED
            BY <1>5, <6>1
        <5> QED
          BY <5>1
      <4>2. j \in 1..n
        BY <1>1, <1>4, <4>1
      <4>3. new[j][1] = st[j][1]
        BY <1>1, <1>5, <1>9, <4>2
      <4>4. ASSUME NEW k \in 1..n, i < k, k < j PROVE st[k][2] = "enter"
        <5>1. k \in 1..(n - 1)
          BY <1>1, <4>2, <4>4
        <5> QED
          BY <1>5, <1>9, <2>2, <4>4, <5>1
      <4> QED
        BY <1>2, <2>2, <3>1, <4>2, <4>3, <4>4 DEF OpenTargets, st, n
    <3>2. CASE i = n /\ new[i] = <<x, "leave">>
      <4>1. PICK k \in 1..Len(w) : new[j] = <<w[k], "enter">>
        BY <1>1, <1>10, <2>2, <3>2
      <4> QED
        BY <1>4, <1>8, <3>2, <4>1
    <3>3. ASSUME NEW k \in 1..Len(w), new[i] = <<w[k], "enter">> PROVE FALSE
      BY <2>2, <3>3
    <3> QED
      BY <1>10, <3>1, <3>2, <3>3
  <2>3. t.stack = new /\ t.color = color /\ Len(new) = n + Len(w)
    BY <1>5, <1>7
  <2> DEFINE L == n + Len(w)
  <2>4. \A i \in 1..L : new[i][2] = "leave" =>
          \A y \in Range(Succ(refs, new[i][1])) :
             color[y] = "black" \/ \E j \in 1..L : i < j /\ new[j][1] = y
    BY <2>1
  <2>5. \A i, j \in 1..L :
          i < j /\ new[i][2] = "leave" /\ (\A k \in 1..L : i < k /\ k < j => new[k][2] = "enter") =>
             new[j][1] \in Range(Succ(refs, new[i][1]))
    BY <2>2
  <2>6. Len(new) = L
    BY <2>3
  <2> HIDE DEF L
  <2> QED
    BY <2>3, <2>4, <2>5, <2>6 DEF OpenTargets
<1>15. NoneForgotten(refs, t)
  <2>1. ASSUME NEW y \in DOMAIN refs
        PROVE  color[y] = "black" \/ \E i \in 1..(n + Len(w)) : new[i][1] = y
    <3>1. y \in ids
      BY DEF ReferenceMap
    <3>2. s.color[y] = "black" \/ \E i \in 1..n : st[i][1] = y
      BY <1>2 DEF NoneForgotten, st, n
    <3>3. CASE s.color[y] = "black"
      BY <1>6, <3>1, <3>3
    <3>4. ASSUME NEW i \in 1..n, st[i][1] = y PROVE \E j \in 1..(n + Len(w)) : new[j][1] = y
      <4>1. new[i][1] = st[i][1]
        BY <1>1, <1>5, <1>9
      <4>2. i \in 1..(n + Len(w))
        BY <1>9
      <4> QED
        BY <3>4, <4>1, <4>2
    <3> QED
      BY <3>2, <3>3, <3>4
  <2> QED
    BY <1>5, <1>7, <2>1 DEF NoneForgotten
<1>16. SearchInv(refs, ids, t)
  BY <1>2, <1>7, <1>12, <1>13, <1>14, <1>15 DEF SearchInv
<1> QED
  BY <1>16 DEF t, x, st, w, new

LEMMA InitSearchInv ==
    ASSUME NEW refs, NEW ids, ReferenceMap(refs, ids)
    PROVE  SearchInv(refs, ids, SearchInit(refs, ids))
           /\ Len(SearchInit(refs, ids).stack) = Cardinality(DOMAIN refs)
<1> DEFINE d == SetToSeq(DOMAIN refs)
           n == Cardinality(DOMAIN refs)
           st == Entering(d)
           c == [x \in ids |-> "white"]
           t == [stack |-> st, color |-> c, order |-> <<>>, cyclic |-> FALSE]
<1>1. IsFiniteSet(DOMAIN refs) /\ DOMAIN refs \subseteq ids
  <2>1. IsFiniteSet(ids) /\ DOMAIN refs \subseteq ids
    BY DEF ReferenceMap
  <2> QED
    BY <2>1, FS_Subset
<1>2. /\ d \in Seq(DOMAIN refs) /\ DOMAIN d = 1..n /\ n \in Nat /\ Len(d) = n
      /\ \A x \in DOMAIN refs : \E i \in 1..n : d[i] = x
  BY <1>1, SetToSeqFacts
<1>3. st = [i \in DOMAIN d |-> <<d[i], "enter">>]
  BY DEF Entering
<1>4. SearchInit(refs, ids) = t
  BY DEF SearchInit
<1> HIDE DEF d, n, st
<1>5. \A i \in 1..n : d[i] \in ids
  BY <1>1, <1>2
<1>6. st \in Seq(ids \X {"enter", "leave"}) /\ Len(st) = n /\ \A i \in 1..n : st[i] = <<d[i], "enter">>
  <2>1. st = [i \in 1..n |-> <<d[i], "enter">>]
    BY <1>2, <1>3
  <2>2. st \in [1..n -> ids \X {"enter", "leave"}]
    BY <1>5, <2>1
  <2> QED
    BY <1>2, <2>1, <2>2
<1>7. /\ t \in SearchStates(ids) /\ t.stack = st /\ t.color = c /\ t.order = <<>> /\ t.cyclic = FALSE
      /\ \A x \in ids : c[x] = "white"
  <2>1. c \in [ids -> {"white", "grey", "black"}] /\ <<>> \in Seq(ids)
    OBVIOUS
  <2> HIDE DEF c
  <2>2. t \in SearchStates(ids) /\ t.stack = st /\ t.color = c /\ t.order = <<>> /\ t.cyclic = FALSE
    BY <1>6, <2>1 DEF SearchStates
  <2>3. \A x \in ids : c[x] = "white"
    BY DEF c
  <2> QED
    BY <2>2, <2>3
<1> HIDE DEF t, c
<1>8. GreyIsOpen(ids, t)
  BY <1>6, <1>7 DEF GreyIsOpen
<1>9. BlackIsOrdered(refs, ids, t)
  BY <1>7 DEF BlackIsOrdered
<1>10. OpenTargets(refs, t)
  BY <1>6, <1>7 DEF OpenTargets
<1>11. NoneForgotten(refs, t)
  <2>1. ASSUME NEW x \in DOMAIN refs PROVE \E i \in 1..n : st[i][1] = x
    BY <1>2, <1>6
  <2> QED
    BY <1>6, <1>7, <2>1 DEF NoneForgotten
<1>12. SearchInv(refs, ids, t) /\ Len(t.stack) = n
  BY <1>6, <1>7, <1>8, <1>9, <1>10, <1>11 DEF SearchInv
<1> QED
  BY <1>4, <1>12 DEF n

---------------------------------------------------------------------------
(* What is left to push.                                                   *)
LEMMA PushesFinite ==
    ASSUME NEW refs, NEW ids, ReferenceMap(refs, ids), NEW A \in SUBSET ids
    PROVE  IsFiniteSet(Pushes(refs, A)) /\ Cardinality(Pushes(refs, A)) \in Nat
<1> DEFINE f == [x \in A |-> {x} \X (0..Len(Succ(refs, x)))]
           Pairs == {f[x] : x \in A}
<1>1. IsFiniteSet(A)
  <2>1. IsFiniteSet(ids)
    BY DEF ReferenceMap
  <2> QED
    BY <2>1, FS_Subset
<1>2. \A x \in A : IsFiniteSet(f[x])
  <2> SUFFICES ASSUME NEW x \in A PROVE IsFiniteSet({x} \X (0..Len(Succ(refs, x))))
    OBVIOUS
  <2>1. Len(Succ(refs, x)) \in Nat
    BY SuccSeq
  <2>2. IsFiniteSet(0..Len(Succ(refs, x)))
    BY <2>1, FS_Interval
  <2>3. IsFiniteSet({x})
    BY FS_Singleton
  <2> QED
    BY <2>2, <2>3, FS_Product
<1>3. Pushes(refs, A) = UNION Pairs
  BY DEF Pushes
<1>4. f \in Surjection(A, Pairs)
  <2>1. f \in [A -> Pairs] /\ \A q \in Pairs : \E x \in A : f[x] = q
    OBVIOUS
  <2> HIDE DEF f, Pairs
  <2> QED
    BY <2>1 DEF Surjection
<1>5. \A T \in Pairs : IsFiniteSet(T)
  BY <1>2
<1> HIDE DEF f, Pairs
<1>6. IsFiniteSet(Pairs)
  BY <1>1, <1>4, FS_Surjection
<1>7. IsFiniteSet(UNION Pairs)
  BY <1>5, <1>6, FS_UNION
<1> QED
  BY <1>3, <1>7, FS_CardinalityType

LEMMA PushesLess ==
    ASSUME NEW refs, NEW ids, ReferenceMap(refs, ids), NEW A \in SUBSET ids, NEW x \in A
    PROVE  Cardinality(Pushes(refs, A \ {x})) + Len(Succ(refs, x)) + 1 = Cardinality(Pushes(refs, A))
<1> DEFINE R == Pushes(refs, A \ {x})
           T == {x} \X (0..Len(Succ(refs, x)))
<1>1. IsFiniteSet(R) /\ Cardinality(R) \in Nat
  BY PushesFinite
<1>2. Len(Succ(refs, x)) \in Nat
  BY SuccSeq
<1>3. IsFiniteSet(T) /\ Cardinality(T) = Len(Succ(refs, x)) + 1
  <2> DEFINE I == 0..Len(Succ(refs, x))
  <2>1. IsFiniteSet(I) /\ Cardinality(I) = IF 0 > Len(Succ(refs, x)) THEN 0 ELSE Len(Succ(refs, x)) - 0 + 1
    BY <1>2, FS_Interval
  <2>2. IsFiniteSet({x}) /\ Cardinality({x}) = 1
    BY FS_Singleton
  <2> HIDE DEF I
  <2>3. IsFiniteSet({x} \X I) /\ Cardinality({x} \X I) = Cardinality({x}) * Cardinality(I)
    BY <2>1, <2>2, FS_Product
  <2>4. Cardinality(I) = Len(Succ(refs, x)) + 1
    BY <1>2, <2>1
  <2>5. Cardinality({x} \X I) = Len(Succ(refs, x)) + 1
    BY <1>2, <2>2, <2>3, <2>4
  <2> QED
    BY <2>3, <2>5 DEF I
<1>4. Pushes(refs, A) = R \cup T
  BY DEF Pushes
<1>5. R \cap T = {}
  BY DEF Pushes
<1> HIDE DEF R, T
<1>6. Cardinality(R \cup T) = Cardinality(R) + Cardinality(T) - Cardinality(R \cap T)
  BY <1>1, <1>3, FS_Union
<1>7. Cardinality(R \cap T) = 0
  BY <1>5, FS_EmptySet
<1> QED
  BY <1>1, <1>2, <1>3, <1>4, <1>6, <1>7 DEF R

Whites(ids, s) == {x \in ids : s.color[x] = "white"}
Left(refs, ids, s) == Len(s.stack) + Cardinality(Pushes(refs, Whites(ids, s)))

(* The four ways to go on.                                                 *)
LoaderEdits(s, st, c, o) ==
    /\ [s EXCEPT !.stack = st]
         = [stack |-> st, color |-> s.color, order |-> s.order, cyclic |-> s.cyclic]
    /\ [s EXCEPT !.cyclic = TRUE]
         = [stack |-> s.stack, color |-> s.color, order |-> s.order, cyclic |-> TRUE]
    /\ [s EXCEPT !.color = c, !.stack = st]
         = [stack |-> st, color |-> c, order |-> s.order, cyclic |-> s.cyclic]
    /\ [s EXCEPT !.stack = st, !.color = c, !.order = o]
         = [stack |-> st, color |-> c, order |-> o, cyclic |-> s.cyclic]

LEMMA SearchRecord ==
    ASSUME NEW ids, NEW s \in SearchStates(ids), NEW st, NEW c, NEW o
    PROVE  LoaderEdits(s, st, c, o)
<1> DEFINE AA == Seq(ids \X {"enter", "leave"}) \cup {st}
           BB == [ids -> {"white", "grey", "black"}] \cup {c}
           CC == Seq(ids) \cup {o}
           DD == BOOLEAN
<1>0. /\ s \in [stack : AA, color : BB, order : CC, cyclic : DD]
      /\ st \in AA /\ c \in BB /\ o \in CC /\ TRUE \in DD
  BY DEF SearchStates
<1> HIDE DEF AA, BB, CC, DD
<1>1. [s EXCEPT !.stack = st]
        = [stack |-> st, color |-> s.color, order |-> s.order, cyclic |-> s.cyclic]
  <2> DEFINE t == [s EXCEPT !.stack = st]
  <2>1. t \in [stack : AA, color : BB, order : CC, cyclic : DD]
    BY <1>0
  <2>2. /\ t.stack = st /\ t.color = s.color
        /\ t.order = s.order /\ t.cyclic = s.cyclic
    BY <1>0
  <2> HIDE DEF t
  <2>3. t = [stack |-> st, color |-> s.color, order |-> s.order, cyclic |-> s.cyclic]
    BY <2>1, <2>2
  <2> QED
    BY <2>3 DEF t
<1>2. [s EXCEPT !.cyclic = TRUE]
        = [stack |-> s.stack, color |-> s.color, order |-> s.order, cyclic |-> TRUE]
  <2> DEFINE t == [s EXCEPT !.cyclic = TRUE]
  <2>1. t \in [stack : AA, color : BB, order : CC, cyclic : DD]
    BY <1>0
  <2>2. /\ t.stack = s.stack /\ t.color = s.color
        /\ t.order = s.order /\ t.cyclic = TRUE
    BY <1>0
  <2> HIDE DEF t
  <2>3. t = [stack |-> s.stack, color |-> s.color, order |-> s.order, cyclic |-> TRUE]
    BY <2>1, <2>2
  <2> QED
    BY <2>3 DEF t
<1>3. [s EXCEPT !.color = c, !.stack = st]
        = [stack |-> st, color |-> c, order |-> s.order, cyclic |-> s.cyclic]
  <2> DEFINE t == [s EXCEPT !.color = c, !.stack = st]
  <2>1. t \in [stack : AA, color : BB, order : CC, cyclic : DD]
    BY <1>0
  <2>2. /\ t.stack = st /\ t.color = c
        /\ t.order = s.order /\ t.cyclic = s.cyclic
    BY <1>0
  <2> HIDE DEF t
  <2>3. t = [stack |-> st, color |-> c, order |-> s.order, cyclic |-> s.cyclic]
    BY <2>1, <2>2
  <2> QED
    BY <2>3 DEF t
<1>4. [s EXCEPT !.stack = st, !.color = c, !.order = o]
        = [stack |-> st, color |-> c, order |-> o, cyclic |-> s.cyclic]
  <2> DEFINE t == [s EXCEPT !.stack = st, !.color = c, !.order = o]
  <2>1. t \in [stack : AA, color : BB, order : CC, cyclic : DD]
    BY <1>0
  <2>2. /\ t.stack = st /\ t.color = c
        /\ t.order = o /\ t.cyclic = s.cyclic
    BY <1>0
  <2> HIDE DEF t
  <2>3. t = [stack |-> st, color |-> c, order |-> o, cyclic |-> s.cyclic]
    BY <2>1, <2>2
  <2> QED
    BY <2>3 DEF t
<1> QED
  BY <1>1, <1>2, <1>3, <1>4 DEF LoaderEdits

LEMMA LeaveStep ==
    ASSUME NEW refs, NEW ids, NEW s \in SearchStates(ids), Last(s.stack)[2] = "leave"
    PROVE  SearchStep(refs, s) =
             [stack |-> Front(s.stack), color |-> [s.color EXCEPT ![Last(s.stack)[1]] = "black"],
              order |-> Append(s.order, Last(s.stack)[1]), cyclic |-> s.cyclic]
<1> DEFINE x == Last(s.stack)[1]
           black == [s.color EXCEPT ![x] = "black"]
           more == Append(s.order, x)
           rest == Front(s.stack)
<1>1. SearchStep(refs, s) = [s EXCEPT !.stack = rest, !.color = black, !.order = more]
  BY DEF SearchStep
<1> HIDE DEF black, more, rest, x
<1>2. [s EXCEPT !.stack = rest, !.color = black, !.order = more]
        = [stack |-> rest, color |-> black, order |-> more, cyclic |-> s.cyclic]
  <2>1. LoaderEdits(s, rest, black, more)
    BY SearchRecord
  <2> QED
    BY <2>1 DEF LoaderEdits
<1> QED
  BY <1>1, <1>2 DEF black, more, rest, x

LEMMA SkipStep ==
    ASSUME NEW refs, NEW ids, NEW s \in SearchStates(ids), Last(s.stack)[2] # "leave",
           s.color[Last(s.stack)[1]] = "black"
    PROVE  SearchStep(refs, s) =
             [stack |-> Front(s.stack), color |-> s.color, order |-> s.order, cyclic |-> s.cyclic]
<1> DEFINE rest == Front(s.stack)
<1>1. SearchStep(refs, s) = [s EXCEPT !.stack = rest]
  BY DEF SearchStep
<1> HIDE DEF rest
<1>2. [s EXCEPT !.stack = rest]
        = [stack |-> rest, color |-> s.color, order |-> s.order, cyclic |-> s.cyclic]
  <2>1. LoaderEdits(s, rest, <<>>, <<>>)
    BY SearchRecord
  <2> QED
    BY <2>1 DEF LoaderEdits
<1> QED
  BY <1>1, <1>2 DEF rest

MeetsGrey(refs, s) ==
    \E i \in DOMAIN Succ(refs, Last(s.stack)[1]) :
        [s.color EXCEPT ![Last(s.stack)[1]] = "grey"][Succ(refs, Last(s.stack)[1])[i]] = "grey"

LEMMA CycleFound ==
    ASSUME NEW refs, NEW ids, NEW s \in SearchStates(ids), Last(s.stack)[2] # "leave",
           s.color[Last(s.stack)[1]] # "black", MeetsGrey(refs, s)
    PROVE  SearchStep(refs, s) =
             [stack |-> s.stack, color |-> s.color, order |-> s.order, cyclic |-> TRUE]
<1>1. SearchStep(refs, s) = [s EXCEPT !.cyclic = TRUE]
  BY DEF SearchStep, MeetsGrey
<1>2. [s EXCEPT !.cyclic = TRUE]
        = [stack |-> s.stack, color |-> s.color, order |-> s.order, cyclic |-> TRUE]
  <2>1. LoaderEdits(s, <<>>, <<>>, <<>>)
    BY SearchRecord
  <2> QED
    BY <2>1 DEF LoaderEdits
<1> QED
  BY <1>1, <1>2

LEMMA EnterStep ==
    ASSUME NEW refs, NEW ids, NEW s \in SearchStates(ids), Last(s.stack)[2] # "leave",
           s.color[Last(s.stack)[1]] # "black", ~MeetsGrey(refs, s)
    PROVE  SearchStep(refs, s) =
             [stack |-> Append(Front(s.stack), <<Last(s.stack)[1], "leave">>)
                          \o Entering(White([s.color EXCEPT ![Last(s.stack)[1]] = "grey"],
                                            Succ(refs, Last(s.stack)[1]))),
              color |-> [s.color EXCEPT ![Last(s.stack)[1]] = "grey"],
              order |-> s.order, cyclic |-> s.cyclic]
<1> DEFINE x == Last(s.stack)[1]
           color == [s.color EXCEPT ![x] = "grey"]
           new == Append(Front(s.stack), <<x, "leave">>) \o Entering(White(color, Succ(refs, x)))
<1>1. SearchStep(refs, s) = [s EXCEPT !.color = color, !.stack = new]
  BY DEF SearchStep, MeetsGrey
<1> HIDE DEF color, new, x
<1>2. [s EXCEPT !.color = color, !.stack = new]
        = [stack |-> new, color |-> color, order |-> s.order, cyclic |-> s.cyclic]
  <2>1. LoaderEdits(s, new, color, <<>>)
    BY SearchRecord
  <2> QED
    BY <2>1 DEF LoaderEdits
<1> QED
  BY <1>1, <1>2 DEF color, new, x

LEMMA CyclePreserves ==
    ASSUME NEW refs, NEW ids, NEW s, SearchInv(refs, ids, s), Cyclic(refs)
    PROVE  SearchInv(refs, ids, [stack |-> s.stack, color |-> s.color, order |-> s.order, cyclic |-> TRUE])
<1> DEFINE t == [stack |-> s.stack, color |-> s.color, order |-> s.order, cyclic |-> TRUE]
           st == s.stack
           c == s.color
           o == s.order
<1>1. /\ s \in SearchStates(ids) /\ GreyIsOpen(ids, s) /\ BlackIsOrdered(refs, ids, s)
      /\ OpenTargets(refs, s) /\ NoneForgotten(refs, s)
  BY DEF SearchInv
<1>2. t \in SearchStates(ids) /\ t.stack = s.stack /\ t.color = s.color /\ t.order = s.order
  BY <1>1 DEF SearchStates
<1> HIDE DEF t
<1>3. GreyIsOpen(ids, t)
  <2> DEFINE n == Len(st)
  <2>1. /\ \A x \in ids : c[x] = "grey" <=> \E i \in 1..n : st[i] = <<x, "leave">>
        /\ \A i, j \in 1..n :
             st[i][1] = st[j][1] /\ st[j][2] = "leave" /\ i # j => st[i][2] = "enter" /\ i < j
    BY <1>1 DEF GreyIsOpen
  <2>2. t.stack = st /\ t.color = c /\ Len(t.stack) = n
    BY <1>2
  <2> HIDE DEF st, c, n
  <2> QED
    BY <2>1, <2>2 DEF GreyIsOpen
<1>4. BlackIsOrdered(refs, ids, t)
  <2>1. /\ \A x \in ids : c[x] = "black" <=> \E i \in 1..Len(o) : o[i] = x
        /\ \A i, j \in 1..Len(o) : o[i] = o[j] => i = j
        /\ \A i \in 1..Len(o) : \A y \in Range(Succ(refs, o[i])) : \E j \in 1..Len(o) : j < i /\ o[j] = y
    BY <1>1 DEF BlackIsOrdered
  <2>2. t.order = o /\ t.color = c
    BY <1>2
  <2> HIDE DEF o, c
  <2>3. \A x \in ids : t.color[x] = "black" <=> \E i \in 1..Len(t.order) : t.order[i] = x
    BY <2>1, <2>2
  <2>4. \A i, j \in 1..Len(t.order) : t.order[i] = t.order[j] => i = j
    BY <2>1, <2>2
  <2>5. ASSUME NEW i \in 1..Len(t.order), NEW y \in Range(Succ(refs, t.order[i]))
        PROVE  \E j \in 1..Len(t.order) : j < i /\ t.order[j] = y
    <3>1. i \in 1..Len(o) /\ y \in Range(Succ(refs, o[i]))
      BY <2>2, Zenon
    <3>2. PICK j \in 1..Len(o) : j < i /\ o[j] = y
      BY <2>1, <3>1
    <3> QED
      BY <2>2, <3>2
  <2> QED
    BY <2>3, <2>4, <2>5 DEF BlackIsOrdered
<1>5. OpenTargets(refs, t)
  <2> DEFINE n == Len(st)
  <2>1. /\ \A i \in 1..n : st[i][2] = "leave" =>
              \A y \in Range(Succ(refs, st[i][1])) :
                 c[y] = "black" \/ \E j \in 1..n : i < j /\ st[j][1] = y
        /\ \A i, j \in 1..n :
             i < j /\ st[i][2] = "leave" /\ (\A k \in 1..n : i < k /\ k < j => st[k][2] = "enter") =>
               st[j][1] \in Range(Succ(refs, st[i][1]))
    BY <1>1 DEF OpenTargets
  <2>2. t.stack = st /\ t.color = c /\ Len(t.stack) = n
    BY <1>2
  <2> HIDE DEF st, c, n
  <2> QED
    BY <2>1, <2>2 DEF OpenTargets
<1>6. NoneForgotten(refs, t)
  BY <1>1, <1>2 DEF NoneForgotten
<1> QED
  BY <1>2, <1>3, <1>4, <1>5, <1>6 DEF SearchInv, t

LEMMA StepPreserves ==
    ASSUME NEW refs, NEW ids, ReferenceMap(refs, ids), NEW s, SearchInv(refs, ids, s)
    PROVE  SearchInv(refs, ids, SearchOn(refs, s))
<1>0. s \in SearchStates(ids)
  BY DEF SearchInv
<1>1. CASE s.cyclic \/ s.stack = <<>>
  BY <1>1 DEF SearchOn
<1>2. CASE ~(s.cyclic \/ s.stack = <<>>)
  <2> DEFINE x == Last(s.stack)[1]
             color == [s.color EXCEPT ![x] = "grey"]
             targets == Succ(refs, x)
  <2>1. SearchOn(refs, s) = SearchStep(refs, s)
    BY <1>2 DEF SearchOn
  <2>2. CASE Last(s.stack)[2] = "leave"
    <3>1. SearchStep(refs, s) =
            [stack |-> Front(s.stack), color |-> [s.color EXCEPT ![Last(s.stack)[1]] = "black"],
             order |-> Append(s.order, Last(s.stack)[1]), cyclic |-> s.cyclic]
      BY <1>0, <2>2, LeaveStep
    <3> QED
      BY <1>2, <2>1, <2>2, <3>1, LeavePreserves
  <2>3. CASE Last(s.stack)[2] # "leave" /\ s.color[x] = "black"
    <3>1. SearchStep(refs, s) =
            [stack |-> Front(s.stack), color |-> s.color, order |-> s.order, cyclic |-> s.cyclic]
      BY <1>0, <2>3, SkipStep
    <3> QED
      BY <1>2, <2>1, <2>3, <3>1, SkipPreserves
  <2>4. CASE Last(s.stack)[2] # "leave" /\ s.color[x] # "black" /\ MeetsGrey(refs, s)
    <3>1. SearchStep(refs, s) =
            [stack |-> s.stack, color |-> s.color, order |-> s.order, cyclic |-> TRUE]
      BY <1>0, <2>4, CycleFound
    <3>2. PICK i \in DOMAIN targets : color[targets[i]] = "grey"
      BY <2>4 DEF MeetsGrey
    <3>3. targets[i] \in Range(Succ(refs, x)) /\ targets[i] \in ids
      BY SuccSeq DEF Range
    <3>4. targets[i] = x \/ s.color[targets[i]] = "grey"
      <4>1. s.color \in [ids -> {"white", "grey", "black"}]
        BY <1>0 DEF SearchStates
      <4> HIDE DEF x, targets
      <4> QED
        BY <3>2, <3>3, <4>1
    <3>5. Cyclic(refs)
      <4> DEFINE y == targets[i]
      <4>1. y \in Range(Succ(refs, Last(s.stack)[1]))
            /\ (y = Last(s.stack)[1] \/ s.color[y] = "grey")
        BY <3>3, <3>4
      <4> HIDE DEF y, targets, color, x
      <4> QED
        BY <1>2, <2>4, <4>1, GreyClosesCycle
    <3> QED
      BY <2>1, <3>1, <3>5, CyclePreserves
  <2>5. CASE Last(s.stack)[2] # "leave" /\ s.color[x] # "black" /\ ~MeetsGrey(refs, s)
    <3>1. SearchStep(refs, s) =
            [stack |-> Append(Front(s.stack), <<x, "leave">>) \o Entering(White(color, targets)),
             color |-> color, order |-> s.order, cyclic |-> s.cyclic]
      BY <1>0, <2>5, EnterStep
    <3>2. ~ \E i \in DOMAIN targets : color[targets[i]] = "grey"
      BY <2>5 DEF MeetsGrey
    <3>3. color = [s.color EXCEPT ![Last(s.stack)[1]] = "grey"] /\ targets = Succ(refs, Last(s.stack)[1])
      OBVIOUS
    <3>4. /\ s.stack # <<>> /\ Last(s.stack)[2] # "leave" /\ s.color[Last(s.stack)[1]] # "black"
      BY <1>2, <2>5
    <3> HIDE DEF color, targets
    <3>5. SearchInv(refs, ids,
             [stack |-> Append(Front(s.stack), <<Last(s.stack)[1], "leave">>)
                          \o Entering(White(color, targets)),
              color |-> color, order |-> s.order, cyclic |-> s.cyclic])
      BY <3>2, <3>3, <3>4, EnterPreserves
    <3> QED
      BY <2>1, <3>1, <3>5
  <2> QED
    BY <2>2, <2>3, <2>4, <2>5
<1> QED
  BY <1>1, <1>2

(* Every step takes an entry away or enters one of the white.              *)
LEMMA LeftDrops ==
    ASSUME NEW refs, NEW ids, ReferenceMap(refs, ids), NEW s, SearchInv(refs, ids, s),
           ~s.cyclic, s.stack # <<>>
    PROVE  LET t == SearchOn(refs, s)
           IN  t.cyclic \/ (Left(refs, ids, t) \in Nat /\ Left(refs, ids, t) + 1 <= Left(refs, ids, s))
<1> DEFINE x == Last(s.stack)[1]
           color == [s.color EXCEPT ![x] = "grey"]
           targets == Succ(refs, x)
           t == SearchOn(refs, s)
           n == Len(s.stack)
           W == Whites(ids, s)
<1>0. s \in SearchStates(ids)
  BY DEF SearchInv
<1>1. /\ s.stack \in Seq(ids \X {"enter", "leave"}) /\ s.color \in [ids -> {"white", "grey", "black"}]
  BY DEF SearchInv, SearchStates
<1>2. /\ n \in Nat \ {0} /\ Last(s.stack) \in ids \X {"enter", "leave"}
      /\ Len(Front(s.stack)) = n - 1
  BY <1>1, PoppedStack
<1>3. x \in ids
  BY <1>2
<1>4. W \in SUBSET ids /\ Cardinality(Pushes(refs, W)) \in Nat
  <2>1. W \in SUBSET ids
    BY DEF Whites
  <2> HIDE DEF W
  <2> QED
    BY <2>1, PushesFinite
<1>5. t = SearchStep(refs, s)
  BY DEF SearchOn
<1>6. ASSUME Whites(ids, t) = W, Len(t.stack) = n - 1
      PROVE  Left(refs, ids, t) \in Nat /\ Left(refs, ids, t) + 1 <= Left(refs, ids, s)
  <2> HIDE DEF t, n, W
  <2>1. Left(refs, ids, t) = n - 1 + Cardinality(Pushes(refs, W))
        /\ Left(refs, ids, s) = n + Cardinality(Pushes(refs, W))
    BY <1>6 DEF Left, n, W
  <2> QED
    BY <1>2, <1>4, <2>1
<1>7. CASE Last(s.stack)[2] = "leave"
  <2>1. t.stack = Front(s.stack) /\ t.color = [s.color EXCEPT ![x] = "black"]
    <3>1. SearchStep(refs, s) =
            [stack |-> Front(s.stack), color |-> [s.color EXCEPT ![Last(s.stack)[1]] = "black"],
             order |-> Append(s.order, Last(s.stack)[1]), cyclic |-> s.cyclic]
      BY <1>0, <1>7, LeaveStep
    <3> QED
      BY <1>5, <3>1
  <2>2. s.color[x] = "grey"
    <3> DEFINE st == s.stack
    <3>1. st[n] = <<x, "leave">> /\ n \in 1..n
      <4>1. Last(st) = st[n]
        BY DEF Last
      <4> QED
        BY <1>2, <1>7, <4>1
    <3>2. s.color[x] = "grey" <=> \E i \in 1..n : st[i] = <<x, "leave">>
      BY <1>3 DEF SearchInv, GreyIsOpen
    <3> HIDE DEF st, x, n
    <3> QED
      BY <3>1, <3>2
  <2>3. Whites(ids, t) = W
    <3> HIDE DEF t, x
    <3>1. \A z \in ids : t.color[z] = "white" <=> s.color[z] = "white"
      BY <1>1, <1>3, <2>1, <2>2
    <3> QED
      BY <3>1 DEF Whites, W
  <2>4. Len(t.stack) = n - 1
    BY <1>2, <2>1
  <2>5. Left(refs, ids, t) \in Nat /\ Left(refs, ids, t) + 1 <= Left(refs, ids, s)
    BY <1>6, <2>3, <2>4
  <2> QED
    BY <2>5
<1>8. CASE Last(s.stack)[2] # "leave" /\ s.color[x] = "black"
  <2>1. t.stack = Front(s.stack) /\ t.color = s.color
    <3>1. SearchStep(refs, s) =
            [stack |-> Front(s.stack), color |-> s.color, order |-> s.order, cyclic |-> s.cyclic]
      BY <1>0, <1>8, SkipStep
    <3> QED
      BY <1>5, <3>1
  <2>3. Whites(ids, t) = W
    BY <2>1 DEF Whites
  <2>4. Len(t.stack) = n - 1
    BY <1>2, <2>1
  <2>5. Left(refs, ids, t) \in Nat /\ Left(refs, ids, t) + 1 <= Left(refs, ids, s)
    BY <1>6, <2>3, <2>4
  <2> QED
    BY <2>5
<1>9. CASE Last(s.stack)[2] # "leave" /\ s.color[x] # "black" /\ MeetsGrey(refs, s)
  <2>1. t.cyclic = TRUE
    <3>1. SearchStep(refs, s) =
            [stack |-> s.stack, color |-> s.color, order |-> s.order, cyclic |-> TRUE]
      BY <1>0, <1>9, CycleFound
    <3> QED
      BY <1>5, <3>1
  <2> QED
    BY <2>1
<1>10. CASE Last(s.stack)[2] # "leave" /\ s.color[x] # "black" /\ ~MeetsGrey(refs, s)
  <2> DEFINE w == White(color, targets)
  <2>1. t.stack = Append(Front(s.stack), <<x, "leave">>) \o Entering(w) /\ t.color = color
    <3>1. SearchStep(refs, s) =
            [stack |-> Append(Front(s.stack), <<x, "leave">>) \o Entering(w),
             color |-> color, order |-> s.order, cyclic |-> s.cyclic]
      BY <1>0, <1>10, EnterStep
    <3> QED
      BY <1>5, <3>1
  <2>2. targets \in Seq(ids) /\ Len(targets) \in Nat
    <3>1. targets \in Seq(ids)
      BY SuccSeq
    <3> HIDE DEF targets
    <3> QED
      BY <3>1
  <2>3. w \in Seq(ids) /\ Len(w) \in Nat /\ Len(w) <= Len(targets)
    <3> HIDE DEF color, targets
    <3>1. AreTheWhite(w, color, targets, ids)
      BY <2>2, WhiteFacts
    <3> HIDE DEF w
    <3> QED
      BY <3>1 DEF AreTheWhite
  <2>4. Len(t.stack) = n + Len(w)
    <3> HIDE DEF t, x, w
    <3> DEFINE new == Append(Front(s.stack), <<x, "leave">>) \o Entering(w)
    <3>0. IsEntered(new, s.stack, x, w, ids)
      BY <1>1, <1>3, <2>3, EnteredStack
    <3>1. IsEntered(t.stack, s.stack, x, w, ids)
      BY <2>1, <3>0
    <3> QED
      BY <3>1 DEF IsEntered
  <2>5. s.color[x] = "white"
    <3>1. s.color[x] # "grey"
      BY <1>10, TopIsNotOpen
    <3> HIDE DEF x
    <3> QED
      BY <1>1, <1>3, <1>10, <3>1
  <2>6. x \in W /\ Whites(ids, t) = W \ {x}
    <3> HIDE DEF t, x
    <3>1. \A z \in ids : t.color[z] = IF z = x THEN "grey" ELSE s.color[z]
      BY <1>1, <1>3, <2>1
    <3>2. \A z \in ids : t.color[z] = "white" <=> s.color[z] = "white" /\ z # x
      BY <3>1
    <3> QED
      BY <1>3, <2>5, <3>2 DEF Whites, W
  <2>7. Cardinality(Pushes(refs, W \ {x})) + Len(targets) + 1 = Cardinality(Pushes(refs, W))
    BY <1>4, <2>6, PushesLess
  <2>8. Cardinality(Pushes(refs, W \ {x})) \in Nat
    <3>1. W \ {x} \in SUBSET ids
      BY <1>4
    <3> QED
      BY <3>1, PushesFinite
  <2>9. /\ Left(refs, ids, t) = n + Len(w) + Cardinality(Pushes(refs, W \ {x}))
        /\ Left(refs, ids, s) = n + Cardinality(Pushes(refs, W))
    <3> HIDE DEF t, w, n, W
    <3> QED
      BY <2>4, <2>6 DEF Left, n, W
  <2> DEFINE a == Cardinality(Pushes(refs, W \ {x}))
             b == Cardinality(Pushes(refs, W))
             lw == Len(w)
             lt == Len(targets)
  <2>10. /\ n \in Nat /\ lt \in Nat /\ lw \in Nat /\ lw <= lt /\ a \in Nat /\ b \in Nat
         /\ a + lt + 1 = b
         /\ Left(refs, ids, t) = n + lw + a /\ Left(refs, ids, s) = n + b
    BY <1>2, <1>4, <2>2, <2>3, <2>7, <2>8, <2>9
  <2>11. Left(refs, ids, t) \in Nat /\ Left(refs, ids, t) + 1 <= Left(refs, ids, s)
    <3> HIDE DEF t, w, n, W, targets, a, b, lw, lt
    <3> QED
      BY <2>10
  <2> QED
    BY <2>11
<1> QED
  BY <1>7, <1>8, <1>9, <1>10

(* The search is the repetition of its step.                               *)
LEMMA SearchRepeats ==
    ASSUME NEW refs, NEW ids, ReferenceMap(refs, ids)
    PROVE  /\ SearchFuel(refs, ids) \in Nat
           /\ Search(refs, ids)[0] = SearchInit(refs, ids)
           /\ \A k \in 1..SearchFuel(refs, ids) :
                Search(refs, ids)[k] = SearchOn(refs, Search(refs, ids)[k - 1])
<1> DEFINE F == SearchFuel(refs, ids)
           Runs(g, n) == g = [k \in 0..n |-> IF k = 0 THEN SearchInit(refs, ids)
                                            ELSE SearchOn(refs, g[k - 1])]
<1>1. F \in Nat
  <2>1. DOMAIN refs \in SUBSET ids /\ IsFiniteSet(ids) /\ ids \in SUBSET ids
    BY DEF ReferenceMap
  <2>2. Cardinality(DOMAIN refs) \in Nat
    BY <2>1, FS_Subset, FS_CardinalityType
  <2>3. Cardinality(Pushes(refs, ids)) \in Nat
    BY <2>1, PushesFinite
  <2> QED
    BY <2>2, <2>3 DEF SearchFuel
<1>2. ASSUME NEW n \in Nat PROVE \E g : Runs(g, n)
  <2> DEFINE T == {m \in Nat : ~ \E g : Runs(g, m)}
  <2> SUFFICES ASSUME T # {} PROVE FALSE
    BY Zenon
  <2>1. PICK m \in T : \A j \in T : m <= j
    <3>1. T \in SUBSET Nat
      OBVIOUS
    <3> HIDE DEF T
    <3> QED
      BY <3>1, FirstNumber
  <2>2. m \in Nat /\ ~ \E g : Runs(g, m)
    OBVIOUS
  <2>3. CASE m = 0
    <3> DEFINE g == [k \in 0..0 |-> SearchInit(refs, ids)]
    <3>1. Runs(g, 0)
      OBVIOUS
    <3> QED
      BY <2>2, <2>3, <3>1
  <2>4. CASE m # 0
    <3>1. m - 1 \in Nat /\ ~(m <= m - 1)
      BY <2>2, <2>4
    <3>2. m - 1 \notin T
      BY <2>1, <3>1
    <3>3. PICK g : Runs(g, m - 1)
      BY <3>1, <3>2
    <3> DEFINE h == [k \in 0..m |-> IF k = m THEN SearchOn(refs, g[m - 1]) ELSE g[k]]
    <3>4. \A k \in 0..(m - 1) : g[k] = IF k = 0 THEN SearchInit(refs, ids) ELSE SearchOn(refs, g[k - 1])
      BY <3>3
    <3>5. ASSUME NEW k \in 0..m
          PROVE  h[k] = IF k = 0 THEN SearchInit(refs, ids) ELSE SearchOn(refs, h[k - 1])
      <4>1. CASE k = m
        <5>1. m # 0 /\ k - 1 \in 0..m /\ k - 1 # m /\ k - 1 = m - 1
          BY <2>2, <2>4, <4>1
        <5>2. h[k - 1] = g[m - 1]
          BY <5>1
        <5> QED
          BY <4>1, <5>1, <5>2
      <4>2. CASE k # m
        <5>1. k \in 0..(m - 1)
          BY <2>2, <4>2
        <5>2. h[k] = g[k]
          BY <4>2
        <5>3. CASE k = 0
          BY <3>4, <5>1, <5>2, <5>3
        <5>4. CASE k # 0
          <6>1. k - 1 \in 0..m /\ k - 1 # m
            BY <2>2, <5>1, <5>4
          <6>2. h[k - 1] = g[k - 1]
            BY <6>1
          <6>3. g[k] = SearchOn(refs, g[k - 1])
            BY <3>4, <5>1, <5>4
          <6> HIDE DEF h
          <6> QED
            BY <5>2, <5>4, <6>2, <6>3
        <5> QED
          BY <5>3, <5>4
      <4> QED
        BY <4>1, <4>2
    <3>6. h = [k \in 0..m |-> h[k]]
      OBVIOUS
    <3> HIDE DEF h
    <3>7. h = [k \in 0..m |-> IF k = 0 THEN SearchInit(refs, ids) ELSE SearchOn(refs, h[k - 1])]
      BY <3>5, <3>6
    <3> QED
      BY <2>2, <3>7
  <2> QED
    BY <2>3, <2>4
<1>3. PICK g : Runs(g, F)
  BY <1>1, <1>2
<1>4. Runs(Search(refs, ids), F)
  BY <1>3 DEF Search
<1> DEFINE g1 == Search(refs, ids)
<1>5. g1 = [k \in 0..F |-> IF k = 0 THEN SearchInit(refs, ids) ELSE SearchOn(refs, g1[k - 1])]
  BY <1>4
<1> HIDE DEF g1, F
<1>6. 0 \in 0..F /\ \A k \in 1..F : k \in 0..F /\ k # 0
  BY <1>1
<1>7. g1[0] = SearchInit(refs, ids)
  BY <1>5, <1>6
<1>8. \A k \in 1..F : g1[k] = SearchOn(refs, g1[k - 1])
  BY <1>5, <1>6
<1> QED
  BY <1>1, <1>7, <1>8 DEF F, g1

LEMMA SearchRuns ==
    ASSUME NEW refs, NEW ids, ReferenceMap(refs, ids), NEW k \in 0..SearchFuel(refs, ids)
    PROVE  LET s == Search(refs, ids)[k]
           IN  /\ SearchInv(refs, ids, s)
               /\ s.cyclic \/ s.stack = <<>> \/ (/\ Left(refs, ids, s) \in Nat
                                               /\ Left(refs, ids, s) + k <= SearchFuel(refs, ids))
<1> DEFINE F == SearchFuel(refs, ids)
           g == Search(refs, ids)
           Going(j) == /\ Left(refs, ids, g[j]) \in Nat
                       /\ Left(refs, ids, g[j]) + j <= F
           Fine(j) == /\ SearchInv(refs, ids, g[j])
                      /\ g[j].cyclic \/ g[j].stack = <<>> \/ Going(j)
           T == {j \in 0..F : ~Fine(j)}
<1>1. F \in Nat /\ g[0] = SearchInit(refs, ids) /\ \A j \in 1..F : g[j] = SearchOn(refs, g[j - 1])
  BY SearchRepeats
<1>2. Fine(0)
  <2>1. SearchInv(refs, ids, g[0]) /\ Len(g[0].stack) = Cardinality(DOMAIN refs)
    BY <1>1, InitSearchInv
  <2>2. Whites(ids, g[0]) = ids
    BY <1>1 DEF Whites, SearchInit
  <2>3. Left(refs, ids, g[0]) = F
    BY <2>1, <2>2 DEF Left, SearchFuel
  <2> HIDE DEF F, g
  <2> QED
    BY <1>1, <2>1, <2>3
<1>3. ASSUME NEW j \in 1..F, Fine(j - 1) PROVE Fine(j)
  <2> DEFINE s == g[j - 1]
             t == g[j]
  <2>1. t = SearchOn(refs, s) /\ SearchInv(refs, ids, s)
    BY <1>1, <1>3
  <2>2. SearchInv(refs, ids, t)
    BY <2>1, StepPreserves
  <2>3. CASE s.cyclic \/ s.stack = <<>>
    <3>1. t = s
      BY <2>1, <2>3 DEF SearchOn
    <3> QED
      BY <2>2, <2>3, <3>1
  <2>4. CASE ~(s.cyclic \/ s.stack = <<>>)
    <3>1. Left(refs, ids, s) \in Nat /\ Left(refs, ids, s) + (j - 1) <= F
      BY <1>3, <2>4
    <3>2. t.cyclic \/ (Left(refs, ids, t) \in Nat /\ Left(refs, ids, t) + 1 <= Left(refs, ids, s))
      <4> HIDE DEF s, t
      <4> QED
        BY <2>1, <2>4, LeftDrops
    <3>3. t.cyclic \/ Going(j)
      <4> HIDE DEF g, F
      <4>1. j \in Nat
        BY <1>1
      <4> QED
        BY <1>1, <3>1, <3>2, <4>1
    <3> QED
      BY <2>2, <3>3
  <2> QED
    BY <2>3, <2>4
<1>4. ASSUME T # {} PROVE FALSE
  <2>1. T \in SUBSET Nat
    BY <1>1
  <2>2. PICK m \in T : \A j \in T : m <= j
    <3> HIDE DEF T
    <3> QED
      BY <1>4, <2>1, FirstNumber
  <2>3. m \in 0..F /\ ~Fine(m)
    OBVIOUS
  <2> HIDE DEF Fine, F
  <2>4. m \in 1..F /\ m - 1 \in 0..F /\ ~(m <= m - 1)
    BY <1>1, <1>2, <2>3
  <2>5. Fine(m - 1)
    BY <2>2, <2>4
  <2> QED
    BY <1>3, <2>3, <2>4, <2>5
<1>5. Fine(k)
  <2> HIDE DEF Fine
  <2> QED
    BY <1>4
<1> QED
  BY <1>5

(* So it ends, and what it ends with is right.                             *)
LEMMA ResolutionOrderIsSound ==
    ASSUME NEW refs, NEW ids, ReferenceMap(refs, ids)
    PROVE  LET found == ResolutionOrder(refs, ids)
           IN  /\ found.cyclic <=> Cyclic(refs)
               /\ found.order \in Seq(ids) /\ found.cyclic \in BOOLEAN
               /\ ~found.cyclic =>
                    /\ DOMAIN refs \subseteq Range(found.order)
                    /\ \A i, j \in 1..Len(found.order) : found.order[i] = found.order[j] => i = j
                    /\ \A i \in 1..Len(found.order) : \A y \in Range(Succ(refs, found.order[i])) :
                         \E j \in 1..Len(found.order) : j < i /\ found.order[j] = y
<1> DEFINE F == SearchFuel(refs, ids)
           s == ResolutionOrder(refs, ids)
           o == s.order
           m == Len(o)
           c == s.color
<1>1. F \in Nat
  BY SearchRepeats
<1>2. /\ SearchInv(refs, ids, s)
      /\ s.cyclic \/ s.stack = <<>> \/ (/\ Left(refs, ids, s) \in Nat
                                      /\ Left(refs, ids, s) + F <= F)
  <2>1. F \in 0..F
    BY <1>1
  <2> QED
    BY <2>1, SearchRuns DEF ResolutionOrder
<1>3. s.cyclic \/ s.stack = <<>>
  <2> SUFFICES ASSUME Left(refs, ids, s) \in Nat, Left(refs, ids, s) + F <= F
               PROVE  s.stack = <<>>
    BY <1>2
  <2>1. s.stack \in Seq(ids \X {"enter", "leave"})
    BY <1>2 DEF SearchInv, SearchStates
  <2>2. Whites(ids, s) \in SUBSET ids
    BY DEF Whites
  <2> DEFINE st == s.stack
             a == Cardinality(Pushes(refs, Whites(ids, s)))
  <2>3. a \in Nat /\ Left(refs, ids, s) = Len(st) + a
    BY <2>2, PushesFinite DEF Left
  <2>4. Len(st) \in Nat
    BY <2>1
  <2>5. Len(st) = 0
    <3> HIDE DEF st, a, F
    <3> QED
      BY <1>1, <2>3, <2>4
  <2> QED
    BY <2>1, <2>5
<1>4. /\ s.cyclic => Cyclic(refs)
      /\ o \in Seq(ids) /\ s.cyclic \in BOOLEAN
  BY <1>2 DEF SearchInv, SearchStates
<1>5. /\ \A x \in ids : c[x] = "black" <=> \E i \in 1..m : o[i] = x
      /\ \A i, j \in 1..m : o[i] = o[j] => i = j
      /\ \A i \in 1..m : \A y \in Range(Succ(refs, o[i])) : \E j \in 1..m : j < i /\ o[j] = y
  BY <1>2 DEF SearchInv, BlackIsOrdered
<1>6. ASSUME ~s.cyclic, NEW x \in DOMAIN refs PROVE \E i \in 1..m : o[i] = x
  <2>1. c[x] = "black"
    <3>1. s.stack = <<>>
      BY <1>3, <1>6
    <3>2. c[x] = "black" \/ \E i \in 1..Len(s.stack) : s.stack[i][1] = x
      BY <1>2 DEF SearchInv, NoneForgotten
    <3>3. Len(s.stack) = 0
      BY <3>1
    <3> QED
      BY <3>2, <3>3
  <2>2. x \in ids
    BY DEF ReferenceMap
  <2> QED
    BY <1>5, <2>1, <2>2
<1>7. ASSUME ~s.cyclic, Cyclic(refs) PROVE FALSE
  <2>1. PICK S \in SUBSET DOMAIN refs : S # {} /\ \A x \in S : Range(refs[x]) \cap S # {}
    BY <1>7 DEF Cyclic
  <2> DEFINE T == {i \in 1..m : o[i] \in S}
  <2>2. T # {}
    BY <1>6, <1>7, <2>1
  <2>3. T \in SUBSET Nat
    OBVIOUS
  <2>4. PICK i \in T : \A j \in T : i <= j
    <3> HIDE DEF T
    <3> QED
      BY <2>2, <2>3, FirstNumber
  <2>5. i \in 1..m /\ o[i] \in S
    OBVIOUS
  <2>6. PICK y \in S : y \in Range(refs[o[i]])
    BY <2>1, <2>5
  <2>7. Succ(refs, o[i]) = refs[o[i]]
    BY <2>5 DEF Succ
  <2>8. PICK j \in 1..m : j < i /\ o[j] = y
    <3> HIDE DEF o, m
    <3> QED
      BY <1>5, <2>5, <2>6, <2>7
  <2>9. j \in T
    BY <2>6, <2>8
  <2> HIDE DEF T, o, m
  <2> QED
    BY <2>4, <2>5, <2>8, <2>9
<1>8. ~s.cyclic => DOMAIN refs \subseteq Range(o)
  <2>1. DOMAIN o = 1..m
    BY <1>4
  <2> QED
    BY <1>6, <2>1 DEF Range
<1> QED
  BY <1>4, <1>5, <1>7, <1>8

---------------------------------------------------------------------------
(* The references of an export                                             *)

LEMMA GraphOfReferences ==
    ASSUME NEW byId, IsFiniteSet(DOMAIN byId), NoneDangling(byId),
           \A x \in DOMAIN byId : /\ IsFiniteSet(DOMAIN byId[x].bp.nodes)
                                  /\ DOMAIN byId[x].bp.nodes \subseteq Int
    PROVE  ReferenceMap(ReferenceGraph(byId), DOMAIN byId)
<1> DEFINE ids == DOMAIN byId
           refs == ReferenceGraph(byId)
<1>1. /\ DOMAIN refs \subseteq ids
      /\ \A x \in DOMAIN refs : x \in ids /\ refs[x] = TargetSeq(byId[x].bp)
  BY DEF ReferenceGraph
<1>2. ASSUME NEW x \in ids PROVE TargetSeq(byId[x].bp) \in Seq(ids)
  <2> DEFINE b == byId[x].bp
             N == RefNodes(b)
             f == [o \in N |-> b.nodes[o].ref]
             at == InOrder(N)
  <2>1. N \in SUBSET DOMAIN b.nodes /\ IsFiniteSet(DOMAIN b.nodes) /\ DOMAIN b.nodes \subseteq Int
    BY DEF RefNodes
  <2>2. N \subseteq Int /\ IsFiniteSet(N)
    BY <2>1, FS_Subset
  <2>3. \A o \in N : f[o] \in ids
    BY DEF NoneDangling, Targets
  <2>4. TargetSeq(b) = [k \in DOMAIN at |-> f[at[k]]]
    BY DEF TargetSeq, Pick
  <2> HIDE DEF N, f
  <2>5. at \in Seq(N)
    BY <2>2, InOrderFacts
  <2> HIDE DEF at
  <2>6. \A k \in 1..Len(at) : f[at[k]] \in ids
    BY <2>3, <2>5
  <2>7. DOMAIN at = 1..Len(at) /\ Len(at) \in Nat
    BY <2>5
  <2> HIDE DEF b
  <2>8. TargetSeq(b) \in Seq(ids)
    <3> HIDE DEF ids
    <3> QED
      BY <2>4, <2>6, <2>7
  <2> QED
    BY <2>8 DEF b
<1> QED
  BY <1>1, <1>2 DEF ReferenceMap

LEMMA SeedsOfExport ==
    ASSUME NEW n \in DOMAIN BlueprintExports
    PROVE  LET byId == ById(SeedsOf(BlueprintExports[n])) IN
           /\ IsFiniteSet(DOMAIN byId)
           /\ \A x \in DOMAIN byId : /\ IsFiniteSet(DOMAIN byId[x].bp.nodes)
                                     /\ DOMAIN byId[x].bp.nodes \subseteq Int
<1> DEFINE entries == BlueprintExports[n]
           S == {i \in DOMAIN entries : entries[i].wellFormed}
           good == Pick(entries, S)
           seeds == SeedsOf(entries)
           byId == ById(seeds)
           E == Range(entries)
<1>1. entries \in Seq(E)
  BY ExportsAreLists
<1>2. \A i \in S : /\ i \in DOMAIN entries
                    /\ IsFiniteSet(DOMAIN entries[i].bp.nodes)
                    /\ DOMAIN entries[i].bp.nodes \subseteq Int
  BY ExportsAreLists DEF Range
<1>3. seeds = [i \in DOMAIN good |-> SeedOf(good[i])]
  BY DEF SeedsOf
<1>4. S \in SUBSET DOMAIN entries
  OBVIOUS
<1> HIDE DEF entries, S, good
<1>5. DOMAIN entries = 1..Len(entries)
  BY <1>1
<1>6. /\ good \in Seq(E) /\ \A k \in DOMAIN good : \E i \in S : good[k] = entries[i]
  <2> DEFINE at == InOrder(S)
  <2>1. /\ good \in Seq(E) /\ DOMAIN good = DOMAIN at
        /\ \A k \in DOMAIN at : at[k] \in S /\ good[k] = entries[at[k]]
    BY <1>1, <1>4, <1>5, PickFacts DEF good
  <2> QED
    BY <2>1
<1>7. DOMAIN seeds = DOMAIN good /\ \A k \in DOMAIN good : seeds[k].bp = good[k].bp
  BY <1>3 DEF SeedOf
<1> HIDE DEF seeds
<1>8. \A k \in DOMAIN seeds : IsFiniteSet(DOMAIN seeds[k].bp.nodes) /\ DOMAIN seeds[k].bp.nodes \subseteq Int
  <2> SUFFICES ASSUME NEW k \in DOMAIN seeds
               PROVE  IsFiniteSet(DOMAIN seeds[k].bp.nodes) /\ DOMAIN seeds[k].bp.nodes \subseteq Int
    OBVIOUS
  <2>1. PICK i \in S : good[k] = entries[i]
    BY <1>6, <1>7
  <2>2. seeds[k].bp = entries[i].bp
    BY <1>7, <2>1
  <2> QED
    BY <1>2, <2>2, Zenon
<1>9. IsFiniteSet(DOMAIN seeds)
  <2>1. DOMAIN seeds = 1..Len(good) /\ Len(good) \in Nat
    BY <1>6, <1>7
  <2> QED
    BY <2>1, FS_Interval
<1>10. DOMAIN byId = {seeds[k].id : k \in DOMAIN seeds}
  BY DEF ById
<1>11. ASSUME NEW x \in DOMAIN byId PROVE \E k \in DOMAIN seeds : byId[x] = seeds[k]
  <2>1. \E k \in DOMAIN seeds : seeds[k].id = x
    BY <1>10
  <2>2. byId[x] = seeds[CHOOSE k \in DOMAIN seeds : seeds[k].id = x]
    BY <1>10 DEF ById
  <2> QED
    BY <2>1, <2>2
<1>12. IsFiniteSet(DOMAIN byId)
  <2>1. DOMAIN byId = {seeds[k].id : k \in DOMAIN seeds}
    BY <1>10
  <2> DEFINE ids == DOMAIN byId
             f == [k \in DOMAIN seeds |-> seeds[k].id]
  <2>2. f \in Surjection(DOMAIN seeds, ids)
    BY <2>1 DEF Surjection
  <2> HIDE DEF f, ids
  <2>3. IsFiniteSet(ids)
    BY <1>9, <2>2, FS_Surjection
  <2> QED
    BY <2>3 DEF ids
<1>13. \A x \in DOMAIN byId : IsFiniteSet(DOMAIN byId[x].bp.nodes) /\ DOMAIN byId[x].bp.nodes \subseteq Int
  <2> HIDE DEF byId
  <2> QED
    BY <1>8, <1>11, Zenon
<1> QED
  BY <1>12, <1>13 DEF entries, byId, seeds

(* An order without repetition, each after its targets: so stands the      *)
(* first, and only, place of each.                                         *)
LEMMA EveryExportIsOrdered ==
    ASSUME NEW n \in DOMAIN BlueprintExports PROVE OrderSoundOf(n)
<1> DEFINE byId == ById(SeedsOf(BlueprintExports[n]))
           refs == ReferenceGraph(byId)
           found == ResolutionOrder(refs, DOMAIN byId)
           o == found.order
           at(x) == CHOOSE i \in DOMAIN o : o[i] = x
           m == Len(o)
<1> SUFFICES ASSUME NoneDangling(byId)
             PROVE  /\ found.cyclic <=> Cyclic(refs)
                    /\ ~found.cyclic =>
                         /\ IsInjective(o)
                         /\ DOMAIN refs \subseteq Range(o)
                         /\ \A x \in DOMAIN refs : \A y \in Range(refs[x]) : at(y) < at(x)
  BY DEF OrderSoundOf
<1>1. ReferenceMap(refs, DOMAIN byId)
  BY SeedsOfExport, GraphOfReferences
<1> HIDE DEF byId, refs, found
<1>2. /\ found.cyclic <=> Cyclic(refs)
      /\ o \in Seq(DOMAIN byId)
      /\ ~found.cyclic =>
           /\ DOMAIN refs \subseteq Range(o)
           /\ \A i, j \in 1..m : o[i] = o[j] => i = j
           /\ \A i \in 1..m : \A y \in Range(Succ(refs, o[i])) : \E j \in 1..m : j < i /\ o[j] = y
  BY <1>1, ResolutionOrderIsSound DEF found
<1> HIDE DEF o
<1>3. DOMAIN o = 1..m /\ m \in Nat
  BY <1>2
<1> HIDE DEF m
<1>4. ~found.cyclic => IsInjective(o)
  BY <1>2, <1>3 DEF IsInjective
<1>5. ASSUME ~found.cyclic, NEW x \in DOMAIN refs, NEW y \in Range(refs[x]) PROVE at(y) < at(x)
  <2>1. PICK i \in 1..m : o[i] = x
    BY <1>2, <1>3, <1>5 DEF Range
  <2>2. y \in Range(Succ(refs, o[i]))
    BY <2>1 DEF Succ
  <2>3. PICK j \in 1..m : j < i /\ o[j] = y
    BY <1>2, <1>5, <2>2
  <2>4. at(x) = i /\ at(y) = j
    BY <1>2, <1>3, <1>5, <2>1, <2>3
  <2> QED
    BY <2>3, <2>4
<1> QED
  BY <1>2, <1>4, <1>5 DEF o

(* Every export is ordered, so the published one is.                       *)
LEMMA OrderedOnceCompiled == CorpusInv => OrderSound
<1> SUFFICES ASSUME CorpusInv PROVE OrderSound
  OBVIOUS
<1>1. mcp.bps \in DOMAIN BlueprintExports
  BY DEF CorpusInv, Published
<1> QED
  BY <1>1, EveryExportIsOrdered DEF OrderSound, WellOrdered

(* The search over the references of the published export finds a cycle    *)
(* exactly when there is one, and otherwise an order in which each is      *)
(* after its targets: _reference_resolution_order, whatever is published.  *)
THEOREM OrderIsSound == CorpusSpec => []OrderSound
BY OrderedOnceCompiled, CorpusInvariant, PTL

(* What is served can run, reads what its caller may read, and was inlined *)
(* in order.                                                               *)
THEOREM ServedIsSound == CorpusSpec => []ServedSound
<1>1. ServedInScope /\ ServedIsRunnable /\ OrderSound => ServedSound
  BY DEF ServedSound
<1> QED
  BY <1>1, ServedStaysInScope, ServedCanRun, OrderIsSound, PTL

---------------------------------------------------------------------------
(* S4: the edits of a query                                                *)

(* The members of a list, and the first that passes a test.                *)
LEMMA Members ==
    ASSUME NEW s, s \in Seq(Range(s))
    PROVE  /\ Len(s) \in Nat /\ DOMAIN s = 1..Len(s)
           /\ \A i \in 1..Len(s) : s[i] \in Range(s)
           /\ \A x \in Range(s) : \E i \in 1..Len(s) : s[i] = x
BY DEF Range

LEMMA MinFacts ==
    ASSUME NEW n \in Nat, NEW I \in SUBSET (1..n), I # {}
    PROVE  Min(I) \in I /\ Min(I) \in 1..n
<1>1. I \in SUBSET Nat
  OBVIOUS
<1>2. \E i \in I : \A j \in I : i <= j
  BY <1>1, FirstNumber
<1>3. Min(I) \in I
  BY <1>2 DEF Min
<1> QED
  BY <1>3

(* A query after some edits: the literals that slots took out of it are    *)
(* those of its comparisons that can be located, the rest is as it was.    *)
LitEdited(old, new, slots) ==
    \/ new = old
    \/ \E e \in slots : Len(e.value) = 1 /\ old = Literal(e.value[1]) /\ new = Hole(e.slot.name)

CmpEdited(old, new, slots) ==
    /\ new = [column |-> old.column, cols |-> old.cols, op |-> old.op, lits |-> new.lits,
              located |-> old.located]
    /\ new.lits \in Seq(Range(new.lits))
    /\ Len(new.lits) = Len(old.lits)
    /\ ~old.located => new = old
    /\ \A j \in 1..Len(old.lits) : LitEdited(old.lits[j], new.lits[j], slots)

QueryEdited(old, new, slots) ==
    /\ new = [parses |-> old.parses, form |-> old.form, cmps |-> new.cmps, reads |-> old.reads,
              canonical |-> old.canonical]
    /\ new.cmps \in Seq(Range(new.cmps))
    /\ Len(new.cmps) = Len(old.cmps)
    /\ \A i \in 1..Len(old.cmps) : CmpEdited(old.cmps[i], new.cmps[i], slots)

(* Where a hole is, it stays.                                              *)
HolesStay(old, new) ==
    \A i \in 1..Len(old.cmps) : \A j \in 1..Len(old.cmps[i].lits) :
       old.cmps[i].lits[j][1] = "slot" => new.cmps[i].lits[j] = old.cmps[i].lits[j]

LEMMA LiteralIsNoHole ==
    \A v, w : /\ Literal(v) # Hole(w) /\ Literal(v)[1] = "literal" /\ Literal(v)[2] = v
              /\ Hole(w)[1] = "slot" /\ Hole(w)[2] = w
              /\ (Literal(v) = Literal(w) => v = w)
BY DEF Literal, Hole

LEMMA QueryFacts ==
    ASSUME NEW q, IsQuery(q)
    PROVE  /\ Len(q.cmps) \in Nat /\ DOMAIN q.cmps = 1..Len(q.cmps)
           /\ \A i \in 1..Len(q.cmps) :
                LET c == q.cmps[i] IN
                /\ c = [column |-> c.column, cols |-> c.cols, op |-> c.op, lits |-> c.lits, located |-> c.located]
                /\ c.column \in c.cols
                /\ Len(c.lits) \in Nat /\ DOMAIN c.lits = 1..Len(c.lits)
                /\ c.lits \in Seq(Range(c.lits))
                /\ \A j \in 1..Len(c.lits) : c.lits[j] = Literal(c.lits[j][2])
<1>1. Len(q.cmps) \in Nat /\ DOMAIN q.cmps = 1..Len(q.cmps) /\ \A i \in 1..Len(q.cmps) : q.cmps[i] \in Range(q.cmps)
  BY Members DEF IsQuery
<1>2. ASSUME NEW i \in 1..Len(q.cmps)
      PROVE  LET c == q.cmps[i] IN
             /\ c = [column |-> c.column, cols |-> c.cols, op |-> c.op, lits |-> c.lits, located |-> c.located]
             /\ c.column \in c.cols
             /\ Len(c.lits) \in Nat /\ DOMAIN c.lits = 1..Len(c.lits)
             /\ c.lits \in Seq(Range(c.lits))
             /\ \A j \in 1..Len(c.lits) : c.lits[j] = Literal(c.lits[j][2])
  <2> DEFINE c == q.cmps[i]
             L == {Literal(l[2]) : l \in Range(c.lits)}
  <2>1. IsComparison(c)
    BY <1>1 DEF IsQuery
  <2> HIDE DEF c
  <2>2. /\ c = [column |-> c.column, cols |-> c.cols, op |-> c.op, lits |-> c.lits, located |-> c.located]
        /\ c.column \in c.cols /\ c.lits \in Seq(L)
    BY <2>1 DEF IsComparison
  <2>3. \A l \in L : l = Literal(l[2])
    BY LiteralIsNoHole
  <2> HIDE DEF L
  <2>4. /\ Len(c.lits) \in Nat /\ DOMAIN c.lits = 1..Len(c.lits)
        /\ \A j \in 1..Len(c.lits) : c.lits[j] \in L
    BY <2>2
  <2>5. c.lits \in Seq(Range(c.lits))
    <3>1. \A j \in 1..Len(c.lits) : c.lits[j] \in Range(c.lits)
      BY <2>4 DEF Range
    <3>2. c.lits = [j \in 1..Len(c.lits) |-> c.lits[j]]
      BY <2>2, <2>4
    <3> QED
      BY <2>4, <3>1, <3>2
  <2> QED
    BY <2>2, <2>3, <2>4, <2>5 DEF c
<1> QED
  BY <1>1, <1>2

(* _find_literal: a comparison that carries the literal, if there is one.  *)
LEMMA FindFacts ==
    ASSUME NEW q, NEW column, NEW value, Len(q.cmps) \in Nat
    PROVE  /\ FindLiteral(q, column, value) \in 0..Len(q.cmps)
           /\ FindLiteral(q, column, value) # 0 =>
                /\ Len(value) = 1
                /\ Carries(q.cmps[FindLiteral(q, column, value)], column, value[1])
           /\ Len(value) = 1 /\ (\E i \in 1..Len(q.cmps) : Carries(q.cmps[i], column, value[1])) =>
                FindLiteral(q, column, value) # 0
<1> DEFINE I == {i \in 1..Len(q.cmps) : Carries(q.cmps[i], column, value[1])}
           f == FindLiteral(q, column, value)
<1>1. f = IF Len(value) # 1 THEN 0 ELSE IF I # {} THEN Min(I) ELSE 0
  BY DEF FindLiteral, SelectInSeq
<1>2. I # {} => Min(I) \in I /\ Min(I) \in 1..Len(q.cmps)
  <2> DEFINE n == Len(q.cmps)
  <2>1. I \in SUBSET (1..n)
    OBVIOUS
  <2> HIDE DEF I, n
  <2> QED
    BY <2>1, MinFacts DEF n
<1>3. \A i \in I : i \in 1..Len(q.cmps) /\ Carries(q.cmps[i], column, value[1])
  OBVIOUS
<1>4. (\E i \in 1..Len(q.cmps) : Carries(q.cmps[i], column, value[1])) => I # {}
  OBVIOUS
<1> HIDE DEF I, f
<1>5. /\ f \in 0..Len(q.cmps)
      /\ f # 0 => Len(value) = 1 /\ Carries(q.cmps[f], column, value[1])
      /\ Len(value) = 1 /\ (\E i \in 1..Len(q.cmps) : Carries(q.cmps[i], column, value[1])) => f # 0
  BY <1>1, <1>2, <1>3, <1>4
<1> QED
  BY <1>5 DEF f

(* literal.replace: one place of one comparison.                           *)
ReplacedAt(q, r, at, k, v, new) ==
    /\ k \in 1..Len(q.cmps[at].lits) /\ q.cmps[at].lits[k] = Literal(v)
    /\ r = [q EXCEPT !.cmps = [q.cmps EXCEPT ![at] = [q.cmps[at] EXCEPT !.lits = [q.cmps[at].lits EXCEPT ![k] = new]]]]

LEMMA ReplaceFacts ==
    ASSUME NEW q, NEW at \in 1..Len(q.cmps), NEW v, NEW new, Len(q.cmps) \in Nat,
           Len(q.cmps[at].lits) \in Nat, DOMAIN q.cmps[at].lits = 1..Len(q.cmps[at].lits),
           Literal(v) \in Range(q.cmps[at].lits)
    PROVE  \E k : ReplacedAt(q, Replace(q, at, v, new), at, k, v, new)
<1> DEFINE lits == q.cmps[at].lits
           n == Len(lits)
           I == {i \in 1..n : lits[i] = Literal(v)}
           k == SelectInSeq(lits, LAMBDA l : l = Literal(v))
<1>1. k = IF I # {} THEN Min(I) ELSE 0
  BY DEF SelectInSeq
<1>2. I # {}
  BY DEF Range
<1>3. I \in SUBSET (1..n)
  OBVIOUS
<1>4. Min(I) \in I
  <2> HIDE DEF I, n
  <2> QED
    BY <1>2, <1>3, MinFacts DEF n
<1>5. k \in 1..n /\ lits[k] = Literal(v)
  <2>1. k = Min(I)
    BY <1>1, <1>2
  <2> HIDE DEF k
  <2> QED
    BY <1>4, <2>1
<1>6. Replace(q, at, v, new)
        = [q EXCEPT !.cmps = [q.cmps EXCEPT ![at] = [q.cmps[at] EXCEPT !.lits = [q.cmps[at].lits EXCEPT ![k] = new]]]]
  BY DEF Replace
<1> HIDE DEF k
<1>7. ReplacedAt(q, Replace(q, at, v, new), at, k, v, new)
  BY <1>5, <1>6 DEF ReplacedAt
<1> QED
  BY <1>7

LEMMA EditedFacts ==
    ASSUME NEW q, IsQuery(q), NEW slots, NEW r, QueryEdited(q, r, slots)
    PROVE  /\ Len(r.cmps) = Len(q.cmps) /\ Len(q.cmps) \in Nat /\ DOMAIN r.cmps = 1..Len(q.cmps)
           /\ \A i \in 1..Len(q.cmps) :
                /\ CmpEdited(q.cmps[i], r.cmps[i], slots)
                /\ r.cmps[i].located = q.cmps[i].located /\ r.cmps[i].cols = q.cmps[i].cols
                /\ Len(r.cmps[i].lits) = Len(q.cmps[i].lits) /\ Len(q.cmps[i].lits) \in Nat
                /\ DOMAIN r.cmps[i].lits = 1..Len(q.cmps[i].lits)
                /\ \A j \in 1..Len(q.cmps[i].lits) : LitEdited(q.cmps[i].lits[j], r.cmps[i].lits[j], slots)
<1>1. Len(r.cmps) = Len(q.cmps) /\ r.cmps \in Seq(Range(r.cmps))
  BY DEF QueryEdited
<1>2. Len(q.cmps) \in Nat
  BY QueryFacts
<1>3. DOMAIN r.cmps = 1..Len(q.cmps)
  BY <1>1, Members
<1>4. ASSUME NEW i \in 1..Len(q.cmps)
      PROVE  /\ CmpEdited(q.cmps[i], r.cmps[i], slots)
             /\ r.cmps[i].located = q.cmps[i].located /\ r.cmps[i].cols = q.cmps[i].cols
             /\ Len(r.cmps[i].lits) = Len(q.cmps[i].lits) /\ Len(q.cmps[i].lits) \in Nat
             /\ DOMAIN r.cmps[i].lits = 1..Len(q.cmps[i].lits)
             /\ \A j \in 1..Len(q.cmps[i].lits) : LitEdited(q.cmps[i].lits[j], r.cmps[i].lits[j], slots)
  <2> DEFINE c == q.cmps[i]
             d == r.cmps[i]
  <2>1. CmpEdited(c, d, slots) /\ Len(c.lits) \in Nat
    BY QueryFacts DEF QueryEdited
  <2> HIDE DEF c, d
  <2>2. /\ d = [column |-> c.column, cols |-> c.cols, op |-> c.op, lits |-> d.lits, located |-> c.located]
        /\ d.lits \in Seq(Range(d.lits)) /\ Len(d.lits) = Len(c.lits)
        /\ \A j \in 1..Len(c.lits) : LitEdited(c.lits[j], d.lits[j], slots)
    BY <2>1 DEF CmpEdited
  <2>3. d.located = c.located /\ d.cols = c.cols
    BY <2>2
  <2>4. DOMAIN d.lits = 1..Len(c.lits)
    BY <2>2, Members
  <2> QED
    BY <2>1, <2>2, <2>3, <2>4 DEF c, d
<1> QED
  BY <1>1, <1>2, <1>3, <1>4

(* A named hole somewhere in a query.                                      *)
HasHole(r, name) ==
    \E i \in 1..Len(r.cmps) : \E j \in 1..Len(r.cmps[i].lits) : r.cmps[i].lits[j] = Hole(name)

SlotEdit(q, r, new, slots, e) ==
    /\ QueryEdited(q, new, slots)
    /\ HolesStay(r, new)
    /\ e.role = "slot" /\ Located(r, e) # 0 => HasHole(new, e.slot.name)

LEMMA EditPreserves ==
    ASSUME NEW q, IsQuery(q), NEW slots, NEW r, QueryEdited(q, r, slots),
           NEW e, e.role = "slot" => e \in slots
    PROVE  SlotEdit(q, r, Edit(r, e), slots, e)
<1> DEFINE n == Len(q.cmps)
           at == Located(r, e)
           new == Edit(r, e)
<1>1. /\ Len(r.cmps) = n /\ n \in Nat /\ DOMAIN r.cmps = 1..n
      /\ \A i \in 1..n :
           /\ CmpEdited(q.cmps[i], r.cmps[i], slots)
           /\ r.cmps[i].located = q.cmps[i].located /\ r.cmps[i].cols = q.cmps[i].cols
           /\ Len(r.cmps[i].lits) = Len(q.cmps[i].lits) /\ Len(q.cmps[i].lits) \in Nat
           /\ DOMAIN r.cmps[i].lits = 1..Len(q.cmps[i].lits)
           /\ \A j \in 1..Len(q.cmps[i].lits) : LitEdited(q.cmps[i].lits[j], r.cmps[i].lits[j], slots)
  BY EditedFacts
<1>2. CASE ~(e.role = "slot" /\ at # 0)
  <2>1. new = r
    BY <1>2 DEF Edit
  <2>2. HolesStay(r, r)
    BY DEF HolesStay
  <2> QED
    BY <1>2, <2>1, <2>2 DEF SlotEdit
<1>3. CASE e.role = "slot" /\ at # 0
  <2> DEFINE v == e.value[1]
             h == Hole(e.slot.name)
             c == r.cmps[at]
             old == q.cmps[at]
  <2>1. new = Replace(r, at, v, h)
    BY <1>3 DEF Edit
  <2>2. at \in 1..n /\ Len(e.value) = 1 /\ Carries(c, e.column, v)
    <3>1. at \in 0..n /\ (at # 0 => Len(e.value) = 1 /\ Carries(r.cmps[at], e.column, e.value[1]))
      BY <1>1, FindFacts DEF Located
    <3> HIDE DEF at
    <3> QED
      BY <1>1, <1>3, <3>1
  <2> HIDE DEF at, new
  <2>3. c.located /\ Literal(v) \in Range(c.lits)
    BY <2>2 DEF Carries
  <2>4. PICK k : ReplacedAt(r, new, at, k, v, h)
    <3>1. at \in 1..Len(r.cmps) /\ Len(r.cmps[at].lits) \in Nat
          /\ DOMAIN r.cmps[at].lits = 1..Len(r.cmps[at].lits)
      BY <1>1, <2>2
    <3> HIDE DEF v, h
    <3>2. \E k : ReplacedAt(r, Replace(r, at, v, h), at, k, v, h)
      BY <1>1, <2>3, <3>1, ReplaceFacts
    <3> QED
      BY <2>1, <3>2
  <2> DEFINE lits == [c.lits EXCEPT ![k] = h]
             cmp == [c EXCEPT !.lits = lits]
             cmps == [r.cmps EXCEPT ![at] = cmp]
  <2>5. k \in 1..Len(c.lits) /\ c.lits[k] = Literal(v) /\ new = [r EXCEPT !.cmps = cmps]
    BY <2>4 DEF ReplacedAt
  <2>6. /\ CmpEdited(old, c, slots) /\ c.located = old.located
        /\ Len(c.lits) = Len(old.lits) /\ Len(old.lits) \in Nat /\ DOMAIN c.lits = 1..Len(old.lits)
        /\ \A j \in 1..Len(old.lits) : LitEdited(old.lits[j], c.lits[j], slots)
    BY <1>1, <2>2
  <2>7. c = [column |-> old.column, cols |-> old.cols, op |-> old.op, lits |-> c.lits, located |-> old.located]
    BY <2>6 DEF CmpEdited
  <2> HIDE DEF c, old, v, h
  <2>8. /\ lits = [j \in 1..Len(old.lits) |-> IF j = k THEN h ELSE c.lits[j]]
    BY <2>6
  <2>9. cmp = [column |-> old.column, cols |-> old.cols, op |-> old.op, lits |-> lits, located |-> old.located]
    <3> HIDE DEF lits
    <3> QED
      BY <2>7
  <2> HIDE DEF lits
  <2>10. lits \in Seq(Range(lits)) /\ Len(lits) = Len(old.lits)
    <3>1. \A j \in 1..Len(old.lits) : lits[j] \in Range(lits)
      BY <2>8 DEF Range
    <3>2. lits = [j \in 1..Len(old.lits) |-> lits[j]]
      BY <2>8
    <3> QED
      BY <2>6, <3>1, <3>2
  <2>11. \A j \in 1..Len(old.lits) : LitEdited(old.lits[j], lits[j], slots)
    <3> SUFFICES ASSUME NEW j \in 1..Len(old.lits) PROVE LitEdited(old.lits[j], lits[j], slots)
      OBVIOUS
    <3>1. CASE j # k
      <4>1. lits[j] = c.lits[j]
        BY <2>8, <3>1
      <4> QED
        BY <2>6, <4>1
    <3>2. CASE j = k
      <4>1. lits[j] = h /\ LitEdited(old.lits[k], Literal(v), slots)
        BY <2>5, <2>6, <2>8, <3>2
      <4>2. old.lits[k] = Literal(v)
        BY <4>1, LiteralIsNoHole DEF LitEdited
      <4>3. e \in slots
        BY <1>3
      <4> QED
        BY <2>2, <3>2, <4>1, <4>2, <4>3 DEF LitEdited, v, h
    <3> QED
      BY <3>1, <3>2
  <2>12. CmpEdited(old, cmp, slots) /\ cmp.lits = lits
    <3>1. cmp.lits = lits
      BY <2>9
    <3>2. old.located
      BY <2>3, <2>6
    <3> HIDE DEF cmp
    <3> QED
      BY <2>9, <2>10, <2>11, <3>1, <3>2 DEF CmpEdited
  <2> HIDE DEF cmp
  <2>13. cmps = [i \in 1..n |-> IF i = at THEN cmp ELSE r.cmps[i]]
    BY <1>1
  <2>14. new = [parses |-> q.parses, form |-> q.form, cmps |-> cmps, reads |-> q.reads, canonical |-> q.canonical]
    <3>1. r = [parses |-> q.parses, form |-> q.form, cmps |-> r.cmps, reads |-> q.reads, canonical |-> q.canonical]
      BY DEF QueryEdited
    <3> HIDE DEF cmps
    <3> QED
      BY <2>5, <3>1
  <2> HIDE DEF cmps
  <2>15. cmps \in Seq(Range(cmps)) /\ Len(cmps) = n
    <3>1. \A i \in 1..n : cmps[i] \in Range(cmps)
      BY <2>13 DEF Range
    <3>2. cmps = [i \in 1..n |-> cmps[i]]
      BY <2>13
    <3>3. n \in Nat
      BY <1>1
    <3> HIDE DEF n
    <3> QED
      BY <3>1, <3>2, <3>3
  <2>16. \A i \in 1..n : CmpEdited(q.cmps[i], cmps[i], slots)
    <3> SUFFICES ASSUME NEW i \in 1..n PROVE CmpEdited(q.cmps[i], cmps[i], slots)
      OBVIOUS
    <3>1. CASE i = at
      <4>1. cmps[i] = cmp
        BY <2>13, <3>1
      <4> QED
        BY <2>12, <3>1, <4>1 DEF old
    <3>2. CASE i # at
      <4>1. cmps[i] = r.cmps[i]
        BY <2>13, <3>2
      <4> QED
        BY <1>1, <4>1
    <3> QED
      BY <3>1, <3>2
  <2>17. new.cmps = cmps
    BY <2>14
  <2> HIDE DEF n
  <2>18. QueryEdited(q, new, slots)
    BY <2>14, <2>15, <2>16, <2>17 DEF QueryEdited, n
  <2>19. HolesStay(r, new)
    <3> SUFFICES ASSUME NEW i \in 1..Len(r.cmps), NEW j \in 1..Len(r.cmps[i].lits), r.cmps[i].lits[j][1] = "slot"
                 PROVE  cmps[i].lits[j] = r.cmps[i].lits[j]
      BY <2>17 DEF HolesStay
    <3>1. CASE i # at
      BY <1>1, <2>13, <3>1
    <3>2. CASE i = at
      <4>1. cmps[i].lits = lits /\ r.cmps[i].lits = c.lits
        BY <1>1, <2>12, <2>13, <3>2 DEF c
      <4>2. j # k
        BY <2>5, <4>1, LiteralIsNoHole
      <4>3. j \in 1..Len(old.lits)
        BY <2>6, <4>1
      <4> QED
        BY <2>8, <4>1, <4>2, <4>3
    <3> QED
      BY <3>1, <3>2
  <2>20. HasHole(new, e.slot.name)
    <3>1. at \in 1..Len(cmps) /\ cmps[at] = cmp
      BY <2>2, <2>13, <2>15
    <3>2. k \in 1..Len(lits) /\ lits[k] = h
      BY <2>5, <2>6, <2>8, <2>10
    <3>3. cmps[at].lits = lits
      BY <2>12, <3>1
    <3> QED
      BY <2>17, <3>1, <3>2, <3>3 DEF HasHole, h
  <2> QED
    BY <2>18, <2>19, <2>20 DEF SlotEdit, new
<1> QED
  BY <1>2, <1>3

LEMMA EditsRepeat ==
    ASSUME NEW q, NEW entries, Len(entries) \in Nat
    PROVE  /\ Edits(q, entries)[0] = q
           /\ \A k \in 1..Len(entries) : Edits(q, entries)[k] = Edit(Edits(q, entries)[k - 1], entries[k])
<1> DEFINE F == Len(entries)
           Runs(g, n) == g = [k \in 0..n |-> IF k = 0 THEN q ELSE Edit(g[k - 1], entries[k])]
<1>1. ASSUME NEW n \in Nat PROVE \E g : Runs(g, n)
  <2> DEFINE T == {m \in Nat : ~ \E g : Runs(g, m)}
  <2> SUFFICES ASSUME T # {} PROVE FALSE
    BY Zenon
  <2>1. PICK m \in T : \A j \in T : m <= j
    <3>1. T \in SUBSET Nat
      OBVIOUS
    <3> HIDE DEF T
    <3> QED
      BY <3>1, FirstNumber
  <2>2. m \in Nat /\ ~ \E g : Runs(g, m)
    OBVIOUS
  <2>3. CASE m = 0
    <3> DEFINE g == [k \in 0..0 |-> q]
    <3>1. Runs(g, 0)
      OBVIOUS
    <3> QED
      BY <2>2, <2>3, <3>1
  <2>4. CASE m # 0
    <3>1. m - 1 \in Nat /\ ~(m <= m - 1)
      BY <2>2, <2>4
    <3>2. m - 1 \notin T
      BY <2>1, <3>1
    <3>3. PICK g : Runs(g, m - 1)
      BY <3>1, <3>2
    <3> DEFINE h == [k \in 0..m |-> IF k = m THEN Edit(g[m - 1], entries[m]) ELSE g[k]]
    <3>4. \A k \in 0..(m - 1) : g[k] = IF k = 0 THEN q ELSE Edit(g[k - 1], entries[k])
      BY <3>3
    <3>5. ASSUME NEW k \in 0..m
          PROVE  h[k] = IF k = 0 THEN q ELSE Edit(h[k - 1], entries[k])
      <4>1. CASE k = m
        <5>1. m # 0 /\ k - 1 \in 0..m /\ k - 1 # m /\ k - 1 = m - 1
          BY <2>2, <2>4, <4>1
        <5>2. h[k - 1] = g[m - 1]
          BY <5>1
        <5> QED
          BY <4>1, <5>1, <5>2
      <4>2. CASE k # m
        <5>1. k \in 0..(m - 1)
          BY <2>2, <4>2
        <5>2. h[k] = g[k]
          BY <4>2
        <5>3. CASE k = 0
          BY <3>4, <5>1, <5>2, <5>3
        <5>4. CASE k # 0
          <6>1. k - 1 \in 0..m /\ k - 1 # m
            BY <2>2, <5>1, <5>4
          <6>2. h[k - 1] = g[k - 1]
            BY <6>1
          <6>3. g[k] = Edit(g[k - 1], entries[k])
            BY <3>4, <5>1, <5>4
          <6> HIDE DEF h
          <6> QED
            BY <5>2, <5>4, <6>2, <6>3
        <5> QED
          BY <5>3, <5>4
      <4> QED
        BY <4>1, <4>2
    <3>6. h = [k \in 0..m |-> h[k]]
      OBVIOUS
    <3> HIDE DEF h
    <3>7. h = [k \in 0..m |-> IF k = 0 THEN q ELSE Edit(h[k - 1], entries[k])]
      BY <3>5, <3>6
    <3> QED
      BY <2>2, <3>7
  <2> QED
    BY <2>3, <2>4
<1>3. PICK g : Runs(g, F)
  BY <1>1
<1>4. Runs(Edits(q, entries), F)
  BY <1>3 DEF Edits
<1> DEFINE g1 == Edits(q, entries)
<1>5. g1 = [k \in 0..F |-> IF k = 0 THEN q ELSE Edit(g1[k - 1], entries[k])]
  BY <1>4
<1> HIDE DEF g1, F
<1>6. 0 \in 0..F /\ \A k \in 1..F : k \in 0..F /\ k # 0
  BY DEF F
<1>7. g1[0] = q
  BY <1>5, <1>6
<1>8. \A k \in 1..F : g1[k] = Edit(g1[k - 1], entries[k])
  BY <1>5, <1>6
<1> QED
  BY <1>7, <1>8 DEF F, g1

LEMMA HolesKept ==
    ASSUME NEW q, IsQuery(q), NEW slots, NEW r, NEW new, QueryEdited(q, r, slots), QueryEdited(q, new, slots),
           HolesStay(r, new), NEW name, HasHole(r, name)
    PROVE  HasHole(new, name)
<1>1. /\ Len(r.cmps) = Len(new.cmps)
      /\ \A i \in 1..Len(r.cmps) : Len(r.cmps[i].lits) = Len(new.cmps[i].lits)
  <2>1. Len(r.cmps) = Len(q.cmps) /\ \A i \in 1..Len(q.cmps) : Len(r.cmps[i].lits) = Len(q.cmps[i].lits)
    BY EditedFacts
  <2>2. Len(new.cmps) = Len(q.cmps) /\ \A i \in 1..Len(q.cmps) : Len(new.cmps[i].lits) = Len(q.cmps[i].lits)
    BY EditedFacts
  <2> QED
    BY <2>1, <2>2
<1>2. PICK i \in 1..Len(r.cmps) : \E j \in 1..Len(r.cmps[i].lits) : r.cmps[i].lits[j] = Hole(name)
  BY DEF HasHole
<1>2a. PICK j \in 1..Len(r.cmps[i].lits) : r.cmps[i].lits[j] = Hole(name)
  BY <1>2
<1>3. new.cmps[i].lits[j] = Hole(name)
  BY <1>2a, LiteralIsNoHole DEF HolesStay
<1> QED
  BY <1>1, <1>3 DEF HasHole

SlotsOf(entries) == {e \in Range(entries) : e.role = "slot"}

LEMMA EditsFacts ==
    ASSUME NEW q, IsQuery(q), NEW entries, entries \in Seq(Range(entries))
    PROVE  /\ \A k \in 0..Len(entries) : QueryEdited(q, Edits(q, entries)[k], SlotsOf(entries))
           /\ \A k \in 1..Len(entries) :
                entries[k].role = "slot" /\ Located(Edits(q, entries)[k - 1], entries[k]) # 0 =>
                  HasHole(Template(q, entries), entries[k].slot.name)
<1> DEFINE F == Len(entries)
           g == Edits(q, entries)
           slots == SlotsOf(entries)
<1>1. F \in Nat /\ g[0] = q /\ \A k \in 1..F : g[k] = Edit(g[k - 1], entries[k])
  BY Members, EditsRepeat
<1>2. \A k \in 1..F : entries[k].role = "slot" => entries[k] \in slots
  BY Members DEF SlotsOf
<1> HIDE DEF F, g, slots
<1>3. QueryEdited(q, q, slots)
  <2>1. /\ Len(q.cmps) \in Nat
        /\ \A i \in 1..Len(q.cmps) : LET c == q.cmps[i] IN
             /\ c = [column |-> c.column, cols |-> c.cols, op |-> c.op, lits |-> c.lits, located |-> c.located]
             /\ c.lits \in Seq(Range(c.lits))
    BY QueryFacts
  <2>2. \A i \in 1..Len(q.cmps) : CmpEdited(q.cmps[i], q.cmps[i], slots)
    BY <2>1 DEF CmpEdited, LitEdited
  <2> QED
    BY <2>2 DEF QueryEdited, IsQuery
<1>4. ASSUME NEW k \in 1..F, QueryEdited(q, g[k - 1], slots)
      PROVE  SlotEdit(q, g[k - 1], g[k], slots, entries[k])
  BY <1>1, <1>2, <1>4, EditPreserves
<1>5. ASSUME NEW k \in 0..F PROVE QueryEdited(q, g[k], slots)
  <2> DEFINE T == {m \in 0..F : ~QueryEdited(q, g[m], slots)}
  <2> SUFFICES ASSUME T # {} PROVE FALSE
    OBVIOUS
  <2>1. PICK m \in T : \A j \in T : m <= j
    <3>1. T \in SUBSET Nat
      BY <1>1
    <3> HIDE DEF T
    <3> QED
      BY <3>1, FirstNumber
  <2>2. m \in 0..F /\ ~QueryEdited(q, g[m], slots)
    OBVIOUS
  <2>3. m # 0
    BY <1>1, <1>3, <2>2
  <2>4. m \in 1..F /\ m - 1 \in 0..F /\ ~(m <= m - 1)
    BY <1>1, <2>2, <2>3
  <2>5. QueryEdited(q, g[m - 1], slots)
    BY <2>1, <2>4
  <2> QED
    BY <1>4, <2>2, <2>4, <2>5 DEF SlotEdit
<1>6. \A k \in 1..F : SlotEdit(q, g[k - 1], g[k], slots, entries[k])
  <2>1. \A k \in 1..F : k - 1 \in 0..F
    BY <1>1
  <2> QED
    BY <1>4, <1>5, <2>1
<1>7. ASSUME NEW k \in 1..F, entries[k].role = "slot", Located(g[k - 1], entries[k]) # 0
      PROVE  HasHole(g[F], entries[k].slot.name)
  <2> DEFINE name == entries[k].slot.name
             T == {m \in k..F : ~HasHole(g[m], name)}
  <2>0. HasHole(g[k], name)
    BY <1>6, <1>7 DEF SlotEdit
  <2> HIDE DEF name
  <2>1. ASSUME T # {} PROVE FALSE
    <3>1. PICK m \in T : \A j \in T : m <= j
      <4>1. T \in SUBSET Nat
        BY <1>1
      <4> HIDE DEF T
      <4> QED
        BY <2>1, <4>1, FirstNumber
    <3>2. m \in k..F /\ ~HasHole(g[m], name)
      OBVIOUS
    <3>3. m # k
      BY <2>0, <3>2
    <3>4. m \in 1..F /\ m - 1 \in k..F /\ m - 1 \in 0..F /\ m \in 0..F /\ ~(m <= m - 1)
      BY <1>1, <3>2, <3>3
    <3>5. HasHole(g[m - 1], name)
      BY <3>1, <3>4
    <3>6. HolesStay(g[m - 1], g[m]) /\ QueryEdited(q, g[m - 1], slots) /\ QueryEdited(q, g[m], slots)
      BY <1>5, <1>6, <3>4 DEF SlotEdit
    <3> QED
      BY <3>2, <3>5, <3>6, HolesKept
  <2>2. F \in k..F
    BY <1>1
  <2> QED
    BY <2>1, <2>2 DEF name
<1> QED
  BY <1>5, <1>7 DEF F, g, slots, Template

---------------------------------------------------------------------------
(* S4: a template is the query that was accepted                           *)

(* The largest of some positions.                                          *)
LEMMA MaxFacts ==
    ASSUME NEW n \in Nat, NEW I \in SUBSET (1..n), I # {}
    PROVE  Max(I) \in I
<1> DEFINE T == {n - i : i \in I}
<1>1. T \in SUBSET Nat /\ T # {}
  <2>1. PICK x : x \in I
    OBVIOUS
  <2>2. n - x \in T
    BY <2>1
  <2>3. \A i \in I : n - i \in Nat
    OBVIOUS
  <2> QED
    BY <2>2, <2>3
<1>2. PICK t \in T : \A j \in T : t <= j
  <2> HIDE DEF T
  <2> QED
    BY <1>1, FirstNumber
<1>3. PICK i \in I : t = n - i
  OBVIOUS
<1>4. \A j \in I : i >= j
  <2> TAKE j \in I
  <2>1. n - j \in T
    OBVIOUS
  <2>2. t <= n - j
    BY <1>2, <2>1
  <2> QED
    BY <1>3, <2>2
<1>5. Max(I) = CHOOSE x \in I : \A y \in I : x >= y
  BY DEF Max
<1> QED
  BY <1>3, <1>4, <1>5, Zenon

(* _collapse_designations: the query that stands for a reference is the    *)
(* last one, and filters no less than the others.                          *)
Stands(ref) ==
    /\ ref \in DOMAIN Designated
    /\ QueryOf(ref) = Last(Designated[ref])
    /\ IsQuery(QueryOf(ref))
    /\ \A i \in DOMAIN Designated[ref] :
         LiteralPredicates(Designated[ref][i]) \subseteq LiteralPredicates(QueryOf(ref))

LEMMA CollapseFacts == ASSUME NEW ref, HasQuery(ref) PROVE Stands(ref)
<1> DEFINE qs == Designated[ref]
<1>1. ref \in DOMAIN Designated
  BY DEF HasQuery, QueryOf
<1>2. QueryOf(ref) = CollapseDesignations(qs)
  BY <1>1 DEF QueryOf, Resolved
<1>3. qs \in Seq(Range(qs)) /\ \A q \in Range(qs) : IsQuery(q)
  BY <1>1, QueriesAreParsed
<1> HIDE DEF qs
<1>4. CollapseDesignations(qs) # NoQuery
  BY <1>2 DEF HasQuery
<1>5. qs # <<>>
  BY <1>4 DEF CollapseDesignations
<1>6. Len(qs) \in Nat /\ DOMAIN qs = 1..Len(qs) /\ Len(qs) # 0 /\ \A i \in 1..Len(qs) : qs[i] \in Range(qs)
  BY <1>3, <1>5, Members
<1>7. Last(qs) \in Range(qs) /\ Last(qs) = qs[Len(qs)]
  BY <1>6 DEF Last
<1>8. CASE Len(qs) = 1
  <2>1. CollapseDesignations(qs) = Last(qs)
    BY <1>5, <1>7, <1>8 DEF CollapseDesignations
  <2>2. \A i \in DOMAIN qs : qs[i] = Last(qs)
    BY <1>6, <1>7, <1>8
  <2> QED
    BY <1>1, <1>2, <1>3, <1>7, <2>1, <2>2 DEF Stands, qs
<1>9. CASE Len(qs) # 1
  <2>1. /\ CollapseDesignations(qs) = Last(qs)
        /\ \A i \in DOMAIN qs : LiteralPredicates(qs[i]) \subseteq LiteralPredicates(Last(qs))
    BY <1>4, <1>5, <1>9 DEF CollapseDesignations
  <2> QED
    BY <1>1, <1>2, <1>3, <1>7, <2>1 DEF Stands, qs
<1> QED
  BY <1>8, <1>9

(* A plan of the right shape.                                              *)
IsPlan(p) ==
    /\ p.refs \in Seq(Range(p.refs))
    /\ p.entries \in Seq(Range(p.entries)) /\ \A e \in Range(p.entries) : IsExtracted(e)
    /\ p.composes \in Seq(Range(p.composes))
    /\ \A n \in Range(p.composes) : n.order \in Int

LEMMA SlotsOfPlan ==
    ASSUME NEW p, IsPlan(p) PROVE SlotsOf(p.entries) = SlotEntries(p)
<1>1. /\ DOMAIN p.entries = 1..Len(p.entries)
      /\ \A i \in 1..Len(p.entries) : p.entries[i] \in Range(p.entries)
      /\ \A x \in Range(p.entries) : \E i \in 1..Len(p.entries) : p.entries[i] = x
  BY Members DEF IsPlan
<1> QED
  BY <1>1 DEF SlotsOf, SlotEntries, SlotPositions

(* With one entry for every name, what filled a hole is what left it.      *)
LEMMA FilledIsTheQuery ==
    ASSUME NEW p, IsPlan(p), DistinctSlots(p), NEW q, IsQuery(q), NEW r, QueryEdited(q, r, SlotEntries(p))
    PROVE  Filled(p, r) = q
<1> DEFINE slots == SlotEntries(p)
           n == Len(q.cmps)
           back(l) == IF l[1] = "slot" THEN ValueOf(p, l[2]) ELSE l
<1>1. ASSUME NEW old, NEW new, old = Literal(old[2]), LitEdited(old, new, slots)
      PROVE  back(new) = old
  <2>1. CASE new = old
    BY <1>1, <2>1, LiteralIsNoHole
  <2>2. CASE new # old
    <3>1. PICK e \in slots : old = Literal(e.value[1]) /\ new = Hole(e.slot.name)
      BY <1>1, <2>2 DEF LitEdited
    <3> DEFINE of == {x \in SlotEntries(p) : x.slot.name = e.slot.name}
    <3>2. of = {e}
      BY DEF DistinctSlots, SlotEntries
    <3>3. ValueOf(p, e.slot.name) = Literal(e.value[1])
      <4>1. (CHOOSE x \in {e} : TRUE) = e
        OBVIOUS
      <4> QED
        BY <3>2, <4>1 DEF ValueOf
    <3>4. new[1] = "slot" /\ new[2] = e.slot.name
      BY <3>1, LiteralIsNoHole
    <3> QED
      BY <3>1, <3>3, <3>4
  <2> QED
    BY <2>1, <2>2
<1>2. /\ n \in Nat /\ DOMAIN q.cmps = 1..n
      /\ \A i \in 1..n : LET c == q.cmps[i] IN
           /\ c = [column |-> c.column, cols |-> c.cols, op |-> c.op, lits |-> c.lits, located |-> c.located]
           /\ Len(c.lits) \in Nat /\ DOMAIN c.lits = 1..Len(c.lits)
           /\ \A j \in 1..Len(c.lits) : c.lits[j] = Literal(c.lits[j][2])
  BY QueryFacts
<1>3. /\ DOMAIN r.cmps = 1..n
      /\ \A i \in 1..n :
           /\ CmpEdited(q.cmps[i], r.cmps[i], slots)
           /\ DOMAIN r.cmps[i].lits = 1..Len(q.cmps[i].lits)
           /\ \A j \in 1..Len(q.cmps[i].lits) : LitEdited(q.cmps[i].lits[j], r.cmps[i].lits[j], slots)
  BY EditedFacts
<1>4. /\ q = [parses |-> q.parses, form |-> q.form, cmps |-> q.cmps, reads |-> q.reads, canonical |-> q.canonical]
      /\ r = [parses |-> q.parses, form |-> q.form, cmps |-> r.cmps, reads |-> q.reads, canonical |-> q.canonical]
  BY DEF IsQuery, QueryEdited
<1> DEFINE lits(i) == FilledLits(p, r.cmps[i].lits)
           cmps == [i \in DOMAIN r.cmps |-> [r.cmps[i] EXCEPT !.lits = lits(i)]]
<1>5. Filled(p, r) = [r EXCEPT !.cmps = cmps]
  BY DEF Filled
<1> HIDE DEF slots, n
<1>6. ASSUME NEW i \in 1..n PROVE [r.cmps[i] EXCEPT !.lits = lits(i)] = q.cmps[i]
  <2> DEFINE c == q.cmps[i]
             d == r.cmps[i]
             new == lits(i)
  <2>1. /\ c = [column |-> c.column, cols |-> c.cols, op |-> c.op, lits |-> c.lits, located |-> c.located]
        /\ Len(c.lits) \in Nat /\ DOMAIN c.lits = 1..Len(c.lits)
        /\ \A j \in 1..Len(c.lits) : c.lits[j] = Literal(c.lits[j][2])
    BY <1>2
  <2>2. /\ CmpEdited(c, d, slots) /\ DOMAIN d.lits = 1..Len(c.lits)
        /\ \A j \in 1..Len(c.lits) : LitEdited(c.lits[j], d.lits[j], slots)
    BY <1>3
  <2>3. new = [j \in 1..Len(c.lits) |-> back(d.lits[j])]
    BY <2>2 DEF FilledLits
  <2> HIDE DEF c, d, new
  <2>4. d = [column |-> c.column, cols |-> c.cols, op |-> c.op, lits |-> d.lits, located |-> c.located]
    BY <2>2 DEF CmpEdited
  <2>5. \A j \in 1..Len(c.lits) : back(d.lits[j]) = c.lits[j]
    <3> TAKE j \in 1..Len(c.lits)
    <3>1. c.lits[j] = Literal(c.lits[j][2]) /\ LitEdited(c.lits[j], d.lits[j], slots)
      BY <2>1, <2>2
    <3> HIDE DEF back
    <3> QED
      BY <1>1, <3>1
  <2> HIDE DEF back
  <2>6. new = c.lits
    <3>1. c.lits = [j \in 1..Len(c.lits) |-> c.lits[j]]
      <4>1. c.lits \in Seq(Range(c.lits))
        BY QueryFacts DEF c, n
      <4> QED
        BY <2>1, <4>1
    <3> QED
      BY <2>3, <2>5, <3>1
  <2>7. [d EXCEPT !.lits = new] = [column |-> c.column, cols |-> c.cols, op |-> c.op, lits |-> new, located |-> c.located]
    BY <2>4
  <2>8. [d EXCEPT !.lits = new] = c
    BY <2>1, <2>6, <2>7
  <2> QED
    BY <2>8 DEF c, d, new
<1> HIDE DEF lits
<1>7. cmps = q.cmps
  <2>1. cmps = [i \in 1..n |-> q.cmps[i]]
    BY <1>3, <1>6
  <2>2. q.cmps = [i \in 1..n |-> q.cmps[i]]
    <3>1. q.cmps \in Seq(Range(q.cmps))
      BY DEF IsQuery
    <3> QED
      BY <1>2, <3>1
  <2> QED
    BY <2>1, <2>2
<1> HIDE DEF cmps
<1>8. [r EXCEPT !.cmps = cmps] = [parses |-> q.parses, form |-> q.form, cmps |-> cmps, reads |-> q.reads, canonical |-> q.canonical]
  BY <1>4
<1> QED
  BY <1>4, <1>5, <1>7, <1>8

(* What a plan that S4 called ok came from.                                *)
OkSingle(p, g) ==
    LET q == AcceptedForSingle(p)
    IN  /\ p.composes = <<>>
        /\ AcceptedRef(p) \in Range(p.refs) /\ q = QueryOf(AcceptedRef(p)) /\ Stands(AcceptedRef(p))
        /\ Rewrites(q, p.entries, TRUE)
        /\ g.sql = Template(q, p.entries) /\ g.nodes = <<>>
        /\ g.uses = Template(q, p.entries).reads
        /\ ReadOnlySelect(Template(q, p.entries))

OkComposite(p, g) ==
    /\ p.composes # <<>> /\ CheckDag(p.composes)
    /\ \A n \in Range(p.composes) : n.when = NoClause
    /\ \A o \in Orders(p.composes) :
         Stands(NodeRef(p, o)) /\ Rewrites(NodeQuery(p, o), p.entries, FALSE)
    /\ g.sql = NoQuery
    /\ g.nodes = [o \in Orders(p.composes) |-> Template(NodeQuery(p, o), p.entries)]
    /\ \A o \in Orders(p.composes) : g.nodes[o].reads \subseteq g.uses /\ ReadOnlySelect(g.nodes[o])

OkPlan(p, g) ==
    /\ IsPlan(p)
    /\ g.uses \subseteq CatalogColumns /\ BindsTo(p) \subseteq g.uses
    /\ IF IsComposite(p) THEN OkComposite(p, g) ELSE OkSingle(p, g)

LEMMA OutcomeOk ==
    ASSUME NEW explain \in BOOLEAN, NEW binds \in BOOLEAN, NEW readOnly \in BOOLEAN
    PROVE  /\ DecideOutcome(explain, binds, TRUE, readOnly) = "ok" => explain /\ binds /\ readOnly
           /\ DecideOutcome(explain, binds, TRUE, readOnly) \in
                {"ok", "explain_failed", "binds_to_not_subset", "not_read_only_select"}
<1>1. CASE ~explain
  BY <1>1 DEF DecideOutcome
<1>2. CASE explain /\ ~binds
  BY <1>2 DEF DecideOutcome
<1>3. CASE explain /\ binds /\ ~readOnly
  BY <1>3 DEF DecideOutcome
<1>4. CASE explain /\ binds /\ readOnly
  BY <1>4 DEF DecideOutcome
<1> QED
  BY <1>1, <1>2, <1>3, <1>4

LEMMA StampedFacts ==
    ASSUME NEW p, NEW templates, NEW sql, NEW nodes
    PROVE  LET g == Stamped(p, templates, sql, nodes) IN
           /\ g.sql = sql /\ g.nodes = nodes
           /\ g.outcome \in {"ok", "explain_failed", "binds_to_not_subset", "not_read_only_select"}
           /\ g.outcome = "ok" =>
                /\ g.uses = UNION {t.reads : t \in templates}
                /\ g.uses \subseteq CatalogColumns /\ BindsTo(p) \subseteq g.uses
                /\ \A t \in templates : ReadOnlySelect(t)
<1> DEFINE reads == UNION {t.reads : t \in templates}
           explain == reads \subseteq CatalogColumns
           uses == IF explain THEN reads ELSE {}
           binds == BindsTo(p) \subseteq uses
           readOnly == \A t \in templates : ReadOnlySelect(t)
           g == Stamped(p, templates, sql, nodes)
<1>1. g = [outcome |-> DecideOutcome(explain, binds, TRUE, readOnly), sql |-> sql, nodes |-> nodes, uses |-> uses]
  BY DEF Stamped
<1>2. explain \in BOOLEAN /\ binds \in BOOLEAN /\ readOnly \in BOOLEAN
  BY DEF ReadOnlySelect
<1> HIDE DEF explain, binds, readOnly, g, uses
<1>3. g.outcome = DecideOutcome(explain, binds, TRUE, readOnly) /\ g.sql = sql /\ g.nodes = nodes /\ g.uses = uses
  BY <1>1
<1>4. /\ g.outcome \in {"ok", "explain_failed", "binds_to_not_subset", "not_read_only_select"}
      /\ g.outcome = "ok" => explain /\ binds /\ readOnly
  BY <1>2, <1>3, OutcomeOk
<1>5. g.outcome = "ok" => uses = reads
  BY <1>4 DEF uses
<1>6. g.outcome = "ok" => reads \subseteq CatalogColumns /\ BindsTo(p) \subseteq uses /\ readOnly
  BY <1>4 DEF explain, binds
<1> QED
  BY <1>3, <1>4, <1>5, <1>6 DEF g, readOnly

LEMMA AcceptedFacts ==
    ASSUME NEW p, IsPlan(p), AcceptedForSingle(p) # NoQuery
    PROVE  /\ AcceptedRef(p) \in Range(p.refs) /\ Stands(AcceptedRef(p))
           /\ AcceptedForSingle(p) = QueryOf(AcceptedRef(p))
<1> DEFINE I == Resolving(p)
<1>1. I # {} /\ AcceptedForSingle(p) = QueryOf(AcceptedRef(p))
  BY DEF AcceptedForSingle
<1>2. /\ Len(p.refs) \in Nat /\ DOMAIN p.refs = 1..Len(p.refs)
      /\ \A i \in 1..Len(p.refs) : p.refs[i] \in Range(p.refs)
  BY Members DEF IsPlan
<1>3. Max(I) \in I
  <2> DEFINE n == Len(p.refs)
  <2>1. I \in SUBSET (1..n) /\ n \in Nat
    BY <1>2 DEF Resolving
  <2> HIDE DEF I, n
  <2> QED
    BY <1>1, <2>1, MaxFacts
<1>4. Max(I) \in 1..Len(p.refs) /\ HasQuery(p.refs[Max(I)])
  BY <1>2, <1>3 DEF Resolving
<1>5. AcceptedRef(p) = p.refs[Max(I)]
  BY DEF AcceptedRef
<1> QED
  BY <1>1, <1>2, <1>4, <1>5, CollapseFacts

LEMMA GeneralizeFacts ==
    ASSUME NEW p \in Plans
    PROVE  LET g == GeneralizeBlueprint(p) IN
           /\ \/ \E reason \in {"dag_invalid", "unrewritable_sql", "when_bearing_composite"} : g = FailToReview(reason)
              \/ /\ g.outcome \in {"ok", "explain_failed", "binds_to_not_subset", "not_read_only_select"}
                 /\ g.nodes = <<>> \/ DOMAIN g.nodes = Orders(p.composes)
           /\ g.outcome = "ok" => OkPlan(p, g)
<1> DEFINE g == GeneralizeBlueprint(p)
           Failed == \E reason \in {"dag_invalid", "unrewritable_sql", "when_bearing_composite"} : g = FailToReview(reason)
           Checked == /\ g.outcome \in {"ok", "explain_failed", "binds_to_not_subset", "not_read_only_select"}
                      /\ g.nodes = <<>> \/ DOMAIN g.nodes = Orders(p.composes)
<1>1. Failed => g.outcome # "ok"
  BY DEF FailToReview
<1>2. CASE p.shape # "good"
  <2>1. g = FailToReview("dag_invalid") \/ g = FailToReview("unrewritable_sql")
    BY <1>2, PlansAreExtracted DEF GeneralizeBlueprint
  <2> QED
    BY <1>1, <2>1
<1>3. CASE p.shape = "good"
  <2>1. IsPlan(p)
    BY <1>3, PlansAreExtracted DEF IsPlan
  <2>2. CASE ~IsComposite(p)
    <3> DEFINE q == AcceptedForSingle(p)
               t == Template(q, p.entries)
               ts == {t}
    <3>1. g = GeneralizeSingle(p)
      BY <1>3, <2>2 DEF GeneralizeBlueprint
    <3>2. CASE q = NoQuery \/ ~Rewrites(q, p.entries, TRUE)
      <4>1. g = FailToReview("unrewritable_sql")
        BY <3>1, <3>2 DEF GeneralizeSingle
      <4> QED
        BY <1>1, <4>1
    <3>3. CASE q # NoQuery /\ Rewrites(q, p.entries, TRUE)
      <4>1. g = Stamped(p, ts, t, <<>>)
        BY <3>1, <3>3 DEF GeneralizeSingle
      <4> HIDE DEF g, t, ts
      <4>2. /\ g.sql = t /\ g.nodes = <<>>
            /\ g.outcome \in {"ok", "explain_failed", "binds_to_not_subset", "not_read_only_select"}
            /\ g.outcome = "ok" =>
                 /\ g.uses = UNION {x.reads : x \in ts}
                 /\ g.uses \subseteq CatalogColumns /\ BindsTo(p) \subseteq g.uses
                 /\ \A x \in ts : ReadOnlySelect(x)
        BY <4>1, StampedFacts
      <4>3. UNION {x.reads : x \in ts} = t.reads /\ t \in ts
        BY DEF ts
      <4>4. p.composes = <<>>
        BY <2>2 DEF IsComposite
      <4>5. g.outcome = "ok" => OkSingle(p, g)
        BY <2>1, <3>3, <4>2, <4>3, <4>4, AcceptedFacts DEF OkSingle, t
      <4> QED
        BY <2>1, <2>2, <4>2, <4>5 DEF OkPlan, g
    <3> QED
      BY <3>2, <3>3
  <2>3. CASE IsComposite(p)
    <3> DEFINE Os == Orders(p.composes)
               template == [o \in Os |-> Template(NodeQuery(p, o), p.entries)]
    <3>1. g = GeneralizeComposite(p)
      BY <1>3, <2>3 DEF GeneralizeBlueprint
    <3>2. CASE p.composes = <<>> \/ ~CheckDag(p.composes)
      <4>1. g = FailToReview("dag_invalid")
        BY <3>1, <3>2 DEF GeneralizeComposite
      <4> QED
        BY <1>1, <4>1
    <3>3. CASE ~(p.composes = <<>> \/ ~CheckDag(p.composes)) /\ \E n \in Range(p.composes) : n.when # NoClause
      <4>1. g = FailToReview("when_bearing_composite")
        BY <3>1, <3>3 DEF GeneralizeComposite
      <4> QED
        BY <1>1, <4>1
    <3> DEFINE Unwritten == \E o \in Os : ~HasQuery(NodeRef(p, o)) \/ ~Rewrites(NodeQuery(p, o), p.entries, FALSE)
    <3>4. CASE /\ ~(p.composes = <<>> \/ ~CheckDag(p.composes)) /\ ~\E n \in Range(p.composes) : n.when # NoClause
               /\ Unwritten
      <4>1. g = FailToReview("unrewritable_sql")
        BY <3>1, <3>4 DEF GeneralizeComposite
      <4> QED
        BY <1>1, <4>1
    <3>5. CASE /\ ~(p.composes = <<>> \/ ~CheckDag(p.composes)) /\ ~\E n \in Range(p.composes) : n.when # NoClause
               /\ ~Unwritten
      <4>1. g = Stamped(p, Range(template), NoQuery, template)
        BY <3>1, <3>5 DEF GeneralizeComposite
      <4>2. DOMAIN template = Os /\ \A o \in Os : template[o] \in Range(template)
        BY DEF Range
      <4>3. \A o \in Os : Stands(NodeRef(p, o)) /\ Rewrites(NodeQuery(p, o), p.entries, FALSE)
        BY <3>5, CollapseFacts
      <4>3a. p.composes # <<>> /\ CheckDag(p.composes) /\ \A n \in Range(p.composes) : n.when = NoClause
        BY <3>5
      <4>4. template = [o \in Orders(p.composes) |-> Template(NodeQuery(p, o), p.entries)]
        OBVIOUS
      <4> HIDE DEF g, template
      <4>5. /\ g.sql = NoQuery /\ g.nodes = template
            /\ g.outcome \in {"ok", "explain_failed", "binds_to_not_subset", "not_read_only_select"}
            /\ g.outcome = "ok" =>
                 /\ g.uses = UNION {x.reads : x \in Range(template)}
                 /\ g.uses \subseteq CatalogColumns /\ BindsTo(p) \subseteq g.uses
                 /\ \A x \in Range(template) : ReadOnlySelect(x)
        BY <4>1, StampedFacts
      <4>6. g.outcome = "ok" => \A o \in Os : g.nodes[o].reads \subseteq g.uses /\ ReadOnlySelect(g.nodes[o])
        BY <4>2, <4>5
      <4>7. g.outcome = "ok" => OkComposite(p, g)
        BY <4>3, <4>3a, <4>4, <4>5, <4>6 DEF OkComposite
      <4>8. DOMAIN g.nodes = Orders(p.composes)
        BY <4>2, <4>5
      <4>9. g.outcome = "ok" => OkPlan(p, g)
        BY <2>1, <2>3, <4>5, <4>7 DEF OkPlan
      <4> QED
        BY <4>5, <4>8, <4>9 DEF g
    <3> QED
      BY <3>2, <3>3, <3>4, <3>5
  <2> QED
    BY <2>2, <2>3
<1> QED
  BY <1>2, <1>3, PlansAreExtracted

GeneralizeInv ==
    /\ plan \in Plans
    /\ stamp = Unstamped \/ stamp = GeneralizeBlueprint(plan)
    /\ landing \in {"none", "loaded", "refused"}
    /\ landing # "none" => Ok
    /\ landing = "refused" => ~Compile(<<SeedFromCandidate(plan, stamp)>>).ok

LEMMA StampIsOk == ASSUME GeneralizeInv, Ok PROVE OkPlan(plan, stamp)
<1>1. stamp # Unstamped
  BY DEF Ok, Unstamped, FailToReview
<1>2. stamp = GeneralizeBlueprint(plan) /\ plan \in Plans
  BY <1>1 DEF GeneralizeInv
<1> QED
  BY <1>2, GeneralizeFacts DEF Ok

LEMMA StampIsTyped == ASSUME GeneralizeInv PROVE GeneralizationTypeOK
<1>1. CASE stamp = Unstamped
  <2>1. stamp.sql = NoQuery /\ stamp.nodes = <<>>
    BY <1>1 DEF Unstamped, FailToReview
  <2> QED
    BY <1>1, <2>1 DEF GeneralizationTypeOK, GeneralizeInv
<1>2. CASE stamp = GeneralizeBlueprint(plan) /\ \E reason \in {"dag_invalid", "unrewritable_sql", "when_bearing_composite"} : stamp = FailToReview(reason)
  <2>1. stamp.sql = NoQuery /\ stamp.nodes = <<>> /\ stamp.outcome \in {"dag_invalid", "unrewritable_sql", "when_bearing_composite"}
    BY <1>2 DEF FailToReview
  <2> QED
    BY <2>1 DEF GeneralizationTypeOK, GeneralizeInv, Outcomes
<1>3. CASE /\ stamp.outcome \in {"ok", "explain_failed", "binds_to_not_subset", "not_read_only_select"}
           /\ stamp.nodes = <<>> \/ DOMAIN stamp.nodes = Orders(plan.composes)
  BY <1>3 DEF GeneralizationTypeOK, GeneralizeInv, Outcomes
<1>4. stamp = Unstamped \/ (stamp = GeneralizeBlueprint(plan) /\ plan \in Plans)
  BY DEF GeneralizeInv
<1>5. CASE stamp = GeneralizeBlueprint(plan) /\ plan \in Plans
  BY <1>2, <1>3, <1>5, GeneralizeFacts
<1> QED
  BY <1>1, <1>4, <1>5

(* What is written for a reference, and what filling it gives.             *)
LEMMA WrittenFor ==
    ASSUME NEW p, IsPlan(p), NEW ref, Stands(ref)
    PROVE  /\ QueryEdited(QueryOf(ref), Template(QueryOf(ref), p.entries), SlotEntries(p))
           /\ DistinctSlots(p) => Filled(p, Template(QueryOf(ref), p.entries)) = QueryOf(ref)
<1>1. IsQuery(QueryOf(ref)) /\ p.entries \in Seq(Range(p.entries))
  BY DEF Stands, IsPlan
<1>2. Len(p.entries) \in Nat
  BY <1>1
<1>3. Len(p.entries) \in 0..Len(p.entries)
  BY <1>2
<1>4. QueryEdited(QueryOf(ref), Template(QueryOf(ref), p.entries), SlotEntries(p))
  BY <1>1, <1>3, EditsFacts, SlotsOfPlan DEF Template
<1> QED
  BY <1>1, <1>4, FilledIsTheQuery

LEMMA StampFills ==
    ASSUME GeneralizeInv, Ok, DistinctSlots(plan)
    PROVE  /\ IsComposite(plan) =>
                \A o \in Orders(plan.composes) : /\ o \in DOMAIN stamp.nodes
                                                 /\ Stands(NodeRef(plan, o))
                                                 /\ Filled(plan, stamp.nodes[o]) = QueryOf(NodeRef(plan, o))
           /\ IsComposite(plan) => DOMAIN stamp.nodes = Orders(plan.composes)
           /\ ~IsComposite(plan) => /\ Stands(AcceptedRef(plan))
                                    /\ Filled(plan, stamp.sql) = QueryOf(AcceptedRef(plan))
<1>1. OkPlan(plan, stamp) /\ IsPlan(plan)
  BY StampIsOk DEF OkPlan
<1>2. ASSUME IsComposite(plan), NEW o \in Orders(plan.composes)
      PROVE  /\ DOMAIN stamp.nodes = Orders(plan.composes) /\ Stands(NodeRef(plan, o))
             /\ Filled(plan, stamp.nodes[o]) = QueryOf(NodeRef(plan, o))
  <2>1. OkComposite(plan, stamp)
    BY <1>1, <1>2 DEF OkPlan
  <2>2. /\ DOMAIN stamp.nodes = Orders(plan.composes) /\ Stands(NodeRef(plan, o))
        /\ stamp.nodes[o] = Template(QueryOf(NodeRef(plan, o)), plan.entries)
    BY <1>2, <2>1 DEF OkComposite, NodeQuery
  <2> QED
    BY <1>1, <2>2, WrittenFor
<1>3. IsComposite(plan) => DOMAIN stamp.nodes = Orders(plan.composes)
  BY <1>1 DEF OkPlan, OkComposite
<1>4. ASSUME ~IsComposite(plan)
      PROVE  Stands(AcceptedRef(plan)) /\ Filled(plan, stamp.sql) = QueryOf(AcceptedRef(plan))
  <2>1. OkSingle(plan, stamp)
    BY <1>1, <1>4 DEF OkPlan
  <2>2. Stands(AcceptedRef(plan)) /\ stamp.sql = Template(QueryOf(AcceptedRef(plan)), plan.entries)
    BY <2>1 DEF OkSingle
  <2> QED
    BY <1>1, <2>2, WrittenFor
<1> QED
  BY <1>2, <1>3, <1>4

LEMMA StampIsTheQuery == ASSUME GeneralizeInv PROVE TemplateIsTheQuery
<1> SUFFICES ASSUME Ok, DistinctSlots(plan) PROVE TemplateIsTheQuery
  BY DEF TemplateIsTheQuery
<1>1. CASE IsComposite(plan)
  BY <1>1, StampFills DEF TemplateIsTheQuery, Stands
<1>2. CASE ~IsComposite(plan)
  BY <1>2, StampFills DEF TemplateIsTheQuery, Stands
<1> QED
  BY <1>1, <1>2

(* The node of an order, where orders do not repeat.                       *)
LEMMA NodeAt ==
    ASSUME NEW composes, composes \in Seq(Range(composes)),
           IsInjective([i \in DOMAIN composes |-> composes[i].order])
    PROVE  /\ \A i \in DOMAIN composes : composes[i].order \in Orders(composes)
           /\ \A n \in Range(composes) : n.order \in Orders(composes) /\ At(composes, n.order) = n
           /\ \A o \in Orders(composes) : At(composes, o) \in Range(composes) /\ At(composes, o).order = o
<1>1. \A i, j \in DOMAIN composes : composes[i].order = composes[j].order => i = j
  BY DEF IsInjective
<1>2. ASSUME NEW i \in DOMAIN composes PROVE At(composes, composes[i].order) = composes[i]
  <2>1. \A j \in DOMAIN composes : composes[j].order = composes[i].order => j = i
    BY <1>1
  <2>2. (CHOOSE j \in DOMAIN composes : composes[j].order = composes[i].order) = i
    BY <2>1
  <2> QED
    BY <2>2 DEF At
<1>3. \A o \in Orders(composes) : \E i \in DOMAIN composes : o = composes[i].order
  BY DEF Orders
<1>4. \A n \in Range(composes) : \E i \in DOMAIN composes : n = composes[i]
  BY DEF Range
<1>5. \A i \in DOMAIN composes : composes[i] \in Range(composes) /\ composes[i].order \in Orders(composes)
  BY DEF Orders, Range
<1>6. ASSUME NEW n \in Range(composes) PROVE n.order \in Orders(composes) /\ At(composes, n.order) = n
  BY <1>2, <1>4, <1>5, Zenon
<1>7. ASSUME NEW o \in Orders(composes) PROVE At(composes, o) \in Range(composes) /\ At(composes, o).order = o
  BY <1>2, <1>3, <1>5
<1> QED
  BY <1>5, <1>6, <1>7

LEMMA DagOrders == ASSUME NEW composes, CheckDag(composes) PROVE IsInjective([i \in DOMAIN composes |-> composes[i].order])
BY Zenon DEF CheckDag

(* Each entry of a strict plan says where its literals are in the query.   *)
LEMMA EntryIsThere ==
    ASSUME NEW p, IsPlan(p), NEW q, IsQuery(q), Rewrites(q, p.entries, TRUE),
           NEW e \in Range(p.entries), NEW k \in DOMAIN e.value
    PROVE  \E i \in 1..Len(q.cmps) : e.column \in q.cmps[i].cols /\ Literal(e.value[k]) \in Range(q.cmps[i].lits)
<1> DEFINE entries == p.entries
<1>1. /\ Len(entries) \in Nat /\ DOMAIN entries = 1..Len(entries) /\ entries \in Seq(Range(entries))
      /\ \E n \in 1..Len(entries) : entries[n] = e
  BY Members DEF IsPlan
<1>2. IsExtracted(e)
  BY DEF IsPlan
<1>3. /\ Len(q.cmps) \in Nat /\ DOMAIN q.cmps = 1..Len(q.cmps)
      /\ \A i \in 1..Len(q.cmps) : /\ q.cmps[i].column \in q.cmps[i].cols
                                   /\ DOMAIN q.cmps[i].lits = 1..Len(q.cmps[i].lits)
                                   /\ \A j \in 1..Len(q.cmps[i].lits) : q.cmps[i].lits[j] = Literal(q.cmps[i].lits[j][2])
  BY QueryFacts
<1>4. CASE e.role # "inline"
  <2>1. PICK n \in 1..Len(entries) : entries[n] = e
    BY <1>1
  <2> DEFINE r == Edits(q, entries)[n - 1]
             at == Located(r, e)
  <2>2. ~EntryFails(r, e, TRUE)
    BY <1>1, <2>1 DEF Rewrites
  <2>3. at # 0
    BY <1>4, <2>2 DEF EntryFails
  <2>4. QueryEdited(q, r, SlotsOf(entries))
    <3>1. n - 1 \in 0..Len(entries)
      BY <1>1
    <3> QED
      BY <1>1, <3>1, EditsFacts
  <2> HIDE DEF r
  <2>5. /\ Len(r.cmps) = Len(q.cmps)
        /\ \A i \in 1..Len(q.cmps) :
                /\ r.cmps[i].cols = q.cmps[i].cols
                /\ DOMAIN r.cmps[i].lits = 1..Len(q.cmps[i].lits)
                /\ \A j \in 1..Len(q.cmps[i].lits) : LitEdited(q.cmps[i].lits[j], r.cmps[i].lits[j], SlotsOf(entries))
    <3> DEFINE slots == SlotsOf(entries)
    <3>1. QueryEdited(q, r, slots)
      BY <2>4
    <3> HIDE DEF slots, entries
    <3>2. /\ Len(r.cmps) = Len(q.cmps) /\ Len(q.cmps) \in Nat /\ DOMAIN r.cmps = 1..Len(q.cmps)
          /\ \A i \in 1..Len(q.cmps) :
                /\ CmpEdited(q.cmps[i], r.cmps[i], slots)
                /\ r.cmps[i].located = q.cmps[i].located /\ r.cmps[i].cols = q.cmps[i].cols
                /\ Len(r.cmps[i].lits) = Len(q.cmps[i].lits) /\ Len(q.cmps[i].lits) \in Nat
                /\ DOMAIN r.cmps[i].lits = 1..Len(q.cmps[i].lits)
                /\ \A j \in 1..Len(q.cmps[i].lits) : LitEdited(q.cmps[i].lits[j], r.cmps[i].lits[j], slots)
      BY <3>1, EditedFacts
    <3> QED
      BY <3>2 DEF slots
  <2>6. at \in 1..Len(q.cmps) /\ Len(e.value) = 1 /\ Carries(r.cmps[at], e.column, e.value[1])
    <3>1. Len(r.cmps) \in Nat
      BY <1>3, <2>5
    <3>2. at \in 0..Len(r.cmps) /\ (at # 0 => Len(e.value) = 1 /\ Carries(r.cmps[at], e.column, e.value[1]))
      BY <3>1, FindFacts DEF Located
    <3> HIDE DEF at
    <3> QED
      BY <1>3, <2>3, <2>5, <3>2
  <2>7. k = 1
    <3>1. DOMAIN e.value = 1..Len(e.value)
      BY <1>2, Members DEF IsExtracted
    <3> QED
      BY <2>6, <3>1
  <2> HIDE DEF at
  <2>8. e.column \in r.cmps[at].cols /\ Literal(e.value[1]) \in Range(r.cmps[at].lits)
    BY <2>6 DEF Carries
  <2>9. PICK j \in 1..Len(q.cmps[at].lits) : r.cmps[at].lits[j] = Literal(e.value[1])
    BY <2>5, <2>6, <2>8 DEF Range
  <2>10. q.cmps[at].lits[j] = Literal(e.value[1])
    <3>1. LitEdited(q.cmps[at].lits[j], r.cmps[at].lits[j], SlotsOf(entries))
      BY <2>5, <2>6
    <3> QED
      BY <2>9, <3>1, LiteralIsNoHole DEF LitEdited
  <2>11. Literal(e.value[1]) \in Range(q.cmps[at].lits)
    <3>1. j \in DOMAIN q.cmps[at].lits
      BY <1>3, <2>6
    <3> QED
      BY <2>10, <3>1 DEF Range
  <2> QED
    BY <2>5, <2>6, <2>7, <2>8, <2>11
<1>5. CASE e.role = "inline" /\ LocatedInline(q, e)
  <2> DEFINE v == <<e.value[k]>>
             at == FindLiteral(q, e.column, v)
  <2>1. at # 0
    BY <1>5 DEF LocatedInline
  <2>2. at \in 0..Len(q.cmps) /\ (at # 0 => Carries(q.cmps[at], e.column, v[1]))
    BY <1>3, FindFacts
  <2> HIDE DEF at
  <2>3. at \in 1..Len(q.cmps) /\ Carries(q.cmps[at], e.column, e.value[k])
    BY <1>3, <2>1, <2>2
  <2> QED
    BY <2>3 DEF Carries
<1>6. CASE e.role = "inline" /\ ~LocatedInline(q, e)
  <2>1. EnumeratedInline(q, e)
    <3>1. e \in Inlines(entries) \ Kept(q, entries)
      BY <1>6 DEF Inlines, Kept
    <3> QED
      BY <3>1 DEF Rewrites, Honest
  <2>2. PICK i \in 1..Len(q.cmps) : /\ q.cmps[i].column = e.column
                                    /\ q.cmps[i].lits = [j \in DOMAIN e.value |-> Literal(e.value[j])]
    BY <1>3, <2>1 DEF EnumeratedInline, LiteralPredicates, Predicate
  <2>3. Literal(e.value[k]) \in Range(q.cmps[i].lits)
    BY <2>2 DEF Range
  <2> QED
    BY <1>3, <2>2, <2>3
<1> QED
  BY <1>4, <1>5, <1>6

LEMMA StampLosesNoFilter == ASSUME GeneralizeInv PROVE NoFilterLost
<1> SUFFICES ASSUME Ok, DistinctSlots(plan) PROVE NoFilterLost
  BY DEF NoFilterLost
<1>1. OkPlan(plan, stamp) /\ IsPlan(plan)
  BY StampIsOk DEF OkPlan
<1>2. ASSUME NEW ref \in Sources
      PROVE  Stands(ref) /\ QueryOf(ref) \in TemplateFrom(ref)
  <2>1. CASE ~IsComposite(plan)
    <3>1. ref = AcceptedRef(plan)
      BY <1>2, <2>1 DEF Sources
    <3> QED
      BY <2>1, <3>1, StampFills DEF TemplateFrom
  <2>2. CASE IsComposite(plan)
    <3>1. PICK n \in Range(plan.composes) : ref = n.toolRef
      BY <1>2, <2>2 DEF Sources
    <3>2. n.order \in Orders(plan.composes) /\ At(plan.composes, n.order) = n
      <4>1. CheckDag(plan.composes) /\ plan.composes \in Seq(Range(plan.composes))
        BY <1>1, <2>2 DEF OkPlan, OkComposite, IsPlan
      <4> QED
        BY <4>1, NodeAt, DagOrders
    <3>3. NodeRef(plan, n.order) = ref
      BY <3>1, <3>2 DEF NodeRef
    <3>4. n.order \in DOMAIN stamp.nodes /\ Stands(ref) /\ Filled(plan, stamp.nodes[n.order]) = QueryOf(ref)
      BY <2>2, <3>2, <3>3, StampFills
    <3> QED
      BY <3>3, <3>4 DEF TemplateFrom
  <2> QED
    BY <2>1, <2>2
<1>3. \A ref \in Sources : \A i \in DOMAIN Designated[ref] :
         \E t \in TemplateFrom(ref) : LiteralPredicates(Designated[ref][i]) \subseteq LiteralPredicates(t)
  BY <1>2 DEF Stands
<1>4. ASSUME ~IsComposite(plan), Accounted(plan), NEW ref \in Range(plan.refs) \cap DOMAIN Designated,
             NEW i \in DOMAIN Designated[ref], NEW pred \in LiteralPredicates(Designated[ref][i]),
             NEW k \in DOMAIN pred.value
      PROVE  \E cmp \in Range(Filled(plan, stamp.sql).cmps) :
                 pred.column \in cmp.cols /\ pred.value[k] \in Range(cmp.lits)
  <2> DEFINE q == QueryOf(AcceptedRef(plan))
  <2>1. PICK e \in Range(plan.entries) : /\ e.column = pred.column
                                         /\ pred.value = [j \in DOMAIN e.value |-> Literal(e.value[j])]
    BY <1>4 DEF Accounted
  <2>2. Filled(plan, stamp.sql) = q /\ IsQuery(q) /\ Rewrites(q, plan.entries, TRUE)
    BY <1>1, <1>4, StampFills DEF OkPlan, OkSingle, Stands
  <2>3. k \in DOMAIN e.value /\ pred.value[k] = Literal(e.value[k])
    BY <2>1
  <2> HIDE DEF q
  <2>4. PICK n \in 1..Len(q.cmps) : e.column \in q.cmps[n].cols /\ Literal(e.value[k]) \in Range(q.cmps[n].lits)
    BY <1>1, <2>2, <2>3, EntryIsThere
  <2>5. q.cmps[n] \in Range(q.cmps)
    BY <2>2, QueryFacts DEF Range
  <2> QED
    BY <2>1, <2>2, <2>3, <2>4, <2>5
<1> QED
  BY <1>3, <1>4 DEF NoFilterLost

LEMMA StampKeepsInline == ASSUME GeneralizeInv PROVE InlineStays
<1> SUFFICES ASSUME Ok, ~IsComposite(plan), NEW e \in Inlines(plan.entries), NEW k \in DOMAIN e.value
             PROVE  \E cmp \in Range(stamp.sql.cmps) : e.column \in cmp.cols /\ Literal(e.value[k]) \in Range(cmp.lits)
  BY DEF InlineStays
<1> DEFINE q == QueryOf(AcceptedRef(plan))
           r == Template(q, plan.entries)
<1>1. OkPlan(plan, stamp) /\ IsPlan(plan)
  BY StampIsOk DEF OkPlan
<1>2. Rewrites(q, plan.entries, TRUE) /\ Stands(AcceptedRef(plan)) /\ stamp.sql = r
  BY <1>1 DEF OkPlan, OkSingle
<1>3. IsQuery(q) /\ QueryEdited(q, r, SlotEntries(plan))
  BY <1>1, <1>2, WrittenFor DEF Stands
<1>4. /\ Len(r.cmps) = Len(q.cmps) /\ Len(q.cmps) \in Nat /\ DOMAIN r.cmps = 1..Len(q.cmps)
      /\ \A i \in 1..Len(q.cmps) : CmpEdited(q.cmps[i], r.cmps[i], SlotEntries(plan))
  <2> HIDE DEF q, r
  <2> QED
    BY <1>3, EditedFacts
<1>5. e \in Range(plan.entries) /\ e.role = "inline"
  BY DEF Inlines
<1>6. CASE LocatedInline(q, e)
  <2>1. LocatedInline(r, e)
    BY <1>2, <1>6 DEF Rewrites, Kept
  <2> HIDE DEF q, r
  <2> DEFINE v == <<e.value[k]>>
             at == FindLiteral(r, e.column, v)
  <2>2. at # 0
    BY <2>1 DEF LocatedInline
  <2>3. at \in 0..Len(r.cmps) /\ (at # 0 => Carries(r.cmps[at], e.column, v[1]))
    BY <1>4, FindFacts
  <2> HIDE DEF at
  <2>4. at \in 1..Len(r.cmps) /\ Carries(r.cmps[at], e.column, e.value[k])
    BY <1>4, <2>2, <2>3
  <2>5. r.cmps[at] \in Range(stamp.sql.cmps)
    BY <1>2, <1>4, <2>4 DEF Range
  <2> QED
    BY <2>4, <2>5 DEF Carries
<1>7. CASE ~LocatedInline(q, e)
  <2>1. EnumeratedInline(q, e)
    <3>1. e \in Inlines(plan.entries) \ Kept(q, plan.entries)
      BY <1>7 DEF Kept
    <3> QED
      BY <1>2, <3>1 DEF Rewrites, Honest
  <2> HIDE DEF q, r
  <2>2. PICK l \in DOMAIN e.value : FindLiteral(q, e.column, <<e.value[l]>>) = 0
    BY <1>7 DEF LocatedInline
  <2>3. /\ DOMAIN q.cmps = 1..Len(q.cmps)
        /\ \A i \in 1..Len(q.cmps) : q.cmps[i].column \in q.cmps[i].cols
    BY <1>3, QueryFacts
  <2>4. PICK i \in 1..Len(q.cmps) : /\ q.cmps[i].column = e.column
                                    /\ q.cmps[i].lits = [j \in DOMAIN e.value |-> Literal(e.value[j])]
    BY <2>1, <2>3 DEF EnumeratedInline, LiteralPredicates, Predicate
  <2>5. Literal(e.value[k]) \in Range(q.cmps[i].lits) /\ Literal(e.value[l]) \in Range(q.cmps[i].lits)
    BY <2>4 DEF Range
  <2>6. ~Carries(q.cmps[i], e.column, e.value[l])
    <3> DEFINE v == <<e.value[l]>>
    <3>1. Len(v) = 1 /\ v[1] = e.value[l]
      OBVIOUS
    <3>2. Len(v) = 1 /\ (\E j \in 1..Len(q.cmps) : Carries(q.cmps[j], e.column, v[1])) => FindLiteral(q, e.column, v) # 0
      <4> HIDE DEF v
      <4> QED
        BY <1>4, FindFacts
    <3> QED
      BY <2>2, <3>1, <3>2
  <2>7. ~q.cmps[i].located
    BY <2>3, <2>4, <2>5, <2>6 DEF Carries
  <2>8. r.cmps[i] = q.cmps[i]
    BY <1>4, <2>7 DEF CmpEdited
  <2>9. r.cmps[i] \in Range(stamp.sql.cmps)
    BY <1>2, <1>4 DEF Range
  <2> QED
    BY <2>3, <2>4, <2>5, <2>8, <2>9
<1> QED
  BY <1>6, <1>7

---------------------------------------------------------------------------
(* S4: what it calls ok, the loader takes                                  *)

(* Nothing refers to anything: there is nothing to search.                 *)
LEMMA NothingToOrder ==
    ASSUME NEW refs, DOMAIN refs = {}, NEW ids, IsFiniteSet(ids)
    PROVE  ResolutionOrder(refs, ids).order = <<>> /\ ResolutionOrder(refs, ids).cyclic = FALSE
<1> DEFINE F == SearchFuel(refs, ids)
           s == SearchInit(refs, ids)
<1>1. ReferenceMap(refs, ids)
  BY DEF ReferenceMap
<1>2. /\ F \in Nat /\ Search(refs, ids)[0] = s
      /\ \A k \in 1..F : Search(refs, ids)[k] = SearchOn(refs, Search(refs, ids)[k - 1])
  BY <1>1, SearchRepeats
<1>3. s.stack = <<>> /\ s.order = <<>> /\ s.cyclic = FALSE
  <2> DEFINE d == SetToSeq(DOMAIN refs)
  <2>1. DOMAIN d = 1..0
    <3>1. IsFiniteSet(DOMAIN refs) /\ Cardinality(DOMAIN refs) = 0
      BY FS_EmptySet
    <3> QED
      BY <3>1, SetToSeqFacts
  <2> HIDE DEF d
  <2>2. Entering(d) = [i \in 1..0 |-> <<d[i], "enter">>]
    BY <2>1 DEF Entering
  <2>3. Entering(d) = <<>>
    BY <2>2
  <2> QED
    BY <2>3 DEF SearchInit, d
<1>4. SearchOn(refs, s) = s
  BY <1>3 DEF SearchOn
<1> HIDE DEF F, s
<1>5. Search(refs, ids)[F] = s
  <2> DEFINE T == {k \in 0..F : Search(refs, ids)[k] # s}
  <2>1. ASSUME T # {} PROVE FALSE
    <3>1. T \in SUBSET Nat
      BY <1>2
    <3>2. PICK m \in T : \A j \in T : m <= j
      <4> HIDE DEF T
      <4> QED
        BY <2>1, <3>1, FirstNumber
    <3>3. m \in 0..F /\ Search(refs, ids)[m] # s
      OBVIOUS
    <3>4. m # 0
      BY <1>2, <3>3
    <3>5. m \in 1..F /\ m - 1 \in 0..F /\ ~(m <= m - 1)
      BY <1>2, <3>3, <3>4
    <3>6. Search(refs, ids)[m - 1] = s
      BY <3>2, <3>5
    <3> QED
      BY <1>2, <1>4, <3>3, <3>5, <3>6
  <2> QED
    BY <1>2, <2>1
<1> QED
  BY <1>3, <1>5 DEF ResolutionOrder, F

LEMMA NoDepths ==
    ASSUME NEW refs PROVE DOMAIN Depths(<<>>, refs) = {}
<1> DEFINE order == <<>>
           Runs(g) == g = [k \in 0..Len(order) |->
                             IF k = 0 THEN <<>>
                             ELSE (order[k] :> DepthOf(g[k - 1], refs, order[k])) @@ g[k - 1]]
           g0 == [k \in 0..0 |-> <<>>]
           known == CHOOSE g : Runs(g)
<1>1. Len(order) = 0
  OBVIOUS
<1>2. Runs(g0)
  BY <1>1
<1> HIDE DEF g0
<1>3. Runs(known)
  BY <1>2
<1>4. 0 \in 0..Len(order)
  BY <1>1
<1>5. Depths(order, refs) = known[Len(order)]
  BY DEF Depths
<1> HIDE DEF known, order
<1>6. known = [k \in 0..Len(order) |->
                             IF k = 0 THEN <<>>
                             ELSE (order[k] :> DepthOf(known[k - 1], refs, order[k])) @@ known[k - 1]]
  BY <1>3
<1>7. known[0] = <<>>
  BY <1>4, <1>6
<1> QED
  BY <1>1, <1>5, <1>7 DEF order

LEMMA NothingToResolve ==
    ASSUME NEW byId PROVE ResolveAll(byId, <<>>) = [ok |-> TRUE, byId |-> byId]
<1> DEFINE order == <<>>
           r == [ok |-> TRUE, byId |-> byId]
           Runs(g) == g = [k \in 0..Len(order) |-> IF k = 0 THEN r ELSE ResolveOne(g[k - 1], order[k])]
           g0 == [k \in 0..0 |-> r]
           after == CHOOSE g : Runs(g)
<1>1. Len(order) = 0
  OBVIOUS
<1>2. Runs(g0)
  BY <1>1
<1> HIDE DEF g0
<1>3. Runs(after)
  BY <1>2
<1>4. 0 \in 0..Len(order)
  BY <1>1
<1>5. ResolveAll(byId, order) = after[Len(order)]
  BY DEF ResolveAll
<1> HIDE DEF after, order, r
<1>6. after = [k \in 0..Len(order) |-> IF k = 0 THEN r ELSE ResolveOne(after[k - 1], order[k])]
  BY <1>3
<1>7. after[0] = r
  BY <1>4, <1>6
<1> QED
  BY <1>1, <1>5, <1>7 DEF order, r

(* One blueprint without references loads if it is valid.                  *)
LEMMA LoadedAlone ==
    ASSUME NEW seed, RefNodes(seed.bp) = {}, UsesValid(seed.bp), ValidDag(seed.bp)
    PROVE  Compile(<<seed>>).ok
<1> DEFINE seeds == <<seed>>
           id == seed.id
           byId == ById(seeds)
           refs == ReferenceGraph(byId)
           search == ResolutionOrder(refs, DOMAIN byId)
<1>1. DOMAIN seeds = {1} /\ seeds[1] = seed
  OBVIOUS
<1> HIDE DEF seeds
<1>2. DistinctIds(seeds)
  BY <1>1 DEF DistinctIds
<1>3. DOMAIN byId = {id} /\ byId[id] = seed
  <2>1. {seeds[i].id : i \in DOMAIN seeds} = {id}
    BY <1>1
  <2>2. byId = [x \in {id} |-> seeds[CHOOSE i \in DOMAIN seeds : seeds[i].id = x]]
    BY <2>1 DEF ById
  <2>3. (CHOOSE i \in DOMAIN seeds : seeds[i].id = id) = 1
    BY <1>1
  <2> QED
    BY <1>1, <2>2, <2>3
<1> HIDE DEF byId
<1>4. NoneDangling(byId)
  BY <1>3 DEF NoneDangling, Targets
<1>5. DOMAIN refs = {}
  BY <1>3 DEF ReferenceGraph
<1>6. IsFiniteSet(DOMAIN byId)
  BY <1>3, FS_Singleton
<1> HIDE DEF refs, search
<1>7. search.order = <<>> /\ search.cyclic = FALSE
  BY <1>5, <1>6, NothingToOrder DEF search
<1>8. DOMAIN Depths(search.order, refs) = {}
  BY <1>7, NoDepths
<1>9. Resolve(seeds) = ResolveAll(byId, search.order)
  BY <1>2, <1>4, <1>7, <1>8 DEF Resolve, byId, refs, search
<1>10. Resolve(seeds) = [ok |-> TRUE, byId |-> byId]
  BY <1>7, <1>9, NothingToResolve
<1>11. Resolve(seeds).ok /\ Resolve(seeds).byId = byId
  BY <1>10
<1>12. \A i \in DOMAIN seeds : UsesValid(seeds[i].bp)
  BY <1>1
<1>13. \A x \in DOMAIN byId : ValidDag(byId[x].bp)
  BY <1>3
<1>14. Compile(seeds).ok = (/\ \A i \in DOMAIN seeds : UsesValid(seeds[i].bp)
                            /\ Resolve(seeds).ok
                            /\ \A x \in DOMAIN Resolve(seeds).byId : ValidDag(Resolve(seeds).byId[x].bp))
  BY DEF Compile
<1> QED
  BY <1>11, <1>12, <1>13, <1>14 DEF seeds

(* The slots of the seed are those of the entries, each once.              *)
LEMMA SlotDocsFacts ==
    ASSUME NEW p, IsPlan(p)
    PROVE  LET s == SlotDocs(p) IN
           /\ DOMAIN s = 1..Cardinality(SlotPositions(p)) /\ Len(s) = Cardinality(SlotPositions(p))
           /\ Cardinality(SlotPositions(p)) \in Nat
           /\ \A k \in DOMAIN s : \E e \in SlotEntries(p) : s[k] = e.slot
           /\ \A e \in SlotEntries(p) : \E k \in DOMAIN s : s[k] = e.slot
           /\ DistinctSlots(p) => \A k, l \in DOMAIN s : s[k].name = s[l].name => k = l
<1> DEFINE S == SlotPositions(p)
           at == InOrder(S)
           n == Cardinality(S)
           s == SlotDocs(p)
           f == [i \in S |-> p.entries[i].slot]
<1>1. S \subseteq Int /\ IsFiniteSet(S)
  <2>1. DOMAIN p.entries = 1..Len(p.entries) /\ Len(p.entries) \in Nat
    BY Members DEF IsPlan
  <2>2. S \in SUBSET (1..Len(p.entries)) /\ IsFiniteSet(1..Len(p.entries))
    BY <2>1, FS_Interval DEF SlotPositions
  <2> QED
    BY <2>2, FS_Subset
<1>2. n \in Nat
  BY <1>1, FS_CardinalityType
<1>3. /\ at \in Seq(S) /\ Len(at) = n
      /\ \A i \in S : \E k \in 1..n : at[k] = i
      /\ \A k, l \in 1..n : k < l => at[k] < at[l]
  BY <1>1, InOrderFacts
<1> HIDE DEF at
<1>4. DOMAIN at = 1..n /\ \A k \in 1..n : at[k] \in S
  BY <1>3
<1>5. s = [k \in DOMAIN at |-> f[at[k]]]
  BY DEF SlotDocs, Pick, at
<1> HIDE DEF S, n, s
<1>6. s = [k \in 1..n |-> p.entries[at[k]].slot]
  BY <1>4, <1>5
<1>7. DOMAIN s = 1..n /\ Len(s) = n
  BY <1>2, <1>6
<1>8. \A k, l \in 1..n : at[k] = at[l] => k = l
  <2> SUFFICES ASSUME NEW k \in 1..n, NEW l \in 1..n, at[k] = at[l] PROVE k = l
    OBVIOUS
  <2>1. at[k] \in Int /\ at[l] \in Int
    BY <1>1, <1>4
  <2> QED
    BY <1>2, <1>3, <2>1
<1>9. \A k \in 1..n : s[k] = p.entries[at[k]].slot
  BY <1>6
<1>10. \A k \in 1..n : \E e \in SlotEntries(p) : s[k] = e.slot
  BY <1>4, <1>9 DEF SlotEntries, S
<1>11. \A e \in SlotEntries(p) : \E k \in 1..n : s[k] = e.slot
  <2> SUFFICES ASSUME NEW e \in SlotEntries(p) PROVE \E k \in 1..n : s[k] = e.slot
    OBVIOUS
  <2>1. PICK i \in S : e = p.entries[i]
    BY DEF SlotEntries, S
  <2> QED
    BY <1>3, <1>9, <2>1
<1>12. ASSUME DistinctSlots(p), NEW k \in 1..n, NEW l \in 1..n, s[k].name = s[l].name PROVE k = l
  <2>1. at[k] = at[l]
    BY <1>4, <1>9, <1>12 DEF DistinctSlots, S
  <2> QED
    BY <1>8, <2>1
<1> QED
  BY <1>2, <1>7, <1>10, <1>11, <1>12 DEF s, n, S

(* The bind sites of a template are its holes.                             *)
AllHoles(r) == UNION {Holes(cmp) : cmp \in Range(r.cmps)}

LEMMA SitesAreHoles ==
    ASSUME NEW r
    PROVE  LET t == AsTemplate(r) IN
           /\ t.form = r.form /\ t.reads = r.reads /\ t.canonical = r.canonical /\ t.scratch = {}
           /\ \A k : k \in ReferencedSlots(t) <=> \E name \in AllHoles(r) : k = <<name, "">>
<1> DEFINE J == {j \in DOMAIN r.cmps : Holes(r.cmps[j]) # {}}
           site(i) == [toks |-> {<<name, "">> : name \in Holes(r.cmps[i])}, place |-> "filter"]
           sites == {site(i) : i \in J}
           t == AsTemplate(r)
<1>1. t = [form |-> r.form, sites |-> sites, reads |-> r.reads, scratch |-> {}, canonical |-> r.canonical, outs |-> {}]
  <2>1. t = [NoSql EXCEPT !.form = r.form, !.reads = r.reads, !.canonical = r.canonical, !.sites = sites]
    BY DEF AsTemplate
  <2> HIDE DEF t, sites
  <2> QED
    BY <2>1 DEF NoSql
<1> HIDE DEF t
<1>2. /\ t.form = r.form /\ t.reads = r.reads /\ t.canonical = r.canonical /\ t.scratch = {}
      /\ t.sites = sites
  <2> HIDE DEF sites
  <2> QED
    BY <1>1
<1>3. ASSUME NEW k, k \in ReferencedSlots(t) PROVE \E name \in AllHoles(r) : k = <<name, "">>
  <2>1. PICK i \in J : k \in site(i).toks
    BY <1>2, <1>3 DEF ReferencedSlots
  <2>2. PICK name \in Holes(r.cmps[i]) : k = <<name, "">>
    BY <2>1
  <2>3. name \in AllHoles(r)
    BY <2>1, <2>2 DEF AllHoles, Range
  <2> QED
    BY <2>2, <2>3
<1>4. ASSUME NEW name \in AllHoles(r) PROVE <<name, "">> \in ReferencedSlots(t)
  <2>1. PICK i \in DOMAIN r.cmps : name \in Holes(r.cmps[i])
    BY DEF AllHoles, Range
  <2>2. i \in J /\ <<name, "">> \in site(i).toks
    BY <2>1
  <2>3. site(i) \in t.sites
    BY <1>2, <2>2
  <2> HIDE DEF site
  <2> QED
    BY <2>2, <2>3 DEF ReferencedSlots
<1> QED
  BY <1>2, <1>3, <1>4 DEF t

(* Every hole of a template is a slot of the plan, and a slot that was     *)
(* located has one.                                                        *)
LEMMA HolesOfTemplate ==
    ASSUME NEW p, IsPlan(p), NEW ref, Stands(ref)
    PROVE  LET r == Template(QueryOf(ref), p.entries) IN
           /\ r.canonical = QueryOf(ref).canonical
           /\ \A name \in AllHoles(r) : \E e \in SlotEntries(p) : name = e.slot.name
           /\ \A name : HasHole(r, name) => name \in AllHoles(r)
<1> DEFINE q == QueryOf(ref)
           r == Template(q, p.entries)
           slots == SlotEntries(p)
<1>1. IsQuery(q) /\ QueryEdited(q, r, slots)
  BY WrittenFor DEF Stands
<1> HIDE DEF q, r, slots
<1>2. r.canonical = q.canonical
  <2>1. r = [parses |-> q.parses, form |-> q.form, cmps |-> r.cmps, reads |-> q.reads, canonical |-> q.canonical]
    BY <1>1 DEF QueryEdited
  <2> QED
    BY <2>1
<1>3. /\ Len(r.cmps) = Len(q.cmps) /\ Len(q.cmps) \in Nat /\ DOMAIN r.cmps = 1..Len(q.cmps)
      /\ \A i \in 1..Len(q.cmps) :
                /\ CmpEdited(q.cmps[i], r.cmps[i], slots)
                /\ r.cmps[i].located = q.cmps[i].located /\ r.cmps[i].cols = q.cmps[i].cols
                /\ Len(r.cmps[i].lits) = Len(q.cmps[i].lits) /\ Len(q.cmps[i].lits) \in Nat
                /\ DOMAIN r.cmps[i].lits = 1..Len(q.cmps[i].lits)
                /\ \A j \in 1..Len(q.cmps[i].lits) : LitEdited(q.cmps[i].lits[j], r.cmps[i].lits[j], slots)
  BY <1>1, EditedFacts
<1>4. \A i \in 1..Len(q.cmps) : \A j \in 1..Len(q.cmps[i].lits) : q.cmps[i].lits[j] = Literal(q.cmps[i].lits[j][2])
  BY <1>1, QueryFacts
<1>5. ASSUME NEW name \in AllHoles(r) PROVE \E e \in slots : name = e.slot.name
  <2>1. PICK i \in 1..Len(q.cmps) : name \in Holes(r.cmps[i])
    BY <1>3 DEF AllHoles, Range
  <2>2. PICK l \in Range(r.cmps[i].lits) : l[1] = "slot" /\ l[2] = name
    BY <2>1 DEF Holes
  <2>3. PICK j \in 1..Len(q.cmps[i].lits) : l = r.cmps[i].lits[j]
    BY <1>3, <2>2 DEF Range
  <2>4. LitEdited(q.cmps[i].lits[j], l, slots) /\ q.cmps[i].lits[j][1] = "literal"
    BY <1>3, <1>4, <2>3, LiteralIsNoHole
  <2>5. PICK e \in slots : l = Hole(e.slot.name)
    BY <2>2, <2>4 DEF LitEdited
  <2> QED
    BY <2>2, <2>5, LiteralIsNoHole
<1>6. ASSUME NEW name, HasHole(r, name) PROVE name \in AllHoles(r)
  <2>1. PICK i \in 1..Len(r.cmps) : \E j \in 1..Len(r.cmps[i].lits) : r.cmps[i].lits[j] = Hole(name)
    BY <1>6 DEF HasHole
  <2>2. PICK j \in 1..Len(r.cmps[i].lits) : r.cmps[i].lits[j] = Hole(name)
    BY <2>1
  <2>3. Hole(name) \in Range(r.cmps[i].lits)
    BY <1>3, <2>1, <2>2 DEF Range
  <2>4. name \in Holes(r.cmps[i])
    BY <2>3, LiteralIsNoHole DEF Holes
  <2>5. r.cmps[i] \in Range(r.cmps)
    BY <1>3 DEF Range
  <2> QED
    BY <2>4, <2>5 DEF AllHoles
<1> QED
  BY <1>2, <1>5, <1>6 DEF q, r, slots

(* The templates of a stamp, and what S4 saw to.                           *)
WrittenTemplates(p, g) == IF IsComposite(p) THEN {g.nodes[o] : o \in Orders(p.composes)} ELSE {g.sql}

(* What S4 does not look at, and a landing may be refused for.             *)
Unchecked(p, g) ==
    \/ ~DistinctSlots(p)
    \/ Cardinality(SlotPositions(p)) > MaxSlots
    \/ IsComposite(p) /\ \E e \in SlotEntries(p) :
          e.slot.required /\ \A o \in DOMAIN g.nodes :
              e.slot.name \notin UNION {Holes(cmp) : cmp \in Range(g.nodes[o].cmps)}
    \/ \E n \in Range(p.composes) : n.tables # {}
    \/ \E q \in {g.sql} \cup Range(g.nodes) : ~q.canonical

LEMMA WrittenFacts ==
    ASSUME NEW p, NEW g, OkPlan(p, g), ~Unchecked(p, g)
    PROVE  /\ \A r \in WrittenTemplates(p, g) :
                /\ r.form = "select" /\ r.canonical /\ r.reads \subseteq g.uses
                /\ \A name \in AllHoles(r) : \E e \in SlotEntries(p) : name = e.slot.name
           /\ \A e \in SlotEntries(p) : e.slot.required => \E r \in WrittenTemplates(p, g) : e.slot.name \in AllHoles(r)
<1>1. IsPlan(p)
  BY DEF OkPlan
<1>2. CASE ~IsComposite(p)
  <2> DEFINE ref == AcceptedRef(p)
             r == Template(QueryOf(ref), p.entries)
  <2>1. /\ Stands(ref) /\ Rewrites(QueryOf(ref), p.entries, TRUE)
        /\ g.sql = r /\ g.uses = r.reads /\ ReadOnlySelect(r)
    BY <1>2 DEF OkPlan, OkSingle
  <2>2. /\ \A name \in AllHoles(r) : \E e \in SlotEntries(p) : name = e.slot.name
        /\ \A name : HasHole(r, name) => name \in AllHoles(r)
    BY <1>1, <2>1, HolesOfTemplate
  <2>3. WrittenTemplates(p, g) = {r}
    BY <1>2, <2>1 DEF WrittenTemplates
  <2>4. r.form = "select" /\ r.canonical /\ r.reads \subseteq g.uses
    <3>1. g.sql.canonical
      BY DEF Unchecked
    <3> HIDE DEF r
    <3> QED
      BY <2>1, <3>1 DEF ReadOnlySelect
  <2>5. ASSUME NEW e \in SlotEntries(p) PROVE e.slot.name \in AllHoles(r)
    <3> DEFINE entries == p.entries
               q == QueryOf(ref)
    <3>1. /\ Len(entries) \in Nat /\ DOMAIN entries = 1..Len(entries) /\ entries \in Seq(Range(entries))
      BY <1>1, Members DEF IsPlan
    <3>2. PICK n \in 1..Len(entries) : entries[n] = e /\ e.role = "slot"
      BY <3>1 DEF SlotEntries, SlotPositions
    <3>3. ~EntryFails(Edits(q, entries)[n - 1], e, TRUE)
      BY <2>1, <3>1, <3>2 DEF Rewrites
    <3>4. Located(Edits(q, entries)[n - 1], entries[n]) # 0
      BY <3>2, <3>3 DEF EntryFails
    <3>5. IsQuery(q)
      BY <2>1 DEF Stands
    <3>6. HasHole(Template(q, entries), entries[n].slot.name)
      <4> HIDE DEF entries, q
      <4> QED
        BY <3>1, <3>2, <3>4, <3>5, EditsFacts
    <3> QED
      BY <2>2, <3>2, <3>6
  <2> QED
    BY <2>2, <2>3, <2>4, <2>5
<1>3. CASE IsComposite(p)
  <2> DEFINE template(o) == Template(QueryOf(NodeRef(p, o)), p.entries)
  <2>1. /\ \A o \in Orders(p.composes) :
             /\ Stands(NodeRef(p, o)) /\ g.nodes[o] = template(o)
             /\ g.nodes[o].reads \subseteq g.uses /\ ReadOnlySelect(g.nodes[o])
        /\ DOMAIN g.nodes = Orders(p.composes)
    BY <1>3 DEF OkPlan, OkComposite, NodeQuery
  <2>2. WrittenTemplates(p, g) = {g.nodes[o] : o \in Orders(p.composes)}
    BY <1>3 DEF WrittenTemplates
  <2>3. ASSUME NEW o \in Orders(p.composes)
        PROVE  /\ g.nodes[o].form = "select" /\ g.nodes[o].canonical /\ g.nodes[o].reads \subseteq g.uses
               /\ \A name \in AllHoles(g.nodes[o]) : \E e \in SlotEntries(p) : name = e.slot.name
    <3>1. g.nodes[o] \in Range(g.nodes)
      BY <2>1 DEF Range
    <3>2. g.nodes[o].canonical
      BY <3>1 DEF Unchecked
    <3>3. \A name \in AllHoles(template(o)) : \E e \in SlotEntries(p) : name = e.slot.name
      BY <1>1, <2>1, HolesOfTemplate
    <3> HIDE DEF template
    <3> QED
      BY <2>1, <3>2, <3>3 DEF ReadOnlySelect
  <2>4. ASSUME NEW e \in SlotEntries(p), e.slot.required
        PROVE  \E o \in Orders(p.composes) : e.slot.name \in AllHoles(g.nodes[o])
    <3>1. PICK o \in DOMAIN g.nodes : e.slot.name \in UNION {Holes(cmp) : cmp \in Range(g.nodes[o].cmps)}
      BY <1>3, <2>4 DEF Unchecked
    <3> QED
      BY <2>1, <3>1 DEF AllHoles
  <2> QED
    BY <2>2, <2>3, <2>4
<1> QED
  BY <1>2, <1>3

(* The fields of the seed, for a leaf and for a DAG.                       *)
SeedBlueprint(p, g) == SeedFromCandidate(p, g).bp

LEMMA SeedFields ==
    ASSUME NEW p, NEW g
    PROVE  LET b == SeedBlueprint(p, g) IN
           /\ b.nodes = [o \in DOMAIN g.nodes |-> ComposeNode(p, g, o)]
           /\ b.sql = IF g.sql = NoQuery THEN NoSql ELSE AsTemplate(g.sql)
           /\ b.slots = SlotDocs(p) /\ b.rules = <<>> /\ b.uses = g.uses
BY DEF SeedBlueprint, SeedFromCandidate

LEMMA NodeFields ==
    ASSUME NEW p, NEW g, NEW o
    PROVE  LET c == ComposeNode(p, g, o)
               n == At(p.composes, o)
           IN  /\ c.feeds = n.feeds /\ c.gate = n.gate /\ c.when = n.when /\ c.out = n.out
               /\ c.scalars = n.scalars /\ c.tables = n.tables /\ c.ref = "none"
               /\ c.sql = AsTemplate(g.nodes[o])
BY DEF ComposeNode

(* A leaf has no nodes and its query, a DAG has no query but its nodes';   *)
(* the templates are those that were written.                              *)
LEMMA SeedTemplates ==
    ASSUME NEW p, NEW g, OkPlan(p, g), ~Unchecked(p, g)
    PROVE  LET b == SeedBlueprint(p, g) IN
           /\ DOMAIN b.nodes = DOMAIN g.nodes
           /\ \A o \in DOMAIN b.nodes : HasSql(b.nodes[o].sql)
           /\ ~(HasSql(b.sql) /\ b.nodes # <<>>)
           /\ Templates(b) = {AsTemplate(r) : r \in WrittenTemplates(p, g)}
           /\ AllReferenced(b) = UNION {ReferencedSlots(AsTemplate(r)) : r \in WrittenTemplates(p, g)}
<1> DEFINE b == SeedBlueprint(p, g)
           N == [o \in DOMAIN g.nodes |-> ComposeNode(p, g, o)]
<1>1. /\ b.nodes = N
      /\ b.sql = IF g.sql = NoQuery THEN NoSql ELSE AsTemplate(g.sql)
  BY SeedFields
<1>2. DOMAIN N = DOMAIN g.nodes /\ \A o \in DOMAIN g.nodes : N[o].sql = AsTemplate(g.nodes[o])
  <2>1. DOMAIN N = DOMAIN g.nodes /\ \A o \in DOMAIN g.nodes : N[o] = ComposeNode(p, g, o)
    OBVIOUS
  <2> HIDE DEF N
  <2> QED
    BY <2>1, NodeFields
<1>3. \A r \in WrittenTemplates(p, g) : HasSql(AsTemplate(r)) /\ AsTemplate(r).form = "select"
  BY WrittenFacts, SitesAreHoles DEF HasSql
<1> HIDE DEF b, N
<1>4. CASE ~IsComposite(p)
  <2>1. g.nodes = <<>> /\ WrittenTemplates(p, g) = {g.sql}
    BY <1>4 DEF WrittenTemplates, OkPlan, OkSingle
  <2>2. DOMAIN b.nodes = {}
    BY <1>1, <1>2, <2>1
  <2>3. b.nodes = <<>>
    BY <1>1, <2>1 DEF N
  <2>4. HasSql(AsTemplate(g.sql)) /\ g.sql # NoQuery
    <3>1. g.sql.form = "select"
      BY <2>1, WrittenFacts
    <3> QED
      BY <1>3, <2>1, <3>1 DEF NoQuery
  <2>5. b.sql = AsTemplate(g.sql) /\ HasSql(b.sql)
    BY <1>1, <2>4
  <2>6. Templates(b) = {AsTemplate(g.sql)}
    BY <2>2, <2>5 DEF Templates
  <2>7. AllReferenced(b) = ReferencedSlots(AsTemplate(g.sql))
    <3>1. IsLeaf(b)
      BY <2>3, <2>5 DEF IsLeaf
    <3>2. Nodes(b) = [o \in {LeafOrder} |-> LeafNode(b)]
      BY <3>1 DEF Nodes
    <3>3. DOMAIN Nodes(b) = {LeafOrder} /\ Nodes(b)[LeafOrder].sql = b.sql
      BY <3>2 DEF LeafNode
    <3>4. {ReferencedSlots(Nodes(b)[o].sql) : o \in DOMAIN Nodes(b)} = {ReferencedSlots(b.sql)}
      BY <3>3
    <3> QED
      BY <2>5, <3>4 DEF AllReferenced
  <2>8. /\ {AsTemplate(r) : r \in WrittenTemplates(p, g)} = {AsTemplate(g.sql)}
        /\ UNION {ReferencedSlots(AsTemplate(r)) : r \in WrittenTemplates(p, g)} = ReferencedSlots(AsTemplate(g.sql))
    BY <2>1
  <2> QED
    BY <1>1, <1>2, <2>2, <2>3, <2>6, <2>7, <2>8 DEF b
<1>5. CASE IsComposite(p)
  <2>1. /\ g.sql = NoQuery /\ DOMAIN g.nodes = Orders(p.composes)
        /\ WrittenTemplates(p, g) = {g.nodes[o] : o \in Orders(p.composes)}
    BY <1>5 DEF WrittenTemplates, OkPlan, OkComposite
  <2>2. b.sql = NoSql /\ ~HasSql(b.sql)
    BY <1>1, <2>1 DEF NoSql, HasSql
  <2>3. /\ DOMAIN b.nodes = Orders(p.composes)
        /\ \A o \in Orders(p.composes) : b.nodes[o].sql = AsTemplate(g.nodes[o]) /\ HasSql(b.nodes[o].sql)
    BY <1>1, <1>2, <1>3, <2>1
  <2>4. Templates(b) = {AsTemplate(r) : r \in WrittenTemplates(p, g)}
    BY <2>1, <2>2, <2>3 DEF Templates
  <2>5. AllReferenced(b) = UNION {ReferencedSlots(AsTemplate(r)) : r \in WrittenTemplates(p, g)}
    <3>1. Nodes(b) = b.nodes
      BY <2>2 DEF Nodes, IsLeaf
    <3>2. {ReferencedSlots(b.nodes[o].sql) : o \in DOMAIN b.nodes} = {ReferencedSlots(AsTemplate(r)) : r \in WrittenTemplates(p, g)}
      BY <2>1, <2>3
    <3> QED
      BY <3>1, <3>2 DEF AllReferenced
  <2> QED
    BY <2>1, <2>2, <2>3, <2>4, <2>5 DEF b
<1> QED
  BY <1>4, <1>5

(* Numbers that are fed by smaller ones form no cycle.                     *)
LEMMA SmallerFeedsAreADag ==
    ASSUME NEW nodes, IsFiniteSet(DOMAIN nodes), DOMAIN nodes \subseteq Int,
           \A o \in DOMAIN nodes : nodes[o].feeds \subseteq {q \in DOMAIN nodes : q < o}
    PROVE  IsDag(nodes)
<1>1. ASSUME NEW S \in SUBSET DOMAIN nodes, S # {} PROVE \E o \in S : nodes[o].feeds \cap S = {}
  <2> DEFINE at == InOrder(S)
  <2>1. S \subseteq Int /\ IsFiniteSet(S)
    BY FS_Subset
  <2>2. /\ at \in Seq(S) /\ \A i \in S : \E k \in 1..Len(at) : at[k] = i
        /\ \A k, l \in 1..Len(at) : k < l => at[k] < at[l]
    BY <2>1, InOrderFacts
  <2> HIDE DEF at
  <2>3. Len(at) \in Nat /\ \A k \in 1..Len(at) : at[k] \in S
    BY <2>2
  <2>4. 1 \in 1..Len(at)
    BY <1>1, <2>2, <2>3
  <2>5. \A i \in S : ~(i < at[1])
    <3> SUFFICES ASSUME NEW i \in S PROVE ~(i < at[1])
      OBVIOUS
    <3>1. PICK k \in 1..Len(at) : at[k] = i
      BY <2>2
    <3>2. k = 1 \/ at[1] < at[k]
      BY <2>2, <2>3, <2>4
    <3>3. at[1] \in Int /\ i \in Int
      BY <2>1, <2>3, <2>4
    <3> QED
      BY <3>1, <3>2, <3>3
  <2>6. at[1] \in S /\ nodes[at[1]].feeds \cap S = {}
    BY <2>3, <2>4, <2>5
  <2> QED
    BY <2>6
<1> QED
  BY <1>1 DEF IsDag

LEMMA OrdersAreFew ==
    ASSUME NEW composes, composes \in Seq(Range(composes)), CheckDag(composes)
    PROVE  IsFiniteSet(Orders(composes)) /\ Cardinality(Orders(composes)) \in Nat
           /\ Cardinality(Orders(composes)) <= MaxNodes
<1> DEFINE n == Len(composes)
           f == [i \in 1..n |-> composes[i].order]
           O == Orders(composes)
<1>1. n \in Nat /\ DOMAIN composes = 1..n
  BY Members
<1>2. f \in Surjection(1..n, O)
  BY <1>1 DEF Surjection, Orders
<1>3. IsFiniteSet(1..n) /\ Cardinality(1..n) = n
  <2>1. Cardinality(1..n) = IF 1 > n THEN 0 ELSE n - 1 + 1
    BY <1>1, FS_Interval
  <2> QED
    BY <1>1, <2>1, FS_Interval
<1> HIDE DEF f, O
<1>4. IsFiniteSet(O) /\ Cardinality(O) <= n
  <2> DEFINE I == 1..n
  <2> HIDE DEF I, n
  <2>1. IsFiniteSet(O) /\ Cardinality(O) <= Cardinality(I)
    BY <1>2, <1>3, FS_Surjection DEF I
  <2> QED
    BY <1>3, <2>1 DEF I
<1>5. Cardinality(O) \in Nat
  BY <1>4, FS_CardinalityType
<1>6. n <= MaxNodes
  BY DEF CheckDag
<1> QED
  BY <1>1, <1>4, <1>5, <1>6 DEF O, MaxNodes

(* A node of the seed is one of the plan.                                  *)
LEMMA SeedNode ==
    ASSUME NEW p, NEW g, OkPlan(p, g), NEW o \in DOMAIN g.nodes
    PROVE  /\ IsComposite(p) /\ DOMAIN g.nodes = Orders(p.composes) /\ CheckDag(p.composes)
           /\ At(p.composes, o) \in Range(p.composes) /\ At(p.composes, o).order = o
           /\ At(p.composes, o).when = NoClause
           /\ At(p.composes, o).out \in {"none", "scalar", "table"}
           /\ CheckNode(p.composes, At(p.composes, o))
<1>1. IsComposite(p)
  <2>1. ~IsComposite(p) => g.nodes = <<>>
    BY DEF OkPlan, OkSingle
  <2> QED
    BY <2>1
<1>2. /\ DOMAIN g.nodes = Orders(p.composes) /\ CheckDag(p.composes)
      /\ \A n \in Range(p.composes) : n.when = NoClause
      /\ p.composes \in Seq(Range(p.composes))
  BY <1>1 DEF OkPlan, OkComposite, IsPlan
<1>3. At(p.composes, o) \in Range(p.composes) /\ At(p.composes, o).order = o
  BY <1>2, NodeAt, DagOrders
<1>4. CheckNode(p.composes, At(p.composes, o))
  BY <1>2, <1>3 DEF CheckDag
<1>5. \A n \in Range(p.composes) : n.out \in {"none", "scalar", "table"}
  <2>1. \A i \in DOMAIN p.composes : p.composes[i].out \in {"none", "scalar", "table"}
    BY <1>2 DEF CheckDag
  <2> QED
    BY <2>1 DEF Range
<1> QED
  BY <1>1, <1>2, <1>3, <1>4, <1>5

(* What Blueprint.parse asks of the slots and nodes.                       *)
LEMMA SeedParses ==
    ASSUME NEW p, NEW g, OkPlan(p, g), ~Unchecked(p, g)
    PROVE  ParsesBlueprint(SeedBlueprint(p, g))
<1> DEFINE b == SeedBlueprint(p, g)
           s == SlotDocs(p)
<1>1. b.slots = s /\ b.nodes = [o \in DOMAIN g.nodes |-> ComposeNode(p, g, o)]
  BY SeedFields
<1>2. /\ DistinctSlots(p) /\ ~(Cardinality(SlotPositions(p)) > MaxSlots) /\ IsPlan(p)
  BY DEF Unchecked, OkPlan
<1> HIDE DEF b, s
<1>3. /\ Len(s) = Cardinality(SlotPositions(p)) /\ Cardinality(SlotPositions(p)) \in Nat
      /\ \A k \in DOMAIN s : \E e \in SlotEntries(p) : s[k] = e.slot
      /\ \A k, l \in DOMAIN s : s[k].name = s[l].name => k = l
  BY <1>2, SlotDocsFacts DEF s
<1>4. Len(b.slots) <= MaxSlots
  BY <1>1, <1>2, <1>3 DEF MaxSlots
<1>5. \A e \in SlotEntries(p) : IsExtracted(e) /\ e.role = "slot"
  <2>1. DOMAIN p.entries = 1..Len(p.entries) /\ \A i \in 1..Len(p.entries) : p.entries[i] \in Range(p.entries)
    BY <1>2, Members DEF IsPlan
  <2> QED
    BY <1>2, <2>1 DEF SlotEntries, SlotPositions, IsPlan
<1>6. \A k \in DOMAIN s : ParsesSlot(s[k])
  <2>1. \A e \in SlotEntries(p) : ParsesSlot(e.slot)
    BY <1>5 DEF IsExtracted
  <2> QED
    BY <1>3, <2>1
<1>7. ASSUME NEW o \in DOMAIN g.nodes PROVE ParsesNode(ComposeNode(p, g, o))
  <2>1. /\ At(p.composes, o).when = NoClause
        /\ At(p.composes, o).out \in {"none", "scalar", "table"}
    BY SeedNode
  <2>2. /\ ComposeNode(p, g, o).ref = "none" /\ ComposeNode(p, g, o).when = NoClause
        /\ ComposeNode(p, g, o).out \in {"none", "scalar", "table"}
    BY <2>1, NodeFields
  <2>3. NoClause.ov = "skip"
    BY DEF NoClause
  <2> QED
    BY <2>2, <2>3 DEF ParsesNode
<1>8. \A o \in DOMAIN b.nodes : ParsesNode(b.nodes[o])
  BY <1>1, <1>7
<1> QED
  BY <1>1, <1>3, <1>4, <1>6, <1>8 DEF ParsesBlueprint, b

(* Every slot has one token, every hole is one, and they are used.         *)
LEMMA SeedSlots ==
    ASSUME NEW p, NEW g, OkPlan(p, g), ~Unchecked(p, g)
    PROVE  LET b == SeedBlueprint(p, g) IN
           /\ TokensDisjoint(b) /\ ValidRules(b)
           /\ \A t \in Templates(b) : ValidTemplate(b, t)
           /\ \A i \in DOMAIN b.slots : ValidSlotUse(b, b.slots[i])
<1> DEFINE b == SeedBlueprint(p, g)
           s == SlotDocs(p)
<1>1. b.slots = s /\ b.rules = <<>> /\ b.uses = g.uses
  BY SeedFields
<1>2. DistinctSlots(p) /\ IsPlan(p) /\ BindsTo(p) \subseteq g.uses
  BY DEF Unchecked, OkPlan
<1>3. /\ Templates(b) = {AsTemplate(r) : r \in WrittenTemplates(p, g)}
      /\ AllReferenced(b) = UNION {ReferencedSlots(AsTemplate(r)) : r \in WrittenTemplates(p, g)}
  BY SeedTemplates
<1> HIDE DEF b, s
<1>4. /\ \A k \in DOMAIN s : \E e \in SlotEntries(p) : s[k] = e.slot
      /\ \A e \in SlotEntries(p) : \E k \in DOMAIN s : s[k] = e.slot
      /\ \A k, l \in DOMAIN s : s[k].name = s[l].name => k = l
  BY <1>2, SlotDocsFacts DEF s
<1>5. \A e \in SlotEntries(p) : IsExtracted(e) /\ e.role = "slot"
  <2>1. DOMAIN p.entries = 1..Len(p.entries) /\ \A i \in 1..Len(p.entries) : p.entries[i] \in Range(p.entries)
    BY <1>2, Members DEF IsPlan
  <2> QED
    BY <1>2, <2>1 DEF SlotEntries, SlotPositions, IsPlan
<1>6. \A k \in DOMAIN s : s[k].type # "range" /\ SlotTokens(s[k]) = {<<s[k].name, "">>}
  <2>1. \A e \in SlotEntries(p) : e.slot.type # "range"
    BY <1>5 DEF IsExtracted
  <2> SUFFICES ASSUME NEW k \in DOMAIN s
               PROVE  s[k].type # "range" /\ SlotTokens(s[k]) = {<<s[k].name, "">>}
    OBVIOUS
  <2>2. s[k].type # "range"
    BY <1>4, <2>1
  <2>3. SlotTokens(s[k]) = {<<s[k].name, "">>}
    BY <2>2, Zenon DEF SlotTokens
  <2> QED
    BY <2>2, <2>3
<1>7. RuleTokens(b) = {}
  BY <1>1 DEF RuleTokens
<1>8. TokensDisjoint(b)
  <2>1. \A k, l \in DOMAIN s : SlotTokens(s[k]) \cap SlotTokens(s[l]) # {} => k = l
    <3> SUFFICES ASSUME NEW k \in DOMAIN s, NEW l \in DOMAIN s, SlotTokens(s[k]) \cap SlotTokens(s[l]) # {}
                 PROVE  k = l
      OBVIOUS
    <3>1. <<s[k].name, "">> = <<s[l].name, "">>
      BY <1>6
    <3>2. s[k].name = s[l].name
      BY <3>1
    <3> QED
      BY <1>4, <3>2
  <2> QED
    BY <1>1, <1>7, <2>1 DEF TokensDisjoint
<1>9. ValidRules(b)
  BY <1>7 DEF ValidRules
<1>10. \A k \in DOMAIN s : <<s[k].name, "">> \in AllSlotTokens(b)
  <2> TAKE k \in DOMAIN s
  <2>1. AllSlotTokens(b) = UNION {SlotTokens(s[l]) : l \in DOMAIN s}
    BY <1>1 DEF AllSlotTokens
  <2>2. <<s[k].name, "">> \in SlotTokens(s[k])
    BY <1>6
  <2> QED
    BY <2>1, <2>2
<1>11. ASSUME NEW r \in WrittenTemplates(p, g) PROVE ValidTemplate(b, AsTemplate(r))
  <2> DEFINE t == AsTemplate(r)
  <2>1. /\ t.form = r.form /\ t.reads = r.reads /\ t.canonical = r.canonical
        /\ \A k : k \in ReferencedSlots(t) <=> \E name \in AllHoles(r) : k = <<name, "">>
    BY SitesAreHoles
  <2>2. /\ r.form = "select" /\ r.canonical /\ r.reads \subseteq g.uses
        /\ \A name \in AllHoles(r) : \E e \in SlotEntries(p) : name = e.slot.name
    BY WrittenFacts
  <2> HIDE DEF t
  <2>3. ASSUME NEW k \in ReferencedSlots(t) PROVE k \in AllSlotTokens(b)
    <3>0. PICK name \in AllHoles(r) : k = <<name, "">>
      BY <2>1, <2>3
    <3>1. PICK e \in SlotEntries(p) : k = <<e.slot.name, "">>
      BY <2>2, <3>0
    <3>2. PICK l \in DOMAIN s : s[l] = e.slot
      BY <1>4
    <3> QED
      BY <1>10, <3>1, <3>2
  <2>4. ReferencedSlots(t) \subseteq AllSlotTokens(b) \cup RuleTokens(b)
    BY <2>3
  <2>5. Parses(t) /\ ReadOnly(t) /\ ~ContainsStar(t) /\ t.form # "dict" /\ t.canonical
    BY <2>1, <2>2 DEF Parses, ReadOnly, ContainsStar
  <2>6. ReadsWithinUses(b, t)
    BY <1>1, <2>1, <2>2 DEF ReadsWithinUses
  <2>7. \A i \in DOMAIN b.slots : b.slots[i].type # "range"
    BY <1>1, <1>6
  <2> QED
    BY <2>4, <2>5, <2>6, <2>7 DEF ValidTemplate, t
<1>12. ASSUME NEW k \in DOMAIN s PROVE ValidSlotUse(b, s[k])
  <2>1. PICK e \in SlotEntries(p) : s[k] = e.slot
    BY <1>4
  <2>2. IsExtracted(e) /\ e.role = "slot"
    BY <1>5
  <2>3. /\ e.slot.required \/ e.slot.pattern # "none"
        /\ e.slot.pattern \in {"none", "condition"}
    BY <2>2 DEF IsExtracted
  <2>4. e.slot.binds # "none" => e.slot.binds \in b.uses
    BY <1>1, <1>2 DEF BindsTo
  <2>5. e.slot.required => SlotTokens(s[k]) \subseteq AllReferenced(b)
    <3> SUFFICES ASSUME e.slot.required PROVE <<e.slot.name, "">> \in AllReferenced(b)
      BY <1>6, <2>1
    <3>1. PICK r \in WrittenTemplates(p, g) : e.slot.name \in AllHoles(r)
      BY WrittenFacts
    <3>2. <<e.slot.name, "">> \in ReferencedSlots(AsTemplate(r))
      BY <3>1, SitesAreHoles
    <3> QED
      BY <1>3, <3>2
  <2> QED
    BY <2>1, <2>3, <2>4, <2>5 DEF ValidSlotUse
<1> QED
  BY <1>1, <1>3, <1>8, <1>9, <1>11, <1>12 DEF b

(* The nodes of the seed.                                                  *)
LEMMA SeedNodes ==
    ASSUME NEW p, NEW g, OkPlan(p, g), ~Unchecked(p, g)
    PROVE  LET b == SeedBlueprint(p, g) IN
           /\ \A o \in DOMAIN b.nodes : ValidConsumes(b, b.nodes[o]) /\ ValidGate(b, o) /\ ValidClause(b, b.nodes[o])
           /\ Cardinality(DOMAIN b.nodes) <= MaxComposeNodes /\ IsDag(b.nodes)
           /\ RefNodes(b) = {}
<1> DEFINE b == SeedBlueprint(p, g)
           O == DOMAIN g.nodes
<1>1. b.nodes = [o \in O |-> ComposeNode(p, g, o)] /\ \A o \in DOMAIN b.nodes : HasSql(b.nodes[o].sql)
  BY SeedFields, SeedTemplates
<1> HIDE DEF b
<1>2. DOMAIN b.nodes = O /\ \A o \in O : b.nodes[o] = ComposeNode(p, g, o)
  BY <1>1
<1>3. RefNodes(b) = {}
  BY <1>2, NodeFields DEF RefNodes
<1>4. ASSUME NEW o \in O
      PROVE  /\ b.nodes[o].feeds \subseteq {q \in O : q < o}
             /\ b.nodes[o].scalars \subseteq {q \in b.nodes[o].feeds : q \in O /\ b.nodes[q].out = "scalar"}
             /\ b.nodes[o].tables = {}
             /\ b.nodes[o].when = NoClause
  <2> DEFINE n == At(p.composes, o)
  <2>1. /\ O = Orders(p.composes) /\ n \in Range(p.composes) /\ n.order = o /\ n.when = NoClause
        /\ CheckNode(p.composes, n)
    BY SeedNode
  <2>2. n.tables = {}
    BY <2>1 DEF Unchecked
  <2>3. /\ b.nodes[o].feeds = n.feeds /\ b.nodes[o].scalars = n.scalars
        /\ b.nodes[o].tables = n.tables /\ b.nodes[o].when = n.when
    BY <1>2, NodeFields
  <2>4. /\ n.feeds \subseteq {q \in O : q < o}
        /\ n.scalars \subseteq {q \in n.feeds : At(p.composes, q).out = "scalar"}
    BY <2>1 DEF CheckNode
  <2>5. \A q \in O : b.nodes[q].out = At(p.composes, q).out
    BY <1>2, NodeFields
  <2> HIDE DEF n, O
  <2> QED
    BY <2>1, <2>2, <2>3, <2>4, <2>5
<1>5. IsFiniteSet(O) /\ O \subseteq Int /\ Cardinality(O) \in Nat /\ Cardinality(O) <= MaxNodes
  <2>1. CASE O = {}
    BY <2>1, FS_EmptySet DEF MaxNodes
  <2>2. CASE O # {}
    <3>1. O = Orders(p.composes) /\ CheckDag(p.composes)
      <4>1. PICK o \in O : TRUE
        BY <2>2
      <4> QED
        BY <4>1, SeedNode
    <3>2. p.composes \in Seq(Range(p.composes)) /\ \A n \in Range(p.composes) : n.order \in Int
      BY DEF OkPlan, IsPlan
    <3>3. IsFiniteSet(O) /\ Cardinality(O) \in Nat /\ Cardinality(O) <= MaxNodes
      BY <3>1, <3>2, OrdersAreFew
    <3>4. Orders(p.composes) \subseteq Int
      BY <3>2 DEF Orders, Range
    <3> QED
      BY <3>1, <3>3, <3>4
  <2> QED
    BY <2>1, <2>2
<1> HIDE DEF O
<1>6. Cardinality(DOMAIN b.nodes) <= MaxComposeNodes
  BY <1>2, <1>5 DEF MaxNodes, MaxComposeNodes
<1>7. IsDag(b.nodes)
  BY <1>2, <1>4, <1>5, SmallerFeedsAreADag
<1>8. ASSUME NEW o \in DOMAIN b.nodes
      PROVE  ValidConsumes(b, b.nodes[o]) /\ ValidGate(b, o) /\ ValidClause(b, b.nodes[o])
  <2>1. ValidConsumes(b, b.nodes[o])
    BY <1>2, <1>4 DEF ValidConsumes
  <2>2. ValidGate(b, o)
    BY <1>1 DEF ValidGate
  <2>3. ValidClause(b, b.nodes[o])
    <3>1. b.nodes[o].when = NoClause /\ DOMAIN NoClause.atoms = {}
      BY <1>2, <1>4 DEF NoClause
    <3> QED
      BY <3>1 DEF ValidClause, ValidWhen
  <2> QED
    BY <2>1, <2>2, <2>3
<1> QED
  BY <1>3, <1>6, <1>7, <1>8 DEF b

(* So the loader takes what S4 called ok, unless for what S4 cannot see.   *)
LEMMA CheckedLoads ==
    ASSUME NEW p, NEW g, OkPlan(p, g), ~Unchecked(p, g)
    PROVE  Compile(<<SeedFromCandidate(p, g)>>).ok
<1> DEFINE b == SeedBlueprint(p, g)
<1>1. ParsesBlueprint(b)
  BY SeedParses
<1>2. /\ TokensDisjoint(b) /\ ValidRules(b)
      /\ \A t \in Templates(b) : ValidTemplate(b, t)
      /\ \A i \in DOMAIN b.slots : ValidSlotUse(b, b.slots[i])
  BY SeedSlots
<1>3. /\ \A o \in DOMAIN b.nodes : ValidConsumes(b, b.nodes[o]) /\ ValidGate(b, o) /\ ValidClause(b, b.nodes[o])
      /\ Cardinality(DOMAIN b.nodes) <= MaxComposeNodes /\ IsDag(b.nodes)
      /\ RefNodes(b) = {}
  BY SeedNodes
<1>4. ~(HasSql(b.sql) /\ b.nodes # <<>>)
  BY SeedTemplates
<1>5. UsesValid(b)
  <2>1. b.uses = g.uses /\ g.uses \subseteq CatalogColumns
    BY SeedFields DEF OkPlan
  <2> QED
    BY <2>1, CatalogIsWellFormed DEF UsesValid
<1> HIDE DEF b
<1>6. ValidDag(b)
  BY <1>1, <1>2, <1>3, <1>4 DEF ValidDag
<1>7. b = SeedFromCandidate(p, g).bp
  BY DEF b, SeedBlueprint
<1> QED
  BY <1>3, <1>5, <1>6, <1>7, LoadedAlone

LEMMA StampLoads == ASSUME GeneralizeInv PROVE LandingRefusesOnly
<1> SUFFICES ASSUME landing = "refused" PROVE Unchecked(plan, stamp)
  BY DEF LandingRefusesOnly, Unchecked
<1>1. Ok /\ ~Compile(<<SeedFromCandidate(plan, stamp)>>).ok
  BY DEF GeneralizeInv
<1> QED
  BY <1>1, StampIsOk, CheckedLoads

LEMMA GeneralizedIsSound == ASSUME GeneralizeInv PROVE GeneralizedSound
BY StampIsTyped, StampIsTheQuery, StampLosesNoFilter, StampKeepsInline, StampLoads DEF GeneralizedSound

---------------------------------------------------------------------------
(* The three parts of the supply                                           *)

LEMMA InitSupply == SupplyInit => CorpusInv /\ GeneralizeInv
<1> SUFFICES ASSUME SupplyInit PROVE CorpusInv /\ GeneralizeInv
  OBVIOUS
<1>1. CorpusInit /\ GInit
  BY DEF SupplyInit, CorpusRests, GeneralizationRests
<1>2. CorpusInv
  BY <1>1, InitCorpusInv
<1>3. GeneralizeInv
  <2>1. Unstamped.outcome = "none"
    BY DEF Unstamped, FailToReview
  <2> QED
    BY <1>1, <2>1 DEF GInit, GeneralizeInv
<1> QED
  BY <1>2, <1>3

(* Process stamps once; Land asks the loader, and only for an ok stamp.    *)
LEMMA StampingKeepsInv == ASSUME GeneralizeInv, GNext PROVE GeneralizeInv'
<1>1. CASE Process
  <2>1. stamp = Unstamped /\ stamp' = GeneralizeBlueprint(plan) /\ plan' = plan /\ landing' = landing
    BY <1>1 DEF Process
  <2>2. landing = "none"
    <3>1. ~Ok
      BY <2>1 DEF Ok, Unstamped, FailToReview
    <3> QED
      BY <3>1 DEF GeneralizeInv
  <2> QED
    BY <2>1, <2>2 DEF GeneralizeInv
<1>2. CASE Land
  <2>1. /\ Ok /\ stamp' = stamp /\ plan' = plan
        /\ landing' = IF Compile(<<SeedFromCandidate(plan, stamp)>>).ok THEN "loaded" ELSE "refused"
    BY <1>2 DEF Land, Ok
  <2>2. Ok'
    BY <2>1 DEF Ok
  <2>3. CASE Compile(<<SeedFromCandidate(plan, stamp)>>).ok
    <3>1. landing' = "loaded"
      BY <2>1, <2>3
    <3> QED
      BY <2>1, <2>2, <3>1 DEF GeneralizeInv
  <2>4. CASE ~Compile(<<SeedFromCandidate(plan, stamp)>>).ok
    <3>1. landing' = "refused"
      BY <2>1, <2>4
    <3>2. ~Compile(<<SeedFromCandidate(plan', stamp')>>).ok
      BY <2>1, <2>4
    <3> QED
      BY <2>1, <2>2, <3>1, <3>2 DEF GeneralizeInv
  <2> QED
    BY <2>3, <2>4
<1> QED
  BY <1>1, <1>2 DEF GNext

LEMMA SupplyStep ==
    ASSUME CorpusInv, GeneralizeInv, [Extracts(ENext) \/ Loads(CorpusNext) \/ Generalizes(GNext)]_supplyVars
    PROVE  CorpusInv' /\ GeneralizeInv'
<1>1. UNCHANGED corpusVars => CorpusInv'
  BY NextKeepsCorpusInv
<1>2. UNCHANGED gvars => GeneralizeInv'
  BY DEF gvars, GeneralizeInv, Ok
<1>3. CASE Extracts(ENext)
  BY <1>1, <1>2, <1>3 DEF Extracts
<1>4. CASE Loads(CorpusNext)
  <2>1. CorpusNext /\ UNCHANGED gvars
    BY <1>4 DEF Loads
  <2> QED
    BY <1>2, <2>1, NextKeepsCorpusInv
<1>5. CASE Generalizes(GNext)
  <2>1. GNext /\ UNCHANGED corpusVars
    BY <1>5 DEF Generalizes
  <2> QED
    BY <1>1, <2>1, StampingKeepsInv
<1>6. CASE UNCHANGED supplyVars
  <2>1. UNCHANGED corpusVars /\ UNCHANGED gvars
    BY <1>6 DEF supplyVars
  <2> QED
    BY <1>1, <1>2, <2>1
<1> QED
  BY <1>3, <1>4, <1>5, <1>6

(* While the three parts of the supply run, the corpus is whole and a      *)
(* stamp is what S4 makes of its plan.                                     *)
THEOREM SupplyInvariant == SupplySpec => [](CorpusInv /\ GeneralizeInv)
<1>1. SupplyInit => CorpusInv /\ GeneralizeInv
  BY InitSupply
<1>2. (CorpusInv /\ GeneralizeInv) /\ [Extracts(ENext) \/ Loads(CorpusNext) \/ Generalizes(GNext)]_supplyVars
        => (CorpusInv /\ GeneralizeInv)'
  BY SupplyStep
<1> QED
  BY <1>1, <1>2, PTL DEF SupplySpec

(* What was served is what was published and validated, and a template     *)
(* that S4 calls ok is the query the user accepted, keeps every filter and *)
(* every literal that is part of the metric, and is refused at its landing *)
(* only for what S4 does not look at.                                      *)
THEOREM SupplyIsSound == SupplySpec => []SupplySound
<1>1. CorpusInv /\ GeneralizeInv => SupplySound
  BY InScopeWhileStamped, RunnableWhileStamped, OrderedOnceCompiled, GeneralizedIsSound
     DEF SupplySound, ServedSound
<1> QED
  BY <1>1, SupplyInvariant, PTL
=============================================================================
