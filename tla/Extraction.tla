----------------------------- MODULE Extraction -----------------------------
(***************************************************************************)
(* One extraction of one session (learning/extractor): the model is asked  *)
(* for candidates, may search the corpus first, is asked again when its    *)
(* response cannot be read, and is asked to correct the candidates whose   *)
(* SHAPE was wrong.  Three budgets bound it.  Every candidate goes through *)
(* the gates of to_candidate; a blueprint must account for every literal   *)
(* predicate of the accepted SQL and may not cite a catalog rule that      *)
(* declares another filter.  Texts are abstracted: a predicate is a        *)
(* column, an operator and its literals, an identifier is the set of its   *)
(* words, and a raw candidate says which gate it was written to fail.      *)
(***************************************************************************)
EXTENDS Naturals, Sequences, FiniteSets, SequencesExt

CONSTANTS
    MaxSearches,      \* max_search_calls, 0 when no prior-art index is wired
    MaxRetries,       \* max_retries of an unreadable response
    MaxCorrections,   \* max_shape_corrections
    MaxCalls,         \* bound: search calls in one response
    Candidates,       \* the raw candidates the model may emit
    Emissions,        \* ... and the batches of them
    SqlByRef,         \* the accepted SQL behind each tool call reference
    Unparsed,         \* stands for an SQL text or a rule no parser reads
    Catalog,          \* the declared rules: [id, table, declares]
    CatalogTables,    \* the tables the catalog knows
    Words             \* per rule id: [spelling, concept, polarity]

ASSUME BudgetsAreNumbers ==
    /\ MaxSearches \in Nat /\ MaxRetries \in Nat /\ MaxCorrections \in Nat
    /\ MaxCalls \in Nat \ {0}

(* The parts of a candidate that a reader may refuse; only a blueprint has *)
(* more than an envelope, a header and a payload; its entries are a list.   *)
ASSUME CandidatesHaveParts ==
    /\ Emissions \subseteq Seq(Candidates)
    /\ \A c \in Candidates :
         /\ c.entries \in Seq({c.entries[i] : i \in DOMAIN c.entries})
         /\ c.misshapen \cup c.broken \subseteq
              {"envelope", "header", "payload"} \cup
                IF c.type = "blueprint" THEN {"composes", "parameterization", "result_signature"} ELSE {}

VARIABLES
    outcome,          \* running, done, dead_letter (raised), failed (transport)
    searchesLeft, attemptsLeft, correctionsLeft,
    kept,             \* the candidates that passed every gate, all rounds: a set
    settled,          \* the reasons of the declines that are never re-asked
    pending,          \* <<index, reason>>: correctable declines, last batch
    raw,              \* the last batch that could be read
    history,          \* the correction messages sent: what each one asked
    report,           \* _finish: the correctable declines with their payload
    sends,            \* ghost: turns sent to the model
    told, answered    \* the last prior-art block; ghost: what the index said

evars == <<outcome, searchesLeft, attemptsLeft, correctionsLeft, kept, settled,
           pending, raw, history, report, sends, told, answered>>

-----------------------------------------------------------------------------
(* The catalog's rules and what a plan entry claims.                       *)

KnownRules == {rule.id : rule \in Catalog}

\* A qualifier counts only when it resolves to a catalog table.
OnTable(table) == {rule \in Catalog : rule.table = table}

\* = and IN are compared as member sets, the rest literally; never the table.
SameFilter(declared, pred) ==
    LET membership == {"=", "IN"} IN
    /\ declared.column = pred.column
    /\ declared.values = pred.values
    /\ \/ declared.operator = pred.operator
       \/ {declared.operator, pred.operator} \subseteq membership

\* Disproved only when every declaration of the id is readable and differs.
RuleContradicts(id, pred) ==
    LET declared == {rule.declares : rule \in {r \in Catalog : r.id = id}} IN
    /\ declared # {}
    /\ Unparsed \notin declared
    /\ \A d \in declared : ~SameFilter(d, pred)

\* The rules a totality correction names for an uncovered predicate: one
\* search per literal, so a list is answered member by member.
RulesForPredicate(pred) ==
    LET candidates == IF pred.table \in CatalogTables
                      THEN OnTable(pred.table) ELSE Catalog
    IN  IF pred.operator \notin {"=", "IN"} THEN {}
        ELSE {rule \in candidates :
                 /\ rule.declares # Unparsed
                 /\ rule.declares.operator = "="
                 /\ rule.declares.column = pred.column
                 /\ rule.declares.values \subseteq pred.values}

-----------------------------------------------------------------------------
(* nearest_known_rule: the one catalog id an unknown id may have meant.    *)

Shared(a, b) == Cardinality(Words[a].concept \cap Words[b].concept)
United(a, b) == Cardinality(Words[a].concept \cup Words[b].concept)

\* Jaccard similarity, compared without dividing.
AtLeastAsNear(id, a, b) ==
    Shared(id, a) * United(id, b) >= Shared(id, b) * United(id, a)

\* Qualified: same negation, a word in common, score >= num/4; no ties.
BestMatch(id, ids, num) ==
    LET qualified == {k \in ids : /\ Words[k].polarity = Words[id].polarity
                                  /\ Shared(id, k) > 0
                                  /\ 4 * Shared(id, k) >= num * United(id, k)}
    IN  {k \in qualified : \A o \in qualified \ {k} : ~AtLeastAsNear(id, o, k)}

NearestKnownRule(id, entry) ==
    LET exact  == {k \in KnownRules : Words[k].spelling = Words[id].spelling}
        scoped == {rule \in OnTable(entry.table) : rule.id \in KnownRules}
        column == {rule \in scoped : /\ rule.declares # Unparsed
                                     /\ rule.declares.column = entry.column}
        near   == IF column # {} THEN column ELSE scoped
    IN  IF Cardinality(exact) = 1 THEN exact
        ELSE IF entry.table \in CatalogTables
             THEN BestMatch(id, {rule.id : rule \in near}, 2)
             ELSE BestMatch(id, KnownRules, 3)

-----------------------------------------------------------------------------
(* The gates of to_candidate, in order.  Pass, or why not.                 *)

Pass == "pass"

\* The reasons a correction may be asked for: the shape of the candidate,
\* or one identifier or entry, never its analysis.
Correctable == {"malformed", "role_shape", "missing_rule_hinted",
                "rule_mismatch", "totality"}

FirstFailure(gates) ==
    LET at == SelectInSeq(gates, LAMBDA gate : gate # Pass)
    IN  IF at = 0 THEN Pass ELSE gates[at]

\* A field of that part has no readable shape, or no check named the field.
Readable(c, part) ==
    IF part \in c.misshapen THEN "malformed"
    ELSE IF part \in c.broken THEN "unreadable" ELSE Pass

HeaderGate(c) == Readable(c, "header")
ComposesGate(c) == Readable(c, "composes")
EntriesGate(c) == Readable(c, "parameterization")
SignatureGate(c) == Readable(c, "result_signature")
PayloadGate(c) ==
    FirstFailure(<<Readable(c, "payload"), ComposesGate(c), EntriesGate(c), SignatureGate(c)>>)

\* Unreadable references are skipped while one can be read.
EvidenceGate(c) ==
    IF c.evidence = {} THEN "no_evidence"
    ELSE IF "good" \notin c.evidence THEN "malformed" ELSE Pass

\* A slot's faults: a field to write again, or a type or an optional pattern
\* the runtime cannot use.
SlotGate(entry) ==
    CASE entry.fault \in {"no_type", "no_binds_to", "windowed_binds_to",
                          "no_enum_values", "no_optional_pattern"} -> "role_shape"
      [] entry.fault \in {"window_pair_type", "bad_optional_pattern"} -> "bad_role"
      [] OTHER -> Pass

\* A rule must exist, an inline must say why it defines the metric.
EntryGate(entry) ==
    CASE entry.role = "slot" -> SlotGate(entry)
      [] entry.role = "rule" ->
           IF entry.rule \in KnownRules THEN Pass
           ELSE IF NearestKnownRule(entry.rule, entry) # {}
                THEN "missing_rule_hinted" ELSE "missing_rule"
      [] entry.role = "inline" ->
           IF entry.fault = "no_why" THEN "role_shape" ELSE Pass

RoleGate(c) == FirstFailure([i \in 1..Len(c.entries) |-> EntryGate(c.entries[i])])

\* An entry accounts for a predicate however the predicate compares.
Covers(entry, pred) ==
    /\ entry.column = pred.column
    /\ entry.values = pred.values
    /\ \/ entry.table = pred.table
       \/ entry.table \notin CatalogTables \/ pred.table \notin CatalogTables

\* Mutant: only one of the cited references is resolved.
AcceptedSqlOne(c) == IF c.refs = {} THEN {} ELSE SqlByRef[CHOOSE ref \in c.refs : TRUE]

AcceptedSql(c) == UNION {SqlByRef[ref] : ref \in c.refs}
Predicates(c) == UNION (AcceptedSql(c) \ {Unparsed})
Entries(c) == {c.entries[i] : i \in 1..Len(c.entries)}
Uncovered(c) == {p \in Predicates(c) : \A e \in Entries(c) : ~Covers(e, p)}

\* The rules a totality correction offers, each for a predicate.
Offered(c) == {o \in Uncovered(c) \X Catalog : o[2] \in RulesForPredicate(o[1])}

TotalityGate(c) ==
    IF Unparsed \in AcceptedSql(c) \/ AcceptedSql(c) = {} THEN "unrewritable"
    ELSE IF Uncovered(c) # {} THEN "totality"
    ELSE IF \E p \in Predicates(c), e \in Entries(c) :
              /\ Covers(e, p)
              /\ e.role = "rule" /\ RuleContradicts(e.rule, p) THEN "rule_mismatch"
    ELSE Pass

\* Only a blueprint is judged past its payload, from the SQL it rests on.
BlueprintGate(c) ==
    FirstFailure(<<PayloadGate(c), IF c.accepted THEN Pass ELSE "no_acceptance",
                   RoleGate(c), TotalityGate(c)>>)

Judgement(c) ==
    FirstFailure(<<Readable(c, "envelope"), EvidenceGate(c), HeaderGate(c),
                   IF c.type = "blueprint" THEN BlueprintGate(c) ELSE Readable(c, "payload")>>)

Verdict == [c \in Candidates |-> Judgement(c)]

-----------------------------------------------------------------------------
(* The turns with the model.                                               *)

\* What the model is told of a search: an outage is not an empty corpus.
PriorArtBlock(answer) ==
    CASE answer = "cards" -> "listed"
      [] answer = "empty" -> "nothing_close"
      [] answer = "no_query" -> "not_searched"
      [] answer = "no_index" -> "not_offered"
      [] OTHER -> "could_not_look"

IndexAnswers == {"cards", "empty", "unavailable", "foreign_items"}

\* The prompt's own search, of nothing when the session is empty.
Prefetch == IndexAnswers \cup {"no_query", "no_index"}

\* A call's arguments are validated before the index is asked.
SearchAnswers == IndexAnswers \cup {"no_argument"}

EInit ==
    /\ outcome = "running"
    /\ answered \in Prefetch
    /\ told = PriorArtBlock(answered)
    /\ searchesLeft = IF answered = "no_index" THEN 0 ELSE MaxSearches
    /\ attemptsLeft = MaxRetries + 1
    /\ correctionsLeft = MaxCorrections
    /\ kept = {} /\ settled = {} /\ pending = {} /\ raw = <<>>
    /\ history = <<>> /\ report = {}
    /\ sends = 0

Asking == outcome = "running" /\ attemptsLeft > 0

\* A response that only searches: calls past the budget are answered with an
\* error and cost nothing; a call without a query searches nothing.
ServeSearches(calls, answer) ==
    /\ Asking /\ searchesLeft > 0
    /\ LET served == IF calls < searchesLeft THEN calls ELSE searchesLeft
       IN  searchesLeft' = searchesLeft - served
    /\ answered' = IF answer = "no_argument" THEN answered ELSE answer
    /\ told' = IF answer = "no_argument" THEN told ELSE PriorArtBlock(answer)
    /\ sends' = sends + 1
    /\ UNCHANGED <<outcome, attemptsLeft, correctionsLeft, kept, settled,
                   pending, raw, history, report>>

\* What _finish reports of the declines that could have been corrected.
Finish(declines, batch) ==
    /\ outcome' = "done"
    /\ report' = {[reason |-> d[2], payload |-> batch[d[1]], corrections |-> history'] :
                     d \in declines}

\* Mutant: the last attempt raises whatever was asked before.
UnreadableRaises ==
    /\ Asking
    /\ attemptsLeft' = attemptsLeft - 1
    /\ sends' = sends + 1
    /\ outcome' = IF attemptsLeft > 1 THEN outcome ELSE "dead_letter"
    /\ UNCHANGED <<searchesLeft, correctionsLeft, kept, settled, pending, raw,
                   history, report, told, answered>>

\* Mutant: the loop ends without returning what was validated.
UnreadableFallsThrough ==
    /\ Asking
    /\ attemptsLeft' = attemptsLeft - 1
    /\ sends' = sends + 1
    /\ outcome' = IF attemptsLeft > 1 \/ history # <<>> THEN outcome ELSE "dead_letter"
    /\ UNCHANGED <<searchesLeft, correctionsLeft, kept, settled, pending, raw,
                   history, report, told, answered>>

\* An unreadable response, or a search the budget no longer serves.  The last
\* attempt raises, unless a correction was asked for.
Unreadable ==
    /\ Asking
    /\ attemptsLeft' = attemptsLeft - 1
    /\ sends' = sends + 1
    /\ history' = history
    /\ IF attemptsLeft > 1 THEN UNCHANGED <<outcome, report>>
       ELSE IF history # <<>> THEN Finish(pending, raw)
       ELSE outcome' = "dead_letter" /\ UNCHANGED report
    /\ UNCHANGED <<searchesLeft, correctionsLeft, kept, settled, pending, raw,
                   told, answered>>

\* The correction speaks of one family of faults, or of each line's own.
Family(reason) ==
    CASE reason \in {"missing_rule_hinted", "rule_mismatch"} -> "rule"
      [] reason = "totality" -> "predicate"
      [] OTHER -> "shape"

Correction(asks) ==
    LET families == {Family(ask[2]) : ask \in asks}
    IN  IF Cardinality(families) = 1 THEN families ELSE {"mixed"}

\* The positions of a batch whose judgement is one of these.
Judged(batch, reasons) == {i \in 1..Len(batch) : Verdict[batch[i]] \in reasons}

\* One validated batch: keep, settle, and ask for the shapes or finish.
Batch(batch) ==
    LET passed == Judged(batch, {Pass})
        shape  == Judged(batch, Correctable)
        asks   == {<<i, Verdict[batch[i]]>> : i \in shape}
    IN  /\ Asking
        /\ raw' = batch
        /\ kept' = kept \cup {batch[i] : i \in passed}
        /\ settled' = settled \cup {Verdict[batch[i]] : i \in (1..Len(batch)) \ (passed \cup shape)}
        /\ pending' = asks
        /\ sends' = sends + 1
        /\ IF asks # {} /\ correctionsLeft > 0
           THEN /\ correctionsLeft' = correctionsLeft - 1
                /\ history' = Append(history, Correction(asks))
                /\ UNCHANGED <<outcome, report>>
           ELSE history' = history /\ Finish(asks, batch) /\ UNCHANGED correctionsLeft
        /\ UNCHANGED <<searchesLeft, attemptsLeft, told, answered>>

\* The client raises: the whole extraction is left to a redelivery.
SendFails ==
    /\ Asking
    /\ outcome' = "failed" /\ sends' = sends + 1
    /\ UNCHANGED <<searchesLeft, attemptsLeft, correctionsLeft, kept, settled,
                   pending, raw, history, report, told, answered>>

ENext ==
    \/ \E calls \in 1..MaxCalls, answer \in SearchAnswers :
          ServeSearches(calls, answer)
    \/ Unreadable
    \/ \E batch \in Emissions : Batch(batch)
    \/ SendFails

ESpec == EInit /\ [][ENext]_evars /\ WF_evars(ENext)

-----------------------------------------------------------------------------
(* What the loop and the gates promise.                                    *)

\* The type invariant: budgets in range, a decline per index of its batch.
\* The correctable declines that _finish reports carry what was judged.
Decline == [reason : Correctable, payload : Candidates,
            corrections : Seq(SUBSET {"rule", "predicate", "shape", "mixed"})]

\* A candidate that passed: a header with evidence, and for a blueprint the
\* accepted SQL it rests on and entries if it has predicates.
ExtractedCandidate(c) ==
    /\ c \in Candidates /\ c.evidence # {} /\ c.misshapen = {} /\ c.broken = {}
    /\ c.type = "blueprint" =>
         c.accepted /\ c.refs # {} /\ (Predicates(c) # {} => c.entries # <<>>)

ExtractionTypeOK ==
    /\ outcome \in {"running", "done", "dead_letter", "failed"}
    /\ searchesLeft \in 0..MaxSearches
    /\ attemptsLeft \in 0..(MaxRetries + 1)
    /\ correctionsLeft \in 0..MaxCorrections
    /\ Len(history) = MaxCorrections - correctionsLeft
    /\ \A ask \in pending : ask[1] \in 1..Len(raw)
    /\ \A c \in kept : ExtractedCandidate(c)
    /\ report \subseteq Decline

\* The three budgets never borrow from each other: the turns sent stay within
\* their sum, whatever the model answers (extractor.py:318, TERMINATION).
SendsBounded == sends <= MaxSearches + (MaxRetries + 1) + MaxCorrections

\* Asking for a correction never costs more than the ask: unreadable
\* responses send a session to the dead letters only if none was asked for
\* and nothing it produced was accepted (extractor.py:415, ONE ASYMMETRY).
AcceptedNotDeadLettered ==
    outcome = "dead_letter" => kept = {} /\ history = <<>> /\ settled = {}

\* What the reviewer is shown with a decline is the candidate that decline was
\* judged on, although unreadable responses may have come after it.
DeclineShowsItsCandidate ==
    \A d \in report : Verdict[d.payload] = d.reason

\* A correctable candidate is given up only when a budget is exhausted.
AskedBeforeGivenUp ==
    outcome = "done" /\ report # {} => correctionsLeft = 0 \/ attemptsLeft = 0

\* A kept blueprint drops no filter of the SQL the user accepted, and no rule
\* it cites is one the catalog proves to be another filter, on any predicate
\* of any SQL behind any of its references.
KeptFiltersTheSame ==
    \A c \in kept : c.type = "blueprint" =>
        \A ref \in c.refs : \A sql \in SqlByRef[ref] :
            /\ sql # Unparsed
            /\ \A p \in sql :
                /\ \E e \in Entries(c) : Covers(e, p)
                /\ \A e \in Entries(c) : Covers(e, p) /\ e.role = "rule" =>
                      \E rule \in Catalog : rule.id = e.rule
                         /\ (rule.declares = Unparsed \/ SameFilter(rule.declares, p))

\* "Nothing close was found" is said only when the index answered so: an
\* outage must not read as novelty.
NoNoveltyFromAnOutage == told = "nothing_close" => answered = "empty"

\* Every extraction ends, under the fairness of the process that drives it.
ExtractionEnds == <>(outcome # "running")

\* The dialogue loses nothing on its way through corrections, searches and
\* unreadable responses, and says nothing that did not happen.
DialogueSound ==
    /\ ExtractionTypeOK
    /\ SendsBounded
    /\ AcceptedNotDeadLettered
    /\ DeclineShowsItsCandidate
    /\ AskedBeforeGivenUp
    /\ NoNoveltyFromAnOutage
=============================================================================
