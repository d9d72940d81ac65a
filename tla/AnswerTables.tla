---------------------------- MODULE AnswerTables ----------------------------
(***************************************************************************)
(* The answer tables of a session.  The model designates queries and       *)
(* blueprint runs with answerWithTable; the loop keeps the tables in an    *)
(* accumulator that lives as long as the request.  After a pause they are  *)
(* rebuilt from the trail, and a reloaded transcript rebuilds them once    *)
(* more, from the trail of the whole session.                              *)
(*                                                                         *)
(* A query text is a pair: <<"sql", n>> is written by the model, <<b, s>>  *)
(* is the terminal SQL of blueprint b run with slots s.                    *)
(***************************************************************************)
EXTENDS Integers, SequencesExt, Positions

CONSTANTS
    Blueprints,   \* blueprint ids
    Slots,        \* slot bindings a blueprint is run with
    Queries,      \* numbers of the queries the model writes
    HiddenQueries,       \* queries that read what a narrow scope hides
    Designations, \* arguments of answerWithTable: a tables array and a top level
    MAX_ANSWER_TABLES,
    MaxQuestions, \* bound: turns of the session
    MaxTrail      \* bound: entries of the trail

(* An item names a query, a blueprint, both or nothing.                    *)
Items == [sql : {<<"sql", q>> : q \in Queries} \cup {<<"none", 0>>},
          bp : Blueprints \cup {"none"}]

ASSUME TablesAssumption ==
    /\ \A d \in Designations : d.args \in Seq(Items) /\ d.top \in Items
    /\ "sql" \notin Blueprints /\ "none" \notin Blueprints
    /\ Slots \subseteq Nat \ {0} /\ Queries \subseteq Nat /\ HiddenQueries \subseteq Queries
    /\ MAX_ANSWER_TABLES \in Nat \ {0} /\ MaxQuestions \in Nat /\ MaxTrail \in Nat

VARIABLES
    rec,     \* tool_trail: the runBlueprint and answerWithTable entries of the session
    accum,   \* TurnAccumulators of the open request
    last,    \* the turn served last, -1 before the first
    phase,   \* "idle", "run", "question" or "approval"
    asked,   \* the run that waits for approval
    narrow,  \* the caller's column_scope hides the HiddenQueries queries
    shown    \* history: the tables of the answer of every answered turn

tablesVars == <<rec, accum, last, phase, asked, narrow, shown>>

---------------------------------------------------------------------------
Terminal(b, s) == <<b, s>>
Texts == {<<"sql", q>> : q \in Queries} \cup (Blueprints \X Slots)
NoText == <<"none", 0>>

(* VERIFICATION_EMPTY_STATUS is a badge of its own, that does not pass.    *)
Badges == {"none", "passed", "empty"}

(* A run keeps its SQL, its badge and its slots together (BlueprintRun).   *)
NoRun == [sql |-> NoText, badge |-> "none", slots |-> 0]
Runs == [sql : Blueprints \X Slots, badge : {"passed", "empty"}, slots : Slots \cup {0}]
RunMaps == [Blueprints -> Runs \cup {NoRun}]
NoRuns == [b \in Blueprints |-> NoRun]

NoItem == [sql |-> NoText, bp |-> "none"]
Designating(item) == item # NoItem

Table(sql, bp, slots, badge, prov) ==
    [sql |-> sql, bp |-> bp, slots |-> slots, badge |-> badge, prov |-> prov]

(* What capture_sql_provenance finds: a query that cannot be parsed is     *)
(* undetermined, and undetermined is shown.                                *)
ProvOf(sql) == IF sql \in {<<"sql", q>> : q \in HiddenQueries} THEN "hidden" ELSE "open"
InTableScope(prov, isNarrow) == ~(isNarrow /\ prov = "hidden")

Tables == [sql : Texts, bp : Blueprints \cup {"none"}, slots : Slots \cup {0},
           badge : Badges, prov : {"open", "hidden", "none"}]

Records ==
    [kind : {"run"}, turn : Nat, bp : Blueprints, run : Runs, slots : Slots \cup {0},
     kept : BOOLEAN]
    \cup [kind : {"answer"}, turn : Nat, ok : BOOLEAN, args : Seq(Items), top : Items,
          provs : Seq({"open", "hidden"})]

TablesTypeOK ==
    /\ accum.tables \in Seq(Tables) /\ accum.runs \in RunMaps
    /\ last \in -1..(MaxQuestions - 1)
    /\ phase \in {"idle", "run", "question", "approval"}
    /\ narrow \in BOOLEAN
    /\ rec \in Seq(Records)

Accumulators(tables, runs, use, badge) ==
    [tables |-> tables, runs |-> runs, use |-> use, badge |-> badge]
EmptyAccum == Accumulators(<<>>, NoRuns, "none", "none")

TablesInit ==
    /\ rec = <<>> /\ accum = EmptyAccum
    /\ last = -1 /\ phase = "idle" /\ asked = <<"none", 0>>
    /\ narrow \in BOOLEAN
    /\ shown = <<>>

---------------------------------------------------------------------------
(* Designation                                                             *)

(* A written query wins over a blueprint in the same item.  "bp" is who    *)
(* the text comes from, "named" the blueprint the item named.              *)
Resolve(item, runs) ==
    LET run == IF item.bp = "none" THEN NoRun ELSE runs[item.bp] IN
    IF item.sql # NoText
    THEN [sql |-> item.sql, bp |-> "none", named |-> item.bp]
    ELSE [sql |-> run.sql, bp |-> IF run = NoRun THEN "none" ELSE item.bp, named |-> item.bp]

(* The tables array, or, when nothing in it designates, the top level.     *)
Candidates(args, top) ==
    LET items == Pick(args, {i \in DOMAIN args : Designating(args[i])}) IN
    IF items # <<>> THEN items ELSE IF Designating(top) THEN <<top>> ELSE <<>>

ResolveAll(args, top, runs) ==
    LET items == Candidates(args, top) IN [i \in DOMAIN items |-> Resolve(items[i], runs)]

(* finalize_designations: what did not resolve is left out, one table per  *)
(* text, and at most the cap.                                              *)
Finalize(items) ==
    LET Fresh(i) == /\ items[i].sql # NoText
                    /\ \A j \in 1..(i - 1) : items[j].sql # items[i].sql
        firsts == Pick(items, {i \in DOMAIN items : Fresh(i)})
        n == IF Len(firsts) > MAX_ANSWER_TABLES THEN MAX_ANSWER_TABLES ELSE Len(firsts)
    IN  [k \in 1..n |-> firsts[k]]

(* enrich_table                                                            *)
Enrich(item, runs, prov) ==
    LET run == IF item.bp = "none" THEN NoRun ELSE runs[item.bp]
    IN  Table(item.sql, item.bp, run.slots, run.badge, prov)

Unresolved(args, top, runs) ==
    LET items == ResolveAll(args, top, runs) IN \E i \in DOMAIN items : items[i].sql = NoText

Visible(tables) == Pick(tables, {k \in DOMAIN tables : InTableScope(tables[k].prov, narrow)})

(* _resolve_answer_tables, for a call whose blueprints have all run.       *)
LiveTables(args, top, runs) ==
    LET final == Finalize(ResolveAll(args, top, runs))
    IN  Visible([i \in DOMAIN final |-> Enrich(final[i], runs, ProvOf(final[i].sql))])

(* rollup_verification                                                     *)
Rollup(tables) ==
    LET badges == {tables[i].badge : i \in DOMAIN tables} IN
    IF Cardinality(badges) = 1 THEN CHOOSE v \in badges : TRUE ELSE "none"

(* answer_envelope: with tables, everything is read off the tables.        *)
Envelope(a) ==
    IF a.tables = <<>>
    THEN [lead |-> NoText, use |-> a.use, badge |-> a.badge, tables |-> <<>>]
    ELSE [lead |-> a.tables[1].sql, use |-> a.tables[1].bp,
          badge |-> Rollup(a.tables), tables |-> a.tables]

---------------------------------------------------------------------------
(* Rebuilding                                                              *)

RunsOf(d, b, turns) ==
    {i \in DOMAIN d : /\ d[i].kind = "run" /\ d[i].bp = b
                      /\ d[i].kept /\ d[i].turn \in turns}

(* Mutant: the first run of a blueprint is kept.                           *)
FirstRunsIn(d, turns) ==
    [b \in Blueprints |->
        LET ids == RunsOf(d, b, turns) IN
        IF ids = {} THEN NoRun
        ELSE LET i == CHOOSE i \in ids : \A j \in ids : i <= j
             IN  [d[i].run EXCEPT !.slots = d[i].slots]]

(* capture_terminal_sql over entries of the trail whose full result can    *)
(* still be read: the last run of a blueprint counts, with the slots its   *)
(* entry recorded.                                                         *)
RunsIn(d, turns) ==
    [b \in Blueprints |->
        LET ids == RunsOf(d, b, turns) IN
        IF ids = {} THEN NoRun
        ELSE LET i == CHOOSE i \in ids : \A j \in ids : i >= j
             IN  [d[i].run EXCEPT !.slots = d[i].slots]]

(* The last answer of a turn that still designates something.              *)
LastDesignation(d, t, runs) ==
    LET ids == {i \in DOMAIN d : /\ d[i].kind = "answer" /\ d[i].ok /\ d[i].turn = t
                                 /\ Finalize(ResolveAll(d[i].args, d[i].top, runs)) # <<>>}
    IN  IF ids = {} THEN 0 ELSE CHOOSE i \in ids : \A j \in ids : i >= j

(* _compute_turn_answer_tables: the runs of the turn first, then its       *)
(* designations; nothing is checked against the scope again.               *)
Rebuilt(d, t) ==
    LET runs == RunsIn(d, {t})
        i == LastDesignation(d, t, runs)
        final == Finalize(ResolveAll(d[i].args, d[i].top, runs))
        Prov(k) == IF k \in DOMAIN d[i].provs THEN d[i].provs[k] ELSE "none"
    IN  [runs |-> runs,
         tables |-> IF i = 0 THEN <<>>
                    ELSE [k \in DOMAIN final |-> Enrich(final[k], runs, Prov(k))]]

(* project_history: the runs of every turn in one map.  The recorded       *)
(* provenances are used only when their number still fits.                 *)
History(d, t) ==
    LET runs == RunsIn(d, 0..MaxQuestions)
        i == LastDesignation(d, t, runs)
        final == Finalize(ResolveAll(d[i].args, d[i].top, runs))
        Prov(k) == IF Len(d[i].provs) = Len(final) THEN d[i].provs[k] ELSE "none"
    IN  IF i = 0 THEN <<>>
        ELSE Visible([k \in DOMAIN final |-> Enrich(final[k], runs, Prov(k))])

---------------------------------------------------------------------------
(* Actions                                                                 *)

(* A request of a caller whose scope may have changed.                     *)
AskTurn ==
    /\ phase = "idle" /\ last + 1 < MaxQuestions
    /\ last' = last + 1 /\ phase' = "run"
    /\ accum' = EmptyAccum
    /\ narrow' \in BOOLEAN
    /\ UNCHANGED <<rec, asked, shown>>

RunEntry(b, run, slots) ==
    [kind |-> "run", turn |-> last, bp |-> b, run |-> run, slots |-> slots, kept |-> TRUE]

NewRun(b, s, badge) == [sql |-> Terminal(b, s), badge |-> badge, slots |-> s]

(* note_enrichment and capture_blueprint_run                               *)
Ran(a, b, run) == [a EXCEPT !.runs[b] = run, !.use = b, !.badge = run.badge]

RunBlueprint ==
    /\ phase = "run" /\ Len(rec) < MaxTrail
    /\ \E b \in Blueprints, s \in Slots, badge \in {"passed", "empty"} :
         /\ rec' = Append(rec, RunEntry(b, NewRun(b, s, badge), s))
         /\ accum' = Ran(accum, b, NewRun(b, s, badge))
    /\ UNCHANGED <<last, phase, asked, narrow, shown>>

AnswerEntry(d, ok, provs) ==
    [kind |-> "answer", turn |-> last, ok |-> ok, args |-> d.args, top |-> d.top,
     provs |-> provs]

(* ANSWER_TABLE_BLUEPRINT_NOT_RUN: nothing of the call is designated.      *)
RefuseDesignation ==
    /\ phase = "run" /\ Len(rec) < MaxTrail
    /\ \E d \in Designations :
         /\ Unresolved(d.args, d.top, accum.runs)
         /\ rec' = Append(rec, AnswerEntry(d, FALSE, <<>>))
    /\ UNCHANGED <<accum, last, phase, asked, narrow, shown>>

(* note_answer_tables: a call that designates nothing changes nothing.  A  *)
(* finalization gate may still refuse the call.                            *)
Designate ==
    /\ phase = "run" /\ Len(rec) < MaxTrail
    /\ \E d \in Designations, ok \in BOOLEAN :
         /\ ~Unresolved(d.args, d.top, accum.runs)
         /\ LET tables == LiveTables(d.args, d.top, accum.runs)
                provs == [i \in DOMAIN tables |-> tables[i].prov]
            IN  /\ rec' = Append(rec, AnswerEntry(d, ok, provs))
                /\ accum' = IF ok /\ tables # <<>>
                            THEN [accum EXCEPT !.tables = tables] ELSE accum
    /\ UNCHANGED <<last, phase, asked, narrow, shown>>

(* askUser or the budget cap                                               *)
Pause ==
    /\ phase = "run" /\ phase' = "question"
    /\ UNCHANGED <<rec, accum, last, asked, narrow, shown>>

PauseForApproval ==
    /\ phase = "run" /\ Len(rec) < MaxTrail
    /\ \E b \in Blueprints, s \in Slots : asked' = <<b, s>>
    /\ phase' = "approval"
    /\ UNCHANGED <<rec, accum, last, narrow, shown>>

Continue ==
    /\ phase = "question"
    /\ LET r == Rebuilt(rec, last) IN
         accum' = Accumulators(r.tables, r.runs, "none", "none")
    /\ phase' = "run" /\ narrow' \in BOOLEAN
    /\ UNCHANGED <<rec, last, asked, shown>>

(* _resume_blueprint: the entry it writes has no slot_bindings.            *)
Approve ==
    /\ phase = "approval"
    /\ \E badge \in {"passed", "empty"} :
         LET run == NewRun(asked[1], asked[2], badge)
             d == Append(rec, RunEntry(asked[1], run, 0))
             r == Rebuilt(d, last)
         IN  /\ rec' = d
             /\ accum' = Ran(Accumulators(r.tables, r.runs, "none", "none"), asked[1], run)
    /\ phase' = "run" /\ asked' = <<"none", 0>> /\ narrow' \in BOOLEAN
    /\ UNCHANGED <<last, shown>>

AnswerOf(envelope) == [turn |-> last, env |-> envelope, narrow |-> narrow]

Finish ==
    /\ phase = "run" /\ phase' = "idle"
    /\ shown' = Append(shown, AnswerOf(Envelope(accum)))
    /\ accum' = EmptyAccum
    /\ UNCHANGED <<rec, last, asked, narrow>>

(* The user stops at the budget cap.                                       *)
Stop ==
    /\ phase = "question" /\ phase' = "idle"
    /\ shown' = Append(shown, AnswerOf(Envelope(
                    Accumulators(Rebuilt(rec, last).tables, NoRuns, "none", "none"))))
    /\ accum' = EmptyAccum
    /\ UNCHANGED <<rec, last, asked, narrow>>

(* The full result of a run is past its TTL, the oldest first.             *)
ExpireResult ==
    /\ \E i \in DOMAIN rec :
         /\ rec[i].kind = "run" /\ rec[i].kept
         /\ \A j \in 1..(i - 1) : rec[j].kind = "run" => ~rec[j].kept
         /\ rec' = [rec EXCEPT ![i].kept = FALSE]
    /\ UNCHANGED <<accum, last, phase, asked, narrow, shown>>

TablesNext ==
    \/ AskTurn \/ RunBlueprint \/ RefuseDesignation \/ Designate \/ Pause
    \/ PauseForApproval \/ Continue \/ Approve \/ Finish \/ Stop \/ ExpireResult

TablesSpec == TablesInit /\ [][TablesNext]_tablesVars

---------------------------------------------------------------------------
(* Properties                                                              *)

RanAs(t, badge) ==
    \E i \in DOMAIN rec : /\ rec[i].kind = "run" /\ rec[i].bp = t.bp
                            /\ rec[i].run.sql = t.sql /\ rec[i].run.badge = badge

Views == {accum.tables} \cup {Rebuilt(rec, t).tables : t \in 0..last}
                        \cup {History(rec, t) : t \in 0..last}

(* Live, after a pause and on reload: a table has a badge only if its text *)
(* is the terminal SQL of a run of the blueprint it names, and that run    *)
(* had this badge (app.py: "a blueprint id can never be paired with        *)
(* another run's verification").                                           *)
NoFalseBadge ==
    \A v \in Views : \A k \in DOMAIN v : v[k].badge # "none" => RanAs(v[k], v[k].badge)

(* A verified answer with tables is one whose every table is the result of *)
(* a verified run that returned rows (rollup_verification).                *)
PassedMeansAll ==
    \A n \in DOMAIN shown :
        shown[n].env.badge = "passed" =>
            \A k \in DOMAIN shown[n].env.tables : RanAs(shown[n].env.tables[k], "passed")

Plain(tables) ==
    [k \in DOMAIN tables |->
        [sql |-> tables[k].sql, bp |-> tables[k].bp, badge |-> tables[k].badge]]

(* What the rebuilding relies on: every run can still be read, no table    *)
(* was left out for its scope, and no blueprint ran again after it was     *)
(* designated.                                                             *)
Replayable(turns) ==
    /\ \A i \in DOMAIN rec : rec[i].kind = "run" /\ rec[i].turn \in turns => rec[i].kept
    /\ \A i \in DOMAIN rec : rec[i].kind = "answer" /\ rec[i].ok /\ rec[i].turn \in turns =>
          /\ \A k \in DOMAIN rec[i].args : ProvOf(rec[i].args[k].sql) = "open"
          /\ ProvOf(rec[i].top.sql) = "open"
          /\ \A j \in (i + 1)..Len(rec) : rec[j].kind = "run" => rec[j].turn \notin turns

(* A pause loses no designated table and adds none: what would be rebuilt  *)
(* from the trail is what the loop holds (_compute_turn_answer_tables).    *)
PauseKeepsTables ==
    (phase \in {"run", "question", "approval"} /\ Replayable({last})) =>
        Plain(Rebuilt(rec, last).tables) = Plain(accum.tables)

(* A reloaded transcript shows the tables the answer showed.               *)
ReloadKeepsTables ==
    Replayable(0..last) =>
        \A n \in DOMAIN shown :
            Plain(History(rec, shown[n].turn)) = Plain(shown[n].env.tables)

(* No view of an answer verifies what was not verified, and a pause and a  *)
(* reload rebuild from the trail the tables that were shown.               *)
AnswersHonest ==
    TablesTypeOK /\ NoFalseBadge /\ PassedMeansAll /\ PauseKeepsTables /\ ReloadKeepsTables
=============================================================================
