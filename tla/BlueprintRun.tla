---------------------------- MODULE BlueprintRun ----------------------------
(***************************************************************************)
(* BlueprintExecutor: one blueprint run, from the runBlueprint call through*)
(* any number of mid-DAG pauses to its outcome.  The executor keeps nothing*)
(* between two calls: a pause writes a checkpoint (the slot bindings, what *)
(* the completed nodes produced, the node it waits at) and a resume        *)
(* rebuilds the run from it, after fetching the blueprint again and        *)
(* resolving its slots and rules again.                                    *)
(*                                                                         *)
(* Between a pause and its answer the user's scope may shrink and the      *)
(* corpus may be re-seeded with another definition under the same id.      *)
(***************************************************************************)
EXTENDS Blueprint

CONSTANTS
    Catalog,        \* the definitions the corpus may hold under the id
    ScratchWired,   \* a scratch_client is configured
    Raws,           \* what the model may propose for a slot, Absent included
    Domains,        \* what a domain probe may find
    Rankings,       \* what resolveValues may rank, in descending order
    Gap, Floor,     \* resolve_via_gap_threshold, resolve_via_min_confidence
    MaxRuns,        \* bound: runBlueprint calls
    MaxAnswers,     \* bound: answers to pauses
    MaxEdits        \* bound: re-seeds of the corpus

ASSUME RunAssumption ==
    /\ ScratchWired \in BOOLEAN
    /\ {Gap, Floor, MaxRuns, MaxAnswers, MaxEdits} \subseteq Nat
    /\ \A r \in Raws : r.kind \in RawKinds /\ DOMAIN r = DOMAIN Absent
    /\ \A d \in Domains : IsFiniteSet(d)
    /\ \A s \in Rankings :
         /\ s \in Seq(Int)
         /\ \A i, j \in DOMAIN s : i <= j => s[i] >= s[j]

(* What the loader promises of a definition: no rule binds the token of a  *)
(* slot.  The bounds of a slot are counts, orders are numbers and the      *)
(* tests of a `when` clause are a list.                                    *)
ASSUME CatalogAssumption ==
    \A b \in Catalog :
      /\ b.slots \in Seq({b.slots[i] : i \in DOMAIN b.slots})
      /\ \A i \in DOMAIN b.slots :
           LET s == b.slots[i]
           IN  SlotTokens(s) \cap RuleTokens(b) = {} /\ s.lo \in Nat /\ s.hi \in Nat
      /\ DOMAIN Nodes(b) \subseteq Nat
      /\ \A o \in DOMAIN Nodes(b) : DOMAIN Nodes(b)[o].when.atoms \subseteq Nat

VARIABLES
    stored,    \* the definition the index serves
    inScope,   \* its uses lie within the caller's column_scope
    e,         \* the locals of _execute_dag
    cp,        \* the pause checkpoint
    outcome,   \* the last ExecOutcome
    live,      \* history: what each node of this run really returned
    sent,      \* history: the dispatches of each node, and the tokens bound in them
    yes,       \* history: the nodes of this run that the user affirmed
    edited,    \* history: the definition changed under this run
    runs, answers, edits

runVars == <<live, sent, yes, edited>>
blueprintVars == <<stored, inScope, e, cp, outcome, runVars, runs, answers, edits>>

---------------------------------------------------------------------------
Provenances == {"empty", "cols", "unknown"}
ErrorCodes == {"NOT_FOUND", "UNSUPPORTED", "SLOT_INVALID", "VERIFY_FAILED", "ABORTED",
               "INTERNAL", "denied"}

(* ExecCompleted, ExecPaused and ExecFailed.                               *)
NoOutcome ==
    [kind |-> "none", code |-> "", node |-> 0, foot |-> {}, unknown |-> FALSE, sqls |-> {},
     check |-> "none"]
Failed(c) == [NoOutcome EXCEPT !.kind = "failed", !.code = c]

(* _union_provenance: one undetermined call makes the union undetermined.  *)
Completed(o, foot, sqls, check) ==
    [kind |-> "completed", code |-> "", node |-> o, foot |-> {x[2] : x \in foot},
     unknown |-> \E x \in foot : x[1] = "unknown", sqls |-> sqls, check |-> check]

(* A completed-node record: its scalar output, its provenance, and whether *)
(* it carries the SQL that ran.                                            *)
NodeRecord(val, prov, sql) == [val |-> val, prov |-> prov, sql |-> sql]
EmptyRecord == NodeRecord("absent", "empty", FALSE)

NoNode == -1
NoReply == [node |-> NoNode, says |-> "none"]
IdleRun ==
    [pc |-> "idle", bp |-> <<>>, given |-> <<>>, slots |-> <<>>, bound |-> <<>>,
     doms |-> <<>>, omitted |-> <<>>, foot |-> {}, walked |-> {}, running |-> <<>>, env |-> <<>>,
     scratch |-> {}, terminal |-> NoNode, reply |-> NoReply]

NoCheckpoint == [open |-> FALSE, node |-> NoNode, given |-> <<>>, completed |-> <<>>]

BlueprintInit ==
    /\ stored \in Catalog
    /\ inScope \in BOOLEAN
    /\ e = IdleRun
    /\ cp = NoCheckpoint
    /\ outcome = NoOutcome
    /\ live = <<>>
    /\ sent = <<>>
    /\ yes = {}
    /\ edited = FALSE
    /\ runs = 0 /\ answers = 0 /\ edits = 0

---------------------------------------------------------------------------
(* A partial function with one more entry.                                 *)
With(f, k, v) == [x \in DOMAIN f \cup {k} |-> IF x = k THEN v ELSE f[x]]

End(x) ==
    /\ outcome' = x
    /\ e' = [IdleRun EXCEPT !.reply = e.reply]

(* The loop persists what the executor put into an ExecPaused.             *)
PauseAt(r, o, completed) ==
    /\ cp' = [open |-> TRUE, node |-> o, given |-> r.given, completed |-> completed]
    /\ outcome' = [NoOutcome EXCEPT !.kind = "paused", !.node = o]
    /\ e' = [IdleRun EXCEPT !.reply = r.reply]

NodesOf(r) == Nodes(r.bp)

(* What _execute_dag refuses before it resolves, probes or dispatches.     *)
Unsupported(b) ==
    LET ns == Nodes(b) IN
    \/ ~ParsesBlueprint(b)
    \/ ~IsDag(ns)
    \/ \E o \in DOMAIN ns : Parses(ns[o].sql) /\ ~ReadOnly(ns[o].sql)
    \/ TableConsumed(ns) # {} /\ ~ScratchWired
    \/ HasTableIntermediate(ns) /\ TableConsumed(ns) = {}

(* execute and resume: fetch the stored definition, then the checks above. *)
Enter(given, completed, reply) ==
    IF ~inScope THEN End(Failed("NOT_FOUND"))
    ELSE IF Unsupported(stored) THEN End(Failed("UNSUPPORTED"))
    ELSE /\ e' = [IdleRun EXCEPT !.pc = "slots", !.bp = stored, !.given = given,
                                 !.slots = stored.slots, !.running = completed,
                                 !.reply = reply]
         /\ outcome' = NoOutcome

Execute ==
    /\ e.pc = "idle" /\ runs < MaxRuns
    /\ \E given \in [{stored.slots[i].name : i \in DOMAIN stored.slots} -> Raws] :
         Enter(given, <<>>, NoReply)
    /\ cp' = NoCheckpoint
    /\ runs' = runs + 1
    /\ live' = <<>> /\ sent' = <<>> /\ yes' = {} /\ edited' = FALSE
    /\ UNCHANGED <<stored, inScope, answers, edits>>

(* _approval_decision sorts an answer into one of these; only an explicit  *)
(* affirmative approves.                                                   *)
Decisions == {"approve", "deny", "repause"}

(* _dumps_completed and _rehydrate_completed: the records come back, an    *)
(* undetermined provenance as undetermined.                                *)
Rehydrate(completed) == completed

(* The answer to a mid-DAG pause.  (A slot pause waits at no node: its     *)
(* answer goes to the model, which may call runBlueprint again.)           *)
Answer ==
    /\ e.pc = "idle" /\ cp.open /\ cp.node # NoNode /\ answers < MaxAnswers
    /\ \E d \in Decisions :
         /\ IF inScope /\ IsLeaf(stored) THEN End(Failed("UNSUPPORTED"))
            ELSE Enter(cp.given, Rehydrate(cp.completed), [node |-> cp.node, says |-> d])
         /\ yes' = IF d = "approve" THEN yes \cup {cp.node} ELSE yes
    /\ cp' = NoCheckpoint
    /\ answers' = answers + 1
    /\ UNCHANGED <<stored, inScope, live, sent, edited, runs, edits>>

---------------------------------------------------------------------------
(* _resolve_all_slots, one slot.  The domain probe runs for a value that   *)
(* was given for a slot with binds_to; a probe that fails adds nothing, one *)
(* that succeeds adds its provenance, known or not.                        *)
NoDomain == [known |-> FALSE, values |-> {}]
ProbeDomain(s, raw) ==
    {<<NoDomain, {}>>} \cup
      IF raw.kind = "absent" \/ s.binds = "none" THEN {}
      ELSE {<<[known |-> TRUE, values |-> d], {<<p, NoNode>>}>> :
              d \in Domains, p \in {"cols", "unknown"}}

(* A name the checkpoint's bindings do not have reads as absent.           *)
Given(name) == IF name \in DOMAIN e.given THEN e.given[name] ELSE Absent
Merge(f, K, v) == [x \in DOMAIN f \cup K |-> IF x \in K THEN v ELSE f[x]]

Slot ==
    /\ e.pc = "slots" /\ e.slots # <<>>
    /\ LET s == Head(e.slots)
           raw == Given(s.name)
       IN  \E probe \in ProbeDomain(s, raw) :
             LET r == ResolveSlot(raw, s, probe[1])
                 x == [e EXCEPT !.slots = Tail(@), !.foot = @ \cup probe[2],
                                !.doms = Merge(@, {s.name}, probe[1])]
             IN  CASE r.is = "ask" -> PauseAt(e, NoNode, <<>>)
                   [] r.is = "omit" ->
                        /\ e' = IF s.pattern = "none" THEN x
                                ELSE [x EXCEPT !.omitted =
                                        Merge(@, SlotTokens(s) \cap AllReferenced(e.bp), s.pattern)]
                        /\ UNCHANGED <<cp, outcome>>
                   [] r.is = "bind" /\ ~(SlotTokens(s) \subseteq AllReferenced(e.bp)) ->
                        End(Failed("SLOT_INVALID")) /\ UNCHANGED cp
                   [] OTHER ->
                        /\ e' = [x EXCEPT !.bound = Merge(@, SlotTokens(s), r.value)]
                        /\ UNCHANGED <<cp, outcome>>
    /\ UNCHANGED <<stored, inScope, runVars, runs, answers, edits>>

(* _expand_rules (one rule at most is kept), then the walk begins with the completed nodes loaded:    *)
(* only scalars survived the checkpoint, so the row count of a node is 1   *)
(* if it left a scalar and 0 if not.                                       *)
LoadCompleted(completed) ==
    [o \in DOMAIN completed |->
        [rows |-> IF completed[o].val \in {"low", "high"} THEN 1 ELSE 0,
         val |-> completed[o].val]]

CarriedIfKnown(completed) ==
    {<<completed[o].prov, o>> : o \in {q \in DOMAIN completed : completed[q].prov # "unknown"}}

Carried(completed) == {<<completed[o].prov, o>> : o \in DOMAIN completed}

StartWalk(r) ==
    [r EXCEPT !.pc = "walk", !.env = LoadCompleted(r.running), !.foot = @ \cup Carried(r.running)]

(* What the resolveValues hook may come back with.                         *)
Resolved ==
    [ok : {TRUE}, degraded : {FALSE}, scores : Rankings]
      \cup {[ok |-> TRUE, degraded |-> TRUE, scores |-> <<>>],
            [ok |-> FALSE, degraded |-> FALSE, scores |-> <<>>]}
Codes(c) == [Absent EXCEPT !.kind = "list", !.items = c]

ExpandRules ==
    /\ e.pc = "slots" /\ e.slots = <<>>
    /\ IF RuleTokens(e.bp) = {} THEN e' = StartWalk(e) /\ UNCHANGED outcome
       ELSE \E r \in Resolved, p \in {"cols", "unknown"} :
              LET x == ExpandRule(r, Gap, Floor) IN
              CASE x.is = "denied" -> End(Failed("denied"))
                [] x.is = "fallback" -> End(Failed("UNSUPPORTED"))
                [] OTHER ->
                     /\ e' = StartWalk([e EXCEPT !.foot = @ \cup {<<p, NoNode>>},
                                                 !.bound = Merge(@, RuleTokens(e.bp), Codes(x.codes))])
                     /\ UNCHANGED outcome
    /\ UNCHANGED <<stored, inScope, cp, runVars, runs, answers, edits>>

---------------------------------------------------------------------------
(* The walk.  Current is the node the loop stands at; a node that the      *)
(* checkpoint brought back is passed over.                                 *)
Current == NextNode(NodesOf(e), e.walked)
Walking(pc) == e.pc = pc /\ e.walked # DOMAIN NodesOf(e)

PassOver ==
    /\ Walking("walk") /\ Current \in DOMAIN e.running
    /\ e' = [e EXCEPT !.walked = @ \cup {Current}]
    /\ UNCHANGED <<stored, inScope, cp, outcome, runVars, runs, answers, edits>>

(* The node contributes nothing: an empty record, zero rows, null scalars. *)
RecordEmpty(r, o) ==
    [r EXCEPT !.pc = "walk", !.walked = @ \cup {o},
              !.running = With(@, o, EmptyRecord),
              !.env = With(@, o, [rows |-> 0,
                                  val |-> IF NodesOf(r)[o].out = "none" THEN "absent" ELSE "null"])]

Replied(o) == e.reply.node = o

(* The `when` gate of node o: "pass" (or no clause), "fail", or an error.  *)
(* The answer to a when question is honoured instead of evaluating again,  *)
(* but not at an approval node, whose answer belongs to its own gate.      *)
WhenSays(o) ==
    LET n == NodesOf(e)[o] IN
    IF ~HasWhen(n) THEN "pass"
    ELSE IF Replied(o) /\ ~n.gate THEN e.reply.says
    ELSE EvaluateWhen(n.when, e.env)

(* The approval gate; the first encounter counts as no answer.             *)
GateSaysAnyReply(o) ==
    IF NodesOf(e)[o].gate /\ e.reply = NoReply THEN "repause"
    ELSE IF NodesOf(e)[o].gate THEN e.reply.says ELSE "approve"

GateSays(o) ==
    IF ~NodesOf(e)[o].gate THEN "approve"
    ELSE IF Replied(o) THEN e.reply.says ELSE "repause"

Skips(o) ==
    WhenSays(o) = "deny" \/ (WhenSays(o) = "fail" /\ NodesOf(e)[o].when.ov = "skip")
Asks(o) ==
    \/ WhenSays(o) = "repause" \/ (WhenSays(o) = "fail" /\ NodesOf(e)[o].when.ov = "ask")
    \/ WhenSays(o) \in {"pass", "approve"} /\ GateSays(o) = "repause"
Aborts(o) ==
    \/ WhenSays(o) = "fail" /\ NodesOf(e)[o].when.ov = "abort"
    \/ WhenSays(o) \in {"pass", "approve"} /\ GateSays(o) = "deny"
Opens(o) == WhenSays(o) \in {"pass", "approve"} /\ GateSays(o) = "approve"

Gate ==
    /\ Walking("walk") /\ Current \notin DOMAIN e.running
    /\ LET o == Current IN
       \/ WhenSays(o) = "error" /\ End(Failed("UNSUPPORTED")) /\ UNCHANGED cp
       \/ WhenSays(o) = "raise" /\ End(Failed("INTERNAL")) /\ UNCHANGED cp
       \/ Aborts(o) /\ End(Failed("ABORTED")) /\ UNCHANGED cp
       \/ Asks(o) /\ PauseAt(e, o, e.running)
       \/ /\ Skips(o) \/ (Opens(o) /\ ~HasSql(NodesOf(e)[o].sql))
          /\ e' = RecordEmpty(e, o) /\ UNCHANGED <<cp, outcome>>
       \/ /\ Opens(o) /\ HasSql(NodesOf(e)[o].sql)
          /\ e' = [e EXCEPT !.pc = "query",
                            !.running = IF NodesOf(e)[o].gate THEN With(@, o, EmptyRecord) ELSE @]
          /\ UNCHANGED <<cp, outcome>>
    /\ UNCHANGED <<stored, inScope, runVars, runs, answers, edits>>

---------------------------------------------------------------------------
(* _node_bindings, _node_table_bindings and bind_template: the slots and   *)
(* rules its template names, every scalar it consumes, every table it      *)
(* consumes as materialized in this process.                               *)
NodeBindings(r, o) ==
    [k \in DOMAIN r.bound \cap ReferencedSlots(NodesOf(r)[o].sql) |-> r.bound[k]]
NodeQuery(r, o) ==
    BindTemplate(NodesOf(r)[o].sql, NodeBindings(r, o), NodesOf(r)[o].tables, r.omitted)

Bindable(o) ==
    LET n == NodesOf(e)[o] IN
    /\ \A q \in n.scalars : q \in DOMAIN e.env /\ e.env[q].val \in {"low", "high"}
    /\ n.tables \subseteq e.scratch
    /\ NodeQuery(e, o).ok

(* What runQuery may return: a denial, or rows with a provenance.  val is  *)
(* the cell of the first row; a long result may be cut off.                *)
Results ==
    [ok : {TRUE}, rows : 0..2, val : {"null", "low", "high"}, prov : {"cols", "unknown"},
     cut : BOOLEAN]
Denied == [ok |-> FALSE, rows |-> 0, val |-> "null", prov |-> "unknown", cut |-> FALSE]
Sane(r) == /\ r.rows = 0 => r.val = "null"
           /\ r.cut => r.rows = 2

(* _extract_scalar_output: exactly one row with a non-null value.          *)
ScalarOutput(n, r) ==
    IF n.out # "scalar" THEN "absent"
    ELSE IF r.rows = 1 /\ r.val # "null" THEN r.val ELSE "invalid"

Ran(o, r) ==
    [e EXCEPT !.pc = "walk", !.walked = @ \cup {o}, !.foot = @ \cup {<<r.prov, o>>}]

(* A table that is consumed downstream goes to a scratch table: not if it  *)
(* was cut off, is over the cap or the side channel refuses it.            *)
Materialize(o, r) ==
    \/ End(Failed("UNSUPPORTED"))
    \/ /\ ~r.cut
       /\ e' = LET x == RecordEmpty(Ran(o, r), o) IN
               [x EXCEPT !.scratch = @ \cup {o},
                         !.running = With(@, o, NodeRecord("absent", r.prov, TRUE))]
       /\ UNCHANGED outcome

Query ==
    /\ Walking("query")
    /\ LET o == Current
           n == NodesOf(e)[o]
       IN  IF ~Bindable(o)
           THEN End(Failed("SLOT_INVALID")) /\ UNCHANGED <<live, sent>>
           ELSE \E r \in {x \in Results : Sane(x)} \cup {Denied} :
                  /\ sent' = With(sent, o,
                       [n |-> IF o \in DOMAIN sent THEN sent[o].n + 1 ELSE 1,
                        toks |-> UNION {p.toks : p \in NodeQuery(e, o).sites},
                        had |-> DOMAIN NodeBindings(e, o)])
                  /\ live' = IF r.ok
                              THEN With(live, o, [rows |-> r.rows, prov |-> r.prov,
                                                  val |-> r.val])
                              ELSE live
                  /\ CASE ~r.ok -> End(Failed("denied"))
                       [] r.ok /\ o \in TableConsumed(NodesOf(e)) -> Materialize(o, r)
                       [] r.ok /\ o \notin TableConsumed(NodesOf(e))
                            /\ ScalarOutput(n, r) = "invalid" -> End(Failed("SLOT_INVALID"))
                       [] OTHER ->
                            LET v == ScalarOutput(n, r) IN
                            /\ e' = [Ran(o, r) EXCEPT
                                       !.running = With(@, o, NodeRecord(v, r.prov, TRUE)),
                                       !.env = With(@, o, [rows |-> r.rows, val |-> v]),
                                       !.terminal = o]
                            /\ UNCHANGED outcome
    /\ UNCHANGED <<stored, inScope, cp, yes, edited, runs, answers, edits>>

(* _finalize and _verify: a grain that maps to no output column of the     *)
(* terminal template, a probe that fails or returns no numbers and a count *)
(* that differs all refuse the answer.                                     *)
Probes == {<<"cols", NoCount>>, <<"cols", 0>>, <<"cols", 1>>, <<"unknown", 1>>, <<"denied", NoCount>>}

Finalize ==
    /\ e.pc = "walk" /\ e.walked = DOMAIN NodesOf(e)
    /\ LET sqls == {o \in DOMAIN e.running : e.running[o].sql}
           grain == e.bp.grain
       IN
       CASE e.terminal = NoNode -> End(Failed("ABORTED"))
         [] e.terminal # NoNode /\ ~GrainChecked(grain) ->
              End(Completed(e.terminal, e.foot, sqls, "skipped"))
         [] e.terminal # NoNode /\ GrainChecked(grain)
              /\ ~GrainMaps(NodesOf(e)[e.terminal].sql.outs, grain.cols) ->
              End(Failed("VERIFY_FAILED"))
         [] OTHER ->
              \E probe \in Probes, total \in 0..1 :
                IF probe[1] # "denied" /\ VerifyResult(grain, total, probe[2])
                THEN End(Completed(e.terminal, e.foot \cup {<<probe[1], NoNode>>}, sqls, "passed"))
                ELSE End(Failed("VERIFY_FAILED"))
    /\ UNCHANGED <<stored, inScope, cp, runVars, runs, answers, edits>>

---------------------------------------------------------------------------
(* Environment, while the run waits for its user.                          *)
Narrow ==
    /\ cp.open /\ inScope /\ inScope' = FALSE
    /\ UNCHANGED <<stored, e, cp, outcome, runVars, runs, answers, edits>>

Reseed ==
    /\ cp.open /\ edits < MaxEdits
    /\ stored' \in Catalog \ {stored}
    /\ edited' = TRUE
    /\ edits' = edits + 1
    /\ UNCHANGED <<inScope, e, cp, outcome, live, sent, yes, runs, answers>>

BlueprintNext ==
    \/ Execute \/ Answer \/ Slot \/ ExpandRules \/ PassOver \/ Gate \/ Query \/ Finalize
    \/ Narrow \/ Reseed

BlueprintSpec == BlueprintInit /\ [][BlueprintNext]_blueprintVars

---------------------------------------------------------------------------
(* Exactly once: a node is never dispatched again by a resume of its run,  *)
(* however often the run pauses.                                           *)
ExactlyOnce == edited \/ \A o \in DOMAIN sent : sent[o].n = 1

(* Consent is opt-in: a query behind an approval gate has run only if the  *)
(* user affirmed that very node; an affirmative answer to an earlier       *)
(* question of the run opens no other gate.                                *)
ConsentGiven ==
    edited \/ \A o \in DOMAIN sent : Nodes(stored)[o].gate => o \in yes

(* The footprint of a completed answer spans the whole run: every query it *)
(* dispatched, before a pause or after, is in its SQL list and its         *)
(* provenance, and one undetermined provenance makes the union             *)
(* undetermined even if its node ran in another process.                   *)
FootprintComplete ==
    outcome.kind = "completed" /\ ~edited =>
      /\ DOMAIN live \subseteq outcome.foot \cap outcome.sqls
      /\ (\E o \in DOMAIN live : live[o].prov = "unknown") => outcome.unknown

(* A scalar that a later node binds is the single cell its node returned,  *)
(* also after the value went through a checkpoint: never the first row of  *)
(* a result that fanned out.                                               *)
ScalarsSurvive ==
    e.pc = "query" /\ ~edited /\ Bindable(Current) =>
      \A q \in NodesOf(e)[Current].scalars :
        q \in DOMAIN live /\ live[q].rows = 1 /\ e.env[q].val = live[q].val

(* An affirmative answer moves the run on: it does not ask the same        *)
(* question again.  (A node with both an approval gate and a clause that   *)
(* asks is left out: its clause is evaluated again after the answer, and   *)
(* asks again.)                                                            *)
YesAdvances ==
    outcome.kind = "paused" /\ e.reply.says = "approve" /\ ~edited /\ outcome.node = e.reply.node
      => LET n == Nodes(stored)[outcome.node] IN n.gate /\ HasWhen(n) /\ n.when.ov = "ask"

(* No filter is dropped: every slot and rule that had a value when a node  *)
(* was dispatched is bound in its query, whatever predicates the patterns  *)
(* of omitted slots replaced.                                              *)
NoFilterDropped == \A o \in DOMAIN sent : sent[o].had \subseteq sent[o].toks

(* Nothing is guessed: a word bound for a probed slot is the only value of *)
(* the domain it can mean, a window lies within the ceiling, a range is in *)
(* order, and the codes of a rule are a confident prefix of the ranking    *)
(* without a significant gap.                                              *)
NeverGuesses ==
    e.pc # "idle" =>
    /\ \A i \in DOMAIN e.bp.slots :
         LET s == e.bp.slots[i]
             raw == Given(s.name)
             v == e.bound[Only(SlotTokens(s))]
         IN  SlotTokens(s) \subseteq DOMAIN e.bound =>
               /\ s.type \in {"string", "period"} /\ e.doms[s.name].known /\ IsString(raw) =>
                    /\ v.word \in e.doms[s.name].values
                    /\ v.word = raw.word \/ \A d \in e.doms[s.name].values :
                                               Casefold(d) = Casefold(raw.word) => d = v.word
               /\ s.type = "window" => v.n \in 1..WindowCap
               /\ s.type = "range" => v.bounds[1].at < v.bounds[2].at
    /\ \A k \in DOMAIN e.bound : k \in RuleTokens(e.bp) =>
         LET c == e.bound[k].items IN
         /\ c # <<>>
         /\ \A i \in DOMAIN c : c[i] >= Floor
         /\ \A i \in 1..(Len(c) - 1) : c[i] - c[i + 1] <= Gap

(* A pause loses nothing: what ran before it does not run again, binds     *)
(* into later nodes what it returned, and stays in the footprint.          *)
ResumeKeepsWork == ExactlyOnce /\ ScalarsSurvive /\ FootprintComplete

(* An affirmative answer counts for its own node only, and there it does.  *)
ConsentCounts == ConsentGiven /\ YesAdvances

(* The query that runs is the one that was asked for: every filter that    *)
(* has a value is in it, and no value is guessed.                          *)
BindsFaithfully == NoFilterDropped /\ NeverGuesses
=============================================================================
