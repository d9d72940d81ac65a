----------------------------- MODULE Generalize -----------------------------
(***************************************************************************)
(* S4 of the pipeline (learning/generalize): the plan of an extracted      *)
(* blueprint and the SQL the user accepted become templates with slots,    *)
(* stamped `ok` or `fail_to_review`; an ok candidate is projected onto the *)
(* seed that the corpus loader validates (BlueprintCompile).               *)
(*                                                                         *)
(* A query is the sequence of its comparisons in the order of the tree     *)
(* walk: [column, cols, op, lits, located].  column is the one the         *)
(* enumerator of literal predicates names, cols are all those referenced,  *)
(* located is FALSE for the shapes only the enumerator reads (BETWEEN).    *)
(* A plan entry is [role, column, value, slot], value a sequence of members*)
(* (an IN list's arrive joined), slot a slot of Blueprint.                 *)
(***************************************************************************)
EXTENDS BlueprintCompile

CONSTANTS
    Plans,            \* the payloads: [kind, refs, entries, composes]
    Designated,       \* per reference, the accepted queries in order
    CatalogColumns    \* what the catalog lets a query read

Literal(v) == <<"literal", v>>
Hole(name) == <<"slot", name>>

\* A comparison names one of the columns it references, and what it compares
\* with are literals; a query is a list of comparisons.
IsComparison(c) ==
    /\ c = [column |-> c.column, cols |-> c.cols, op |-> c.op, lits |-> c.lits, located |-> c.located]
    /\ c.column \in c.cols
    /\ c.lits \in Seq({Literal(l[2]) : l \in Range(c.lits)})

IsQuery(q) ==
    /\ q = [parses |-> q.parses, form |-> q.form, cmps |-> q.cmps, reads |-> q.reads,
            canonical |-> q.canonical]
    /\ q.cmps \in Seq(Range(q.cmps))
    /\ \A c \in Range(q.cmps) : IsComparison(c)

ASSUME QueriesAreParsed ==
    \A ref \in DOMAIN Designated :
        /\ Designated[ref] \in Seq(Range(Designated[ref]))
        /\ \A q \in Range(Designated[ref]) : IsQuery(q)

\* What the extractor lets through (_validate_roles): a slot of a type that S4
\* can write, with the values or the pattern that its type or its being
\* optional calls for.
IsExtracted(e) ==
    /\ e.role \in {"slot", "rule", "inline"}
    /\ e.value \in Seq(Range(e.value))
    /\ e.role = "slot" =>
          /\ ParsesSlot(e.slot) /\ e.slot.type # "range"
          /\ e.slot.pattern \in {"none", "condition"}
          /\ e.slot.required \/ e.slot.pattern # "none"

ASSUME PlansAreExtracted ==
    \A p \in Plans : p.shape \in {"good", "composes", "entries"} /\ (p.shape = "good" =>
        /\ p.refs \in Seq(Range(p.refs))
        /\ p.entries \in Seq(Range(p.entries)) /\ \A e \in Range(p.entries) : IsExtracted(e)
        /\ p.composes \in Seq(Range(p.composes))
        /\ \A n \in Range(p.composes) : n.order \in Int)

ASSUME CatalogIsWellFormed == MalformedKey \notin CatalogColumns

VARIABLES
    plan,             \* the candidate's payload
    stamp,            \* its generalization
    landing           \* none, loaded, refused

gvars == <<plan, stamp, landing>>

-----------------------------------------------------------------------------
(* rewrite.py: the tree edits.                                             *)

\* _find_literal: the first comparison that references the column and carries
\* the literal; 0 if there is none.  A literal is one member, never a list.
Carries(cmp, column, v) ==
    cmp.located /\ column \in cmp.cols /\ Literal(v) \in Range(cmp.lits)

FindLiteral(q, column, value) ==
    IF Len(value) # 1 THEN 0
    ELSE SelectInSeq(q.cmps, LAMBDA cmp : Carries(cmp, column, value[1]))

\* literal.replace: one literal of that comparison.
Replace(q, at, v, new) ==
    LET i == SelectInSeq(q.cmps[at].lits, LAMBDA l : l = Literal(v))
    IN  [q EXCEPT !.cmps[at].lits[i] = new]

\* _located_inline_literal: the value, or every member of the list.
LocatedInline(q, e) ==
    \A i \in DOMAIN e.value : FindLiteral(q, e.column, <<e.value[i]>>) # 0

\* literal_predicates: what the enumerator of the totality gate sees.
Predicate(cmp) == [column |-> cmp.column, op |-> cmp.op, value |-> cmp.lits]
LiteralPredicates(q) == {Predicate(q.cmps[i]) : i \in DOMAIN q.cmps}

EnumeratedInline(q, e) ==
    \E p \in LiteralPredicates(q) :
        p.column = e.column /\ p.value = [i \in DOMAIN e.value |-> Literal(e.value[i])]

Inlines(entries) == {e \in Range(entries) : e.role = "inline"}

\* One entry of the plan, at the query the earlier ones left.  A rule keeps
\* its predicate, an inline its literal; a slot without a name is refused.
Located(q, e) == FindLiteral(q, e.column, e.value)

Edit(q, e) ==
    IF e.role = "slot" /\ Located(q, e) # 0
    THEN Replace(q, Located(q, e), e.value[1], Hole(e.slot.name)) ELSE q

EntryFails(q, e, strict) ==
    \/ strict /\ e.role # "inline" /\ Located(q, e) = 0
    \/ e.role = "slot" /\ Located(q, e) # 0 /\ e.slot.name = ""

Edits(q, entries) ==
    LET after[n \in 0..Len(entries)] == IF n = 0 THEN q ELSE Edit(after[n - 1], entries[n])
    IN  after

\* rewrite_sql_to_template: a strict plan is a claim about this query, and
\* what it keeps inline is there before and after the edits.
Kept(q, entries) == {e \in Inlines(entries) : LocatedInline(q, e)}
Honest(q, entries) == \A e \in Inlines(entries) \ Kept(q, entries) : EnumeratedInline(q, e)

Template(q, entries) == Edits(q, entries)[Len(entries)]

Rewrites(q, entries, strict) ==
    /\ q.parses
    /\ \A n \in DOMAIN entries : ~EntryFails(Edits(q, entries)[n - 1], entries[n], strict)
    /\ strict => /\ Honest(q, entries)
                 /\ \A e \in Kept(q, entries) : LocatedInline(Template(q, entries), e)

-----------------------------------------------------------------------------
(* validate.py.                                                            *)

ReadOnlySelect(q) == q.form = "select"

\* check_dag over the raw nodes, a sequence: the first failure rejects.
MaxNodes == 16
Orders(composes) == {composes[i].order : i \in DOMAIN composes}
At(composes, o) == composes[CHOOSE i \in DOMAIN composes : composes[i].order = o]

\* feeds_from only points back, and what is consumed is fed and of that kind.
CheckNode(composes, n) ==
    /\ n.feeds \subseteq {o \in Orders(composes) : o < n.order}
    /\ n.scalars \subseteq {o \in n.feeds : At(composes, o).out = "scalar"}
    /\ n.tables \subseteq {o \in n.feeds : At(composes, o).out = "table"}

CheckDag(composes) ==
    LET nodes == Range(composes)
        tableFed == {n \in nodes : n.out = "table" /\ \E m \in nodes : n.order \in m.feeds}
    IN  /\ Len(composes) <= MaxNodes
        /\ \A i \in DOMAIN composes : composes[i].out \in {"none", "scalar", "table"}
        /\ IsInjective([i \in DOMAIN composes |-> composes[i].order])
        /\ \A n \in nodes : CheckNode(composes, n)
        /\ tableFed # {} => \E n \in nodes : n.tables # {}

\* decide_outcome: the first failing check names the reason.
DecideOutcome(explain, binds, dag, readOnly) ==
    CASE ~explain -> "explain_failed"
      [] explain /\ ~binds -> "binds_to_not_subset"
      [] explain /\ binds /\ ~dag -> "dag_invalid"
      [] explain /\ binds /\ dag /\ ~readOnly -> "not_read_only_select"
      [] OTHER -> "ok"

-----------------------------------------------------------------------------
(* stage.py and builder.py.                                                *)

NoQuery == [parses |-> FALSE, form |-> "none", cmps |-> <<>>, reads |-> {}, canonical |-> TRUE]

\* Mutant: the last designation wins.
LatestDesignation(queries) == IF queries = <<>> THEN NoQuery ELSE Last(queries)

\* _collapse_designations: the last query behind a reference stands for all
\* only if it has every literal predicate of the others.
CollapseDesignations(queries) ==
    IF queries = <<>> THEN NoQuery
    ELSE IF Len(queries) = 1 THEN queries[1]
    ELSE IF \A i \in DOMAIN queries :
              queries[i].parses /\ LiteralPredicates(queries[i]) \subseteq LiteralPredicates(Last(queries))
         THEN Last(queries) ELSE NoQuery

Resolved == [ref \in DOMAIN Designated |-> CollapseDesignations(Designated[ref])]
QueryOf(ref) == IF ref \in DOMAIN Designated THEN Resolved[ref] ELSE NoQuery
HasQuery(ref) == QueryOf(ref) # NoQuery

\* _accepted_sql_for_single: the last reference that resolves.
Resolving(p) == {i \in DOMAIN p.refs : HasQuery(p.refs[i])}
AcceptedRef(p) == p.refs[Max(Resolving(p))]
AcceptedForSingle(p) == IF Resolving(p) = {} THEN NoQuery ELSE QueryOf(AcceptedRef(p))

SlotPositions(p) == {i \in DOMAIN p.entries : p.entries[i].role = "slot"}
SlotEntries(p) == {p.entries[i] : i \in SlotPositions(p)}
BindsTo(p) == {e.slot.binds : e \in SlotEntries(p)} \ {"none"}

\* The generalization of a plan that could not be generalized.
FailToReview(reason) == [outcome |-> reason, sql |-> NoQuery, nodes |-> <<>>, uses |-> {}]

\* What both kinds of plan share once they have their templates.
Stamped(p, templates, sql, nodes) ==
    LET reads == UNION {t.reads : t \in templates}
        explain == reads \subseteq CatalogColumns
        uses == IF explain THEN reads ELSE {}
    IN  [outcome |-> DecideOutcome(explain, BindsTo(p) \subseteq uses, TRUE,
                                   \A t \in templates : ReadOnlySelect(t)),
         sql |-> sql, nodes |-> nodes, uses |-> uses]

\* _generalize_single.
GeneralizeSingle(p) ==
    LET accepted == AcceptedForSingle(p)
        template == Template(accepted, p.entries)
    IN  IF accepted = NoQuery \/ ~Rewrites(accepted, p.entries, TRUE)
        THEN FailToReview("unrewritable_sql")
        ELSE Stamped(p, {template}, template, <<>>)

\* _generalize_composite: each node has an accepted query of its own, and
\* uses some of the parameters.
NodeRef(p, o) == At(p.composes, o).toolRef
NodeQuery(p, o) == QueryOf(NodeRef(p, o))

GeneralizeComposite(p) ==
    LET template == [o \in Orders(p.composes) |-> Template(NodeQuery(p, o), p.entries)]
    IN  IF p.composes = <<>> \/ ~CheckDag(p.composes) THEN FailToReview("dag_invalid")
        ELSE IF \E n \in Range(p.composes) : n.when # NoClause
        THEN FailToReview("when_bearing_composite")
        ELSE IF \E o \in Orders(p.composes) :
                  ~HasQuery(NodeRef(p, o)) \/ ~Rewrites(NodeQuery(p, o), p.entries, FALSE)
        THEN FailToReview("unrewritable_sql")
        ELSE Stamped(p, Range(template), NoQuery, template)

\* generalize_blueprint, in-band whatever the shape of the plan.
IsComposite(p) == p.kind = "composite" \/ p.composes # <<>>

GeneralizeBlueprint(p) ==
    IF p.shape = "composes" THEN FailToReview("dag_invalid")
    ELSE IF p.shape = "entries" THEN FailToReview("unrewritable_sql")
    ELSE IF IsComposite(p) THEN GeneralizeComposite(p) ELSE GeneralizeSingle(p)

-----------------------------------------------------------------------------
(* mapping.py: the seed, in the terms of the loader.                       *)

Holes(cmp) == {l[2] : l \in {x \in Range(cmp.lits) : x[1] = "slot"}}

\* A template: one bind site per comparison that has slots in it.
AsTemplate(q) ==
    [NoSql EXCEPT !.form = q.form, !.reads = q.reads, !.canonical = q.canonical,
       !.sites = {[toks |-> {<<name, "">> : name \in Holes(q.cmps[i])}, place |-> "filter"] :
                    i \in {j \in DOMAIN q.cmps : Holes(q.cmps[j]) # {}}}]

\* _compose_docs: the fields of the allowlist and the template of the order.
ComposeNode(p, g, o) ==
    LET n == At(p.composes, o)
    IN  [feeds |-> n.feeds, gate |-> n.gate, when |-> n.when, out |-> n.out, scalars |-> n.scalars,
         tables |-> n.tables, ref |-> "none", slotMap |-> <<>>, sql |-> AsTemplate(g.nodes[o])]

\* _slot_docs.
SlotDocs(p) == Pick([i \in SlotPositions(p) |-> p.entries[i].slot], SlotPositions(p))

\* blueprint_seed_from_candidate: untrusted until a human approves.
SeedFromCandidate(p, g) ==
    [id |-> "learned", source |-> "learning", status |-> "validated", drift |-> "clean",
     bp |-> [nodes |-> [o \in DOMAIN g.nodes |-> ComposeNode(p, g, o)],
             sql |-> IF g.sql = NoQuery THEN NoSql ELSE AsTemplate(g.sql),
             slots |-> SlotDocs(p), rules |-> <<>>,
             grain |-> [cols |-> {}, verifiable |-> TRUE], uses |-> g.uses]]

-----------------------------------------------------------------------------
Unstamped == FailToReview("none")

GInit == plan \in Plans /\ stamp = Unstamped /\ landing = "none"

\* GeneralizeStage.process: always continues.
Process ==
    /\ stamp = Unstamped
    /\ stamp' = GeneralizeBlueprint(plan)
    /\ UNCHANGED <<plan, landing>>

\* The landing write of an ok candidate: the loader validates the seed.
Land ==
    /\ stamp.outcome = "ok" /\ landing = "none"
    /\ landing' = IF Compile(<<SeedFromCandidate(plan, stamp)>>).ok THEN "loaded" ELSE "refused"
    /\ UNCHANGED <<plan, stamp>>

GNext == Process \/ Land

-----------------------------------------------------------------------------
(* What a template that says `ok` is worth.                                *)

\* The stable reason tags that the writer routes on.
Outcomes ==
    {"ok", "explain_failed", "binds_to_not_subset", "dag_invalid", "not_read_only_select",
     "unrewritable_sql", "when_bearing_composite"}

\* The type invariant: a candidate sent to review carries no guessed template
\* unless its templates were written and then failed a check.
GeneralizationTypeOK ==
    /\ stamp = Unstamped \/ stamp.outcome \in Outcomes
    /\ landing \in {"none", "loaded", "refused"}
    /\ stamp.outcome \in {"none", "dag_invalid", "unrewritable_sql", "when_bearing_composite"} =>
          stamp.sql = NoQuery /\ stamp.nodes = <<>>
    /\ DOMAIN stamp.nodes \subseteq Orders(plan.composes)

\* The template with the values back that the plan took out of it.
ValueOf(p, name) ==
    LET of == {e \in SlotEntries(p) : e.slot.name = name}
    IN  Literal((CHOOSE e \in of : TRUE).value[1])

FilledLits(p, lits) == [j \in DOMAIN lits |-> IF lits[j][1] = "slot" THEN ValueOf(p, lits[j][2]) ELSE lits[j]]

Filled(p, q) ==
    [q EXCEPT !.cmps = [i \in DOMAIN q.cmps |->
                         [q.cmps[i] EXCEPT !.lits = FilledLits(p, q.cmps[i].lits)]]]

DistinctSlots(p) ==
    \A i, j \in SlotPositions(p) : p.entries[i].slot.name = p.entries[j].slot.name => i = j

Ok == stamp.outcome = "ok"

\* Bound with the values of the session, a template is the query that the
\* user accepted: nothing was dropped and no other literal was taken.
TemplateIsTheQuery ==
    Ok /\ DistinctSlots(plan) =>
        IF IsComposite(plan)
        THEN \A o \in DOMAIN stamp.nodes :
               Filled(plan, stamp.nodes[o]) = Last(Designated[NodeRef(plan, o)])
        ELSE Filled(plan, stamp.sql) = Last(Designated[AcceptedRef(plan)])

\* The totality gate passed: an entry for every literal predicate of every
\* query behind every reference, however it compares.
Accounted(p) ==
    \A ref \in Range(p.refs) \cap DOMAIN Designated : \A i \in DOMAIN Designated[ref] :
        \A pred \in LiteralPredicates(Designated[ref][i]) : \E e \in Range(p.entries) :
            e.column = pred.column /\ pred.value = [k \in DOMAIN e.value |-> Literal(e.value[k])]

\* The references whose queries the templates were written from.
Sources ==
    IF IsComposite(plan) THEN {n.toolRef : n \in Range(plan.composes)}
    ELSE {AcceptedRef(plan)}

TemplateFrom(ref) ==
    {Filled(plan, stamp.sql)} \cup
    {Filled(plan, stamp.nodes[o]) : o \in {x \in DOMAIN stamp.nodes : NodeRef(plan, x) = ref}}

\* A reference may stand for several queries, and a single blueprint may cite
\* several references, but one template is written: each filter of every
\* query behind its reference is in it, and once the totality gate passed,
\* each literal of the other references is, on its column.
NoFilterLost ==
    Ok /\ DistinctSlots(plan) =>
        /\ \A ref \in Sources : \A i \in DOMAIN Designated[ref] :
              \E t \in TemplateFrom(ref) : LiteralPredicates(Designated[ref][i]) \subseteq LiteralPredicates(t)
        /\ ~IsComposite(plan) /\ Accounted(plan) =>
              \A ref \in Range(plan.refs) \cap DOMAIN Designated : \A i \in DOMAIN Designated[ref] :
                \A pred \in LiteralPredicates(Designated[ref][i]) : \A k \in DOMAIN pred.value :
                  \E cmp \in Range(Filled(plan, stamp.sql).cmps) :
                      pred.column \in cmp.cols /\ pred.value[k] \in Range(cmp.lits)

\* What the plan calls part of the metric stays a literal of the template.
InlineStays ==
    Ok /\ ~IsComposite(plan) => \A e \in Inlines(plan.entries) : \A k \in DOMAIN e.value :
        \E cmp \in Range(stamp.sql.cmps) :
            e.column \in cmp.cols /\ Literal(e.value[k]) \in Range(cmp.lits)

\* The offline checks mirror the loader: past the human valve, a landing can
\* be refused only for two slots of one name, for more slots than a blueprint
\* may have, for a required slot that no node uses, for a table that no
\* accepted query could have read, or for a template the normalizer chokes on.
LandingRefusesOnly ==
    landing = "refused" =>
        \/ ~DistinctSlots(plan)
        \/ Cardinality(SlotPositions(plan)) > MaxSlots
        \/ IsComposite(plan) /\ \E e \in SlotEntries(plan) :
              e.slot.required /\ \A o \in DOMAIN stamp.nodes :
                  e.slot.name \notin UNION {Holes(cmp) : cmp \in Range(stamp.nodes[o].cmps)}
        \/ \E n \in Range(plan.composes) : n.tables # {}
        \/ \E q \in {stamp.sql} \cup Range(stamp.nodes) : ~q.canonical

\* S4 hands on what it was given, or says that it could not.
GeneralizedSound ==
    /\ GeneralizationTypeOK
    /\ TemplateIsTheQuery
    /\ NoFilterLost
    /\ InlineStays
    /\ LandingRefusesOnly
=============================================================================
