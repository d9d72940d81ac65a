------------------------------ MODULE Blueprint ------------------------------
(***************************************************************************)
(* What a stored blueprint is, and the pure functions that its loader      *)
(* (CorpusLoad) and its executor (BlueprintRun) share: slot resolution,    *)
(* template binding, rule expansion, the query DAG, `when` clauses, the    *)
(* result grain.                                                           *)
(*                                                                         *)
(* A name whose letter case matters is a pair <<stem, casing>>.  A SQL     *)
(* template is reduced to its form, its predicates with the bind tokens in *)
(* them, the columns and scratch tables it reads and the columns it        *)
(* returns.  A blueprint is a record                                       *)
(*   nodes  : a function from node orders to nodes (empty for a leaf)      *)
(*   sql    : the top-level template of a leaf                             *)
(*   slots  : a sequence of slot specifications                            *)
(*   rules  : the tokens that resolve_via rules bind, each with its column *)
(*   grain  : the declared result grain                                    *)
(*   uses   : the columns it declares                                      *)
(***************************************************************************)
EXTENDS Naturals, Integers, Sequences, FiniteSets, SequencesExt

Casefold(name) == name[1]

(* At most one element: the only one, or nothing.                          *)
Unique(S) == Cardinality(S) = 1
Only(S) == CHOOSE x \in S : TRUE

---------------------------------------------------------------------------
(* Templates.  "select" parses to one read-only SELECT that names its      *)
(* columns.  A bind site lies in a predicate of a filter, in one under a   *)
(* NOT, or outside every filter.                                           *)
Forms == {"none", "select", "star", "dict", "dml", "broken"}
Places == {"filter", "not", "projection"}
NoSql ==
    [form |-> "none", sites |-> {}, reads |-> {}, scratch |-> {}, canonical |-> TRUE,
     outs |-> {}]

HasSql(t) == t.form # "none"
ReferencedSlots(t) == UNION {p.toks : p \in t.sites}

(* parse_template succeeds, assert_read_only_select does not raise.        *)
Parses(t) == t.form \notin {"none", "broken"}
ReadOnly(t) == t.form # "dml"
ContainsStar(t) == t.form = "star"

(* _enclosing_predicate and _apply_optional_patterns: the pattern of an    *)
(* omitted slot replaces the whole predicate of its token.  It is refused  *)
(* if the pattern is no self-contained condition, or if the predicate is   *)
(* negated, is none, or holds another bind site.                           *)
Present(t, patterns) == {k \in DOMAIN patterns : k \in ReferencedSlots(t)}

PatternAppliesToShared(t, k, pattern) ==
    /\ pattern = "condition"
    /\ \A p \in t.sites : k \in p.toks => p.place = "filter"

PatternApplies(t, k, pattern) ==
    /\ pattern = "condition"
    /\ \A p \in t.sites : k \in p.toks => p.place = "filter" /\ p.toks = {k}

ApplyOptionalPatterns(t, patterns) ==
    {p \in t.sites : p.toks \cap Present(t, patterns) = {}}

(* _to_literal: an empty list has no literal.                              *)
HasLiteral(value) == value.kind = "list" => value.items # <<>>

(* bind_template: whether the query can be written, and the predicates it  *)
(* then has.  The scratch tables are rewritten only if some are bound.     *)
BindTemplate(t, bindings, tables, patterns) ==
    [ok |-> /\ ReferencedSlots(t) \subseteq DOMAIN bindings \cup DOMAIN patterns
            /\ DOMAIN bindings \subseteq ReferencedSlots(t)
            /\ Parses(t)
            /\ tables = {} \/ t.scratch \subseteq tables
            /\ \A k \in Present(t, patterns) : PatternApplies(t, k, patterns[k])
            /\ \A k \in DOMAIN bindings : HasLiteral(bindings[k]),
     sites |-> ApplyOptionalPatterns(t, patterns)]

---------------------------------------------------------------------------
(* Slots.  A period_range occupies two tokens, every other type one.       *)
SlotTypes == {"string", "enum", "period", "list", "window", "range"}
SlotTokens(s) ==
    IF s.type = "range" THEN {<<s.name, "start">>, <<s.name, "end">>} ELSE {<<s.name, "">>}

RuleTokens(b) == DOMAIN b.rules

(* The hard ceiling of a relative window, 120 in the code.                 *)
WindowCap == 3
MaxSlots == 16

(* SlotSpec.parse: a windowed slot has no domain, an enum has values, an   *)
(* authored bound lies within the ceiling.  (hi and lo are 0 if not given.)*)
ParsesSlot(s) ==
    /\ s.type \in SlotTypes
    /\ s.binds # "none" => s.type \notin {"window", "range"}
    /\ s.type = "enum" => s.values # {}
    /\ (s.lo # 0 \/ s.hi # 0) =>
         LET lo == IF s.lo = 0 THEN 1 ELSE s.lo
             hi == IF s.hi = 0 THEN WindowCap ELSE s.hi
         IN  1 <= lo /\ lo <= hi /\ hi <= WindowCap

(* What the model may propose for a slot: nothing, a word, a deictic word  *)
(* ("latest"), a whole number, digits, another non-word, a list, a pair of *)
(* bounds.  word is its string form.                                       *)
RawKinds == {"absent", "word", "deictic", "int", "digits", "other", "list", "pair"}
Absent == [kind |-> "absent", word |-> <<"", "">>, n |-> 0, items |-> <<>>, bounds |-> <<>>]

AsksUser == [is |-> "ask", value |-> Absent]
Omits == [is |-> "omit", value |-> Absent]
Binds(v) == [is |-> "bind", value |-> v]

(* _domain_matches: an exact hit wins alone, otherwise every value that    *)
(* differs in case only.                                                   *)
DomainMatches(word, domain) ==
    IF word \in domain THEN {word} ELSE {d \in domain : Casefold(d) = Casefold(word)}

BindMatch(raw, matches) ==
    IF Unique(matches) THEN Binds([raw EXCEPT !.kind = "word", !.word = Only(matches)]) ELSE AsksUser

IsString(raw) == raw.kind \in {"word", "deictic", "digits"}

(* domain is a record: whether the probe gave one, and its values.         *)
ResolveScalar(raw, domain) ==
    IF ~IsString(raw) \/ ~domain.known THEN Binds([raw EXCEPT !.kind = "word"])
    ELSE BindMatch(raw, DomainMatches(raw.word, domain.values))

ResolveEnum(raw, s) ==
    IF IsString(raw) THEN BindMatch(raw, DomainMatches(raw.word, s.values)) ELSE AsksUser

ResolvePeriod(raw, domain) ==
    IF raw.kind = "deictic" \/ ~domain.known THEN AsksUser
    ELSE BindMatch(raw, DomainMatches(raw.word, domain.values))

(* One element that cannot be resolved asks for the whole list.            *)
ResolveList(raw, domain) ==
    LET items == IF raw.kind = "list" THEN raw.items ELSE <<raw>>
        each == [i \in DOMAIN items |-> ResolveScalar(items[i], domain)]
    IN  IF items = <<>> \/ \E i \in DOMAIN each : each[i].is = "ask" THEN AsksUser
        ELSE Binds([raw EXCEPT !.kind = "list", !.items = [i \in DOMAIN each |-> each[i].value]])

(* A plain count of the template's own unit, clamped to the ceiling.       *)
ResolveWindow(raw, s) ==
    LET lo == IF s.lo > 1 THEN s.lo ELSE 1
        hi == IF s.hi # 0 /\ s.hi < WindowCap THEN s.hi ELSE WindowCap
    IN  IF raw.kind \in {"int", "digits"} /\ raw.n \in lo..hi
        THEN Binds([raw EXCEPT !.kind = "int"]) ELSE AsksUser

(* Two real calendar dates of the same shape, in order.                    *)
ResolveRange(raw) ==
    IF /\ raw.kind = "pair"
       /\ \A i \in {1, 2} : raw.bounds[i].shape \in {"date", "datetime"} /\ raw.bounds[i].real
       /\ raw.bounds[1].shape = raw.bounds[2].shape
       /\ raw.bounds[1].at < raw.bounds[2].at
    THEN Binds(raw) ELSE AsksUser

(* resolve_slot.                                                           *)
ResolveSlot(raw, s, domain) ==
    CASE raw.kind = "absent" -> IF s.required THEN AsksUser ELSE Omits
      [] raw.kind # "absent" /\ s.type = "window" -> ResolveWindow(raw, s)
      [] raw.kind # "absent" /\ s.type = "range" -> ResolveRange(raw)
      [] raw.kind # "absent" /\ s.type = "string" ->
           IF raw.kind \in {"list", "pair"} THEN AsksUser ELSE ResolveScalar(raw, domain)
      [] raw.kind # "absent" /\ s.type = "enum" -> ResolveEnum(raw, s)
      [] raw.kind # "absent" /\ s.type = "period" -> ResolvePeriod(raw, domain)
      [] OTHER -> ResolveList(raw, domain)

---------------------------------------------------------------------------
(* resolve_via rules.  scores is what resolveValues ranked, in descending  *)
(* order: the positions that reach the floor are a prefix of it, cut off   *)
(* before the first significant gap.                                       *)
SelectSubset(scores, gap, floor) ==
    LET cuts == {i \in 1..(Len(scores) - 1) : scores[i] - scores[i + 1] > gap}
        cut == IF cuts = {} THEN Len(scores) ELSE CHOOSE i \in cuts : \A j \in cuts : i <= j
        confident == {i \in 1..cut : scores[i] >= floor}
    IN  SubSeq(scores, 1, IF confident = {} THEN 1 ELSE Cardinality(confident))

(* expand_rule: a filter is never dropped and never guessed.               *)
ExpandRule(resolved, gap, floor) ==
    CASE ~resolved.ok -> [is |-> "denied", codes |-> <<>>]
      [] resolved.ok /\ (\/ resolved.degraded
                         \/ resolved.scores = <<>>
                         \/ Head(resolved.scores) < floor) -> [is |-> "fallback", codes |-> <<>>]
      [] OTHER -> [is |-> "bind", codes |-> SelectSubset(resolved.scores, gap, floor)]

---------------------------------------------------------------------------
(* The DAG.  A leaf runs as a DAG of one node.                             *)
LeafOrder == 0
NoClause == [any |-> FALSE, atoms |-> <<>>, ov |-> "skip"]
LeafNode(b) ==
    [feeds |-> {}, gate |-> FALSE, when |-> NoClause, sql |-> b.sql, out |-> "none",
     scalars |-> {}, tables |-> {}, ref |-> "none"]
IsLeaf(b) == HasSql(b.sql) /\ b.nodes = <<>>
Nodes(b) == IF IsLeaf(b) THEN [o \in {LeafOrder} |-> LeafNode(b)] ELSE b.nodes

HasWhen(n) == n.when.atoms # <<>>

(* Node.parse: a reference that the loader did not inline is refused.      *)
ParsesNode(n) ==
    /\ n.ref = "none"
    /\ n.when.ov \in {"skip", "abort", "ask"}
    /\ n.out \in {"none", "scalar", "table"}

(* Blueprint.parse.                                                        *)
ParsesBlueprint(b) ==
    /\ Len(b.slots) <= MaxSlots
    /\ \A i \in DOMAIN b.slots : ParsesSlot(b.slots[i])
    /\ \A i, j \in DOMAIN b.slots : b.slots[i].name = b.slots[j].name => i = j
    /\ \A o \in DOMAIN b.nodes : ParsesNode(b.nodes[o])

(* _topo_order gives up on a dangling feeds_from and on a cycle.           *)
IsDag(nodes) ==
    /\ \A o \in DOMAIN nodes : nodes[o].feeds \subseteq DOMAIN nodes
    /\ \A S \in SUBSET DOMAIN nodes :
         S # {} => \E o \in S : nodes[o].feeds \cap S = {}

(* Kahn's algorithm with the tie broken on the order: the next node is the *)
(* smallest one whose feeds are all behind.                                *)
Ready(nodes, walked) == {o \in DOMAIN nodes \ walked : nodes[o].feeds \subseteq walked}
NextNode(nodes, walked) ==
    CHOOSE o \in Ready(nodes, walked) : \A q \in Ready(nodes, walked) : o <= q

FedOn(nodes) == UNION {nodes[o].feeds : o \in DOMAIN nodes}
TableConsumed(nodes) == UNION {nodes[o].tables : o \in DOMAIN nodes}
HasTableIntermediate(nodes) == \E o \in DOMAIN nodes \cap FedOn(nodes) : nodes[o].out = "table"

AllReferenced(b) ==
    UNION {ReferencedSlots(Nodes(b)[o].sql) : o \in DOMAIN Nodes(b)}

---------------------------------------------------------------------------
(* `when` clauses: a conjunction (or, with any, a disjunction) of          *)
(* possibly negated tests over the outputs of earlier nodes: count($N) > 0,*)
(* empty($N), $N.name > 0.  An "entity" test compares with a value of the  *)
(* data and is outside the grammar.                                        *)
Tests == {"count", "empty", "value"}

ValidWhen(w) == \A i \in DOMAIN w.atoms : w.atoms[i].test \in Tests

(* env[o] is what the executor holds of node o: its row count and its      *)
(* scalar, "null" for a skipped node, "absent" if the name is not there.   *)
(* A comparison with None raises a TypeError, a reference that is not      *)
(* there a WhenClauseError.                                                *)
Holds(x) == IF x THEN "pass" ELSE "fail"

EvaluateAtom(a, env) ==
    IF a.ref \notin DOMAIN env THEN "error"
    ELSE CASE a.test = "count" -> Holds((env[a.ref].rows > 0) # a.neg)
           [] a.test = "empty" -> Holds((env[a.ref].rows = 0) # a.neg)
           [] OTHER -> CASE env[a.ref].val = "absent" -> "error"
                         [] env[a.ref].val = "null" -> "raise"
                         [] OTHER -> Holds((env[a.ref].val = "high") # a.neg)

(* evaluate_when: the grammar first, then the tests from left to right up  *)
(* to the first that decides.                                              *)
EvaluateWhen(w, env) ==
    LET says == [i \in DOMAIN w.atoms |-> EvaluateAtom(w.atoms[i], env)]
        weak == IF w.any THEN "fail" ELSE "pass"
        deciding == {i \in DOMAIN says : says[i] # weak}
    IN  IF ~ValidWhen(w) THEN "error"
        ELSE IF deciding = {} THEN weak
        ELSE says[CHOOSE i \in deciding : \A j \in deciding : i <= j]

---------------------------------------------------------------------------
(* The result grain.  map_grain_columns: an exact output name, or the only *)
(* one that differs in case; anything else leaves the grain unmapped.      *)
GrainColumn(outs, col) == DomainMatches(col, outs)
GrainMaps(outs, cols) == \A c \in cols : Unique(GrainColumn(outs, c))

(* verify_result.  distinct is NoCount if no probe number could be had.    *)
NoCount == -1
GrainChecked(grain) == grain.cols # {} /\ grain.verifiable
VerifyResult(grain, total, distinct) ==
    GrainChecked(grain) => distinct # NoCount /\ total = distinct
=============================================================================
