-------------------------- MODULE BlueprintCompile --------------------------
(***************************************************************************)
(* What the corpus loader accepts: references between blueprints are       *)
(* inlined in dependency order, then every blueprint is validated.  One    *)
(* refusal aborts the whole load.                                          *)
(*                                                                         *)
(* A seed is a record [id, source, status, drift, bp].  A node that stands *)
(* for another blueprint names it in ref, and maps that blueprint's slots  *)
(* to its own in slotMap.  A load is a sequence of seeds.                  *)
(***************************************************************************)
EXTENDS Blueprint, Positions, TLC

(* A key that is not db.table.column.                                      *)
MalformedKey == "malformed"
UsesValid(b) == MalformedKey \notin b.uses

MaxRefDepth == 4
MaxComposeNodes == 64

---------------------------------------------------------------------------
(* References.                                                             *)
RefNodes(b) == {o \in DOMAIN b.nodes : b.nodes[o].ref # "none"}
Targets(b) == {b.nodes[o].ref : o \in RefNodes(b)}

(* _node_reference: a node is a reference or a query of its own, not both. *)
ReferenceShape(n) == ~HasSql(n.sql) /\ n.scalars = {} /\ n.tables = {}

(* by_id, for seeds with distinct ids.                                     *)
DistinctIds(seeds) == \A i, j \in DOMAIN seeds : seeds[i].id = seeds[j].id => i = j
ById(seeds) ==
    [x \in {seeds[i].id : i \in DOMAIN seeds} |->
       seeds[CHOOSE i \in DOMAIN seeds : seeds[i].id = x]]

(* _reference_graph: the targets of every blueprint that has references,   *)
(* node by node.                                                           *)
TargetSeq(b) == Pick([o \in RefNodes(b) |-> b.nodes[o].ref], RefNodes(b))

ReferenceGraph(byId) ==
    [x \in {y \in DOMAIN byId : RefNodes(byId[y].bp) # {}} |-> TargetSeq(byId[x].bp)]

NoneDangling(byId) ==
    \A x \in DOMAIN byId : /\ Targets(byId[x].bp) \subseteq DOMAIN byId
                           /\ \A o \in RefNodes(byId[x].bp) : ReferenceShape(byId[x].bp.nodes[o])

(* _reference_resolution_order: an iterative depth-first search with       *)
(* colours.  The stack holds what is to be entered and what is to be left, *)
(* and at its bottom the blueprints from which the outer loop starts; a    *)
(* grey target is a cycle.                                                 *)
Succ(refs, x) == IF x \in DOMAIN refs THEN refs[x] ELSE <<>>

White(color, targets) == Pick(targets, {i \in DOMAIN targets : color[targets[i]] = "white"})
Entering(ids) == [i \in DOMAIN ids |-> <<ids[i], "enter">>]

SearchStep(refs, s) ==
    LET x == Last(s.stack)[1]
        rest == Front(s.stack)
        color == [s.color EXCEPT ![x] = "grey"]
        targets == Succ(refs, x)
    IN  IF Last(s.stack)[2] = "leave"
        THEN [s EXCEPT !.stack = rest, !.color[x] = "black", !.order = Append(@, x)]
        ELSE IF s.color[x] = "black" THEN [s EXCEPT !.stack = rest]
        ELSE IF \E i \in DOMAIN targets : color[targets[i]] = "grey"
             THEN [s EXCEPT !.cyclic = TRUE]
        ELSE [s EXCEPT !.color = color,
                       !.stack = Append(rest, <<x, "leave">>) \o Entering(White(color, targets))]

SearchOn(refs, s) == IF s.cyclic \/ s.stack = <<>> THEN s ELSE SearchStep(refs, s)

SearchInit(refs, ids) ==
    [stack |-> Entering(SetToSeq(DOMAIN refs)), color |-> [x \in ids |-> "white"],
     order |-> <<>>, cyclic |-> FALSE]

(* What is pushed, at most: the starts, and once for every blueprint that  *)
(* is entered the blueprint and its targets.                               *)
Pushes(refs, ids) == UNION {{x} \X (0..Len(Succ(refs, x))) : x \in ids}
SearchFuel(refs, ids) == Cardinality(DOMAIN refs) + Cardinality(Pushes(refs, ids))

Search(refs, ids) ==
    LET after[k \in 0..SearchFuel(refs, ids)] ==
            IF k = 0 THEN SearchInit(refs, ids) ELSE SearchOn(refs, after[k - 1])
    IN  after
ResolutionOrder(refs, ids) == Search(refs, ids)[SearchFuel(refs, ids)]

(* _assert_reference_depth, computed along the order.                      *)
DepthOf(d, refs, x) ==
    IF Succ(refs, x) = <<>> THEN 0 ELSE 1 + Max({d[y] : y \in Range(Succ(refs, x))})

Depths(order, refs) ==
    LET known[k \in 0..Len(order)] ==
            IF k = 0 THEN <<>>
            ELSE (order[k] :> DepthOf(known[k - 1], refs, order[k])) @@ known[k - 1]
    IN  known[Len(order)]

(* _assert_reference_target_loadable: no status is "validated".            *)
TargetLoadable(parent, child) ==
    /\ child.source = parent.source
    /\ child.status \in {"none", "validated"}
    /\ child.drift # "suspect"

(* _referenced_sql_template: the target is a leaf, or a single query node  *)
(* without gate, clause or inputs.                                         *)
SingleNode(b) == b.nodes[CHOOSE o \in DOMAIN b.nodes : TRUE]
PlainQuery(n) ==
    HasSql(n.sql) /\ ~n.gate /\ ~HasWhen(n) /\ n.feeds = {} /\ n.scalars = {} /\ n.tables = {}

ReferencedTemplate(b) ==
    CASE HasSql(b.sql) /\ b.nodes = <<>> -> [ok |-> TRUE, sql |-> b.sql]
      [] ~HasSql(b.sql) /\ Cardinality(DOMAIN b.nodes) = 1 ->
           [ok |-> PlainQuery(SingleNode(b)), sql |-> SingleNode(b).sql]
      [] OTHER -> [ok |-> FALSE, sql |-> NoSql]

(* _reference_token_rename: every mapped slot is declared on both sides    *)
(* with the same number of tokens and is used; the tokens left over belong *)
(* to rules of both.                                                       *)
SlotNamed(b, name) == b.slots[CHOOSE i \in DOMAIN b.slots : b.slots[i].name = name]
SlotNames(b) == {b.slots[i].name : i \in DOMAIN b.slots}

RenameOk(parent, child, map, t) ==
    /\ DOMAIN map \subseteq SlotNames(child)
    /\ Range(map) \subseteq SlotNames(parent)
    /\ \A s \in DOMAIN map :
         /\ (SlotNamed(child, s).type = "range") = (SlotNamed(parent, map[s]).type = "range")
         /\ SlotTokens(SlotNamed(child, s)) \cap ReferencedSlots(t) # {}
    /\ \A k \in ReferencedSlots(t) :
         k[1] \in DOMAIN map \/ k \in RuleTokens(child) \cap RuleTokens(parent)

TokenRename(map, k) == IF k[1] \in DOMAIN map THEN <<map[k[1]], k[2]>> ELSE k

(* _inline_reference.                                                      *)
InlineReference(n, t) ==
    [n EXCEPT !.ref = "none",
              !.sql = [t EXCEPT !.sites = {[p EXCEPT !.toks = {TokenRename(n.slotMap, k) : k \in @}]
                                             : p \in @}]]

InlineOk(parent, child, n) ==
    LET t == ReferencedTemplate(child.bp)
    IN  /\ TargetLoadable(parent, child)
        /\ t.ok
        /\ t.sql.scratch = {}
        /\ RenameOk(parent.bp, child.bp, n.slotMap, t.sql)

(* _assert_uses_union: the blueprint declares what its targets declare.    *)
UsesUnion(parent, byId) ==
    \A x \in Targets(parent.bp) : byId[x].bp.uses \subseteq parent.bp.uses

(* resolve_blueprint_references, one blueprint of the order at a time.     *)
InlineAll(byId, x) ==
    [byId EXCEPT ![x].bp.nodes =
        [o \in DOMAIN @ |-> IF @[o].ref = "none" THEN @[o]
                            ELSE InlineReference(@[o], ReferencedTemplate(byId[@[o].ref].bp).sql)]]

ResolveOne(r, x) ==
    IF ~r.ok THEN r
    ELSE LET parent == r.byId[x]
             inline == \A o \in RefNodes(parent.bp) :
                         InlineOk(parent, r.byId[parent.bp.nodes[o].ref], parent.bp.nodes[o])
         IN  IF inline /\ UsesUnion(parent, r.byId) THEN [r EXCEPT !.byId = InlineAll(@, x)]
             ELSE [r EXCEPT !.ok = FALSE]

ResolveAll(byId, order) ==
    LET after[k \in 0..Len(order)] ==
            IF k = 0 THEN [ok |-> TRUE, byId |-> byId] ELSE ResolveOne(after[k - 1], order[k])
    IN  after[Len(order)]

Resolve(seeds) ==
    LET byId == ById(seeds)
        refs == ReferenceGraph(byId)
        search == ResolutionOrder(refs, DOMAIN byId)
        depth == Depths(search.order, refs)
    IN  IF /\ DistinctIds(seeds) /\ NoneDangling(byId) /\ ~search.cyclic
           /\ \A x \in DOMAIN depth : depth[x] <= MaxRefDepth
        THEN ResolveAll(byId, search.order)
        ELSE [ok |-> FALSE, byId |-> byId]

---------------------------------------------------------------------------
(* validate_blueprint_dag.                                                 *)
Templates(b) ==
    (IF HasSql(b.sql) THEN {b.sql} ELSE {})
      \cup {b.nodes[o].sql : o \in {q \in DOMAIN b.nodes : HasSql(b.nodes[q].sql)}}

AllSlotTokens(b) == UNION {SlotTokens(b.slots[i]) : i \in DOMAIN b.slots}

(* No two slots, and no slot and rule, share a token.                      *)
TokensDisjoint(b) ==
    /\ \A i, j \in DOMAIN b.slots :
         SlotTokens(b.slots[i]) \cap SlotTokens(b.slots[j]) # {} => i = j
    /\ AllSlotTokens(b) \cap RuleTokens(b) = {}

(* _assert_template_reads_within_uses, with the scratch columns of the     *)
(* tables a node consumes.                                                 *)
ReadsWithinUses(b, t) == t.reads \subseteq b.uses

ValidTemplate(b, t) ==
    /\ ReferencedSlots(t) \subseteq AllSlotTokens(b) \cup RuleTokens(b)
    /\ \A i \in DOMAIN b.slots :
         b.slots[i].type = "range" /\ SlotTokens(b.slots[i]) \cap ReferencedSlots(t) # {} =>
           SlotTokens(b.slots[i]) \subseteq ReferencedSlots(t)
    /\ Parses(t) /\ ReadOnly(t)
    /\ ~ContainsStar(t)
    /\ t.form # "dict"
    /\ t.canonical
    /\ ReadsWithinUses(b, t)

(* A required slot is referenced in full; an optional one that is          *)
(* referenced has a pattern; what a slot is bound to is declared.          *)
ValidSlotUse(b, s) ==
    /\ s.required => SlotTokens(s) \subseteq AllReferenced(b)
    /\ ~s.required /\ SlotTokens(s) \cap AllReferenced(b) # {} => s.pattern # "none"
    /\ s.binds # "none" => s.binds \in b.uses
    /\ s.pattern \in {"none", "condition"}

ValidRules(b) == \A k \in RuleTokens(b) : b.rules[k] \in b.uses

(* What a node consumes comes from a node it is fed by, with the output it *)
(* needs, and a consumed table with known columns has its place in the     *)
(* query.                                                                  *)
ValidConsumes(b, n) ==
    /\ n.scalars \subseteq {q \in n.feeds : q \in DOMAIN b.nodes /\ b.nodes[q].out = "scalar"}
    /\ n.tables \subseteq {q \in n.feeds : q \in DOMAIN b.nodes /\ b.nodes[q].out = "table"}
    /\ n.tables \subseteq n.sql.scratch
    /\ HasSql(n.sql) => \A q \in n.tables : b.nodes[q].sql.outs # {}

(* An approval without a query of its own leads somewhere.                 *)
ValidGate(b, o) == b.nodes[o].gate /\ ~HasSql(b.nodes[o].sql) => o \in FedOn(b.nodes)

(* The grammar, and no count over a node with a scalar output.             *)
ValidClause(b, n) ==
    /\ ValidWhen(n.when)
    /\ \A i \in DOMAIN n.when.atoms :
         LET a == n.when.atoms[i]
         IN  a.test = "count" /\ a.ref \in DOMAIN b.nodes => b.nodes[a.ref].out # "scalar"

ValidDag(b) ==
    /\ ParsesBlueprint(b)
    /\ ~(HasSql(b.sql) /\ b.nodes # <<>>)
    /\ TokensDisjoint(b)
    /\ \A t \in Templates(b) : ValidTemplate(b, t)
    /\ \A i \in DOMAIN b.slots : ValidSlotUse(b, b.slots[i])
    /\ ValidRules(b)
    /\ \A o \in DOMAIN b.nodes :
         ValidConsumes(b, b.nodes[o]) /\ ValidGate(b, o) /\ ValidClause(b, b.nodes[o])
    /\ Cardinality(DOMAIN b.nodes) <= MaxComposeNodes
    /\ IsDag(b.nodes)

(* load_corpus up to its first write: what is stored, if anything is.      *)
Compile(seeds) ==
    LET r == Resolve(seeds)
    IN  [byId |-> r.byId,
         ok |-> /\ \A i \in DOMAIN seeds : UsesValid(seeds[i].bp)
                /\ r.ok
                /\ \A x \in DOMAIN r.byId : ValidDag(r.byId[x].bp)]
=============================================================================
