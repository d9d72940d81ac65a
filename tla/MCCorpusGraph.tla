--------------------------- MODULE MCCorpusGraph ---------------------------
(* Exports that load, with references two deep, and exports that do not.   *)
EXTENDS CorpusGraph

SlotToken == <<"p", "">>
Query(toks, reads) ==
    [NoSql EXCEPT !.form = "select", !.reads = reads, !.outs = {<<"n", "lc">>},
                  !.sites = {[toks |-> {k}, place |-> "filter"] : k \in toks}]
Slot(name) ==
    [name |-> name, type |-> "string", required |-> TRUE, pattern |-> "none", binds |-> "a",
     values |-> {}, lo |-> 0, hi |-> 0]
QueryNode(sql) ==
    [feeds |-> {}, gate |-> FALSE, when |-> NoClause, sql |-> sql, out |-> "none",
     scalars |-> {}, tables |-> {}, ref |-> "none", slotMap |-> <<>>]
RefNode(target) == [QueryNode(NoSql) EXCEPT !.ref = target]
Export(id, bp) ==
    [id |-> id, wellFormed |-> TRUE, source |-> "mcp", status |-> "validated", drift |-> "clean",
     bp |-> bp]

Leaf == [Blank EXCEPT !.sql = Query({SlotToken}, {"a"}), !.slots = <<Slot("p")>>, !.uses = {"a"}]
Wide(uses) == [Blank EXCEPT !.sql = Query({}, {"a", "b"}), !.uses = uses]
Refers(target, uses) ==
    [Blank EXCEPT !.slots = <<Slot("q")>>, !.uses = uses,
                  !.nodes = <<[RefNode(target) EXCEPT !.slotMap = ("p" :> "q")]>>]
RefersTwice(first, second) ==
    [Blank EXCEPT !.slots = <<Slot("q")>>, !.uses = {"a"},
                  !.nodes = <<[RefNode(first) EXCEPT !.slotMap = ("p" :> "q")],
                              [RefNode(second) EXCEPT !.slotMap = ("q" :> "q")]>>]
Chain(targets) ==
    [Blank EXCEPT !.uses = {"a", "b"}, !.nodes = [i \in DOMAIN targets |-> RefNode(targets[i])]]

MCBlueprintExports ==
    [v1 |-> <<Export("x", Leaf), [Export("y", Wide({"a", "b"})) EXCEPT !.source = "malformed"]>>,
     v2 |-> <<Export("z", RefersTwice("x", "y")), Export("y", Refers("x", {"a"})), Export("x", Leaf),
              [Export("w", Wide({"a"})) EXCEPT !.wellFormed = FALSE]>>,
     bad |-> <<Export("x", Wide({"a"}))>>,
     loop |-> <<Export("x", Chain(<<"y", "z">>)), Export("y", Chain(<<"z">>)),
                Export("z", Chain(<<"x">>))>>]

MCKnowledgeExports == [k1 |-> {"c"}, k2 |-> {}]
MCCatalogs == [c1 |-> {"a", "b"}, c2 |-> {"a"}]
(* A deployment may change the model, the dimension, or both.              *)
MCDeployments == [model : {"m1", "m2"}, dim : {1, 2}]
MCStaged == {"s", "z"}
MCScopes == {{}, {"a"}, {"b"}}
=============================================================================
