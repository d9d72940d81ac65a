-------------------------- MODULE MCBlueprintRun --------------------------
(* Blueprints small enough to check, chosen so that every gate, every kind *)
(* of slot and output and every way to pause occurs.                       *)
EXTENDS BlueprintRun

Filter(toks) == [toks |-> toks, place |-> "filter"]
SqlOf(sites) == [NoSql EXCEPT !.form = "select", !.sites = sites, !.outs = {<<"dept", "lc">>}]
Sql(toks) == SqlOf({Filter({k}) : k \in toks})
Clause(test, ref, ov) ==
    [any |-> FALSE, atoms |-> <<[test |-> test, ref |-> ref, neg |-> FALSE]>>, ov |-> ov]
Step(feeds, sql) ==
    [feeds |-> feeds, gate |-> FALSE, when |-> NoClause, sql |-> sql, out |-> "none",
     scalars |-> {}, tables |-> {}, ref |-> "none"]
SlotOf(name, type) ==
    [name |-> name, type |-> type, required |-> TRUE, pattern |-> "none", binds |-> "none",
     values |-> {}, lo |-> 0, hi |-> 0]
SlotP == [SlotOf("p", "period") EXCEPT !.binds = "c"]
SlotQ == [SlotOf("q", "string") EXCEPT !.required = FALSE, !.pattern = "condition"]
P == <<"p", "">>
Q == <<"q", "">>
NoGrain == [cols |-> {}, verifiable |-> TRUE]
ByDept == [cols |-> {<<"dept", "uc">>}, verifiable |-> TRUE]
ByTeam == [cols |-> {<<"team", "lc">>}, verifiable |-> TRUE]
Bp(nodes, slots, grain) ==
    [nodes |-> nodes, sql |-> NoSql, slots |-> slots, rules |-> <<>>, grain |-> grain,
     uses |-> {"c"}]
OneStep(slots, sql) == Bp([o \in 1..1 |-> Step({}, sql)], slots, NoGrain)

(* A scalar, an approval gate, a query that binds the scalar.              *)
Approve ==
    Bp([o \in 1..3 |->
          CASE o = 1 -> [Step({}, Sql({P})) EXCEPT !.out = "scalar"]
            [] o = 2 -> [Step({1}, NoSql) EXCEPT !.gate = TRUE]
            [] OTHER -> [Step({1, 2}, Sql({})) EXCEPT !.scalars = {1}]],
       <<SlotP>>, ByDept)

(* Two gates that run their own query, and clauses over scalars.           *)
Clauses(ov) ==
    Bp([o \in 1..3 |->
          CASE o = 1 -> [Step({}, Sql({Q})) EXCEPT !.out = "scalar"]
            [] o = 2 -> [Step({1}, Sql({})) EXCEPT !.out = "scalar", !.when = Clause("value", 1, ov)]
            [] OTHER -> [Step({2}, Sql({Q})) EXCEPT !.gate = TRUE,
                            !.when = [Clause("value", 2, ov) EXCEPT !.any = (ov = "ask")]]],
       <<SlotQ>>, NoGrain)

(* A table intermediate with a gate on the way.                            *)
Table(gate) ==
    Bp([o \in 1..2 |->
          CASE o = 1 -> [Step({}, Sql({})) EXCEPT !.out = "table"]
            [] OTHER -> [Step({1}, Sql({})) EXCEPT !.sql.scratch = {1}, !.tables = {1},
                                                  !.gate = gate]],
       <<>>, ByTeam)

Leaf == [Bp(<<>>, <<SlotP>>, ByDept) EXCEPT !.sql = Sql({P, <<"r", "">>}),
                                            !.rules = (<<"r", "">> :> "c")]
Poisoned == OneStep(<<SlotP>>, [Sql({P}) EXCEPT !.form = "dml"])
Broken == Bp([o \in 1..1 |-> [Step({}, [Sql({}) EXCEPT !.form = "broken"]) EXCEPT
                                !.when = Clause("empty", 2, "skip")]], <<>>, NoGrain)
Unused == OneStep(<<SlotQ>>, [Sql({}) EXCEPT !.form = "broken"])

(* Every other slot type; a predicate that two bind sites share, one that  *)
(* is negated.                                                             *)
Typed(s) == OneStep(<<s>>, Sql(SlotTokens(s)))
Shared ==
    OneStep(<<SlotQ, SlotOf("w", "window")>>, SqlOf({Filter({Q, <<"w", "">>})}))
Negated == OneStep(<<SlotQ>>, SqlOf({[toks |-> {Q}, place |-> "not"]}))

MCCatalog ==
    {Approve, Leaf, Poisoned, Broken, Unused, Shared, Negated, Table(TRUE), Table(FALSE)}
      \cup {Clauses(ov) : ov \in {"skip", "abort", "ask"}}
      \cup {Typed(s) : s \in {[SlotOf("s", "string") EXCEPT !.binds = "c"],
                              [SlotOf("l", "list") EXCEPT !.binds = "c"],
                              [SlotOf("n", "enum") EXCEPT !.values = {<<"may", "lc">>}],
                              [SlotOf("n", "enum") EXCEPT !.binds = "c"],
                              SlotOf("w", "window"), SlotOf("g", "range")}}

Word(stem, casing) == [Absent EXCEPT !.kind = "word", !.word = <<stem, casing>>]
Day(k) == [shape |-> "date", real |-> TRUE, at |-> k]
MCRaws ==
    {Absent, Word("may", "uc"), [Word("latest", "lc") EXCEPT !.kind = "deictic"],
     [Word("2", "") EXCEPT !.kind = "digits", !.n = 2],
     [Word("9", "") EXCEPT !.kind = "int", !.n = 9],
     [Word("[may]", "") EXCEPT !.kind = "list", !.items = <<Word("may", "uc")>>],
     [Word("range", "") EXCEPT !.kind = "pair", !.bounds = <<Day(1), Day(2)>>],
     [Word("range", "") EXCEPT !.kind = "pair", !.bounds = <<Day(2), Day(1)>>]}
MCDomains == {{}, {<<"may", "lc">>}, {<<"may", "lc">>, <<"may", "mc">>}, {<<"may", "uc">>, <<"may", "lc">>}}
MCRankings == {<<>>, <<1>>, <<6, 5>>, <<6, 3>>, <<4, 3, 2>>}

===========================================================================
