---------------------------- MODULE MCGeneralize ----------------------------
(* Plans over queries that repeat, list, range over and lack a literal, on *)
(* references with one designation or two, and small DAGs of them.         *)
EXTENDS Generalize

Cmp(column, op, values) ==
    [column |-> column, cols |-> {column}, op |-> op, located |-> TRUE,
     lits |-> [i \in DOMAIN values |-> Literal(values[i])]]
Select(cmps, reads) ==
    [parses |-> TRUE, form |-> "select", cmps |-> cmps, reads |-> reads, canonical |-> TRUE]

IsDone    == Cmp("status", "=", <<"done">>)
IsOpen    == Cmp("status", "=", <<"open">>)
Countries == Cmp("country", "IN", <<"us", "fr">>)
Between   == [Cmp("day", "BETWEEN", <<"d1", "d2">>) EXCEPT !.located = FALSE]
Wrapped   == [Cmp("day", "=", <<"us">>) EXCEPT !.cols = {"day", "country"}]

Done       == Select(<<IsDone>>, {"s"})
DoneIn     == Select(<<IsDone, Countries>>, {"s", "c"})
DoneTwice  == Select(<<IsDone, Countries, IsDone>>, {"s", "c"})
DoneOrOpen == Select(<<IsDone, IsOpen>>, {"s"})
Ranged     == Select(<<Between, Wrapped>>, {"s"})

MCDesignated ==
    [one |-> <<DoneIn>>, covered |-> <<Done, DoneIn>>, narrowed |-> <<DoneIn, Done>>,
     twice |-> <<DoneTwice>>, both |-> <<DoneOrOpen>>, ranged |-> <<Ranged>>, done |-> <<Done>>,
     garbled |-> <<Done, [NoQuery EXCEPT !.form = "broken"]>>, dict |-> <<[Done EXCEPT !.form = "dict"]>>,
     unknown |-> <<[Done EXCEPT !.reads = {"gone"}]>>, odd |-> <<[Done EXCEPT !.canonical = FALSE]>>]

NoSlot == [name |-> "", type |-> "string", required |-> TRUE, pattern |-> "none", binds |-> "s",
           values |-> {}, lo |-> 0, hi |-> 0]
PlanEntry(role, column, value, name) ==
    [role |-> role, column |-> column, value |-> value, slot |-> [NoSlot EXCEPT !.name = name]]

PlanEntries ==
    {PlanEntry("slot", "status", <<"done">>, "p"), PlanEntry("slot", "status", <<"open">>, "p"),
     PlanEntry("slot", "status", <<"open">>, "q"), PlanEntry("slot", "status", <<"done">>, ""),
     PlanEntry("rule", "status", <<"done">>, ""), PlanEntry("inline", "status", <<"done">>, ""),
     PlanEntry("inline", "country", <<"us", "fr">>, ""), PlanEntry("inline", "day", <<"d1", "d2">>, ""),
     PlanEntry("slot", "country", <<"us">>, "c")}

PlanOf(kind, refs, entries, composes) ==
    [kind |-> kind, shape |-> "good", refs |-> refs, entries |-> entries, composes |-> composes]
Compose(order, toolRef, feeds) ==
    [order |-> order, toolRef |-> toolRef, feeds |-> feeds, gate |-> FALSE, when |-> NoClause,
     out |-> "none", scalars |-> {}, tables |-> {}]

Singles ==
    {PlanOf("single", refs, entries, <<>>) :
       refs \in {<<ref>> : ref \in DOMAIN MCDesignated} \cup {<<>>, <<"lost">>, <<"both", "done">>, <<"done", "both">>, <<"one", "lost">>},
       entries \in SeqOf(PlanEntries, 2)}

Dags ==
    LET first == Compose(1, "one", {})
        next  == Compose(2, "done", {1})
    IN  {<<>>, <<first, next>>, <<next, first>>, <<first, first>>, <<first, [next EXCEPT !.feeds = {2}]>>,
         <<first, [next EXCEPT !.toolRef = "none"]>>, <<[first EXCEPT !.feeds = {2}], next>>,
         <<[first EXCEPT !.out = "scalar"], [next EXCEPT !.scalars = {1}]>>,
         <<[first EXCEPT !.out = "table"], [next EXCEPT !.tables = {1}]>>,
         <<[first EXCEPT !.out = "table"], next>>, <<first, [next EXCEPT !.scalars = {1}]>>,
         <<first, [next EXCEPT !.when = [NoClause EXCEPT !.ov = "ask"]]>>,
         <<first, [next EXCEPT !.toolRef = "both"]>>, <<first, [next EXCEPT !.toolRef = "ranged"]>>}

Composites ==
    {PlanOf("composite", <<"one", "done">>, entries, composes) :
       entries \in SeqOf(PlanEntries, 2), composes \in Dags}

Misshapen ==
    {[PlanOf("single", <<"one">>, <<>>, <<>>) EXCEPT !.shape = shape] : shape \in {"composes", "entries"}}

MCPlans == Singles \cup Composites \cup Misshapen
=============================================================================
