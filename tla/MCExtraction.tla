--------------------------- MODULE MCExtraction ---------------------------
EXTENDS Extraction

P(column, operator, values) ==
    [table |-> "alias", column |-> column, operator |-> operator, values |-> values]

Status  == P("status", "=", {"done"})
Country == P("country", "IN", {"us", "fr"})
Late    == P("status", "!=", {"done"})

MCSqlByRef == [call1 |-> {{Status, Country}}, call2 |-> {{Status}, {Late}},
               call3 |-> {Unparsed}, call4 |-> {}]

MCCatalog ==
    {[id |-> "done_orders", table |-> "orders",
      declares |-> [Status EXCEPT !.table = "orders"]],
     [id |-> "us_orders", table |-> "orders",
      declares |-> [P("country", "=", {"us"}) EXCEPT !.table = "orders"]],
     [id |-> "recent", table |-> "visits", declares |-> Unparsed]}

MCWords ==
    [done_orders |-> [spelling |-> "done_orders", concept |-> {"done", "order"}, polarity |-> {}],
     us_orders |-> [spelling |-> "us_orders", concept |-> {"us", "order"}, polarity |-> {}],
     recent |-> [spelling |-> "recent", concept |-> {"recent"}, polarity |-> {}],
     doneOrder |-> [spelling |-> "done_order", concept |-> {"done", "order"}, polarity |-> {}],
     not_done |-> [spelling |-> "not_done", concept |-> {"done"}, polarity |-> {"not"}]]

Entry(pred, role, rule, fault) ==
    [table |-> "orders", column |-> pred.column, values |-> pred.values,
     role |-> role, rule |-> rule, fault |-> fault]

Blueprint(refs, entries) ==
    [type |-> "blueprint", evidence |-> {"good"}, misshapen |-> {},
     broken |-> {}, accepted |-> TRUE, refs |-> refs, entries |-> entries]

ByRule(id)  == Entry(Status, "rule", id, "none")
CountrySlot == Entry(Country, "slot", "none", "none")

Good == Blueprint({"call1"}, <<ByRule("done_orders"), CountrySlot>>)

Raws ==
    {Good,
     Blueprint({"call1"}, <<ByRule("doneOrder"), CountrySlot>>),
     Blueprint({"call1"}, <<ByRule("not_done"), CountrySlot>>),
     Blueprint({"call1"}, <<ByRule("done_orders")>>),
     Blueprint({"call1", "call2"}, <<ByRule("done_orders"), CountrySlot>>),
     Blueprint({"call3", "call1"}, <<ByRule("done_orders"), CountrySlot>>),
     Blueprint({"call1"}, <<ByRule("us_orders"), Entry(Country, "slot", "none", "no_binds_to")>>),
     Blueprint({"call1"}, <<Entry(Status, "inline", "none", "none"),
                            Entry(Country, "rule", "recent", "none")>>),
     [Blueprint({}, <<>>) EXCEPT !.type = "global_knowledge", !.evidence = {"good", "bad"}],
     [Blueprint({}, <<>>) EXCEPT !.type = "schema_edit", !.evidence = {"bad"}],
     [Good EXCEPT !.misshapen = {"result_signature"}],
     [Good EXCEPT !.broken = {"header"}]}

\* Every candidate alone, and after one that passes.
MCEmissions == {<<>>} \cup {<<a>> : a \in Raws} \cup {<<Good, a>> : a \in Raws}
=============================================================================
