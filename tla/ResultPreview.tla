--------------------------- MODULE ResultPreview ---------------------------
(***************************************************************************)
(* What the model is shown of a table's schema or of a list of cards that  *)
(* does not fit its budget (dispatch/schema_preview, tool_dispatcher).  A  *)
(* schema descends a ladder: complete; every column as a skeleton, then    *)
(* upgraded one by one while the payload with its marker still fits; last, *)
(* columns left out.  Cards are a prefix.  Sizes are numbers of tokens;    *)
(* the words behind a relevance score are left out.                        *)
(***************************************************************************)
EXTENDS Naturals, SequencesExt, Positions

CONSTANTS
    Schemas,        \* sequences of columns [tenancy, structural, skeleton, full]
    CardLists,      \* sequences of card sizes
    Budgets,        \* token budgets
    Scores(_)       \* the scores a question may give n columns

\* A compacted column, and what is left of it at name and type.
ColumnEntry == [tenancy : BOOLEAN, structural : BOOLEAN, skeleton : Nat, full : Nat]

\* A skeleton is a part of its column.
ASSUME PreviewAssumption ==
    /\ Schemas \subseteq Seq(ColumnEntry) /\ CardLists \subseteq Seq(Nat)
    /\ \A columns \in Schemas : \A i \in DOMAIN columns : columns[i].skeleton <= columns[i].full
    /\ Budgets \subseteq Nat

VARIABLES
    rungs,          \* complete, upgrade, admit, listed; cards, capped
    schema,         \* the columns the model may see, in the table's order
    cap,            \* the budget
    rank,           \* the columns in relevance order (_rank_columns)
    detailed,       \* columns in their full form
    front,          \* columns emitted first
    todo,           \* columns still to try on this rung
    out,            \* what is emitted, in order
    note            \* the marker: [listed, total, reduced, omitted], or None

pvars == <<rungs, schema, cap, rank, detailed, front, todo, out, note>>

None == [listed |-> 0, total |-> 0, reduced |-> 0, omitted |-> 0]

\* Pre-applied by the platform: never shown, whatever the budget.
VisibleOf(columns) == Pick(columns, {i \in DOMAIN columns : ~columns[i].tenancy})

All == 1..Len(schema)

\* The skeleton already says everything.
Bare == {i \in All : schema[i].skeleton = schema[i].full}

\* Named by the schema's own primary key or join keys.
Structural == {i \in All : schema[i].structural}

\* Mutant: the columns left out are counted as shown without documentation.
MarkerOfAll(listed, full) ==
    [listed |-> Cardinality(listed), total |-> Len(schema),
     reduced |-> Cardinality(All \ full),
     omitted |-> Len(schema) - Cardinality(listed)]

MarkerOf(listed, full) ==
    [listed |-> Cardinality(listed), total |-> Len(schema),
     reduced |-> Cardinality(listed \ full),
     omitted |-> Len(schema) - Cardinality(listed)]

\* The marker is measured with the payload; each clause costs when it is said.
MarkerSize(marker) ==
    1 + (IF marker.omitted > 0 THEN 1 ELSE 0) + (IF marker.reduced > 0 THEN 1 ELSE 0)

\* The tokens of the forms that are listed, one by one.
FormSize(i, full) == IF i \in full THEN schema[i].full ELSE schema[i].skeleton
SizeOf(listed, full) ==
    Cardinality(UNION {{<<i, n>> : n \in 1..FormSize(i, full)} : i \in listed})

Fits(listed, full) ==
    SizeOf(listed, full) + MarkerSize(MarkerOf(listed, full)) <= cap

\* All columns by score, ties in the table's order; no question scores nothing.
Precedes(score, i, j) == score[i] > score[j] \/ (score[i] = score[j] /\ i < j)
RankColumns(score) ==
    {r \in [All -> All] :
        /\ \A i \in All : \E k \in All : r[k] = i
        /\ \A k, l \in All : k < l => Precedes(score, r[k], r[l])}

Ranked(these) == Pick(rank, {k \in DOMAIN rank : rank[k] \in these})
RestRanked(these) == Ranked(All \ these)

\* The front in relevance order, then the rest in the table's order.
Emitted(listed, first) ==
    Ranked(listed \cap first)
    \o InOrder(listed \ first)

-----------------------------------------------------------------------------
PInit ==
    /\ detailed = {} /\ front = {} /\ todo = <<>> /\ out = <<>> /\ note = None
    /\ \/ /\ rungs = "complete"
          /\ \E columns \in Schemas : schema = VisibleOf(columns)
          /\ \E score \in Scores(Len(schema)) : rank \in RankColumns(score)
       \/ rungs = "cards" /\ schema \in CardLists /\ rank = <<>>
    /\ cap \in Budgets

\* Compacting loses nothing: a schema that fits carries no marker.
Complete ==
    /\ rungs = "complete"
    /\ SizeOf(All, All) <= cap
    /\ rungs' = "listed"
    /\ detailed' = All
    /\ out' = [i \in All |-> i]
    /\ UNCHANGED <<schema, cap, rank, front, todo, note>>

\* The keys are tried first, then the columns the question is about.
Skeletons ==
    /\ rungs = "complete"
    /\ SizeOf(All, All) > cap
    /\ rungs' = "upgrade"
    /\ detailed' = Bare
    /\ front' = Structural
    /\ todo' = Ranked(Structural \ Bare) \o RestRanked(Structural \cup Bare)
    /\ UNCHANGED <<schema, cap, rank, out, note>>

\* An entry that does not fit is put back and the next one is tried.
Upgrade ==
    /\ rungs = "upgrade" /\ todo # <<>>
    /\ todo' = Tail(todo)
    /\ IF Fits(All, detailed \cup {Head(todo)})
       THEN detailed' = detailed \cup {Head(todo)} /\ front' = front \cup {Head(todo)}
       ELSE UNCHANGED <<detailed, front>>
    /\ UNCHANGED <<rungs, schema, cap, rank, out, note>>

Upgraded ==
    /\ rungs = "upgrade" /\ todo = <<>>
    /\ IF Fits(All, detailed)
       THEN /\ rungs' = "listed"
            /\ out' = Emitted(All, front)
            /\ note' = MarkerOf(All, detailed)
            /\ UNCHANGED todo
       ELSE /\ rungs' = "admit"
            /\ todo' = Ranked(front) \o RestRanked(front)
            /\ UNCHANGED <<out, note>>
    /\ UNCHANGED <<schema, cap, rank, detailed, front>>

\* Not even the skeletons fit: admitted in order up to the first that does not.
Admit ==
    /\ rungs = "admit"
    /\ LET First(n) == {todo[i] : i \in 1..n}
           most == CHOOSE n \in 0..Len(todo) :
                      /\ \A m \in 1..n : Fits(First(m), detailed)
                      /\ n = Len(todo) \/ ~Fits(First(n + 1), detailed)
       IN  /\ out' = Emitted(First(most), front)
           /\ note' = MarkerOf(First(most), detailed)
    /\ rungs' = "listed"
    /\ UNCHANGED <<schema, cap, rank, detailed, front, todo>>

\* Cards keep the best-scoring prefix, and the count that rides with them
\* is the count of what is shown.
CardsSize(n) == FoldSeq(LAMBDA card, sum : card + sum, 0, SubSeq(schema, 1, n))

CapCards ==
    /\ rungs = "cards"
    /\ LET most == CHOOSE n \in 0..Len(schema) :
                      /\ \A m \in 1..n : CardsSize(m) <= cap
                      /\ n = Len(schema) \/ ~(CardsSize(n + 1) <= cap)
       IN  /\ out' = [i \in 1..most |-> i]
           /\ note' = IF most = Len(schema) THEN None
                      ELSE [listed |-> most, total |-> Len(schema), reduced |-> 0,
                            omitted |-> Len(schema) - most]
    /\ rungs' = "capped"
    /\ UNCHANGED <<schema, cap, rank, detailed, front, todo>>

PNext == Complete \/ Skeletons \/ Upgrade \/ Upgraded \/ Admit \/ CapCards

PSpec == PInit /\ [][PNext]_pvars

-----------------------------------------------------------------------------
Shown == {out[i] : i \in 1..Len(out)}

\* What is returned is what was measured: within the budget with its marker,
\* or nothing at all is listed (schema_preview.py §5).
WithinBudget ==
    rungs = "listed" =>
        \/ SizeOf(Shown, detailed) + (IF note = None THEN 0 ELSE MarkerSize(note)) <= cap
        \/ Shown = {}

\* The marker tells exactly what is missing: every column or card left out
\* and every column without its documentation, and no marker says otherwise.
MarkerIsTrue ==
    rungs \in {"listed", "capped"} =>
        LET reduced == IF rungs = "capped" THEN {} ELSE Shown \ detailed IN
        /\ Len(out) = Cardinality(Shown)
        /\ (note = None) => Shown = 1..Len(schema) /\ reduced = {}
        /\ (note # None) => /\ note.listed = Cardinality(Shown)
                            /\ note.omitted = Len(schema) - Cardinality(Shown)
                            /\ note.reduced = Cardinality(reduced)

\* A key column is left out only when no other column is listed: without it
\* the table can be neither joined nor de-duplicated.
KeysGoLast ==
    rungs = "listed" /\ ~(Structural \subseteq Shown) => Shown \subseteq Structural

\* Columns are left out only if their skeletons could not all be listed.
OmittedLast == rungs = "listed" /\ Shown # All => ~Fits(All, Bare)

\* The packing is dense: no column left without documentation could have had
\* it beside the others (two or more of them: the last one also removes the
\* marker's clause about them).
PackedDense ==
    rungs = "listed" /\ Shown = All /\ Cardinality(All \ detailed) > 1 =>
        \A i \in All \ detailed : ~Fits(All, detailed \cup {i})

\* The preview tells the truth about a schema it had to cut: within the
\* budget, nothing missing unsaid, and cut in the order promised.
PreviewHonest == WithinBudget /\ MarkerIsTrue /\ KeysGoLast /\ OmittedLast /\ PackedDense
=============================================================================
