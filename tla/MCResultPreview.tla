-------------------------- MODULE MCResultPreview --------------------------
EXTENDS ResultPreview

Column(tenancy, structural, skeleton, full) ==
    [tenancy |-> tenancy, structural |-> structural, skeleton |-> skeleton, full |-> full]

ColumnSpecs == {Column(TRUE, FALSE, 1, 2), Column(FALSE, TRUE, 1, 3), Column(FALSE, FALSE, 1, 4),
            Column(FALSE, FALSE, 1, 2), Column(FALSE, FALSE, 1, 1)}

MCSchemas == [1..4 -> ColumnSpecs]
MCCardLists == [1..3 -> 1..3]
MCScores(n) == {[i \in 1..n |-> 0], [i \in 1..n |-> i],
                [i \in 1..n |-> IF i = 1 THEN 0 ELSE 1]}
=============================================================================
