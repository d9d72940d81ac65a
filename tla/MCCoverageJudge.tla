--------------------------- MODULE MCCoverageJudge ---------------------------
EXTENDS CoverageJudge

Card(id, tier, similarity, matched, twin) ==
    [id |-> id, tier |-> tier, origin |-> "graph", similarity |-> similarity,
     matched |-> matched, twin |-> twin]

(* A canon blueprint, a second node with its id, what idea k2 lands as, and *)
(* a card whose likeness says nothing.                                      *)
MCCards ==
    {Card(LandedAs("canon"), "mcp", 2, TRUE, "k2"), Card(LandedAs("canon"), "unsourced", 1, TRUE, Nothing),
     Card(LandedAs("k2"), "learning", 4, TRUE, "k1")}

MCAnswers ==
    {[verdict |-> "duplicate", by |-> LandedAs("canon"), confidence |-> 1],
     [verdict |-> "duplicate", by |-> CandidateId("s1"), confidence |-> 2],
     [verdict |-> "delta", by |-> LandedAs("canon"), confidence |-> 2],
     [verdict |-> "duplicate", by |-> LandedAs("canon"), confidence |-> 90]}

MCDerives == [s \in Sessions |-> IF s = "s1" THEN {"k1"} ELSE {"k1", "k2"}]

Lenient == [pre |-> 1, post |-> 1, shadow |-> FALSE]
MCConfigs == {Lenient, [Lenient EXCEPT !.pre = 2, !.post = 2], [Lenient EXCEPT !.shadow = TRUE]}

\* The graph starts whole, or with one canon node.
MCInit ==
    /\ JInit
    /\ config = Lenient
    /\ graph \in {Cards, {c \in Cards : c.tier = "mcp"}}
MCSpec == MCInit /\ [][JNext]_jvars
=============================================================================
