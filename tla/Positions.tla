----------------------------- MODULE Positions -----------------------------
(* A list comprehension of the code, [x for x in xs if p(x)], by the       *)
(* positions it keeps.                                                     *)
EXTENDS Integers, Sequences, FiniteSets

(* The numbers of a finite set, smallest first: the k-th has k - 1 below.  *)
InOrder(S) ==
    [k \in 1..Cardinality(S) |->
        CHOOSE i \in S : Cardinality({j \in S : j < i}) = k - 1]

(* The items of a sequence at some of its positions, in their order.       *)
Pick(s, S) == [k \in DOMAIN InOrder(S) |-> s[InOrder(S)[k]]]
=============================================================================
