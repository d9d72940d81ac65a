---------------------------- MODULE MCLoopScenes ----------------------------
(* LearningLoop with two sweepers and two consumers, where either two      *)
(* consumers race over reclaimed messages of a stream that is not trimmed, *)
(* or two sweepers race while documents and keys expire and the stream is  *)
(* trimmed.                                                                *)
EXTENDS MCLearningLoop

Swept == {w \in Sweepers : todo[w] # {} \/ swept[w] # NoSession}
Consumed == {c \in Consumers : inbox[c] # {} \/ cur[c] # NoDelivery}

TwoConsumers ==
    /\ Cardinality(Swept) <= 1
    /\ expiries = 0 /\ keyExpiries = 0
    /\ \A s \in Sessions : edits[s] + faults <= 2
    /\ \A m \in Msg : mstate[m] # "trimmed"

TwoSweepers ==
    /\ Cardinality(Consumed) <= 1
    /\ \A s \in Sessions : edits[s] <= 1
    /\ \A m \in Msg : count[m] <= 1
    /\ faults + expiries + keyExpiries <= 2

OnScene == TwoConsumers \/ TwoSweepers
============================================================================
