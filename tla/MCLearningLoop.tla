--------------------------- MODULE MCLearningLoop ---------------------------
(* Model-checking instances of LearningLoop; the bounds are in the .cfg    *)
(* files.                                                                  *)
EXTENDS LearningLoop, TLC

Symmetry == Permutations(Sessions) \cup Permutations(Consumers) \cup Permutations(Sweepers)
============================================================================
