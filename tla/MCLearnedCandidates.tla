------------------------- MODULE MCLearnedCandidates -------------------------
(* What becomes of a learned candidate, in one run: what the loop reads    *)
(* from the session it comes from (SessionSummary), whether the judge and  *)
(* the hard key let it through (CoverageJudge), and its life in the stores *)
(* up to its landing or rejection (CandidateReview).  A behaviour is one   *)
(* of the three; the other ones stay in one of their initial states.       *)
EXTENDS CandidateReview, MCCoverageJudge, MCSessionSummary

VARIABLE part

ReviewRests == kind = [c \in Cands |-> "blueprint"] /\ serial = TRUE /\ Init
JudgeRests  == config = Lenient /\ graph = Cards /\ JInit

LearnedInit ==
    /\ SummaryInit
    /\ \/ part = "judge" /\ MCInit /\ ReviewRests
       \/ part = "review" /\ Init /\ JudgeRests
       \/ part = "summary" /\ ReviewRests /\ JudgeRests

(* Not every bound at once: a change goes with two deliveries, and a       *)
(* failing call with three of the runs and requests.                       *)
WithinSums ==
    /\ deliveries + changes <= 3
    /\ \A c \in Cands : runs[c] + requests + faults <= 4

LearnedNext ==
    /\ \/ part = "judge" /\ JNext /\ UNCHANGED <<vars, svars>>
       \/ part = "review" /\ Next /\ UNCHANGED <<jvars, svars>>
       \/ part = "summary" /\ SummaryNext /\ UNCHANGED <<vars, jvars>>
    /\ WithinSums'

LearnedSpec == LearnedInit /\ [][LearnedNext /\ UNCHANGED part]_<<part, vars, jvars, svars>>
=============================================================================
