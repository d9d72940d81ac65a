----------------------------- MODULE MCLiveness -----------------------------
(* Two things that must eventually happen, in one run: a demoted artifact  *)
(* leaves recall (CandidateReview), and a request of a turn is answered    *)
(* although another one is in flight (AgentTurn).  A behaviour is about    *)
(* one of the two; the other one stays in an initial state.                *)
EXTENDS CandidateReview

VARIABLES
    part,
    last, cp, ledger, claims, trail, b, nudges, turnRequests, errors, aborts

turnVars == <<last, cp, ledger, claims, trail, b, nudges, turnRequests, errors, aborts>>

Requests == {"p1", "p2"}

(* Two requests on the same or different windows of one turn, and one      *)
(* store call that raises or one request that dies.                        *)
Turn ==
    INSTANCE AgentTurn WITH
        Procs <- Requests, Intents <- {"i1"}, Texts <- {"plain"}, JudgeOn <- FALSE,
        MaxIterations <- 1, MaxWindows <- 2, MaxStateCalls <- 1, MaxToolCalls <- 1,
        MaxTurns <- 1, MaxRequests <- 2, MaxErrors <- 1, MaxAborts <- 1,
        requests <- turnRequests

ReviewRests == kind = [c \in Cands |-> "blueprint"] /\ serial = TRUE /\ Init

LivenessInit ==
    \/ part = "review" /\ Init /\ Turn!Init
    \/ part = "turn" /\ ReviewRests /\ Turn!Init

Reviewing(action) == part = "review" /\ action /\ UNCHANGED <<part, turnVars>>
Turning(action) ==
    part = "turn" /\ action /\ errors' + aborts' <= 1 /\ UNCHANGED <<part, vars>>

allVars == <<part, vars, turnVars>>

LivenessSpec ==
    /\ LivenessInit /\ [][Reviewing(Next) \/ Turning(Turn!Next)]_allVars
    /\ WF_allVars(Reviewing(CronCycle))
    /\ \A p \in Procs : WF_allVars(Reviewing(JobStep(p)))
    /\ \A p \in Requests : WF_allVars(Turning(Turn!Step(p)))

(* A request that was made is answered: it ends or it pauses.              *)
EventuallyAnswered == Turn!EventuallyAnswered
=============================================================================
