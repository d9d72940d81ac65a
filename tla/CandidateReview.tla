--------------------------- MODULE CandidateReview ---------------------------
(***************************************************************************)
(* The life of learned candidates after extraction: the consumer's write   *)
(* pipeline, the promotion scheduler's cron cycle, the reviewers' requests *)
(* to the inbox, and the three stores they share without a lock: the       *)
(* candidate rows, the landed graph nodes and the corpus artifacts.        *)
(* A job is the list of the awaits it has still to do; each await is one   *)
(* step, and between two of them the other processes move.                 *)
(***************************************************************************)
EXTENDS Naturals, Sequences

CONSTANTS
    Cands,        \* candidate ids, each of a session of its own
    Keys,         \* canonical keys S6 may mint
    Reviewers,    \* inbox requests in flight at the same time
    Threshold,    \* blueprint_hit_threshold; hit counts are capped here
    MaxRuns,      \* bound: extraction runs of a candidate's session
    MaxRequests,  \* bound: inbox requests and user corrections
    MaxFaults     \* bound: store calls that raise, crashes, TTL expiries

Cron == "cron"
Consumer == "consumer"
NoKey == "no key"
NoCand == "no candidate"

ASSUME ReviewAssumption ==
    /\ Threshold \in Nat \ {0}
    /\ MaxRuns \in Nat
    /\ MaxRequests \in Nat
    /\ MaxFaults \in Nat
    /\ Cron \notin Reviewers /\ Consumer \notin Reviewers
    /\ NoKey \notin Keys
    /\ NoCand \notin Cands
    /\ Keys \cap Cands = {}

Procs == Reviewers \cup {Cron, Consumer}

(* "form" is a blueprint the extractor declined and a reviewer completes;  *)
(* it has an id of its own (mint_review_candidate_id).                     *)
Kinds == {"blueprint", "form", "knowledge", "schema"}

Statuses == {"none", "extracted", "candidate", "in_review",
             "needs_parameterization", "validated", "rejected", "retired",
             "promoted"}
Transient == {"extracted", "candidate", "in_review", "needs_parameterization"}
Ended == {"rejected", "retired", "promoted"}

(* CandidateEnvelope.  run is the extraction run its payload comes from,   *)
(* text whether the payload has an entity, scan the S5 verdict ("found":   *)
(* with spans, "blind": without, "masked": spans blanked by the strip),    *)
(* static the S4 outcome, flagged the route_reason user_corrected.         *)
Envelope ==
    [status : Statuses, run : 0..MaxRuns, text : {"plain", "entity"},
     scan : {"pending", "pass", "found", "blind", "masked"},
     static : BOOLEAN, key : Keys \cup {NoKey},
     drift : {"unchecked", "clean", "suspect", "corrected"},
     verified : BOOLEAN, flagged : BOOLEAN]

NoRow == [status |-> "none", run |-> 0, text |-> "plain",
          scan |-> "pending", static |-> FALSE, key |-> NoKey,
          drift |-> "unchecked", verified |-> FALSE, flagged |-> FALSE]

(* A landed :Blueprint or :KnowledgeChunk; run 0 when there is none.       *)
Node == [status : Statuses, suspect : BOOLEAN, verified : BOOLEAN,
         text : {"plain", "entity"}, cand : Cands \cup {NoCand},
         run : 0..MaxRuns]

NoNode == [status |-> "none", suspect |-> FALSE, verified |-> FALSE,
           text |-> "plain", cand |-> NoCand, run |-> 0]

Ids == Keys \cup Cands

Steps == {"supersede", "put", "pipeline", "bump", "seed", "guard", "node",
          "deps", "replay", "stamp", "count", "reget", "land", "art", "mark"}

Ops == {"extract", "advance", "recheck", "approve", "reject", "retract",
        "verify", "promote", "correct", "complete"}

Idle == [op |-> "none", cand |-> NoCand, env |-> NoRow, steps |-> <<>>]

VARIABLES
    kind,      \* what each candidate is
    serial,    \* do the promotion writers take turns (scheduler.py:946)?
    row,       \* learning_candidates: the stored envelope of each id
    node,      \* the graph: the landed node of each landing id
    art,       \* learning_corpus: the artifact of each canonical key
    job,       \* what each process is doing
    phase,     \* where the cron cycle is: "idle", "validated" or "work"
    work,      \* the snapshots the cycle has still to examine
    runs,      \* extraction runs of each candidate's session so far
    requests, faults,
    approved   \* history: runs of each candidate a human approved

stores == <<row, node, art>>
vars == <<kind, serial, stores, job, phase, work, runs, requests, faults,
          approved>>

TypeOK ==
    /\ kind \in [Cands -> Kinds]
    /\ serial \in BOOLEAN
    /\ row \in [Cands -> Envelope]
    /\ node \in [Ids -> Node]
    /\ art \in [Keys -> [hits : 0..Threshold, dead : BOOLEAN]]
    /\ job \in [Procs -> [op : Ops \cup {"none"}, cand : Cands \cup {NoCand},
                          env : Envelope, steps : Seq(Steps)]]
    /\ phase \in {"idle", "validated", "work"}
    /\ work \in SUBSET [cand : Cands, env : Envelope]
    /\ runs \in [Cands -> 0..MaxRuns]
    /\ requests \in 0..MaxRequests
    /\ faults \in 0..MaxFaults
    /\ approved \in [Cands -> SUBSET (1..MaxRuns)]

Init ==
    /\ kind \in [Cands -> Kinds]
    /\ serial \in BOOLEAN
    /\ row = [c \in Cands |-> NoRow]
    /\ node = [i \in Ids |-> NoNode]
    /\ art = [k \in Keys |-> [hits |-> 0, dead |-> FALSE]]
    /\ job = [p \in Procs |-> Idle]
    /\ phase = "idle"
    /\ work = {}
    /\ runs = [c \in Cands |-> 0]
    /\ requests = 0
    /\ faults = 0
    /\ approved = [c \in Cands |-> {}]

---------------------------------------------------------------------------
IsBlueprint(c) == kind[c] \in {"blueprint", "form"}

(* landing_id: by canonical key, by candidate id when S6 minted none.      *)
LandingId(c, e) == IF e.key = NoKey THEN c ELSE e.key

(* Mutant: any settled verdict will do.                                    *)
ActionableSettled(e) == e.scan # "pending"

(* _entity_scan_is_clean and _entity_scan_is_actionable.                   *)
Clean(e) == e.scan = "pass"
Actionable(e) == e.scan \in {"pass", "found"}

(* strip_entity_bearing: removes the spans the verdict names, then blanks  *)
(* them in the verdict.                                                    *)
Strip(e) ==
    IF e.scan = "found" THEN [e EXCEPT !.text = "plain", !.scan = "masked"]
                        ELSE e

(* A store or graph call that raises.                                      *)
Fault == faults < MaxFaults /\ faults' = faults + 1

At(p, s) == job[p].steps # <<>> /\ Head(job[p].steps) = s
Rest(p) == Tail(job[p].steps)

(* p goes on with envelope e and the awaits in rest; with none it is done. *)
Go(p, e, rest) ==
    job' = [job EXCEPT ![p] =
              IF rest = <<>> THEN Idle
                             ELSE [@ EXCEPT !.env = e, !.steps = rest]]

Quit(p) == job' = [job EXCEPT ![p] = Idle]

Begin(p, o, c, e, todo) ==
    job' = [job EXCEPT ![p] =
              IF todo = <<>> THEN Idle
              ELSE [op |-> o, cand |-> c, env |-> e, steps |-> todo]]

cycle == <<phase, work>>
still == <<kind, serial, runs, requests, approved>>

---------------------------------------------------------------------------
(* The steps of a job.                                                     *)

(* CandidateStore.put, an upsert of the whole envelope.  A put that raises *)
(* may have been applied; either way the job ends there.                   *)
Put(p) ==
    /\ At(p, "put")
    /\ LET j == job[p]
           stored == [row EXCEPT ![j.cand] = j.env]
       IN  \/ row' = stored /\ Go(p, j.env, Rest(p)) /\ UNCHANGED faults
           \/ Fault /\ row' \in {row, stored} /\ Quit(p)
    /\ UNCHANGED <<node, art, cycle, still>>

(* _retract_corpus: stamps status and drift on the landed node, if there   *)
(* is one.  It fails open: the job goes on when the graph raises.          *)
StampNode(p) ==
    /\ At(p, "node")
    /\ LET j == job[p]
           i == LandingId(j.cand, j.env)
       IN  /\ \/ /\ node' = IF node[i].run = 0 THEN node
                            ELSE [node EXCEPT ![i].status = j.env.status,
                                    ![i].suspect = j.env.drift \in
                                                     {"suspect", "corrected"}]
                 /\ UNCHANGED faults
              \/ Fault /\ UNCHANGED node
           /\ Go(p, j.env, Rest(p))
    /\ UNCHANGED <<row, art, cycle, still>>

(* _stamp_corpus_status on a terminal edge; fails open too.                *)
StampArtifact(p) ==
    /\ At(p, "art")
    /\ LET j == job[p]
           k == j.env.key
       IN  /\ \/ /\ art' = IF k = NoKey \/ art[k].hits = 0 THEN art
                           ELSE [art EXCEPT ![k].dead = TRUE]
                 /\ UNCHANGED faults
              \/ Fault /\ UNCHANGED art
           /\ Go(p, j.env, Rest(p))
    /\ UNCHANGED <<row, node, cycle, still>>

(* _verify_corpus; fails open.                                             *)
MarkVerified(p) ==
    /\ At(p, "mark")
    /\ LET j == job[p]
           i == LandingId(j.cand, j.env)
       IN  /\ \/ /\ node' = IF node[i].run = 0 THEN node
                            ELSE [node EXCEPT ![i].verified = TRUE]
                 /\ UNCHANGED faults
              \/ Fault /\ UNCHANGED node
           /\ Go(p, j.env, Rest(p))
    /\ UNCHANGED <<row, art, cycle, still>>

(* _deps_resolved.  The siblings a candidate depends on are not modelled:  *)
(* any of them may be validated or not.                                    *)
CheckDeps(p) ==
    /\ At(p, "deps")
    /\ Go(p, job[p].env, Rest(p)) \/ Quit(p)
    /\ UNCHANGED <<stores, cycle, faults, still>>

---------------------------------------------------------------------------
(* Extraction and the write pipeline (S4 generalize, S5 leakage gate, S6   *)
(* dedup, S7 writer).  What the model emits and what the stages find in it *)
(* is chosen; what they make of it is not.                                 *)

Fresh(c) == [NoRow EXCEPT !.status = "extracted", !.run = runs[c] + 1]

(* GeneralizeStage: the static outcome, and the key S6 will mint.          *)
Generalized(c, e) ==
    IF IsBlueprint(c)
    THEN {[e EXCEPT !.static = g.static, !.key = g.key] :
            g \in [static : BOOLEAN, key : Keys \cup {NoKey}]}
    ELSE {e}

(* LeakageGateStage.scan; schema edits are not its remit and stay pending. *)
Scanned(c, e) ==
    IF kind[c] = "schema" THEN {e}
    ELSE {[e EXCEPT !.text = v[1], !.scan = v[2]] :
            v \in {<<"plain", "pass">>, <<"entity", "found">>,
                   <<"entity", "blind">>}}

(* route_candidate, and the gate's own terminal reject of knowledge.       *)
Routes(c, e, action) ==
    CASE IsBlueprint(c) ->
           IF e.static /\ action = "insert" /\ Clean(e)
           THEN {"candidate", "in_review"} ELSE {"in_review"}
      [] kind[c] = "knowledge" /\ ~Clean(e) -> {"rejected", "in_review"}
      [] OTHER -> {"in_review"}

(* What follows the pipeline: the consumer puts unless a stage dropped the *)
(* candidate; the completer (_settled, _guarded_put) puts in any case.     *)
Persist(p) == IF job[p].op = "complete" THEN <<"guard", "put">> ELSE <<"put">>
Dropped(p) == IF job[p].op = "complete" THEN <<"guard", "put">> ELSE <<>>

HardHit(e) == e.key # NoKey /\ art[e.key].hits > 0

RunPipeline(p) ==
    /\ At(p, "pipeline")
    /\ LET c == job[p].cand
       IN  \E g \in Generalized(c, job[p].env) : \E e \in Scanned(c, g) :
             \/ IsBlueprint(c) /\ HardHit(e) /\ Go(p, e, <<"bump">> \o Dropped(p))
             \/ /\ ~(IsBlueprint(c) /\ HardHit(e))
                /\ \E s \in Routes(c, e, "insert") :
                     Go(p, [e EXCEPT !.status = s],
                        (IF e.key = NoKey THEN <<>> ELSE <<"seed">>) \o Persist(p))
             \/ /\ IsBlueprint(c) /\ ~HardHit(e)
                /\ \E s \in Routes(c, e, "merge") :
                     Go(p, [e EXCEPT !.status = s], Persist(p))
             \/ \* redundant with the canon, or the coverage judge's drop
                IsBlueprint(c) /\ ~HardHit(e) /\ Go(p, e, Dropped(p))
    /\ UNCHANGED <<stores, cycle, faults, still>>

(* increment_hit_count, for a candidate the hard layer drops.              *)
BumpHits(p) ==
    /\ At(p, "bump")
    /\ LET k == job[p].env.key
       IN  art' = [art EXCEPT ![k].hits = IF @ < Threshold THEN @ + 1 ELSE @]
    /\ Go(p, job[p].env, Rest(p))
    /\ UNCHANGED <<row, node, cycle, faults, still>>

(* seed_artifact: insert wins, a second insert is a no-op.                 *)
SeedArtifact(p) ==
    /\ At(p, "seed")
    /\ LET k == job[p].env.key
       IN  art' = IF art[k].hits > 0 THEN art
                  ELSE [art EXCEPT ![k] = [hits |-> 1, dead |-> FALSE]]
    /\ Go(p, job[p].env, Rest(p))
    /\ UNCHANGED <<row, node, cycle, faults, still>>

(* _run_extractor and _persist_declined_for_review.  MaxRuns above 1: the  *)
(* session is delivered again.                                             *)
StartRun(c) ==
    /\ job[Consumer].steps = <<>>
    /\ runs[c] < MaxRuns
    /\ runs' = [runs EXCEPT ![c] = @ + 1]
    /\ IF kind[c] = "form"
       THEN \E e \in Scanned(c, Fresh(c)) :
              Begin(Consumer, "extract", c,
                    [e EXCEPT !.status = "needs_parameterization"],
                    <<"supersede", "put">>)
       ELSE Begin(Consumer, "extract", c, Fresh(c),
                  <<"supersede", "put", "pipeline">>)
    /\ UNCHANGED <<kind, serial, stores, cycle, requests, faults, approved>>

Supersede(p) ==
    /\ At(p, "supersede")
    /\ row' = [row EXCEPT ![job[p].cand] = NoRow]
    /\ Go(p, job[p].env, Rest(p))
    /\ UNCHANGED <<node, art, cycle, faults, still>>

---------------------------------------------------------------------------
(* The cron cycle: run_once.                                               *)

Snapshots(s) ==
    {[cand |-> c, env |-> row[c]] : c \in {d \in Cands : row[d].status = s}}

(* With serial the cron and the inbox requests take turns.                 *)
OthersIdle(p) ==
    serial => /\ \A q \in (Procs \ {p, Consumer}) : job[q].steps = <<>>
              /\ p = Cron \/ phase = "idle"

ScanCandidates ==
    /\ phase = "idle" /\ OthersIdle(Cron)
    /\ phase' = "validated"
    /\ work' = Snapshots("candidate")
    /\ UNCHANGED <<stores, job, faults, still>>

ScanValidated ==
    /\ phase = "validated"
    /\ phase' = "work"
    /\ work' = work \cup Snapshots("validated")
    /\ UNCHANGED <<stores, job, faults, still>>

EndCycle ==
    /\ phase = "work" /\ work = {} /\ job[Cron].steps = <<>>
    /\ phase' = "idle"
    /\ UNCHANGED <<work, stores, job, faults, still>>

(* Mutant: only a blueprint re-stamps its node.                            *)
AdvanceStepsBlueprintOnly(c, e) ==
    CASE ~IsBlueprint(c) -> <<>>
      [] IsBlueprint(c) /\ Clean(e) /\ e.static -> <<"node", "deps", "replay">>
      [] OTHER -> <<"node">>

(* _advance_candidate up to its first await: every candidate that can land *)
(* re-stamps its node; only a clean, statically valid blueprint goes on.   *)
(* A correction is noted before the replay overwrites its stamp.           *)
AdvanceSteps(c, e) ==
    CASE kind[c] = "schema" -> <<>>
      [] IsBlueprint(c) /\ Clean(e) /\ e.static -> <<"node", "deps", "replay">>
      [] OTHER -> <<"node">>

Advance ==
    /\ phase = "work" /\ job[Cron].steps = <<>>
    /\ \E w \in work :
         /\ w.env.status = "candidate"
         /\ work' = work \ {w}
         /\ Begin(Cron, "advance", w.cand,
                  [w.env EXCEPT !.flagged = @ \/ w.env.drift = "corrected"],
                  AdvanceSteps(w.cand, w.env))
    /\ UNCHANGED <<stores, phase, faults, still>>

(* _recheck_validated, after the candidates of the cycle.                  *)
Recheck ==
    /\ phase = "work" /\ job[Cron].steps = <<>>
    /\ \A w \in work : w.env.status = "validated"
    /\ \E w \in work :
         /\ work' = work \ {w}
         /\ Begin(Cron, "recheck", w.cand, w.env,
                  IF IsBlueprint(w.cand) THEN <<"replay">> ELSE <<>>)
    /\ UNCHANGED <<stores, phase, faults, still>>

(* _reusable_drift: a replay verdict may be inside its window or not; a    *)
(* correction's stamp is never a replay verdict.                           *)
Reusable(e) == e.drift \in {"clean", "suspect"}

Probed(e, passed) == [e EXCEPT !.drift = IF passed THEN "clean" ELSE "suspect"]

(* Guard 3 of _advance_candidate.                                          *)
ReplayAdvance(p) ==
    /\ At(p, "replay") /\ job[p].op = "advance"
    /\ LET e == job[p].env
       IN  \/ Reusable(e) /\ e.drift = "clean" /\ Go(p, e, <<"count">>)
           \/ Reusable(e) /\ e.drift = "suspect" /\ Quit(p)
           \/ \E passed \in BOOLEAN : Go(p, Probed(e, passed), <<"stamp">>)
    /\ UNCHANGED <<stores, cycle, faults, still>>

(* _recheck_validated: reuse only a clean verdict; a pass refreshes the    *)
(* row and heals the node, a failure demotes, the node first.              *)
ReplayRecheck(p) ==
    /\ At(p, "replay") /\ job[p].op = "recheck"
    /\ LET e == job[p].env
       IN  \/ Reusable(e) /\ e.drift = "clean" /\ Go(p, e, <<"node">>)
           \/ Go(p, Probed(e, TRUE), <<"put", "node">>)
           \/ Go(p, [Probed(e, FALSE) EXCEPT !.status = "candidate"],
                 <<"node", "put">>)
    /\ UNCHANGED <<stores, cycle, faults, still>>

(* Guard 5 of an approve.                                                  *)
ReplayApprove(p) ==
    /\ At(p, "replay") /\ job[p].op = "approve"
    /\ Go(p, Probed(job[p].env, TRUE), Rest(p)) \/ Quit(p)
    /\ UNCHANGED <<stores, cycle, faults, still>>

(* stamp_drift: one path of the stored document, nothing if it is gone.    *)
StampDrift(p) ==
    /\ At(p, "stamp")
    /\ LET j == job[p]
           stamped == IF row[j.cand].status = "none" THEN row
                      ELSE [row EXCEPT ![j.cand].drift = j.env.drift]
       IN  \/ /\ row' = stamped
              /\ IF j.env.drift = "clean" THEN Go(p, j.env, <<"count">>) ELSE Quit(p)
              /\ UNCHANGED faults
           \/ Fault /\ row' \in {row, stamped} /\ Quit(p)
    /\ UNCHANGED <<node, art, cycle, still>>

(* _corroboration, floor of 1 included; recurrence_weight is 0.            *)
Corroboration(e) ==
    IF e.key = NoKey \/ art[e.key].hits = 0 THEN 1 ELSE art[e.key].hits

(* Mutant: enough sightings validate the candidate.                        *)
CountHitsValidates(p) ==
    /\ At(p, "count")
    /\ LET e == job[p].env
       IN  IF Corroboration(e) >= Threshold
           THEN Go(p, [e EXCEPT !.status = "validated"], <<"node", "put">>)
           ELSE Quit(p)
    /\ UNCHANGED <<stores, cycle, faults, still>>

(* Guard 4: a candidate with enough sightings is routed to a human.        *)
CountHits(p) ==
    /\ At(p, "count")
    /\ LET e == job[p].env
       IN  \/ /\ Corroboration(e) >= Threshold
              /\ Go(p, [e EXCEPT !.status = "in_review"], <<"node", "put">>)
              /\ UNCHANGED faults
           \/ Corroboration(e) < Threshold /\ Quit(p) /\ UNCHANGED faults
           \/ Fault /\ Quit(p)
    /\ UNCHANGED <<stores, cycle, still>>

---------------------------------------------------------------------------
(* Inbox requests.  A request whose status check fails changes nothing and *)
(* is left out.                                                            *)

Request(r, o, c, e, todo) ==
    /\ job[r].steps = <<>> /\ OthersIdle(r)
    /\ requests < MaxRequests
    /\ requests' = requests + 1
    /\ Begin(r, o, c, e, todo)
    /\ UNCHANGED <<kind, serial, stores, cycle, runs, faults, approved>>

Approve(r, c) ==
    /\ row[c].status = "in_review"
    /\ Request(r, "approve", c, row[c], <<"reget">>)

(* Mutant: the inbox does not look at the status.                          *)
RejectAnyRow(r, c) ==
    /\ row[c].status # "none"
    /\ Request(r, "reject", c, [row[c] EXCEPT !.status = "rejected"],
               <<"node", "art", "put">>)

Reject(r, c) ==
    /\ row[c].status \in {"in_review", "needs_parameterization"}
    /\ Request(r, "reject", c, [row[c] EXCEPT !.status = "rejected"],
               <<"node", "art", "put">>)

Retract(r, c) ==
    /\ row[c].status = "validated"
    /\ Request(r, "retract", c, [row[c] EXCEPT !.status = "retired"],
               <<"node", "art", "put">>)

Verify(r, c) ==
    /\ row[c].status = "validated"
    /\ Request(r, "verify", c, [row[c] EXCEPT !.verified = TRUE],
               <<"mark", "put">>)

Promote(r, c) ==
    /\ row[c].status = "validated" /\ row[c].verified
    /\ Request(r, "promote", c, [row[c] EXCEPT !.status = "promoted"], <<"put">>)

(* apply_user_correction.                                                  *)
Correct(r, c) ==
    /\ row[c].status = "validated"
    /\ Request(r, "correct", c,
               [row[c] EXCEPT !.status = "candidate", !.drift = "corrected"],
               <<"node", "put">>)

(* complete_parameterization: the form is still incomplete and is stored   *)
(* with a new scan, or it is an ordinary candidate for the pipeline.       *)
Complete(r, c) ==
    /\ row[c].status = "needs_parameterization"
    /\ \/ \E e \in Scanned(c, row[c]) :
            Request(r, "complete", c, e, <<"guard", "put">>)
       \/ Request(r, "complete", c,
                  [row[c] EXCEPT !.status = "extracted", !.scan = "pending"],
                  <<"pipeline">>)

(* _guarded_put reads the row again; a row that is no form ends the job.   *)
GuardForm(p) ==
    /\ At(p, "guard")
    /\ IF row[job[p].cand].status = "needs_parameterization"
       THEN Go(p, job[p].env, Rest(p)) ELSE Quit(p)
    /\ UNCHANGED <<stores, cycle, faults, still>>

ApproveSteps(c) ==
    CASE IsBlueprint(c) -> <<"deps", "replay", "land", "put">>
      [] kind[c] = "knowledge" -> <<"deps", "land", "put">>
      [] OTHER -> <<"deps", "put">>

(* The second read of an approve and the guards of apply_human_decision    *)
(* up to its next await.                                                   *)
MayApprove(c, e) ==
    /\ e.status = "in_review"
    /\ Actionable(e)
    /\ IsBlueprint(c) => e.static

Reget(p) ==
    /\ At(p, "reget")
    /\ LET c == job[p].cand
           e == Strip(row[c])
       IN  IF MayApprove(c, row[c])
           THEN /\ approved' = [approved EXCEPT ![c] = @ \cup {e.run}]
                /\ Go(p, IF kind[c] = "schema"
                         THEN [e EXCEPT !.status = "validated",
                                        !.drift = "unchecked"]
                         ELSE IF kind[c] = "knowledge"
                              THEN [e EXCEPT !.drift = "unchecked"] ELSE e,
                      ApproveSteps(c))
           ELSE Quit(p) /\ UNCHANGED approved
    /\ UNCHANGED <<kind, serial, stores, cycle, runs, requests, faults>>

(* Mutant: a landing that raises is logged and the approve goes on.        *)
LandFailOpen(p) ==
    /\ At(p, "land")
    /\ LET j == job[p]
           landed == [node EXCEPT ![LandingId(j.cand, j.env)] =
                        [status |-> "validated", suspect |-> FALSE,
                         verified |-> TRUE, text |-> j.env.text,
                         cand |-> j.cand, run |-> j.env.run]]
       IN  /\ \/ node' = landed /\ UNCHANGED faults
              \/ Fault /\ UNCHANGED node
           /\ Go(p, [j.env EXCEPT !.status = "validated", !.verified = TRUE],
                 Rest(p))
    /\ UNCHANGED <<row, art, cycle, still>>

(* _land_and_promote: land first, then put validated.                      *)
Land(p) ==
    /\ At(p, "land")
    /\ LET j == job[p]
           landed == [node EXCEPT ![LandingId(j.cand, j.env)] =
                        [status |-> "validated",
                         suspect |-> FALSE, verified |-> TRUE,
                         text |-> j.env.text, cand |-> j.cand,
                         run |-> j.env.run]]
       IN  \/ /\ node' = landed
              /\ Go(p, [j.env EXCEPT !.status = "validated", !.verified = TRUE],
                    Rest(p))
              /\ UNCHANGED faults
           \/ Fault /\ node' \in {node, landed} /\ Quit(p)
    /\ UNCHANGED <<row, art, cycle, still>>

---------------------------------------------------------------------------
(* A process dies, or a call other than the ones above raises: its job is  *)
(* lost where it stands.  The cron starts again with a new cycle.          *)
Crash(p) ==
    /\ job[p].steps # <<>>
    /\ Fault
    /\ Quit(p)
    /\ IF p = Cron THEN phase' = "idle" /\ work' = {} ELSE UNCHANGED cycle
    /\ UNCHANGED <<stores, still>>

(* The TTL of a row that is not terminal; put renews it, a stamp does not. *)
Expire(c) ==
    /\ row[c].status \in Transient
    /\ Fault
    /\ row' = [row EXCEPT ![c] = NoRow]
    /\ UNCHANGED <<node, art, job, cycle, still>>

CronCycle ==
    ScanCandidates \/ ScanValidated \/ EndCycle \/ Advance \/ Recheck

JobStep(p) ==
    \/ Put(p) \/ StampNode(p) \/ StampArtifact(p) \/ MarkVerified(p)
    \/ CheckDeps(p) \/ RunPipeline(p) \/ BumpHits(p) \/ SeedArtifact(p)
    \/ Supersede(p) \/ ReplayAdvance(p) \/ ReplayRecheck(p)
    \/ ReplayApprove(p) \/ StampDrift(p) \/ CountHits(p) \/ GuardForm(p)
    \/ Reget(p) \/ Land(p)

InboxRequest(r, c) ==
    \/ Approve(r, c) \/ Reject(r, c) \/ Retract(r, c) \/ Verify(r, c)
    \/ Promote(r, c) \/ Correct(r, c) \/ Complete(r, c)

Next ==
    \/ CronCycle
    \/ \E p \in Procs : JobStep(p) \/ Crash(p)
    \/ \E c \in Cands : StartRun(c) \/ Expire(c)
    \/ \E r \in Reviewers, c \in Cands : InboxRequest(r, c)

(* The cron is a loop with a fixed interval, and a request that was taken  *)
(* is worked off; that anybody makes a request, or that a session is       *)
(* delivered, is not assumed.                                              *)
Fairness == WF_vars(CronCycle) /\ \A p \in Procs : WF_vars(JobStep(p))

Spec == Init /\ [][Next]_vars /\ Fairness

---------------------------------------------------------------------------
(* Properties.                                                             *)

Lived == {"validated", "promoted", "retired"}

(* Every envelope somebody holds: the stored rows, the ones in the jobs    *)
(* and the snapshots of the cycle.                                         *)
Held == {[cand |-> c, env |-> row[c]] : c \in Cands}
          \cup {[cand |-> job[p].cand, env |-> job[p].env] :
                  p \in {q \in Procs : job[q].steps # <<>>}}
          \cup work

(* D17, the entity-free promise of the corpus (scheduler.py:618-690): no   *)
(* envelope that is or was validated, wherever it is held, and no landed   *)
(* node has an entity in its text, whatever the reviewer approved.         *)
EntityFree ==
    /\ \A h \in Held : h.env.status \in Lived => h.env.text = "plain"
    /\ \A i \in Ids : node[i].run # 0 => node[i].text = "plain"

(* Only a human's approve writes to the corpus (apply_human_decision: "the *)
(* ONLY edge that writes content to the corpus"): every landed node and    *)
(* every envelope past the review comes from a run a human approved.       *)
OnlyHumanLands ==
    /\ \A h \in Held : h.env.status \in Lived => h.env.run \in approved[h.cand]
    /\ \A i \in Ids : node[i].run # 0 =>
          node[i].cand \in Cands /\ node[i].run \in approved[node[i].cand]

(* "Not landed, not validated" (_land_and_promote): whatever crashes       *)
(* between the two writes, a validated envelope has its node in the graph. *)
ValidatedIsLanded ==
    \A h \in Held : h.env.status \in Lived
                       => node[LandingId(h.cand, h.env)].run # 0

(* What makes the three inductive, of every envelope held: a verdict that  *)
(* lets it pass is true of its text, the gate never settles a schema edit, *)
(* and it is from some run.  Of every job: it works on an extracted        *)
(* candidate, only an approve lands, past its guards it holds a stripped   *)
(* envelope a human approved, and what enters the pipeline is not past it. *)
Screened ==
    \A h \in Held :
      /\ h.env.scan \in {"pass", "masked"} => h.env.text = "plain"
      /\ kind[h.cand] = "schema" => h.env.scan = "pending"
      /\ h.env.status # "none" => h.env.run # 0

JobFits(j) ==
    j.steps # <<>> =>
      /\ j.cand \in Cands /\ j.env.run # 0
      /\ \A i \in DOMAIN j.steps :
           /\ j.steps[i] \in {"reget", "land"} => j.op = "approve"
           /\ j.steps[i] = "pipeline" =>
                j.op # "approve" /\ j.env.status = "extracted"
      /\ j.op = "approve" /\ Head(j.steps) # "reget" =>
           /\ j.env.text = "plain"
           /\ j.env.run \in approved[j.cand]
           /\ kind[j.cand] # "schema"

IInv ==
    /\ TypeOK
    /\ Screened
    /\ \A p \in Procs : JobFits(job[p])
    /\ EntityFree
    /\ OnlyHumanLands
    /\ ValidatedIsLanded

(* A reviewer's final word stands: a rejected, retired or promoted row     *)
(* changes its status only when a new run of its session replaces it.      *)
(* This is what _land_and_promote's "single promotion writer" is for, and  *)
(* it is stated for writers that take turns.                               *)
Stays(c) ==
    row[c].status \in Ended /\ row'[c].run = row[c].run
      => row'[c].status = row[c].status

TerminalStays == [][serial => \A c \in Cands : Stays(c)]_vars

(* The same of the writers as they are deployed, cron and inbox in         *)
(* processes of their own over a store without compare-and-swap.           *)
TerminalStaysAlways == [][\A c \in Cands : Stays(c)]_vars

(* A demoted artifact does not stay recallable (_retract_corpus: "converg- *)
(* ence comes from the RE-ASSERTS"): although the write-back fails open, a *)
(* candidate row and a node that recall still takes do not last together.  *)
Recallable(c) ==
    LET n == node[LandingId(c, row[c])]
    IN  n.status = "validated" /\ ~n.suspect

DemotionConverges ==
    \A c \in Cands :
      (row[c].status = "candidate" /\ Recallable(c))
        ~> ~(row[c].status = "candidate" /\ Recallable(c))

============================================================================
