--------------------------- MODULE LearningLoop ---------------------------
(***************************************************************************)
(* The learning loop: sweepers move idle sessions onto the work stream,    *)
(* consumers run each session once and record it `done`, poison messages   *)
(* are dead-lettered.  Composes SessionLifecycle (the session store) and   *)
(* LearningQueue (Redis) with the sweeper and consumer processes and the   *)
(* candidate store the consumers write.                                    *)
(*                                                                         *)
(* Every await of a store or queue call is a step, so any other process    *)
(* may move between two of them.  A consumer whose call raises leaves its  *)
(* delivery un-acknowledged and goes on with the batch; a crash, or an     *)
(* exception outside a delivery, ends the cycle.                           *)
(***************************************************************************)
EXTENDS SessionLifecycle, LearningQueue

CONSTANTS
    Sweepers, Consumers,
    ExtractorWired,  \* whether the deployment injects an extractor
    MaxCands,     \* bound: candidates one extraction emits
    ScanLimit,    \* LEARNING_SCAN_LIMIT
    MaxFaults,    \* bound: crashes and raised exceptions
    MaxToggles,   \* bound: times the kill switch is turned off
    MaxKeyExpiries  \* bound: dedup keys whose TTL runs out

ASSUME LoopAssumption ==
    /\ Workers = Sweepers \cup Consumers
    /\ Sweepers \cap Consumers = {}
    /\ ExtractorWired \in BOOLEAN
    /\ MaxCands \in Nat
    /\ ScanLimit \in Nat \ {0}
    /\ MaxFaults \in Nat
    /\ MaxToggles \in Nat
    /\ MaxKeyExpiries \in Nat

VARIABLES
    spc,      \* sweeper program counter
    todo,     \* scanned sessions the sweeper has not finished with
    swept,    \* the session the sweeper is working on
    snap,     \* snap[w][s] = <<status, content>> of the scanned document
    cpc,      \* consumer program counter
    path,     \* which deliveries the inbox holds: "reclaimed" or "new"
    inbox,    \* deliveries <<message, delivery_count>> not yet dispatched
    cur,      \* the delivery being dispatched
    seen,     \* <<status, content>> of the document _process loaded
    ncands,   \* candidates the extraction emitted
    nput,     \* how many of them were persisted
    rows,     \* candidate store: <<job, ordinal, run>>
    enabled,  \* LEARNING_ENABLED
    faults, toggles, keyExpiries

sweeperVars == <<spc, todo, swept, snap>>
consumerVars == <<cpc, path, inbox, cur, seen, ncands, nput>>
envVars == <<enabled, faults, toggles, keyExpiries>>
vars == <<sessionVars, queueVars, sweeperVars, consumerVars, rows, envVars>>

Jobs == Sessions \X Nat
Snapshot == Status \X Nat
Delivery == Msg \X (1..(MaxDeliveries + 1))
NoDelivery == <<0, 0>>
NoSession == "none"
NoSnap == <<"active", 0>>

SweeperPC == {"next", "lookup", "xadd", "setkey", "queue"}
ConsumerPC == {"next", "claim", "work", "supersede", "put", "stages",
               "review", "finish", "ack", "dead_cas", "dead_add"}

(* The delivery's message, job and session.                                *)
MsgOf(c) == cur[c][1]
JobOf(c) == job[MsgOf(c)]
SessionOf(c) == JobOf(c)[1]

(* A delivery is identified by message and delivery count, and so is the   *)
(* extraction run it starts.                                               *)
Row == Jobs \X (0..MaxCands) \X Delivery

SweeperTypeOK ==
    /\ spc \in [Sweepers -> SweeperPC]
    /\ todo \in [Sweepers -> SUBSET Sessions]
    /\ swept \in [Sweepers -> Sessions \cup {NoSession}]
    /\ \A w \in Sweepers : spc[w] # "next" => swept[w] \in Sessions
    /\ snap \in [Sweepers -> [Sessions -> Snapshot]]

ConsumerTypeOK ==
    /\ cpc \in [Consumers -> ConsumerPC]
    /\ path \in [Consumers -> {"reclaimed", "new"}]
    /\ inbox \in [Consumers -> SUBSET Delivery]
    /\ cur \in [Consumers -> Delivery \cup {NoDelivery}]
    /\ \A c \in Consumers : \A d \in inbox[c] : d[1] <= last
    /\ \A c \in Consumers : cpc[c] # "next" => cur[c] \in Delivery /\ cur[c][1] <= last
    /\ seen \in [Consumers -> Snapshot]
    /\ ncands \in [Consumers -> 0..MaxCands]
    /\ nput \in [Consumers -> 0..MaxCands]
    /\ rows \subseteq Row

EnvTypeOK ==
    /\ enabled \in BOOLEAN
    /\ faults \in 0..MaxFaults
    /\ toggles \in 0..MaxToggles
    /\ keyExpiries \in 0..MaxKeyExpiries

TypeOK ==
    /\ SessionTypeOK
    /\ QueueTypeOK(Jobs)
    /\ SweeperTypeOK
    /\ ConsumerTypeOK
    /\ EnvTypeOK

Init ==
    /\ SessionInit
    /\ QueueInit
    /\ spc = [w \in Sweepers |-> "next"]
    /\ todo = [w \in Sweepers |-> {}]
    /\ swept = [w \in Sweepers |-> NoSession]
    /\ snap = [w \in Sweepers |-> [s \in Sessions |-> NoSnap]]
    /\ cpc = [c \in Consumers |-> "next"]
    /\ path = [c \in Consumers |-> "new"]
    /\ inbox = [c \in Consumers |-> {}]
    /\ cur = [c \in Consumers |-> NoDelivery]
    /\ seen = [c \in Consumers |-> NoSnap]
    /\ ncands = [c \in Consumers |-> 0]
    /\ nput = [c \in Consumers |-> 0]
    /\ rows = {}
    /\ enabled = TRUE
    /\ faults = 0
    /\ toggles = 0
    /\ keyExpiries = 0

---------------------------------------------------------------------------
(* The sweeper                                                             *)

(* run_once: the kill switch, then one scan of at most ScanLimit sessions. *)
SweepScan(w) ==
    /\ spc[w] = "next"
    /\ todo[w] = {}
    /\ enabled
    /\ \E S \in SUBSET Sweepable :
         /\ S = Sweepable \/ Cardinality(S) = ScanLimit
         /\ Cardinality(S) <= ScanLimit
         /\ ScanIdleSessions(w, S)
         /\ todo' = [todo EXCEPT ![w] = S]
         /\ snap' = [snap EXCEPT ![w] =
                       [s \in Sessions |-> IF s \in S THEN <<status[s], content[s]>>
                                           ELSE NoSnap]]
    /\ UNCHANGED <<queueVars, spc, swept, consumerVars, rows, envVars>>

(* The sweeper is done with s, won or lost.                                *)
SweepNext(w, s) ==
    /\ spc' = [spc EXCEPT ![w] = "next"]
    /\ todo' = [todo EXCEPT ![w] = @ \ {s}]
    /\ UNCHANGED <<swept, snap>>

SweepTo(w, pc) ==
    /\ spc' = [spc EXCEPT ![w] = pc]
    /\ UNCHANGED <<todo, swept, snap>>

(* Step 1: CAS active -> pending.  A loss skips the session.  A session    *)
(* scanned `pending` (an earlier sweep crashed) keeps its scan token.      *)
SweepClaim(w, s) ==
    /\ spc[w] = "next"
    /\ s \in todo[w]
    /\ swept' = [swept EXCEPT ![w] = s]
    /\ \/ /\ snap[w][s][1] = "active"
          /\ CanTransition(w, s, "active", TRUE)
          /\ SetLearningStatus(w, s, "pending", NoHash)
          /\ spc' = [spc EXCEPT ![w] = "lookup"]
          /\ UNCHANGED todo
       \/ /\ snap[w][s][1] = "active"
          /\ ~CanTransition(w, s, "active", TRUE)
          /\ todo' = [todo EXCEPT ![w] = @ \ {s}]
          /\ UNCHANGED <<sessionVars, spc>>
       \/ /\ snap[w][s][1] = "pending"
          /\ spc' = [spc EXCEPT ![w] = "lookup"]
          /\ UNCHANGED <<sessionVars, todo>>
    /\ UNCHANGED <<queueVars, snap, consumerVars, rows, envVars>>

SweptJob(w) == <<swept[w], snap[w][swept[w]][2]>>

(* enqueue: GET the dedup key; a hit returns without an XADD.              *)
SweepLookup(w) ==
    /\ spc[w] = "lookup"
    /\ SweepTo(w, IF SweptJob(w) \in dedup THEN "queue" ELSE "xadd")
    /\ UNCHANGED <<sessionVars, queueVars, consumerVars, rows, envVars>>

SweepXAdd(w) ==
    /\ spc[w] = "xadd"
    /\ XAdd(SweptJob(w))
    /\ SweepTo(w, "setkey")
    /\ UNCHANGED <<sessionVars, consumerVars, rows, envVars>>

SweepSetKey(w) ==
    /\ spc[w] = "setkey"
    /\ MarkEnqueued(SweptJob(w))
    /\ SweepTo(w, "queue")
    /\ UNCHANGED <<sessionVars, consumerVars, rows, envVars>>

(* Step 2: CAS pending -> queued recording the hash; a loss is a skip.     *)
SweepQueue(w) ==
    LET s == swept[w] IN
    /\ spc[w] = "queue"
    /\ \/ /\ CanTransition(w, s, "pending", TRUE)
          /\ SetLearningStatus(w, s, "queued", snap[w][s][2])
       \/ /\ ~CanTransition(w, s, "pending", TRUE)
          /\ UNCHANGED sessionVars
    /\ SweepNext(w, s)
    /\ UNCHANGED <<queueVars, consumerVars, rows, envVars>>

(* A store or queue call raises: the session is left for the next cycle.   *)
SweepError(w) ==
    /\ spc[w] # "next"
    /\ faults < MaxFaults
    /\ faults' = faults + 1
    /\ SweepNext(w, swept[w])
    /\ UNCHANGED <<sessionVars, queueVars, consumerVars, rows, enabled, toggles, keyExpiries>>

(* The sweeper process dies and is restarted.                              *)
SweepCrash(w) ==
    /\ todo[w] # {}
    /\ faults < MaxFaults
    /\ faults' = faults + 1
    /\ spc' = [spc EXCEPT ![w] = "next"]
    /\ todo' = [todo EXCEPT ![w] = {}]
    /\ UNCHANGED <<sessionVars, queueVars, swept, snap, consumerVars, rows,
                   enabled, toggles, keyExpiries>>

---------------------------------------------------------------------------
(* The consumer                                                            *)

(* Back to the batch: the delivery is over, acknowledged or not.           *)
EndDelivery(c) ==
    /\ cpc' = [cpc EXCEPT ![c] = "next"]
    /\ cur' = [cur EXCEPT ![c] = NoDelivery]
    /\ seen' = [seen EXCEPT ![c] = NoSnap]
    /\ ncands' = [ncands EXCEPT ![c] = 0]
    /\ nput' = [nput EXCEPT ![c] = 0]
    /\ UNCHANGED <<path, inbox>>

GoTo(c, pc) ==
    /\ cpc' = [cpc EXCEPT ![c] = pc]
    /\ UNCHANGED <<path, inbox, cur, seen, ncands, nput>>

(* run_once: the kill switch, then reclaim_stale before any new delivery.  *)
ConsumeReclaim(c) ==
    /\ cpc[c] = "next"
    /\ path[c] = "new"
    /\ inbox[c] = {}
    /\ enabled
    /\ XAutoClaim
    /\ inbox' = [inbox EXCEPT ![c] = {<<m, NextCount(m)>> : m \in stale}]
    /\ path' = [path EXCEPT ![c] = "reclaimed"]
    /\ UNCHANGED <<sessionVars, sweeperVars, cpc, cur, seen, ncands, nput, rows, envVars>>

(* ... and, the reclaimed ones dispatched, one batch of new deliveries     *)
(* (possibly none: XREADGROUP times out after block_ms).                   *)
ConsumeNew(c) ==
    /\ cpc[c] = "next"
    /\ path[c] = "reclaimed"
    /\ inbox[c] = {}
    /\ XReadGroup
    /\ inbox' = [inbox EXCEPT ![c] = {<<m, 1>> : m \in NextNew}]
    /\ path' = [path EXCEPT ![c] = "new"]
    /\ UNCHANGED <<sessionVars, sweeperVars, cpc, cur, seen, ncands, nput, rows, envVars>>

(* Mutation: a session the sweeper has not queued yet is claimed too.      *)
ClaimDecisionForwardPending(st, reclaimed) ==
    CASE st \in {"queued", "pending"}                -> "forward"
      [] st = "processing" /\ reclaimed              -> "recover"
      [] st = "done"                                 -> "recover"
      [] st = "active"                               -> "refuse"
      [] st = "processing" /\ ~reclaimed             -> "refuse"
      [] st = "dead_letter"                          -> "terminal"

(* _claim_decision: what a delivery may do with a session in this status.  *)
ClaimDecision(st, reclaimed) ==
    CASE st = "queued"                     -> "forward"
      [] st = "processing" /\ reclaimed    -> "recover"
      [] st = "processing" /\ ~reclaimed   -> "refuse"
      [] st = "done"                       -> "recover"
      [] st \in {"active", "pending"}      -> "refuse"
      [] st = "dead_letter"                -> "terminal"

(* Mutation: a refused delivery is acknowledged.                           *)
AfterLoadAckRefused(d, s, reclaimed) ==
    IF d[2] > MaxDeliveries
    THEN IF status[s] \in {"done", "dead_letter"} THEN "ack" ELSE "dead_cas"
    ELSE IF ClaimDecision(status[s], reclaimed) \in {"forward", "recover"}
         THEN "claim" ELSE "ack"

(* Where _dispatch takes a delivery once the session is loaded: a poison   *)
(* message to _handle_dead_letter, any other one through _process.         *)
AfterLoad(d, s, reclaimed) ==
    IF d[2] > MaxDeliveries
    THEN IF status[s] \in {"done", "dead_letter"} THEN "ack" ELSE "dead_cas"
    ELSE IF status[s] = "done" /\ hash[s] = job[d[1]][2] THEN "ack"
    ELSE CASE ClaimDecision(status[s], reclaimed) \in {"forward", "recover"} -> "claim"
           [] ClaimDecision(status[s], reclaimed) = "terminal" -> "ack"
           [] ClaimDecision(status[s], reclaimed) = "refuse" -> "next"

(* Take the next delivery, in id order, and load its session.              *)
ConsumeLoad(c) ==
    /\ cpc[c] = "next"
    /\ \E d \in inbox[c] :
         LET s == job[d[1]][1]
             pc == AfterLoad(d, s, path[c] = "reclaimed")
         IN  /\ \A e \in inbox[c] : d[1] <= e[1]
             /\ inbox' = [inbox EXCEPT ![c] = @ \ {d}]
             /\ GetSessionWithCas(c, s)
             /\ cpc' = [cpc EXCEPT ![c] = pc]
             /\ cur' = [cur EXCEPT ![c] = IF pc = "next" THEN NoDelivery ELSE d]
             /\ seen' = [seen EXCEPT ![c] = IF pc = "next" THEN NoSnap
                                            ELSE <<status[s], content[s]>>]
    /\ UNCHANGED <<queueVars, sweeperVars, path, ncands, nput, rows, envVars>>

(* queued -> processing, or recover_to_processing from `processing` or     *)
(* `done`; a CAS loss leaves the message pending.                          *)
ConsumeClaim(c) ==
    LET s == SessionOf(c) IN
    /\ cpc[c] = "claim"
    /\ \/ /\ CanTransition(c, s, seen[c][1], TRUE)
          /\ SetLearningStatus(c, s, "processing", NoHash)
          /\ GoTo(c, "work")
       \/ /\ ~CanTransition(c, s, seen[c][1], TRUE)
          /\ EndDelivery(c)
          /\ UNCHANGED sessionVars
    /\ UNCHANGED <<queueVars, sweeperVars, rows, envVars>>

(* _do_work up to the extraction: triage or the coverage judge may end it, *)
(* as a missing extractor does; else the extractor emits some candidates.  *)
ConsumeWork(c) ==
    /\ cpc[c] = "work"
    /\ \/ GoTo(c, "finish")
       \/ \E n \in 0..MaxCands :
            /\ ExtractorWired
            /\ cpc' = [cpc EXCEPT ![c] = "supersede"]
            /\ ncands' = [ncands EXCEPT ![c] = n]
            /\ UNCHANGED <<path, inbox, cur, seen, nput>>
    /\ UNCHANGED <<sessionVars, queueVars, sweeperVars, rows, envVars>>

(* Mutation: the rows of an earlier attempt are kept.                      *)
ConsumeSupersedeNothing(c) ==
    /\ cpc[c] = "supersede"
    /\ GoTo(c, IF ncands[c] = 0 THEN "review" ELSE "put")
    /\ UNCHANGED <<sessionVars, queueVars, sweeperVars, rows, envVars>>

(* supersede(content_hash): drop what an earlier attempt stored.           *)
ConsumeSupersede(c) ==
    /\ cpc[c] = "supersede"
    /\ rows' = {r \in rows : r[1] # JobOf(c)}
    /\ GoTo(c, IF ncands[c] = 0 THEN "review" ELSE "put")
    /\ UNCHANGED <<sessionVars, queueVars, sweeperVars, envVars>>

(* put: an upsert keyed by candidate_id = (content_hash, ordinal).  The    *)
(* ordinal 0 stands for the namespace of mint_review_candidate_id.         *)
Upsert(j, ord, run) == {r \in rows : r[1] # j \/ r[2] # ord} \cup {<<j, ord, run>>}

ConsumePut(c) ==
    /\ cpc[c] = "put"
    /\ nput[c] < ncands[c]
    /\ rows' = Upsert(JobOf(c), nput[c] + 1, cur[c])
    /\ nput' = [nput EXCEPT ![c] = @ + 1]
    /\ cpc' = [cpc EXCEPT ![c] = "stages"]
    /\ UNCHANGED <<path, inbox, cur, seen, ncands>>
    /\ UNCHANGED <<sessionVars, queueVars, sweeperVars, envVars>>

(* _run_stages: the pipeline either persists the enriched envelope or      *)
(* drops it (the `extracted` row stays), and a halt skips the remaining    *)
(* candidates.                                                             *)
ConsumeStages(c) ==
    /\ cpc[c] = "stages"
    /\ rows' \in {rows, Upsert(JobOf(c), nput[c], cur[c])}
    /\ \E pc \in {"put", "review"} :
         /\ pc = "put" => nput[c] < ncands[c]
         /\ GoTo(c, pc)
    /\ UNCHANGED <<sessionVars, queueVars, sweeperVars, envVars>>

(* _persist_declined_for_review: at most one row, its own namespace.       *)
ConsumeReview(c) ==
    /\ cpc[c] = "review"
    /\ rows' \in {rows, Upsert(JobOf(c), 0, cur[c])}
    /\ GoTo(c, "finish")
    /\ UNCHANGED <<sessionVars, queueVars, sweeperVars, envVars>>

(* Mutation: the hash of the job is recorded, not the document's.          *)
ConsumeFinishJobHash(c) ==
    LET s == SessionOf(c) IN
    /\ cpc[c] = "finish"
    /\ \/ /\ CanTransition(c, s, "processing", TRUE)
          /\ SetLearningStatus(c, s, "done", JobOf(c)[2])
          /\ GoTo(c, "ack")
       \/ /\ ~CanTransition(c, s, "processing", TRUE)
          /\ EndDelivery(c)
          /\ UNCHANGED sessionVars
    /\ UNCHANGED <<queueVars, sweeperVars, rows, envVars>>

(* Mutation: the message is acknowledged although the CAS was lost.        *)
ConsumeFinishAckOnLoss(c) ==
    LET s == SessionOf(c) IN
    /\ cpc[c] = "finish"
    /\ \/ /\ CanTransition(c, s, "processing", TRUE)
          /\ SetLearningStatus(c, s, "done", seen[c][2])
       \/ /\ ~CanTransition(c, s, "processing", TRUE)
          /\ UNCHANGED sessionVars
    /\ GoTo(c, "ack")
    /\ UNCHANGED <<queueVars, sweeperVars, rows, envVars>>

(* processing -> done, recording the hash of the loaded document.          *)
ConsumeFinish(c) ==
    LET s == SessionOf(c) IN
    /\ cpc[c] = "finish"
    /\ \/ /\ CanTransition(c, s, "processing", TRUE)
          /\ SetLearningStatus(c, s, "done", seen[c][2])
          /\ GoTo(c, "ack")
       \/ /\ ~CanTransition(c, s, "processing", TRUE)
          /\ EndDelivery(c)
          /\ UNCHANGED sessionVars
    /\ UNCHANGED <<queueVars, sweeperVars, rows, envVars>>

ConsumeAck(c) ==
    /\ cpc[c] = "ack"
    /\ XAck(MsgOf(c))
    /\ EndDelivery(c)
    /\ UNCHANGED <<sessionVars, sweeperVars, rows, envVars>>

(* Mutation: the dead stream is written although the CAS was lost.         *)
ConsumeDeadCasIgnoringLoss(c) ==
    LET s == SessionOf(c) IN
    /\ cpc[c] = "dead_cas"
    /\ \/ /\ CanTransition(c, s, seen[c][1], FALSE)
          /\ SetLearningStatus(c, s, "dead_letter", NoHash)
       \/ /\ ~CanTransition(c, s, seen[c][1], FALSE)
          /\ UNCHANGED sessionVars
    /\ GoTo(c, "dead_add")
    /\ UNCHANGED <<queueVars, sweeperVars, rows, envVars>>

(* _handle_dead_letter: * -> dead_letter without a from-state assertion.   *)
ConsumeDeadCas(c) ==
    LET s == SessionOf(c) IN
    /\ cpc[c] = "dead_cas"
    /\ \/ /\ CanTransition(c, s, seen[c][1], FALSE)
          /\ SetLearningStatus(c, s, "dead_letter", NoHash)
          /\ GoTo(c, "dead_add")
       \/ /\ ~CanTransition(c, s, seen[c][1], FALSE)
          /\ EndDelivery(c)
          /\ UNCHANGED sessionVars
    /\ UNCHANGED <<queueVars, sweeperVars, rows, envVars>>

(* finalize_dead_letter: XADD to the dead stream, then XACK.               *)
ConsumeDeadAdd(c) ==
    /\ cpc[c] = "dead_add"
    /\ XAddDead(MsgOf(c))
    /\ GoTo(c, "ack")
    /\ UNCHANGED <<sessionVars, sweeperVars, rows, envVars>>

(* A call of this delivery raises: _dispatch isolates it, un-acknowledged. *)
ConsumeError(c) ==
    /\ cpc[c] # "next"
    /\ faults < MaxFaults
    /\ faults' = faults + 1
    /\ EndDelivery(c)
    /\ UNCHANGED <<sessionVars, queueVars, sweeperVars, rows, enabled, toggles, keyExpiries>>

(* The process dies and restarts, or a queue call of run_once raises: the  *)
(* undispatched deliveries are forgotten; they stay pending in Redis.      *)
ConsumeCrash(c) ==
    /\ cpc[c] # "next" \/ inbox[c] # {} \/ path[c] = "reclaimed"
    /\ faults < MaxFaults
    /\ faults' = faults + 1
    /\ cpc' = [cpc EXCEPT ![c] = "next"]
    /\ path' = [path EXCEPT ![c] = "new"]
    /\ inbox' = [inbox EXCEPT ![c] = {}]
    /\ cur' = [cur EXCEPT ![c] = NoDelivery]
    /\ seen' = [seen EXCEPT ![c] = NoSnap]
    /\ ncands' = [ncands EXCEPT ![c] = 0]
    /\ nput' = [nput EXCEPT ![c] = 0]
    /\ UNCHANGED <<sessionVars, queueVars, sweeperVars, rows, enabled, toggles, keyExpiries>>

---------------------------------------------------------------------------
(* The environment                                                         *)

UserStep(s) ==
    /\ AppendMessage(s) \/ TouchSession(s) \/ Expire(s)
    /\ UNCHANGED <<queueVars, sweeperVars, consumerVars, rows, envVars>>

IdleThresholdPasses(s) ==
    /\ GoIdle(s)
    /\ UNCHANGED <<queueVars, sweeperVars, consumerVars, rows, envVars>>

AgeMessage(m) ==
    /\ Age(m)
    /\ UNCHANGED <<sessionVars, sweeperVars, consumerVars, rows, envVars>>

DedupKeyExpires ==
    /\ keyExpiries < MaxKeyExpiries
    /\ keyExpiries' = keyExpiries + 1
    /\ \E j \in dedup : ExpireDedupKey(j)
    /\ UNCHANGED <<sessionVars, sweeperVars, consumerVars, rows, enabled, faults, toggles>>

(* The operator flips LEARNING_ENABLED.                                    *)
SwitchOff ==
    /\ enabled
    /\ toggles < MaxToggles
    /\ toggles' = toggles + 1
    /\ enabled' = FALSE
    /\ UNCHANGED <<sessionVars, queueVars, sweeperVars, consumerVars, rows, faults, keyExpiries>>

SwitchOn ==
    /\ ~enabled
    /\ enabled' = TRUE
    /\ UNCHANGED <<sessionVars, queueVars, sweeperVars, consumerVars, rows,
                   faults, toggles, keyExpiries>>

SweeperStep(w) ==
    \/ SweepScan(w)
    \/ \E s \in Sessions : SweepClaim(w, s)
    \/ SweepLookup(w) \/ SweepXAdd(w) \/ SweepSetKey(w) \/ SweepQueue(w)

ConsumerStep(c) ==
    \/ ConsumeReclaim(c) \/ ConsumeNew(c) \/ ConsumeLoad(c)
    \/ ConsumeClaim(c) \/ ConsumeWork(c) \/ ConsumeSupersede(c)
    \/ ConsumePut(c) \/ ConsumeStages(c) \/ ConsumeReview(c)
    \/ ConsumeFinish(c) \/ ConsumeAck(c)
    \/ ConsumeDeadCas(c) \/ ConsumeDeadAdd(c)

Next ==
    \/ \E s \in Sessions : UserStep(s) \/ IdleThresholdPasses(s)
    \/ \E w \in Sweepers : SweeperStep(w) \/ SweepError(w) \/ SweepCrash(w)
    \/ \E c \in Consumers : ConsumerStep(c) \/ ConsumeError(c) \/ ConsumeCrash(c)
    \/ \E m \in Msg : AgeMessage(m)
    \/ DedupKeyExpires \/ SwitchOff \/ SwitchOn

Spec == Init /\ [][Next]_vars

(* run_forever of both daemons keeps cycling, whatever a cycle raised;     *)
(* time passes; a kill switch that was turned off is turned on again.      *)
FairSpec ==
    /\ Spec
    /\ \A w \in Sweepers : WF_vars(SweeperStep(w))
    /\ \A c \in Consumers : WF_vars(ConsumerStep(c))
    /\ \A s \in Sessions : WF_vars(IdleThresholdPasses(s))
    /\ \A m \in Msg : WF_vars(AgeMessage(m))
    /\ WF_vars(SwitchOn)
---------------------------------------------------------------------------
(* Properties                                                              *)

(* The consumer has claimed its session and has not finished with it.      *)
Working(c) == cpc[c] \in {"work", "supersede", "put", "stages", "review", "finish"}

(* It owns the session as long as nobody has written the document since.   *)
Owns(c, s) == Working(c) /\ SessionOf(c) = s /\ c \in fresh[s]

(* Message m is still to be delivered or redelivered (or was trimmed), and *)
(* no consumer is about to acknowledge it.                                 *)
Pending(m) ==
    /\ mstate[m] \in {"new", "pel", "trimmed"}
    /\ \A c \in Consumers : cpc[c] \in {"ack", "dead_add"} => MsgOf(c) # m

(* At most one consumer at a time can still turn a session `done`: however *)
(* many run it concurrently after a reclaim, the CAS token leaves one of   *)
(* them, and for that one the session is `processing` and the transcript   *)
(* it loaded is the one in the store (_process, models.RECOVERY_TRANSITIONS*)
(* "safety is the CAS, not the state").                                    *)
SingleOwner ==
    \A s \in Sessions : \A c \in Consumers : Owns(c, s) =>
        /\ s \in exists /\ status[s] = "processing" /\ content[s] = seen[c][2]
        /\ \A d \in Consumers : Owns(d, s) => d = c

(* A queued session has a message that will be delivered: no crash, CAS    *)
(* loss or dedup hit between XADD, SET and the `pending -> queued` CAS     *)
(* strands it (redis_queue.enqueue: "mark-first could strand ...").        *)
QueuedHasMessage ==
    \A s \in Sessions : status[s] = "queued" =>
        \E m \in 1..last : job[m][1] = s /\ Pending(m)

(* The recorded hash tells the truth: a session turns `done` only with the *)
(* hash of the transcript its document then holds (MEDIUM-3 in _process).  *)
DoneHashTrue ==
    [][\A s \in Sessions : status[s] # "done" /\ status'[s] = "done"
            => hash'[s] = content'[s]]_vars

(* Every change of learning_status of a document is an edge of             *)
(* VALID_TRANSITIONS or RECOVERY_TRANSITIONS.  The one exception is what   *)
(* the assert_from=False hatch of _handle_dead_letter does to the empty    *)
(* document get_session_with_cas creates when the session of a poison      *)
(* message has expired: active -> dead_letter.                             *)
LifecycleEdges ==
    [][\A s \in Sessions : s \in exists /\ s \in exists' /\ status'[s] # status[s]
            => \/ <<status[s], status'[s]>> \in ValidTransitions \cup RecoveryTransitions
               \/ expiries > 0 /\ status[s] = "active" /\ status'[s] = "dead_letter"]_vars

(* The dead stream agrees with the session flag: an entry is there only if *)
(* its session was CASed to `dead_letter` first (_handle_dead_letter), and *)
(* only an expired document forgets it.                                    *)
DeadStreamAgrees ==
    expiries = 0 => \A m \in dead : status[job[m][1]] = "dead_letter"

(* A session that is in flight can still be finished: it has a message to  *)
(* be redelivered, or the consumer that owns it is still at work.          *)
InFlightCanFinish ==
    \A s \in Sessions : status[s] \in {"queued", "processing"} =>
        \/ \E m \in 1..last : job[m][1] = s /\ mstate[m] \in {"new", "pel", "trimmed"}
        \/ \E c \in Consumers : Owns(c, s)

(* The store never holds a mixed set from two runs of one job              *)
(* (_run_extractor, MEDIUM-3).                                             *)
OneRunPerJob ==
    \A r1, r2 \in rows : r1[1] = r2[1] => r1[3] = r2[3]

(* Every session is settled: once its user is gone and the kill switch     *)
(* stays on, the loop ends in `done` or `dead_letter`, after any crash or  *)
(* exception (sweeper and consumer "leaving it for the next cycle").       *)
EventuallySettled ==
    \A s \in Sessions : s \in exists ~> status[s] \in {"done", "dead_letter"}

(* The loop implements SessionOwnership: the owner of a session is the     *)
(* consumer that claimed it under a token nobody has invalidated.          *)
Ownership == INSTANCE SessionOwnership WITH
    st <- status, text <- content, rec <- hash,
    owner <- [s \in Sessions |-> {c \in Consumers : Owns(c, s)}]

ImplementsOwnership == Ownership!OwnershipSpec

---------------------------------------------------------------------------
(* The inductive invariant behind SingleOwner, QueuedHasMessage and        *)
(* ImplementsOwnership                                                     *)

(* A current token means the document is as it was when last read or       *)
(* written: by a sweeper that has not reached s yet, by one that is at s,  *)
(* by a consumer before its claim, and after it.                           *)
ScannedToken(w, s) ==
    s \in todo[w] /\ w \in fresh[s] /\ (spc[w] = "next" \/ swept[w] # s) =>
        s \in exists /\ status[s] = snap[w][s][1] /\ content[s] = snap[w][s][2]

SweptToken(w) ==
    spc[w] # "next" /\ w \in fresh[swept[w]] =>
        /\ swept[w] \in exists
        /\ status[swept[w]] = "pending"
        /\ content[swept[w]] = snap[w][swept[w]][2]

LoadedToken(c) ==
    cpc[c] \in {"claim", "dead_cas"} /\ c \in fresh[SessionOf(c)] =>
        /\ SessionOf(c) \in exists
        /\ status[SessionOf(c)] = seen[c][1]
        /\ content[SessionOf(c)] = seen[c][2]

OwnerToken(c) ==
    Working(c) /\ c \in fresh[SessionOf(c)] =>
        /\ SessionOf(c) \in exists
        /\ status[SessionOf(c)] = "processing"
        /\ content[SessionOf(c)] = seen[c][2]

TokensTellTruth ==
    /\ \A w \in Sweepers : SweptToken(w) /\ \A s \in Sessions : ScannedToken(w, s)
    /\ \A c \in Consumers : LoadedToken(c) /\ OwnerToken(c)

UniqueOwner ==
    \A s \in Sessions : \A c, d \in Consumers : Owns(c, s) /\ Owns(d, s) => c = d

(* What a process remembers of the decisions it took.                      *)
SweepDecision(w) ==
    /\ \A s \in todo[w] : snap[w][s][1] \in {"active", "pending"}
    /\ spc[w] # "next" => swept[w] \in todo[w]

ClaimMemory(c) ==
    /\ cpc[c] = "claim" => seen[c][1] \in {"queued", "processing", "done"}
    /\ cpc[c] = "dead_cas" => seen[c][1] \notin {"done", "dead_letter"}

DecisionsStand ==
    /\ \A w \in Sweepers : SweepDecision(w)
    /\ \A c \in Consumers : ClaimMemory(c)

(* No transcript recurs.                                                   *)
VersionsGrow ==
    /\ \A s \in Sessions : content[s] <= version[s]
    /\ \A m \in 1..last : job[m][2] <= version[job[m][1]]
    /\ \A w \in Sweepers : \A s \in todo[w] : snap[w][s][2] <= version[s]

(* A dedup key, or a sweeper past its XADD, stands for a message; and the  *)
(* messages that carry the transcript of a session that is not queued yet  *)
(* are all still pending.                                                  *)
KeysHaveMessages ==
    /\ \A j \in dedup : \E m \in 1..last : job[m] = j
    /\ \A w \in Sweepers : spc[w] \in {"setkey", "queue"} =>
         \E m \in 1..last : job[m] = SweptJob(w)

UnqueuedMessagesPending ==
    \A m \in 1..last :
        status[job[m][1]] \in {"active", "pending"} /\ job[m][2] = content[job[m][1]]
            => Pending(m)

IInv ==
    /\ TypeOK
    /\ TokensTellTruth
    /\ DecisionsStand
    /\ UniqueOwner
    /\ VersionsGrow
    /\ KeysHaveMessages
    /\ UnqueuedMessagesPending
    /\ QueuedHasMessage

---------------------------------------------------------------------------
(* What LifecycleEdges and DeadStreamAgrees need besides: only the expiry  *)
(* of a document makes the store forget that its session was swept or      *)
(* dead-lettered.                                                          *)
ForgottenOnlyByExpiry ==
    expiries = 0 =>
        /\ \A m \in 1..last : status[job[m][1]] # "active"
        /\ \A m \in dead : status[job[m][1]] = "dead_letter"
        /\ \A w \in Sweepers :
             /\ spc[w] # "next" => status[swept[w]] # "active"
             /\ \A s \in todo[w] : snap[w][s][1] = "pending" => status[s] # "active"
        /\ \A c \in Consumers : cpc[c] = "dead_add" => status[SessionOf(c)] = "dead_letter"

(* With one consumer process, what OneRunPerJob and InFlightCanFinish need *)
(* (a second one refutes the latter): it holds no delivery that has been   *)
(* acknowledged and none twice, acknowledges no session it left in flight, *)
(* and writes next to no other run's rows.                                 *)
SoleConsumer == \A c, d \in Consumers : c = d

HeldOnce(c) ==
    /\ \A d \in inbox[c] : mstate[d[1]] \in {"pel", "trimmed"}
    /\ \A d, e \in inbox[c] : d[1] = e[1] => d = e
    /\ cpc[c] # "next" =>
         mstate[MsgOf(c)] \in {"pel", "trimmed"} /\ \A d \in inbox[c] : d[1] # MsgOf(c)

RunningHasMessage ==
    \A s \in Sessions : status[s] = "processing" =>
        \E m \in 1..last : job[m][1] = s /\ mstate[m] \in {"new", "pel", "trimmed"}

SoleConsumerInv ==
    /\ \A c \in Consumers : HeldOnce(c)
    /\ \A c \in Consumers : cpc[c] \in {"ack", "dead_add"} => status[SessionOf(c)] # "processing"
    /\ \A c \in Consumers : cpc[c] \in {"put", "stages", "review"} =>
         \A r \in rows : r[1] = JobOf(c) => r[3] = cur[c]
    /\ OneRunPerJob
    /\ RunningHasMessage

============================================================================
