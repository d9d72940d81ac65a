--------------------------- MODULE LearningQueue ---------------------------
(***************************************************************************)
(* RedisStreamsLearningQueue: the work stream with its consumer group, the *)
(* enqueue-dedup keys and the dead-letter stream.  Each Redis command is   *)
(* atomic; the queue methods that issue several commands are several       *)
(* actions of LearningLoop.                                                *)
(***************************************************************************)
EXTENDS Integers, FiniteSets

CONSTANTS
    MaxMsgs,        \* bound: XADDs to the work stream
    MaxDeliveries,  \* LEARNING_MAX_DELIVERIES
    MaxLen,         \* MAXLEN of the work stream
    BatchSize       \* LEARNING_BATCH_SIZE, the COUNT of XREADGROUP

ASSUME QueueAssumption ==
    /\ MaxMsgs \in Nat \ {0}
    /\ MaxDeliveries \in Nat \ {0}
    /\ MaxLen \in Nat \ {0}
    /\ BatchSize \in Nat \ {0}

VARIABLES
    last,    \* id of the newest stream entry; entries are 1..last
    job,     \* job[m] = <<session_id, content_hash>> of entry m
    mstate,  \* where entry m is: see MsgState
    count,   \* times_delivered of entry m, saturating at MaxDeliveries + 1
    stale,   \* pending entries idle for longer than min_idle_ms
    dedup,   \* jobs whose enqueue-dedup key is set
    dead     \* work-stream ids written to the dead-letter stream

queueVars == <<last, job, mstate, count, stale, dedup, dead>>

Msg == 1..MaxMsgs

(* unused: not yet added; new: not delivered to the group; pel: delivered  *)
(* and not acknowledged; acked; trimmed: removed by MAXLEN before its ack. *)
MsgState == {"unused", "new", "pel", "acked", "trimmed"}

NoJob == <<>>

QueueTypeOK(Jobs) ==
    /\ last \in 0..MaxMsgs
    /\ job \in [Msg -> Jobs \cup {NoJob}]
    /\ mstate \in [Msg -> MsgState]
    /\ \A m \in Msg : (mstate[m] = "unused" <=> m > last) /\ (m <= last => job[m] \in Jobs)
    /\ count \in [Msg -> 0..(MaxDeliveries + 1)]
    /\ stale \subseteq {m \in Msg : mstate[m] = "pel"}
    /\ dedup \subseteq Jobs
    /\ dead \subseteq 1..last

QueueInit ==
    /\ last = 0
    /\ job = [m \in Msg |-> NoJob]
    /\ mstate = [m \in Msg |-> "unused"]
    /\ count = [m \in Msg |-> 0]
    /\ stale = {}
    /\ dedup = {}
    /\ dead = {}

(* XADD ... MAXLEN ~ MaxLen: the entries up to some id `cut` are removed,  *)
(* acknowledged or not, and at least MaxLen entries are kept.              *)
XAdd(j) ==
    /\ last < MaxMsgs
    /\ last' = last + 1
    /\ job' = [job EXCEPT ![last + 1] = j]
    /\ \E cut \in {0} \cup 1..(last + 1 - MaxLen) :
         /\ mstate' = [m \in Msg |-> IF m = last + 1 THEN "new"
                                     ELSE IF m <= cut /\ mstate[m] \in {"new", "pel"}
                                          THEN "trimmed" ELSE mstate[m]]
         /\ stale' = {m \in stale : m > cut}
    /\ UNCHANGED <<count, dedup, dead>>

(* SET of the dedup key, and its expiry.                                   *)
MarkEnqueued(j) ==
    /\ dedup' = dedup \cup {j}
    /\ UNCHANGED <<last, job, mstate, count, stale, dead>>

ExpireDedupKey(j) ==
    /\ j \in dedup
    /\ dedup' = dedup \ {j}
    /\ UNCHANGED <<last, job, mstate, count, stale, dead>>

(* The oldest BatchSize undelivered entries.                               *)
NextNew ==
    LET new == {m \in Msg : mstate[m] = "new"}
    IN  {m \in new : Cardinality({k \in new : k < m}) < BatchSize}

(* XREADGROUP '>' hands NextNew to the caller.                             *)
XReadGroup ==
    /\ mstate' = [m \in Msg |-> IF m \in NextNew THEN "pel" ELSE mstate[m]]
    /\ count' = [m \in Msg |-> IF m \in NextNew THEN 1 ELSE count[m]]
    /\ UNCHANGED <<last, job, stale, dedup, dead>>

(* An undelivered acknowledgement ages past min_idle_ms.                   *)
Age(m) ==
    /\ mstate[m] = "pel"
    /\ m \notin stale
    /\ stale' = stale \cup {m}
    /\ UNCHANGED <<last, job, mstate, count, dedup, dead>>

(* times_delivered after one more delivery.                                *)
NextCount(m) == IF count[m] > MaxDeliveries THEN count[m] ELSE count[m] + 1

(* XAUTOCLAIM 0-0 followed by XPENDING for each claimed entry: every stale *)
(* entry changes owner, its idle clock restarts, its count goes up.        *)
XAutoClaim ==
    /\ count' = [m \in Msg |-> IF m \in stale THEN NextCount(m) ELSE count[m]]
    /\ stale' = {}
    /\ UNCHANGED <<last, job, mstate, dedup, dead>>

(* XACK.                                                                   *)
XAck(m) ==
    /\ mstate' = [mstate EXCEPT ![m] = "acked"]
    /\ stale' = stale \ {m}
    /\ UNCHANGED <<last, job, count, dedup, dead>>

(* XADD to the dead-letter stream, the first half of finalize_dead_letter. *)
XAddDead(m) ==
    /\ dead' = dead \cup {m}
    /\ UNCHANGED <<last, job, mstate, count, stale, dedup>>
============================================================================
