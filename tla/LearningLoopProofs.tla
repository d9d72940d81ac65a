------------------------- MODULE LearningLoopProofs -------------------------
(***************************************************************************)
(* Proofs about LearningLoop, for every number of sessions, sweepers,      *)
(* consumers, messages, edits, expiries and faults.                        *)
(***************************************************************************)
EXTENDS LearningLoop, TLAPS

---------------------------------------------------------------------------
(* The store operations keep the session variables well typed.             *)

LEMMA AppendMessageType ==
    ASSUME SessionTypeOK, NEW s \in Sessions, AppendMessage(s)
    PROVE  SessionTypeOK'
BY LifecycleAssumption DEF SessionTypeOK, AppendMessage

LEMMA TouchSessionType ==
    ASSUME SessionTypeOK, NEW s \in Sessions, TouchSession(s)
    PROVE  SessionTypeOK'
BY LifecycleAssumption DEF SessionTypeOK, TouchSession

LEMMA GoIdleType ==
    ASSUME SessionTypeOK, NEW s \in Sessions, GoIdle(s)
    PROVE  SessionTypeOK'
BY DEF SessionTypeOK, GoIdle, budgetVars

LEMMA ExpireType ==
    ASSUME SessionTypeOK, NEW s \in Sessions, Expire(s)
    PROVE  SessionTypeOK'
BY LifecycleAssumption DEF SessionTypeOK, Expire, Status

LEMMA ScanType ==
    ASSUME SessionTypeOK, NEW w \in Workers, NEW S, ScanIdleSessions(w, S)
    PROVE  SessionTypeOK'
BY DEF SessionTypeOK, ScanIdleSessions, budgetVars

LEMMA GetSessionType ==
    ASSUME SessionTypeOK, NEW w \in Workers, NEW s \in Sessions, GetSessionWithCas(w, s)
    PROVE  SessionTypeOK'
BY DEF SessionTypeOK, GetSessionWithCas, budgetVars

LEMMA SetStatusType ==
    ASSUME SessionTypeOK, NEW w \in Workers, NEW s \in Sessions, NEW to \in Status,
           NEW h \in Nat \cup {NoHash}, SetLearningStatus(w, s, to, h)
    PROVE  SessionTypeOK'
BY DEF SessionTypeOK, SetLearningStatus, budgetVars

LEMMA SessionSame ==
    ASSUME SessionTypeOK, UNCHANGED sessionVars
    PROVE  SessionTypeOK'
BY DEF SessionTypeOK, sessionVars, docVars, budgetVars

---------------------------------------------------------------------------
(* The Redis commands keep the queue variables well typed.                 *)

LEMMA XAddType ==
    ASSUME QueueTypeOK(Jobs), NEW j \in Jobs, XAdd(j)
    PROVE  QueueTypeOK(Jobs)'
<1>. DEFINE k == last + 1
<1>1. k \in Msg /\ last' = k /\ k \in 1..MaxMsgs
  BY QueueAssumption DEF QueueTypeOK, XAdd, Msg
<1>2. PICK cut \in {0} \cup 1..(last + 1 - MaxLen) :
         /\ mstate' = [m \in Msg |-> IF m = last + 1 THEN "new"
                                     ELSE IF m <= cut /\ mstate[m] \in {"new", "pel"}
                                          THEN "trimmed" ELSE mstate[m]]
         /\ stale' = {m \in stale : m > cut}
  BY DEF XAdd
<1>3. cut \in Nat /\ cut <= last
  BY <1>2, QueueAssumption DEF QueueTypeOK
<1>4. mstate' \in [Msg -> MsgState]
  BY <1>1, <1>2 DEF QueueTypeOK, MsgState
<1>5. job' \in [Msg -> Jobs \cup {NoJob}] /\ job' = [job EXCEPT ![k] = j]
  BY <1>1 DEF QueueTypeOK, XAdd
<1>6. \A m \in Msg : (mstate'[m] = "unused" <=> m > last') /\ (m <= last' => job'[m] \in Jobs)
  <2>1. ASSUME NEW m \in Msg, m # k
        PROVE  mstate'[m] = "unused" <=> m > last'
    BY <1>1, <1>2, <1>3, <2>1 DEF QueueTypeOK, Msg
  <2>2. ASSUME NEW m \in Msg, m # k, m <= last'
        PROVE  job'[m] \in Jobs
    BY <1>1, <1>5, <2>2 DEF QueueTypeOK, Msg
  <2>3. mstate'[k] = "new" /\ job'[k] = j
    BY <1>1, <1>2, <1>5 DEF QueueTypeOK
  <2>. QED
    BY <1>1, <2>1, <2>2, <2>3 DEF Msg
<1>7. stale' \subseteq {m \in Msg : mstate'[m] = "pel"}
  <2>. SUFFICES ASSUME NEW m \in stale'
                PROVE  m \in Msg /\ mstate'[m] = "pel"
    OBVIOUS
  <2>1. m \in stale /\ m > cut
    BY <1>2
  <2>2. m \in Msg /\ mstate[m] = "pel" /\ ~(m > last)
    BY <2>1 DEF QueueTypeOK
  <2>3. m # last + 1 /\ ~(m <= cut)
    BY <1>3, <2>1, <2>2 DEF QueueTypeOK, Msg
  <2>. QED
    BY <1>2, <2>2, <2>3
<1>8. UNCHANGED <<count, dedup>> /\ dead' = dead /\ dead \subseteq 1..last
  BY DEF XAdd, QueueTypeOK
<1>9. dead' \subseteq 1..last' /\ last' \in 0..MaxMsgs
  BY <1>1, <1>8, QueueAssumption DEF QueueTypeOK
<1>. QED
  BY <1>4, <1>5, <1>6, <1>7, <1>8, <1>9 DEF QueueTypeOK

LEMMA XReadGroupType ==
    ASSUME QueueTypeOK(Jobs), XReadGroup
    PROVE  QueueTypeOK(Jobs)'
<1>1. \A m \in NextNew : m \in Msg /\ mstate[m] = "new"
  BY DEF NextNew
<1>. QED
  BY <1>1, QueueAssumption DEF QueueTypeOK, XReadGroup, Msg, MsgState, Jobs

LEMMA XAutoClaimType ==
    ASSUME QueueTypeOK(Jobs), XAutoClaim
    PROVE  QueueTypeOK(Jobs)'
BY QueueAssumption DEF QueueTypeOK, XAutoClaim, NextCount, Msg, Jobs

LEMMA AgeType ==
    ASSUME QueueTypeOK(Jobs), NEW m \in Msg, Age(m)
    PROVE  QueueTypeOK(Jobs)'
BY DEF QueueTypeOK, Age, Msg, Jobs

LEMMA XAckType ==
    ASSUME QueueTypeOK(Jobs), NEW m \in Msg, m <= last, XAck(m)
    PROVE  QueueTypeOK(Jobs)'
BY QueueAssumption DEF QueueTypeOK, XAck, Msg, MsgState, Jobs

LEMMA XAddDeadType ==
    ASSUME QueueTypeOK(Jobs), NEW m \in Msg, m <= last, XAddDead(m)
    PROVE  QueueTypeOK(Jobs)'
BY QueueAssumption DEF QueueTypeOK, XAddDead, Msg, Jobs

LEMMA MarkType ==
    ASSUME QueueTypeOK(Jobs), NEW j \in Jobs, MarkEnqueued(j) \/ ExpireDedupKey(j)
    PROVE  QueueTypeOK(Jobs)'
BY DEF QueueTypeOK, MarkEnqueued, ExpireDedupKey, Msg, Jobs

LEMMA QueueSame ==
    ASSUME QueueTypeOK(Jobs), UNCHANGED queueVars
    PROVE  QueueTypeOK(Jobs)'
BY DEF QueueTypeOK, queueVars, Jobs
---------------------------------------------------------------------------
(* Type correctness, one process at a time.                                *)

LEMMA SweeperSame ==
    ASSUME SweeperTypeOK, UNCHANGED sweeperVars
    PROVE  SweeperTypeOK'
BY DEF SweeperTypeOK, sweeperVars

LEMMA ConsumerSame ==
    ASSUME ConsumerTypeOK, UNCHANGED <<consumerVars, rows>>,
           last \in Int, last' \in Int, last <= last'
    PROVE  ConsumerTypeOK'
BY QueueAssumption DEF ConsumerTypeOK, consumerVars, Delivery, Msg

LEMMA EnvSame ==
    ASSUME EnvTypeOK, UNCHANGED envVars
    PROVE  EnvTypeOK'
BY DEF EnvTypeOK, envVars

LEMMA LastType ==
    ASSUME QueueTypeOK(Jobs)
    PROVE  last \in Int
BY QueueAssumption DEF QueueTypeOK

(* The delivery in hand names a message on the stream, so it has a job.    *)
LEMMA CurrentDelivery ==
    ASSUME QueueTypeOK(Jobs), ConsumerTypeOK, NEW c \in Consumers, cpc[c] # "next"
    PROVE  /\ MsgOf(c) \in Msg /\ MsgOf(c) <= last
           /\ JobOf(c) \in Jobs
           /\ SessionOf(c) \in Sessions
           /\ cur[c] \in Delivery
<1>1. cur[c] \in Delivery /\ cur[c][1] \in Msg /\ cur[c][1] <= last
  BY DEF ConsumerTypeOK, Delivery
<1>2. JobOf(c) \in Jobs
  BY <1>1 DEF QueueTypeOK, JobOf, MsgOf
<1>. QED
  BY <1>1, <1>2 DEF Jobs, SessionOf, MsgOf

LEMMA SweptJobType ==
    ASSUME SweeperTypeOK, NEW w \in Sweepers, spc[w] # "next"
    PROVE  swept[w] \in Sessions /\ SweptJob(w) \in Jobs /\ snap[w][swept[w]][2] \in Nat
BY DEF SweeperTypeOK, SweptJob, Jobs, Snapshot

LEMMA SweeperStepType ==
    ASSUME TypeOK, NEW w \in Sweepers, SweeperStep(w) \/ SweepError(w) \/ SweepCrash(w)
    PROVE  TypeOK'
<1>. USE DEF TypeOK
<1>0. w \in Workers
  BY LoopAssumption
<1>1. CASE SweepScan(w)
  <2>1. PICK S \in SUBSET Sweepable :
           /\ ScanIdleSessions(w, S)
           /\ todo' = [todo EXCEPT ![w] = S]
           /\ snap' = [snap EXCEPT ![w] =
                       [s \in Sessions |-> IF s \in S THEN <<status[s], content[s]>>
                                           ELSE NoSnap]]
    BY <1>1 DEF SweepScan
  <2>2. S \subseteq Sessions
    BY DEF Sweepable, SessionTypeOK
  <2>3. SessionTypeOK'
    BY <1>0, <2>1, ScanType
  <2>4. [s \in Sessions |-> IF s \in S THEN <<status[s], content[s]>> ELSE NoSnap]
            \in [Sessions -> Snapshot]
    BY DEF SessionTypeOK, Snapshot, NoSnap, Status
  <2>5. snap' \in [Sweepers -> [Sessions -> Snapshot]]
    BY <2>1, <2>4 DEF SweeperTypeOK
  <2>6. SweeperTypeOK'
    BY <1>1, <2>1, <2>2, <2>5 DEF SweepScan, SweeperTypeOK
  <2>7. UNCHANGED queueVars /\ UNCHANGED <<consumerVars, rows>> /\ UNCHANGED envVars
    BY <1>1 DEF SweepScan
  <2>. QED
    BY <2>3, <2>6, <2>7, QueueSame, EnvSame, ConsumerSame, LastType DEF queueVars
<1>2. ASSUME NEW s \in Sessions, SweepClaim(w, s)
      PROVE  TypeOK'
  <2>1. SessionTypeOK'
    <3>1. CASE SetLearningStatus(w, s, "pending", NoHash)
      BY <1>0, <3>1, SetStatusType DEF Status
    <3>2. CASE UNCHANGED sessionVars
      BY <3>2, SessionSame
    <3>. QED
      BY <1>2, <3>1, <3>2 DEF SweepClaim
  <2>2. SweeperTypeOK'
    BY <1>2 DEF SweepClaim, SweeperTypeOK, SweeperPC
  <2>3. UNCHANGED queueVars /\ UNCHANGED <<consumerVars, rows>> /\ UNCHANGED envVars
    BY <1>2 DEF SweepClaim
  <2>. QED
    BY <2>1, <2>2, <2>3, QueueSame, EnvSame, ConsumerSame, LastType DEF queueVars
<1>3. CASE SweepLookup(w)
  <2>1. SweeperTypeOK'
    BY <1>3 DEF SweepLookup, SweepTo, SweeperTypeOK, SweeperPC
  <2>2. UNCHANGED sessionVars /\ UNCHANGED queueVars /\ UNCHANGED <<consumerVars, rows>>
        /\ UNCHANGED envVars
    BY <1>3 DEF SweepLookup
  <2>. QED
    BY <2>1, <2>2, SessionSame, QueueSame, EnvSame, ConsumerSame, LastType DEF queueVars
<1>4. CASE SweepXAdd(w)
  <2>1. SweeperTypeOK'
    BY <1>4 DEF SweepXAdd, SweepTo, SweeperTypeOK, SweeperPC
  <2>2. SweptJob(w) \in Jobs /\ XAdd(SweptJob(w))
    BY <1>4, SweptJobType DEF SweepXAdd
  <2>3. QueueTypeOK(Jobs)' /\ last' = last + 1
    BY <2>2, XAddType DEF XAdd
  <2>4. UNCHANGED sessionVars /\ UNCHANGED <<consumerVars, rows>> /\ UNCHANGED envVars
    BY <1>4 DEF SweepXAdd
  <2>5. last \in Int /\ last' \in Int /\ last <= last'
    BY <2>3, LastType
  <2>6. ConsumerTypeOK'
    BY <2>4, <2>5, ConsumerSame
  <2>. QED
    BY <2>1, <2>3, <2>4, <2>6, SessionSame, EnvSame
<1>5. CASE SweepSetKey(w)
  <2>1. SweeperTypeOK'
    BY <1>5 DEF SweepSetKey, SweepTo, SweeperTypeOK, SweeperPC
  <2>2. SweptJob(w) \in Jobs /\ MarkEnqueued(SweptJob(w))
    BY <1>5, SweptJobType DEF SweepSetKey
  <2>3. QueueTypeOK(Jobs)' /\ last' = last
    BY <2>2, MarkType DEF MarkEnqueued
  <2>4. UNCHANGED sessionVars /\ UNCHANGED <<consumerVars, rows>> /\ UNCHANGED envVars
    BY <1>5 DEF SweepSetKey
  <2>. QED
    BY <2>1, <2>3, <2>4, SessionSame, EnvSame, ConsumerSame, LastType
<1>6. CASE SweepQueue(w)
  <2>1. swept[w] \in Sessions /\ snap[w][swept[w]][2] \in Nat
    BY <1>6, SweptJobType DEF SweepQueue
  <2>2. SessionTypeOK'
    <3>1. CASE SetLearningStatus(w, swept[w], "queued", snap[w][swept[w]][2])
      BY <1>0, <2>1, <3>1, SetStatusType DEF Status
    <3>2. CASE UNCHANGED sessionVars
      BY <3>2, SessionSame
    <3>. QED
      BY <1>6, <3>1, <3>2 DEF SweepQueue
  <2>3. SweeperTypeOK'
    BY <1>6 DEF SweepQueue, SweepNext, SweeperTypeOK, SweeperPC
  <2>4. UNCHANGED queueVars /\ UNCHANGED <<consumerVars, rows>> /\ UNCHANGED envVars
    BY <1>6 DEF SweepQueue
  <2>. QED
    BY <2>2, <2>3, <2>4, QueueSame, EnvSame, ConsumerSame, LastType DEF queueVars
<1>7. CASE SweepError(w) \/ SweepCrash(w)
  <2>1. SweeperTypeOK'
    BY <1>7 DEF SweepError, SweepCrash, SweepNext, SweeperTypeOK, SweeperPC
  <2>2. EnvTypeOK'
    BY <1>7, LoopAssumption DEF SweepError, SweepCrash, EnvTypeOK
  <2>3. UNCHANGED sessionVars /\ UNCHANGED queueVars /\ UNCHANGED <<consumerVars, rows>>
    BY <1>7 DEF SweepError, SweepCrash
  <2>. QED
    BY <2>1, <2>2, <2>3, SessionSame, QueueSame, ConsumerSame, LastType DEF queueVars
<1>. QED
  BY <1>1, <1>2, <1>3, <1>4, <1>5, <1>6, <1>7 DEF SweeperStep

(* The consumer goes on to another step of the same delivery, or ends it.  *)
LEMMA GoToType ==
    ASSUME ConsumerTypeOK, NEW c \in Consumers, NEW pc \in ConsumerPC, cpc[c] # "next",
           GoTo(c, pc), UNCHANGED last, rows' \subseteq Row
    PROVE  ConsumerTypeOK'
BY DEF ConsumerTypeOK, GoTo

LEMMA EndDeliveryType ==
    ASSUME ConsumerTypeOK, NEW c \in Consumers, EndDelivery(c), UNCHANGED <<last, rows>>
    PROVE  ConsumerTypeOK'
BY LoopAssumption DEF ConsumerTypeOK, EndDelivery, ConsumerPC, Snapshot, NoSnap, Status

LEMMA UpsertType ==
    ASSUME rows \subseteq Row, NEW j \in Jobs, NEW ord \in 0..MaxCands, NEW d \in Delivery
    PROVE  Upsert(j, ord, d) \subseteq Row
BY DEF Upsert, Row

LEMMA AfterLoadType ==
    ASSUME SessionTypeOK, NEW d \in Delivery, NEW s \in Sessions, NEW b \in BOOLEAN
    PROVE  AfterLoad(d, s, b) \in ConsumerPC
<1>1. status[s] \in Status
  BY DEF SessionTypeOK
<1>2. ClaimDecision(status[s], b) \in {"forward", "recover", "refuse", "terminal"}
  BY <1>1 DEF ClaimDecision, Status
<1>. QED
  BY <1>2 DEF AfterLoad, ConsumerPC

LEMMA ConsumerStepType ==
    ASSUME TypeOK, NEW c \in Consumers, ConsumerStep(c) \/ ConsumeError(c) \/ ConsumeCrash(c)
    PROVE  TypeOK'
<1>. USE DEF TypeOK
<1>0. c \in Workers
  BY LoopAssumption
<1>1. CASE ConsumeReclaim(c)
  <2>1. QueueTypeOK(Jobs)' /\ last' = last
    BY <1>1, XAutoClaimType DEF ConsumeReclaim, XAutoClaim
  <2>2. \A m \in stale : m \in Msg /\ m <= last /\ NextCount(m) \in 1..(MaxDeliveries + 1)
    BY QueueAssumption DEF QueueTypeOK, Msg, NextCount
  <2>3. /\ {<<m, NextCount(m)>> : m \in stale} \subseteq Delivery
        /\ \A d \in {<<m, NextCount(m)>> : m \in stale} : d[1] <= last
    BY <2>2 DEF Delivery
  <2>4. ConsumerTypeOK'
    BY <1>1, <2>1, <2>3 DEF ConsumeReclaim, ConsumerTypeOK
  <2>. QED
    BY <1>1, <2>1, <2>4, SessionSame, SweeperSame, EnvSame DEF ConsumeReclaim
<1>2. CASE ConsumeNew(c)
  <2>1. QueueTypeOK(Jobs)' /\ last' = last
    BY <1>2, XReadGroupType DEF ConsumeNew, XReadGroup
  <2>2. \A m \in NextNew : m \in Msg /\ m <= last
    BY DEF NextNew, QueueTypeOK, Msg
  <2>3. {<<m, 1>> : m \in NextNew} \subseteq Delivery /\ \A d \in {<<m, 1>> : m \in NextNew} : d[1] <= last
    BY <2>2, QueueAssumption DEF Delivery
  <2>4. ConsumerTypeOK'
    BY <1>2, <2>1, <2>3 DEF ConsumeNew, ConsumerTypeOK
  <2>. QED
    BY <1>2, <2>1, <2>4, SessionSame, SweeperSame, EnvSame DEF ConsumeNew
<1>3. CASE ConsumeLoad(c)
  <2>. DEFINE S(d) == job[d[1]][1]
              PC(d) == AfterLoad(d, S(d), path[c] = "reclaimed")
  <2>1. PICK d \in inbox[c] :
             /\ inbox' = [inbox EXCEPT ![c] = @ \ {d}]
             /\ GetSessionWithCas(c, S(d))
             /\ cpc' = [cpc EXCEPT ![c] = PC(d)]
             /\ cur' = [cur EXCEPT ![c] = IF PC(d) = "next" THEN NoDelivery ELSE d]
             /\ seen' = [seen EXCEPT ![c] = IF PC(d) = "next" THEN NoSnap
                                            ELSE <<status[S(d)], content[S(d)]>>]
    BY <1>3 DEF ConsumeLoad
  <2>2. d \in Delivery /\ d[1] <= last
    BY DEF ConsumerTypeOK
  <2>3. job[d[1]] \in Jobs
    BY <2>2 DEF QueueTypeOK, Delivery
  <2>4. S(d) \in Sessions
    BY <2>3 DEF Jobs
  <2>5. PC(d) \in ConsumerPC
    BY <2>2, <2>4, AfterLoadType
  <2>6. <<status[S(d)], content[S(d)]>> \in Snapshot /\ NoSnap \in Snapshot
    BY <2>4 DEF SessionTypeOK, Snapshot, NoSnap, Status
  <2>. HIDE DEF S, PC
  <2>7. UNCHANGED queueVars /\ UNCHANGED sweeperVars /\ UNCHANGED envVars
        /\ UNCHANGED <<path, ncands, nput, rows>>
    BY <1>3 DEF ConsumeLoad
  <2>8. ConsumerTypeOK'
    BY <2>1, <2>2, <2>5, <2>6, <2>7 DEF ConsumerTypeOK, queueVars
  <2>9. SessionTypeOK'
    BY <1>0, <2>1, <2>4, GetSessionType
  <2>. QED
    BY <2>7, <2>8, <2>9, QueueSame, SweeperSame, EnvSame
<1>4. CASE ConsumeClaim(c) \/ ConsumeFinish(c) \/ ConsumeDeadCas(c)
  <2>1. SessionOf(c) \in Sessions /\ seen[c][2] \in Nat /\ cpc[c] # "next"
    <3>1. cpc[c] # "next"
      BY <1>4 DEF ConsumeClaim, ConsumeFinish, ConsumeDeadCas
    <3>. QED
      BY <3>1, CurrentDelivery DEF ConsumerTypeOK, Snapshot
  <2>2. SessionTypeOK'
    <3>1. CASE \E to \in Status, h \in Nat \cup {NoHash} : SetLearningStatus(c, SessionOf(c), to, h)
      BY <1>0, <2>1, <3>1, SetStatusType
    <3>2. CASE UNCHANGED sessionVars
      BY <3>2, SessionSame
    <3>. QED
      BY <1>4, <2>1, <3>1, <3>2 DEF ConsumeClaim, ConsumeFinish, ConsumeDeadCas, Status
  <2>3. UNCHANGED queueVars /\ UNCHANGED sweeperVars /\ UNCHANGED rows /\ UNCHANGED envVars
    BY <1>4 DEF ConsumeClaim, ConsumeFinish, ConsumeDeadCas
  <2>4. ConsumerTypeOK'
    <3>1. CASE EndDelivery(c)
      BY <3>1, <2>3, EndDeliveryType DEF queueVars
    <3>2. CASE GoTo(c, "work") \/ GoTo(c, "ack") \/ GoTo(c, "dead_add")
      BY <3>2, <2>1, <2>3, GoToType DEF queueVars, ConsumerPC, ConsumerTypeOK
    <3>. QED
      BY <1>4, <3>1, <3>2 DEF ConsumeClaim, ConsumeFinish, ConsumeDeadCas
  <2>. QED
    BY <2>2, <2>3, <2>4, QueueSame, SweeperSame, EnvSame
<1>5. CASE ConsumeWork(c)
  <2>1. UNCHANGED sessionVars /\ UNCHANGED queueVars /\ UNCHANGED sweeperVars
        /\ UNCHANGED rows /\ UNCHANGED envVars /\ cpc[c] = "work"
    BY <1>5 DEF ConsumeWork
  <2>2. ConsumerTypeOK'
    BY <1>5, <2>1 DEF ConsumeWork, GoTo, ConsumerTypeOK, ConsumerPC, queueVars
  <2>. QED
    BY <2>1, <2>2, SessionSame, QueueSame, SweeperSame, EnvSame
<1>6. CASE ConsumeSupersede(c) \/ ConsumePut(c) \/ ConsumeStages(c) \/ ConsumeReview(c)
  <2>1. cpc[c] # "next"
    BY <1>6 DEF ConsumeSupersede, ConsumePut, ConsumeStages, ConsumeReview
  <2>2. JobOf(c) \in Jobs /\ cur[c] \in Delivery
    BY <2>1, CurrentDelivery
  <2>3. UNCHANGED sessionVars /\ UNCHANGED queueVars /\ UNCHANGED sweeperVars /\ UNCHANGED envVars
    BY <1>6 DEF ConsumeSupersede, ConsumePut, ConsumeStages, ConsumeReview
  <2>4. nput[c] \in 0..MaxCands /\ ncands[c] \in 0..MaxCands /\ rows \subseteq Row
    BY DEF ConsumerTypeOK
  <2>5. rows' \subseteq Row
    <3>1. CASE ConsumePut(c)
      <4>1. nput[c] + 1 \in 0..MaxCands
        BY <2>4, <3>1, LoopAssumption DEF ConsumePut
      <4>. QED
        BY <2>2, <2>4, <3>1, <4>1, UpsertType DEF ConsumePut
    <3>2. CASE ConsumeStages(c)
      BY <2>2, <2>4, <3>2, UpsertType DEF ConsumeStages
    <3>3. CASE ConsumeReview(c)
      BY <2>2, <2>4, <3>3, UpsertType, LoopAssumption DEF ConsumeReview
    <3>4. CASE ConsumeSupersede(c)
      BY <2>4, <3>4 DEF ConsumeSupersede
    <3>. QED
      BY <1>6, <3>1, <3>2, <3>3, <3>4
  <2>6. ConsumerTypeOK'
    <3>1. CASE ConsumePut(c)
      BY <2>1, <2>3, <2>4, <2>5, <3>1, LoopAssumption DEF ConsumePut, ConsumerTypeOK, ConsumerPC, queueVars
    <3>2. CASE GoTo(c, "review") \/ GoTo(c, "put") \/ GoTo(c, "finish")
      BY <2>1, <2>3, <2>5, <3>2, GoToType DEF queueVars, ConsumerPC
    <3>. QED
      BY <1>6, <3>1, <3>2 DEF ConsumeSupersede, ConsumeStages, ConsumeReview
  <2>. QED
    BY <2>3, <2>6, SessionSame, QueueSame, SweeperSame, EnvSame
<1>7. CASE ConsumeAck(c) \/ ConsumeDeadAdd(c)
  <2>1. cpc[c] # "next"
    BY <1>7 DEF ConsumeAck, ConsumeDeadAdd
  <2>2. MsgOf(c) \in Msg /\ MsgOf(c) <= last
    BY <2>1, CurrentDelivery
  <2>3. QueueTypeOK(Jobs)' /\ last' = last
    BY <1>7, <2>2, XAckType, XAddDeadType DEF ConsumeAck, ConsumeDeadAdd, XAck, XAddDead
  <2>4. ConsumerTypeOK'
    <3>1. CASE ConsumeAck(c)
      BY <3>1, <2>3, EndDeliveryType DEF ConsumeAck
    <3>2. CASE ConsumeDeadAdd(c)
      <4>1. GoTo(c, "ack") /\ UNCHANGED rows /\ rows \subseteq Row
        BY <3>2 DEF ConsumeDeadAdd, ConsumerTypeOK
      <4>. QED
        BY <2>1, <2>3, <4>1, GoToType DEF ConsumerPC
    <3>. QED
      BY <1>7, <3>1, <3>2
  <2>. QED
    BY <1>7, <2>3, <2>4, SessionSame, SweeperSame, EnvSame DEF ConsumeAck, ConsumeDeadAdd
<1>8. CASE ConsumeError(c) \/ ConsumeCrash(c)
  <2>1. UNCHANGED sessionVars /\ UNCHANGED queueVars /\ UNCHANGED sweeperVars /\ UNCHANGED rows
    BY <1>8 DEF ConsumeError, ConsumeCrash
  <2>2. EnvTypeOK'
    BY <1>8, LoopAssumption DEF ConsumeError, ConsumeCrash, EnvTypeOK
  <2>3. ConsumerTypeOK'
    <3>1. CASE ConsumeError(c)
      BY <3>1, <2>1, EndDeliveryType DEF ConsumeError, queueVars
    <3>2. CASE ConsumeCrash(c)
      BY <3>2, <2>1, LoopAssumption
      DEF ConsumeCrash, ConsumerTypeOK, ConsumerPC, Snapshot, NoSnap, Status, queueVars
    <3>. QED
      BY <1>8, <3>1, <3>2
  <2>. QED
    BY <2>1, <2>2, <2>3, SessionSame, QueueSame, SweeperSame
<1>. QED
  BY <1>1, <1>2, <1>3, <1>4, <1>5, <1>6, <1>7, <1>8 DEF ConsumerStep

LEMMA EnvironmentType ==
    ASSUME TypeOK,
           \/ \E s \in Sessions : UserStep(s) \/ IdleThresholdPasses(s)
           \/ \E m \in Msg : AgeMessage(m)
           \/ DedupKeyExpires \/ SwitchOff \/ SwitchOn
    PROVE  TypeOK'
<1>. USE DEF TypeOK
<1>1. ASSUME NEW s \in Sessions, UserStep(s) \/ IdleThresholdPasses(s)
      PROVE  TypeOK'
  <2>1. SessionTypeOK'
    BY <1>1, AppendMessageType, TouchSessionType, GoIdleType, ExpireType
    DEF UserStep, IdleThresholdPasses
  <2>2. UNCHANGED queueVars /\ UNCHANGED sweeperVars /\ UNCHANGED <<consumerVars, rows>>
        /\ UNCHANGED envVars
    BY <1>1 DEF UserStep, IdleThresholdPasses
  <2>. QED
    BY <2>1, <2>2, QueueSame, SweeperSame, ConsumerSame, EnvSame, LastType DEF queueVars
<1>2. ASSUME NEW m \in Msg, AgeMessage(m)
      PROVE  TypeOK'
  <2>1. QueueTypeOK(Jobs)' /\ last' = last
    BY <1>2, AgeType DEF AgeMessage, Age
  <2>. QED
    BY <1>2, <2>1, SessionSame, SweeperSame, ConsumerSame, EnvSame, LastType DEF AgeMessage
<1>3. CASE DedupKeyExpires
  <2>1. PICK j \in dedup : ExpireDedupKey(j)
    BY <1>3 DEF DedupKeyExpires
  <2>2. j \in Jobs
    BY DEF QueueTypeOK
  <2>3. QueueTypeOK(Jobs)' /\ last' = last
    BY <2>1, <2>2, MarkType DEF ExpireDedupKey
  <2>4. EnvTypeOK'
    BY <1>3, LoopAssumption DEF DedupKeyExpires, EnvTypeOK
  <2>. QED
    BY <1>3, <2>3, <2>4, SessionSame, SweeperSame, ConsumerSame, LastType DEF DedupKeyExpires
<1>4. CASE SwitchOff \/ SwitchOn
  <2>1. EnvTypeOK'
    <3>1. enabled' \in BOOLEAN
      BY <1>4 DEF SwitchOff, SwitchOn
    <3>2. toggles' \in 0..MaxToggles
      <4>1. CASE SwitchOff
        BY <4>1, LoopAssumption DEF SwitchOff, EnvTypeOK
      <4>2. CASE SwitchOn
        BY <4>2 DEF SwitchOn, EnvTypeOK
      <4>. QED
        BY <1>4, <4>1, <4>2
    <3>3. UNCHANGED <<faults, keyExpiries>>
      BY <1>4 DEF SwitchOff, SwitchOn
    <3>. QED
      BY <3>1, <3>2, <3>3 DEF EnvTypeOK
  <2>. QED
    BY <1>4, <2>1, SessionSame, QueueSame, SweeperSame, ConsumerSame, LastType
    DEF SwitchOff, SwitchOn, queueVars
<1>. QED
  BY <1>1, <1>2, <1>3, <1>4

(* Every reachable state is well typed.                                    *)
THEOREM TypeCorrect == Spec => []TypeOK
<1>1. Init => TypeOK
  <2>. SUFFICES ASSUME Init PROVE TypeOK
    OBVIOUS
  <2>1. SessionTypeOK
    BY LifecycleAssumption DEF Init, SessionInit, SessionTypeOK, Status
  <2>2. QueueTypeOK(Jobs)
    BY QueueAssumption DEF Init, QueueInit, QueueTypeOK, Msg, MsgState
  <2>3. SweeperTypeOK
    BY DEF Init, SweeperTypeOK, SweeperPC, NoSnap, Snapshot, Status
  <2>4. ConsumerTypeOK /\ EnvTypeOK
    BY LoopAssumption
    DEF Init, ConsumerTypeOK, EnvTypeOK, ConsumerPC, NoSnap, Snapshot, Status
  <2>. QED
    BY <2>1, <2>2, <2>3, <2>4 DEF TypeOK
<1>2. TypeOK /\ [Next]_vars => TypeOK'
  <2>1. CASE UNCHANGED vars
    BY <2>1, SessionSame, QueueSame, SweeperSame, ConsumerSame, EnvSame, LastType
    DEF vars, TypeOK, queueVars
  <2>. QED
    BY <2>1, SweeperStepType, ConsumerStepType, EnvironmentType DEF Next
<1>. QED
  BY <1>1, <1>2, PTL DEF Spec

---------------------------------------------------------------------------
(* What the decisions of a process guarantee while it acts on them.        *)

(* Everything a sweeper keeps for itself is untouched.                     *)
SweeperUntouched(w) ==
    spc'[w] = spc[w] /\ todo'[w] = todo[w] /\ swept'[w] = swept[w] /\ snap'[w] = snap[w]

(* Everything a consumer keeps for its delivery is untouched.              *)
ConsumerUntouched(c) ==
    cpc'[c] = cpc[c] /\ cur'[c] = cur[c] /\ seen'[c] = seen[c]

(* A step moves one process, if any: all the others keep their state.      *)
LEMMA OthersUntouched ==
    ASSUME TypeOK, [Next]_vars
    PROVE  /\ \A w \in Sweepers :
                \/ SweeperStep(w) \/ SweepError(w) \/ SweepCrash(w)
                \/ SweeperUntouched(w)
           /\ \A c \in Consumers :
                \/ ConsumerStep(c) \/ ConsumeError(c) \/ ConsumeCrash(c)
                \/ ConsumerUntouched(c)
<1>. USE DEF TypeOK, SweeperUntouched, ConsumerUntouched
<1>1. CASE UNCHANGED <<sweeperVars, consumerVars>>
  BY <1>1 DEF sweeperVars, consumerVars
<1>2. ASSUME NEW w \in Sweepers, SweeperStep(w) \/ SweepError(w) \/ SweepCrash(w)
      PROVE  /\ UNCHANGED consumerVars
             /\ \A v \in Sweepers : v # w => SweeperUntouched(v)
  <2>1. UNCHANGED consumerVars
    BY <1>2 DEF SweeperStep, SweepError, SweepCrash, SweepScan, SweepClaim, SweepLookup,
                SweepXAdd, SweepSetKey, SweepQueue
  <2>2. ASSUME NEW v \in Sweepers, v # w
        PROVE  SweeperUntouched(v)
    BY <1>2, <2>2 DEF SweeperStep, SweepError, SweepCrash, SweepScan, SweepClaim, SweepLookup,
                SweepXAdd, SweepSetKey, SweepQueue, SweepTo, SweepNext, SweeperTypeOK
  <2>. QED
    BY <2>1, <2>2
<1>3. ASSUME NEW c \in Consumers, ConsumerStep(c) \/ ConsumeError(c) \/ ConsumeCrash(c)
      PROVE  /\ UNCHANGED sweeperVars
             /\ \A d \in Consumers : d # c => ConsumerUntouched(d)
  <2>1. UNCHANGED sweeperVars
    BY <1>3 DEF ConsumerStep, ConsumeError, ConsumeCrash, ConsumeReclaim, ConsumeNew,
                ConsumeLoad, ConsumeClaim, ConsumeWork, ConsumeSupersede, ConsumePut,
                ConsumeStages, ConsumeReview, ConsumeFinish, ConsumeAck, ConsumeDeadCas,
                ConsumeDeadAdd
  <2>2. ASSUME NEW d \in Consumers, d # c
        PROVE  ConsumerUntouched(d)
    BY <1>3, <2>2 DEF ConsumerStep, ConsumeError, ConsumeCrash, ConsumeReclaim, ConsumeNew,
                ConsumeLoad, ConsumeClaim, ConsumeWork, ConsumeSupersede, ConsumePut,
                ConsumeStages, ConsumeReview, ConsumeFinish, ConsumeAck, ConsumeDeadCas,
                ConsumeDeadAdd, GoTo, EndDelivery, ConsumerTypeOK
  <2>. QED
    BY <2>1, <2>2
<1>4. CASE \E s \in Sessions : UserStep(s) \/ IdleThresholdPasses(s)
  BY <1>1, <1>4 DEF UserStep, IdleThresholdPasses
<1>5. CASE \E m \in Msg : AgeMessage(m)
  BY <1>1, <1>5 DEF AgeMessage
<1>6. CASE DedupKeyExpires \/ SwitchOff \/ SwitchOn
  BY <1>1, <1>6 DEF DedupKeyExpires, SwitchOff, SwitchOn
<1>7. CASE UNCHANGED vars
  BY <1>1, <1>7 DEF vars
<1>8. CASE \E w \in Sweepers : SweeperStep(w) \/ SweepError(w) \/ SweepCrash(w)
  BY <1>2, <1>8 DEF consumerVars
<1>9. CASE \E c \in Consumers : ConsumerStep(c) \/ ConsumeError(c) \/ ConsumeCrash(c)
  BY <1>3, <1>9 DEF sweeperVars
<1>. QED
  BY <1>4, <1>5, <1>6, <1>7, <1>8, <1>9 DEF Next

(* Only an XADD changes which jobs are on the stream.                      *)
LEMMA OnlyXAddAdds ==
    ASSUME [Next]_vars
    PROVE  (\E w \in Sweepers : SweepXAdd(w)) \/ UNCHANGED <<last, job>>
<1>1. ASSUME NEW w \in Sweepers, SweeperStep(w) \/ SweepError(w) \/ SweepCrash(w), ~SweepXAdd(w)
      PROVE  UNCHANGED <<last, job>>
  BY <1>1 DEF SweeperStep, SweepError, SweepCrash, SweepScan, SweepClaim, SweepLookup,
              SweepSetKey, SweepQueue, MarkEnqueued, queueVars
<1>2. ASSUME NEW c \in Consumers, ConsumerStep(c) \/ ConsumeError(c) \/ ConsumeCrash(c)
      PROVE  UNCHANGED <<last, job>>
  BY <1>2 DEF ConsumerStep, ConsumeError, ConsumeCrash, ConsumeReclaim, ConsumeNew,
              ConsumeLoad, ConsumeClaim, ConsumeWork, ConsumeSupersede, ConsumePut,
              ConsumeStages, ConsumeReview, ConsumeFinish, ConsumeAck, ConsumeDeadCas,
              ConsumeDeadAdd, XAutoClaim, XReadGroup, XAck, XAddDead, queueVars
<1>3. CASE \E s \in Sessions : UserStep(s) \/ IdleThresholdPasses(s)
  BY <1>3 DEF UserStep, IdleThresholdPasses, queueVars
<1>4. CASE (\E m \in Msg : AgeMessage(m)) \/ DedupKeyExpires \/ SwitchOff \/ SwitchOn
           \/ UNCHANGED vars
  BY <1>4 DEF AgeMessage, Age, DedupKeyExpires, ExpireDedupKey, SwitchOff, SwitchOn, vars, queueVars
<1>. QED
  BY <1>1, <1>2, <1>3, <1>4 DEF Next

(* What a sweeper's own steps do to what it keeps.                         *)
LEMMA SweepClaimEffect ==
    ASSUME TypeOK, NEW w \in Sweepers, NEW s \in Sessions, SweepClaim(w, s)
    PROVE  /\ s \in todo[w] /\ swept'[w] = s /\ snap' = snap /\ spc[w] = "next"
           /\ \/ spc'[w] = "lookup" /\ todo' = todo
              \/ spc'[w] = "next" /\ todo'[w] = todo[w] \ {s}
BY DEF SweepClaim, SweeperTypeOK, TypeOK

LEMMA SweepShrinks ==
    ASSUME TypeOK, NEW w \in Sweepers,
           SweeperStep(w) \/ SweepError(w) \/ SweepCrash(w), ~SweepScan(w)
    PROVE  todo'[w] \subseteq todo[w] /\ snap'[w] = snap[w]
<1>1. CASE \E s \in Sessions : SweepClaim(w, s)
  BY <1>1, SweepClaimEffect
<1>2. CASE ~\E s \in Sessions : SweepClaim(w, s)
  BY <1>2 DEF SweeperStep, SweepError, SweepCrash, SweepLookup, SweepXAdd, SweepSetKey,
              SweepQueue, SweepTo, SweepNext, SweeperTypeOK, TypeOK
<1>. QED
  BY <1>1, <1>2

LEMMA DecisionsInductive ==
    ASSUME TypeOK, DecisionsStand, [Next]_vars
    PROVE  DecisionsStand'
<1>. USE DEF TypeOK
<1>1. ASSUME NEW w \in Sweepers
      PROVE  SweepDecision(w)'
  <2>1. CASE SweeperUntouched(w)
    BY <2>1 DEF DecisionsStand, SweepDecision, SweeperUntouched
  <2>2. CASE SweepScan(w)
    BY <2>2 DEF SweepScan, DecisionsStand, SweepDecision, SweeperTypeOK, Sweepable, SessionTypeOK
  <2>3. CASE \E s \in Sessions : SweepClaim(w, s)
    <3>1. PICK s \in Sessions : SweepClaim(w, s)
      BY <2>3
    <3>. QED
      BY <3>1, SweepClaimEffect DEF DecisionsStand, SweepDecision
  <2>4. CASE SweepLookup(w) \/ SweepXAdd(w) \/ SweepSetKey(w)
    BY <2>4 DEF SweepLookup, SweepXAdd, SweepSetKey, SweepTo,
                DecisionsStand, SweepDecision, SweeperTypeOK
  <2>5. CASE SweepQueue(w) \/ SweepError(w)
    BY <2>5 DEF SweepQueue, SweepError, SweepNext, DecisionsStand, SweepDecision, SweeperTypeOK
  <2>6. CASE SweepCrash(w)
    BY <2>6 DEF SweepCrash, DecisionsStand, SweepDecision, SweeperTypeOK
  <2>. QED
    BY <2>1, <2>2, <2>3, <2>4, <2>5, <2>6, OthersUntouched DEF SweeperStep
<1>2. ASSUME NEW c \in Consumers
      PROVE  ClaimMemory(c)'
  <2>1. CASE ConsumerUntouched(c)
    BY <2>1 DEF DecisionsStand, ClaimMemory, ConsumerUntouched
  <2>2. CASE ConsumeLoad(c)
    <3>1. PICK d \in inbox[c] :
             LET s == job[d[1]][1]
                 pc == AfterLoad(d, s, path[c] = "reclaimed")
             IN  /\ cpc' = [cpc EXCEPT ![c] = pc]
                 /\ seen' = [seen EXCEPT ![c] = IF pc = "next" THEN NoSnap
                                                ELSE <<status[s], content[s]>>]
      BY <2>2 DEF ConsumeLoad
    <3>2. job[d[1]][1] \in Sessions
      BY DEF ConsumerTypeOK, QueueTypeOK, Delivery, Jobs
    <3>3. status[job[d[1]][1]] \in Status
      BY <3>2 DEF SessionTypeOK
    <3>4. AfterLoad(d, job[d[1]][1], path[c] = "reclaimed") = "claim"
             => status[job[d[1]][1]] \in {"queued", "processing", "done"}
      BY <3>3 DEF AfterLoad, ClaimDecision, Status
    <3>5. AfterLoad(d, job[d[1]][1], path[c] = "reclaimed") = "dead_cas"
             => status[job[d[1]][1]] \notin {"done", "dead_letter"}
      BY <3>3 DEF AfterLoad, ClaimDecision, Status
    <3>. QED
      BY <3>1, <3>4, <3>5 DEF ClaimMemory, ConsumerTypeOK
  <2>3. CASE cpc'[c] \notin {"claim", "dead_cas"}
    BY <2>3 DEF ClaimMemory
  <2>4. ASSUME ConsumerStep(c) \/ ConsumeError(c) \/ ConsumeCrash(c), ~ConsumeLoad(c)
        PROVE  ConsumerUntouched(c) \/ cpc'[c] \notin {"claim", "dead_cas"}
    BY <2>4 DEF ConsumerStep, ConsumeError, ConsumeCrash, ConsumeReclaim, ConsumeNew,
                ConsumeClaim, ConsumeWork, ConsumeSupersede, ConsumePut,
                ConsumeStages, ConsumeReview, ConsumeFinish, ConsumeAck, ConsumeDeadCas,
                ConsumeDeadAdd, GoTo, EndDelivery, ConsumerTypeOK, ConsumerUntouched
  <2>. QED
    BY <2>1, <2>2, <2>3, <2>4, OthersUntouched
<1>. QED
  BY <1>1, <1>2 DEF DecisionsStand

---------------------------------------------------------------------------
(* Versions.                                                               *)

LEMMA VersionsInductive ==
    ASSUME TypeOK, TypeOK', DecisionsStand, VersionsGrow, [Next]_vars
    PROVE  VersionsGrow'
<1>. USE DEF TypeOK
<1>1. \A s \in Sessions : version[s] <= version'[s] /\ content'[s] <= version'[s]
  <2>1. CASE UNCHANGED <<version, content>>
    BY <2>1 DEF VersionsGrow, SessionTypeOK
  <2>2. ASSUME NEW s \in Sessions, UserStep(s) \/ IdleThresholdPasses(s)
        PROVE  \A t \in Sessions : version[t] <= version'[t] /\ content'[t] <= version'[t]
    BY <2>2 DEF UserStep, IdleThresholdPasses, AppendMessage, TouchSession, GoIdle, Expire,
                VersionsGrow, SessionTypeOK
  <2>3. ASSUME NEW w \in Sweepers, SweeperStep(w) \/ SweepError(w) \/ SweepCrash(w)
        PROVE  UNCHANGED <<version, content>>
    BY <2>3 DEF SweeperStep, SweepError, SweepCrash, SweepScan, SweepClaim, SweepLookup,
                SweepXAdd, SweepSetKey, SweepQueue, ScanIdleSessions, SetLearningStatus,
                sessionVars, docVars
  <2>4. ASSUME NEW c \in Consumers, ConsumerStep(c) \/ ConsumeError(c) \/ ConsumeCrash(c)
        PROVE  UNCHANGED <<version, content>>
    BY <2>4 DEF ConsumerStep, ConsumeError, ConsumeCrash, ConsumeReclaim, ConsumeNew,
                ConsumeLoad, ConsumeClaim, ConsumeWork, ConsumeSupersede, ConsumePut,
                ConsumeStages, ConsumeReview, ConsumeFinish, ConsumeAck, ConsumeDeadCas,
                ConsumeDeadAdd, GetSessionWithCas, SetLearningStatus, sessionVars, docVars
  <2>5. CASE (\E m \in Msg : AgeMessage(m)) \/ DedupKeyExpires \/ SwitchOff \/ SwitchOn
             \/ UNCHANGED vars
    BY <2>1, <2>5 DEF AgeMessage, DedupKeyExpires, SwitchOff, SwitchOn, vars, sessionVars, docVars
  <2>. QED
    BY <2>1, <2>2, <2>3, <2>4, <2>5 DEF Next
<1>2. ASSUME NEW w \in Sweepers, NEW s \in todo'[w]
      PROVE  snap'[w][s][2] <= version'[s]
  <2>1. CASE SweepScan(w)
    BY <1>1, <2>1 DEF SweepScan, ScanIdleSessions, SweeperTypeOK, VersionsGrow, Sweepable,
                      SessionTypeOK, Snapshot
  <2>2. CASE s \in todo[w] /\ snap'[w] = snap[w]
    <3>1. s \in Sessions /\ snap[w][s][2] \in Nat
      BY <2>2 DEF SweeperTypeOK, Snapshot
    <3>. QED
      BY <1>1, <2>2, <3>1 DEF VersionsGrow, SessionTypeOK
  <2>3. ASSUME SweeperStep(w) \/ SweepError(w) \/ SweepCrash(w), ~SweepScan(w)
        PROVE  s \in todo[w] /\ snap'[w] = snap[w]
    BY <2>3, SweepShrinks
  <2>. QED
    BY <2>1, <2>2, <2>3, OthersUntouched DEF SweeperUntouched
<1>3. ASSUME NEW m \in 1..last'
      PROVE  job'[m][2] <= version'[job'[m][1]]
  <2>1. CASE m <= last /\ job'[m] = job[m]
    <3>1. m \in Msg /\ m \in 1..last /\ job[m] \in Jobs
      BY <2>1, QueueAssumption DEF QueueTypeOK, Msg
    <3>2. job[m][1] \in Sessions /\ job[m][2] \in Nat /\ job[m][2] <= version[job[m][1]]
      BY <3>1 DEF Jobs, VersionsGrow
    <3>. QED
      BY <1>1, <2>1, <3>2 DEF SessionTypeOK
  <2>2. ASSUME NEW w \in Sweepers, SweepXAdd(w), m = last + 1
        PROVE  job'[m][2] <= version'[job'[m][1]]
    <3>1. swept[w] \in Sessions /\ swept[w] \in todo[w]
      BY <2>2, SweptJobType DEF SweepXAdd, DecisionsStand, SweepDecision
    <3>2. job'[m] = SweptJob(w)
      BY <2>2 DEF SweepXAdd, XAdd, QueueTypeOK, Msg
    <3>3. snap[w][swept[w]][2] <= version[swept[w]] /\ snap[w][swept[w]][2] \in Nat
      BY <3>1 DEF VersionsGrow, SweeperTypeOK, Snapshot
    <3>. QED
      BY <1>1, <3>1, <3>2, <3>3 DEF SweptJob, SessionTypeOK
  <2>3. CASE UNCHANGED <<last, job>>
    BY <2>1, <2>3 DEF QueueTypeOK
  <2>4. ASSUME NEW w \in Sweepers, SweepXAdd(w)
        PROVE  m = last + 1 \/ (m <= last /\ job'[m] = job[m])
    BY <2>4, QueueAssumption DEF SweepXAdd, XAdd, QueueTypeOK, Msg
  <2>5. (\E w \in Sweepers : SweepXAdd(w)) \/ UNCHANGED <<last, job>>
    BY OnlyXAddAdds
  <2>. QED
    BY <2>1, <2>2, <2>3, <2>4, <2>5
<1>. QED
  BY <1>1, <1>2, <1>3 DEF VersionsGrow

---------------------------------------------------------------------------
(* Tokens.  A step that leaves worker x's token for s current leaves the   *)
(* document of s as it was, unless it is x's own access to s.              *)

Stable(x, s) ==
    x \in fresh'[s] =>
        /\ x \in fresh[s]
        /\ status'[s] = status[s]
        /\ content'[s] = content[s]
        /\ s \in exists => s \in exists'

LEMMA UserStable ==
    ASSUME TypeOK, NEW t \in Sessions, UserStep(t) \/ IdleThresholdPasses(t),
           NEW x \in Workers, NEW s \in Sessions
    PROVE  Stable(x, s)
BY DEF UserStep, IdleThresholdPasses, AppendMessage, TouchSession, GoIdle, Expire, Stable,
       TypeOK, SessionTypeOK

LEMMA SameStable ==
    ASSUME UNCHANGED sessionVars, NEW x, NEW s
    PROVE  Stable(x, s)
BY DEF Stable, sessionVars, docVars

LEMMA ScanStable ==
    ASSUME SessionTypeOK, NEW w, NEW S, ScanIdleSessions(w, S),
           NEW x, NEW s \in Sessions, x # w \/ s \notin S
    PROVE  Stable(x, s)
BY DEF Stable, ScanIdleSessions, SessionTypeOK

LEMMA GetStable ==
    ASSUME SessionTypeOK, NEW w, NEW t \in Sessions, GetSessionWithCas(w, t),
           NEW x, NEW s \in Sessions, x # w \/ s # t
    PROVE  Stable(x, s)
BY DEF Stable, GetSessionWithCas, SessionTypeOK

LEMMA SetStable ==
    ASSUME SessionTypeOK, NEW w, NEW t \in Sessions, NEW to, NEW h, SetLearningStatus(w, t, to, h),
           NEW x, NEW s \in Sessions, x # w \/ s # t
    PROVE  Stable(x, s)
BY DEF Stable, SetLearningStatus, SessionTypeOK

(* So a token survives the steps of every other worker with its document.  *)
LEMMA OthersStable ==
    ASSUME TypeOK, [Next]_vars, NEW x \in Workers, NEW s \in Sessions
    PROVE  \/ Stable(x, s)
           \/ x \in Sweepers /\ SweeperStep(x)
           \/ x \in Consumers /\ ConsumerStep(x)
<1>. USE DEF TypeOK
<1>1. ASSUME NEW w \in Sweepers, SweeperStep(w) \/ SweepError(w) \/ SweepCrash(w), x # w
      PROVE  Stable(x, s)
  <2>1. CASE SweepScan(w)
    BY <1>1, <2>1, ScanStable DEF SweepScan
  <2>2. ASSUME NEW t \in Sessions, SweepClaim(w, t)
        PROVE  Stable(x, s)
    BY <1>1, <2>2, SetStable, SameStable DEF SweepClaim
  <2>3. CASE SweepQueue(w)
    <3>1. swept[w] \in Sessions
      BY <2>3, SweptJobType DEF SweepQueue
    <3>. QED
      BY <1>1, <2>3, <3>1, SetStable, SameStable DEF SweepQueue
  <2>4. CASE UNCHANGED sessionVars
    BY <2>4, SameStable
  <2>. QED
    BY <1>1, <2>1, <2>2, <2>3, <2>4
    DEF SweeperStep, SweepError, SweepCrash, SweepLookup, SweepXAdd, SweepSetKey
<1>2. ASSUME NEW c \in Consumers, ConsumerStep(c) \/ ConsumeError(c) \/ ConsumeCrash(c), x # c
      PROVE  Stable(x, s)
  <2>1. CASE ConsumeLoad(c)
    <3>1. PICK d \in inbox[c] : GetSessionWithCas(c, job[d[1]][1])
      BY <2>1 DEF ConsumeLoad
    <3>2. job[d[1]][1] \in Sessions
      BY DEF ConsumerTypeOK, QueueTypeOK, Delivery, Jobs
    <3>. QED
      BY <1>2, <3>1, <3>2, GetStable
  <2>2. CASE ConsumeClaim(c) \/ ConsumeFinish(c) \/ ConsumeDeadCas(c)
    <3>1. cpc[c] # "next"
      BY <2>2 DEF ConsumeClaim, ConsumeFinish, ConsumeDeadCas
    <3>2. SessionOf(c) \in Sessions
      BY <3>1, CurrentDelivery
    <3>. QED
      BY <1>2, <2>2, <3>2, SetStable, SameStable DEF ConsumeClaim, ConsumeFinish, ConsumeDeadCas
  <2>3. CASE UNCHANGED sessionVars
    BY <2>3, SameStable
  <2>. QED
    BY <1>2, <2>1, <2>2, <2>3
    DEF ConsumerStep, ConsumeError, ConsumeCrash, ConsumeReclaim, ConsumeNew, ConsumeWork,
        ConsumeSupersede, ConsumePut, ConsumeStages, ConsumeReview, ConsumeAck, ConsumeDeadAdd
<1>3. ASSUME NEW w \in Sweepers, SweepError(w) \/ SweepCrash(w)
      PROVE  Stable(x, s)
  BY <1>3, SameStable DEF SweepError, SweepCrash
<1>4. ASSUME NEW c \in Consumers, ConsumeError(c) \/ ConsumeCrash(c)
      PROVE  Stable(x, s)
  BY <1>4, SameStable DEF ConsumeError, ConsumeCrash
<1>5. CASE (\E m \in Msg : AgeMessage(m)) \/ DedupKeyExpires \/ SwitchOff \/ SwitchOn
           \/ UNCHANGED vars
  BY <1>5, SameStable DEF AgeMessage, DedupKeyExpires, SwitchOff, SwitchOn, vars
<1>. QED
  BY <1>1, <1>2, <1>3, <1>4, <1>5, UserStable DEF Next

(* A delivery in hand keeps its session: jobs never change.                *)
LEMMA SessionOfStable ==
    ASSUME TypeOK, [Next]_vars, NEW c \in Consumers, cpc[c] # "next", cur'[c] = cur[c]
    PROVE  SessionOf(c)' = SessionOf(c) /\ JobOf(c)' = JobOf(c)
<1>1. MsgOf(c) \in Msg /\ MsgOf(c) <= last /\ MsgOf(c)' = MsgOf(c)
  BY CurrentDelivery DEF TypeOK, MsgOf
<1>2. job'[MsgOf(c)] = job[MsgOf(c)]
  <2>1. CASE UNCHANGED job
    BY <2>1
  <2>2. ASSUME NEW w \in Sweepers, SweepXAdd(w)
        PROVE  job'[MsgOf(c)] = job[MsgOf(c)]
    BY <1>1, <2>2 DEF SweepXAdd, XAdd, TypeOK, QueueTypeOK, Msg
  <2>. QED
    BY <2>1, <2>2, OnlyXAddAdds
<1>. QED
  BY <1>1, <1>2 DEF SessionOf, JobOf

LEMMA SweeperTokens ==
    ASSUME TypeOK, DecisionsStand, TokensTellTruth, [Next]_vars, NEW w \in Sweepers
    PROVE  SweptToken(w)' /\ \A s \in Sessions : ScannedToken(w, s)'
<1>. USE DEF TypeOK
<1>0. w \in Workers
  BY LoopAssumption
<1>1. ASSUME \A s \in Sessions : Stable(w, s), snap'[w] = snap[w],
             todo'[w] \subseteq todo[w], swept'[w] = swept[w],
             spc'[w] # "next" => spc[w] # "next",
             spc'[w] = "next" => swept[w] \notin todo'[w] \/ spc[w] = "next"
      PROVE  SweptToken(w)' /\ \A s \in Sessions : ScannedToken(w, s)'
  <2>1. SweptToken(w)'
    <3>. SUFFICES ASSUME spc'[w] # "next", w \in fresh'[swept'[w]]
                  PROVE  /\ swept'[w] \in exists'
                         /\ status'[swept'[w]] = "pending"
                         /\ content'[swept'[w]] = snap'[w][swept'[w]][2]
      BY DEF SweptToken
    <3>1. swept[w] \in Sessions /\ spc[w] # "next"
      BY <1>1 DEF SweeperTypeOK
    <3>2. w \in fresh[swept[w]] /\ Stable(w, swept[w])
      BY <1>1, <3>1 DEF Stable
    <3>3. SweptToken(w)
      BY DEF TokensTellTruth
    <3>. QED
      BY <1>1, <3>1, <3>2, <3>3 DEF SweptToken, Stable
  <2>2. ASSUME NEW s \in Sessions
        PROVE  ScannedToken(w, s)'
    <3>. SUFFICES ASSUME s \in todo'[w], w \in fresh'[s], spc'[w] = "next" \/ swept'[w] # s
                  PROVE  s \in exists' /\ status'[s] = snap'[w][s][1] /\ content'[s] = snap'[w][s][2]
      BY DEF ScannedToken
    <3>1. s \in todo[w] /\ w \in fresh[s] /\ (spc[w] = "next" \/ swept[w] # s)
      BY <1>1 DEF Stable
    <3>2. ScannedToken(w, s)
      BY DEF TokensTellTruth
    <3>. QED
      BY <1>1, <3>1, <3>2 DEF ScannedToken, Stable
  <2>. QED
    BY <2>1, <2>2
<1>2. CASE SweepScan(w)
  <2>1. PICK S \in SUBSET Sweepable :
           /\ ScanIdleSessions(w, S)
           /\ todo' = [todo EXCEPT ![w] = S]
           /\ snap' = [snap EXCEPT ![w] =
                       [s \in Sessions |-> IF s \in S THEN <<status[s], content[s]>>
                                           ELSE NoSnap]]
    BY <1>2 DEF SweepScan
  <2>2. spc'[w] = "next" /\ todo'[w] = S /\ S \subseteq exists
    BY <1>2, <2>1 DEF SweepScan, SweeperTypeOK, Sweepable, SessionTypeOK
  <2>3. \A s \in Sessions : s \in S => snap'[w][s] = <<status[s], content[s]>>
    BY <2>1 DEF SweeperTypeOK
  <2>4. \A s \in Sessions : ScannedToken(w, s)'
    <3>. SUFFICES ASSUME NEW s \in Sessions, s \in todo'[w]
                  PROVE  s \in exists' /\ status'[s] = snap'[w][s][1] /\ content'[s] = snap'[w][s][2]
      BY DEF ScannedToken
    <3>1. s \in S /\ snap'[w][s] = <<status[s], content[s]>>
      BY <2>2, <2>3
    <3>2. UNCHANGED <<exists, status, content>>
      BY <2>1 DEF ScanIdleSessions
    <3>. QED
      BY <2>2, <3>1, <3>2
  <2>. QED
    BY <2>2, <2>4 DEF SweptToken
<1>3. ASSUME NEW t \in Sessions, SweepClaim(w, t)
      PROVE  SweptToken(w)' /\ \A s \in Sessions : ScannedToken(w, s)'
  <2>0. /\ t \in todo[w] /\ swept'[w] = t /\ snap' = snap /\ spc[w] = "next"
        /\ \/ spc'[w] = "lookup" /\ todo' = todo
           \/ spc'[w] = "next" /\ todo'[w] = todo[w] \ {t}
    BY <1>3, SweepClaimEffect
  <2>1. ASSUME NEW s \in Sessions, s # t
        PROVE  ScannedToken(w, s)'
    <3>1. Stable(w, s)
      BY <1>3, <2>1, SetStable, SameStable DEF SweepClaim
    <3>2. ScannedToken(w, s)
      BY DEF TokensTellTruth
    <3>. QED
      BY <2>0, <3>1, <3>2 DEF ScannedToken, Stable
  <2>2. ScannedToken(w, t)'
    BY <2>0 DEF ScannedToken
  <2>3. SweptToken(w)'
    <3>1. ScannedToken(w, t)
      BY DEF TokensTellTruth
    <3>2. CASE SetLearningStatus(w, t, "pending", NoHash) /\ CanTransition(w, t, "active", TRUE)
      BY <2>0, <3>1, <3>2 DEF SweptToken, ScannedToken, SetLearningStatus, CanTransition, SessionTypeOK
    <3>3. CASE UNCHANGED sessionVars /\ spc'[w] = "next"
      BY <3>3 DEF SweptToken
    <3>4. CASE UNCHANGED sessionVars /\ snap[w][t][1] = "pending"
      BY <2>0, <3>1, <3>4 DEF SweptToken, ScannedToken, sessionVars, docVars
    <3>. QED
      BY <1>3, <2>0, <3>2, <3>3, <3>4 DEF SweepClaim
  <2>. QED
    BY <2>1, <2>2, <2>3
<1>4. CASE SweepLookup(w) \/ SweepXAdd(w) \/ SweepSetKey(w) \/ SweepError(w) \/ SweepCrash(w)
  <2>1. \A s \in Sessions : Stable(w, s)
    BY <1>4, SameStable DEF SweepLookup, SweepXAdd, SweepSetKey, SweepError, SweepCrash
  <2>. QED
    BY <1>1, <1>4, <2>1 DEF SweepLookup, SweepXAdd, SweepSetKey, SweepError, SweepCrash,
       SweepTo, SweepNext, SweeperTypeOK
<1>5. CASE SweepQueue(w)
  <2>0. spc'[w] = "next" /\ todo'[w] = todo[w] \ {swept[w]} /\ snap' = snap /\ swept[w] \in Sessions
        /\ spc[w] # "next"
    BY <1>5 DEF SweepQueue, SweepNext, SweeperTypeOK
  <2>1. ASSUME NEW s \in Sessions, s # swept[w]
        PROVE  ScannedToken(w, s)'
    <3>1. Stable(w, s)
      <4>1. CASE SetLearningStatus(w, swept[w], "queued", snap[w][swept[w]][2])
        BY <2>0, <2>1, <4>1, SetStable
      <4>2. CASE UNCHANGED sessionVars
        BY <4>2, SameStable
      <4>. QED
        BY <1>5, <4>1, <4>2 DEF SweepQueue
    <3>2. ScannedToken(w, s)
      BY DEF TokensTellTruth
    <3>. QED
      BY <2>0, <2>1, <3>1, <3>2 DEF ScannedToken, Stable
  <2>. QED
    BY <2>0, <2>1 DEF ScannedToken, SweptToken
<1>6. CASE SweeperUntouched(w) /\ ~SweeperStep(w)
  <2>1. \A s \in Sessions : Stable(w, s)
    <3>1. w \notin Consumers
      BY LoopAssumption
    <3>. QED
      BY <1>0, <1>6, <3>1, OthersStable
  <2>. QED
    BY <1>1, <1>6, <2>1 DEF SweeperUntouched, DecisionsStand, SweepDecision
<1>. QED
  BY <1>2, <1>3, <1>4, <1>5, <1>6, OthersUntouched DEF SweeperStep

(* What the consumer's own steps do to its progress.                       *)
LEMMA ConsumerProgress ==
    ASSUME TypeOK, NEW c \in Consumers,
           ConsumerStep(c) \/ ConsumeError(c) \/ ConsumeCrash(c), ~ConsumeLoad(c), ~ConsumeClaim(c)
    PROVE  /\ cpc'[c] \notin {"claim", "dead_cas"}
           /\ Working(c)' => Working(c) /\ cur'[c] = cur[c] /\ seen'[c] = seen[c]
                             /\ UNCHANGED sessionVars
           /\ cpc'[c] \in {"ack", "dead_add"} =>
                cpc[c] \in {"finish", "dead_cas", "dead_add"} /\ cur'[c] = cur[c]
<1>1. CASE ConsumeWork(c) \/ ConsumeSupersede(c) \/ ConsumePut(c) \/ ConsumeStages(c)
           \/ ConsumeReview(c)
  BY <1>1 DEF ConsumeWork, ConsumeSupersede, ConsumePut, ConsumeStages, ConsumeReview,
              Working, GoTo, TypeOK, ConsumerTypeOK
<1>2. CASE ConsumeReclaim(c) \/ ConsumeNew(c) \/ ConsumeFinish(c) \/ ConsumeAck(c)
           \/ ConsumeDeadCas(c) \/ ConsumeDeadAdd(c) \/ ConsumeError(c) \/ ConsumeCrash(c)
  BY <1>2 DEF ConsumeReclaim, ConsumeNew, ConsumeFinish, ConsumeAck, ConsumeDeadCas,
              ConsumeDeadAdd, ConsumeError, ConsumeCrash, Working, GoTo, EndDelivery,
              TypeOK, ConsumerTypeOK
<1>. QED
  BY <1>1, <1>2 DEF ConsumerStep

LEMMA ConsumerTokens ==
    ASSUME TypeOK, DecisionsStand, TokensTellTruth, [Next]_vars, NEW c \in Consumers
    PROVE  LoadedToken(c)' /\ OwnerToken(c)'
<1>. USE DEF TypeOK
<1>0. c \in Workers /\ c \notin Sweepers /\ LoadedToken(c) /\ OwnerToken(c)
  BY LoopAssumption DEF TokensTellTruth
<1>1. CASE ConsumeLoad(c)
  <2>1. PICK d \in inbox[c] :
             LET s == job[d[1]][1]
                 pc == AfterLoad(d, s, path[c] = "reclaimed")
             IN  /\ GetSessionWithCas(c, s)
                 /\ cpc' = [cpc EXCEPT ![c] = pc]
                 /\ cur' = [cur EXCEPT ![c] = IF pc = "next" THEN NoDelivery ELSE d]
                 /\ seen' = [seen EXCEPT ![c] = IF pc = "next" THEN NoSnap
                                                ELSE <<status[s], content[s]>>]
    BY <1>1 DEF ConsumeLoad
  <2>2. job[d[1]][1] \in Sessions /\ job' = job
    BY <1>1 DEF ConsumerTypeOK, QueueTypeOK, Delivery, Jobs, ConsumeLoad, queueVars
  <2>. DEFINE s == job[d[1]][1]
              pc == AfterLoad(d, s, path[c] = "reclaimed")
  <2>3. status[s] \in Status
    BY <2>2 DEF SessionTypeOK
  <2>4. ClaimDecision(status[s], path[c] = "reclaimed") \in {"forward", "recover", "refuse", "terminal"}
    BY <2>3 DEF ClaimDecision, Status
  <2>5. pc \in {"next", "claim", "ack", "dead_cas"}
    BY <2>4 DEF AfterLoad
  <2>6. cpc'[c] = pc /\ (pc # "next" => SessionOf(c)' = s /\ seen'[c] = <<status[s], content[s]>>)
    BY <2>1, <2>2 DEF ConsumerTypeOK, SessionOf, JobOf, MsgOf
  <2>7. s \in exists' /\ status' = status /\ content' = content
    BY <2>1 DEF GetSessionWithCas
  <2>. QED
    BY <2>5, <2>6, <2>7 DEF LoadedToken, OwnerToken, Working
<1>2. CASE ConsumeClaim(c)
  <2>0. cpc[c] = "claim" /\ SessionOf(c) \in Sessions
    BY <1>2, CurrentDelivery DEF ConsumeClaim
  <2>1. CASE EndDelivery(c)
    <3>1. cpc'[c] = "next"
      BY <2>1 DEF EndDelivery, ConsumerTypeOK
    <3>. QED
      BY <3>1 DEF LoadedToken, OwnerToken, Working
  <2>2. CASE /\ CanTransition(c, SessionOf(c), seen[c][1], TRUE)
             /\ SetLearningStatus(c, SessionOf(c), "processing", NoHash)
             /\ GoTo(c, "work")
    <3>1. cpc'[c] = "work" /\ cur'[c] = cur[c] /\ seen'[c] = seen[c]
      BY <2>2 DEF GoTo, ConsumerTypeOK
    <3>2. SessionOf(c)' = SessionOf(c)
      BY <2>0, <3>1, SessionOfStable
    <3>3. /\ SessionOf(c) \in exists' /\ status'[SessionOf(c)] = "processing"
          /\ content'[SessionOf(c)] = seen[c][2]
      BY <1>0, <2>0, <2>2 DEF LoadedToken, CanTransition, SetLearningStatus, SessionTypeOK
    <3>. QED
      BY <3>1, <3>2, <3>3 DEF LoadedToken, OwnerToken
  <2>. QED
    BY <1>2, <2>1, <2>2 DEF ConsumeClaim
<1>3. ASSUME ConsumerStep(c) \/ ConsumeError(c) \/ ConsumeCrash(c), ~ConsumeLoad(c), ~ConsumeClaim(c)
      PROVE  LoadedToken(c)' /\ OwnerToken(c)'
  <2>1. LoadedToken(c)'
    BY <1>3, ConsumerProgress DEF LoadedToken
  <2>2. OwnerToken(c)'
    <3>. SUFFICES ASSUME Working(c)', c \in fresh'[SessionOf(c)']
                  PROVE  /\ SessionOf(c)' \in exists'
                         /\ status'[SessionOf(c)'] = "processing"
                         /\ content'[SessionOf(c)'] = seen'[c][2]
      BY DEF OwnerToken
    <3>1. Working(c) /\ cur'[c] = cur[c] /\ seen'[c] = seen[c] /\ UNCHANGED sessionVars
      BY <1>3, ConsumerProgress
    <3>2. SessionOf(c)' = SessionOf(c)
      BY <3>1, SessionOfStable DEF Working
    <3>. QED
      BY <1>0, <3>1, <3>2 DEF OwnerToken, sessionVars, docVars
  <2>. QED
    BY <2>1, <2>2
<1>4. CASE ConsumerUntouched(c) /\ ~ConsumerStep(c)
  <2>1. CASE cpc[c] = "next"
    BY <1>4, <2>1 DEF ConsumerUntouched, LoadedToken, OwnerToken, Working
  <2>2. CASE cpc[c] # "next"
    <3>1. SessionOf(c)' = SessionOf(c) /\ SessionOf(c) \in Sessions
      BY <1>4, <2>2, SessionOfStable, CurrentDelivery DEF ConsumerUntouched
    <3>2. Stable(c, SessionOf(c))
      BY <1>0, <1>4, <3>1, OthersStable
    <3>. QED
      BY <1>0, <1>4, <3>1, <3>2 DEF ConsumerUntouched, LoadedToken, OwnerToken, Working, Stable
  <2>. QED
    BY <2>1, <2>2
<1>. QED
  BY <1>1, <1>2, <1>3, <1>4, OthersUntouched DEF ConsumerStep

LEMMA TokensInductive ==
    ASSUME TypeOK, DecisionsStand, TokensTellTruth, [Next]_vars
    PROVE  TokensTellTruth'
BY SweeperTokens, ConsumerTokens DEF TokensTellTruth

---------------------------------------------------------------------------
(* Ownership.                                                              *)

(* The only way to become the owner is a claim, which invalidates every    *)
(* other token.                                                            *)
LEMMA OwnerStep ==
    ASSUME TypeOK, [Next]_vars, NEW c \in Consumers, NEW s \in Sessions, Owns(c, s)'
    PROVE  Owns(c, s) \/ (ConsumeClaim(c) /\ fresh'[s] = {c})
<1>. USE DEF TypeOK
<1>0. c \in Workers /\ c \notin Sweepers
  BY LoopAssumption
<1>1. CASE ConsumeLoad(c)
  <2>1. PICK d \in inbox[c] :
             cpc' = [cpc EXCEPT ![c] = AfterLoad(d, job[d[1]][1], path[c] = "reclaimed")]
    BY <1>1 DEF ConsumeLoad
  <2>2. job[d[1]][1] \in Sessions
    BY DEF ConsumerTypeOK, QueueTypeOK, Delivery, Jobs
  <2>3. status[job[d[1]][1]] \in Status
    BY <2>2 DEF SessionTypeOK
  <2>4. ClaimDecision(status[job[d[1]][1]], path[c] = "reclaimed")
            \in {"forward", "recover", "refuse", "terminal"}
    BY <2>3 DEF ClaimDecision, Status
  <2>5. cpc'[c] \in {"next", "claim", "ack", "dead_cas"}
    BY <2>1, <2>4 DEF AfterLoad, ConsumerTypeOK
  <2>. QED
    BY <2>5 DEF Owns, Working
<1>2. CASE ConsumeClaim(c)
  <2>0. cpc[c] = "claim" /\ SessionOf(c) \in Sessions
    BY <1>2, CurrentDelivery DEF ConsumeClaim
  <2>1. ~EndDelivery(c)
    BY DEF EndDelivery, ConsumerTypeOK, Owns, Working
  <2>2. SetLearningStatus(c, SessionOf(c), "processing", NoHash) /\ GoTo(c, "work")
    BY <1>2, <2>1 DEF ConsumeClaim
  <2>3. cur'[c] = cur[c]
    BY <2>2 DEF GoTo
  <2>4. SessionOf(c) = s
    BY <2>0, <2>3, SessionOfStable DEF Owns
  <2>. QED
    BY <1>2, <2>0, <2>2, <2>4 DEF SetLearningStatus, SessionTypeOK
<1>3. ASSUME ConsumerStep(c) \/ ConsumeError(c) \/ ConsumeCrash(c), ~ConsumeLoad(c), ~ConsumeClaim(c)
      PROVE  Owns(c, s)
  <2>1. Working(c) /\ cur'[c] = cur[c] /\ UNCHANGED sessionVars
    BY <1>3, ConsumerProgress DEF Owns
  <2>2. SessionOf(c)' = SessionOf(c)
    BY <2>1, SessionOfStable DEF Working
  <2>. QED
    BY <2>1, <2>2 DEF Owns, sessionVars, docVars
<1>4. CASE ConsumerUntouched(c) /\ ~ConsumerStep(c)
  <2>1. Working(c) /\ cpc[c] # "next" /\ cur'[c] = cur[c]
    BY <1>4 DEF ConsumerUntouched, Owns, Working
  <2>2. SessionOf(c)' = SessionOf(c) /\ Stable(c, s)
    BY <1>0, <1>4, <2>1, SessionOfStable, OthersStable
  <2>. QED
    BY <2>1, <2>2 DEF Owns, Stable
<1>. QED
  BY <1>1, <1>2, <1>3, <1>4, OthersUntouched

LEMMA OwnerInductive ==
    ASSUME TypeOK, UniqueOwner, [Next]_vars
    PROVE  UniqueOwner'
<1>. SUFFICES ASSUME NEW s \in Sessions, NEW c \in Consumers, NEW d \in Consumers,
                     Owns(c, s)', Owns(d, s)'
              PROVE  c = d
  BY DEF UniqueOwner
<1>1. c \in fresh'[s] /\ d \in fresh'[s]
  BY DEF Owns
<1>. QED
  BY <1>1, OwnerStep DEF UniqueOwner

---------------------------------------------------------------------------
(* Who may change learning_status, and to what.                            *)

StatusMove(s) ==
    \/ status'[s] = status[s] /\ hash'[s] = hash[s]
    \/ Expire(s)
    \/ \E w \in Sweepers :
         /\ CanTransition(w, s, "active", TRUE)
         /\ SetLearningStatus(w, s, "pending", NoHash)
    \/ \E w \in Sweepers :
         /\ spc[w] = "queue" /\ swept[w] = s
         /\ CanTransition(w, s, "pending", TRUE)
         /\ SetLearningStatus(w, s, "queued", snap[w][s][2])
    \/ \E c \in Consumers :
         /\ cpc[c] = "claim" /\ SessionOf(c) = s
         /\ CanTransition(c, s, seen[c][1], TRUE)
         /\ SetLearningStatus(c, s, "processing", NoHash)
    \/ \E c \in Consumers :
         /\ cpc[c] = "finish" /\ SessionOf(c) = s
         /\ CanTransition(c, s, "processing", TRUE)
         /\ SetLearningStatus(c, s, "done", seen[c][2])
    \/ \E c \in Consumers :
         /\ cpc[c] = "dead_cas" /\ SessionOf(c) = s
         /\ CanTransition(c, s, seen[c][1], FALSE)
         /\ SetLearningStatus(c, s, "dead_letter", NoHash)

LEMMA SetElsewhere ==
    ASSUME SessionTypeOK, NEW w, NEW t \in Sessions, NEW to, NEW h, SetLearningStatus(w, t, to, h),
           NEW s \in Sessions, s # t
    PROVE  status'[s] = status[s] /\ hash'[s] = hash[s]
BY DEF SetLearningStatus, SessionTypeOK

LEMMA StatusStep ==
    ASSUME TypeOK, [Next]_vars, NEW s \in Sessions
    PROVE  StatusMove(s)
<1>. USE DEF TypeOK
<1>0. ASSUME UNCHANGED <<status, hash>>
      PROVE  StatusMove(s)
  BY <1>0 DEF StatusMove
<1>1. ASSUME NEW t \in Sessions, UserStep(t) \/ IdleThresholdPasses(t)
      PROVE  StatusMove(s)
  <2>1. CASE Expire(t)
    <3>1. s # t => status'[s] = status[s] /\ hash'[s] = hash[s]
      BY <2>1 DEF Expire, SessionTypeOK
    <3>. QED
      BY <2>1, <3>1 DEF StatusMove
  <2>2. CASE AppendMessage(t) \/ TouchSession(t) \/ GoIdle(t)
    BY <1>0, <2>2 DEF AppendMessage, TouchSession, GoIdle
  <2>. QED
    BY <1>1, <2>1, <2>2 DEF UserStep, IdleThresholdPasses
<1>2. ASSUME NEW w \in Sweepers, NEW t \in Sessions, SweepClaim(w, t)
      PROVE  StatusMove(s)
  <2>1. CASE UNCHANGED sessionVars
    BY <1>0, <2>1 DEF sessionVars, docVars
  <2>2. CASE CanTransition(w, t, "active", TRUE) /\ SetLearningStatus(w, t, "pending", NoHash)
    BY <1>2, <2>2, SetElsewhere DEF StatusMove
  <2>. QED
    BY <1>2, <2>1, <2>2 DEF SweepClaim
<1>3. ASSUME NEW w \in Sweepers, SweepQueue(w)
      PROVE  StatusMove(s)
  <2>1. CASE UNCHANGED sessionVars
    BY <1>0, <2>1 DEF sessionVars, docVars
  <2>2. CASE /\ CanTransition(w, swept[w], "pending", TRUE)
             /\ SetLearningStatus(w, swept[w], "queued", snap[w][swept[w]][2])
    <3>1. swept[w] \in Sessions /\ spc[w] = "queue"
      BY <1>3, SweptJobType DEF SweepQueue
    <3>2. CASE s = swept[w]
      BY <2>2, <3>1, <3>2 DEF StatusMove
    <3>3. CASE s # swept[w]
      BY <2>2, <3>1, <3>3, SetElsewhere DEF StatusMove
    <3>. QED
      BY <3>2, <3>3
  <2>. QED
    BY <1>3, <2>1, <2>2 DEF SweepQueue
<1>4. ASSUME NEW c \in Consumers, ConsumeClaim(c) \/ ConsumeFinish(c) \/ ConsumeDeadCas(c)
      PROVE  StatusMove(s)
  <2>0. SessionOf(c) \in Sessions
    <3>1. cpc[c] # "next"
      BY <1>4 DEF ConsumeClaim, ConsumeFinish, ConsumeDeadCas
    <3>. QED
      BY <3>1, CurrentDelivery
  <2>1. CASE UNCHANGED sessionVars
    BY <1>0, <2>1 DEF sessionVars, docVars
  <2>2. CASE /\ cpc[c] = "claim" /\ CanTransition(c, SessionOf(c), seen[c][1], TRUE)
             /\ SetLearningStatus(c, SessionOf(c), "processing", NoHash)
    BY <2>0, <2>2, SetElsewhere DEF StatusMove
  <2>3. CASE /\ cpc[c] = "finish" /\ CanTransition(c, SessionOf(c), "processing", TRUE)
             /\ SetLearningStatus(c, SessionOf(c), "done", seen[c][2])
    BY <2>0, <2>3, SetElsewhere DEF StatusMove
  <2>4. CASE /\ cpc[c] = "dead_cas" /\ CanTransition(c, SessionOf(c), seen[c][1], FALSE)
             /\ SetLearningStatus(c, SessionOf(c), "dead_letter", NoHash)
    BY <2>0, <2>4, SetElsewhere DEF StatusMove
  <2>. QED
    BY <1>4, <2>1, <2>2, <2>3, <2>4 DEF ConsumeClaim, ConsumeFinish, ConsumeDeadCas
<1>5. ASSUME NEW w \in Sweepers,
             SweepScan(w) \/ SweepLookup(w) \/ SweepXAdd(w) \/ SweepSetKey(w)
             \/ SweepError(w) \/ SweepCrash(w)
      PROVE  UNCHANGED <<status, hash>>
  BY <1>5 DEF SweepScan, SweepLookup, SweepXAdd, SweepSetKey, SweepError, SweepCrash,
              ScanIdleSessions, sessionVars, docVars
<1>6. ASSUME NEW c \in Consumers, ConsumerStep(c) \/ ConsumeError(c) \/ ConsumeCrash(c),
             ~(ConsumeClaim(c) \/ ConsumeFinish(c) \/ ConsumeDeadCas(c))
      PROVE  UNCHANGED <<status, hash>>
  BY <1>6 DEF ConsumerStep, ConsumeError, ConsumeCrash, ConsumeReclaim, ConsumeNew,
              ConsumeLoad, ConsumeWork, ConsumeSupersede, ConsumePut, ConsumeStages,
              ConsumeReview, ConsumeAck, ConsumeDeadAdd, GetSessionWithCas, sessionVars, docVars
<1>7. CASE (\E m \in Msg : AgeMessage(m)) \/ DedupKeyExpires \/ SwitchOff \/ SwitchOn
           \/ UNCHANGED vars
  BY <1>0, <1>7 DEF AgeMessage, DedupKeyExpires, SwitchOff, SwitchOn, vars, sessionVars, docVars
<1>. QED
  BY <1>0, <1>1, <1>2, <1>3, <1>4, <1>5, <1>6, <1>7 DEF Next, SweeperStep

---------------------------------------------------------------------------
(* Messages.                                                               *)

(* Jobs stay on the stream.                                                *)
LEMMA JobsStay ==
    ASSUME TypeOK, TypeOK', [Next]_vars, NEW m \in 1..last
    PROVE  m \in 1..last' /\ job'[m] = job[m] /\ m \in Msg /\ job[m] \in Jobs
<1>1. m \in Msg /\ last \in Int /\ job[m] \in Jobs
  BY QueueAssumption DEF TypeOK, QueueTypeOK, Msg
<1>2. CASE UNCHANGED <<last, job>>
  BY <1>1, <1>2
<1>3. ASSUME NEW w \in Sweepers, SweepXAdd(w)
      PROVE  m \in 1..last' /\ job'[m] = job[m]
  BY <1>1, <1>3 DEF SweepXAdd, XAdd, TypeOK, QueueTypeOK, Msg
<1>. QED
  BY <1>1, <1>2, <1>3, OnlyXAddAdds

(* Only the acknowledgement of m makes it final.                           *)
LEMMA MessageStays ==
    ASSUME TypeOK, [Next]_vars, NEW m \in 1..last, Pending(m)
    PROVE  mstate'[m] \in {"new", "pel", "trimmed"}
<1>. USE DEF TypeOK
<1>1. m \in Msg /\ m # last + 1 /\ mstate[m] \in {"new", "pel", "trimmed"}
  BY QueueAssumption DEF QueueTypeOK, Msg, Pending
<1>2. CASE UNCHANGED mstate
  BY <1>1, <1>2
<1>3. ASSUME NEW w \in Sweepers, SweeperStep(w) \/ SweepError(w) \/ SweepCrash(w)
      PROVE  mstate'[m] \in {"new", "pel", "trimmed"}
  <2>1. CASE SweepXAdd(w)
    <3>1. \E cut \in {0} \cup 1..(last + 1 - MaxLen) :
            mstate' = [k \in Msg |-> IF k = last + 1 THEN "new"
                                     ELSE IF k <= cut /\ mstate[k] \in {"new", "pel"}
                                          THEN "trimmed" ELSE mstate[k]]
      BY <2>1 DEF SweepXAdd, XAdd
    <3>. QED
      BY <1>1, <3>1
  <2>2. CASE ~SweepXAdd(w)
    BY <1>2, <1>3, <2>2 DEF SweeperStep, SweepError, SweepCrash, SweepScan, SweepClaim,
       SweepLookup, SweepSetKey, SweepQueue, MarkEnqueued, queueVars
  <2>. QED
    BY <2>1, <2>2
<1>4. ASSUME NEW c \in Consumers, ConsumerStep(c) \/ ConsumeError(c) \/ ConsumeCrash(c)
      PROVE  mstate'[m] \in {"new", "pel", "trimmed"}
  <2>1. CASE ConsumeNew(c)
    BY <1>1, <2>1 DEF ConsumeNew, XReadGroup
  <2>2. CASE ConsumeAck(c)
    <3>1. MsgOf(c) # m
      BY <2>2 DEF ConsumeAck, Pending
    <3>. QED
      BY <1>1, <2>2, <3>1 DEF ConsumeAck, XAck, QueueTypeOK
  <2>3. CASE ~ConsumeNew(c) /\ ~ConsumeAck(c)
    BY <1>2, <1>4, <2>3 DEF ConsumerStep, ConsumeError, ConsumeCrash, ConsumeReclaim,
       ConsumeLoad, ConsumeClaim, ConsumeWork, ConsumeSupersede, ConsumePut, ConsumeStages,
       ConsumeReview, ConsumeFinish, ConsumeDeadCas, ConsumeDeadAdd, XAutoClaim, XAddDead,
       queueVars
  <2>. QED
    BY <2>1, <2>2, <2>3
<1>5. CASE \E s \in Sessions : UserStep(s) \/ IdleThresholdPasses(s)
  BY <1>2, <1>5 DEF UserStep, IdleThresholdPasses, queueVars
<1>6. CASE (\E k \in Msg : AgeMessage(k)) \/ DedupKeyExpires \/ SwitchOff \/ SwitchOn
           \/ UNCHANGED vars
  BY <1>2, <1>6 DEF AgeMessage, Age, DedupKeyExpires, ExpireDedupKey, SwitchOff, SwitchOn,
                    vars, queueVars
<1>. QED
  BY <1>3, <1>4, <1>5, <1>6 DEF Next

(* A message stops being pending only when its session is in a final       *)
(* state: every road to an acknowledgement goes through one.               *)
LEMMA PendingStays ==
    ASSUME TypeOK, TypeOK', [Next]_vars, NEW m \in 1..last, Pending(m),
           status'[job[m][1]] \notin {"done", "dead_letter"}
    PROVE  Pending(m)'
<1>. USE DEF TypeOK
<1>0. m \in Msg /\ job[m] \in Jobs /\ job[m][1] \in Sessions
  BY JobsStay DEF Jobs
<1>1. ASSUME NEW c \in Consumers, cpc'[c] \in {"ack", "dead_add"}, MsgOf(c)' = m
      PROVE  FALSE
  <2>1. CASE ConsumerUntouched(c)
    BY <1>1, <2>1 DEF ConsumerUntouched, Pending, MsgOf
  <2>2. CASE ConsumeLoad(c)
    <3>1. PICK d \in inbox[c] :
             LET s == job[d[1]][1]
                 pc == AfterLoad(d, s, path[c] = "reclaimed")
             IN  /\ GetSessionWithCas(c, s)
                 /\ cpc' = [cpc EXCEPT ![c] = pc]
                 /\ cur' = [cur EXCEPT ![c] = IF pc = "next" THEN NoDelivery ELSE d]
      BY <2>2 DEF ConsumeLoad
    <3>2. job[d[1]][1] \in Sessions
      BY DEF ConsumerTypeOK, QueueTypeOK, Delivery, Jobs
    <3>3. status[job[d[1]][1]] \in Status
      BY <3>2 DEF SessionTypeOK
    <3>4. AfterLoad(d, job[d[1]][1], path[c] = "reclaimed") \in {"ack", "dead_add"}
      BY <1>1, <3>1 DEF ConsumerTypeOK
    <3>5. status[job[d[1]][1]] \in {"done", "dead_letter"}
      BY <3>3, <3>4 DEF AfterLoad, ClaimDecision, Status
    <3>6. d[1] = m
      BY <1>1, <3>1, <3>4 DEF ConsumerTypeOK, MsgOf
    <3>. QED
      BY <3>1, <3>5, <3>6 DEF GetSessionWithCas
  <2>3. CASE ConsumeClaim(c)
    BY <1>1, <2>3 DEF ConsumeClaim, GoTo, EndDelivery, ConsumerTypeOK
  <2>4. ASSUME ConsumerStep(c) \/ ConsumeError(c) \/ ConsumeCrash(c), ~ConsumeLoad(c), ~ConsumeClaim(c)
        PROVE  FALSE
    <3>1. cpc[c] \in {"finish", "dead_cas", "dead_add"} /\ cur'[c] = cur[c] /\ MsgOf(c) = m
      BY <1>1, <2>4, ConsumerProgress DEF MsgOf
    <3>2. cpc[c] # "dead_add"
      BY <3>1 DEF Pending
    <3>3. SessionOf(c) = job[m][1]
      BY <3>1 DEF SessionOf, JobOf
    <3>4. ConsumeFinish(c) \/ ConsumeDeadCas(c) \/ ConsumeError(c) \/ ConsumeCrash(c)
      BY <2>4, <3>1, <3>2 DEF ConsumerStep, ConsumeReclaim, ConsumeNew, ConsumeWork,
         ConsumeSupersede, ConsumePut, ConsumeStages, ConsumeReview, ConsumeAck, ConsumeDeadAdd
    <3>5. ~EndDelivery(c) /\ ~ConsumeCrash(c)
      BY <1>1 DEF EndDelivery, ConsumeCrash, ConsumerTypeOK
    <3>6. \/ SetLearningStatus(c, job[m][1], "done", seen[c][2])
          \/ SetLearningStatus(c, job[m][1], "dead_letter", NoHash)
      BY <3>3, <3>4, <3>5 DEF ConsumeFinish, ConsumeDeadCas, ConsumeError
    <3>. QED
      BY <1>0, <3>6 DEF SetLearningStatus, SessionTypeOK
  <2>. QED
    BY <2>1, <2>2, <2>3, <2>4, OthersUntouched
<1>. QED
  BY <1>1, MessageStays DEF Pending

LEMMA KeysInductive ==
    ASSUME TypeOK, TypeOK', DecisionsStand, KeysHaveMessages, [Next]_vars
    PROVE  KeysHaveMessages'
<1>. USE DEF TypeOK
<1>1. ASSUME NEW w \in Sweepers, spc'[w] \in {"setkey", "queue"}
      PROVE  \E m \in 1..last' : job'[m] = SweptJob(w)'
  <2>1. CASE SweeperUntouched(w)
    <3>1. SweptJob(w)' = SweptJob(w) /\ spc[w] \in {"setkey", "queue"}
      BY <1>1, <2>1 DEF SweeperUntouched, SweptJob
    <3>. QED
      BY <3>1, JobsStay DEF KeysHaveMessages
  <2>2. CASE SweepXAdd(w)
    <3>1. SweptJob(w)' = SweptJob(w)
      BY <2>2 DEF SweepXAdd, SweepTo, SweptJob
    <3>2. last' = last + 1 /\ job'[last + 1] = SweptJob(w) /\ last + 1 \in 1..last'
      BY <2>2, QueueAssumption DEF SweepXAdd, XAdd, QueueTypeOK, Msg
    <3>. QED
      BY <3>1, <3>2
  <2>3. CASE SweepLookup(w) \/ SweepSetKey(w)
    <3>1. SweptJob(w)' = SweptJob(w)
      BY <2>3 DEF SweepLookup, SweepSetKey, SweepTo, SweptJob
    <3>2. SweptJob(w) \in dedup \/ spc[w] \in {"setkey", "queue"}
      BY <1>1, <2>3 DEF SweepLookup, SweepSetKey, SweepTo, SweeperTypeOK
    <3>3. \E m \in 1..last : job[m] = SweptJob(w)
      BY <3>2 DEF KeysHaveMessages
    <3>. QED
      BY <3>1, <3>3, JobsStay
  <2>4. CASE SweepScan(w) \/ SweepQueue(w) \/ SweepError(w) \/ SweepCrash(w)
    BY <1>1, <2>4 DEF SweepScan, SweepQueue, SweepError, SweepCrash, SweepNext, SweeperTypeOK
  <2>5. ASSUME NEW s \in Sessions, SweepClaim(w, s)
        PROVE  FALSE
    BY <1>1, <2>5, SweepClaimEffect
  <2>. QED
    BY <2>1, <2>2, <2>3, <2>4, <2>5, OthersUntouched DEF SweeperStep
<1>2. ASSUME NEW j \in dedup'
      PROVE  \E m \in 1..last' : job'[m] = j
  <2>1. CASE j \in dedup
    BY <2>1, JobsStay DEF KeysHaveMessages
  <2>2. ASSUME NEW w \in Sweepers, SweepSetKey(w), j = SweptJob(w)
        PROVE  \E m \in 1..last' : job'[m] = j
    <3>1. \E m \in 1..last : job[m] = j
      BY <2>2 DEF SweepSetKey, KeysHaveMessages
    <3>. QED
      BY <3>1, JobsStay
  <2>3. ASSUME NEW w \in Sweepers, SweepSetKey(w)
        PROVE  j \in dedup \/ j = SweptJob(w)
    BY <2>3 DEF SweepSetKey, MarkEnqueued
  <2>4. ASSUME NEW w \in Sweepers, SweeperStep(w) \/ SweepError(w) \/ SweepCrash(w), ~SweepSetKey(w)
        PROVE  UNCHANGED dedup
    BY <2>4 DEF SweeperStep, SweepError, SweepCrash, SweepScan, SweepClaim, SweepLookup,
                SweepXAdd, SweepQueue, XAdd, queueVars
  <2>5. ASSUME NEW c \in Consumers, ConsumerStep(c) \/ ConsumeError(c) \/ ConsumeCrash(c)
        PROVE  UNCHANGED dedup
    BY <2>5 DEF ConsumerStep, ConsumeError, ConsumeCrash, ConsumeReclaim, ConsumeNew,
                ConsumeLoad, ConsumeClaim, ConsumeWork, ConsumeSupersede, ConsumePut,
                ConsumeStages, ConsumeReview, ConsumeFinish, ConsumeAck, ConsumeDeadCas,
                ConsumeDeadAdd, XAutoClaim, XReadGroup, XAck, XAddDead, queueVars
  <2>6. CASE DedupKeyExpires
    BY <2>1, <2>6 DEF DedupKeyExpires, ExpireDedupKey
  <2>7. CASE \E s \in Sessions : UserStep(s) \/ IdleThresholdPasses(s)
    BY <2>1, <2>7 DEF UserStep, IdleThresholdPasses, queueVars
  <2>8. CASE (\E m \in Msg : AgeMessage(m)) \/ SwitchOff \/ SwitchOn \/ UNCHANGED vars
    BY <2>1, <2>8 DEF AgeMessage, Age, SwitchOff, SwitchOn, vars, queueVars
  <2>. QED
    BY <2>1, <2>2, <2>3, <2>4, <2>5, <2>6, <2>7, <2>8 DEF Next
<1>. QED
  BY <1>1, <1>2 DEF KeysHaveMessages

(* A transcript only ever changes to one that no message carries.          *)
LEMMA ContentStep ==
    ASSUME TypeOK, [Next]_vars, NEW s \in Sessions
    PROVE  \/ content'[s] = content[s] /\ ~Expire(s)
           \/ content'[s] = version[s] + 1
<1>. USE DEF TypeOK
<1>0. Expire(s) => content'[s] = version[s] + 1
  BY DEF Expire, SessionTypeOK
<1>1. ASSUME NEW t \in Sessions, UserStep(t) \/ IdleThresholdPasses(t)
      PROVE  content'[s] = content[s] \/ content'[s] = version[s] + 1
  BY <1>1 DEF UserStep, IdleThresholdPasses, AppendMessage, TouchSession, GoIdle, Expire,
              SessionTypeOK
<1>2. ASSUME NEW w \in Sweepers, SweeperStep(w) \/ SweepError(w) \/ SweepCrash(w)
      PROVE  content' = content
  BY <1>2 DEF SweeperStep, SweepError, SweepCrash, SweepScan, SweepClaim, SweepLookup,
              SweepXAdd, SweepSetKey, SweepQueue, ScanIdleSessions, SetLearningStatus,
              sessionVars, docVars
<1>3. ASSUME NEW c \in Consumers, ConsumerStep(c) \/ ConsumeError(c) \/ ConsumeCrash(c)
      PROVE  content' = content
  BY <1>3 DEF ConsumerStep, ConsumeError, ConsumeCrash, ConsumeReclaim, ConsumeNew,
              ConsumeLoad, ConsumeClaim, ConsumeWork, ConsumeSupersede, ConsumePut,
              ConsumeStages, ConsumeReview, ConsumeFinish, ConsumeAck, ConsumeDeadCas,
              ConsumeDeadAdd, GetSessionWithCas, SetLearningStatus, sessionVars, docVars
<1>4. CASE (\E m \in Msg : AgeMessage(m)) \/ DedupKeyExpires \/ SwitchOff \/ SwitchOn
           \/ UNCHANGED vars
  BY <1>0, <1>4 DEF AgeMessage, DedupKeyExpires, SwitchOff, SwitchOn, vars, sessionVars, docVars
<1>. QED
  BY <1>0, <1>1, <1>2, <1>3, <1>4 DEF Next

LEMMA UnqueuedInductive ==
    ASSUME TypeOK, TypeOK', VersionsGrow, UnqueuedMessagesPending, [Next]_vars
    PROVE  UnqueuedMessagesPending'
<1>. USE DEF TypeOK
<1>. SUFFICES ASSUME NEW m \in 1..last',
                     status'[job'[m][1]] \in {"active", "pending"},
                     job'[m][2] = content'[job'[m][1]]
              PROVE  Pending(m)'
  BY DEF UnqueuedMessagesPending
<1>1. CASE m \in 1..last
  <2>1. job'[m] = job[m] /\ job[m] \in Jobs
    BY <1>1, JobsStay
  <2>. DEFINE s == job[m][1]
  <2>2. s \in Sessions /\ job[m][2] \in Nat /\ job[m][2] <= version[s] /\ version[s] \in Nat
    BY <1>1, <2>1 DEF Jobs, VersionsGrow, SessionTypeOK
  <2>3. content'[s] = content[s] /\ ~Expire(s)
    BY <2>1, <2>2, ContentStep
  <2>4. status[s] \in {"active", "pending"}
    <3>1. StatusMove(s)
      BY <2>2, StatusStep
    <3>. QED
      BY <2>1, <2>2, <2>3, <3>1 DEF StatusMove, SetLearningStatus, CanTransition, SessionTypeOK
  <2>5. Pending(m)
    BY <1>1, <2>1, <2>3, <2>4 DEF UnqueuedMessagesPending
  <2>. QED
    BY <1>1, <2>1, <2>5, PendingStays
<1>2. CASE m \notin 1..last
  <2>1. PICK w \in Sweepers : SweepXAdd(w)
    BY <1>2, OnlyXAddAdds
  <2>2. m = last + 1 /\ m \in Msg /\ last \in Nat
    BY <1>2, <2>1, QueueAssumption DEF SweepXAdd, XAdd, QueueTypeOK, Msg
  <2>3. mstate'[m] = "new"
    <3>1. \E cut \in {0} \cup 1..(last + 1 - MaxLen) :
            mstate' = [k \in Msg |-> IF k = last + 1 THEN "new"
                                     ELSE IF k <= cut /\ mstate[k] \in {"new", "pel"}
                                          THEN "trimmed" ELSE mstate[k]]
      BY <2>1 DEF SweepXAdd, XAdd
    <3>. QED
      BY <2>2, <3>1
  <2>4. ASSUME NEW c \in Consumers, cpc'[c] \in {"ack", "dead_add"}
        PROVE  MsgOf(c)' # m
    <3>1. cpc[c] # "next" /\ cur'[c] = cur[c]
      BY <2>1, <2>4 DEF SweepXAdd, consumerVars
    <3>2. MsgOf(c) \in Msg /\ MsgOf(c) <= last
      BY <3>1, CurrentDelivery
    <3>. QED
      BY <2>2, <3>1, <3>2 DEF MsgOf, Msg
  <2>. QED
    BY <2>3, <2>4 DEF Pending
<1>. QED
  BY <1>1, <1>2

LEMMA QueuedInductive ==
    ASSUME TypeOK, TypeOK', TokensTellTruth, KeysHaveMessages, UnqueuedMessagesPending,
           QueuedHasMessage, [Next]_vars
    PROVE  QueuedHasMessage'
<1>. USE DEF TypeOK
<1>. SUFFICES ASSUME NEW s \in Sessions, status'[s] = "queued"
              PROVE  \E m \in 1..last' : job'[m][1] = s /\ Pending(m)'
  BY DEF QueuedHasMessage
<1>1. \E m \in 1..last : job[m][1] = s /\ Pending(m)
  <2>1. CASE status[s] = "queued"
    BY <2>1 DEF QueuedHasMessage
  <2>2. CASE status[s] # "queued"
    <3>1. StatusMove(s)
      BY StatusStep
    <3>2. PICK w \in Sweepers : /\ spc[w] = "queue" /\ swept[w] = s
                                /\ CanTransition(w, s, "pending", TRUE)
      BY <2>2, <3>1 DEF StatusMove, SetLearningStatus, Expire, SessionTypeOK
    <3>3. status[s] = "pending" /\ content[s] = snap[w][s][2]
      BY <3>2 DEF TokensTellTruth, SweptToken, CanTransition
    <3>4. PICK m \in 1..last : job[m] = SweptJob(w)
      BY <3>2 DEF KeysHaveMessages
    <3>5. job[m][1] = s /\ job[m][2] = content[s]
      BY <3>2, <3>3, <3>4 DEF SweptJob
    <3>. QED
      BY <3>3, <3>5 DEF UnqueuedMessagesPending
  <2>. QED
    BY <2>1, <2>2
<1>. QED
  BY <1>1, JobsStay, PendingStays

---------------------------------------------------------------------------
(* The theorems.                                                           *)

LEMMA IInvInit == Init => IInv
<1>. SUFFICES ASSUME Init PROVE IInv
  OBVIOUS
<1>1. TypeOK
  <2>1. SessionTypeOK
    BY LifecycleAssumption DEF Init, SessionInit, SessionTypeOK, Status
  <2>2. QueueTypeOK(Jobs)
    BY QueueAssumption DEF Init, QueueInit, QueueTypeOK, Msg, MsgState
  <2>3. SweeperTypeOK
    BY DEF Init, SweeperTypeOK, SweeperPC, NoSnap, Snapshot, Status
  <2>4. ConsumerTypeOK /\ EnvTypeOK
    BY LoopAssumption
    DEF Init, ConsumerTypeOK, EnvTypeOK, ConsumerPC, NoSnap, Snapshot, Status
  <2>. QED
    BY <2>1, <2>2, <2>3, <2>4 DEF TypeOK
<1>2. TokensTellTruth /\ DecisionsStand /\ UniqueOwner
  BY DEF Init, TokensTellTruth, ScannedToken, SweptToken, LoadedToken, OwnerToken, Working,
         DecisionsStand, SweepDecision, ClaimMemory, UniqueOwner, Owns
<1>3. VersionsGrow /\ KeysHaveMessages /\ UnqueuedMessagesPending /\ QueuedHasMessage
  BY DEF Init, SessionInit, QueueInit, VersionsGrow, KeysHaveMessages,
         UnqueuedMessagesPending, QueuedHasMessage
<1>. QED
  BY <1>1, <1>2, <1>3 DEF IInv

LEMMA IInvStep == IInv /\ [Next]_vars => IInv'
<1>. SUFFICES ASSUME IInv, [Next]_vars PROVE IInv'
  OBVIOUS
<1>1. TypeOK'
  <2>1. CASE UNCHANGED vars
    BY <2>1, SessionSame, QueueSame, SweeperSame, ConsumerSame, EnvSame, LastType
    DEF vars, IInv, TypeOK, queueVars
  <2>. QED
    BY <2>1, SweeperStepType, ConsumerStepType, EnvironmentType DEF Next, IInv
<1>. QED
  BY <1>1, TokensInductive, DecisionsInductive, OwnerInductive, VersionsInductive,
     KeysInductive, UnqueuedInductive, QueuedInductive DEF IInv

(* The inductive invariant holds in every reachable state.                 *)
THEOREM IInvHolds == Spec => []IInv
BY IInvInit, IInvStep, PTL DEF Spec

(* A queued session always has a message that will be delivered (or was    *)
(* trimmed by MAXLEN), and no consumer about to acknowledge it.            *)
THEOREM QueuedIsNeverStranded == Spec => []QueuedHasMessage
<1>1. IInv => QueuedHasMessage
  BY DEF IInv
<1>. QED
  BY <1>1, IInvHolds, PTL

(* At most one consumer can complete a session, and its snapshot is true.  *)
THEOREM OneOwner == Spec => []SingleOwner
<1>1. IInv => SingleOwner
  BY DEF IInv, SingleOwner, UniqueOwner, TokensTellTruth, OwnerToken, Owns
<1>. QED
  BY <1>1, IInvHolds, PTL

(* The hash recorded at `done` is that of the stored transcript.           *)
THEOREM RecordedHashIsTrue == Spec => DoneHashTrue
<1>1. IInv /\ [Next]_vars =>
        [\A s \in Sessions : status[s] # "done" /\ status'[s] = "done"
            => hash'[s] = content'[s]]_vars
  <2>. SUFFICES ASSUME IInv, [Next]_vars, NEW s \in Sessions,
                       status[s] # "done", status'[s] = "done"
                PROVE  hash'[s] = content'[s]
    OBVIOUS
  <2>1. StatusMove(s) /\ SessionTypeOK
    BY StatusStep DEF IInv, TypeOK
  <2>2. PICK c \in Consumers : /\ cpc[c] = "finish" /\ SessionOf(c) = s
                               /\ CanTransition(c, s, "processing", TRUE)
                               /\ SetLearningStatus(c, s, "done", seen[c][2])
    BY <2>1 DEF StatusMove, SetLearningStatus, Expire, SessionTypeOK
  <2>3. content[s] = seen[c][2] /\ content[s] \in Nat
    BY <2>1, <2>2 DEF IInv, TokensTellTruth, OwnerToken, Working, CanTransition, SessionTypeOK
  <2>. QED
    BY <2>1, <2>2, <2>3 DEF SetLearningStatus, SessionTypeOK, NoHash
<1>. QED
  BY <1>1, IInvHolds, PTL DEF Spec, DoneHashTrue

---------------------------------------------------------------------------
(* What only an expiry forgets.                                            *)

LEMMA ExpiryCounted ==
    ASSUME TypeOK, [Next]_vars, expiries' = 0
    PROVE  expiries = 0 /\ \A s \in Sessions : ~Expire(s)
<1>1. expiries \in Nat
  BY LifecycleAssumption DEF TypeOK, SessionTypeOK
<1>2. \A s \in Sessions : ~Expire(s)
  BY <1>1 DEF Expire
<1>3. ASSUME NEW s \in Sessions, UserStep(s) \/ IdleThresholdPasses(s)
      PROVE  expiries' = expiries
  BY <1>2, <1>3 DEF UserStep, IdleThresholdPasses, AppendMessage, TouchSession, GoIdle, budgetVars
<1>4. ASSUME NEW w \in Sweepers, SweeperStep(w) \/ SweepError(w) \/ SweepCrash(w)
      PROVE  expiries' = expiries
  BY <1>4 DEF SweeperStep, SweepError, SweepCrash, SweepScan, SweepClaim, SweepLookup,
              SweepXAdd, SweepSetKey, SweepQueue, ScanIdleSessions, SetLearningStatus,
              sessionVars, budgetVars
<1>5. ASSUME NEW c \in Consumers, ConsumerStep(c) \/ ConsumeError(c) \/ ConsumeCrash(c)
      PROVE  expiries' = expiries
  BY <1>5 DEF ConsumerStep, ConsumeError, ConsumeCrash, ConsumeReclaim, ConsumeNew,
              ConsumeLoad, ConsumeClaim, ConsumeWork, ConsumeSupersede, ConsumePut,
              ConsumeStages, ConsumeReview, ConsumeFinish, ConsumeAck, ConsumeDeadCas,
              ConsumeDeadAdd, GetSessionWithCas, SetLearningStatus, sessionVars, budgetVars
<1>6. CASE UNCHANGED sessionVars
  BY <1>2, <1>6 DEF sessionVars, docVars, budgetVars
<1>7. CASE (\E m \in Msg : AgeMessage(m)) \/ DedupKeyExpires \/ SwitchOff \/ SwitchOn
           \/ UNCHANGED vars
  BY <1>6, <1>7 DEF AgeMessage, DedupKeyExpires, SwitchOff, SwitchOn, vars
<1>. QED
  BY <1>2, <1>3, <1>4, <1>5, <1>7 DEF Next

(* Without an expiry no session becomes active again, and a dead-lettered  *)
(* one stays so.                                                           *)
LEMMA StatusRemembered ==
    ASSUME TypeOK, DecisionsStand, [Next]_vars, expiries' = 0, NEW s \in Sessions
    PROVE  /\ status[s] # "active" => status'[s] # "active"
           /\ status[s] = "dead_letter" => status'[s] = "dead_letter"
<1>1. StatusMove(s) /\ ~Expire(s) /\ status \in [Sessions -> Status]
  BY StatusStep, ExpiryCounted DEF TypeOK, SessionTypeOK
<1>2. \A c \in Consumers : cpc[c] = "claim" => seen[c][1] \in {"queued", "processing", "done"}
  BY DEF DecisionsStand, ClaimMemory
<1>. QED
  BY <1>1, <1>2 DEF StatusMove, CanTransition, SetLearningStatus

LEMMA OnlyDeadAddBuries ==
    ASSUME [Next]_vars
    PROVE  (\E c \in Consumers : ConsumeDeadAdd(c)) \/ UNCHANGED dead
<1>1. ASSUME NEW w \in Sweepers, SweeperStep(w) \/ SweepError(w) \/ SweepCrash(w)
      PROVE  UNCHANGED dead
  BY <1>1 DEF SweeperStep, SweepError, SweepCrash, SweepScan, SweepClaim, SweepLookup,
              SweepXAdd, SweepSetKey, SweepQueue, XAdd, MarkEnqueued, queueVars
<1>2. ASSUME NEW c \in Consumers, ConsumerStep(c) \/ ConsumeError(c) \/ ConsumeCrash(c),
             ~ConsumeDeadAdd(c)
      PROVE  UNCHANGED dead
  BY <1>2 DEF ConsumerStep, ConsumeError, ConsumeCrash, ConsumeReclaim, ConsumeNew,
              ConsumeLoad, ConsumeClaim, ConsumeWork, ConsumeSupersede, ConsumePut,
              ConsumeStages, ConsumeReview, ConsumeFinish, ConsumeAck, ConsumeDeadCas,
              XAutoClaim, XReadGroup, XAck, queueVars
<1>3. CASE \E s \in Sessions : UserStep(s) \/ IdleThresholdPasses(s)
  BY <1>3 DEF UserStep, IdleThresholdPasses, queueVars
<1>4. CASE (\E m \in Msg : AgeMessage(m)) \/ DedupKeyExpires \/ SwitchOff \/ SwitchOn
           \/ UNCHANGED vars
  BY <1>4 DEF AgeMessage, Age, DedupKeyExpires, ExpireDedupKey, SwitchOff, SwitchOn, vars, queueVars
<1>. QED
  BY <1>1, <1>2, <1>3, <1>4 DEF Next

LEMMA ForgottenInductive ==
    ASSUME TypeOK, TypeOK', DecisionsStand, ForgottenOnlyByExpiry, [Next]_vars
    PROVE  ForgottenOnlyByExpiry'
<1>. SUFFICES ASSUME expiries' = 0
              PROVE  /\ \A m \in 1..last' : status'[job'[m][1]] # "active"
                     /\ \A m \in dead' : status'[job'[m][1]] = "dead_letter"
                     /\ \A w \in Sweepers :
                          /\ spc'[w] # "next" => status'[swept'[w]] # "active"
                          /\ \A s \in todo'[w] : snap'[w][s][1] = "pending" => status'[s] # "active"
                     /\ \A c \in Consumers :
                          cpc'[c] = "dead_add" => status'[SessionOf(c)'] = "dead_letter"
  BY DEF ForgottenOnlyByExpiry
<1>0. expiries = 0
  BY ExpiryCounted
<1>1. ASSUME NEW w \in Sweepers
      PROVE  /\ spc[w] # "next" => swept[w] \in Sessions /\ status'[swept[w]] # "active"
             /\ \A s \in todo[w] :
                  s \in Sessions /\ (snap[w][s][1] = "pending" => status'[s] # "active")
  BY <1>0, StatusRemembered DEF ForgottenOnlyByExpiry, TypeOK, SweeperTypeOK
<1>2. ASSUME NEW m \in 1..last'
      PROVE  status'[job'[m][1]] # "active"
  <2>1. CASE m \in 1..last
    BY <1>0, <2>1, JobsStay, StatusRemembered DEF ForgottenOnlyByExpiry, Jobs
  <2>2. CASE m \notin 1..last
    <3>1. PICK w \in Sweepers : SweepXAdd(w)
      BY <2>2, OnlyXAddAdds
    <3>2. last \in 0..MaxMsgs /\ MaxMsgs \in Nat /\ last' = last + 1 /\ last < MaxMsgs
          /\ job' = [job EXCEPT ![last + 1] = SweptJob(w)]
      BY <3>1, QueueAssumption DEF SweepXAdd, XAdd, TypeOK, QueueTypeOK
    <3>3. m = last + 1 /\ m \in Msg
      BY <2>2, <3>2 DEF Msg
    <3>4. job'[m] = SweptJob(w)
      BY <3>2, <3>3 DEF TypeOK, QueueTypeOK
    <3>. QED
      BY <1>1, <3>1, <3>4 DEF SweepXAdd, SweptJob
  <2>. QED
    BY <2>1, <2>2
<1>3. ASSUME NEW m \in dead'
      PROVE  status'[job'[m][1]] = "dead_letter"
  <2>1. ASSUME m \in 1..last, status[job[m][1]] = "dead_letter"
        PROVE  status'[job'[m][1]] = "dead_letter"
    BY <2>1, JobsStay, StatusRemembered DEF Jobs
  <2>2. CASE m \in dead
    BY <1>0, <2>1, <2>2 DEF ForgottenOnlyByExpiry, TypeOK, QueueTypeOK
  <2>3. CASE m \notin dead
    <3>1. PICK c \in Consumers : ConsumeDeadAdd(c)
      BY <2>3, OnlyDeadAddBuries
    <3>2. m = MsgOf(c) /\ cpc[c] = "dead_add"
      BY <2>3, <3>1 DEF ConsumeDeadAdd, XAddDead
    <3>3. MsgOf(c) \in 1..last
      BY <3>2, CurrentDelivery DEF TypeOK, QueueTypeOK, Msg
    <3>. QED
      BY <1>0, <2>1, <3>2, <3>3 DEF ForgottenOnlyByExpiry, SessionOf, JobOf
  <2>. QED
    BY <2>2, <2>3
<1>4. ASSUME NEW w \in Sweepers
      PROVE  /\ spc'[w] # "next" => status'[swept'[w]] # "active"
             /\ \A s \in todo'[w] : snap'[w][s][1] = "pending" => status'[s] # "active"
  <2>1. CASE SweeperUntouched(w)
    BY <1>1, <2>1 DEF SweeperUntouched
  <2>2. ASSUME NEW s \in Sessions, SweepClaim(w, s)
        PROVE  /\ spc'[w] # "next" => status'[swept'[w]] # "active"
               /\ \A t \in todo'[w] : snap'[w][t][1] = "pending" => status'[t] # "active"
    <3>1. /\ s \in todo[w] /\ swept'[w] = s /\ snap' = snap
          /\ todo'[w] \subseteq todo[w]
      BY <2>2, SweepClaimEffect
    <3>2. spc'[w] # "next" => status'[s] # "active"
      <4>1. CASE SetLearningStatus(w, s, "pending", NoHash)
        BY <4>1 DEF SetLearningStatus, TypeOK, SessionTypeOK
      <4>2. CASE snap[w][s][1] = "pending"
        BY <1>1, <3>1, <4>2
      <4>. QED
        BY <2>2, <4>1, <4>2 DEF SweepClaim, TypeOK, SweeperTypeOK
    <3>. QED
      BY <1>1, <3>1, <3>2
  <2>3. CASE SweepScan(w)
    <3>1. PICK S \in SUBSET Sweepable :
            /\ ScanIdleSessions(w, S)
            /\ todo' = [todo EXCEPT ![w] = S]
            /\ snap' = [snap EXCEPT ![w] =
                          [s \in Sessions |-> IF s \in S THEN <<status[s], content[s]>>
                                              ELSE NoSnap]]
      BY <2>3 DEF SweepScan
    <3>2. status' = status /\ spc'[w] = "next" /\ todo'[w] = S
      BY <2>3, <3>1 DEF SweepScan, ScanIdleSessions, TypeOK, SweeperTypeOK
    <3>3. ASSUME NEW s \in S
          PROVE  s \in Sessions /\ snap'[w][s] = <<status[s], content[s]>>
      BY <3>1 DEF Sweepable, TypeOK, SessionTypeOK, SweeperTypeOK
    <3>. QED
      BY <3>2, <3>3
  <2>4. ASSUME SweeperStep(w) \/ SweepError(w) \/ SweepCrash(w),
               ~SweepScan(w), ~\E s \in Sessions : SweepClaim(w, s)
        PROVE  /\ spc'[w] # "next" => spc[w] # "next" /\ swept'[w] = swept[w]
    BY <2>4 DEF SweeperStep, SweepError, SweepCrash, SweepLookup, SweepXAdd, SweepSetKey,
                SweepQueue, SweepTo, SweepNext, TypeOK, SweeperTypeOK
  <2>. QED
    BY <1>1, <2>1, <2>2, <2>3, <2>4, OthersUntouched, SweepShrinks
<1>5. ASSUME NEW c \in Consumers, cpc'[c] = "dead_add"
      PROVE  status'[SessionOf(c)'] = "dead_letter"
  <2>1. ASSUME cpc[c] # "next", cur'[c] = cur[c]
        PROVE  SessionOf(c) \in Sessions /\ SessionOf(c)' = SessionOf(c)
    BY <2>1, CurrentDelivery, SessionOfStable DEF TypeOK
  <2>2. CASE ConsumerUntouched(c)
    BY <1>0, <1>5, <2>1, <2>2, StatusRemembered DEF ConsumerUntouched, ForgottenOnlyByExpiry
  <2>3. CASE ConsumeDeadCas(c)
    <3>1. cpc[c] = "dead_cas" /\ SetLearningStatus(c, SessionOf(c), "dead_letter", NoHash)
          /\ cur'[c] = cur[c]
      BY <1>5, <2>3 DEF ConsumeDeadCas, EndDelivery, GoTo, TypeOK, ConsumerTypeOK
    <3>. QED
      BY <2>1, <3>1 DEF SetLearningStatus, TypeOK, SessionTypeOK
  <2>4. CASE ConsumeLoad(c)
    <3>1. PICK d \in inbox[c] :
             cpc' = [cpc EXCEPT ![c] = AfterLoad(d, job[d[1]][1], path[c] = "reclaimed")]
      BY <2>4 DEF ConsumeLoad
    <3>2. status[job[d[1]][1]] \in Status
      BY DEF TypeOK, ConsumerTypeOK, QueueTypeOK, Delivery, Jobs, SessionTypeOK
    <3>3. ClaimDecision(status[job[d[1]][1]], path[c] = "reclaimed")
              \in {"forward", "recover", "refuse", "terminal"}
      BY <3>2 DEF ClaimDecision, Status
    <3>. QED
      BY <1>5, <3>1, <3>3 DEF AfterLoad, TypeOK, ConsumerTypeOK
  <2>5. ASSUME ConsumerStep(c) \/ ConsumeError(c) \/ ConsumeCrash(c),
               ~ConsumeLoad(c), ~ConsumeDeadCas(c)
        PROVE  FALSE
    BY <1>5, <2>5 DEF ConsumerStep, ConsumeError, ConsumeCrash, ConsumeReclaim, ConsumeNew,
              ConsumeClaim, ConsumeWork, ConsumeSupersede, ConsumePut,
              ConsumeStages, ConsumeReview, ConsumeFinish, ConsumeAck,
              ConsumeDeadAdd, GoTo, EndDelivery, TypeOK, ConsumerTypeOK
  <2>. QED
    BY <2>2, <2>3, <2>4, <2>5, OthersUntouched
<1>. QED
  BY <1>2, <1>3, <1>4, <1>5

(* The dead stream and the session flag agree, and while a consumer is     *)
(* between the two writes only the flag is set.                            *)
LEMMA ForgottenInit == Init => ForgottenOnlyByExpiry
BY DEF Init, QueueInit, ForgottenOnlyByExpiry

THEOREM OnlyExpiryForgets == Spec => []ForgottenOnlyByExpiry
<1>1. IInv /\ IInv' /\ ForgottenOnlyByExpiry /\ [Next]_vars => ForgottenOnlyByExpiry'
  BY ForgottenInductive DEF IInv
<1>. QED
  BY <1>1, ForgottenInit, IInvHolds, PTL DEF Spec

(* An entry of the dead-letter stream belongs to a session that was CASed  *)
(* to dead_letter first, however many processes crash or race in between   *)
(* (_handle_dead_letter).                                                  *)
THEOREM DeadLettersAreFlagged == Spec => []DeadStreamAgrees
<1>1. ForgottenOnlyByExpiry => DeadStreamAgrees
  BY DEF ForgottenOnlyByExpiry, DeadStreamAgrees
<1>. QED
  BY <1>1, OnlyExpiryForgets, PTL

(* learning_status moves along the declared edges, whatever snapshot or    *)
(* token the process that moves it has kept (state_machine.transition and  *)
(* recover_to_processing).                                                 *)
THEOREM StatusFollowsTheEdges == Spec => LifecycleEdges
<1>1. IInv /\ ForgottenOnlyByExpiry /\ [Next]_vars =>
        [\A s \in Sessions : s \in exists /\ s \in exists' /\ status'[s] # status[s]
            => \/ <<status[s], status'[s]>> \in ValidTransitions \cup RecoveryTransitions
               \/ expiries > 0 /\ status[s] = "active" /\ status'[s] = "dead_letter"]_vars
  <2>. SUFFICES ASSUME IInv, ForgottenOnlyByExpiry, [Next]_vars, NEW s \in Sessions,
                       s \in exists', status'[s] # status[s]
                PROVE  \/ <<status[s], status'[s]>> \in ValidTransitions \cup RecoveryTransitions
                       \/ expiries > 0 /\ status[s] = "active" /\ status'[s] = "dead_letter"
    OBVIOUS
  <2>1. StatusMove(s) /\ SessionTypeOK /\ status[s] \in Status /\ ~Expire(s)
    BY StatusStep DEF IInv, TypeOK, SessionTypeOK, Expire
  <2>2. CASE \E w \in Sweepers :
               \/ CanTransition(w, s, "active", TRUE) /\ SetLearningStatus(w, s, "pending", NoHash)
               \/ /\ CanTransition(w, s, "pending", TRUE)
                  /\ SetLearningStatus(w, s, "queued", snap[w][s][2])
    BY <2>1, <2>2 DEF CanTransition, SetLearningStatus, SessionTypeOK, ValidTransitions
  <2>3. ASSUME NEW c \in Consumers, cpc[c] = "claim", CanTransition(c, s, seen[c][1], TRUE),
               SetLearningStatus(c, s, "processing", NoHash)
        PROVE  <<status[s], status'[s]>> \in ValidTransitions \cup RecoveryTransitions
    <3>1. status[s] \in {"queued", "processing", "done"}
      BY <2>3 DEF IInv, DecisionsStand, ClaimMemory, CanTransition
    <3>. QED
      BY <2>1, <2>3, <3>1 DEF SetLearningStatus, SessionTypeOK, ValidTransitions, RecoveryTransitions
  <2>4. ASSUME NEW c \in Consumers, CanTransition(c, s, "processing", TRUE),
               SetLearningStatus(c, s, "done", seen[c][2])
        PROVE  <<status[s], status'[s]>> \in ValidTransitions
    BY <2>1, <2>4 DEF CanTransition, SetLearningStatus, SessionTypeOK, ValidTransitions
  <2>5. ASSUME NEW c \in Consumers, cpc[c] = "dead_cas", SessionOf(c) = s,
               CanTransition(c, s, seen[c][1], FALSE),
               SetLearningStatus(c, s, "dead_letter", NoHash)
        PROVE  \/ <<status[s], status'[s]>> \in ValidTransitions
               \/ expiries > 0 /\ status[s] = "active" /\ status'[s] = "dead_letter"
    <3>1. status'[s] = "dead_letter"
      BY <2>1, <2>5 DEF SetLearningStatus, SessionTypeOK
    <3>2. status[s] = seen[c][1] /\ seen[c][1] \notin {"done", "dead_letter"}
      BY <2>5 DEF IInv, TokensTellTruth, LoadedToken, DecisionsStand, ClaimMemory, CanTransition
    <3>3. MsgOf(c) \in 1..last /\ job[MsgOf(c)][1] = s
      BY <2>5, CurrentDelivery DEF IInv, TypeOK, QueueTypeOK, Msg, SessionOf, JobOf
    <3>4. status[s] = "active" => expiries > 0
      <4>1. status[s] = "active" => expiries # 0
        BY <3>3 DEF ForgottenOnlyByExpiry
      <4>2. expiries \in Nat
        BY <2>1, LifecycleAssumption DEF SessionTypeOK
      <4>. QED
        BY <4>1, <4>2
    <3>. QED
      BY <2>1, <3>1, <3>2, <3>4 DEF Status, ValidTransitions
  <2>. QED
    BY <2>1, <2>2, <2>3, <2>4, <2>5 DEF StatusMove
<1>. QED
  BY <1>1, IInvHolds, OnlyExpiryForgets, PTL DEF Spec, LifecycleEdges

---------------------------------------------------------------------------
(* A single consumer.                                                      *)

LEMMA SoleActor ==
    ASSUME TypeOK, SoleConsumer, [Next]_vars, NEW c \in Consumers
    PROVE  \/ ConsumerStep(c) \/ ConsumeError(c) \/ ConsumeCrash(c)
           \/ UNCHANGED <<consumerVars, rows>>
<1>1. ASSUME NEW w \in Sweepers, SweeperStep(w) \/ SweepError(w) \/ SweepCrash(w)
      PROVE  UNCHANGED <<consumerVars, rows>>
  BY <1>1 DEF SweeperStep, SweepError, SweepCrash, SweepScan, SweepClaim, SweepLookup,
              SweepXAdd, SweepSetKey, SweepQueue
<1>2. CASE \E s \in Sessions : UserStep(s) \/ IdleThresholdPasses(s)
  BY <1>2 DEF UserStep, IdleThresholdPasses
<1>3. CASE (\E m \in Msg : AgeMessage(m)) \/ DedupKeyExpires \/ SwitchOff \/ SwitchOn
           \/ UNCHANGED vars
  BY <1>3 DEF AgeMessage, DedupKeyExpires, SwitchOff, SwitchOn, vars
<1>. QED
  BY <1>1, <1>2, <1>3 DEF Next, SoleConsumer

(* A message that was delivered and not acknowledged stays so.             *)
LEMMA DeliveredStays ==
    ASSUME TypeOK, [Next]_vars, NEW m \in Msg, m <= last, mstate[m] \in {"pel", "trimmed"},
           \A c \in Consumers : ConsumeAck(c) => MsgOf(c) # m
    PROVE  mstate'[m] \in {"pel", "trimmed"}
<1>. USE DEF TypeOK
<1>1. m # last + 1
  BY QueueAssumption DEF QueueTypeOK, Msg
<1>2. CASE UNCHANGED mstate
  BY <1>2
<1>3. ASSUME NEW w \in Sweepers, SweeperStep(w) \/ SweepError(w) \/ SweepCrash(w)
      PROVE  mstate'[m] \in {"pel", "trimmed"}
  <2>1. CASE SweepXAdd(w)
    <3>1. \E cut \in {0} \cup 1..(last + 1 - MaxLen) :
            mstate' = [k \in Msg |-> IF k = last + 1 THEN "new"
                                     ELSE IF k <= cut /\ mstate[k] \in {"new", "pel"}
                                          THEN "trimmed" ELSE mstate[k]]
      BY <2>1 DEF SweepXAdd, XAdd
    <3>. QED
      BY <1>1, <3>1
  <2>2. CASE ~SweepXAdd(w)
    BY <1>2, <1>3, <2>2 DEF SweeperStep, SweepError, SweepCrash, SweepScan, SweepClaim,
       SweepLookup, SweepSetKey, SweepQueue, MarkEnqueued, queueVars
  <2>. QED
    BY <2>1, <2>2
<1>4. ASSUME NEW c \in Consumers, ConsumerStep(c) \/ ConsumeError(c) \/ ConsumeCrash(c)
      PROVE  mstate'[m] \in {"pel", "trimmed"}
  <2>1. CASE ConsumeNew(c)
    BY <2>1 DEF ConsumeNew, XReadGroup
  <2>2. CASE ConsumeAck(c)
    BY <2>2 DEF ConsumeAck, XAck, QueueTypeOK
  <2>3. CASE ~ConsumeNew(c) /\ ~ConsumeAck(c)
    BY <1>2, <1>4, <2>3 DEF ConsumerStep, ConsumeError, ConsumeCrash, ConsumeReclaim,
       ConsumeLoad, ConsumeClaim, ConsumeWork, ConsumeSupersede, ConsumePut, ConsumeStages,
       ConsumeReview, ConsumeFinish, ConsumeDeadCas, ConsumeDeadAdd, XAutoClaim, XAddDead,
       queueVars
  <2>. QED
    BY <2>1, <2>2, <2>3
<1>5. CASE \E s \in Sessions : UserStep(s) \/ IdleThresholdPasses(s)
  BY <1>2, <1>5 DEF UserStep, IdleThresholdPasses, queueVars
<1>6. CASE (\E k \in Msg : AgeMessage(k)) \/ DedupKeyExpires \/ SwitchOff \/ SwitchOn
           \/ UNCHANGED vars
  BY <1>2, <1>6 DEF AgeMessage, Age, DedupKeyExpires, ExpireDedupKey, SwitchOff, SwitchOn,
     vars, queueVars
<1>. QED
  BY <1>3, <1>4, <1>5, <1>6 DEF Next

LEMMA HeldInductive ==
    ASSUME TypeOK, TypeOK', SoleConsumer, [Next]_vars, NEW c \in Consumers, HeldOnce(c)
    PROVE  HeldOnce(c)'
<1>. USE DEF TypeOK
<1>1. \A d \in inbox[c] : d \in Delivery /\ d[1] \in Msg /\ d[1] <= last
  BY DEF ConsumerTypeOK, Delivery
<1>2. cpc[c] # "next" => MsgOf(c) \in Msg /\ MsgOf(c) <= last
  BY CurrentDelivery
<1>3. ASSUME ~ConsumeAck(c)
      PROVE  /\ \A d \in inbox[c] : mstate'[d[1]] \in {"pel", "trimmed"}
             /\ cpc[c] # "next" => mstate'[MsgOf(c)] \in {"pel", "trimmed"}
  <2>1. \A d \in Consumers : ~ConsumeAck(d)
    BY <1>3 DEF SoleConsumer
  <2>. QED
    BY <1>1, <1>2, <2>1, DeliveredStays DEF HeldOnce
<1>4. CASE UNCHANGED <<consumerVars, rows>>
  <2>1. ~ConsumeAck(c)
    BY <1>4 DEF ConsumeAck, EndDelivery, consumerVars, ConsumerTypeOK
  <2>2. inbox' = inbox /\ cpc' = cpc /\ MsgOf(c)' = MsgOf(c)
    BY <1>4 DEF consumerVars, MsgOf
  <2>. QED
    BY <1>3, <2>1, <2>2 DEF HeldOnce
<1>5. CASE ConsumeReclaim(c)
  <2>1. inbox'[c] = {<<m, NextCount(m)>> : m \in stale} /\ cpc'[c] = "next" /\ mstate' = mstate
    BY <1>5 DEF ConsumeReclaim, XAutoClaim, ConsumerTypeOK
  <2>2. \A m \in stale : mstate[m] = "pel"
    BY DEF QueueTypeOK
  <2>. QED
    BY <2>1, <2>2 DEF HeldOnce
<1>6. CASE ConsumeNew(c)
  <2>1. inbox'[c] = {<<m, 1>> : m \in NextNew} /\ cpc'[c] = "next"
    BY <1>6 DEF ConsumeNew, ConsumerTypeOK
  <2>2. \A m \in NextNew : mstate'[m] = "pel"
    BY <1>6 DEF ConsumeNew, XReadGroup, NextNew
  <2>. QED
    BY <2>1, <2>2 DEF HeldOnce
<1>7. CASE ConsumeLoad(c)
  <2>1. PICK d \in inbox[c] :
           /\ inbox' = [inbox EXCEPT ![c] = @ \ {d}]
           /\ cur' = [cur EXCEPT ![c] = IF AfterLoad(d, job[d[1]][1], path[c] = "reclaimed") = "next"
                                        THEN NoDelivery ELSE d]
           /\ cpc' = [cpc EXCEPT ![c] = AfterLoad(d, job[d[1]][1], path[c] = "reclaimed")]
    BY <1>7 DEF ConsumeLoad
  <2>2. inbox'[c] = inbox[c] \ {d} /\ (cpc'[c] # "next" => cur'[c] = d) /\ mstate' = mstate
    BY <1>7, <2>1 DEF ConsumeLoad, ConsumerTypeOK, queueVars
  <2>. QED
    BY <2>2 DEF HeldOnce, MsgOf
<1>8. CASE ConsumeAck(c)
  <2>1. inbox' = inbox /\ cpc'[c] = "next" /\ cpc[c] # "next"
    BY <1>8 DEF ConsumeAck, EndDelivery, ConsumerTypeOK
  <2>2. \A m \in Msg \ {MsgOf(c)} : mstate'[m] = mstate[m]
    BY <1>8 DEF ConsumeAck, XAck, QueueTypeOK
  <2>. QED
    BY <1>1, <2>1, <2>2 DEF HeldOnce
<1>9. ASSUME ConsumerStep(c) \/ ConsumeError(c) \/ ConsumeCrash(c), ~ConsumeReclaim(c),
             ~ConsumeNew(c), ~ConsumeLoad(c), ~ConsumeAck(c)
      PROVE  HeldOnce(c)'
  <2>1. /\ inbox'[c] \subseteq inbox[c]
        /\ cpc'[c] # "next" => cpc[c] # "next" /\ cur'[c] = cur[c]
    BY <1>9 DEF ConsumerStep, ConsumeError, ConsumeCrash, ConsumeClaim, ConsumeWork,
       ConsumeSupersede, ConsumePut, ConsumeStages, ConsumeReview, ConsumeFinish,
       ConsumeDeadCas, ConsumeDeadAdd, GoTo, EndDelivery, ConsumerTypeOK
  <2>. QED
    BY <1>3, <1>9, <2>1 DEF HeldOnce, MsgOf
<1>. QED
  BY <1>4, <1>5, <1>6, <1>7, <1>8, <1>9, SoleActor DEF ConsumerStep

LEMMA AckInductive ==
    ASSUME TypeOK, TypeOK', DecisionsStand, SoleConsumer, [Next]_vars, NEW c \in Consumers,
           cpc[c] \in {"ack", "dead_add"} => status[SessionOf(c)] # "processing",
           cpc'[c] \in {"ack", "dead_add"}
    PROVE  status'[SessionOf(c)'] # "processing"
<1>. USE DEF TypeOK
<1>1. ASSUME cpc[c] \in {"ack", "dead_add"}, cur'[c] = cur[c]
      PROVE  status'[SessionOf(c)'] # "processing"
  <2>1. PICK s \in Sessions : s = SessionOf(c) /\ SessionOf(c)' = s
    BY <1>1, CurrentDelivery, SessionOfStable
  <2>2. StatusMove(s) /\ status[s] # "processing"
    BY <1>1, <2>1, StatusStep
  <2>3. \A d \in Consumers : cpc[d] # "claim"
    BY <1>1 DEF SoleConsumer
  <2>4. CASE Expire(s)
    BY <2>1, <2>4 DEF Expire, SessionTypeOK
  <2>5. CASE ~Expire(s)
    <3>1. status'[s] # "processing"
      <4>1. ASSUME NEW w, NEW to, NEW h, SetLearningStatus(w, s, to, h)
            PROVE  status'[s] = to
        BY <4>1 DEF SetLearningStatus, SessionTypeOK
      <4>. QED
        BY <2>2, <2>3, <2>5, <4>1 DEF StatusMove
    <3>. QED
      BY <2>1, <3>1
  <2>. QED
    BY <2>4, <2>5
<1>2. CASE UNCHANGED <<consumerVars, rows>>
  BY <1>1, <1>2 DEF consumerVars
<1>3. CASE ConsumeLoad(c)
  <2>1. PICK d \in inbox[c] :
           /\ GetSessionWithCas(c, job[d[1]][1])
           /\ cur' = [cur EXCEPT ![c] = IF AfterLoad(d, job[d[1]][1], path[c] = "reclaimed") = "next"
                                        THEN NoDelivery ELSE d]
           /\ cpc' = [cpc EXCEPT ![c] = AfterLoad(d, job[d[1]][1], path[c] = "reclaimed")]
    BY <1>3 DEF ConsumeLoad
  <2>2. PICK s \in Sessions : s = job[d[1]][1]
    BY DEF ConsumerTypeOK, QueueTypeOK, Delivery, Jobs
  <2>3. status[s] \in Status
    BY DEF SessionTypeOK
  <2>4. AfterLoad(d, s, path[c] = "reclaimed") \in {"ack", "dead_add"}
    BY <1>3, <2>1, <2>2 DEF ConsumerTypeOK
  <2>5. status[s] # "processing"
    BY <2>3, <2>4 DEF AfterLoad, ClaimDecision, Status
  <2>6. cur'[c] = d /\ job' = job /\ status' = status
    BY <1>3, <2>1, <2>2, <2>4 DEF ConsumeLoad, GetSessionWithCas, queueVars, ConsumerTypeOK
  <2>. QED
    BY <2>2, <2>5, <2>6 DEF SessionOf, JobOf, MsgOf
<1>4. CASE ConsumeFinish(c) \/ ConsumeDeadCas(c)
  <2>1. /\ cpc[c] # "next" /\ cur'[c] = cur[c]
        /\ \/ SetLearningStatus(c, SessionOf(c), "done", seen[c][2])
           \/ SetLearningStatus(c, SessionOf(c), "dead_letter", NoHash)
    BY <1>4 DEF ConsumeFinish, ConsumeDeadCas, GoTo, EndDelivery, ConsumerTypeOK
  <2>2. SessionOf(c) \in Sessions /\ SessionOf(c)' = SessionOf(c)
    BY <2>1, CurrentDelivery, SessionOfStable
  <2>. QED
    BY <2>1, <2>2 DEF SetLearningStatus, SessionTypeOK
<1>5. CASE ConsumeDeadAdd(c)
  BY <1>1, <1>5 DEF ConsumeDeadAdd, GoTo
<1>6. ASSUME ConsumerStep(c) \/ ConsumeError(c) \/ ConsumeCrash(c), ~ConsumeLoad(c),
             ~ConsumeFinish(c), ~ConsumeDeadCas(c), ~ConsumeDeadAdd(c)
      PROVE  FALSE
  BY <1>6 DEF ConsumerStep, ConsumeError, ConsumeCrash, ConsumeReclaim, ConsumeNew,
     ConsumeClaim, ConsumeWork, ConsumeSupersede, ConsumePut, ConsumeStages, ConsumeReview,
     ConsumeAck, GoTo, EndDelivery, ConsumerTypeOK
<1>. QED
  BY <1>2, <1>3, <1>4, <1>5, <1>6, SoleActor

OwnRows(c) ==
    cpc[c] \in {"put", "stages", "review"} => \A r \in rows : r[1] = JobOf(c) => r[3] = cur[c]

LEMMA RowsInductive ==
    ASSUME TypeOK, SoleConsumer, [Next]_vars, NEW c \in Consumers, OwnRows(c), OneRunPerJob
    PROVE  OwnRows(c)' /\ OneRunPerJob'
<1>. USE DEF TypeOK
<1>1. cpc[c] # "next" /\ cur'[c] = cur[c] => JobOf(c)' = JobOf(c)
  BY SessionOfStable
<1>2. CASE UNCHANGED <<consumerVars, rows>>
  BY <1>1, <1>2 DEF consumerVars, OwnRows, OneRunPerJob
<1>3. CASE ConsumeSupersede(c)
  <2>1. rows' = {r \in rows : r[1] # JobOf(c)} /\ JobOf(c)' = JobOf(c)
    BY <1>1, <1>3 DEF ConsumeSupersede, GoTo
  <2>. QED
    BY <2>1 DEF OwnRows, OneRunPerJob
<1>4. ASSUME NEW ord, rows' = Upsert(JobOf(c), ord, cur[c]), cur'[c] = cur[c],
             cpc[c] \in {"put", "stages", "review"}
      PROVE  OwnRows(c)' /\ OneRunPerJob'
  <2>1. \A r \in rows' : r \in rows \/ r = <<JobOf(c), ord, cur[c]>>
    BY <1>4 DEF Upsert
  <2>2. JobOf(c)' = JobOf(c)
    BY <1>1, <1>4
  <2>3. \A r \in rows' : r[1] = JobOf(c) => r[3] = cur[c]
    BY <1>4, <2>1 DEF OwnRows
  <2>4. OwnRows(c)'
    BY <1>4, <2>2, <2>3 DEF OwnRows
  <2>5. ASSUME NEW r1 \in rows', NEW r2 \in rows', r1[1] = r2[1]
        PROVE  r1[3] = r2[3]
    <3>1. CASE r1[1] = JobOf(c)
      <4>1. r1[3] = cur[c]
        BY <2>3, <3>1
      <4>2. r2[1] = JobOf(c)
        BY <2>5, <3>1
      <4>3. r2[3] = cur[c]
        BY <2>3, <4>2
      <4>. QED
        BY <4>1, <4>3
    <3>2. CASE r1[1] # JobOf(c)
      <4>1. r1 \in rows /\ r2 \in rows
        BY <2>1, <2>5, <3>2
      <4>. QED
        BY <2>5, <4>1 DEF OneRunPerJob
    <3>. QED
      BY <3>1, <3>2
  <2>. QED
    BY <2>4, <2>5 DEF OneRunPerJob
<1>5. CASE ConsumePut(c)
  BY <1>4, <1>5 DEF ConsumePut
<1>6. ASSUME rows' = rows, cpc[c] \in {"put", "stages", "review"}, cur'[c] = cur[c]
      PROVE  OwnRows(c)' /\ OneRunPerJob'
  BY <1>1, <1>6 DEF OwnRows, OneRunPerJob
<1>7. CASE ConsumeStages(c)
  BY <1>4, <1>6, <1>7 DEF ConsumeStages, GoTo
<1>8. CASE ConsumeReview(c)
  BY <1>4, <1>6, <1>8 DEF ConsumeReview, GoTo
<1>9. ASSUME ConsumerStep(c) \/ ConsumeError(c) \/ ConsumeCrash(c), ~ConsumeSupersede(c),
             ~ConsumePut(c), ~ConsumeStages(c), ~ConsumeReview(c)
      PROVE  rows' = rows /\ cpc'[c] \notin {"put", "stages", "review"}
  <2>1. CASE ConsumeLoad(c)
    <3>1. PICK d \in inbox[c] :
             cpc' = [cpc EXCEPT ![c] = AfterLoad(d, job[d[1]][1], path[c] = "reclaimed")]
      BY <2>1 DEF ConsumeLoad
    <3>2. status[job[d[1]][1]] \in Status
      BY DEF ConsumerTypeOK, QueueTypeOK, Delivery, Jobs, SessionTypeOK
    <3>3. ClaimDecision(status[job[d[1]][1]], path[c] = "reclaimed")
              \in {"forward", "recover", "refuse", "terminal"}
      BY <3>2 DEF ClaimDecision, Status
    <3>. QED
      BY <2>1, <3>1, <3>3 DEF ConsumeLoad, AfterLoad, ConsumerTypeOK
  <2>2. CASE ConsumeReclaim(c) \/ ConsumeNew(c)
    BY <2>2 DEF ConsumeReclaim, ConsumeNew
  <2>3. CASE ~ConsumeLoad(c) /\ ~ConsumeReclaim(c) /\ ~ConsumeNew(c)
    BY <1>9, <2>3 DEF ConsumerStep, ConsumeError, ConsumeCrash, ConsumeClaim, ConsumeWork,
       ConsumeFinish, ConsumeAck, ConsumeDeadCas, ConsumeDeadAdd, GoTo, EndDelivery,
       ConsumerTypeOK
  <2>. QED
    BY <2>1, <2>2, <2>3
<1>10. (rows' = rows /\ cpc'[c] \notin {"put", "stages", "review"}) => OwnRows(c)' /\ OneRunPerJob'
  BY DEF OwnRows, OneRunPerJob
<1>. QED
  BY <1>2, <1>3, <1>5, <1>7, <1>8, <1>9, <1>10, SoleActor

LEMMA RunningInductive ==
    ASSUME TypeOK, TypeOK', SoleConsumer, SoleConsumerInv, [Next]_vars
    PROVE  RunningHasMessage'
<1>. SUFFICES ASSUME NEW s \in Sessions, status'[s] = "processing"
              PROVE  \E m \in 1..last' : job'[m][1] = s /\ mstate'[m] \in {"new", "pel", "trimmed"}
  BY DEF RunningHasMessage
<1>. USE DEF TypeOK
<1>1. CASE status[s] = "processing"
  <2>1. PICK m \in 1..last : job[m][1] = s /\ mstate[m] \in {"new", "pel", "trimmed"}
    BY <1>1 DEF SoleConsumerInv, RunningHasMessage
  <2>2. Pending(m)
    BY <1>1, <2>1 DEF Pending, SoleConsumerInv, SessionOf, JobOf
  <2>. QED
    BY <2>1, <2>2, JobsStay, MessageStays
<1>2. CASE status[s] # "processing"
  <2>1. StatusMove(s)
    BY StatusStep
  <2>2. PICK c \in Consumers : /\ cpc[c] = "claim" /\ SessionOf(c) = s
                               /\ SetLearningStatus(c, s, "processing", NoHash)
    BY <1>2, <2>1 DEF StatusMove, SetLearningStatus, Expire, SessionTypeOK
  <2>3. PICK m \in 1..last : m = MsgOf(c) /\ job[m][1] = s
    BY <2>2, CurrentDelivery DEF QueueTypeOK, Msg, SessionOf, JobOf
  <2>4. mstate[m] \in {"pel", "trimmed"} /\ m \in Msg
    BY <2>2, <2>3, CurrentDelivery DEF SoleConsumerInv, HeldOnce
  <2>5. \A d \in Consumers : ~ConsumeAck(d)
    BY <2>2 DEF SoleConsumer, ConsumeAck
  <2>6. mstate'[m] \in {"pel", "trimmed"}
    BY <2>4, <2>5, DeliveredStays
  <2>. QED
    BY <2>3, <2>6, JobsStay
<1>. QED
  BY <1>1, <1>2

LEMMA SoleConsumerInit == Init => SoleConsumerInv
BY DEF Init, SessionInit, QueueInit, SoleConsumerInv, HeldOnce, OneRunPerJob, RunningHasMessage

LEMMA SoleConsumerHolds ==
    ASSUME SoleConsumer
    PROVE  Spec => []SoleConsumerInv
<1>1. IInv /\ IInv' /\ SoleConsumerInv /\ [Next]_vars => SoleConsumerInv'
  <2>. SUFFICES ASSUME IInv, IInv', SoleConsumerInv, [Next]_vars
                PROVE  SoleConsumerInv'
    OBVIOUS
  <2>0. TypeOK /\ TypeOK' /\ DecisionsStand
    BY DEF IInv
  <2>1. \A c \in Consumers : HeldOnce(c)'
    BY <2>0, HeldInductive DEF SoleConsumerInv
  <2>2. \A c \in Consumers : cpc'[c] \in {"ack", "dead_add"} => status'[SessionOf(c)'] # "processing"
    BY <2>0, AckInductive DEF SoleConsumerInv
  <2>3. \A c \in Consumers : OwnRows(c)' /\ OneRunPerJob'
    BY <2>0, RowsInductive DEF SoleConsumerInv, OwnRows
  <2>4. OneRunPerJob'
    <3>1. CASE Consumers = {}
      <4>1. UNCHANGED rows
        BY <3>1 DEF Next, UserStep, IdleThresholdPasses, SweeperStep, SweepError, SweepCrash,
           SweepScan, SweepClaim, SweepLookup, SweepXAdd, SweepSetKey, SweepQueue, AgeMessage,
           DedupKeyExpires, SwitchOff, SwitchOn, vars
      <4>. QED
        BY <4>1 DEF SoleConsumerInv, OneRunPerJob
    <3>. QED
      BY <2>3, <3>1
  <2>5. RunningHasMessage'
    BY <2>0, RunningInductive
  <2>. QED
    BY <2>1, <2>2, <2>3, <2>4, <2>5 DEF SoleConsumerInv, OwnRows
<1>. QED
  BY <1>1, SoleConsumerInit, IInvHolds, PTL DEF Spec

(* With one consumer process the candidate store never mixes the rows of   *)
(* two extraction runs of one job, whatever crashed in between             *)
(* (_run_extractor's supersede-then-put).                                  *)
THEOREM OneConsumerKeepsRunsApart ==
    ASSUME SoleConsumer
    PROVE  Spec => []OneRunPerJob
<1>1. SoleConsumerInv => OneRunPerJob
  BY DEF SoleConsumerInv
<1>. QED
  BY <1>1, SoleConsumerHolds, PTL

(* With one consumer process every session in flight still has a message   *)
(* that was not acknowledged.                                              *)
THEOREM OneConsumerStrandsNothing ==
    ASSUME SoleConsumer
    PROVE  Spec => []InFlightCanFinish
<1>1. IInv /\ SoleConsumerInv => InFlightCanFinish
  BY DEF IInv, SoleConsumerInv, RunningHasMessage, QueuedHasMessage, Pending, InFlightCanFinish
<1>. QED
  BY <1>1, SoleConsumerHolds, IInvHolds, PTL

---------------------------------------------------------------------------
(***************************************************************************)
(* The learning loop implements SessionOwnership.  The owners of a session *)
(* are read off program counters and tokens, so each lemma says what a     *)
(* process's steps do to them: a write of the document takes them away, a  *)
(* claim leaves the claimer, the end of a delivery drops its consumer, and *)
(* nothing else changes who owns what.                                     *)
(***************************************************************************)
OwnersOf(s) == {c \in Consumers : Owns(c, s)}

(* What SessionOwnership reads as its variable `owner`.                    *)
OwnerMap == [s \in Sessions |-> OwnersOf(s)]

AbstractStutter == UNCHANGED <<status, content, hash, OwnerMap>>

(* The abstract actions in terms of the loop's variables.                  *)
LEMMA AbstractActions ==
    ASSUME NEW s \in Sessions
    PROVE  /\ /\ content'[s] \in Nat /\ content' = [content EXCEPT ![s] = content'[s]]
              /\ UNCHANGED <<status, hash>> /\ OwnerMap' = [OwnerMap EXCEPT ![s] = {}]
              => Ownership!Write(s)
           /\ /\ content'[s] \in Nat /\ content' = [content EXCEPT ![s] = content'[s]]
              /\ status' = [status EXCEPT ![s] = "active"] /\ hash' = [hash EXCEPT ![s] = -1]
              /\ OwnerMap' = [OwnerMap EXCEPT ![s] = {}]
              => Ownership!Forget(s)
           /\ /\ status[s] = "active" /\ status' = [status EXCEPT ![s] = "pending"]
              /\ UNCHANGED <<content, hash, OwnerMap>>
              => Ownership!Detect(s)
           /\ /\ status[s] = "pending" /\ status' = [status EXCEPT ![s] = "queued"]
              /\ hash' = [hash EXCEPT ![s] = content[s]] /\ UNCHANGED <<content, OwnerMap>>
              => Ownership!Submit(s)
           /\ /\ OwnerMap' = [OwnerMap EXCEPT ![s] = {}] /\ UNCHANGED <<status, content, hash>>
              => Ownership!Lose(s)
           /\ /\ status[s] \notin {"done", "dead_letter"}
              /\ status' = [status EXCEPT ![s] = "dead_letter"]
              /\ OwnerMap' = [OwnerMap EXCEPT ![s] = {}] /\ UNCHANGED <<content, hash>>
              => Ownership!Bury(s)
BY DEF OwnerMap, OwnersOf, Ownership!Write, Ownership!Forget, Ownership!Detect, Ownership!Submit,
       Ownership!Lose, Ownership!Bury, Ownership!Retext

LEMMA AbstractConsumerActions ==
    ASSUME NEW s \in Sessions, NEW c \in Consumers
    PROVE  /\ /\ status[s] \in {"queued", "processing", "done"}
              /\ status' = [status EXCEPT ![s] = "processing"]
              /\ OwnerMap' = [OwnerMap EXCEPT ![s] = {c}] /\ UNCHANGED <<content, hash>>
              => Ownership!Start(s, c)
           /\ /\ OwnerMap[s] = {c} /\ status[s] = "processing"
              /\ status' = [status EXCEPT ![s] = "done"]
              /\ hash' = [hash EXCEPT ![s] = content[s]]
              /\ OwnerMap' = [OwnerMap EXCEPT ![s] = {}] /\ UNCHANGED content
              => Ownership!Complete(s, c)
BY DEF OwnerMap, OwnersOf, Ownership!Start, Ownership!Complete

(* The owner map after a step, from the owners of each session.            *)
LEMMA OwnerMapChange ==
    ASSUME NEW s \in Sessions, NEW X, OwnersOf(s)' = X,
           \A t \in Sessions \ {s} : OwnersOf(t)' = OwnersOf(t)
    PROVE  OwnerMap' = [OwnerMap EXCEPT ![s] = X]
BY DEF OwnerMap

LEMMA OwnerMapSame ==
    ASSUME \A t \in Sessions : OwnersOf(t)' = OwnersOf(t)
    PROVE  OwnerMap' = OwnerMap
BY DEF OwnerMap

(* A session keeps its owners when its document is not written and nobody  *)
(* who works on it moves on.                                               *)
LEMMA OwnersKept ==
    ASSUME TypeOK, [Next]_vars, NEW t \in Sessions,
           fresh'[t] \cap Consumers = fresh[t] \cap Consumers,
           \A c \in Consumers :
               \/ (Working(c)' <=> Working(c)) /\ (Working(c) => cur'[c] = cur[c])
               \/ cpc[c] # "next" /\ SessionOf(c) # t /\ (Working(c)' => cur'[c] = cur[c])
    PROVE  OwnersOf(t)' = OwnersOf(t)
<1>1. ASSUME NEW c \in Consumers
      PROVE  Owns(c, t)' <=> Owns(c, t)
  <2>1. c \in fresh'[t] <=> c \in fresh[t]
    OBVIOUS
  <2>2. cpc[c] # "next" /\ cur'[c] = cur[c] => SessionOf(c)' = SessionOf(c)
    BY SessionOfStable
  <2>. QED
    BY <2>1, <2>2 DEF Owns, Working
<1>. QED
  BY <1>1 DEF OwnersOf

(* The steps of a consumer leave the others alone.                         *)
LEMMA ConsumerAlone ==
    ASSUME TypeOK, NEW c \in Consumers, ConsumerStep(c) \/ ConsumeError(c) \/ ConsumeCrash(c),
           NEW d \in Consumers, d # c
    PROVE  ConsumerUntouched(d)
BY DEF ConsumerStep, ConsumeError, ConsumeCrash, ConsumeReclaim, ConsumeNew, ConsumeLoad,
       ConsumeClaim, ConsumeWork, ConsumeSupersede, ConsumePut, ConsumeStages, ConsumeReview,
       ConsumeFinish, ConsumeAck, ConsumeDeadCas, ConsumeDeadAdd, GoTo, EndDelivery,
       TypeOK, ConsumerTypeOK, ConsumerUntouched

(* Nothing an owner is recognised by changes.                              *)
LEMMA QuietStep ==
    ASSUME TypeOK, [Next]_vars, UNCHANGED <<status, content, hash>>,
           \A t \in Sessions : fresh'[t] \cap Consumers = fresh[t] \cap Consumers,
           \A c \in Consumers :
               (Working(c)' <=> Working(c)) /\ (Working(c) => cur'[c] = cur[c])
    PROVE  AbstractStutter
<1>1. \A t \in Sessions : OwnersOf(t)' = OwnersOf(t)
  BY OwnersKept
<1>. QED
  BY <1>1, OwnerMapSame DEF AbstractStutter

LEMMA UntouchedWorking ==
    ASSUME NEW c \in Consumers, ConsumerUntouched(c)
    PROVE  (Working(c)' <=> Working(c)) /\ cur'[c] = cur[c]
BY DEF ConsumerUntouched, Working

(* A delivery ends without a write: its consumer loses the session, if it  *)
(* had it.                                                                 *)
LEMMA EndImplemented ==
    ASSUME TypeOK, UniqueOwner, [Next]_vars, UNCHANGED sessionVars,
           NEW c \in Consumers, cpc[c] # "next", ~Working(c)',
           \A d \in Consumers \ {c} : ConsumerUntouched(d)
    PROVE  AbstractStutter \/ Ownership!OwnershipNext
<1>0. PICK s \in Sessions : s = SessionOf(c)
  BY CurrentDelivery DEF TypeOK
<1>1. UNCHANGED <<status, content, hash, fresh>>
  BY DEF sessionVars, docVars
<1>2. ASSUME NEW t \in Sessions \ {s}
      PROVE  OwnersOf(t)' = OwnersOf(t)
  BY <1>0, <1>1, OwnersKept, UntouchedWorking
<1>3. ASSUME NEW d \in Consumers, d # c
      PROVE  Owns(d, s)' <=> Owns(d, s)
  <2>1. ConsumerUntouched(d)
    BY <1>3
  <2>2. cpc[d] # "next" => SessionOf(d)' = SessionOf(d)
    BY <2>1, SessionOfStable DEF ConsumerUntouched
  <2>3. Working(d)' <=> Working(d)
    BY <2>1, UntouchedWorking
  <2>. QED
    BY <1>1, <2>2, <2>3 DEF Owns, Working
<1>4. ~Owns(c, s)'
  BY <1>0 DEF Owns
<1>5. CASE Owns(c, s)
  <2>1. OwnersOf(s)' = {}
    BY <1>0, <1>3, <1>4, <1>5 DEF OwnersOf, UniqueOwner
  <2>2. OwnerMap' = [OwnerMap EXCEPT ![s] = {}]
    BY <1>0, <1>2, <2>1, OwnerMapChange
  <2>3. Ownership!Lose(s)
    BY <1>0, <1>1, <2>2, AbstractActions
  <2>. QED
    BY <1>0, <2>3 DEF Ownership!OwnershipNext
<1>6. CASE ~Owns(c, s)
  <2>1. OwnersOf(s)' = OwnersOf(s)
    BY <1>3, <1>4, <1>6 DEF OwnersOf
  <2>. QED
    BY <1>1, <1>2, <2>1, OwnerMapSame DEF AbstractStutter
<1>. QED
  BY <1>5, <1>6

(* A transition of the flag leaves the writer as the only one who may own. *)
LEMMA SetOwners ==
    ASSUME TypeOK, [Next]_vars, NEW w, NEW s \in Sessions, NEW to, NEW h,
           SetLearningStatus(w, s, to, h),
           \A c \in Consumers :
               \/ ConsumerUntouched(c) /\ c # w
               \/ c = w /\ cpc[c] # "next" /\ SessionOf(c) = s /\ cur'[c] = cur[c]
    PROVE  /\ w \notin Consumers \/ ~Working(w)' => OwnerMap' = [OwnerMap EXCEPT ![s] = {}]
           /\ w \in Consumers /\ Working(w)' => OwnerMap' = [OwnerMap EXCEPT ![s] = {w}]
<1>1. fresh'[s] = {w} /\ \A t \in Sessions \ {s} : fresh'[t] = fresh[t]
  BY DEF SetLearningStatus, TypeOK, SessionTypeOK
<1>2. ASSUME NEW t \in Sessions \ {s}
      PROVE  OwnersOf(t)' = OwnersOf(t)
  BY <1>1, OwnersKept, UntouchedWorking
<1>3. w \notin Consumers \/ ~Working(w)' => OwnersOf(s)' = {}
  BY <1>1 DEF OwnersOf, Owns
<1>4. w \in Consumers /\ Working(w)' => OwnersOf(s)' = {w}
  <2>1. w \in Consumers => cpc[w] # "next" /\ SessionOf(w) = s /\ cur'[w] = cur[w]
    OBVIOUS
  <2>2. w \in Consumers => SessionOf(w)' = s
    BY <2>1, SessionOfStable
  <2>. QED
    BY <1>1, <2>2 DEF OwnersOf, Owns
<1>. QED
  BY <1>2, <1>3, <1>4, OwnerMapChange

(* Nobody owns a session that is not `processing`.                         *)
LEMMA OwnedIsProcessing ==
    ASSUME TokensTellTruth, NEW s \in Sessions, status[s] # "processing"
    PROVE  OwnersOf(s) = {}
BY DEF OwnersOf, Owns, TokensTellTruth, OwnerToken

---------------------------------------------------------------------------
LEMMA RequestPathRefines ==
    ASSUME TypeOK, [Next]_vars, NEW s \in Sessions, UserStep(s) \/ IdleThresholdPasses(s)
    PROVE  AbstractStutter \/ Ownership!OwnershipNext
<1>1. \A c \in Consumers : ConsumerUntouched(c)
  BY DEF UserStep, IdleThresholdPasses, consumerVars, ConsumerUntouched
<1>2. ASSUME NEW t \in Sessions, fresh'[t] = fresh[t]
      PROVE  OwnersOf(t)' = OwnersOf(t)
  BY <1>1, <1>2, OwnersKept, UntouchedWorking
<1>3. ASSUME fresh' = [fresh EXCEPT ![s] = {}]
      PROVE  OwnerMap' = [OwnerMap EXCEPT ![s] = {}]
  <2>1. fresh'[s] = {} /\ \A t \in Sessions \ {s} : fresh'[t] = fresh[t]
    BY <1>3 DEF TypeOK, SessionTypeOK
  <2>2. OwnersOf(s)' = {}
    BY <2>1 DEF OwnersOf, Owns
  <2>. QED
    BY <1>2, <2>1, <2>2, OwnerMapChange
<1>4. CASE AppendMessage(s)
  <2>1. content'[s] \in Nat /\ content' = [content EXCEPT ![s] = content'[s]]
    BY <1>4 DEF AppendMessage, TypeOK, SessionTypeOK
  <2>2. Ownership!Write(s)
    BY <1>3, <1>4, <2>1, AbstractActions DEF AppendMessage
  <2>. QED
    BY <2>2 DEF Ownership!OwnershipNext
<1>5. CASE TouchSession(s)
  <2>1. content'[s] \in Nat /\ content' = [content EXCEPT ![s] = content'[s]]
    BY <1>5 DEF TouchSession, TypeOK, SessionTypeOK
  <2>2. Ownership!Write(s)
    BY <1>3, <1>5, <2>1, AbstractActions DEF TouchSession
  <2>. QED
    BY <2>2 DEF Ownership!OwnershipNext
<1>6. CASE Expire(s)
  <2>1. content'[s] \in Nat /\ content' = [content EXCEPT ![s] = content'[s]]
    BY <1>6 DEF Expire, TypeOK, SessionTypeOK
  <2>2. Ownership!Forget(s)
    BY <1>3, <1>6, <2>1, AbstractActions DEF Expire, NoHash
  <2>. QED
    BY <2>2 DEF Ownership!OwnershipNext
<1>7. CASE GoIdle(s)
  BY <1>2, <1>7, OwnerMapSame DEF GoIdle, AbstractStutter
<1>. QED
  BY <1>4, <1>5, <1>6, <1>7 DEF UserStep, IdleThresholdPasses

LEMMA SweeperRefines ==
    ASSUME TypeOK, TokensTellTruth, [Next]_vars, NEW w \in Sweepers,
           SweeperStep(w) \/ SweepError(w) \/ SweepCrash(w)
    PROVE  AbstractStutter \/ Ownership!OwnershipNext
<1>0. w \notin Consumers
  BY LoopAssumption
<1>1. \A c \in Consumers : ConsumerUntouched(c) /\ c # w
  BY <1>0 DEF SweeperStep, SweepError, SweepCrash, SweepScan, SweepClaim, SweepLookup, SweepXAdd,
              SweepSetKey, SweepQueue, consumerVars, ConsumerUntouched
<1>2. CASE UNCHANGED sessionVars
  BY <1>1, <1>2, QuietStep, UntouchedWorking DEF sessionVars, docVars
<1>3. CASE SweepScan(w)
  <2>1. PICK S : ScanIdleSessions(w, S)
    BY <1>3 DEF SweepScan
  <2>2. \A t \in Sessions : fresh'[t] \cap Consumers = fresh[t] \cap Consumers
    BY <1>0, <2>1 DEF ScanIdleSessions
  <2>. QED
    BY <1>1, <2>1, <2>2, QuietStep, UntouchedWorking DEF ScanIdleSessions
<1>4. ASSUME NEW s \in Sessions, NEW to, NEW h, SetLearningStatus(w, s, to, h),
             status[s] # "processing"
      PROVE  OwnerMap' = OwnerMap
  <2>1. OwnerMap' = [OwnerMap EXCEPT ![s] = {}]
    BY <1>0, <1>1, <1>4, SetOwners
  <2>2. OwnerMap[s] = {}
    BY <1>4, OwnedIsProcessing DEF OwnerMap
  <2>. QED
    BY <2>1, <2>2 DEF OwnerMap
<1>5. ASSUME NEW s \in Sessions, CanTransition(w, s, "active", TRUE),
             SetLearningStatus(w, s, "pending", NoHash)
      PROVE  Ownership!OwnershipNext
  <2>1. status[s] = "active"
    BY <1>5 DEF CanTransition
  <2>2. hash' = hash /\ content' = content /\ status' = [status EXCEPT ![s] = "pending"]
    BY <1>5 DEF SetLearningStatus, TypeOK, SessionTypeOK
  <2>3. Ownership!Detect(s)
    BY <1>4, <1>5, <2>1, <2>2, AbstractActions
  <2>. QED
    BY <2>3 DEF Ownership!OwnershipNext
<1>6. ASSUME spc[w] = "queue", CanTransition(w, swept[w], "pending", TRUE),
             SetLearningStatus(w, swept[w], "queued", snap[w][swept[w]][2])
      PROVE  Ownership!OwnershipNext
  <2>1. PICK s \in Sessions : s = swept[w]
    BY <1>6, SweptJobType DEF TypeOK
  <2>2. status[s] = "pending" /\ snap[w][s][2] = content[s] /\ content[s] \in Nat
    BY <1>6, <2>1 DEF CanTransition, TokensTellTruth, SweptToken, TypeOK, SessionTypeOK
  <2>3. hash' = [hash EXCEPT ![s] = content[s]] /\ content' = content
        /\ status' = [status EXCEPT ![s] = "queued"]
    <3>1. snap[w][s][2] # NoHash
      BY <2>2 DEF NoHash
    <3>. QED
      BY <1>6, <2>1, <2>2, <3>1 DEF SetLearningStatus, TypeOK, SessionTypeOK
  <2>4. Ownership!Submit(s)
    BY <1>4, <1>6, <2>1, <2>2, <2>3, AbstractActions
  <2>. QED
    BY <2>4 DEF Ownership!OwnershipNext
<1>7. CASE \E s \in Sessions : SweepClaim(w, s)
  BY <1>2, <1>5, <1>7 DEF SweepClaim
<1>8. CASE SweepQueue(w)
  BY <1>2, <1>6, <1>8 DEF SweepQueue
<1>9. CASE SweepLookup(w) \/ SweepXAdd(w) \/ SweepSetKey(w) \/ SweepError(w) \/ SweepCrash(w)
  BY <1>2, <1>9 DEF SweepLookup, SweepXAdd, SweepSetKey, SweepError, SweepCrash
<1>. QED
  BY <1>3, <1>7, <1>8, <1>9 DEF SweeperStep

LEMMA ConsumerRefines ==
    ASSUME TypeOK, TokensTellTruth, DecisionsStand, UniqueOwner, [Next]_vars, NEW c \in Consumers,
           ConsumerStep(c) \/ ConsumeError(c) \/ ConsumeCrash(c)
    PROVE  AbstractStutter \/ Ownership!OwnershipNext
<1>. USE DEF TypeOK
<1>0. \A d \in Consumers \ {c} : ConsumerUntouched(d)
  BY ConsumerAlone
<1>1. ASSUME UNCHANGED sessionVars, Working(c)' <=> Working(c), Working(c) => cur'[c] = cur[c]
      PROVE  AbstractStutter
  BY <1>0, <1>1, QuietStep, UntouchedWorking DEF sessionVars, docVars
<1>2. ASSUME UNCHANGED sessionVars, cpc[c] # "next", EndDelivery(c)
      PROVE  AbstractStutter \/ Ownership!OwnershipNext
  <2>1. ~Working(c)'
    BY <1>2 DEF EndDelivery, Working, ConsumerTypeOK
  <2>. QED
    BY <1>0, <1>2, <2>1, EndImplemented
<1>3. CASE ConsumeReclaim(c) \/ ConsumeNew(c)
  BY <1>1, <1>3 DEF ConsumeReclaim, ConsumeNew, Working
<1>4. CASE ConsumeWork(c) \/ ConsumeSupersede(c) \/ ConsumePut(c) \/ ConsumeStages(c)
           \/ ConsumeReview(c) \/ ConsumeDeadAdd(c)
  BY <1>1, <1>4 DEF ConsumeWork, ConsumeSupersede, ConsumePut, ConsumeStages, ConsumeReview,
                    ConsumeDeadAdd, GoTo, Working, ConsumerTypeOK
<1>5. CASE ConsumeAck(c) \/ ConsumeError(c)
  BY <1>2, <1>5 DEF ConsumeAck, ConsumeError
<1>6. CASE ConsumeCrash(c)
  <2>1. ~Working(c)' /\ UNCHANGED sessionVars
    BY <1>6 DEF ConsumeCrash, Working, ConsumerTypeOK
  <2>2. CASE cpc[c] = "next"
    BY <1>1, <2>1, <2>2 DEF Working
  <2>. QED
    BY <1>0, <2>1, <2>2, EndImplemented
<1>7. CASE ConsumeLoad(c)
  <2>1. PICK d \in inbox[c] :
           /\ GetSessionWithCas(c, job[d[1]][1])
           /\ cpc' = [cpc EXCEPT ![c] = AfterLoad(d, job[d[1]][1], path[c] = "reclaimed")]
    BY <1>7 DEF ConsumeLoad
  <2>2. job[d[1]][1] \in Sessions
    BY DEF ConsumerTypeOK, QueueTypeOK, Delivery, Jobs
  <2>3. ~Working(c) /\ ~Working(c)'
    <3>1. status[job[d[1]][1]] \in Status
      BY <2>2 DEF SessionTypeOK
    <3>2. ClaimDecision(status[job[d[1]][1]], path[c] = "reclaimed")
              \in {"forward", "recover", "refuse", "terminal"}
      BY <3>1 DEF ClaimDecision, Status
    <3>3. cpc'[c] \in {"next", "claim", "ack", "dead_cas"}
      BY <2>1, <3>2 DEF AfterLoad, ConsumerTypeOK
    <3>. QED
      BY <1>7, <3>3 DEF Working, ConsumeLoad
  <2>4. ASSUME NEW t \in Sessions
        PROVE  OwnersOf(t)' = OwnersOf(t)
    <3>1. ASSUME NEW e \in Consumers
          PROVE  Owns(e, t)' <=> Owns(e, t)
      <4>1. CASE e = c
        BY <2>3, <4>1 DEF Owns
      <4>2. CASE e # c
        <5>1. Working(e)' <=> Working(e)
          BY <1>0, <4>2, UntouchedWorking
        <5>2. Working(e) => SessionOf(e)' = SessionOf(e)
          BY <1>0, <4>2, SessionOfStable DEF ConsumerUntouched, Working
        <5>3. Working(e) /\ SessionOf(e) = t => (e \in fresh'[t] <=> e \in fresh[t])
          <6>1. CASE t \in exists
            BY <2>1, <2>2, <4>2, <6>1 DEF GetSessionWithCas, SessionTypeOK
          <6>2. CASE t \notin exists /\ t = job[d[1]][1]
            <7>1. e \notin fresh'[t]
              BY <2>1, <2>2, <4>2, <6>2 DEF GetSessionWithCas, SessionTypeOK
            <7>2. Working(e) /\ SessionOf(e) = t => e \notin fresh[t]
              BY <6>2 DEF TokensTellTruth, OwnerToken
            <7>. QED
              BY <7>1, <7>2
          <6>3. CASE t # job[d[1]][1]
            BY <2>1, <2>2, <6>3 DEF GetSessionWithCas, SessionTypeOK
          <6>. QED
            BY <6>1, <6>2, <6>3
        <5>. QED
          BY <5>1, <5>2, <5>3 DEF Owns
      <4>. QED
        BY <4>1, <4>2
    <3>. QED
      BY <3>1 DEF OwnersOf
  <2>. QED
    BY <2>1, <2>4, OwnerMapSame DEF AbstractStutter, GetSessionWithCas
<1>8. ASSUME cpc[c] # "next", NEW to, NEW h, SetLearningStatus(c, SessionOf(c), to, h), NEW pc, GoTo(c, pc)
      PROVE  /\ ~Working(c)' => OwnerMap' = [OwnerMap EXCEPT ![SessionOf(c)] = {}]
             /\ Working(c)' => OwnerMap' = [OwnerMap EXCEPT ![SessionOf(c)] = {c}]
  <2>1. SessionOf(c) \in Sessions /\ cur'[c] = cur[c]
    BY <1>8, CurrentDelivery DEF GoTo
  <2>. QED
    BY <1>0, <1>8, <2>1, SetOwners
<1>9. CASE ConsumeClaim(c)
  <2>1. CASE UNCHANGED sessionVars /\ EndDelivery(c)
    BY <1>2, <1>9, <2>1 DEF ConsumeClaim
  <2>2. CASE /\ CanTransition(c, SessionOf(c), seen[c][1], TRUE)
             /\ SetLearningStatus(c, SessionOf(c), "processing", NoHash) /\ GoTo(c, "work")
    <3>1. PICK s \in Sessions : s = SessionOf(c)
      BY <1>9, CurrentDelivery DEF ConsumeClaim
    <3>2. status[s] \in {"queued", "processing", "done"}
      BY <1>9, <2>2, <3>1 DEF ConsumeClaim, CanTransition, DecisionsStand, ClaimMemory
    <3>3. Working(c)' /\ cpc[c] # "next"
      BY <1>9, <2>2 DEF ConsumeClaim, GoTo, Working, ConsumerTypeOK
    <3>4. OwnerMap' = [OwnerMap EXCEPT ![s] = {c}]
      BY <1>8, <2>2, <3>1, <3>3
    <3>5. status' = [status EXCEPT ![s] = "processing"] /\ UNCHANGED <<content, hash>>
      BY <2>2, <3>1 DEF SetLearningStatus, SessionTypeOK
    <3>6. Ownership!Start(s, c)
      BY <3>2, <3>4, <3>5, AbstractConsumerActions
    <3>. QED
      BY <3>6 DEF Ownership!OwnershipNext
  <2>. QED
    BY <1>9, <2>1, <2>2 DEF ConsumeClaim
<1>10. CASE ConsumeFinish(c)
  <2>1. CASE UNCHANGED sessionVars /\ EndDelivery(c)
    BY <1>2, <1>10, <2>1 DEF ConsumeFinish
  <2>2. CASE /\ CanTransition(c, SessionOf(c), "processing", TRUE)
             /\ SetLearningStatus(c, SessionOf(c), "done", seen[c][2]) /\ GoTo(c, "ack")
    <3>1. PICK s \in Sessions : s = SessionOf(c)
      BY <1>10, CurrentDelivery DEF ConsumeFinish
    <3>2. Owns(c, s) /\ cpc[c] # "next"
      BY <1>10, <2>2, <3>1 DEF ConsumeFinish, CanTransition, Owns, Working
    <3>3. OwnerMap[s] = {c}
      BY <3>2 DEF OwnerMap, OwnersOf, UniqueOwner
    <3>4. content[s] = seen[c][2] /\ content[s] \in Nat /\ status[s] = "processing"
      BY <3>2 DEF Owns, TokensTellTruth, OwnerToken, SessionTypeOK
    <3>5. ~Working(c)'
      BY <2>2 DEF GoTo, Working, ConsumerTypeOK
    <3>6. OwnerMap' = [OwnerMap EXCEPT ![s] = {}]
      BY <1>8, <2>2, <3>1, <3>2, <3>5
    <3>7. /\ status' = [status EXCEPT ![s] = "done"] /\ UNCHANGED content
          /\ hash' = [hash EXCEPT ![s] = content[s]]
      <4>1. seen[c][2] # NoHash
        BY <3>4 DEF NoHash
      <4>. QED
        BY <2>2, <3>1, <3>4, <4>1 DEF SetLearningStatus, SessionTypeOK
    <3>8. Ownership!Complete(s, c)
      BY <3>3, <3>4, <3>6, <3>7, AbstractConsumerActions
    <3>. QED
      BY <3>8 DEF Ownership!OwnershipNext
  <2>. QED
    BY <1>10, <2>1, <2>2 DEF ConsumeFinish
<1>11. CASE ConsumeDeadCas(c)
  <2>1. CASE UNCHANGED sessionVars /\ EndDelivery(c)
    BY <1>2, <1>11, <2>1 DEF ConsumeDeadCas
  <2>2. CASE /\ CanTransition(c, SessionOf(c), seen[c][1], FALSE)
             /\ SetLearningStatus(c, SessionOf(c), "dead_letter", NoHash) /\ GoTo(c, "dead_add")
    <3>1. PICK s \in Sessions : s = SessionOf(c)
      BY <1>11, CurrentDelivery DEF ConsumeDeadCas
    <3>2. status[s] = seen[c][1] /\ seen[c][1] \notin {"done", "dead_letter"}
      BY <1>11, <2>2, <3>1
      DEF ConsumeDeadCas, CanTransition, DecisionsStand, ClaimMemory, TokensTellTruth, LoadedToken
    <3>3. ~Working(c)' /\ cpc[c] # "next"
      BY <1>11, <2>2 DEF ConsumeDeadCas, GoTo, Working, ConsumerTypeOK
    <3>4. OwnerMap' = [OwnerMap EXCEPT ![s] = {}]
      BY <1>8, <2>2, <3>1, <3>3
    <3>5. status' = [status EXCEPT ![s] = "dead_letter"] /\ UNCHANGED <<content, hash>>
      BY <2>2, <3>1 DEF SetLearningStatus, SessionTypeOK
    <3>6. Ownership!Bury(s)
      BY <3>2, <3>4, <3>5, AbstractActions
    <3>. QED
      BY <3>6 DEF Ownership!OwnershipNext
  <2>. QED
    BY <1>11, <2>1, <2>2 DEF ConsumeDeadCas
<1>. QED
  BY <1>3, <1>4, <1>5, <1>6, <1>7, <1>9, <1>10, <1>11 DEF ConsumerStep

(* Every step of the loop is a step of SessionOwnership or a stutter, so   *)
(* the loop keeps the promise of one writer per session (D96): ownership   *)
(* passes only by a claim, is lost to any request-path write, and whoever  *)
(* completes a session is its only owner and records the transcript the    *)
(* document holds.                                                         *)
THEOREM LoopRefinesOwnership == Spec => ImplementsOwnership
<1>1. Init => Ownership!OwnershipInit
  BY DEF Init, SessionInit, NoHash, Owns, Working, Ownership!OwnershipInit
<1>2. IInv /\ [Next]_vars => [Ownership!OwnershipNext]_(Ownership!ownershipVars)
  <2>. SUFFICES ASSUME IInv, [Next]_vars
                PROVE  AbstractStutter \/ Ownership!OwnershipNext
    BY DEF AbstractStutter, OwnerMap, OwnersOf, Ownership!ownershipVars
  <2>1. ASSUME NEW s \in Sessions, UserStep(s) \/ IdleThresholdPasses(s)
        PROVE  AbstractStutter \/ Ownership!OwnershipNext
    BY <2>1, RequestPathRefines DEF IInv
  <2>2. ASSUME NEW w \in Sweepers, SweeperStep(w) \/ SweepError(w) \/ SweepCrash(w)
        PROVE  AbstractStutter \/ Ownership!OwnershipNext
    BY <2>2, SweeperRefines DEF IInv
  <2>3. ASSUME NEW c \in Consumers, ConsumerStep(c) \/ ConsumeError(c) \/ ConsumeCrash(c)
        PROVE  AbstractStutter \/ Ownership!OwnershipNext
    BY <2>3, ConsumerRefines DEF IInv
  <2>4. ASSUME UNCHANGED <<sessionVars, consumerVars>>
        PROVE  AbstractStutter
    <3>1. UNCHANGED <<status, content, hash, fresh, cpc, cur>>
      BY <2>4 DEF sessionVars, docVars, consumerVars
    <3>. QED
      BY <3>1, QuietStep DEF IInv, Working
  <2>5. CASE (\E m \in Msg : AgeMessage(m)) \/ DedupKeyExpires \/ SwitchOff \/ SwitchOn
             \/ UNCHANGED vars
    BY <2>4, <2>5 DEF AgeMessage, DedupKeyExpires, SwitchOff, SwitchOn, vars
  <2>. QED
    BY <2>1, <2>2, <2>3, <2>5 DEF Next
<1>. QED
  BY <1>1, <1>2, IInvHolds, PTL DEF Spec, ImplementsOwnership, Ownership!OwnershipSpec

============================================================================
