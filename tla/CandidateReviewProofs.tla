------------------------ MODULE CandidateReviewProofs ------------------------
(***************************************************************************)
(* The inductive invariant of CandidateReview, for any candidates, keys,   *)
(* reviewers and bounds: what anybody holds that is or was validated is    *)
(* approved, landed and free of entities.  And, from a second invariant    *)
(* of the deployments whose promotion writers take turns, that a           *)
(* reviewer's final word stands.                                           *)
(***************************************************************************)
EXTENDS CandidateReview, TLAPS

(* The invariant with its state made explicit, one envelope, job and node  *)
(* at a time: k is kind, n node and a approved.                            *)
Sound(c, e, k, n, a) ==
    /\ c \in Cands
    /\ e \in Envelope
    /\ e.status # "none" => e.run # 0
    /\ e.scan \in {"pass", "masked"} => e.text = "plain"
    /\ k[c] = "schema" => e.scan = "pending"
    /\ e.status \in Lived =>
         /\ e.text = "plain"
         /\ e.run \in a[c]
         /\ n[LandingId(c, e)].run # 0

JobType == [op : Ops \cup {"none"}, cand : Cands \cup {NoCand},
            env : Envelope, steps : Seq(Steps)]

Fit(j, k, a) ==
    /\ j.env.run # 0
    /\ \A i \in DOMAIN j.steps :
         /\ j.steps[i] \in {"reget", "land"} => j.op = "approve"
         /\ j.steps[i] = "pipeline" =>
              j.op # "approve" /\ j.env.status = "extracted"
    /\ j.op = "approve" /\ Head(j.steps) # "reget" =>
         /\ j.env.text = "plain"
         /\ j.env.run \in a[j.cand]
         /\ k[j.cand] # "schema"

GoodJob(j, k, n, a) ==
    /\ j \in JobType
    /\ j.steps # <<>> => Sound(j.cand, j.env, k, n, a) /\ Fit(j, k, a)

GoodNode(m, a) ==
    /\ m \in Node
    /\ m.run # 0 =>
         m.text = "plain" /\ m.cand \in Cands /\ m.run \in a[m.cand]

Typed ==
    /\ kind \in [Cands -> Kinds]
    /\ serial \in BOOLEAN
    /\ row \in [Cands -> Envelope]
    /\ node \in [Ids -> Node]
    /\ art \in [Keys -> [hits : 0..Threshold, dead : BOOLEAN]]
    /\ job \in [Procs -> JobType]
    /\ phase \in {"idle", "validated", "work"}
    /\ work \in SUBSET [cand : Cands, env : Envelope]
    /\ runs \in [Cands -> 0..MaxRuns]
    /\ requests \in 0..MaxRequests
    /\ faults \in 0..MaxFaults
    /\ approved \in [Cands -> SUBSET (1..MaxRuns)]

PInv ==
    /\ Typed
    /\ \A c \in Cands : Sound(c, row[c], kind, node, approved)
    /\ \A p \in Procs : GoodJob(job[p], kind, node, approved)
    /\ \A w \in work : Sound(w.cand, w.env, kind, node, approved)
    /\ \A i \in Ids : GoodNode(node[i], approved)

(* The two forms of the invariant say the same.                            *)
LEMMA InvariantForms == IInv <=> PInv
<1> DEFINE H(h) ==
      /\ h.env.scan \in {"pass", "masked"} => h.env.text = "plain"
      /\ kind[h.cand] = "schema" => h.env.scan = "pending"
      /\ h.env.status # "none" => h.env.run # 0
      /\ h.env.status \in Lived =>
           /\ h.env.text = "plain"
           /\ h.env.run \in approved[h.cand]
           /\ node[LandingId(h.cand, h.env)].run # 0
<1>1. TypeOK <=> Typed
  BY DEF TypeOK, Typed, JobType
<1>2. IInv <=> /\ Typed
               /\ \A h \in Held : H(h)
               /\ \A p \in Procs : JobFits(job[p])
               /\ \A i \in Ids : node[i].run # 0 =>
                    /\ node[i].text = "plain"
                    /\ node[i].cand \in Cands
                    /\ node[i].run \in approved[node[i].cand]
  BY <1>1, ZenonT(60) DEF IInv, Screened, EntityFree, OnlyHumanLands, ValidatedIsLanded
<1>3. (\A h \in Held : H(h)) <=>
        /\ \A c \in Cands : H([cand |-> c, env |-> row[c]])
        /\ \A p \in Procs : job[p].steps # <<>> =>
             H([cand |-> job[p].cand, env |-> job[p].env])
        /\ \A w \in work : H(w)
  <2> HIDE DEF H
  <2> QED
    BY ZenonT(60) DEF Held
<1>4. ASSUME Typed PROVE
        \A c \in Cands : H([cand |-> c, env |-> row[c]])
                           <=> Sound(c, row[c], kind, node, approved)
  BY <1>4 DEF Sound, Typed
<1>5. ASSUME Typed PROVE
        \A p \in Procs :
          GoodJob(job[p], kind, node, approved) <=>
            /\ JobFits(job[p])
            /\ job[p].steps # <<>> =>
                 H([cand |-> job[p].cand, env |-> job[p].env])
  <2> SUFFICES ASSUME NEW p \in Procs PROVE
        GoodJob(job[p], kind, node, approved) <=>
            /\ JobFits(job[p])
            /\ job[p].steps # <<>> =>
                 H([cand |-> job[p].cand, env |-> job[p].env])
    OBVIOUS
  <2>1. job[p] \in JobType /\ job[p].env \in Envelope
    BY <1>5 DEF Typed, JobType
  <2> QED
    BY <2>1 DEF GoodJob, Sound, Fit, JobFits
<1>6. ASSUME Typed PROVE
        \A w \in work : H(w) <=> Sound(w.cand, w.env, kind, node, approved)
  BY <1>6 DEF Sound, Typed
<1>7. ASSUME Typed PROVE
        \A i \in Ids : GoodNode(node[i], approved) <=>
          (node[i].run # 0 =>
             /\ node[i].text = "plain"
             /\ node[i].cand \in Cands
             /\ node[i].run \in approved[node[i].cand])
  BY <1>7 DEF GoodNode, Typed
<1> QED
  <2> HIDE DEF H
  <2> QED
    BY <1>2, <1>3, <1>4, <1>5, <1>6, <1>7 DEF PInv

---------------------------------------------------------------------------
(* The constants of the types.                                             *)
LEMMA Nothing ==
    /\ NoRow \in Envelope
    /\ NoRow.status = "none" /\ NoRow.scan = "pending" /\ NoRow.text = "plain"
    /\ Idle \in JobType
    /\ Idle.steps = <<>>
    /\ "none" \notin Lived
BY ReviewAssumption DEF NoRow, Envelope, Statuses, Idle, JobType, Lived

(* A landing id names a node.                                              *)
LEMMA LandingIdType ==
    ASSUME NEW c \in Cands, NEW e \in Envelope
    PROVE  LandingId(c, e) \in Ids
BY DEF LandingId, Ids, Envelope

(* What is sound stays so while approvals and nodes only grow.             *)
LEMMA SoundGrows ==
    ASSUME NEW c, NEW e, NEW k, NEW n, NEW a, NEW m, NEW b,
           Sound(c, e, k, n, a),
           \A d \in Cands : a[d] \subseteq b[d],
           \A i \in Ids : n[i].run # 0 => m[i].run # 0
    PROVE  Sound(c, e, k, m, b)
<1>1. LandingId(c, e) \in Ids
  BY LandingIdType DEF Sound
<1> QED
  BY <1>1 DEF Sound

(* The jobs after a step are as they were or good.                         *)
JobsGood ==
    /\ job' \in [Procs -> JobType]
    /\ \A q \in Procs : job'[q] = job[q] \/ GoodJob(job'[q], kind, node', approved')

(* A step that leaves every envelope and node as it was or good preserves  *)
(* the invariant.                                                          *)
LEMMA Frame ==
    ASSUME PInv, Typed', kind' = kind, JobsGood,
           \A c \in Cands : approved[c] \subseteq approved'[c],
           \A i \in Ids : node[i].run # 0 => node'[i].run # 0,
           \A i \in Ids : node'[i] = node[i] \/ GoodNode(node'[i], approved'),
           \A c \in Cands : row'[c] = row[c]
                              \/ Sound(c, row'[c], kind, node', approved'),
           \A w \in work' : w \in work
                              \/ Sound(w.cand, w.env, kind, node', approved')
    PROVE  PInv'
<1>1. \A c, e : Sound(c, e, kind, node, approved)
                  => Sound(c, e, kind, node', approved')
  BY SoundGrows
<1>2. \A c \in Cands : Sound(c, row'[c], kind, node', approved')
  BY <1>1 DEF PInv
<1>3. \A q \in Procs : GoodJob(job'[q], kind, node', approved')
  <2> SUFFICES ASSUME NEW q \in Procs, job'[q] = job[q]
               PROVE  GoodJob(job[q], kind, node', approved')
    BY DEF JobsGood
  <2>1. GoodJob(job[q], kind, node, approved)
    BY DEF PInv
  <2>2. ASSUME job[q].steps # <<>> PROVE Sound(job[q].cand, job[q].env, kind, node', approved')
    BY <1>1, <2>1, <2>2 DEF GoodJob
  <2>3. ASSUME job[q].steps # <<>> PROVE Fit(job[q], kind, approved')
    <3>1. Fit(job[q], kind, approved) /\ job[q].cand \in Cands
      BY <2>1, <2>3 DEF GoodJob, Sound
    <3> QED
      BY <3>1 DEF Fit
  <2> QED
    BY <2>1, <2>2, <2>3 DEF GoodJob
<1>4. \A w \in work' : Sound(w.cand, w.env, kind, node', approved')
  BY <1>1 DEF PInv
<1>5. \A i \in Ids : GoodNode(node'[i], approved')
  <2> SUFFICES ASSUME NEW i \in Ids, node'[i] = node[i]
               PROVE  GoodNode(node[i], approved')
    OBVIOUS
  <2>1. GoodNode(node[i], approved)
    BY DEF PInv
  <2> QED
    BY <2>1 DEF GoodNode
<1> QED
  BY <1>2, <1>3, <1>4, <1>5 DEF PInv

(* What is known of a job that is at a step.                               *)
LEMMA AtFacts ==
    ASSUME PInv, NEW p \in Procs, NEW s, At(p, s)
    PROVE  /\ job[p] \in JobType
           /\ job[p].steps # <<>> /\ job[p].steps \in Seq(Steps)
           /\ Head(job[p].steps) = s
           /\ job[p].cand \in Cands /\ job[p].env \in Envelope
           /\ Sound(job[p].cand, job[p].env, kind, node, approved)
           /\ Fit(job[p], kind, approved)
BY DEF PInv, At, GoodJob, Sound, JobType

(* One job is replaced by a good one.                                      *)
LEMMA JobReplaced ==
    ASSUME PInv, NEW p \in Procs, NEW j, GoodJob(j, kind, node', approved'),
           job' = [job EXCEPT ![p] = j]
    PROVE  JobsGood
<1>1. job \in [Procs -> JobType] /\ j \in JobType
  BY DEF PInv, Typed, GoodJob
<1> QED
  BY <1>1 DEF JobsGood

(* A job that ends.                                                        *)
LEMMA Quitting ==
    ASSUME PInv, NEW p \in Procs, Quit(p)
    PROVE  JobsGood
<1>1. GoodJob(Idle, kind, node', approved')
  BY Nothing DEF GoodJob
<1> QED
  BY <1>1, JobReplaced DEF Quit

(* A job that goes on with envelope e and the awaits in rest.              *)
LEMMA Going ==
    ASSUME PInv, NEW p \in Procs, NEW e \in Envelope, NEW rest \in Seq(Steps),
           Go(p, e, rest),
           rest # <<>> =>
             /\ Sound(job[p].cand, e, kind, node', approved')
             /\ Fit([job[p] EXCEPT !.env = e, !.steps = rest], kind, approved')
    PROVE  JobsGood
<1> DEFINE j == [job[p] EXCEPT !.env = e, !.steps = rest]
<1>1. CASE rest = <<>>
  BY <1>1, Quitting DEF Go, Quit
<1>2. CASE rest # <<>>
  <2>1. job' = [job EXCEPT ![p] = j]
    BY <1>2 DEF Go
  <2>2. job[p] \in JobType
    BY DEF PInv, Typed
  <2>3. j \in JobType /\ j.env = e /\ j.steps = rest /\ j.cand = job[p].cand
    BY <2>2 DEF JobType
  <2>4. GoodJob(j, kind, node', approved')
    BY <1>2, <2>3 DEF GoodJob
  <2> QED
    BY <2>1, <2>4, JobReplaced
<1> QED
  BY <1>1, <1>2

(* The rest of a job fits, when its envelope keeps its text and its run.   *)
LEMMA RestFits ==
    ASSUME NEW j \in JobType, NEW k, NEW a, NEW e \in Envelope,
           j.steps # <<>>, Fit(j, k, a), Head(j.steps) # "reget",
           e.text = j.env.text, e.run = j.env.run,
           e.status = j.env.status \/ j.op = "approve"
    PROVE  /\ Tail(j.steps) \in Seq(Steps)
           /\ Fit([j EXCEPT !.env = e, !.steps = Tail(j.steps)], k, a)
<1>1. j.steps \in Seq(Steps)
  BY DEF JobType
<1>2. /\ Tail(j.steps) \in Seq(Steps)
      /\ \A i \in DOMAIN Tail(j.steps) :
           i + 1 \in DOMAIN j.steps /\ Tail(j.steps)[i] = j.steps[i + 1]
  BY <1>1
<1> DEFINE t == Tail(j.steps)
           f == [j EXCEPT !.env = e, !.steps = t]
<1>3. f.op = j.op /\ f.cand = j.cand /\ f.env = e /\ f.steps = t
  BY DEF JobType
<1> HIDE DEF f, t
<1>4. \A i \in DOMAIN t :
        /\ t[i] \in {"reget", "land"} => j.op = "approve"
        /\ t[i] = "pipeline" => j.op # "approve" /\ e.status = "extracted"
  BY <1>2 DEF Fit, t
<1>5. Fit(f, k, a)
  BY <1>3, <1>4 DEF Fit
<1> QED
  BY <1>2, <1>5 DEF f, t

---------------------------------------------------------------------------
(* The steps of a job.                                                     *)

(* A step that changes no more than one job preserves the invariant.       *)
LEMMA JobOnly ==
    ASSUME PInv, JobsGood, UNCHANGED <<kind, serial, stores, cycle, runs>>,
           requests' \in 0..MaxRequests, faults' \in 0..MaxFaults,
           UNCHANGED approved
    PROVE  PInv'
<1>1. UNCHANGED <<row, node, art, phase, work>>
  BY DEF stores, cycle
<1>2. Typed'
  BY <1>1 DEF Typed, PInv, JobsGood
<1> QED
  BY <1>1, <1>2, Frame

(* A job that goes on with its next await and its own envelope.            *)
LEMMA GoingOn ==
    ASSUME PInv, NEW p \in Procs, NEW s, At(p, s), s # "reget",
           Go(p, job[p].env, Rest(p)), kind' = kind, approved' = approved,
           \A i \in Ids : node[i].run # 0 => node'[i].run # 0
    PROVE  JobsGood
<1>1. /\ Rest(p) \in Seq(Steps)
      /\ Fit([job[p] EXCEPT !.env = job[p].env, !.steps = Rest(p)], kind, approved)
  <2>1. /\ job[p] \in JobType /\ job[p].env \in Envelope /\ job[p].steps # <<>>
        /\ Head(job[p].steps) # "reget" /\ Fit(job[p], kind, approved)
    BY AtFacts
  <2> QED
    BY <2>1, RestFits DEF Rest
<1>2. Sound(job[p].cand, job[p].env, kind, node', approved')
  BY AtFacts, SoundGrows
<1> QED
  BY <1>1, <1>2, AtFacts, Going

LEMMA FaultType == PInv /\ Fault => faults' \in 0..MaxFaults
BY ReviewAssumption DEF PInv, Typed, Fault

LEMMA PutKeeps ==
    ASSUME PInv, NEW p \in Procs, Put(p)
    PROVE  PInv'
<1> DEFINE c == job[p].cand
           e == job[p].env
           stored == [row EXCEPT ![c] = e]
<1>1. At(p, "put") /\ UNCHANGED <<node, art, phase, work, kind, serial, runs, requests, approved>>
  BY DEF Put, cycle, still
<1>2. Sound(c, e, kind, node, approved) /\ c \in Cands /\ e \in Envelope
  BY <1>1, AtFacts
<1>3. row' \in {row, stored} /\ faults' \in 0..MaxFaults
  BY FaultType DEF Put, PInv, Typed
<1>4. Go(p, job[p].env, Rest(p)) \/ Quit(p)
  BY DEF Put
<1>5. JobsGood
  BY <1>1, <1>4, GoingOn, Quitting
<1>6. Typed'
  BY <1>1, <1>2, <1>3, <1>5 DEF Typed, PInv, JobsGood
<1>7. \A d \in Cands : row'[d] = row[d] \/ Sound(d, row'[d], kind, node, approved)
  BY <1>2, <1>3 DEF PInv, Typed
<1> QED
  BY <1>1, <1>5, <1>6, <1>7, Frame

(* A node with another status and drift stamp.                             *)
LEMMA NodeTypes ==
    ASSUME NEW m \in Node, NEW s \in Statuses, NEW b \in BOOLEAN
    PROVE  LET f == [m EXCEPT !.status = s, !.suspect = b]
           IN  f \in Node /\ f.run = m.run /\ f.text = m.text /\ f.cand = m.cand
BY DEF Node

(* Stamps on a landed node leave what landed there.                        *)
LEMMA NodeStamped ==
    ASSUME PInv, NEW i \in Ids, NEW m \in Node,
           m.run = node[i].run, m.text = node[i].text, m.cand = node[i].cand,
           node' \in {node, [node EXCEPT ![i] = m]}, approved' = approved
    PROVE  /\ node' \in [Ids -> Node]
           /\ \A l \in Ids : node[l].run # 0 => node'[l].run # 0
           /\ \A l \in Ids : node'[l] = node[l] \/ GoodNode(node'[l], approved')
<1>1. GoodNode(node[i], approved) /\ node \in [Ids -> Node]
  BY DEF PInv, Typed
<1>2. GoodNode(m, approved)
  BY <1>1 DEF GoodNode
<1> QED
  BY <1>1, <1>2

LEMMA StampNodeKeeps ==
    ASSUME PInv, NEW p \in Procs, StampNode(p)
    PROVE  PInv'
<1> DEFINE e == job[p].env
           i == LandingId(job[p].cand, e)
           m == [node[i] EXCEPT !.status = e.status,
                                !.suspect = e.drift \in {"suspect", "corrected"}]
<1>1. /\ At(p, "node") /\ Go(p, job[p].env, Rest(p))
      /\ UNCHANGED <<row, art, phase, work, kind, serial, runs, requests, approved>>
  BY DEF StampNode, cycle, still
<1>2. e \in Envelope /\ i \in Ids
  BY <1>1, AtFacts, LandingIdType
<1>3. m \in Node /\ m.run = node[i].run /\ m.text = node[i].text /\ m.cand = node[i].cand
  <2>1. node[i] \in Node
    BY <1>2 DEF PInv, Typed
  <2>2. e.status \in Statuses
    BY <1>2 DEF Envelope
  <2>3. (e.drift \in {"suspect", "corrected"}) \in BOOLEAN
    OBVIOUS
  <2> QED
    BY <2>1, <2>2, <2>3, NodeTypes, Zenon
<1>4. faults' \in 0..MaxFaults
  BY FaultType DEF StampNode, PInv, Typed
<1>5. node' \in {node, [node EXCEPT ![i] = m]}
  <2>1. [node EXCEPT ![i].status = e.status,
                     ![i].suspect = e.drift \in {"suspect", "corrected"}]
          = [node EXCEPT ![i] = m]
    BY <1>2 DEF PInv, Typed
  <2> QED
    BY <2>1 DEF StampNode
<1> HIDE DEF m, i, e
<1>6. /\ node' \in [Ids -> Node]
      /\ \A l \in Ids : node[l].run # 0 => node'[l].run # 0
      /\ \A l \in Ids : node'[l] = node[l] \/ GoodNode(node'[l], approved')
  BY <1>1, <1>2, <1>3, <1>5, NodeStamped
<1>7. JobsGood
  BY <1>1, <1>6, GoingOn
<1>8. Typed'
  BY <1>1, <1>4, <1>6, <1>7 DEF Typed, PInv, JobsGood
<1> QED
  BY <1>1, <1>6, <1>7, <1>8, Frame

LEMMA MarkVerifiedKeeps ==
    ASSUME PInv, NEW p \in Procs, MarkVerified(p)
    PROVE  PInv'
<1> DEFINE i == LandingId(job[p].cand, job[p].env)
           m == [node[i] EXCEPT !.verified = TRUE]
<1>1. /\ At(p, "mark") /\ Go(p, job[p].env, Rest(p))
      /\ UNCHANGED <<row, art, phase, work, kind, serial, runs, requests, approved>>
  BY DEF MarkVerified, cycle, still
<1>2. i \in Ids
  BY <1>1, AtFacts, LandingIdType
<1>3. m \in Node /\ m.run = node[i].run /\ m.text = node[i].text /\ m.cand = node[i].cand
  <2>1. node[i] \in Node
    BY <1>2 DEF PInv, Typed
  <2> QED
    BY <2>1 DEF Node
<1>4. faults' \in 0..MaxFaults
  BY FaultType DEF MarkVerified, PInv, Typed
<1>5. node' \in {node, [node EXCEPT ![i] = m]}
  <2>1. [node EXCEPT ![i].verified = TRUE] = [node EXCEPT ![i] = m]
    BY <1>2 DEF PInv, Typed
  <2> QED
    BY <2>1 DEF MarkVerified
<1> HIDE DEF m, i
<1>6. /\ node' \in [Ids -> Node]
      /\ \A l \in Ids : node[l].run # 0 => node'[l].run # 0
      /\ \A l \in Ids : node'[l] = node[l] \/ GoodNode(node'[l], approved')
  BY <1>1, <1>2, <1>3, <1>5, NodeStamped
<1>7. JobsGood
  BY <1>1, <1>6, GoingOn
<1>8. Typed'
  BY <1>1, <1>4, <1>6, <1>7 DEF Typed, PInv, JobsGood
<1> QED
  BY <1>1, <1>6, <1>7, <1>8, Frame

(* The artifacts after a write of one of them.                             *)
LEMMA ArtTypes ==
    ASSUME NEW f \in [Keys -> [hits : 0..Threshold, dead : BOOLEAN]], NEW k,
           NEW r \in [hits : 0..Threshold, dead : BOOLEAN]
    PROVE  [f EXCEPT ![k] = r] \in [Keys -> [hits : 0..Threshold, dead : BOOLEAN]]
OBVIOUS

(* Steps that write an artifact leave envelopes and nodes alone.           *)
LEMMA ArtifactOnly ==
    ASSUME PInv, JobsGood, art' \in [Keys -> [hits : 0..Threshold, dead : BOOLEAN]],
           UNCHANGED <<kind, serial, row, node, cycle, runs, requests, approved>>,
           faults' \in 0..MaxFaults
    PROVE  PInv'
<1>1. UNCHANGED <<phase, work>>
  BY DEF cycle
<1>2. Typed'
  BY <1>1 DEF Typed, PInv, JobsGood
<1> QED
  BY <1>1, <1>2, Frame

LEMMA StampArtifactKeeps ==
    ASSUME PInv, NEW p \in Procs, StampArtifact(p)
    PROVE  PInv'
<1>1. /\ At(p, "art") /\ Go(p, job[p].env, Rest(p))
      /\ UNCHANGED <<kind, serial, row, node, cycle, runs, requests, approved>>
  BY DEF StampArtifact, still
<1>2. JobsGood
  BY <1>1, GoingOn
<1>3. faults' \in 0..MaxFaults
  BY FaultType DEF StampArtifact, PInv, Typed
<1>4. art' \in [Keys -> [hits : 0..Threshold, dead : BOOLEAN]]
  <2> DEFINE k == job[p].env.key
             r == [art[k] EXCEPT !.dead = TRUE]
  <2>1. art \in [Keys -> [hits : 0..Threshold, dead : BOOLEAN]]
    BY DEF PInv, Typed
  <2>2. art' \in {art, [art EXCEPT ![k] = r]}
    BY DEF StampArtifact
  <2>3. CASE k \in Keys
    <3>1. r \in [hits : 0..Threshold, dead : BOOLEAN]
      BY <2>1, <2>3
    <3> QED
      BY <2>1, <2>2, <3>1, ArtTypes
  <2>4. CASE k \notin Keys
    BY <2>1, <2>2, <2>4
  <2> QED
    BY <2>3, <2>4
<1> QED
  BY <1>1, <1>2, <1>3, <1>4, ArtifactOnly

LEMMA BumpHitsKeeps ==
    ASSUME PInv, NEW p \in Procs, BumpHits(p)
    PROVE  PInv'
<1>1. /\ At(p, "bump") /\ Go(p, job[p].env, Rest(p))
      /\ UNCHANGED <<kind, serial, row, node, cycle, runs, requests, faults, approved>>
  BY DEF BumpHits, still
<1>2. JobsGood
  BY <1>1, GoingOn
<1>3. art' \in [Keys -> [hits : 0..Threshold, dead : BOOLEAN]]
  <2> DEFINE k == job[p].env.key
             r == [art[k] EXCEPT !.hits = IF @ < Threshold THEN @ + 1 ELSE @]
  <2>1. art \in [Keys -> [hits : 0..Threshold, dead : BOOLEAN]]
    BY DEF PInv, Typed
  <2>2. art' = [art EXCEPT ![k] = r]
    BY DEF BumpHits
  <2>3. CASE k \in Keys
    <3>1. r \in [hits : 0..Threshold, dead : BOOLEAN]
      BY <2>1, <2>3, ReviewAssumption
    <3> QED
      BY <2>1, <2>2, <3>1, ArtTypes
  <2>4. CASE k \notin Keys
    BY <2>1, <2>2, <2>4
  <2> QED
    BY <2>3, <2>4
<1>4. faults' \in 0..MaxFaults
  BY <1>1 DEF PInv, Typed
<1> QED
  BY <1>1, <1>2, <1>3, <1>4, ArtifactOnly

LEMMA SeedArtifactKeeps ==
    ASSUME PInv, NEW p \in Procs, SeedArtifact(p)
    PROVE  PInv'
<1>1. /\ At(p, "seed") /\ Go(p, job[p].env, Rest(p))
      /\ UNCHANGED <<kind, serial, row, node, cycle, runs, requests, faults, approved>>
  BY DEF SeedArtifact, still
<1>2. JobsGood
  BY <1>1, GoingOn
<1>3. art' \in [Keys -> [hits : 0..Threshold, dead : BOOLEAN]]
  <2>1. art \in [Keys -> [hits : 0..Threshold, dead : BOOLEAN]]
    BY DEF PInv, Typed
  <2>2. art' \in {art, [art EXCEPT ![job[p].env.key] = [hits |-> 1, dead |-> FALSE]]}
    BY DEF SeedArtifact
  <2>3. [hits |-> 1, dead |-> FALSE] \in [hits : 0..Threshold, dead : BOOLEAN]
    BY ReviewAssumption
  <2> QED
    BY <2>1, <2>2, <2>3, ArtTypes
<1>4. faults' \in 0..MaxFaults
  BY <1>1 DEF PInv, Typed
<1> QED
  BY <1>1, <1>2, <1>3, <1>4, ArtifactOnly

LEMMA CheckDepsKeeps ==
    ASSUME PInv, NEW p \in Procs, CheckDeps(p)
    PROVE  PInv'
<1>1. /\ At(p, "deps") /\ (Go(p, job[p].env, Rest(p)) \/ Quit(p))
      /\ UNCHANGED <<kind, serial, stores, cycle, runs, requests, faults, approved>>
  BY DEF CheckDeps, still
<1>2. JobsGood
  BY <1>1, GoingOn, Quitting DEF stores
<1>3. requests' \in 0..MaxRequests /\ faults' \in 0..MaxFaults
  BY <1>1 DEF PInv, Typed
<1> QED
  BY <1>1, <1>2, <1>3, JobOnly

LEMMA GuardFormKeeps ==
    ASSUME PInv, NEW p \in Procs, GuardForm(p)
    PROVE  PInv'
<1>1. /\ At(p, "guard") /\ (Go(p, job[p].env, Rest(p)) \/ Quit(p))
      /\ UNCHANGED <<kind, serial, stores, cycle, runs, requests, faults, approved>>
  BY DEF GuardForm, still
<1>2. JobsGood
  BY <1>1, GoingOn, Quitting DEF stores
<1>3. requests' \in 0..MaxRequests /\ faults' \in 0..MaxFaults
  BY <1>1 DEF PInv, Typed
<1> QED
  BY <1>1, <1>2, <1>3, JobOnly

(* A step that writes no more than candidate rows and one job.             *)
LEMMA RowsOnly ==
    ASSUME PInv, JobsGood,
           UNCHANGED <<kind, serial, node, art, cycle, runs, requests, approved>>,
           faults' \in 0..MaxFaults, row' \in [Cands -> Envelope],
           \A c \in Cands : row'[c] = row[c]
                              \/ Sound(c, row'[c], kind, node, approved)
    PROVE  PInv'
<1>1. UNCHANGED <<phase, work>>
  BY DEF cycle
<1>2. Typed'
  BY <1>1 DEF Typed, PInv, JobsGood
<1> QED
  BY <1>1, <1>2, Frame

(* A row that is gone is sound.                                            *)
LEMMA NoRowSound == \A c \in Cands : \A k, n, a : Sound(c, NoRow, k, n, a)
BY Nothing DEF Sound

LEMMA SupersedeKeeps ==
    ASSUME PInv, NEW p \in Procs, Supersede(p)
    PROVE  PInv'
<1>1. /\ At(p, "supersede") /\ Go(p, job[p].env, Rest(p))
      /\ row' = [row EXCEPT ![job[p].cand] = NoRow]
      /\ UNCHANGED <<kind, serial, node, art, cycle, runs, requests, faults, approved>>
  BY DEF Supersede, still
<1>2. JobsGood
  BY <1>1, GoingOn
<1>3. faults' \in 0..MaxFaults /\ row \in [Cands -> Envelope]
  BY <1>1 DEF PInv, Typed
<1>4. /\ row' \in [Cands -> Envelope]
      /\ \A c \in Cands : row'[c] = row[c] \/ row'[c] = NoRow
  BY <1>1, <1>3, Nothing
<1> QED
  BY <1>1, <1>2, <1>3, <1>4, NoRowSound, RowsOnly

LEMMA ExpireKeeps ==
    ASSUME PInv, NEW c \in Cands, Expire(c)
    PROVE  PInv'
<1>1. /\ row' = [row EXCEPT ![c] = NoRow] /\ Fault
      /\ UNCHANGED <<kind, serial, node, art, job, cycle, runs, requests, approved>>
  BY DEF Expire, still
<1>2. JobsGood
  BY <1>1 DEF JobsGood, PInv, Typed
<1>3. faults' \in 0..MaxFaults /\ row \in [Cands -> Envelope]
  BY <1>1, FaultType DEF PInv, Typed
<1>4. /\ row' \in [Cands -> Envelope]
      /\ \A d \in Cands : row'[d] = row[d] \/ row'[d] = NoRow
  BY <1>1, <1>3, Nothing
<1> QED
  BY <1>1, <1>2, <1>3, <1>4, NoRowSound, RowsOnly

(* An envelope of the same payload and verdict, not further in its life.   *)
LEMMA SoundVariant ==
    ASSUME NEW c, NEW e, NEW k, NEW n, NEW a, NEW f \in Envelope,
           Sound(c, e, k, n, a),
           f.text = e.text, f.run = e.run, f.scan = e.scan, f.key = e.key,
           e.run # 0,
           f.status \in Lived => e.status \in Lived
    PROVE  Sound(c, f, k, n, a)
BY DEF Sound, LandingId

(* The awaits that neither land nor enter the pipeline.                    *)
Harmless == Seq(Steps \ {"reget", "land", "pipeline"})

LEMMA HarmlessFacts ==
    ASSUME NEW t \in Harmless
    PROVE  /\ t \in Seq(Steps)
           /\ \A i \in DOMAIN t : t[i] \notin {"reget", "land", "pipeline"}
BY DEF Harmless

(* A job may go on with them as long as an approve keeps its payload.      *)
LEMMA HarmlessFits ==
    ASSUME NEW j \in JobType, NEW k, NEW a, NEW e \in Envelope, NEW t \in Harmless,
           e.run # 0,
           \/ j.op # "approve"
           \/ /\ Fit(j, k, a) /\ Head(j.steps) # "reget"
              /\ e.text = j.env.text /\ e.run = j.env.run
    PROVE  Fit([j EXCEPT !.env = e, !.steps = t], k, a)
<1> DEFINE f == [j EXCEPT !.env = e, !.steps = t]
<1>1. f.op = j.op /\ f.cand = j.cand /\ f.env = e /\ f.steps = t
  BY DEF JobType
<1>2. j.op = "approve" =>
        e.text = "plain" /\ e.run \in a[j.cand] /\ k[j.cand] # "schema"
  BY DEF Fit
<1> HIDE DEF f
<1>3. Fit(f, k, a)
  BY <1>1, <1>2, HarmlessFacts DEF Fit
<1> QED
  BY <1>3 DEF f

(* A job that goes on with harmless awaits and a variant of its envelope.  *)
LEMMA GoingVariant ==
    ASSUME PInv, NEW p \in Procs, NEW s, At(p, s), s # "reget",
           NEW f \in Envelope, NEW t \in Harmless, Go(p, f, t),
           f.text = job[p].env.text, f.run = job[p].env.run,
           f.scan = job[p].env.scan, f.key = job[p].env.key,
           f.status \in Lived => job[p].env.status \in Lived,
           node' = node, approved' = approved
    PROVE  JobsGood
<1>1. /\ job[p] \in JobType /\ Head(job[p].steps) # "reget"
      /\ Fit(job[p], kind, approved) /\ job[p].env.run # 0
      /\ Sound(job[p].cand, job[p].env, kind, node, approved)
  BY AtFacts DEF Fit
<1>2. Fit([job[p] EXCEPT !.env = f, !.steps = t], kind, approved)
  BY <1>1, HarmlessFits
<1>3. Sound(job[p].cand, f, kind, node, approved)
  BY <1>1, SoundVariant
<1>4. t \in Seq(Steps)
  BY HarmlessFacts
<1> QED
  BY <1>2, <1>3, <1>4, Going

(* The lists of awaits the actions write.                                  *)
LEMMA HarmlessLists ==
    /\ <<>> \in Harmless
    /\ <<"count">> \in Harmless /\ <<"stamp">> \in Harmless
    /\ <<"node">> \in Harmless /\ <<"put">> \in Harmless
    /\ <<"bump">> \in Harmless /\ <<"seed">> \in Harmless
    /\ <<"replay">> \in Harmless
    /\ <<"put", "node">> \in Harmless /\ <<"node", "put">> \in Harmless
    /\ <<"guard", "put">> \in Harmless /\ <<"mark", "put">> \in Harmless
    /\ <<"supersede", "put">> \in Harmless /\ <<"deps", "put">> \in Harmless
    /\ <<"node", "art", "put">> \in Harmless
    /\ <<"node", "deps", "replay">> \in Harmless
BY DEF Harmless, Steps

(* A replay verdict changes the drift stamp alone.                         *)
LEMMA ProbedFacts ==
    ASSUME NEW e \in Envelope, NEW b \in BOOLEAN
    PROVE  LET f == Probed(e, b)
           IN  /\ f \in Envelope
               /\ f.status = e.status /\ f.run = e.run /\ f.text = e.text
               /\ f.scan = e.scan /\ f.key = e.key
BY DEF Probed, Envelope

(* A new status changes the status alone.                                  *)
LEMMA StatusFacts ==
    ASSUME NEW e \in Envelope, NEW s \in Statuses
    PROVE  LET f == [e EXCEPT !.status = s]
           IN  /\ f \in Envelope
               /\ f.status = s /\ f.run = e.run /\ f.text = e.text
               /\ f.scan = e.scan /\ f.key = e.key
BY DEF Envelope

LEMMA ReplayAdvanceKeeps ==
    ASSUME PInv, NEW p \in Procs, ReplayAdvance(p)
    PROVE  PInv'
<1> DEFINE e == job[p].env
<1>1. /\ At(p, "replay")
      /\ UNCHANGED <<kind, serial, stores, cycle, runs, requests, faults, approved>>
  BY DEF ReplayAdvance, still
<1>2. e \in Envelope /\ node' = node /\ approved' = approved
  BY <1>1, AtFacts DEF stores
<1>3. \/ Go(p, e, <<"count">>) \/ Quit(p)
      \/ \E passed \in BOOLEAN : Go(p, Probed(e, passed), <<"stamp">>)
  BY DEF ReplayAdvance
<1>4. CASE Go(p, e, <<"count">>)
  <2> HIDE DEF e
  <2>1. JobsGood
    BY <1>1, <1>2, <1>4, GoingVariant, HarmlessLists DEF e
  <2> QED
    BY <2>1, <1>1, JobOnly DEF PInv, Typed
<1>5. CASE Quit(p)
  BY <1>1, <1>5, Quitting, JobOnly DEF PInv, Typed
<1>6. ASSUME NEW b \in BOOLEAN, Go(p, Probed(e, b), <<"stamp">>)
      PROVE  PInv'
  <2>1. /\ Probed(e, b) \in Envelope
        /\ Probed(e, b).status = e.status /\ Probed(e, b).run = e.run
        /\ Probed(e, b).text = e.text /\ Probed(e, b).scan = e.scan
        /\ Probed(e, b).key = e.key
    BY <1>2, ProbedFacts
  <2>2. JobsGood
    BY <1>1, <1>2, <1>6, <2>1, GoingVariant, HarmlessLists
  <2> QED
    BY <2>2, <1>1, JobOnly DEF PInv, Typed
<1> QED
  BY <1>3, <1>4, <1>5, <1>6

LEMMA ReplayRecheckKeeps ==
    ASSUME PInv, NEW p \in Procs, ReplayRecheck(p)
    PROVE  PInv'
<1> DEFINE e == job[p].env
           good == Probed(e, TRUE)
           bad == Probed(e, FALSE)
           demoted == [bad EXCEPT !.status = "candidate"]
<1>1. /\ At(p, "replay")
      /\ UNCHANGED <<kind, serial, stores, cycle, runs, requests, faults, approved>>
  BY DEF ReplayRecheck, still
<1>2. e \in Envelope /\ node' = node /\ approved' = approved
  BY <1>1, AtFacts DEF stores
<1>3. \/ Go(p, e, <<"node">>) \/ Go(p, good, <<"put", "node">>)
      \/ Go(p, demoted, <<"node", "put">>)
  BY DEF ReplayRecheck
<1>4. /\ good \in Envelope /\ good.status = e.status /\ good.run = e.run
      /\ good.text = e.text /\ good.scan = e.scan /\ good.key = e.key
  BY <1>2, ProbedFacts
<1>5. /\ bad \in Envelope /\ bad.run = e.run
      /\ bad.text = e.text /\ bad.scan = e.scan /\ bad.key = e.key
  BY <1>2, ProbedFacts
<1>6. /\ demoted \in Envelope /\ demoted.status \notin Lived
      /\ demoted.run = e.run /\ demoted.text = e.text
      /\ demoted.scan = e.scan /\ demoted.key = e.key
  <2> HIDE DEF bad
  <2>1. "candidate" \in Statuses /\ "candidate" \notin Lived
    BY DEF Statuses, Lived
  <2> QED
    BY <1>5, <2>1, StatusFacts
<1> HIDE DEF demoted, bad, good
<1>7. JobsGood
  BY <1>1, <1>2, <1>3, <1>4, <1>6, GoingVariant, HarmlessLists
<1> QED
  BY <1>1, <1>7, JobOnly DEF PInv, Typed

LEMMA ReplayApproveKeeps ==
    ASSUME PInv, NEW p \in Procs, ReplayApprove(p)
    PROVE  PInv'
<1> DEFINE e == job[p].env
           good == Probed(e, TRUE)
<1>1. /\ At(p, "replay") /\ job[p].op = "approve"
      /\ UNCHANGED <<kind, serial, stores, cycle, runs, requests, faults, approved>>
  BY DEF ReplayApprove, still
<1>2. /\ job[p] \in JobType /\ e \in Envelope /\ job[p].steps # <<>>
      /\ Head(job[p].steps) # "reget" /\ Fit(job[p], kind, approved)
      /\ Sound(job[p].cand, e, kind, node, approved) /\ e.run # 0
  BY <1>1, AtFacts DEF Fit
<1>3. Go(p, good, Rest(p)) \/ Quit(p)
  BY DEF ReplayApprove
<1>4. /\ good \in Envelope /\ good.status = e.status /\ good.run = e.run
      /\ good.text = e.text /\ good.scan = e.scan /\ good.key = e.key
  BY <1>2, ProbedFacts
<1> HIDE DEF good
<1>5. /\ Rest(p) \in Seq(Steps)
      /\ Fit([job[p] EXCEPT !.env = good, !.steps = Rest(p)], kind, approved)
  BY <1>2, <1>4, RestFits DEF Rest
<1>6. Sound(job[p].cand, good, kind, node, approved)
  BY <1>2, <1>4, SoundVariant
<1>7. JobsGood
  BY <1>1, <1>3, <1>4, <1>5, <1>6, Going, Quitting DEF stores
<1> QED
  BY <1>1, <1>7, JobOnly DEF PInv, Typed

LEMMA CountHitsKeeps ==
    ASSUME PInv, NEW p \in Procs, CountHits(p)
    PROVE  PInv'
<1> DEFINE e == job[p].env
           f == [e EXCEPT !.status = "in_review"]
<1>1. /\ At(p, "count")
      /\ UNCHANGED <<kind, serial, stores, cycle, runs, requests, approved>>
  BY DEF CountHits, still
<1>2. e \in Envelope /\ node' = node /\ approved' = approved
  BY <1>1, AtFacts DEF stores
<1>3. Go(p, f, <<"node", "put">>) \/ Quit(p)
  BY DEF CountHits
<1>4. faults' \in 0..MaxFaults
  BY FaultType DEF CountHits, PInv, Typed
<1>5. /\ f \in Envelope /\ f.status \notin Lived
      /\ f.run = e.run /\ f.text = e.text /\ f.scan = e.scan /\ f.key = e.key
  <2>1. "in_review" \in Statuses /\ "in_review" \notin Lived
    BY DEF Statuses, Lived
  <2> QED
    BY <1>2, <2>1, StatusFacts
<1> HIDE DEF f
<1>6. JobsGood
  BY <1>1, <1>2, <1>3, <1>5, GoingVariant, Quitting, HarmlessLists
<1> QED
  BY <1>1, <1>4, <1>6, JobOnly DEF PInv, Typed

LEMMA StampDriftKeeps ==
    ASSUME PInv, NEW p \in Procs, StampDrift(p)
    PROVE  PInv'
<1> DEFINE e == job[p].env
           c == job[p].cand
           f == [row[c] EXCEPT !.drift = e.drift]
<1>1. /\ At(p, "stamp")
      /\ UNCHANGED <<kind, serial, node, art, cycle, runs, requests, approved>>
  BY DEF StampDrift, still
<1>2. e \in Envelope /\ c \in Cands /\ row \in [Cands -> Envelope]
  BY <1>1, AtFacts DEF PInv, Typed
<1>3. Go(p, e, <<"count">>) \/ Quit(p)
  BY DEF StampDrift
<1>4. faults' \in 0..MaxFaults
  BY FaultType DEF StampDrift, PInv, Typed
<1>5. row' = row \/ (row[c].status # "none" /\ row' = [row EXCEPT ![c] = f])
  <2>1. [row EXCEPT ![c].drift = e.drift] = [row EXCEPT ![c] = f]
    BY <1>2
  <2> QED
    BY <2>1 DEF StampDrift
<1>6. /\ f \in Envelope /\ f.status = row[c].status
      /\ f.run = row[c].run /\ f.text = row[c].text /\ f.scan = row[c].scan
      /\ f.key = row[c].key
  BY <1>2 DEF Envelope
<1>7. row[c].status # "none" => Sound(c, f, kind, node, approved)
  <2>1. Sound(c, row[c], kind, node, approved)
    BY <1>2 DEF PInv
  <2>2. row[c].status # "none" => row[c].run # 0
    BY <2>1 DEF Sound
  <2> HIDE DEF f, c
  <2> QED
    BY <1>6, <2>1, <2>2, SoundVariant
<1> HIDE DEF f
<1>8. JobsGood
  BY <1>1, <1>2, <1>3, GoingVariant, Quitting, HarmlessLists
<1>9. /\ row' \in [Cands -> Envelope]
      /\ \A d \in Cands : row'[d] = row[d] \/ Sound(d, row'[d], kind, node, approved)
  BY <1>2, <1>5, <1>6, <1>7
<1> QED
  BY <1>1, <1>4, <1>8, <1>9, RowsOnly

(* The gate reads the whole payload: its verdict is true of the text.      *)
LEMMA ScannedSound ==
    ASSUME NEW c \in Cands, NEW g \in Envelope, NEW f \in Scanned(c, g),
           NEW n, NEW a, NEW s \in Statuses, s \notin Lived, g.run # 0,
           g.scan \in {"pass", "masked"} => g.text = "plain",
           kind[c] = "schema" => g.scan = "pending"
    PROVE  /\ f \in Envelope /\ f.run = g.run /\ f.status = g.status
           /\ [f EXCEPT !.status = s] \in Envelope
           /\ [f EXCEPT !.status = s].run = g.run
           /\ Sound(c, [f EXCEPT !.status = s], kind, n, a)
<1>1. /\ f \in Envelope /\ f.run = g.run /\ f.status = g.status
      /\ f.scan \in {"pass", "masked"} => f.text = "plain"
      /\ kind[c] = "schema" => f.scan = "pending"
  <2>1. CASE kind[c] = "schema"
    BY <2>1 DEF Scanned
  <2>2. CASE kind[c] # "schema"
    <3>1. PICK v \in {<<"plain", "pass">>, <<"entity", "found">>,
                      <<"entity", "blind">>} :
            f = [g EXCEPT !.text = v[1], !.scan = v[2]]
      BY <2>2 DEF Scanned
    <3>2. /\ v[1] \in {"plain", "entity"} /\ v[2] \in {"pass", "found", "blind"}
          /\ v[2] = "pass" => v[1] = "plain"
      BY <3>1
    <3> QED
      BY <2>2, <3>1, <3>2 DEF Envelope
  <2> QED
    BY <2>1, <2>2
<1> DEFINE h == [f EXCEPT !.status = s]
<1>2. /\ h \in Envelope /\ h.status = s /\ h.run = g.run /\ h.text = f.text
      /\ h.scan = f.scan
  BY <1>1, StatusFacts
<1> HIDE DEF h
<1>3. Sound(c, h, kind, n, a)
  BY <1>1, <1>2 DEF Sound
<1> QED
  BY <1>1, <1>2, <1>3 DEF h

(* A static outcome and a key leave the payload and its verdict alone.     *)
LEMMA KeyFacts ==
    ASSUME NEW e \in Envelope, NEW v \in [static : BOOLEAN, key : Keys \cup {NoKey}],
           NEW f, f = [e EXCEPT !.static = v.static, !.key = v.key]
    PROVE  /\ f \in Envelope
           /\ f.status = e.status /\ f.run = e.run /\ f.text = e.text
           /\ f.scan = e.scan
BY DEF Envelope

LEMMA RunPipelineKeeps ==
    ASSUME PInv, NEW p \in Procs, RunPipeline(p)
    PROVE  PInv'
<1> DEFINE c == job[p].cand
           e == job[p].env
<1>1. /\ At(p, "pipeline")
      /\ UNCHANGED <<kind, serial, stores, cycle, runs, requests, faults, approved>>
  BY DEF RunPipeline, still
<1>2. /\ job[p] \in JobType /\ c \in Cands /\ e \in Envelope
      /\ Sound(c, e, kind, node, approved) /\ Fit(job[p], kind, approved)
      /\ job[p].steps \in Seq(Steps) /\ job[p].steps # <<>>
      /\ Head(job[p].steps) = "pipeline"
  BY <1>1, AtFacts
<1>3. job[p].op # "approve" /\ e.status = "extracted" /\ e.run # 0
  <2>1. 1 \in DOMAIN job[p].steps /\ job[p].steps[1] = "pipeline"
    BY <1>2
  <2> QED
    BY <1>2, <2>1 DEF Fit
<1>4. /\ Persist(p) \in Harmless /\ Dropped(p) \in Harmless
      /\ <<"bump">> \o Dropped(p) \in Harmless
      /\ <<"seed">> \o Persist(p) \in Harmless
      /\ <<>> \o Persist(p) = Persist(p)
  <2>1. Persist(p) \in Harmless /\ Dropped(p) \in Harmless
    BY HarmlessLists DEF Persist, Dropped
  <2> HIDE DEF Persist, Dropped
  <2> QED
    BY <2>1, HarmlessLists DEF Harmless
<1>5. PICK g \in Generalized(c, e) : \E f \in Scanned(c, g) :
        \/ Go(p, f, <<"bump">> \o Dropped(p))
        \/ \E act \in {"insert", "merge"} : \E s \in Routes(c, f, act) :
             \/ Go(p, [f EXCEPT !.status = s], Persist(p))
             \/ Go(p, [f EXCEPT !.status = s], <<"seed">> \o Persist(p))
        \/ Go(p, f, Dropped(p))
  BY <1>4 DEF RunPipeline
<1>6. PICK f \in Scanned(c, g) :
        \/ Go(p, f, <<"bump">> \o Dropped(p))
        \/ \E act \in {"insert", "merge"} : \E s \in Routes(c, f, act) :
             \/ Go(p, [f EXCEPT !.status = s], Persist(p))
             \/ Go(p, [f EXCEPT !.status = s], <<"seed">> \o Persist(p))
        \/ Go(p, f, Dropped(p))
  BY <1>5
<1>7. /\ g \in Envelope /\ g.run = e.run /\ g.status = e.status
      /\ g.scan = e.scan /\ g.text = e.text
  <2> HIDE DEF c, e
  <2>1. CASE IsBlueprint(c)
    <3>1. PICK v \in [static : BOOLEAN, key : Keys \cup {NoKey}] :
            g = [e EXCEPT !.static = v.static, !.key = v.key]
      BY <2>1 DEF Generalized
    <3> QED
      BY <1>2, <3>1, KeyFacts, Zenon
  <2>2. CASE ~IsBlueprint(c)
    BY <1>2, <2>2 DEF Generalized
  <2> QED
    BY <2>1, <2>2
<1>8. /\ g.run # 0 /\ g.scan \in {"pass", "masked"} => g.text = "plain"
      /\ kind[c] = "schema" => g.scan = "pending"
  BY <1>2, <1>3, <1>7 DEF Sound
<1>9. \A s \in Statuses : s \notin Lived =>
        /\ f \in Envelope /\ f.run # 0 /\ f.status = "extracted"
        /\ [f EXCEPT !.status = s] \in Envelope
        /\ [f EXCEPT !.status = s].run # 0
        /\ Sound(c, [f EXCEPT !.status = s], kind, node, approved)
  BY <1>2, <1>3, <1>6, <1>7, <1>8, ScannedSound
<1>10. PICK h \in Envelope, t \in Harmless :
         /\ Go(p, h, t) /\ h.run # 0
         /\ Sound(c, h, kind, node, approved)
  <2>1. "extracted" \in Statuses /\ "extracted" \notin Lived
    BY DEF Statuses, Lived
  <2>2. f \in Envelope /\ f.run # 0 /\ f.status = "extracted"
    BY <1>9, <2>1
  <2>3. [f EXCEPT !.status = "extracted"] = f
    BY <2>2 DEF Envelope
  <2>4. Sound(c, f, kind, node, approved)
    BY <1>9, <2>1, <2>3
  <2>5. \A act : Routes(c, f, act) \subseteq Statuses \ Lived
    BY DEF Routes, Statuses, Lived
  <2> HIDE DEF Persist, Dropped, c, e
  <2>6. CASE \E act \in {"insert", "merge"} : \E s \in Routes(c, f, act) :
               \/ Go(p, [f EXCEPT !.status = s], Persist(p))
               \/ Go(p, [f EXCEPT !.status = s], <<"seed">> \o Persist(p))
    <3>1. PICK s \in Statuses \ Lived :
               \/ Go(p, [f EXCEPT !.status = s], Persist(p))
               \/ Go(p, [f EXCEPT !.status = s], <<"seed">> \o Persist(p))
      BY <2>5, <2>6
    <3> QED
      BY <1>4, <1>9, <3>1
  <2>7. CASE Go(p, f, <<"bump">> \o Dropped(p)) \/ Go(p, f, Dropped(p))
    BY <1>4, <2>2, <2>4, <2>7
  <2> QED
    BY <1>6, <2>6, <2>7
<1>11. Fit([job[p] EXCEPT !.env = h, !.steps = t], kind, approved)
  BY <1>2, <1>3, <1>10, HarmlessFits
<1>12. JobsGood
  <2>1. t \in Seq(Steps) /\ node' = node /\ approved' = approved
    BY <1>1, HarmlessFacts DEF stores
  <2> QED
    BY <1>10, <1>11, <2>1, Going
<1> QED
  BY <1>1, <1>12, JobOnly DEF PInv, Typed

LEMMA LandKeeps ==
    ASSUME PInv, NEW p \in Procs, Land(p)
    PROVE  PInv'
<1> DEFINE c == job[p].cand
           e == job[p].env
           i == LandingId(c, e)
           m == [status |-> "validated", suspect |-> FALSE, verified |-> TRUE,
                 text |-> e.text, cand |-> c, run |-> e.run]
           f == [e EXCEPT !.status = "validated", !.verified = TRUE]
<1>1. /\ At(p, "land")
      /\ UNCHANGED <<kind, serial, row, art, phase, work, runs, requests, approved>>
  BY DEF Land, still, cycle
<1>2. /\ job[p] \in JobType /\ c \in Cands /\ e \in Envelope /\ i \in Ids
      /\ Sound(c, e, kind, node, approved) /\ Fit(job[p], kind, approved)
      /\ job[p].steps \in Seq(Steps) /\ job[p].steps # <<>>
      /\ Head(job[p].steps) = "land"
  BY <1>1, AtFacts, LandingIdType
<1>3. /\ job[p].op = "approve" /\ e.text = "plain" /\ e.run \in approved[c]
      /\ kind[c] # "schema" /\ e.run # 0
  <2>1. 1 \in DOMAIN job[p].steps /\ job[p].steps[1] = "land"
    BY <1>2
  <2> QED
    BY <1>2, <2>1 DEF Fit
<1>4. m \in Node /\ m.run = e.run /\ GoodNode(m, approved)
  <2>1. m \in Node
    BY <1>2 DEF Node, Envelope, Statuses
  <2> QED
    BY <1>2, <1>3, <2>1 DEF GoodNode
<1>5. /\ \/ node' = [node EXCEPT ![i] = m] /\ Go(p, f, Rest(p))
         \/ node' \in {node, [node EXCEPT ![i] = m]} /\ Quit(p)
      /\ faults' \in 0..MaxFaults
  BY FaultType DEF Land, PInv, Typed
<1>6. /\ f \in Envelope /\ f.status = "validated" /\ f.run = e.run
      /\ f.text = e.text /\ f.scan = e.scan /\ f.key = e.key
  BY <1>2 DEF Envelope, Statuses
<1>7. /\ Rest(p) \in Seq(Steps)
      /\ Fit([job[p] EXCEPT !.env = f, !.steps = Rest(p)], kind, approved)
  <2> HIDE DEF f
  <2> QED
    BY <1>2, <1>3, <1>6, RestFits DEF Rest
<1>8. LandingId(c, f) = i
  BY <1>6 DEF LandingId
<1> HIDE DEF f, m, i, c, e
<1>9. /\ node' \in [Ids -> Node]
      /\ \A l \in Ids : node[l].run # 0 => node'[l].run # 0
      /\ \A l \in Ids : node'[l] = node[l] \/ GoodNode(node'[l], approved')
  BY <1>1, <1>2, <1>3, <1>4, <1>5 DEF PInv, Typed
<1>10. JobsGood
  <2>1. CASE node' = [node EXCEPT ![i] = m] /\ Go(p, f, Rest(p))
    <3>1. node'[i].run # 0
      BY <1>2, <1>3, <1>4, <2>1 DEF PInv, Typed
    <3>2. Sound(c, f, kind, node', approved)
      BY <1>2, <1>3, <1>6, <1>8, <3>1 DEF Sound
    <3> QED
      BY <1>1, <1>6, <1>7, <2>1, <3>2, Going DEF c
  <2>2. CASE Quit(p)
    BY <2>2, Quitting
  <2> QED
    BY <1>5, <2>1, <2>2
<1>11. Typed'
  BY <1>1, <1>5, <1>9, <1>10 DEF Typed, PInv, JobsGood
<1> QED
  BY <1>1, <1>9, <1>10, <1>11, Frame

(* The strip leaves a payload a human may approve without an entity.       *)
LEMMA StripFacts ==
    ASSUME NEW c \in Cands, NEW e \in Envelope, NEW n, NEW a,
           Sound(c, e, kind, n, a), MayApprove(c, e)
    PROVE  /\ Strip(e) \in Envelope /\ Strip(e).text = "plain"
           /\ Strip(e).run = e.run /\ Strip(e).run # 0
           /\ Strip(e).status = "in_review"
           /\ kind[c] # "schema"
BY DEF Strip, MayApprove, Actionable, Sound, Envelope

LEMMA RegetKeeps ==
    ASSUME PInv, NEW p \in Procs, Reget(p)
    PROVE  PInv'
<1> DEFINE c == job[p].cand
           e == Strip(row[c])
           f == IF kind[c] = "schema"
                THEN [e EXCEPT !.status = "validated", !.drift = "unchecked"]
                ELSE IF kind[c] = "knowledge"
                     THEN [e EXCEPT !.drift = "unchecked"] ELSE e
<1>1. /\ At(p, "reget")
      /\ UNCHANGED <<kind, serial, stores, cycle, runs, requests, faults>>
  BY DEF Reget
<1>2. UNCHANGED <<row, node, art, phase, work>>
  BY <1>1 DEF stores, cycle
<1>3. /\ job[p] \in JobType /\ c \in Cands /\ Fit(job[p], kind, approved)
      /\ job[p].steps \in Seq(Steps) /\ job[p].steps # <<>>
      /\ Head(job[p].steps) = "reget"
  BY <1>1, AtFacts
<1>4. job[p].op = "approve"
  <2>1. 1 \in DOMAIN job[p].steps /\ job[p].steps[1] = "reget"
    BY <1>3
  <2> QED
    BY <1>3, <2>1 DEF Fit
<1>5. CASE Quit(p) /\ UNCHANGED approved
  BY <1>1, <1>5, Quitting, JobOnly DEF PInv, Typed
<1>6. CASE /\ MayApprove(c, row[c])
           /\ approved' = [approved EXCEPT ![c] = @ \cup {e.run}]
           /\ Go(p, f, ApproveSteps(c))
  <2>1. Sound(c, row[c], kind, node, approved) /\ row[c] \in Envelope
    BY <1>3 DEF PInv, Typed
  <2>2. /\ e \in Envelope /\ e.text = "plain" /\ e.run # 0
        /\ e.status = "in_review" /\ kind[c] # "schema"
    BY <1>3, <1>6, <2>1, StripFacts
  <2>3. f \in {e, [e EXCEPT !.drift = "unchecked"]}
    BY <2>2
  <2> HIDE DEF e, f
  <2>4. /\ f \in Envelope /\ f.text = "plain" /\ f.run = e.run
        /\ f.status = "in_review"
    BY <2>2, <2>3 DEF Envelope
  <2>5. ApproveSteps(c) \in {<<"deps", "replay", "land", "put">>,
                             <<"deps", "land", "put">>}
    BY <1>3, <2>2 DEF ApproveSteps, IsBlueprint, PInv, Typed, Kinds
  <2>6. /\ ApproveSteps(c) \in Seq(Steps) /\ ApproveSteps(c) # <<>>
        /\ Head(ApproveSteps(c)) # "reget"
        /\ \A i \in DOMAIN ApproveSteps(c) : ApproveSteps(c)[i] # "pipeline"
    <3> DEFINE Other == Steps \ {"reget", "pipeline"}
    <3>1. /\ <<"deps", "replay", "land", "put">> \in Seq(Other)
          /\ <<"deps", "land", "put">> \in Seq(Other)
      BY DEF Steps
    <3>2. \A t \in Seq(Other) :
            t \in Seq(Steps) /\ \A i \in DOMAIN t : t[i] \notin {"reget", "pipeline"}
      OBVIOUS
    <3> HIDE DEF Other
    <3>3. ApproveSteps(c) \in Seq(Other)
      BY <2>5, <3>1
    <3>4. ApproveSteps(c) # <<>>
      BY <2>5
    <3>5. 1 \in DOMAIN ApproveSteps(c) /\ Head(ApproveSteps(c)) = ApproveSteps(c)[1]
      BY <3>3, <3>4
    <3> QED
      BY <3>2, <3>3, <3>4, <3>5
  <2> HIDE DEF ApproveSteps
  <2>7. /\ approved' \in [Cands -> SUBSET (1..MaxRuns)]
        /\ \A d \in Cands : approved[d] \subseteq approved'[d]
        /\ e.run \in approved'[c]
    <3>1. e.run \in 1..MaxRuns
      BY <2>2, ReviewAssumption DEF Envelope
    <3>2. approved \in [Cands -> SUBSET (1..MaxRuns)]
      BY DEF PInv, Typed
    <3> QED
      BY <1>3, <1>6, <3>1, <3>2
  <2>8. Sound(c, f, kind, node', approved')
    <3>1. /\ f.scan \in {"pass", "masked"} => f.text = "plain"
          /\ f.status \notin Lived /\ f.run # 0
      BY <2>2, <2>4 DEF Lived
    <3> QED
      BY <1>3, <2>2, <2>4, <3>1 DEF Sound
  <2>9. Fit([job[p] EXCEPT !.env = f, !.steps = ApproveSteps(c)], kind, approved')
    <3> DEFINE j == [job[p] EXCEPT !.env = f, !.steps = ApproveSteps(c)]
    <3>1. j.op = "approve" /\ j.cand = c /\ j.env = f /\ j.steps = ApproveSteps(c)
      BY <1>3, <1>4 DEF JobType
    <3> HIDE DEF j
    <3>2. Fit(j, kind, approved')
      BY <2>2, <2>4, <2>6, <2>7, <3>1 DEF Fit
    <3> QED
      BY <3>2 DEF j
  <2>10. JobsGood
    BY <1>6, <2>4, <2>6, <2>8, <2>9, Going DEF c
  <2>11. Typed'
    BY <1>1, <1>2, <2>7, <2>10 DEF Typed, PInv, JobsGood
  <2> QED
    BY <1>1, <1>2, <2>7, <2>10, <2>11, Frame
<1> QED
  BY <1>5, <1>6 DEF Reget

---------------------------------------------------------------------------
(* The cron cycle, requests, crashes.                                      *)

(* A step that takes up a job.                                             *)
LEMMA Beginning ==
    ASSUME PInv, NEW p \in Procs, NEW o \in Ops, NEW c \in Cands,
           NEW e \in Envelope, NEW todo \in Seq(Steps), Begin(p, o, c, e, todo),
           todo # <<>> =>
             /\ Sound(c, e, kind, node', approved')
             /\ Fit([op |-> o, cand |-> c, env |-> e, steps |-> todo], kind, approved')
    PROVE  JobsGood
<1> DEFINE j == [op |-> o, cand |-> c, env |-> e, steps |-> todo]
<1>1. CASE todo = <<>>
  BY <1>1, Quitting DEF Begin, Quit
<1>2. CASE todo # <<>>
  <2>1. job' = [job EXCEPT ![p] = j]
    BY <1>2 DEF Begin
  <2>2. j \in JobType /\ j.cand = c /\ j.env = e /\ j.steps = todo
    BY DEF JobType
  <2>3. GoodJob(j, kind, node', approved')
    BY <1>2, <2>2 DEF GoodJob
  <2> QED
    BY <2>1, <2>3, JobReplaced
<1> QED
  BY <1>1, <1>2

(* A job of harmless awaits that is no approve.                            *)
LEMMA BeginningPlain ==
    ASSUME PInv, NEW p \in Procs, NEW o \in Ops, o # "approve", NEW c \in Cands,
           NEW e \in Envelope, NEW todo \in Harmless, Begin(p, o, c, e, todo),
           Sound(c, e, kind, node, approved), e.run # 0,
           node' = node, approved' = approved
    PROVE  JobsGood
<1> DEFINE j == [op |-> o, cand |-> c, env |-> e, steps |-> todo]
<1>1. todo \in Seq(Steps)
  BY HarmlessFacts
<1>2. j.op # "approve" /\ j.env = e /\ j.steps = todo
  OBVIOUS
<1> HIDE DEF j
<1>3. Fit(j, kind, approved)
  BY <1>2, HarmlessFacts DEF Fit
<1> QED
  BY <1>1, <1>3, Beginning DEF j

(* A step of the cycle that only replaces what it has still to examine.    *)
LEMMA WorkOnly ==
    ASSUME PInv, JobsGood, UNCHANGED <<stores, faults, still>>,
           phase' \in {"idle", "validated", "work"},
           \A w \in work' : \/ w \in work
                            \/ \E c \in Cands : w = [cand |-> c, env |-> row[c]]
    PROVE  PInv'
<1>1. UNCHANGED <<row, node, art, kind, serial, runs, requests, faults, approved>>
  BY DEF stores, still
<1>2. ASSUME NEW c \in Cands
      PROVE  LET w == [cand |-> c, env |-> row[c]]
             IN  /\ w \in [cand : Cands, env : Envelope]
                 /\ Sound(w.cand, w.env, kind, node, approved)
  BY DEF PInv, Typed
<1>3. \A w \in work' : \/ w \in work
                       \/ /\ w \in [cand : Cands, env : Envelope]
                          /\ Sound(w.cand, w.env, kind, node, approved)
  BY <1>2
<1>4. Typed'
  BY <1>1, <1>3 DEF Typed, PInv, JobsGood
<1> QED
  BY <1>1, <1>3, <1>4, Frame

LEMMA ScanKeeps ==
    ASSUME PInv, ScanCandidates \/ ScanValidated \/ EndCycle
    PROVE  PInv'
<1>1. UNCHANGED <<stores, job, faults, still>>
  BY DEF ScanCandidates, ScanValidated, EndCycle
<1>2. JobsGood
  BY <1>1 DEF JobsGood, PInv, Typed
<1>3. phase' \in {"idle", "validated", "work"}
  BY DEF ScanCandidates, ScanValidated, EndCycle
<1>4. work' \subseteq work \cup Snapshots("candidate") \cup Snapshots("validated")
  BY DEF ScanCandidates, ScanValidated, EndCycle
<1>5. \A s : \A w \in Snapshots(s) : \E c \in Cands : w = [cand |-> c, env |-> row[c]]
  BY DEF Snapshots
<1> QED
  BY <1>1, <1>2, <1>3, <1>4, <1>5, WorkOnly

(* An envelope whose correction is noted.                                  *)
LEMMA FlaggedFacts ==
    ASSUME NEW e \in Envelope, NEW b \in BOOLEAN
    PROVE  LET f == [e EXCEPT !.flagged = b]
           IN  /\ f \in Envelope
               /\ f.status = e.status /\ f.run = e.run /\ f.text = e.text
               /\ f.scan = e.scan /\ f.key = e.key
BY DEF Envelope

LEMMA AdvanceKeeps ==
    ASSUME PInv, Advance
    PROVE  PInv'
<1>1. PICK w \in work :
        /\ w.env.status = "candidate" /\ work' = work \ {w}
        /\ Begin(Cron, "advance", w.cand,
                 [w.env EXCEPT !.flagged = @ \/ w.env.drift = "corrected"],
                 AdvanceSteps(w.cand, w.env))
  BY DEF Advance
<1>2. UNCHANGED <<stores, phase, faults, still>>
  BY DEF Advance
<1> DEFINE c == w.cand
           e == w.env
           b == e.flagged \/ e.drift = "corrected"
           f == [e EXCEPT !.flagged = b]
<1>3. c \in Cands /\ e \in Envelope /\ Sound(c, e, kind, node, approved) /\ e.run # 0
  BY <1>1 DEF PInv, Typed, Sound
<1>4. /\ f \in Envelope /\ f.status = e.status /\ f.run = e.run
      /\ f.text = e.text /\ f.scan = e.scan /\ f.key = e.key
  <2>1. b \in BOOLEAN
    OBVIOUS
  <2> HIDE DEF b
  <2> QED
    BY <1>3, <2>1, FlaggedFacts, Zenon
<1>5. Begin(Cron, "advance", c, f, AdvanceSteps(c, e))
  BY <1>1
<1>6. AdvanceSteps(c, e) \in Harmless
  BY HarmlessLists DEF AdvanceSteps
<1> HIDE DEF f, b, c, e
<1>7. Sound(c, f, kind, node, approved)
  BY <1>3, <1>4, SoundVariant
<1>8. JobsGood
  <2>1. Cron \in Procs /\ "advance" \in Ops
    BY DEF Procs, Ops
  <2>2. node' = node /\ approved' = approved
    BY <1>2 DEF stores, still
  <2> QED
    BY <1>3, <1>4, <1>5, <1>6, <1>7, <2>1, <2>2, BeginningPlain
<1>9. phase' \in {"idle", "validated", "work"}
  BY <1>2 DEF PInv, Typed
<1> QED
  BY <1>1, <1>2, <1>8, <1>9, WorkOnly

LEMMA RecheckKeeps ==
    ASSUME PInv, Recheck
    PROVE  PInv'
<1>1. PICK w \in work :
        /\ w.env.status = "validated" /\ work' = work \ {w}
        /\ Begin(Cron, "recheck", w.cand, w.env,
                 IF IsBlueprint(w.cand) THEN <<"replay">> ELSE <<>>)
  BY DEF Recheck
<1>2. UNCHANGED <<stores, phase, faults, still>>
  BY DEF Recheck
<1>3. /\ w.cand \in Cands /\ w.env \in Envelope /\ w.env.run # 0
      /\ Sound(w.cand, w.env, kind, node, approved)
  BY <1>1 DEF PInv, Typed, Sound
<1>4. JobsGood
  <2>1. Cron \in Procs /\ "recheck" \in Ops
    BY DEF Procs, Ops
  <2>2. node' = node /\ approved' = approved
    BY <1>2 DEF stores, still
  <2> QED
    BY <1>1, <1>3, <2>1, <2>2, BeginningPlain, HarmlessLists
<1>5. phase' \in {"idle", "validated", "work"}
  BY <1>2 DEF PInv, Typed
<1> QED
  BY <1>1, <1>2, <1>4, <1>5, WorkOnly

LEMMA CrashKeeps ==
    ASSUME PInv, NEW p \in Procs, Crash(p)
    PROVE  PInv'
<1>1. /\ Quit(p) /\ Fault
      /\ UNCHANGED <<row, node, art, kind, serial, runs, requests, approved>>
  BY DEF Crash, stores, still
<1>2. phase' \in {"idle", "validated", "work"} /\ work' \subseteq work
  BY DEF Crash, cycle, PInv, Typed
<1>3. JobsGood /\ faults' \in 0..MaxFaults
  BY <1>1, Quitting, FaultType
<1>4. Typed'
  BY <1>1, <1>2, <1>3 DEF Typed, PInv, JobsGood
<1> QED
  BY <1>1, <1>2, <1>3, <1>4, Frame

(* A job that puts an extracted envelope through the pipeline.             *)
LEMMA PipelineFits ==
    ASSUME NEW o, o # "approve", NEW c, NEW e, e.status = "extracted", e.run # 0,
           NEW t, t \in Seq(Steps \ {"reget", "land"}), NEW k, NEW a
    PROVE  Fit([op |-> o, cand |-> c, env |-> e, steps |-> t], k, a)
<1>1. \A i \in DOMAIN t : t[i] \notin {"reget", "land"}
  OBVIOUS
<1> QED
  BY <1>1 DEF Fit

LEMMA StartRunKeeps ==
    ASSUME PInv, NEW c \in Cands, StartRun(c)
    PROVE  PInv'
<1> DEFINE g == Fresh(c)
<1>1. UNCHANGED <<kind, serial, row, node, art, phase, work, requests, faults, approved>>
  BY DEF StartRun, stores, cycle
<1>2. runs' \in [Cands -> 0..MaxRuns] /\ runs[c] + 1 \in 0..MaxRuns /\ runs[c] \in Nat
  BY ReviewAssumption DEF StartRun, PInv, Typed
<1>3. /\ g \in Envelope /\ g.run # 0 /\ g.status = "extracted"
      /\ g.scan = "pending" /\ g.text = "plain"
  <2>1. g = [NoRow EXCEPT !.status = "extracted", !.run = runs[c] + 1]
    BY DEF Fresh
  <2>2. runs[c] + 1 # 0
    BY <1>2
  <2>3. "extracted" \in Statuses
    BY DEF Statuses
  <2> HIDE DEF g
  <2> QED
    BY <1>2, <2>1, <2>2, <2>3, Nothing DEF Envelope
<1> HIDE DEF g
<1>4. Consumer \in Procs /\ "extract" \in Ops
  BY DEF Procs, Ops
<1>5. CASE kind[c] = "form"
  <2>1. PICK f \in Scanned(c, g) :
          Begin(Consumer, "extract", c,
                [f EXCEPT !.status = "needs_parameterization"], <<"supersede", "put">>)
    BY <1>5 DEF StartRun, g
  <2> DEFINE h == [f EXCEPT !.status = "needs_parameterization"]
  <2>2. "needs_parameterization" \in Statuses /\ "needs_parameterization" \notin Lived
    BY DEF Statuses, Lived
  <2>3. h \in Envelope /\ h.run # 0 /\ Sound(c, h, kind, node, approved)
    BY <1>3, <2>2, ScannedSound
  <2> HIDE DEF h
  <2>4. JobsGood
    BY <1>1, <1>4, <2>1, <2>3, BeginningPlain, HarmlessLists DEF h
  <2>5. Typed'
    BY <1>1, <1>2, <2>4 DEF Typed, PInv, JobsGood
  <2> QED
    BY <1>1, <2>4, <2>5, Frame
<1>6. CASE kind[c] # "form"
  <2> DEFINE t == <<"supersede", "put", "pipeline">>
  <2>1. Begin(Consumer, "extract", c, g, t)
    BY <1>6 DEF StartRun, g
  <2>2. t \in Seq(Steps \ {"reget", "land"}) /\ t \in Seq(Steps)
    BY DEF Steps
  <2> HIDE DEF t
  <2>3. Fit([op |-> "extract", cand |-> c, env |-> g, steps |-> t], kind, approved')
    BY <1>3, <2>2, PipelineFits
  <2>4. Sound(c, g, kind, node', approved')
    BY <1>3 DEF Sound, Lived
  <2>5. JobsGood
    BY <1>3, <1>4, <2>1, <2>2, <2>3, <2>4, Beginning
  <2>6. Typed'
    BY <1>1, <1>2, <2>5 DEF Typed, PInv, JobsGood
  <2> QED
    BY <1>1, <2>5, <2>6, Frame
<1> QED
  BY <1>5, <1>6

(* A request that begins with a good job.                                  *)
LEMMA RequestKeeps ==
    ASSUME PInv, NEW r \in Reviewers, NEW o \in Ops, NEW c \in Cands,
           NEW e \in Envelope, NEW t \in Seq(Steps), Request(r, o, c, e, t),
           Sound(c, e, kind, node, approved),
           Fit([op |-> o, cand |-> c, env |-> e, steps |-> t], kind, approved)
    PROVE  PInv'
<1>1. /\ Begin(r, o, c, e, t)
      /\ UNCHANGED <<kind, serial, stores, cycle, runs, faults, approved>>
  BY DEF Request
<1>2. requests' \in 0..MaxRequests /\ faults' \in 0..MaxFaults
  BY ReviewAssumption DEF Request, PInv, Typed
<1>3. r \in Procs /\ node' = node /\ approved' = approved
  BY <1>1 DEF Procs, stores
<1>4. JobsGood
  BY <1>1, <1>3, Beginning
<1> QED
  BY <1>1, <1>2, <1>4, JobOnly

(* A request other than an approve that puts a variant of the row.         *)
LEMMA PlainRequestKeeps ==
    ASSUME PInv, NEW r \in Reviewers, NEW o \in Ops, o # "approve",
           NEW c \in Cands, row[c].status # "none",
           NEW e \in Envelope, NEW t \in Harmless, Request(r, o, c, e, t),
           e.text = row[c].text, e.run = row[c].run, e.scan = row[c].scan,
           e.key = row[c].key, e.status \in Lived => row[c].status \in Lived
    PROVE  PInv'
<1>1. Sound(c, row[c], kind, node, approved) /\ row[c].run # 0
  BY DEF PInv, Sound
<1>2. Sound(c, e, kind, node, approved)
  BY <1>1, SoundVariant
<1> DEFINE j == [op |-> o, cand |-> c, env |-> e, steps |-> t]
<1>3. j.op # "approve" /\ j.env = e /\ j.steps = t
  OBVIOUS
<1> HIDE DEF j
<1>4. Fit(j, kind, approved)
  BY <1>1, <1>3, HarmlessFacts DEF Fit
<1>5. t \in Seq(Steps)
  BY HarmlessFacts
<1> QED
  BY <1>2, <1>4, <1>5, RequestKeeps DEF j

LEMMA ApproveKeeps ==
    ASSUME PInv, NEW r \in Reviewers, NEW c \in Cands, Approve(r, c)
    PROVE  PInv'
<1> DEFINE t == <<"reget">>
           j == [op |-> "approve", cand |-> c, env |-> row[c], steps |-> t]
<1>1. Request(r, "approve", c, row[c], t) /\ row[c].status = "in_review"
  BY DEF Approve
<1>2. /\ row[c] \in Envelope /\ Sound(c, row[c], kind, node, approved)
      /\ row[c].run # 0
  BY <1>1 DEF PInv, Typed, Sound
<1>3. t \in Seq(Steps) /\ Head(t) = "reget" /\ \A i \in DOMAIN t : t[i] = "reget"
  BY DEF Steps
<1>4. j.op = "approve" /\ j.env = row[c] /\ j.steps = t
  OBVIOUS
<1> HIDE DEF j, t
<1>5. Fit(j, kind, approved)
  BY <1>2, <1>3, <1>4 DEF Fit
<1>6. "approve" \in Ops
  BY DEF Ops
<1> QED
  BY <1>1, <1>2, <1>3, <1>5, <1>6, RequestKeeps DEF j

LEMMA RejectKeeps ==
    ASSUME PInv, NEW r \in Reviewers, NEW c \in Cands, Reject(r, c)
    PROVE  PInv'
<1> DEFINE e == [row[c] EXCEPT !.status = "rejected"]
<1>1. Request(r, "reject", c, e, <<"node", "art", "put">>) /\ row[c].status # "none"
  BY DEF Reject
<1>2. /\ row[c] \in Envelope /\ "reject" \in Ops
      /\ "rejected" \in Statuses /\ "rejected" \notin Lived
  BY DEF PInv, Typed, Ops, Statuses, Lived
<1>3. /\ e \in Envelope /\ e.status \notin Lived /\ e.text = row[c].text
      /\ e.run = row[c].run /\ e.scan = row[c].scan /\ e.key = row[c].key
  BY <1>2, StatusFacts
<1> HIDE DEF e
<1> QED
  BY <1>1, <1>2, <1>3, HarmlessLists, PlainRequestKeeps

LEMMA RetractKeeps ==
    ASSUME PInv, NEW r \in Reviewers, NEW c \in Cands, Retract(r, c)
    PROVE  PInv'
<1> DEFINE e == [row[c] EXCEPT !.status = "retired"]
<1>1. /\ Request(r, "retract", c, e, <<"node", "art", "put">>)
      /\ row[c].status \in Lived /\ row[c].status # "none"
  BY DEF Retract, Lived
<1>2. row[c] \in Envelope /\ "retract" \in Ops /\ "retired" \in Statuses
  BY DEF PInv, Typed, Ops, Statuses
<1>3. /\ e \in Envelope /\ e.text = row[c].text
      /\ e.run = row[c].run /\ e.scan = row[c].scan /\ e.key = row[c].key
  BY <1>2, StatusFacts
<1> HIDE DEF e
<1> QED
  BY <1>1, <1>2, <1>3, HarmlessLists, PlainRequestKeeps

LEMMA PromoteKeeps ==
    ASSUME PInv, NEW r \in Reviewers, NEW c \in Cands, Promote(r, c)
    PROVE  PInv'
<1> DEFINE e == [row[c] EXCEPT !.status = "promoted"]
<1>1. /\ Request(r, "promote", c, e, <<"put">>)
      /\ row[c].status \in Lived /\ row[c].status # "none"
  BY DEF Promote, Lived
<1>2. row[c] \in Envelope /\ "promote" \in Ops /\ "promoted" \in Statuses
  BY DEF PInv, Typed, Ops, Statuses
<1>3. /\ e \in Envelope /\ e.text = row[c].text
      /\ e.run = row[c].run /\ e.scan = row[c].scan /\ e.key = row[c].key
  BY <1>2, StatusFacts
<1> HIDE DEF e
<1> QED
  BY <1>1, <1>2, <1>3, HarmlessLists, PlainRequestKeeps

LEMMA VerifyKeeps ==
    ASSUME PInv, NEW r \in Reviewers, NEW c \in Cands, Verify(r, c)
    PROVE  PInv'
<1> DEFINE e == [row[c] EXCEPT !.verified = TRUE]
<1>1. /\ Request(r, "verify", c, e, <<"mark", "put">>)
      /\ row[c].status \in Lived /\ row[c].status # "none"
  BY DEF Verify, Lived
<1>2. row[c] \in Envelope /\ "verify" \in Ops
  BY DEF PInv, Typed, Ops
<1>3. /\ e \in Envelope /\ e.text = row[c].text
      /\ e.run = row[c].run /\ e.scan = row[c].scan /\ e.key = row[c].key
  BY <1>2 DEF Envelope
<1> HIDE DEF e
<1> QED
  BY <1>1, <1>2, <1>3, HarmlessLists, PlainRequestKeeps

LEMMA CorrectKeeps ==
    ASSUME PInv, NEW r \in Reviewers, NEW c \in Cands, Correct(r, c)
    PROVE  PInv'
<1> DEFINE e == [row[c] EXCEPT !.status = "candidate", !.drift = "corrected"]
<1>1. /\ Request(r, "correct", c, e, <<"node", "put">>)
      /\ row[c].status # "none"
  BY DEF Correct
<1>2. row[c] \in Envelope /\ "correct" \in Ops
  BY DEF PInv, Typed, Ops
<1>3. /\ e \in Envelope /\ e.status \notin Lived /\ e.text = row[c].text
      /\ e.run = row[c].run /\ e.scan = row[c].scan /\ e.key = row[c].key
  BY <1>2 DEF Envelope, Statuses, Lived
<1> HIDE DEF e
<1> QED
  BY <1>1, <1>2, <1>3, HarmlessLists, PlainRequestKeeps

LEMMA CompleteKeeps ==
    ASSUME PInv, NEW r \in Reviewers, NEW c \in Cands, Complete(r, c)
    PROVE  PInv'
<1> DEFINE g == row[c]
           h == [g EXCEPT !.status = "extracted", !.scan = "pending"]
<1>1. g \in Envelope /\ Sound(c, g, kind, node, approved) /\ "complete" \in Ops
  BY DEF PInv, Typed, Ops
<1>2. g.status = "needs_parameterization" /\ g.run # 0
  BY <1>1 DEF Complete, Sound
<1>3. ASSUME NEW f \in Scanned(c, g),
             Request(r, "complete", c, f, <<"guard", "put">>)
      PROVE  PInv'
  <2>1. /\ g.status \in Statuses /\ g.status \notin Lived
        /\ g.scan \in {"pass", "masked"} => g.text = "plain"
        /\ kind[c] = "schema" => g.scan = "pending"
    BY <1>1, <1>2 DEF Statuses, Lived, Sound
  <2>2. /\ f \in Envelope /\ f.run # 0 /\ f.status = g.status
        /\ Sound(c, [f EXCEPT !.status = g.status], kind, node, approved)
    BY <1>1, <1>2, <1>3, <2>1, ScannedSound
  <2>3. [f EXCEPT !.status = g.status] = f
    BY <2>2 DEF Envelope
  <2> DEFINE t == <<"guard", "put">>
             j == [op |-> "complete", cand |-> c, env |-> f, steps |-> t]
  <2>4. j.op = "complete" /\ j.env = f /\ j.steps = t
    OBVIOUS
  <2>5. t \in Harmless
    BY HarmlessLists
  <2> HIDE DEF j, t
  <2>6. Fit(j, kind, approved)
    BY <2>2, <2>4, <2>5, HarmlessFacts DEF Fit
  <2> QED
    BY <1>1, <1>3, <2>2, <2>3, <2>5, <2>6, HarmlessFacts, RequestKeeps DEF j, t
<1>4. CASE Request(r, "complete", c, h, <<"pipeline">>)
  <2>1. /\ h \in Envelope /\ h.status = "extracted" /\ h.run # 0
        /\ h.scan = "pending"
    BY <1>1, <1>2 DEF Envelope, Statuses
  <2> HIDE DEF h
  <2>2. Sound(c, h, kind, node, approved)
    BY <2>1 DEF Sound, Lived
  <2>3. <<"pipeline">> \in Seq(Steps \ {"reget", "land"}) /\ <<"pipeline">> \in Seq(Steps)
    BY DEF Steps
  <2>4. Fit([op |-> "complete", cand |-> c, env |-> h, steps |-> <<"pipeline">>],
            kind, approved)
    BY <2>1, <2>3, PipelineFits
  <2> QED
    BY <1>1, <1>4, <2>1, <2>2, <2>3, <2>4, RequestKeeps
<1> QED
  BY <1>3, <1>4 DEF Complete

---------------------------------------------------------------------------
(* The invariant holds at first and through every step.                    *)
LEMMA InitPInv == Init => PInv
<1> SUFFICES ASSUME Init PROVE PInv
  OBVIOUS
<1>1. NoNode \in Node /\ NoNode.run = 0
  BY ReviewAssumption DEF NoNode, Node, Statuses
<1>2. Typed
  BY <1>1, Nothing, ReviewAssumption DEF Init, Typed
<1>3. \A i \in Ids : GoodNode(node[i], approved)
  BY <1>1 DEF Init, GoodNode
<1>4. \A p \in Procs : GoodJob(job[p], kind, node, approved)
  BY Nothing DEF Init, GoodJob
<1> QED
  BY <1>2, <1>3, <1>4, NoRowSound DEF Init, PInv

LEMMA NextPInv == PInv /\ [Next]_vars => PInv'
<1> SUFFICES ASSUME PInv, [Next]_vars PROVE PInv'
  OBVIOUS
<1>1. CASE CronCycle
  BY <1>1, ScanKeeps, AdvanceKeeps, RecheckKeeps DEF CronCycle
<1>2. ASSUME NEW p \in Procs, JobStep(p) PROVE PInv'
  BY <1>2, PutKeeps, StampNodeKeeps, StampArtifactKeeps, MarkVerifiedKeeps,
     CheckDepsKeeps, RunPipelineKeeps, BumpHitsKeeps, SeedArtifactKeeps,
     SupersedeKeeps, ReplayAdvanceKeeps, ReplayRecheckKeeps, ReplayApproveKeeps,
     StampDriftKeeps, CountHitsKeeps, GuardFormKeeps, RegetKeeps, LandKeeps
     DEF JobStep
<1>3. ASSUME NEW p \in Procs, Crash(p) PROVE PInv'
  BY <1>3, CrashKeeps
<1>4. ASSUME NEW c \in Cands, StartRun(c) \/ Expire(c) PROVE PInv'
  BY <1>4, StartRunKeeps, ExpireKeeps
<1>5. ASSUME NEW r \in Reviewers, NEW c \in Cands, InboxRequest(r, c) PROVE PInv'
  BY <1>5, ApproveKeeps, RejectKeeps, RetractKeeps, VerifyKeeps, PromoteKeeps,
     CorrectKeeps, CompleteKeeps DEF InboxRequest
<1>6. CASE UNCHANGED vars
  <2>1. UNCHANGED <<kind, serial, row, node, art, job, phase, work, runs, requests,
                    faults, approved>>
    BY <1>6 DEF vars, stores
  <2> QED
    BY <2>1 DEF PInv, Typed
<1> QED
  BY <1>1, <1>2, <1>3, <1>4, <1>5, <1>6 DEF Next

(* The three promises of the review hold together with what makes them     *)
(* inductive, for any interleaving of the consumer, the cron and the       *)
(* inbox, any crash and any failing write.                                 *)
THEOREM ReviewInvariant == Spec => []IInv
<1>1. Init => IInv
  BY InitPInv, InvariantForms
<1>2. IInv /\ [Next]_vars => IInv'
  <2>1. IInv' <=> PInv'
    BY InvariantForms, PTL
  <2> QED
    BY <2>1, NextPInv, InvariantForms
<1> QED
  BY <1>1, <1>2, PTL DEF Spec

(* No envelope past the review and no landed node has an entity in its     *)
(* text, whatever the reviewer approved (strip_entity_bearing).            *)
THEOREM EntityFreeAlways == Spec => []EntityFree
<1>1. IInv => EntityFree
  BY DEF IInv
<1> QED
  BY <1>1, ReviewInvariant, PTL

(* Nothing lands and nothing passes the review but a run a human approved  *)
(* (apply_human_decision).                                                 *)
THEOREM OnlyHumanLandsAlways == Spec => []OnlyHumanLands
<1>1. IInv => OnlyHumanLands
  BY DEF IInv
<1> QED
  BY <1>1, ReviewInvariant, PTL

(* A validated envelope has its node in the graph (_land_and_promote).     *)
THEOREM ValidatedIsLandedAlways == Spec => []ValidatedIsLanded
<1>1. IInv => ValidatedIsLanded
  BY DEF IInv
<1> QED
  BY <1>1, ReviewInvariant, PTL

---------------------------------------------------------------------------
(* A reviewer's final word, when the promotion writers take turns.  What   *)
(* the writer at work would put is older than no final word: the row it    *)
(* read is not ended, and only the consumer, with a run that nobody else   *)
(* has seen, may replace it meanwhile.                                     *)
Active(p) == job[p].steps # <<>>
Writers == Procs \ {Consumer}

BeforePipeline == Seq({"supersede", "put", "pipeline"})
AfterPipeline == Seq({"supersede", "put", "seed", "bump"})
PutLast(t) == \A i \in DOMAIN t : t[i] = "put" => i = Len(t)

(* The jobs of each process: only a reviewer's put may be a final word,    *)
(* and then the job ends with it.                                          *)
Shaped(p, j) ==
    /\ p = Consumer =>
         /\ j.op = "extract"
         /\ \/ j.steps \in BeforePipeline /\ j.env.status = "extracted"
            \/ j.steps \in AfterPipeline /\ PutLast(j.steps)
    /\ p = Cron =>
         /\ j.op \in {"advance", "recheck"} /\ j.env.status \notin Ended
         /\ \A i \in DOMAIN j.steps : j.steps[i] # "pipeline"
    /\ p \in Reviewers =>
         /\ j.op \notin {"advance", "recheck"}
         /\ j.env.status \in Ended => PutLast(j.steps)

Known(c, e) == e.run <= runs[c]
Open(c, e) == row[c].run = e.run => row[c].status \notin Ended

TakeTurns ==
    /\ phase = "idle" => work = {}
    /\ phase \in {"idle", "validated"} => ~Active(Cron)
    /\ \A r \in Reviewers : Active(r) =>
         phase = "idle" /\ \A q \in Reviewers \ {r} : ~Active(q)

(* Nobody else has an envelope of the run that the consumer is writing.    *)
Unseen(c, e) ==
    /\ row[c].run = e.run => row[c].status = "extracted"
    /\ \A q \in Writers : Active(q) /\ job[q].cand = c => job[q].env.run # e.run
    /\ \A w \in work : w.cand = c => w.env.run # e.run

Holds(p) ==
    /\ Known(job[p].cand, job[p].env)
    /\ Shaped(p, job[p])
    /\ p # Consumer => Open(job[p].cand, job[p].env)
    /\ p = Consumer => Unseen(job[p].cand, job[p].env)

Turns ==
    /\ TakeTurns
    /\ \A c \in Cands : Known(c, row[c])
    /\ \A w \in work : /\ Known(w.cand, w.env) /\ Open(w.cand, w.env)
                       /\ w.env.status \in {"candidate", "validated"}
    /\ \A p \in Procs : Active(p) => Holds(p)

LEMMA ProcFacts ==
    /\ Cron \in Writers /\ Reviewers \subseteq Writers /\ Consumer \notin Writers
    /\ Cron # Consumer /\ Cron \notin Reviewers /\ Consumer \notin Reviewers
    /\ Procs = Writers \cup {Consumer} /\ Writers = Reviewers \cup {Cron}
BY ReviewAssumption DEF Writers, Procs, Cron, Consumer

LEMMA RunFacts ==
    ASSUME PInv
    PROVE  /\ \A c \in Cands : runs[c] \in Nat /\ row[c].run \in Nat
                               /\ (row[c].status # "none" => row[c].run # 0)
           /\ \A p \in Procs : Active(p) => job[p].cand \in Cands /\ job[p].env.run \in Nat \ {0}
           /\ \A w \in work : w.cand \in Cands /\ w.env.run \in Nat
<1>1. \A e \in Envelope : e.run \in Nat
  BY ReviewAssumption DEF Envelope
<1>2. \A p \in Procs : Active(p) => /\ job[p].cand \in Cands /\ job[p].env \in Envelope
                                    /\ job[p].env.run # 0
  BY DEF PInv, GoodJob, Sound, Fit, Active
<1>3. \A w \in work : w.cand \in Cands /\ w.env \in Envelope
  BY DEF PInv, Sound
<1>4. \A c \in Cands : row[c] \in Envelope /\ (row[c].status # "none" => row[c].run # 0)
  BY DEF PInv, Sound
<1>5. runs \in [Cands -> 0..MaxRuns] /\ 0..MaxRuns \subseteq Nat
  BY ReviewAssumption DEF PInv, Typed
<1>. QED
  BY <1>1, <1>2, <1>3, <1>4, <1>5

(* The rows are as they were, or expired or superseded.                    *)
Calm == \A c \in Cands : \/ row'[c].run = row[c].run /\ row'[c].status = row[c].status
                         \/ row'[c] = NoRow

LEMMA CalmFacts ==
    ASSUME PInv, Turns, Calm, runs' = runs
    PROVE  /\ \A c \in Cands : Known(c, row[c])'
           /\ \A c \in Cands : \A e : Open(c, e) => (row'[c].run = e.run => row'[c].status \notin Ended)
           /\ \A c \in Cands : \A e : e.run # 0 /\ (row[c].run = e.run => row[c].status = "extracted")
                => (row'[c].run = e.run => row'[c].status = "extracted")
<1>1. NoRow.run = 0 /\ NoRow.status = "none" /\ "none" \notin Ended
  BY DEF NoRow, Ended
<1>2. \A c \in Cands : runs[c] \in Nat /\ row[c].run <= runs[c]
  BY RunFacts DEF Turns, Known
<1>. QED
  BY <1>1, <1>2 DEF Calm, Known, Open

(* One job goes on with its run, or ends, while the rows are calm.         *)
LEMMA TurnMove ==
    ASSUME PInv, Turns, NEW p \in Procs, Active(p), NEW j, job' = [job EXCEPT ![p] = j],
           j.steps # <<>> => /\ j.cand = job[p].cand /\ j.env.run = job[p].env.run
                             /\ Shaped(p, j),
           Calm, UNCHANGED <<runs, phase, work>>
    PROVE  Turns'
<1>0. /\ job'[p] = j /\ \A q \in Procs \ {p} : job'[q] = job[q]
  BY DEF PInv, Typed
<1>1. \A q \in Procs : job'[q].steps # <<>> =>
        /\ Active(q) /\ Shaped(q, job'[q])
        /\ job'[q].cand = job[q].cand /\ job'[q].env.run = job[q].env.run
  BY <1>0 DEF Active, Turns, Holds
<1>2. TakeTurns'
  BY <1>1, ProcFacts DEF TakeTurns, Turns, Active
<1>3. \A c \in Cands : Known(c, row[c])'
  BY CalmFacts
<1>4. \A w \in work' : /\ Known(w.cand, w.env)' /\ Open(w.cand, w.env)'
                       /\ w.env.status \in {"candidate", "validated"}
  BY CalmFacts, RunFacts DEF Turns, Known, Open
<1>5. ASSUME NEW q \in Procs, job'[q].steps # <<>>
      PROVE  Holds(q)'
  <2>. DEFINE c == job[q].cand
              e == job[q].env
  <2>1. /\ Active(q) /\ Holds(q) /\ Shaped(q, job'[q])
        /\ job'[q].cand = c /\ job'[q].env.run = e.run /\ c \in Cands /\ e.run # 0
    BY <1>1, <1>5, RunFacts DEF Turns
  <2>2. Known(job[q].cand, job[q].env)'
    BY <2>1 DEF Holds, Known
  <2>3. q # Consumer => Open(job[q].cand, job[q].env)'
    BY <2>1, CalmFacts DEF Holds, Open
  <2>4. ASSUME q = Consumer PROVE Unseen(job[q].cand, job[q].env)'
    <3>1. Unseen(c, e)
      BY <2>1, <2>4 DEF Holds
    <3>2. row'[c].run = e.run => row'[c].status = "extracted"
      BY <2>1, <3>1, CalmFacts DEF Unseen
    <3>3. \A u \in Writers : Active(u)' /\ job'[u].cand = c => job'[u].env.run # e.run
      BY <1>1, <3>1, ProcFacts DEF Unseen, Active
    <3>4. \A w \in work' : w.cand = c => w.env.run # e.run
      BY <3>1 DEF Unseen
    <3>. QED
      BY <2>1, <3>2, <3>3, <3>4 DEF Unseen
  <2>. QED
    BY <2>1, <2>2, <2>3, <2>4 DEF Holds
<1>. QED
  BY <1>2, <1>3, <1>4, <1>5 DEF Turns, Active

LEMMA TurnGo ==
    ASSUME PInv, Turns, NEW p \in Procs, NEW s, At(p, s), NEW e, e.run = job[p].env.run,
           NEW rest, Go(p, e, rest),
           rest # <<>> => Shaped(p, [job[p] EXCEPT !.env = e, !.steps = rest]),
           Calm, UNCHANGED <<runs, phase, work>>
    PROVE  Turns'
<1>. DEFINE j == [job[p] EXCEPT !.env = e, !.steps = rest]
<1>1. job[p] \in JobType /\ Active(p)
  BY AtFacts DEF Active
<1>2. CASE rest = <<>>
  <2>1. job' = [job EXCEPT ![p] = Idle] /\ Idle.steps = <<>>
    BY <1>2, Nothing DEF Go
  <2>. QED
    BY <1>1, <2>1, TurnMove
<1>3. CASE rest # <<>>
  <2>1. job' = [job EXCEPT ![p] = j]
    BY <1>3 DEF Go
  <2>2. j.steps = rest /\ j.cand = job[p].cand /\ j.env = e
    BY <1>1 DEF JobType
  <2>3. Shaped(p, j)
    BY <1>3
  <2>. HIDE DEF j
  <2>. QED
    BY <1>1, <2>1, <2>2, <2>3, TurnMove
<1>. QED
  BY <1>2, <1>3

LEMMA TurnQuit ==
    ASSUME PInv, Turns, NEW p \in Procs, Active(p), Quit(p), Calm, UNCHANGED <<runs, phase, work>>
    PROVE  Turns'
<1>1. job' = [job EXCEPT ![p] = Idle] /\ Idle.steps = <<>>
  BY Nothing DEF Quit
<1>. QED
  BY <1>1, TurnMove

LEMMA ConsumerHeads ==
    ASSUME PInv, Turns, NEW s, At(Consumer, s)
    PROVE  s \in {"supersede", "put", "pipeline", "seed", "bump"}
<1>1. Shaped(Consumer, job[Consumer]) /\ Head(job[Consumer].steps) = s
  BY DEF Turns, Holds, At, Active, Procs
<1>2. job[Consumer].steps \in BeforePipeline \cup AfterPipeline /\ job[Consumer].steps # <<>>
  BY <1>1 DEF Shaped, At
<1>3. \A S, t : t \in Seq(S) /\ t # <<>> => Head(t) \in S
  OBVIOUS
<1>. QED
  BY <1>1, <1>2, <1>3 DEF BeforePipeline, AfterPipeline

LEMMA Tails ==
    ASSUME NEW t \in Seq(Steps), t # <<>>
    PROVE  /\ t \in BeforePipeline => Tail(t) \in BeforePipeline
           /\ t \in AfterPipeline => Tail(t) \in AfterPipeline
           /\ PutLast(t) => PutLast(Tail(t))
<1>1. Len(Tail(t)) = Len(t) - 1 /\ \A i \in DOMAIN Tail(t) : i + 1 \in DOMAIN t /\ Tail(t)[i] = t[i + 1]
  OBVIOUS
<1>2. PutLast(t) => PutLast(Tail(t))
  BY <1>1 DEF PutLast
<1>3. \A S : t \in Seq(S) => Tail(t) \in Seq(S)
  OBVIOUS
<1>. QED
  BY <1>2, <1>3 DEF BeforePipeline, AfterPipeline

(* What is left of a job is as well formed.                                *)
LEMMA RestShaped ==
    ASSUME PInv, Turns, NEW p \in Procs, NEW s, At(p, s), NEW e,
           e.status = job[p].env.status \/ (p # Consumer /\ e.status \notin Ended)
    PROVE  Shaped(p, [job[p] EXCEPT !.env = e, !.steps = Rest(p)])
<1>. DEFINE j == [job[p] EXCEPT !.env = e, !.steps = Rest(p)]
            t == job[p].steps
<1>1. /\ job[p] \in JobType /\ t # <<>> /\ t \in Seq(Steps) /\ Shaped(p, job[p])
  BY AtFacts DEF Turns, Holds, Active
<1>2. j.steps = Tail(t) /\ j.op = job[p].op /\ j.env = e
  BY <1>1 DEF JobType, Rest
<1>. HIDE DEF j
<1>3. Len(Tail(t)) = Len(t) - 1 /\ \A i \in DOMAIN Tail(t) : i + 1 \in DOMAIN t /\ Tail(t)[i] = t[i + 1]
  BY <1>1
<1>4. ASSUME p = Consumer PROVE Shaped(p, j)
  BY <1>1, <1>2, <1>4, Tails, ProcFacts DEF Shaped
<1>5. ASSUME p = Cron PROVE Shaped(p, j)
  BY <1>1, <1>2, <1>3, <1>5, ProcFacts DEF Shaped
<1>6. ASSUME p \in Reviewers PROVE Shaped(p, j)
  BY <1>1, <1>2, <1>6, Tails, ProcFacts DEF Shaped
<1>7. Shaped(p, j)
  BY <1>4, <1>5, <1>6, ProcFacts
<1>. QED
  BY <1>7 DEF j

(* The steps that only strike off an await.                                *)
LEMMA TurnOn ==
    ASSUME PInv, Turns, NEW p \in Procs, NEW s, At(p, s), NEW e, e.run = job[p].env.run,
           e.status = job[p].env.status \/ (p # Consumer /\ e.status \notin Ended),
           Go(p, e, Rest(p)), Calm, UNCHANGED <<runs, phase, work>>
    PROVE  Turns'
BY RestShaped, TurnGo

LEMMA CalmWhenSame == row' = row => Calm
BY DEF Calm

LEMMA TurnSimple ==
    ASSUME PInv, Turns, NEW p \in Procs,
           \/ StampNode(p) \/ StampArtifact(p) \/ MarkVerified(p) \/ CheckDeps(p)
           \/ BumpHits(p) \/ SeedArtifact(p) \/ GuardForm(p)
    PROVE  Turns'
<1>1. row' = row /\ UNCHANGED <<runs, phase, work>>
  BY DEF StampNode, StampArtifact, MarkVerified, CheckDeps, BumpHits, SeedArtifact, GuardForm,
         cycle, still, stores
<1>2. PICK s \in Steps : At(p, s) /\ (Go(p, job[p].env, Rest(p)) \/ Quit(p))
  BY DEF StampNode, StampArtifact, MarkVerified, CheckDeps, BumpHits, SeedArtifact, GuardForm, Steps
<1>3. Calm /\ Active(p)
  BY <1>1, <1>2, CalmWhenSame DEF At, Active
<1>. QED
  BY <1>1, <1>2, <1>3, TurnOn, TurnQuit

LEMMA TurnSupersede ==
    ASSUME PInv, Turns, NEW p \in Procs, Supersede(p)
    PROVE  Turns'
<1>1. /\ At(p, "supersede") /\ Go(p, job[p].env, Rest(p)) /\ UNCHANGED <<runs, phase, work>>
      /\ row' = [row EXCEPT ![job[p].cand] = NoRow]
  BY DEF Supersede, cycle, still
<1>2. Calm
  BY <1>1 DEF Calm, PInv, Typed
<1>. QED
  BY <1>1, <1>2, TurnOn

(* A list of awaits that the consumer never has, and without a put.        *)
LEMMA ShortShaped ==
    ASSUME PInv, Turns, NEW p \in Writers, Active(p), NEW e \in Envelope,
           NEW rest \in {<<"count">>, <<"stamp">>, <<"node">>},
           e.status \notin Ended \/ e.status = job[p].env.status
    PROVE  Shaped(p, [job[p] EXCEPT !.env = e, !.steps = rest])
<1>. DEFINE j == [job[p] EXCEPT !.env = e, !.steps = rest]
<1>1. job[p] \in JobType /\ Shaped(p, job[p]) /\ p # Consumer
  BY ProcFacts DEF PInv, Typed, Turns, Holds
<1>2. j.steps = rest /\ j.op = job[p].op /\ j.env = e
  BY <1>1 DEF JobType
<1>3. \A i \in DOMAIN rest : rest[i] # "pipeline" /\ rest[i] # "put"
  OBVIOUS
<1>. HIDE DEF j
<1>4. Shaped(p, j)
  BY <1>1, <1>2, <1>3, ProcFacts DEF Shaped, PutLast
<1>. QED
  BY <1>4 DEF j

LEMMA NotConsumer ==
    ASSUME PInv, Turns, NEW p \in Procs, NEW s, At(p, s),
           s \notin {"supersede", "put", "pipeline", "seed", "bump"}
    PROVE  p \in Writers /\ p # Consumer /\ Active(p) /\ Shaped(p, job[p])
BY ConsumerHeads, ProcFacts DEF Turns, Holds, Active, At

LEMMA TurnStampDrift ==
    ASSUME PInv, Turns, NEW p \in Procs, StampDrift(p)
    PROVE  Turns'
<1>. DEFINE j == job[p]
            stamped == IF row[j.cand].status = "none" THEN row
                       ELSE [row EXCEPT ![j.cand].drift = j.env.drift]
<1>1. At(p, "stamp") /\ UNCHANGED <<runs, phase, work>> /\ row' \in {row, stamped}
      /\ (Go(p, j.env, <<"count">>) \/ Quit(p))
  BY DEF StampDrift, cycle, still
<1>2. j.env \in Envelope /\ j.cand \in Cands
  BY <1>1, AtFacts
<1>3. \A c \in Cands : stamped[c].run = row[c].run /\ stamped[c].status = row[c].status
  <2>1. \A c \in Cands : row[c] \in Envelope
    BY DEF PInv, Typed
  <2>2. row \in [Cands -> Envelope]
    BY DEF PInv, Typed
  <2>3. ASSUME NEW c \in Cands
        PROVE  [row[c] EXCEPT !.drift = j.env.drift].run = row[c].run
               /\ [row[c] EXCEPT !.drift = j.env.drift].status = row[c].status
    BY <2>1 DEF Envelope
  <2>. QED
    BY <1>2, <2>2, <2>3
<1>4. Calm
  BY <1>1, <1>3 DEF Calm
<1>5. p \in Writers /\ Active(p)
  BY <1>1, NotConsumer
<1>6. ASSUME Go(p, j.env, <<"count">>) PROVE Turns'
  <2>1. Shaped(p, [job[p] EXCEPT !.env = j.env, !.steps = <<"count">>])
    BY <1>2, <1>5, ShortShaped
  <2>. QED
    BY <1>1, <1>4, <1>6, <2>1, TurnGo
<1>. QED
  BY <1>1, <1>4, <1>5, <1>6, TurnQuit

LEMMA TurnReplayAdvance ==
    ASSUME PInv, Turns, NEW p \in Procs, ReplayAdvance(p)
    PROVE  Turns'
<1>. DEFINE e == job[p].env
<1>1. At(p, "replay") /\ UNCHANGED <<runs, phase, work>> /\ row' = row
  BY DEF ReplayAdvance, cycle, still, stores
<1>2. e \in Envelope /\ p \in Writers /\ Active(p) /\ Calm
  BY <1>1, AtFacts, NotConsumer, CalmWhenSame
<1>3. CASE Go(p, e, <<"count">>)
  BY <1>1, <1>2, <1>3, ShortShaped, TurnGo
<1>4. CASE Quit(p)
  BY <1>1, <1>2, <1>4, TurnQuit
<1>5. ASSUME NEW passed \in BOOLEAN, Go(p, Probed(e, passed), <<"stamp">>)
      PROVE  Turns'
  <2>1. Probed(e, passed) \in Envelope /\ Probed(e, passed).status = e.status
        /\ Probed(e, passed).run = e.run
    BY <1>2 DEF Probed, Envelope
  <2>2. Shaped(p, [job[p] EXCEPT !.env = Probed(e, passed), !.steps = <<"stamp">>])
    BY <1>2, <2>1, ShortShaped
  <2>. QED
    BY <1>1, <1>2, <1>5, <2>1, <2>2, TurnGo
<1>. QED
  BY <1>3, <1>4, <1>5 DEF ReplayAdvance

(* The cron never puts a final word.                                       *)
LEMMA CronShaped ==
    ASSUME PInv, Turns, Active(Cron), NEW e \in Envelope, e.status \notin Ended, NEW rest,
           \A i \in DOMAIN rest : rest[i] # "pipeline"
    PROVE  Shaped(Cron, [job[Cron] EXCEPT !.env = e, !.steps = rest])
<1>. DEFINE j == [job[Cron] EXCEPT !.env = e, !.steps = rest]
<1>1. job[Cron] \in JobType /\ Shaped(Cron, job[Cron])
  BY DEF PInv, Typed, Turns, Holds, Procs
<1>2. j.steps = rest /\ j.op = job[Cron].op /\ j.env = e
  BY <1>1 DEF JobType
<1>. HIDE DEF j
<1>3. Shaped(Cron, j)
  BY <1>1, <1>2, ProcFacts DEF Shaped
<1>. QED
  BY <1>3 DEF j

LEMMA TurnReplayRecheck ==
    ASSUME PInv, Turns, NEW p \in Procs, ReplayRecheck(p)
    PROVE  Turns'
<1>. DEFINE e == job[p].env
<1>1. /\ At(p, "replay") /\ job[p].op = "recheck" /\ UNCHANGED <<runs, phase, work>>
      /\ row' = row
  BY DEF ReplayRecheck, cycle, still, stores
<1>2. e \in Envelope /\ p \in Writers /\ Active(p) /\ Calm /\ Shaped(p, job[p])
  BY <1>1, AtFacts, NotConsumer, CalmWhenSame
<1>3. p = Cron
  BY <1>1, <1>2, ProcFacts DEF Shaped
<1>4. e.status \notin Ended
  BY <1>2, <1>3 DEF Shaped
<1>5. CASE Go(p, e, <<"node">>)
  BY <1>1, <1>2, <1>4, <1>5, ShortShaped, TurnGo
<1>6. CASE Go(p, Probed(e, TRUE), <<"put", "node">>)
  <2>1. Probed(e, TRUE) \in Envelope /\ Probed(e, TRUE).status = e.status
        /\ Probed(e, TRUE).run = e.run
    BY <1>2 DEF Probed, Envelope
  <2>2. \A i \in DOMAIN <<"put", "node">> : <<"put", "node">>[i] # "pipeline"
    OBVIOUS
  <2>3. Shaped(p, [job[p] EXCEPT !.env = Probed(e, TRUE), !.steps = <<"put", "node">>])
    BY <1>2, <1>3, <1>4, <2>1, <2>2, CronShaped
  <2>. QED
    BY <1>1, <1>2, <1>6, <2>1, <2>3, TurnGo
<1>7. CASE Go(p, [Probed(e, FALSE) EXCEPT !.status = "candidate"], <<"node", "put">>)
  <2>. DEFINE f == [Probed(e, FALSE) EXCEPT !.status = "candidate"]
  <2>1. f \in Envelope /\ f.status \notin Ended /\ f.run = e.run
    BY <1>2 DEF Probed, Envelope, Statuses, Ended
  <2>2. \A i \in DOMAIN <<"node", "put">> : <<"node", "put">>[i] # "pipeline"
    OBVIOUS
  <2>. HIDE DEF f
  <2>3. Shaped(p, [job[p] EXCEPT !.env = f, !.steps = <<"node", "put">>])
    BY <1>2, <1>3, <2>1, <2>2, CronShaped
  <2>. USE DEF f
  <2>. QED
    BY <1>1, <1>2, <1>7, <2>1, <2>3, TurnGo
<1>. QED
  BY <1>5, <1>6, <1>7 DEF ReplayRecheck

LEMMA TurnReplayApprove ==
    ASSUME PInv, Turns, NEW p \in Procs, ReplayApprove(p)
    PROVE  Turns'
<1>. DEFINE f == Probed(job[p].env, TRUE)
<1>1. /\ At(p, "replay") /\ UNCHANGED <<runs, phase, work>> /\ row' = row
      /\ (Go(p, f, Rest(p)) \/ Quit(p))
  BY DEF ReplayApprove, cycle, still, stores
<1>2. job[p].env \in Envelope /\ p \in Writers /\ Active(p) /\ Calm
  BY <1>1, AtFacts, NotConsumer, CalmWhenSame
<1>3. f.status = job[p].env.status /\ f.run = job[p].env.run
  BY <1>2 DEF Probed, Envelope
<1>. QED
  BY <1>1, <1>2, <1>3, TurnOn, TurnQuit

LEMMA TurnCountHits ==
    ASSUME PInv, Turns, NEW p \in Procs, CountHits(p)
    PROVE  Turns'
<1>. DEFINE f == [job[p].env EXCEPT !.status = "in_review"]
            t == <<"node", "put">>
<1>1. /\ At(p, "count") /\ UNCHANGED <<runs, phase, work>> /\ row' = row
      /\ (Go(p, f, t) \/ Quit(p))
  BY DEF CountHits, cycle, still, stores
<1>2. job[p].env \in Envelope /\ p \in Writers /\ Active(p) /\ Calm /\ Shaped(p, job[p])
      /\ job[p] \in JobType
  BY <1>1, AtFacts, NotConsumer, CalmWhenSame
<1>3. f \in Envelope /\ f.status = "in_review" /\ f.run = job[p].env.run
  BY <1>2 DEF Envelope, Statuses
<1>4. \A i \in DOMAIN t : t[i] # "pipeline"
  OBVIOUS
<1>. HIDE DEF f
<1>5. p = Cron => Shaped(p, [job[p] EXCEPT !.env = f, !.steps = t])
  BY <1>2, <1>3, <1>4, CronShaped DEF Ended
<1>6. p \in Reviewers => Shaped(p, [job[p] EXCEPT !.env = f, !.steps = t])
  BY <1>2, <1>3, ProcFacts DEF Shaped, JobType, Ended
<1>7. Shaped(p, [job[p] EXCEPT !.env = f, !.steps = t])
  BY <1>2, <1>5, <1>6, ProcFacts
<1>. HIDE DEF t
<1>. QED
  BY <1>1, <1>2, <1>3, <1>7, TurnGo, TurnQuit

LEMMA TurnLand ==
    ASSUME PInv, Turns, NEW p \in Procs, Land(p)
    PROVE  Turns'
<1>. DEFINE f == [job[p].env EXCEPT !.status = "validated", !.verified = TRUE]
<1>1. /\ At(p, "land") /\ UNCHANGED <<runs, phase, work>> /\ row' = row
      /\ (Go(p, f, Rest(p)) \/ Quit(p))
  BY DEF Land, cycle, still
<1>2. job[p].env \in Envelope /\ p \in Writers /\ p # Consumer /\ Active(p) /\ Calm
  BY <1>1, AtFacts, NotConsumer, CalmWhenSame
<1>3. f.status = "validated" /\ f.run = job[p].env.run
  BY <1>2 DEF Envelope
<1>4. f.status \notin Ended
  BY <1>3 DEF Ended
<1>. HIDE DEF f
<1>. QED
  BY <1>1, <1>2, <1>3, <1>4, TurnOn, TurnQuit

LEMMA ScannedFacts ==
    ASSUME NEW c, NEW e \in Envelope, NEW f \in Scanned(c, e)
    PROVE  f \in Envelope /\ f.run = e.run /\ f.status = e.status
<1>1. CASE kind[c] = "schema"
  BY <1>1 DEF Scanned
<1>2. CASE kind[c] # "schema"
  <2>1. PICK v \in {<<"plain", "pass">>, <<"entity", "found">>, <<"entity", "blind">>} :
          f = [e EXCEPT !.text = v[1], !.scan = v[2]]
    BY <1>2 DEF Scanned
  <2>2. v[1] \in {"plain", "entity"} /\ v[2] \in {"pass", "found", "blind"}
    BY <2>1
  <2>. QED
    BY <2>1, <2>2 DEF Envelope
<1>. QED
  BY <1>1, <1>2

LEMMA GeneralizedFacts ==
    ASSUME NEW c, NEW e \in Envelope, NEW f \in Generalized(c, e)
    PROVE  f \in Envelope /\ f.run = e.run /\ f.status = e.status
<1>1. CASE IsBlueprint(c)
  <2>1. PICK g \in [static : BOOLEAN, key : Keys \cup {NoKey}] :
          f = [e EXCEPT !.static = g.static, !.key = g.key]
    BY <1>1 DEF Generalized
  <2>. QED
    BY <2>1 DEF Envelope
<1>2. CASE ~IsBlueprint(c)
  BY <1>2 DEF Generalized
<1>. QED
  BY <1>1, <1>2

(* What follows the pipeline has one put, at its end.                      *)
LEMMA PutLastLists ==
    /\ PutLast(<<"put">>) /\ PutLast(<<"guard", "put">>) /\ PutLast(<<>>)
    /\ \A s \in {"bump", "seed"}, t \in Seq(Steps) :
         t # <<>> /\ PutLast(t) => PutLast(<<s>> \o t)
    /\ PutLast(<<"bump">> \o <<>>)
<1>1. ASSUME NEW s \in {"bump", "seed"}, NEW t \in Seq(Steps), t # <<>>, PutLast(t)
      PROVE  PutLast(<<s>> \o t)
  <2>1. Len(<<s>> \o t) = Len(t) + 1
        /\ \A i \in DOMAIN (<<s>> \o t) : (<<s>> \o t)[i] = IF i = 1 THEN s ELSE t[i - 1]
    OBVIOUS
  <2>2. \A i \in DOMAIN (<<s>> \o t) : i = 1 \/ i - 1 \in DOMAIN t
    OBVIOUS
  <2>. QED
    BY <1>1, <2>1, <2>2 DEF PutLast
<1>2. PutLast(<<"put">>) /\ PutLast(<<"guard", "put">>) /\ PutLast(<<>>)
  BY DEF PutLast
<1>3. <<"bump">> \o <<>> = <<"bump">>
  OBVIOUS
<1>4. PutLast(<<"bump">>)
  BY DEF PutLast
<1>. QED
  BY <1>1, <1>2, <1>3, <1>4

LEMMA PipelineShaped ==
    ASSUME PInv, Turns, NEW p \in Procs, At(p, "pipeline"), NEW e, NEW t, PutLast(t),
           p = Consumer => t \in AfterPipeline
    PROVE  Shaped(p, [job[p] EXCEPT !.env = e, !.steps = t])
<1>. DEFINE j == [job[p] EXCEPT !.env = e, !.steps = t]
<1>1. job[p] \in JobType /\ Shaped(p, job[p]) /\ Head(job[p].steps) = "pipeline"
      /\ job[p].steps \in Seq(Steps) /\ job[p].steps # <<>>
  BY AtFacts DEF Turns, Holds, Active
<1>2. j.steps = t /\ j.op = job[p].op /\ j.env = e
  BY <1>1 DEF JobType
<1>3. p # Cron
  BY <1>1 DEF Shaped
<1>. HIDE DEF j
<1>5. Shaped(p, j)
  BY <1>1, <1>2, <1>3, ProcFacts DEF Shaped
<1>. QED
  BY <1>5 DEF j

LEMMA TurnRunPipeline ==
    ASSUME PInv, Turns, NEW p \in Procs, RunPipeline(p)
    PROVE  Turns'
<1>. DEFINE c == job[p].cand
            Fine(t) == PutLast(t) /\ (p = Consumer => t \in AfterPipeline)
<1>1. At(p, "pipeline") /\ UNCHANGED <<runs, phase, work>> /\ row' = row
  BY DEF RunPipeline, cycle, still, stores
<1>2. job[p].env \in Envelope /\ Active(p) /\ Calm /\ Shaped(p, job[p])
  BY <1>1, AtFacts, CalmWhenSame DEF Turns, Holds, Active
<1>3. p = Consumer => job[p].op = "extract"
  BY <1>2 DEF Shaped
<1>4. PICK g \in Generalized(c, job[p].env) : \E e \in Scanned(c, g) :
             \/ Go(p, e, <<"bump">> \o Dropped(p))
             \/ \E s \in Routes(c, e, "insert") :
                     Go(p, [e EXCEPT !.status = s],
                        (IF e.key = NoKey THEN <<>> ELSE <<"seed">>) \o Persist(p))
             \/ \E s \in Routes(c, e, "merge") : Go(p, [e EXCEPT !.status = s], Persist(p))
             \/ Go(p, e, Dropped(p))
  BY DEF RunPipeline
<1>5. PICK e \in Scanned(c, g) :
             \/ Go(p, e, <<"bump">> \o Dropped(p))
             \/ \E s \in Routes(c, e, "insert") :
                     Go(p, [e EXCEPT !.status = s],
                        (IF e.key = NoKey THEN <<>> ELSE <<"seed">>) \o Persist(p))
             \/ \E s \in Routes(c, e, "merge") : Go(p, [e EXCEPT !.status = s], Persist(p))
             \/ Go(p, e, Dropped(p))
  BY <1>4
<1>6. e \in Envelope /\ e.run = job[p].env.run
  BY <1>2, <1>4, <1>5, GeneralizedFacts, ScannedFacts
<1>7. \A s : [e EXCEPT !.status = s].run = job[p].env.run
  BY <1>6 DEF Envelope
<1>8. /\ Persist(p) \in Seq(Steps) /\ Persist(p) # <<>> /\ Fine(Persist(p))
      /\ <<>> \o Persist(p) = Persist(p)
  <2>1. CASE job[p].op = "complete"
    BY <1>3, <2>1, PutLastLists DEF Persist, Steps
  <2>2. CASE job[p].op # "complete"
    BY <2>2, PutLastLists DEF Persist, Steps, AfterPipeline
  <2>. QED
    BY <2>1, <2>2
<1>9. /\ PutLast(Dropped(p)) /\ Dropped(p) \in Seq(Steps)
      /\ p = Consumer => Dropped(p) = <<>>
      /\ Dropped(p) = <<>> \/ PutLast(<<"bump">> \o Dropped(p))
  <2>1. CASE job[p].op = "complete"
    <3>1. Dropped(p) = <<"guard", "put">> /\ p # Consumer
      BY <1>3, <2>1 DEF Dropped
    <3>2. <<"guard", "put">> \in Seq(Steps) /\ <<"guard", "put">> # <<>>
      BY DEF Steps
    <3>. QED
      BY <3>1, <3>2, PutLastLists
  <2>2. CASE job[p].op # "complete"
    BY <2>2, PutLastLists DEF Dropped, Steps
  <2>. QED
    BY <2>1, <2>2
<1>10. <<"bump">> \o <<>> = <<"bump">>
  OBVIOUS
<1>11. Fine(<<"bump">> \o Dropped(p)) /\ Fine(Dropped(p))
  <2>1. <<"bump">> \in AfterPipeline /\ <<>> \in AfterPipeline
    BY DEF AfterPipeline
  <2>2. PutLast(<<"bump">> \o Dropped(p))
    BY <1>9, PutLastLists
  <2>. QED
    BY <1>9, <1>10, <2>1, <2>2
<1>12. Fine(<<"seed">> \o Persist(p))
  <2>1. PutLast(<<"seed">> \o Persist(p))
    BY <1>8, PutLastLists
  <2>2. p = Consumer => <<"seed">> \o Persist(p) \in AfterPipeline
    <3>1. \A t \in AfterPipeline : <<"seed">> \o t \in AfterPipeline
      BY DEF AfterPipeline
    <3>. QED
      BY <1>8, <3>1
  <2>. QED
    BY <2>1, <2>2
<1>13. ASSUME NEW f, f.run = job[p].env.run, NEW t, Fine(t), Go(p, f, t)
       PROVE  Turns'
  <2>1. Shaped(p, [job[p] EXCEPT !.env = f, !.steps = t])
    BY <1>1, <1>13, PipelineShaped
  <2>. QED
    BY <1>1, <1>2, <1>13, <2>1, TurnGo
<1>. HIDE DEF Fine
<1>14. ASSUME NEW s, Go(p, [e EXCEPT !.status = s],
                        (IF e.key = NoKey THEN <<>> ELSE <<"seed">>) \o Persist(p))
       PROVE  Turns'
  <2>1. CASE e.key = NoKey
    <3>1. Go(p, [e EXCEPT !.status = s], Persist(p))
      BY <1>8, <1>14, <2>1
    <3>. QED
      BY <1>7, <1>8, <1>13, <3>1
  <2>2. CASE e.key # NoKey
    <3>1. Go(p, [e EXCEPT !.status = s], <<"seed">> \o Persist(p))
      BY <1>14, <2>2
    <3>. QED
      BY <1>7, <1>12, <1>13, <3>1
  <2>. QED
    BY <2>1, <2>2
<1>15. ASSUME NEW s, Go(p, [e EXCEPT !.status = s], Persist(p))
       PROVE  Turns'
  BY <1>7, <1>8, <1>13, <1>15
<1>16. CASE Go(p, e, Dropped(p)) \/ Go(p, e, <<"bump">> \o Dropped(p))
  BY <1>6, <1>11, <1>13, <1>16
<1>. QED
  BY <1>5, <1>14, <1>15, <1>16

(* A put of a writer is not over a final word; only the consumer's own run *)
(* is newer than what is stored.                                           *)
LEMMA TurnPut ==
    ASSUME PInv, Turns, NEW p \in Procs, Put(p)
    PROVE  Turns' /\ \A c \in Cands : Stays(c)
<1>. DEFINE c == job[p].cand
            e == job[p].env
            stored == [row EXCEPT ![c] = e]
<1>1. /\ At(p, "put") /\ UNCHANGED <<runs, phase, work>>
      /\ \/ row' = stored /\ Go(p, e, Rest(p))
         \/ row' \in {row, stored} /\ Quit(p)
  BY DEF Put, cycle, still
<1>2. /\ c \in Cands /\ e \in Envelope /\ Active(p) /\ Holds(p) /\ job[p] \in JobType
      /\ job[p].steps \in Seq(Steps) /\ Head(job[p].steps) = "put" /\ e.run # 0
  BY <1>1, AtFacts DEF Turns, Active, Fit
<1>3. row \in [Cands -> Envelope] /\ job \in [Procs -> JobType]
  BY DEF PInv, Typed
<1>4. ASSUME row' = row, Quit(p)
      PROVE  Turns' /\ \A d \in Cands : Stays(d)
  <2>1. Turns'
    BY <1>1, <1>2, <1>4, CalmWhenSame, TurnQuit
  <2>. QED
    BY <1>4, <2>1 DEF Stays
<1>5. ASSUME row' = stored, Go(p, e, Rest(p)) \/ Quit(p)
      PROVE  Turns' /\ \A d \in Cands : Stays(d)
  <2>. DEFINE j == IF Quit(p) \/ Rest(p) = <<>> THEN Idle ELSE [job[p] EXCEPT !.env = e, !.steps = Rest(p)]
  <2>1. row'[c] = e /\ \A d \in Cands \ {c} : row'[d] = row[d]
    BY <1>2, <1>3, <1>5
  <2>2. job' = [job EXCEPT ![p] = j]
    BY <1>5 DEF Go, Quit
  <2>3. /\ j.steps # <<>> => j.cand = c /\ j.env = e /\ j.steps = Rest(p) /\ Shaped(p, j)
    BY <1>1, <1>2, RestShaped, Nothing DEF JobType
  <2>4. job'[p] = j /\ \A q \in Procs \ {p} : job'[q] = job[q]
    BY <1>3, <2>2
  <2>5. \A q \in Procs : job'[q].steps # <<>> =>
          Active(q) /\ job'[q].cand = job[q].cand /\ job'[q].env = job[q].env /\ Shaped(q, job'[q])
    BY <1>2, <2>3, <2>4 DEF Active, Turns, Holds
  <2>. HIDE DEF j
  <2>6. TakeTurns'
    BY <1>1, <2>5, ProcFacts DEF TakeTurns, Turns, Active
  <2>7. \A d \in Cands : Known(d, row[d])'
    BY <1>1, <1>2, <2>1 DEF Known, Holds, Turns
  <2>8. CASE p = Consumer
    <3>1. Unseen(c, e) /\ Shaped(p, job[p])
      BY <1>2, <2>8 DEF Holds
    <3>2. Stays(c)
      BY <2>1, <3>1 DEF Stays, Unseen, Ended
    <3>3. \A d \in Cands : Stays(d)
      BY <2>1, <3>2 DEF Stays
    <3>4. \A w \in work : Open(w.cand, w.env)'
      BY <1>1, <2>1, <3>1, RunFacts DEF Open, Unseen, Turns
    <3>5. ASSUME NEW q \in Writers, job'[q].steps # <<>>
          PROVE  Open(job[q].cand, job[q].env)'
      <4>1. /\ Active(q) /\ job'[q].cand = job[q].cand /\ job'[q].env = job[q].env
            /\ job[q].cand \in Cands /\ Open(job[q].cand, job[q].env)
        BY <2>5, <3>5, ProcFacts, RunFacts DEF Turns, Holds
      <4>2. job[q].cand = c => job[q].env.run # e.run
        BY <3>1, <4>1 DEF Unseen
      <4>. QED
        BY <2>1, <4>1, <4>2 DEF Open
    <3>6. j.steps # <<>> => e.status = "extracted"
      <4>1. CASE PutLast(job[p].steps)
        <5>1. Rest(p) = <<>>
          BY <1>2, <4>1 DEF PutLast, Rest
        <5>. QED
          BY <5>1, Nothing DEF j
      <4>. QED
        BY <2>8, <3>1, <4>1 DEF Shaped
    <3>7. ASSUME j.steps # <<>> PROVE Unseen(job[p].cand, job[p].env)'
      <4>1. job'[p].cand = c /\ job'[p].env = e
        BY <2>3, <2>4, <3>7
      <4>2. row'[c].run = e.run => row'[c].status = "extracted"
        BY <2>1, <3>6, <3>7
      <4>3. \A q \in Writers : job'[q].steps # <<>> /\ job'[q].cand = c => job'[q].env.run # e.run
        BY <2>5, <3>1, ProcFacts DEF Unseen
      <4>4. \A w \in work' : w.cand = c => w.env.run # e.run
        BY <1>1, <3>1 DEF Unseen
      <4>. QED
        BY <4>1, <4>2, <4>3, <4>4 DEF Unseen, Active
    <3>8. ASSUME NEW q \in Procs, job'[q].steps # <<>>
          PROVE  Holds(q)'
      <4>1. /\ Active(q) /\ job'[q].cand = job[q].cand /\ job'[q].env = job[q].env
            /\ Shaped(q, job'[q])
        BY <2>5, <3>8
      <4>2. Known(job[q].cand, job[q].env)'
        BY <1>1, <4>1 DEF Known, Turns, Holds
      <4>3. CASE q = Consumer
        BY <2>4, <2>8, <3>7, <3>8, <4>1, <4>2, <4>3 DEF Holds
      <4>4. CASE q # Consumer
        BY <3>5, <3>8, <4>1, <4>2, <4>4, ProcFacts DEF Holds
      <4>. QED
        BY <4>3, <4>4
    <3>9. Turns'
      BY <1>1, <2>6, <2>7, <3>4, <3>8 DEF Turns, Active, Known
    <3>. QED
      BY <3>3, <3>9
  <2>9. CASE p # Consumer
    <3>1. Open(c, e) /\ Shaped(p, job[p]) /\ p \in Writers
      BY <1>2, <2>9, ProcFacts DEF Holds
    <3>2. \A d \in Cands : Stays(d)
      BY <2>1, <3>1 DEF Stays, Open
    <3>3. p \in Reviewers => work = {} /\ ~Active(Cron) /\ \A q \in Reviewers \ {p} : ~Active(q)
      BY <1>2 DEF Turns, TakeTurns
    <3>4. p = Cron => e.status \notin Ended /\ \A q \in Reviewers : ~Active(q)
      BY <1>2, <3>1 DEF Turns, TakeTurns, Shaped
    <3>5. p \in Reviewers /\ j.steps # <<>> => e.status \notin Ended
      <4>1. CASE PutLast(job[p].steps)
        <5>1. Rest(p) = <<>>
          BY <1>2, <4>1 DEF PutLast, Rest
        <5>. QED
          BY <5>1, Nothing DEF j
      <4>. QED
        BY <3>1, <4>1 DEF Shaped
    <3>6. \A w \in work : Open(w.cand, w.env)'
      BY <2>1, <3>1, <3>3, <3>4, ProcFacts, RunFacts DEF Open, Turns
    <3>7. \A q \in Writers : job'[q].steps # <<>> => Open(job[q].cand, job[q].env)'
      BY <2>1, <2>4, <2>5, <3>1, <3>3, <3>4, <3>5, ProcFacts, RunFacts DEF Open, Turns, Holds
    <3>8. ASSUME Active(Consumer)
          PROVE  Unseen(job[Consumer].cand, job[Consumer].env)'
      <4>1. Unseen(job[Consumer].cand, job[Consumer].env) /\ job[Consumer].cand \in Cands
        BY <3>8, ProcFacts, RunFacts DEF Turns, Holds
      <4>2. job'[Consumer] = job[Consumer]
        BY <2>4, <2>9, ProcFacts
      <4>3. row'[job[Consumer].cand].run = job[Consumer].env.run =>
              row'[job[Consumer].cand].status = "extracted"
        BY <1>2, <2>1, <3>1, <4>1 DEF Unseen
      <4>. QED
        BY <1>1, <2>5, <4>1, <4>2, <4>3, ProcFacts DEF Unseen, Active
    <3>9. ASSUME NEW q \in Procs, job'[q].steps # <<>>
          PROVE  Holds(q)'
      <4>1. /\ Active(q) /\ job'[q].cand = job[q].cand /\ job'[q].env = job[q].env
            /\ Shaped(q, job'[q])
        BY <2>5, <3>9
      <4>2. Known(job[q].cand, job[q].env)'
        BY <1>1, <4>1 DEF Known, Turns, Holds
      <4>3. CASE q = Consumer
        BY <3>8, <4>1, <4>2, <4>3 DEF Holds
      <4>4. CASE q # Consumer
        BY <3>7, <3>9, <4>1, <4>2, <4>4, ProcFacts DEF Holds
      <4>. QED
        BY <4>3, <4>4
    <3>10. Turns'
      BY <1>1, <2>6, <2>7, <3>6, <3>9 DEF Turns, Active, Known
    <3>. QED
      BY <3>2, <3>10
  <2>. QED
    BY <2>8, <2>9
<1>. QED
  BY <1>1, <1>4, <1>5

(* A writer begins or reads again: what it holds is a row that is stored.  *)
LEMMA TurnJob ==
    ASSUME PInv, Turns, NEW p \in Writers, NEW j, job' = [job EXCEPT ![p] = j],
           j.cand \in Cands, Known(j.cand, j.env), Open(j.cand, j.env), Shaped(p, j),
           Active(Consumer) /\ job[Consumer].cand = j.cand => job[Consumer].env.run # j.env.run,
           UNCHANGED <<row, runs>>, work' \subseteq work, TakeTurns'
    PROVE  Turns'
<1>1. job'[p] = j /\ \A q \in Procs \ {p} : job'[q] = job[q]
  BY ProcFacts DEF PInv, Typed
<1>2. ASSUME NEW q \in Procs, job'[q].steps # <<>>
      PROVE  Holds(q)'
  <2>1. CASE q = p
    BY <1>1, <2>1, ProcFacts DEF Holds, Known, Open
  <2>2. CASE q # p
    <3>1. job'[q] = job[q] /\ Active(q) /\ Holds(q)
      BY <1>1, <1>2, <2>2 DEF Active, Turns
    <3>2. Known(job[q].cand, job[q].env)' /\ (q # Consumer => Open(job[q].cand, job[q].env)')
      BY <3>1 DEF Holds, Known, Open
    <3>3. ASSUME q = Consumer PROVE Unseen(job[q].cand, job[q].env)'
      BY <1>1, <3>1, <3>3, ProcFacts DEF Holds, Unseen, Active
    <3>. QED
      BY <3>1, <3>2, <3>3 DEF Holds
  <2>. QED
    BY <2>1, <2>2
<1>. QED
  BY <1>2 DEF Turns, Known, Open, Active

(* What a writer reads with this status was not written by the run that    *)
(* the consumer has under way.                                             *)
LEMMA ReadFacts ==
    ASSUME PInv, Turns, NEW c \in Cands, row[c].status \notin {"extracted", "none"} \cup Ended,
           NEW e, e.run = row[c].run
    PROVE  /\ Known(c, e) /\ Open(c, e)
           /\ Active(Consumer) /\ job[Consumer].cand = c => job[Consumer].env.run # e.run
<1>1. Active(Consumer) => Unseen(job[Consumer].cand, job[Consumer].env)
  BY DEF Turns, Holds, Procs
<1>. QED
  BY <1>1 DEF Turns, Known, Open, Unseen

LEMMA StripRun ==
    ASSUME NEW e \in Envelope
    PROVE  Strip(e) \in Envelope /\ Strip(e).run = e.run /\ Strip(e).status = e.status
BY DEF Strip, Envelope

LEMMA TurnReget ==
    ASSUME PInv, Turns, NEW p \in Procs, Reget(p)
    PROVE  Turns'
<1>. DEFINE c == job[p].cand
            e == Strip(row[c])
            f == IF kind[c] = "schema"
                 THEN [e EXCEPT !.status = "validated", !.drift = "unchecked"]
                 ELSE IF kind[c] = "knowledge" THEN [e EXCEPT !.drift = "unchecked"] ELSE e
            t == ApproveSteps(c)
            j == [job[p] EXCEPT !.env = f, !.steps = t]
<1>1. /\ At(p, "reget") /\ UNCHANGED <<runs, phase, work, row>>
      /\ \/ MayApprove(c, row[c]) /\ Go(p, f, t)
         \/ Quit(p)
  BY DEF Reget, cycle, stores
<1>2. /\ c \in Cands /\ Active(p) /\ Fit(job[p], kind, approved) /\ job[p] \in JobType
      /\ job[p].steps # <<>> /\ job[p].steps \in Seq(Steps) /\ Head(job[p].steps) = "reget"
      /\ Shaped(p, job[p]) /\ p \in Writers /\ row[c] \in Envelope
  BY <1>1, AtFacts, NotConsumer DEF PInv, Typed
<1>3. job[p].op = "approve"
  <2>1. 1 \in DOMAIN job[p].steps /\ job[p].steps[1] = "reget"
    BY <1>2
  <2>. QED
    BY <1>2, <2>1 DEF Fit
<1>4. p \in Reviewers
  BY <1>2, <1>3, ProcFacts DEF Shaped
<1>5. CASE Quit(p)
  BY <1>1, <1>2, <1>5, CalmWhenSame, TurnQuit
<1>6. CASE MayApprove(c, row[c]) /\ Go(p, f, t)
  <2>1. t # <<>> /\ PutLast(t)
    BY DEF ApproveSteps, PutLast
  <2>2. f.run = row[c].run
    BY <1>2, StripRun DEF Envelope
  <2>3. j.op = "approve" /\ j.env = f /\ j.steps = t /\ j.cand = c
    BY <1>2, <1>3 DEF JobType
  <2>4. job' = [job EXCEPT ![p] = j]
    BY <1>6, <2>1 DEF Go
  <2>5. row[c].status = "in_review"
    BY <1>6 DEF MayApprove
  <2>. HIDE DEF f, t, j
  <2>6. Shaped(p, j)
    BY <1>4, <2>1, <2>3, ProcFacts DEF Shaped
  <2>7. /\ Known(c, f) /\ Open(c, f)
        /\ Active(Consumer) /\ job[Consumer].cand = c => job[Consumer].env.run # f.run
    BY <1>2, <2>2, <2>5, ReadFacts DEF Ended
  <2>8. TakeTurns'
    <3>1. \A q \in Procs \ {p} : job'[q] = job[q]
      BY <2>4 DEF PInv, Typed
    <3>. QED
      BY <1>1, <1>2, <1>4, <3>1, ProcFacts DEF TakeTurns, Turns, Active
  <2>9. work' \subseteq work
    BY <1>1
  <2>. QED
    BY <1>1, <1>2, <2>3, <2>4, <2>6, <2>7, <2>8, <2>9, TurnJob
<1>. QED
  BY <1>1, <1>5, <1>6

---------------------------------------------------------------------------
(* Requests and the cycle.                                                 *)

LEMMA TurnRequest ==
    ASSUME PInv, Turns, serial, NEW r \in Reviewers, NEW o, o \notin {"advance", "recheck"},
           NEW c \in Cands, row[c].status \notin {"extracted", "none"} \cup Ended,
           NEW e, e.run = row[c].run, NEW todo, todo # <<>>, e.status \in Ended => PutLast(todo),
           Request(r, o, c, e, todo)
    PROVE  Turns'
<1>. DEFINE j == [op |-> o, cand |-> c, env |-> e, steps |-> todo]
<1>1. /\ OthersIdle(r) /\ job[r].steps = <<>> /\ job' = [job EXCEPT ![r] = j]
      /\ UNCHANGED <<row, runs, work, phase>>
  BY DEF Request, Begin, stores, cycle
<1>2. j.op = o /\ j.env = e /\ j.steps = todo /\ j.cand = c
  OBVIOUS
<1>. HIDE DEF j
<1>3. Shaped(r, j)
  BY <1>2, ProcFacts DEF Shaped
<1>4. /\ phase = "idle" /\ \A q \in Procs \ {r, Consumer} : job[q].steps = <<>>
  BY <1>1, ProcFacts DEF OthersIdle
<1>5. \A q \in Procs \ {r} : job'[q] = job[q]
  BY <1>1 DEF PInv, Typed
<1>6. TakeTurns'
  BY <1>1, <1>4, <1>5, ProcFacts DEF TakeTurns, Turns, Active
<1>7. /\ Known(c, e) /\ Open(c, e)
      /\ Active(Consumer) /\ job[Consumer].cand = c => job[Consumer].env.run # e.run
  BY ReadFacts
<1>8. work' \subseteq work
  BY <1>1
<1>. QED
  BY <1>1, <1>2, <1>3, <1>6, <1>7, <1>8, ProcFacts, TurnJob

LEMMA TurnInbox ==
    ASSUME PInv, Turns, serial, NEW r \in Reviewers, NEW c \in Cands, InboxRequest(r, c)
    PROVE  Turns'
<1>0. row[c] \in Envelope
  BY DEF PInv, Typed
<1>. DEFINE Read == row[c].status \notin {"extracted", "none"} \cup Ended
<1>1. CASE Approve(r, c)
  <2>1. Read /\ Request(r, "approve", c, row[c], <<"reget">>) /\ PutLast(<<"reget">>)
    BY <1>1 DEF Approve, Ended, PutLast
  <2>2. row[c].run = row[c].run /\ <<"reget">> # <<>> /\ "approve" \notin {"advance", "recheck"}
    OBVIOUS
  <2>. QED
    BY <2>1, <2>2, TurnRequest
<1>2. CASE Reject(r, c) \/ Retract(r, c)
  <2>1. PICK o \in {"reject", "retract"}, x \in {"rejected", "retired"} :
          Request(r, o, c, [row[c] EXCEPT !.status = x], <<"node", "art", "put">>)
    BY <1>2 DEF Reject, Retract
  <2>2. Read
    BY <1>2 DEF Reject, Retract, Ended
  <2>3. PutLast(<<"node", "art", "put">>) /\ <<"node", "art", "put">> # <<>>
    BY DEF PutLast
  <2>4. [row[c] EXCEPT !.status = x].run = row[c].run
    BY <1>0 DEF Envelope
  <2>5. o \notin {"advance", "recheck"}
    OBVIOUS
  <2>. QED
    BY <2>1, <2>2, <2>3, <2>4, <2>5, TurnRequest
<1>3. CASE Verify(r, c)
  <2>1. /\ Read /\ Request(r, "verify", c, [row[c] EXCEPT !.verified = TRUE], <<"mark", "put">>)
    BY <1>3 DEF Verify, Ended
  <2>2. PutLast(<<"mark", "put">>) /\ <<"mark", "put">> # <<>>
    BY DEF PutLast
  <2>3. [row[c] EXCEPT !.verified = TRUE].run = row[c].run
    BY <1>0 DEF Envelope
  <2>4. "verify" \notin {"advance", "recheck"}
    OBVIOUS
  <2>. QED
    BY <2>1, <2>2, <2>3, <2>4, TurnRequest
<1>4. CASE Promote(r, c)
  <2>1. /\ Read /\ Request(r, "promote", c, [row[c] EXCEPT !.status = "promoted"], <<"put">>)
    BY <1>4 DEF Promote, Ended
  <2>2. PutLast(<<"put">>) /\ <<"put">> # <<>>
    BY DEF PutLast
  <2>3. [row[c] EXCEPT !.status = "promoted"].run = row[c].run
    BY <1>0 DEF Envelope
  <2>4. "promote" \notin {"advance", "recheck"}
    OBVIOUS
  <2>. QED
    BY <2>1, <2>2, <2>3, <2>4, TurnRequest
<1>5. CASE Correct(r, c)
  <2>. DEFINE e == [row[c] EXCEPT !.status = "candidate", !.drift = "corrected"]
  <2>1. Read /\ Request(r, "correct", c, e, <<"node", "put">>)
    BY <1>5 DEF Correct, Ended
  <2>2. PutLast(<<"node", "put">>) /\ <<"node", "put">> # <<>>
    BY DEF PutLast
  <2>3. e.run = row[c].run
    BY <1>0 DEF Envelope
  <2>4. "correct" \notin {"advance", "recheck"}
    OBVIOUS
  <2>. HIDE DEF e
  <2>. QED
    BY <2>1, <2>2, <2>3, <2>4, TurnRequest
<1>6. CASE Complete(r, c)
  <2>1. ASSUME NEW e, e.run = row[c].run, NEW todo \in {<<"guard", "put">>, <<"pipeline">>},
               Request(r, "complete", c, e, todo)
        PROVE  Turns'
    <3>1. Read
      BY <1>6 DEF Complete, Ended
    <3>2. PutLast(<<"guard", "put">>) /\ PutLast(<<"pipeline">>)
      BY DEF PutLast
    <3>3. PutLast(todo) /\ todo # <<>> /\ "complete" \notin {"advance", "recheck"}
      BY <3>2
    <3>. QED
      BY <2>1, <3>1, <3>3, TurnRequest
  <2>2. CASE Request(r, "complete", c, [row[c] EXCEPT !.status = "extracted", !.scan = "pending"],
                     <<"pipeline">>)
    <3>1. [row[c] EXCEPT !.status = "extracted", !.scan = "pending"].run = row[c].run
      BY <1>0 DEF Envelope
    <3>. QED
      BY <2>1, <2>2, <3>1
  <2>3. ASSUME NEW f \in Scanned(c, row[c]), Request(r, "complete", c, f, <<"guard", "put">>)
        PROVE  Turns'
    <3>1. f.run = row[c].run
      BY <1>0, ScannedFacts
    <3>. QED
      BY <2>1, <2>3, <3>1
  <2>. QED
    BY <1>6, <2>2, <2>3 DEF Complete
<1>. QED
  BY <1>1, <1>2, <1>3, <1>4, <1>5, <1>6 DEF InboxRequest

(* The scans and the end of the cycle: no job changes.                     *)
LEMMA TurnScan ==
    ASSUME PInv, Turns, serial, ScanCandidates \/ ScanValidated \/ EndCycle
    PROVE  Turns'
<1>1. UNCHANGED <<row, runs, job>>
  BY DEF ScanCandidates, ScanValidated, EndCycle, stores, still
<1>2. TakeTurns'
  <2>1. CASE ScanCandidates
    BY <1>1, <2>1, ProcFacts DEF ScanCandidates, OthersIdle, TakeTurns, Turns, Active
  <2>2. CASE ScanValidated
    BY <1>1, <2>2, ProcFacts DEF ScanValidated, TakeTurns, Turns, Active
  <2>3. CASE EndCycle
    BY <1>1, <2>3, ProcFacts DEF EndCycle, TakeTurns, Turns, Active
  <2>. QED
    BY <2>1, <2>2, <2>3
<1>3. \A w \in work' :
        \/ w \in work
        \/ /\ w.cand \in Cands /\ w.env = row[w.cand]
           /\ row[w.cand].status \in {"candidate", "validated"}
  BY DEF ScanCandidates, ScanValidated, EndCycle, Snapshots
<1>4. ASSUME NEW w \in work'
      PROVE  /\ Known(w.cand, w.env) /\ Open(w.cand, w.env)
             /\ w.env.status \in {"candidate", "validated"}
             /\ Active(Consumer) /\ job[Consumer].cand = w.cand => w.env.run # job[Consumer].env.run
  <2>1. CASE w \in work
    BY <2>1, ProcFacts DEF Turns, Holds, Unseen
  <2>2. CASE w.cand \in Cands /\ w.env = row[w.cand]
             /\ row[w.cand].status \in {"candidate", "validated"}
    BY <2>2, ReadFacts DEF Ended
  <2>. QED
    BY <1>3, <2>1, <2>2
<1>5. ASSUME NEW q \in Procs, Active(q)
      PROVE  Holds(q)'
  BY <1>1, <1>4, <1>5 DEF Turns, Holds, Known, Open, Unseen, Active
<1>. QED
  BY <1>1, <1>2, <1>4, <1>5 DEF Turns, Known, Open, Active

(* The cron takes up a snapshot.                                           *)
LEMMA TurnTake ==
    ASSUME PInv, Turns, phase = "work", job[Cron].steps = <<>>, NEW w \in work,
           work' = work \ {w}, NEW o \in {"advance", "recheck"}, NEW e,
           e.run = w.env.run, e.status = w.env.status, NEW todo,
           \A i \in DOMAIN todo : todo[i] # "pipeline",
           Begin(Cron, o, w.cand, e, todo), UNCHANGED <<row, runs, phase>>
    PROVE  Turns'
<1>. DEFINE j == IF todo = <<>> THEN [Idle EXCEPT !.cand = w.cand]
                 ELSE [op |-> o, cand |-> w.cand, env |-> e, steps |-> todo]
            g == IF todo = <<>> THEN Idle
                 ELSE [op |-> o, cand |-> w.cand, env |-> e, steps |-> todo]
<1>1. job' = [job EXCEPT ![Cron] = g]
  BY DEF Begin
<1>2. \A q \in Procs \ {Cron} : job'[q] = job[q]
  BY <1>1 DEF PInv, Typed
<1>3. TakeTurns'
  BY <1>2, ProcFacts DEF TakeTurns, Turns, Active
<1>4. w.cand \in Cands
  BY RunFacts
<1>5. /\ Known(w.cand, e) /\ Open(w.cand, e) /\ e.status \notin Ended
      /\ Active(Consumer) /\ job[Consumer].cand = w.cand => job[Consumer].env.run # e.run
  BY ProcFacts DEF Turns, Holds, Known, Open, Unseen, Ended
<1>6. CASE todo # <<>>
  <2>1. g.op = o /\ g.cand = w.cand /\ g.env = e /\ g.steps = todo
    BY <1>6
  <2>. HIDE DEF g
  <2>2. Shaped(Cron, g)
    BY <1>5, <2>1, ProcFacts DEF Shaped
  <2>3. work' \subseteq work
    OBVIOUS
  <2>. QED
    BY <1>1, <1>3, <1>4, <1>5, <2>1, <2>2, <2>3, ProcFacts, TurnJob
<1>7. CASE todo = <<>>
  <2>1. job'[Cron].steps = <<>>
    BY <1>1, <1>7, Nothing, ProcFacts DEF PInv, Typed
  <2>2. \A q \in Procs : job'[q].steps # <<>> => q # Cron /\ job'[q] = job[q] /\ Active(q) /\ Holds(q)
    BY <1>2, <2>1 DEF Active, Turns
  <2>3. \A q \in Procs : job'[q].steps # <<>> => Holds(q)'
    BY <2>2, ProcFacts DEF Holds, Known, Open, Unseen, Active
  <2>. QED
    BY <1>3, <2>3 DEF Turns, Known, Open, Active
<1>. QED
  BY <1>6, <1>7

LEMMA TurnCycle ==
    ASSUME PInv, Turns, serial, CronCycle
    PROVE  Turns'
<1>1. CASE Advance
  <2>1. PICK w \in work :
          /\ work' = work \ {w}
          /\ Begin(Cron, "advance", w.cand,
                   [w.env EXCEPT !.flagged = @ \/ w.env.drift = "corrected"],
                   AdvanceSteps(w.cand, w.env))
    BY <1>1 DEF Advance
  <2>. DEFINE e == [w.env EXCEPT !.flagged = @ \/ w.env.drift = "corrected"]
  <2>2. w.env \in Envelope
    BY DEF PInv, Sound
  <2>3. e.run = w.env.run /\ e.status = w.env.status
    BY <2>2 DEF Envelope
  <2>. HIDE DEF e
  <2>4. \A i \in DOMAIN AdvanceSteps(w.cand, w.env) : AdvanceSteps(w.cand, w.env)[i] # "pipeline"
    BY DEF AdvanceSteps
  <2>5. phase = "work" /\ job[Cron].steps = <<>> /\ UNCHANGED <<row, runs, phase>>
    BY <1>1 DEF Advance, stores, still
  <2>. USE DEF e
  <2>. QED
    BY <2>1, <2>3, <2>4, <2>5, TurnTake
<1>2. CASE Recheck
  <2>1. PICK w \in work :
          /\ work' = work \ {w}
          /\ Begin(Cron, "recheck", w.cand, w.env,
                   IF IsBlueprint(w.cand) THEN <<"replay">> ELSE <<>>)
    BY <1>2 DEF Recheck
  <2>. DEFINE todo == IF IsBlueprint(w.cand) THEN <<"replay">> ELSE <<>>
  <2>2. \A i \in DOMAIN todo : todo[i] # "pipeline"
    OBVIOUS
  <2>3. phase = "work" /\ job[Cron].steps = <<>> /\ UNCHANGED <<row, runs, phase>>
    BY <1>2 DEF Recheck, stores, still
  <2>4. w.env.run = w.env.run /\ w.env.status = w.env.status
    OBVIOUS
  <2>5. Begin(Cron, "recheck", w.cand, w.env, todo)
    BY <2>1
  <2>. HIDE DEF todo
  <2>. QED
    BY <2>1, <2>2, <2>3, <2>4, <2>5, TurnTake
<1>. QED
  BY <1>1, <1>2, TurnScan DEF CronCycle

LEMMA TurnCrash ==
    ASSUME PInv, Turns, NEW p \in Procs, Crash(p)
    PROVE  Turns'
<1>1. Active(p) /\ Quit(p) /\ UNCHANGED <<row, runs>>
  BY DEF Crash, Active, stores, still
<1>2. CASE p # Cron
  <2>1. UNCHANGED <<phase, work>>
    BY <1>2 DEF Crash, cycle
  <2>. QED
    BY <1>1, <2>1, CalmWhenSame, TurnQuit
<1>3. CASE p = Cron
  <2>1. phase' = "idle" /\ work' = {}
    BY <1>3 DEF Crash
  <2>2. job'[Cron].steps = <<>> /\ \A q \in Procs \ {Cron} : job'[q] = job[q]
    BY <1>1, <1>3, Nothing DEF Quit, PInv, Typed
  <2>3. TakeTurns'
    BY <2>1, <2>2, ProcFacts DEF TakeTurns, Turns, Active
  <2>4. \A q \in Procs : job'[q].steps # <<>> => q # Cron /\ job'[q] = job[q] /\ Active(q) /\ Holds(q)
    BY <2>2 DEF Active, Turns
  <2>5. \A q \in Procs : job'[q].steps # <<>> => Holds(q)'
    BY <1>1, <2>1, <2>4, ProcFacts DEF Holds, Known, Open, Unseen, Active
  <2>. QED
    BY <1>1, <2>1, <2>3, <2>5 DEF Turns, Known, Open, Active
<1>. QED
  BY <1>2, <1>3

(* A run of its own number: nobody has an envelope of it.                  *)
LEMMA TurnStart ==
    ASSUME PInv, Turns, NEW c \in Cands, StartRun(c)
    PROVE  Turns'
<1>1. /\ job[Consumer].steps = <<>> /\ runs' = [runs EXCEPT ![c] = @ + 1]
      /\ UNCHANGED <<row, phase, work>>
  BY DEF StartRun, stores, cycle
<1>2. Fresh(c) \in Envelope /\ Fresh(c).run = runs[c] + 1 /\ Fresh(c).status = "extracted"
  <2>1. runs[c] + 1 \in 0..MaxRuns
    BY ReviewAssumption DEF StartRun, PInv, Typed
  <2>2. NoRow \in Envelope
    BY Nothing
  <2>. QED
    BY <2>1, <2>2 DEF Fresh, Envelope, Statuses
<1>3. PICK j : /\ job' = [job EXCEPT ![Consumer] = j]
               /\ j.op = "extract" /\ j.cand = c /\ j.env.run = runs[c] + 1
               /\ \/ j.steps = <<"supersede", "put">>
                  \/ j.steps = <<"supersede", "put", "pipeline">> /\ j.env.status = "extracted"
  <2>1. CASE kind[c] = "form"
    <3>1. PICK e \in Scanned(c, Fresh(c)) :
            Begin(Consumer, "extract", c, [e EXCEPT !.status = "needs_parameterization"],
                  <<"supersede", "put">>)
      BY <2>1 DEF StartRun
    <3>. DEFINE j == [op |-> "extract", cand |-> c,
                      env |-> [e EXCEPT !.status = "needs_parameterization"],
                      steps |-> <<"supersede", "put">>]
    <3>2. e \in Envelope /\ e.run = runs[c] + 1
      BY <1>2, <3>1, ScannedFacts
    <3>3. j.env.run = runs[c] + 1
      BY <3>2 DEF Envelope
    <3>4. job' = [job EXCEPT ![Consumer] = j]
      BY <3>1 DEF Begin
    <3>5. j.op = "extract" /\ j.cand = c /\ j.steps = <<"supersede", "put">>
      OBVIOUS
    <3>. HIDE DEF j
    <3>. QED
      BY <3>3, <3>4, <3>5
  <2>2. CASE kind[c] # "form"
    <3>. DEFINE j == [op |-> "extract", cand |-> c, env |-> Fresh(c),
                      steps |-> <<"supersede", "put", "pipeline">>]
    <3>1. job' = [job EXCEPT ![Consumer] = j]
      BY <2>2 DEF StartRun, Begin
    <3>2. /\ j.op = "extract" /\ j.cand = c /\ j.steps = <<"supersede", "put", "pipeline">>
          /\ j.env.run = runs[c] + 1 /\ j.env.status = "extracted"
      BY <1>2
    <3>. HIDE DEF j
    <3>. QED
      BY <3>1, <3>2
  <2>. QED
    BY <2>1, <2>2
<1>4. job'[Consumer] = j /\ \A q \in Procs \ {Consumer} : job'[q] = job[q]
  BY <1>3, ProcFacts DEF PInv, Typed
<1>5. /\ \A d \in Cands : runs[d] \in Nat /\ runs'[d] \in Nat /\ runs[d] <= runs'[d]
      /\ runs'[c] = runs[c] + 1
  <2>1. runs \in [Cands -> 0..MaxRuns] /\ \A d \in Cands : runs[d] \in Nat
    BY RunFacts DEF PInv, Typed
  <2>. QED
    BY <1>1, <2>1
<1>6. TakeTurns'
  BY <1>1, <1>4, ProcFacts DEF TakeTurns, Turns, Active
<1>7. \A d \in Cands : Known(d, row[d])'
  BY <1>1, <1>5, RunFacts DEF Turns, Known
<1>8. \A w \in work : Known(w.cand, w.env)' /\ Open(w.cand, w.env)'
  BY <1>1, <1>5, RunFacts DEF Turns, Known, Open
<1>9. ASSUME NEW q \in Procs, job'[q].steps # <<>>
      PROVE  Holds(q)'
  <2>1. CASE q # Consumer
    <3>1. job'[q] = job[q] /\ Active(q) /\ Holds(q)
      BY <1>4, <1>9, <2>1 DEF Active, Turns
    <3>2. Known(job[q].cand, job[q].env)'
      <4>1. job[q].cand \in Cands /\ job[q].env.run \in Nat /\ job[q].env.run <= runs[job[q].cand]
        BY <3>1, RunFacts DEF Holds, Known
      <4>2. job[q].env.run <= runs'[job[q].cand]
        BY <1>5, <4>1
      <4>. QED
        BY <3>1, <4>2 DEF Known
    <3>. QED
      BY <1>1, <2>1, <3>1, <3>2 DEF Holds, Open
  <2>2. CASE q = Consumer
    <3>1. Known(c, j.env)'
      BY <1>3, <1>5 DEF Known
    <3>2. \A d \in Cands : row[d].run <= runs[d]
      BY DEF Turns, Known
    <3>3. row[c].run # j.env.run
      BY <1>3, <1>5, <3>2, RunFacts
    <3>4. \A u \in Writers : job'[u].steps # <<>> /\ job'[u].cand = c => job'[u].env.run # j.env.run
      <4>1. \A u \in Writers : job'[u].steps # <<>> =>
              job'[u] = job[u] /\ job[u].env.run <= runs[job[u].cand] /\ job[u].env.run \in Nat
        BY <1>4, ProcFacts, RunFacts DEF Turns, Holds, Known, Active
      <4>. QED
        BY <1>3, <1>5, <4>1
    <3>5. \A w \in work : w.cand = c => w.env.run # j.env.run
      BY <1>3, <1>5, RunFacts DEF Turns, Known
    <3>6. Unseen(c, j.env)'
      BY <1>1, <3>3, <3>4, <3>5 DEF Unseen, Active
    <3>7. Shaped(Consumer, j)
      <4>1. <<"supersede", "put">> \in AfterPipeline /\ PutLast(<<"supersede", "put">>)
        BY DEF AfterPipeline, PutLast
      <4>2. <<"supersede", "put", "pipeline">> \in BeforePipeline
        BY DEF BeforePipeline
      <4>. QED
        BY <1>3, <4>1, <4>2, ProcFacts DEF Shaped
    <3>. QED
      BY <1>3, <1>4, <2>2, <3>1, <3>6, <3>7 DEF Holds, Known, Unseen
  <2>. QED
    BY <2>1, <2>2
<1>. QED
  BY <1>1, <1>6, <1>7, <1>8, <1>9 DEF Turns, Known, Open, Active

LEMMA TurnExpire ==
    ASSUME PInv, Turns, NEW c \in Cands, Expire(c)
    PROVE  Turns' /\ \A d \in Cands : Stays(d)
<1>1. /\ row' = [row EXCEPT ![c] = NoRow] /\ UNCHANGED <<job, runs, phase, work>>
      /\ row[c].status \in Transient
  BY DEF Expire, cycle, still
<1>2. row'[c] = NoRow /\ \A d \in Cands \ {c} : row'[d] = row[d]
  BY <1>1 DEF PInv, Typed
<1>3. Calm
  BY <1>2 DEF Calm
<1>4. \A d \in Cands : Stays(d)
  BY <1>1, <1>2 DEF Stays, Transient, Ended
<1>5. TakeTurns'
  BY <1>1 DEF TakeTurns, Turns, Active
<1>6. ASSUME NEW q \in Procs, Active(q)
      PROVE  Holds(q)'
  <2>1. Holds(q) /\ job[q].cand \in Cands /\ job[q].env.run # 0
    BY <1>6, RunFacts DEF Turns
  <2>2. (q # Consumer => Open(job[q].cand, job[q].env)')
    BY <1>1, <1>3, <2>1, CalmFacts DEF Holds, Open
  <2>3. q = Consumer => Unseen(job[q].cand, job[q].env)'
    BY <1>1, <1>3, <2>1, CalmFacts DEF Holds, Unseen, Active
  <2>. QED
    BY <1>1, <2>1, <2>2, <2>3 DEF Holds, Known
<1>7. \A w \in work' : Open(w.cand, w.env)'
  BY <1>1, <1>3, CalmFacts, RunFacts DEF Turns, Open
<1>8. Turns'
  BY <1>1, <1>3, <1>5, <1>6, <1>7, CalmFacts DEF Turns, Known, Active
<1>. QED
  BY <1>4, <1>8

(* Only a put and an expiry may take a final word away.                    *)
LEMMA StaysOtherwise ==
    ASSUME PInv, \A c \in Cands : \/ row'[c].status = row[c].status
                                  \/ row'[c] = NoRow
    PROVE  \A c \in Cands : Stays(c)
<1>1. NoRow.run = 0 /\ "none" \notin Ended
  BY DEF NoRow, Ended
<1>2. \A c \in Cands : row[c].status # "none" => row[c].run # 0
  BY RunFacts
<1>. QED
  BY <1>1, <1>2 DEF Stays

LEMMA TurnJobStep ==
    ASSUME PInv, Turns, NEW p \in Procs, JobStep(p)
    PROVE  Turns'
BY TurnSimple, TurnSupersede, TurnStampDrift, TurnReplayAdvance, TurnReplayRecheck,
   TurnReplayApprove, TurnCountHits, TurnLand, TurnRunPipeline, TurnReget, TurnPut DEF JobStep

LEMMA TurnStep ==
    ASSUME PInv, Turns, serial, [Next]_vars
    PROVE  Turns'
<1>1. CASE UNCHANGED vars
  BY <1>1 DEF vars, stores, Turns, TakeTurns, Holds, Known, Open, Unseen, Active
<1>. QED
  BY <1>1, TurnCycle, TurnJobStep, TurnCrash, TurnStart, TurnExpire, TurnInbox DEF Next

LEMMA StaysStep ==
    ASSUME PInv, Turns, [Next]_vars
    PROVE  \A c \in Cands : Stays(c)
<1>1. CASE row' = row
  BY <1>1, StaysOtherwise
<1>2. ASSUME NEW p \in Procs, Supersede(p)
      PROVE  \A c \in Cands : Stays(c)
  <2>1. row' = [row EXCEPT ![job[p].cand] = NoRow] /\ row \in [Cands -> Envelope]
    BY <1>2 DEF Supersede, PInv, Typed
  <2>. QED
    BY <2>1, StaysOtherwise
<1>3. ASSUME NEW p \in Procs, StampDrift(p)
      PROVE  \A c \in Cands : Stays(c)
  <2>1. row \in [Cands -> Envelope] /\ \A c \in Cands : row[c] \in Envelope
    BY DEF PInv, Typed
  <2>2. \A c \in Cands : [row[c] EXCEPT !.drift = job[p].env.drift].status = row[c].status
    BY <2>1 DEF Envelope
  <2>3. row' \in {row, [row EXCEPT ![job[p].cand].drift = job[p].env.drift]}
    BY <1>3 DEF StampDrift
  <2>4. \A c \in Cands : \/ row'[c] = row[c]
                         \/ row'[c] = [row[c] EXCEPT !.drift = job[p].env.drift]
    BY <2>1, <2>3
  <2>5. \A c \in Cands : row'[c].status = row[c].status
    BY <2>2, <2>4
  <2>. QED
    BY <2>5, StaysOtherwise
<1>4. ASSUME NEW p \in Procs, Put(p)
      PROVE  \A c \in Cands : Stays(c)
  BY <1>4, TurnPut
<1>5. ASSUME NEW c \in Cands, Expire(c)
      PROVE  \A d \in Cands : Stays(d)
  BY <1>5, TurnExpire
<1>6. ASSUME NEW p \in Procs, JobStep(p), ~Supersede(p), ~StampDrift(p), ~Put(p)
      PROVE  row' = row
  BY <1>6 DEF JobStep, StampNode, StampArtifact, MarkVerified, CheckDeps, RunPipeline, BumpHits,
     SeedArtifact, ReplayAdvance, ReplayRecheck, ReplayApprove, CountHits, GuardForm, Reget, Land,
     stores
<1>7. CASE CronCycle
  BY <1>1, <1>7 DEF CronCycle, ScanCandidates, ScanValidated, EndCycle, Advance, Recheck, stores
<1>8. ASSUME NEW p \in Procs, Crash(p) PROVE row' = row
  BY <1>8 DEF Crash, stores
<1>9. ASSUME NEW c \in Cands, StartRun(c) PROVE row' = row
  BY <1>9 DEF StartRun, stores
<1>10. ASSUME NEW r \in Reviewers, NEW c \in Cands, InboxRequest(r, c) PROVE row' = row
  BY <1>10 DEF InboxRequest, Approve, Reject, Retract, Verify, Promote, Correct, Complete,
     Request, stores
<1>11. CASE UNCHANGED vars
  BY <1>1, <1>11 DEF vars, stores
<1>. QED
  BY <1>1, <1>2, <1>3, <1>4, <1>5, <1>6, <1>7, <1>8, <1>9, <1>10, <1>11 DEF Next

LEMMA SerialStays == [Next]_vars => serial' = serial
<1>. SUFFICES ASSUME [Next]_vars PROVE serial' = serial
  OBVIOUS
<1>1. CASE CronCycle
  BY <1>1 DEF CronCycle, ScanCandidates, ScanValidated, EndCycle, Advance, Recheck, still
<1>2. ASSUME NEW p \in Procs, JobStep(p) PROVE serial' = serial
  <2>1. CASE Put(p) \/ StampNode(p) \/ StampArtifact(p) \/ MarkVerified(p) \/ CheckDeps(p)
             \/ RunPipeline(p) \/ BumpHits(p) \/ SeedArtifact(p) \/ Supersede(p)
    BY <2>1 DEF Put, StampNode, StampArtifact, MarkVerified, CheckDeps, RunPipeline, BumpHits,
       SeedArtifact, Supersede, still
  <2>2. CASE ReplayAdvance(p) \/ ReplayRecheck(p) \/ ReplayApprove(p) \/ StampDrift(p)
             \/ CountHits(p) \/ GuardForm(p) \/ Reget(p) \/ Land(p)
    BY <2>2 DEF ReplayAdvance, ReplayRecheck, ReplayApprove, StampDrift, CountHits, GuardForm,
       Reget, Land, still
  <2>. QED
    BY <1>2, <2>1, <2>2 DEF JobStep
<1>3. ASSUME NEW p \in Procs, Crash(p) PROVE serial' = serial
  BY <1>3 DEF Crash, still
<1>4. ASSUME NEW c \in Cands, StartRun(c) \/ Expire(c) PROVE serial' = serial
  BY <1>4 DEF StartRun, Expire, still
<1>5. ASSUME NEW r \in Reviewers, NEW c \in Cands, InboxRequest(r, c) PROVE serial' = serial
  BY <1>5 DEF InboxRequest, Approve, Reject, Retract, Verify, Promote, Correct, Complete, Request
<1>6. CASE UNCHANGED vars
  BY <1>6 DEF vars
<1>. QED
  BY <1>1, <1>2, <1>3, <1>4, <1>5, <1>6 DEF Next

(* A rejected, retired or promoted row keeps its status until a new run of *)
(* its session replaces it, when cron and inbox take turns                 *)
(* (_land_and_promote's single promotion writer).                          *)
THEOREM FinalWordStands == Spec => TerminalStays
<1>1. Init => PInv /\ (serial => Turns)
  <2>1. ASSUME Init PROVE Turns
    <3>1. \A p \in Procs : ~Active(p)
      BY <2>1, Nothing DEF Init, Active
    <3>2. \A c \in Cands : Known(c, row[c])
      <4>1. \A c \in Cands : row[c].run = 0 /\ runs[c] = 0
        BY <2>1 DEF Init, NoRow
      <4>2. 0 <= 0
        OBVIOUS
      <4>. QED
        BY <4>1, <4>2 DEF Known
    <3>. QED
      BY <2>1, <3>1, <3>2, ProcFacts DEF Init, Turns, TakeTurns
  <2>. QED
    BY <2>1, InitPInv
<1>2. PInv /\ (serial => Turns) /\ [Next]_vars => PInv' /\ (serial' => Turns')
  <2>1. [Next]_vars => serial' = serial
    BY SerialStays
  <2>. QED
    BY <2>1, NextPInv, TurnStep
<1>3. PInv /\ (serial => Turns) /\ [Next]_vars => (serial => \A c \in Cands : Stays(c))
  BY StaysStep
<1>4. Spec => [][serial => \A c \in Cands : Stays(c)]_vars
  BY <1>1, <1>2, <1>3, PTL DEF Spec
<1>. QED
  BY <1>4 DEF TerminalStays
============================================================================
