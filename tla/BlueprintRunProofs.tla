------------------------- MODULE BlueprintRunProofs -------------------------
(***************************************************************************)
(* A blueprint run never repeats or loses a query over its pauses, and a   *)
(* query behind an approval gate needs the user's word for that very gate. *)
(*                                                                         *)
(* The executor keeps nothing between two calls, so the invariant says of  *)
(* the records that travel (the completed nodes, in the run or in its      *)
(* checkpoint) what the histories say of the queries themselves.           *)
(*                                                                         *)
(* A query binds what it was asked for: every filter that has a value, and *)
(* no value that was guessed.                                              *)
(***************************************************************************)
EXTENDS BlueprintRun, FiniteSetTheorems, WellFoundedInduction, TLAPS

RunFields ==
    {"pc", "bp", "given", "slots", "bound", "doms", "omitted", "foot", "walked", "running", "env",
     "scratch", "terminal", "reply"}

Values == {"low", "high"}

(* Every query that was dispatched left a record.                          *)
Dispatched(records) == DOMAIN sent \subseteq DOMAIN records

(* The record of a query that answered has its SQL and its provenance.     *)
Kept(records) ==
    \A o \in DOMAIN live :
      o \in DOMAIN records /\ records[o].sql /\ records[o].prov = live[o].prov

(* A value that can be bound is the single cell its query returned.        *)
Genuine(cells) ==
    \A q \in DOMAIN cells :
      cells[q].val \in Values =>
        q \in DOMAIN live /\ live[q].rows = 1 /\ live[q].val = cells[q].val

Records(records) == Dispatched(records) /\ Kept(records) /\ Genuine(records)

Shape ==
    /\ DOMAIN e = RunFields
    /\ e.pc \in {"idle", "slots", "walk", "query"}
    /\ stored \in Catalog

(* A run in progress works on the stored definition, its checkpoint is     *)
(* spent and it has no outcome yet.                                        *)
InProgress ==
    e.pc # "idle" => e.bp = stored /\ ~cp.open /\ outcome = NoOutcome

(* The walk has passed nodes of a graph without cycles.                    *)
Placed ==
    e.pc # "idle" => IsDag(NodesOf(e)) /\ e.walked \subseteq DOMAIN NodesOf(e)

(* What the user said, the run was told, and nothing else.                 *)
ReplyHeard ==
    e.pc # "idle" => \/ e.reply = NoReply
                     \/ /\ e.reply.says \in Decisions /\ e.reply.node # NoNode
                        /\ e.reply.says = "approve" => e.reply.node \in yes

Histories ==
    /\ \A o \in DOMAIN sent : sent[o].n = 1
    /\ DOMAIN live \subseteq DOMAIN sent

RunRecords ==
    /\ e.pc # "idle" => Records(e.running)
    /\ cp.open /\ cp.node # NoNode => Records(cp.completed)

WalkState ==
    e.pc \in {"walk", "query"} =>
      /\ Genuine(e.env)
      /\ \A o \in DOMAIN live : <<live[o].prov, o>> \in e.foot

(* The node whose query is next has not been dispatched, and its gate, if  *)
(* it has one, was opened by an answer to it.                              *)
AtQuery ==
    e.pc = "query" =>
      /\ Current \notin DOMAIN sent
      /\ NodesOf(e)[Current].gate => Current \in yes

RunInv ==
    /\ Shape /\ InProgress /\ Placed /\ ReplyHeard /\ Histories /\ RunRecords /\ WalkState /\ AtQuery
    /\ ConsentGiven /\ YesAdvances /\ FootprintComplete

---------------------------------------------------------------------------
(* Of numbers, positions and orders, one is first.                         *)
LEMMA FirstNumber ==
    ASSUME NEW T \in SUBSET Nat, T # {}
    PROVE  \E i \in T : \A j \in T : i <= j
<1> DEFINE R == OpToRel(<, Nat)
<1>1. IsWellFoundedOn(R, Nat)
  BY NatLessThanWellFounded
<1>2. \A x, y \in Nat : <<y, x>> \in R <=> y < x
  BY DEF OpToRel
<1> HIDE DEF R
<1>3. PICK x \in T : \A y \in T : ~ (<<y, x>> \in R)
  BY <1>1, WFMin, Zenon
<1>4. \A y \in T : ~ (y < x)
  BY <1>2, <1>3
<1>5. \A y \in T : x <= y
  BY <1>4, SMT
<1> QED
  BY <1>5

(* What a run is left with when it ends.                                   *)
LEMMA EndFacts ==
    ASSUME NEW x, End(x), Shape
    PROVE  /\ DOMAIN e' = RunFields /\ e'.pc = "idle" /\ e'.reply = e.reply
           /\ outcome' = x
BY DEF End, Shape, IdleRun, RunFields

LEMMA PauseFacts ==
    ASSUME NEW o, NEW completed, PauseAt(e, o, completed), Shape
    PROVE  /\ DOMAIN e' = RunFields /\ e'.pc = "idle" /\ e'.reply = e.reply
           /\ outcome'.kind = "paused" /\ outcome'.node = o
           /\ cp'.open /\ cp'.node = o /\ cp'.completed = completed
BY DEF PauseAt, Shape, IdleRun, RunFields, NoOutcome

(* A run that starts, or starts again, is refused or resolves its slots.   *)
LEMMA EnterFacts ==
    ASSUME NEW given, NEW completed, NEW reply, Enter(given, completed, reply), Shape
    PROVE  \/ /\ DOMAIN e' = RunFields /\ e'.pc = "idle"
              /\ outcome'.kind = "failed"
           \/ /\ DOMAIN e' = RunFields /\ e'.pc = "slots" /\ e'.bp = stored
              /\ e'.running = completed /\ e'.reply = reply
              /\ e'.walked = {} /\ IsDag(Nodes(stored))
              /\ outcome' = NoOutcome
BY DEF Enter, End, Failed, Unsupported, Shape, IdleRun, RunFields, NoOutcome

(* A clause says one of four things, and never puts the question again     *)
(* by itself.                                                              *)
LEMMA ClauseAnswers ==
    ASSUME NEW w, NEW env,
           DOMAIN w.atoms \subseteq Nat
    PROVE  EvaluateWhen(w, env) \in {"pass", "fail", "error", "raise"}
<1> DEFINE says == [i \in DOMAIN w.atoms |-> EvaluateAtom(w.atoms[i], env)]
           weak == IF w.any THEN "fail" ELSE "pass"
           deciding == {i \in DOMAIN says : says[i] # weak}
           first == CHOOSE i \in deciding : \A j \in deciding : i <= j
<1>1. \A a : EvaluateAtom(a, env) \in {"pass", "fail", "error", "raise"}
  BY DEF EvaluateAtom, Holds
<1>2. CASE deciding = {}
  BY <1>2 DEF EvaluateWhen
<1>3. CASE deciding # {}
  <2>1. first \in deciding
    <3>1. deciding \in SUBSET Nat
      OBVIOUS
    <3>2. \E i \in deciding : \A j \in deciding : i <= j
      BY <1>3, <3>1, FirstNumber
    <3> QED
      BY <3>2
  <2>2. says[first] \in {"pass", "fail", "error", "raise"}
    BY <2>1, <1>1
  <2> QED
    BY <1>3, <2>2 DEF EvaluateWhen
<1> QED
  BY <1>2, <1>3

---------------------------------------------------------------------------
LEMMA InitInv == BlueprintInit => RunInv
<1> SUFFICES ASSUME BlueprintInit PROVE RunInv
  OBVIOUS
<1>1. /\ DOMAIN e = RunFields /\ e.pc = "idle" /\ ~cp.open /\ outcome.kind = "none"
      /\ stored \in Catalog
  BY DEF BlueprintInit, IdleRun, RunFields, NoCheckpoint, NoOutcome
<1>2. DOMAIN sent = {} /\ DOMAIN live = {}
  BY DEF BlueprintInit
<1>3. Histories /\ ConsentGiven
  BY <1>2 DEF Histories, ConsentGiven
<1> QED
  BY <1>1, <1>3
     DEF RunInv, Shape, InProgress, Placed, ReplyHeard, RunRecords, WalkState, AtQuery, YesAdvances,
         FootprintComplete

(* A run that is over keeps its invariant if its histories do and what it  *)
(* hands on, to the user or to a checkpoint, is right.                     *)
LEMMA AtRest ==
    ASSUME DOMAIN e' = RunFields, e'.pc = "idle", stored' \in Catalog, Histories',
           cp'.open /\ cp'.node # NoNode => Records(cp.completed)',
           ConsentGiven', YesAdvances', FootprintComplete'
    PROVE  RunInv'
BY DEF RunInv, Shape, InProgress, Placed, ReplyHeard, RunRecords, WalkState, AtQuery

LEMMA Refused ==
    ASSUME RunInv, NEW c, End(Failed(c)), ~cp'.open, stored' \in Catalog, Histories', ConsentGiven'
    PROVE  RunInv'
<1>1. DOMAIN e' = RunFields /\ e'.pc = "idle" /\ outcome' = Failed(c)
  BY EndFacts DEF RunInv
<1>2. outcome'.kind = "failed"
  BY <1>1 DEF Failed, NoOutcome
<1> QED
  BY <1>1, <1>2, AtRest DEF YesAdvances, FootprintComplete

(* The histories and the approvals stay what they are.                     *)
LEMMA HistoriesStand ==
    ASSUME RunInv, UNCHANGED <<runVars, stored>>
    PROVE  Histories' /\ ConsentGiven' /\ stored' \in Catalog
BY DEF RunInv, Shape, Histories, ConsentGiven, runVars

(* A run that goes on, whether it dispatched a query or not.               *)
LEMMA WentOn ==
    ASSUME RunInv, e.pc # "idle", UNCHANGED <<stored, cp, outcome, yes>>,
           DOMAIN e' = RunFields, e'.pc \in {"slots", "walk", "query"},
           e'.bp = e.bp, e'.reply = e.reply, e'.walked \subseteq DOMAIN NodesOf(e),
           Histories', ConsentGiven', Records(e.running)', WalkState', AtQuery'
    PROVE  RunInv'
<1>1. e.bp = stored /\ ~cp.open /\ outcome = NoOutcome /\ stored \in Catalog
  BY DEF RunInv, Shape, InProgress
<1>2. Shape' /\ InProgress' /\ Placed' /\ ReplyHeard'
  BY <1>1 DEF RunInv, Shape, InProgress, Placed, NodesOf, ReplyHeard
<1>3. outcome'.kind = "none"
  BY <1>1 DEF NoOutcome
<1> QED
  BY <1>1, <1>2, <1>3 DEF RunInv, RunRecords, YesAdvances, FootprintComplete

LEMMA GoesOn ==
    ASSUME RunInv, e.pc # "idle", UNCHANGED <<stored, cp, outcome, runVars>>,
           DOMAIN e' = RunFields, e'.pc \in {"slots", "walk", "query"},
           e'.bp = e.bp, e'.reply = e.reply, e'.walked \subseteq DOMAIN NodesOf(e),
           Records(e.running)', WalkState', AtQuery'
    PROVE  RunInv'
BY HistoriesStand, WentOn DEF runVars

LEMMA ExecuteStep == ASSUME RunInv, Execute PROVE RunInv'
<1>1. PICK given : Enter(given, <<>>, NoReply)
  BY DEF Execute
<1>2. ~cp'.open /\ stored' = stored /\ live' = <<>> /\ sent' = <<>> /\ yes' = {}
  BY DEF Execute, NoCheckpoint
<1>3. Histories' /\ ConsentGiven' /\ stored' \in Catalog
  BY <1>2 DEF Histories, ConsentGiven, RunInv, Shape
<1>4. CASE e'.pc = "idle" /\ outcome'.kind = "failed" /\ DOMAIN e' = RunFields
  BY <1>2, <1>3, <1>4, AtRest DEF YesAdvances, FootprintComplete
<1>5. CASE /\ DOMAIN e' = RunFields /\ e'.pc = "slots" /\ e'.bp = stored
           /\ e'.running = <<>> /\ e'.reply = NoReply /\ outcome' = NoOutcome
           /\ e'.walked = {} /\ IsDag(Nodes(stored))
  <2>1. Records(e.running)'
    BY <1>2, <1>5 DEF Records, Dispatched, Kept, Genuine
  <2>2. InProgress' /\ Placed' /\ ReplyHeard' /\ Shape'
    BY <1>2, <1>3, <1>5 DEF InProgress, Placed, NodesOf, ReplyHeard, Shape
  <2>3. outcome'.kind = "none"
    BY <1>5 DEF NoOutcome
  <2> QED
    BY <1>2, <1>3, <1>5, <2>1, <2>2, <2>3
       DEF RunInv, RunRecords, WalkState, AtQuery, YesAdvances, FootprintComplete
<1> QED
  BY <1>1, <1>4, <1>5, EnterFacts DEF RunInv

LEMMA AnswerStep == ASSUME RunInv, Answer PROVE RunInv'
<1>1. /\ e.pc = "idle" /\ cp.open /\ cp.node # NoNode /\ ~cp'.open
      /\ UNCHANGED <<stored, live, sent, edited>>
  BY DEF Answer, NoCheckpoint
<1>2. PICK d \in Decisions :
        /\ IF inScope /\ IsLeaf(stored) THEN End(Failed("UNSUPPORTED"))
           ELSE Enter(cp.given, Rehydrate(cp.completed), [node |-> cp.node, says |-> d])
        /\ yes' = IF d = "approve" THEN yes \cup {cp.node} ELSE yes
  BY DEF Answer
<1>3. Histories' /\ ConsentGiven' /\ stored' \in Catalog
  BY <1>1, <1>2 DEF RunInv, Shape, Histories, ConsentGiven
<1>4. CASE End(Failed("UNSUPPORTED"))
  BY <1>1, <1>3, <1>4, Refused
<1>5. CASE Enter(cp.given, cp.completed, [node |-> cp.node, says |-> d])
  <2>1. CASE e'.pc = "idle" /\ outcome'.kind = "failed" /\ DOMAIN e' = RunFields
    BY <1>1, <1>3, <2>1, AtRest DEF YesAdvances, FootprintComplete
  <2>2. CASE /\ DOMAIN e' = RunFields /\ e'.pc = "slots" /\ e'.bp = stored
             /\ e'.running = cp.completed /\ e'.reply = [node |-> cp.node, says |-> d]
             /\ e'.walked = {} /\ IsDag(Nodes(stored)) /\ outcome' = NoOutcome
    <3>1. Records(e.running)'
      BY <1>1, <2>2 DEF RunInv, RunRecords, Records, Dispatched, Kept, Genuine
    <3>2. ReplyHeard'
      BY <1>1, <1>2, <2>2 DEF ReplyHeard
    <3> QED
      BY <1>1, <1>3, <2>2, <3>1, <3>2
         DEF RunInv, Shape, InProgress, Placed, NodesOf, RunRecords, WalkState, AtQuery,
             YesAdvances, FootprintComplete, NoOutcome
  <2> QED
    BY <1>5, <2>1, <2>2, EnterFacts DEF RunInv
<1> QED
  BY <1>2, <1>4, <1>5 DEF Rehydrate

(* The question a slot asks waits at no node, so no answer resumes the run *)
(* from it.                                                                *)
LEMMA SlotStep == ASSUME RunInv, Slot PROVE RunInv'
<1> DEFINE s == Head(e.slots)
           raw == Given(s.name)
           Went == e' = [e EXCEPT !.slots = e'.slots, !.foot = e'.foot, !.doms = e'.doms,
                                  !.bound = e'.bound, !.omitted = e'.omitted]
<1>1. e.pc = "slots" /\ DOMAIN e = RunFields /\ UNCHANGED <<stored, runVars>> /\ ~cp.open
  BY DEF Slot, RunInv, Shape, InProgress
<1>2. \/ PauseAt(e, NoNode, <<>>)
      \/ Went /\ UNCHANGED <<cp, outcome>>
      \/ End(Failed("SLOT_INVALID")) /\ UNCHANGED cp
  BY <1>1 DEF Slot, RunFields
<1>3. CASE PauseAt(e, NoNode, <<>>)
  <2>1. /\ DOMAIN e' = RunFields /\ e'.pc = "idle" /\ e'.reply = e.reply
        /\ outcome'.kind = "paused" /\ outcome'.node = NoNode /\ cp'.node = NoNode
    BY <1>3, PauseFacts DEF RunInv
  <2>2. ~(e.reply.says = "approve" /\ e.reply.node = NoNode)
    BY <1>1 DEF RunInv, ReplyHeard, NoReply
  <2> QED
    BY <1>1, <2>1, <2>2, HistoriesStand, AtRest DEF YesAdvances, FootprintComplete
<1>4. CASE Went /\ UNCHANGED <<cp, outcome>>
  <2>1. /\ DOMAIN e' = RunFields /\ e'.pc = "slots" /\ e'.bp = e.bp /\ e'.reply = e.reply
        /\ e'.running = e.running /\ e'.walked \subseteq DOMAIN NodesOf(e)
    BY <1>1, <1>4 DEF RunFields, RunInv, Placed
  <2>2. Records(e.running)'
    BY <1>1, <2>1 DEF RunInv, RunRecords, Records, Dispatched, Kept, Genuine, runVars
  <2> QED
    BY <1>1, <1>4, <2>1, <2>2, GoesOn DEF WalkState, AtQuery
<1>5. CASE End(Failed("SLOT_INVALID")) /\ UNCHANGED cp
  BY <1>1, <1>5, HistoriesStand, Refused
<1> QED
  BY <1>2, <1>3, <1>4, <1>5

(* The walk starts with what the completed nodes left and what they        *)
(* contributed to the footprint.                                           *)
LEMMA WalkStarts ==
    ASSUME NEW r, RunInv, e.pc = "slots", DOMAIN r = RunFields, r.running = e.running,
           r.bp = e.bp, r.reply = e.reply, r.walked = e.walked, e' = StartWalk(r),
           UNCHANGED <<stored, cp, outcome, runVars>>
    PROVE  RunInv'
<1>1. Records(e.running)
  BY DEF RunInv, RunRecords
<1>2. /\ DOMAIN e' = RunFields /\ e'.pc = "walk" /\ e'.bp = e.bp /\ e'.reply = e.reply
      /\ e'.running = e.running /\ e'.env = LoadCompleted(e.running)
      /\ Carried(e.running) \subseteq e'.foot /\ e'.walked \subseteq DOMAIN NodesOf(e)
  BY DEF StartWalk, RunFields, RunInv, Placed
<1>3. Records(e.running)'
  BY <1>1, <1>2 DEF Records, Dispatched, Kept, Genuine, runVars
<1>4. Genuine(e.env)'
  BY <1>1, <1>2 DEF Records, Genuine, LoadCompleted, runVars
<1>5. \A o \in DOMAIN live : <<live[o].prov, o>> \in Carried(e.running)
  BY <1>1 DEF Records, Kept, Carried
<1>6. WalkState'
  BY <1>2, <1>4, <1>5 DEF WalkState, runVars
<1> QED
  BY <1>2, <1>3, <1>6, GoesOn DEF AtQuery

LEMMA ExpandRulesStep == ASSUME RunInv, ExpandRules PROVE RunInv'
<1>1. /\ e.pc = "slots" /\ DOMAIN e = RunFields /\ ~cp.open
      /\ UNCHANGED <<stored, cp, runVars>>
  BY DEF ExpandRules, RunInv, Shape, InProgress
<1>2. \/ e' = StartWalk(e) /\ UNCHANGED outcome
      \/ End(Failed("denied"))
      \/ End(Failed("UNSUPPORTED"))
      \/ \E f, b : /\ e' = StartWalk([e EXCEPT !.foot = f, !.bound = b])
                   /\ UNCHANGED outcome
  BY <1>1 DEF ExpandRules, RunFields
<1>3. CASE e' = StartWalk(e) /\ UNCHANGED outcome
  BY <1>1, <1>3, WalkStarts
<1>4. CASE End(Failed("denied"))
  BY <1>1, <1>4, HistoriesStand, Refused
<1>5. CASE End(Failed("UNSUPPORTED"))
  BY <1>1, <1>5, HistoriesStand, Refused
<1>6. ASSUME NEW f, NEW b, e' = StartWalk([e EXCEPT !.foot = f, !.bound = b]), UNCHANGED outcome
      PROVE  RunInv'
  <2> DEFINE r == [e EXCEPT !.foot = f, !.bound = b]
  <2>1. /\ DOMAIN r = RunFields /\ r.running = e.running /\ r.bp = e.bp /\ r.reply = e.reply
        /\ r.walked = e.walked
    BY <1>1 DEF RunFields
  <2> QED
    BY <1>1, <1>6, <2>1, WalkStarts
<1> QED
  BY <1>2, <1>3, <1>4, <1>5, <1>6

(* The node the walk stands at is a node of the definition.                *)
LEMMA CurrentNode ==
    ASSUME RunInv, e.pc # "idle", e.walked # DOMAIN NodesOf(e)
    PROVE  Current \in DOMAIN NodesOf(e)
<1> DEFINE ns == NodesOf(e)
<1>1. e.bp \in Catalog /\ IsDag(ns) /\ e.walked \subseteq DOMAIN ns
  BY DEF RunInv, Shape, InProgress, Placed
<1>2. Ready(ns, e.walked) # {}
  <2>1. DOMAIN ns \ e.walked # {}
    BY <1>1
  <2>2. PICK o \in DOMAIN ns \ e.walked : ns[o].feeds \cap (DOMAIN ns \ e.walked) = {}
    BY <1>1, <2>1 DEF IsDag
  <2>3. ns[o].feeds \subseteq DOMAIN ns
    BY <1>1 DEF IsDag
  <2> QED
    BY <2>2, <2>3 DEF Ready
<1>3. Ready(ns, e.walked) \in SUBSET Nat
  BY <1>1, CatalogAssumption DEF NodesOf, Ready
<1>4. \E o \in Ready(ns, e.walked) : \A q \in Ready(ns, e.walked) : o <= q
  BY <1>2, <1>3, FirstNumber
<1>5. Current \in Ready(ns, e.walked)
  BY <1>4 DEF Current, NextNode
<1> QED
  BY <1>5 DEF Ready

LEMMA PassOverStep == ASSUME RunInv, PassOver PROVE RunInv'
<1>1. /\ e.pc = "walk" /\ DOMAIN e = RunFields
      /\ e' = [e EXCEPT !.walked = e.walked \cup {Current}]
      /\ UNCHANGED <<stored, cp, outcome, runVars>> /\ Current \in DOMAIN NodesOf(e)
  BY CurrentNode DEF PassOver, Walking, RunInv, Shape
<1>2. /\ DOMAIN e' = RunFields /\ e'.pc = "walk" /\ e'.bp = e.bp /\ e'.reply = e.reply
      /\ e'.running = e.running /\ e'.env = e.env /\ e'.foot = e.foot
      /\ e'.walked \subseteq DOMAIN NodesOf(e)
  BY <1>1 DEF RunFields, RunInv, Placed
<1>3. Records(e.running)' /\ WalkState'
  BY <1>1, <1>2
     DEF RunInv, RunRecords, WalkState, Records, Dispatched, Kept, Genuine, runVars
<1> QED
  BY <1>1, <1>2, <1>3, GoesOn DEF AtQuery

---------------------------------------------------------------------------
(* A gate opens on the user's word for its own node only.                  *)
LEMMA GateHeard ==
    ASSUME RunInv, e.pc # "idle", NEW o, NodesOf(e)[o].gate, GateSays(o) = "approve"
    PROVE  o \in yes
BY DEF RunInv, ReplyHeard, GateSays, Replied, NoReply

(* After an approval, only a clause that asks can ask at the same node.    *)
LEMMA AsksAgain ==
    ASSUME RunInv, e.pc # "idle", NEW o \in DOMAIN NodesOf(e), Asks(o),
           e.reply.says = "approve", e.reply.node = o
    PROVE  NodesOf(e)[o].gate /\ HasWhen(NodesOf(e)[o]) /\ NodesOf(e)[o].when.ov = "ask"
<1> DEFINE n == NodesOf(e)[o]
<1>1. EvaluateWhen(n.when, e.env) \in {"pass", "fail", "error", "raise"}
  <2>1. e.bp \in Catalog
    BY DEF RunInv, Shape, InProgress
  <2>2. DOMAIN n.when.atoms \subseteq Nat
    BY <2>1, CatalogAssumption DEF NodesOf
  <2> QED
    BY <2>2, ClauseAnswers
<1>2. GateSays(o) = "approve"
  BY DEF GateSays, Replied
<1>3. (WhenSays(o) = "fail" /\ n.when.ov = "ask") \/ WhenSays(o) = "repause"
  BY <1>2 DEF Asks
<1>4. CASE ~HasWhen(n)
  BY <1>3, <1>4 DEF WhenSays
<1>5. CASE HasWhen(n) /\ ~n.gate
  BY <1>3, <1>5 DEF WhenSays, Replied
<1>6. CASE HasWhen(n) /\ n.gate
  BY <1>1, <1>3, <1>6 DEF WhenSays
<1> QED
  BY <1>4, <1>5, <1>6

(* A record is added for a node that had none; it has no value to bind.    *)
LEMMA NewRecord ==
    ASSUME NEW records, Records(records), NEW o, o \notin DOMAIN records
    PROVE  Records(With(records, o, EmptyRecord))
<1> DEFINE now == With(records, o, EmptyRecord)
<1>1. /\ DOMAIN now = DOMAIN records \cup {o} /\ now[o] = EmptyRecord
      /\ \A p \in DOMAIN records : now[p] = records[p]
  BY DEF With
<1>2. EmptyRecord.val \notin Values
  BY DEF EmptyRecord, NodeRecord, Values
<1> HIDE DEF now
<1>3. Dispatched(now)
  BY <1>1 DEF Records, Dispatched
<1>4. Kept(now)
  BY <1>1 DEF Records, Kept
<1>5. Genuine(now)
  BY <1>1, <1>2 DEF Records, Genuine
<1> QED
  BY <1>3, <1>4, <1>5 DEF Records, now

LEMMA GateStep == ASSUME RunInv, Gate PROVE RunInv'
<1> DEFINE o == Current
<1>1. /\ e.pc = "walk" /\ DOMAIN e = RunFields /\ ~cp.open /\ o \notin DOMAIN e.running
      /\ UNCHANGED <<stored, runVars>> /\ Records(e.running) /\ o \notin DOMAIN sent
      /\ e.bp = stored /\ o \in DOMAIN NodesOf(e) /\ e.walked \subseteq DOMAIN NodesOf(e)
  BY CurrentNode DEF Gate, Placed, Walking, RunInv, Shape, InProgress, RunRecords, Records, Dispatched
<1>2. \/ \E c : End(Failed(c)) /\ UNCHANGED cp
      \/ Asks(o) /\ PauseAt(e, o, e.running)
      \/ e' = RecordEmpty(e, o) /\ UNCHANGED <<cp, outcome>>
      \/ /\ Opens(o)
         /\ e' = [e EXCEPT !.pc = "query",
                           !.running = IF NodesOf(e)[o].gate THEN With(e.running, o, EmptyRecord)
                                       ELSE e.running]
         /\ UNCHANGED <<cp, outcome>>
  BY <1>1 DEF Gate, RunFields
<1>3. ASSUME NEW c, End(Failed(c)), UNCHANGED cp PROVE RunInv'
  BY <1>1, <1>3, HistoriesStand, Refused
<1>4. CASE Asks(o) /\ PauseAt(e, o, e.running)
  <2>1. /\ DOMAIN e' = RunFields /\ e'.pc = "idle" /\ e'.reply = e.reply
        /\ outcome'.kind = "paused" /\ outcome'.node = o /\ cp'.completed = e.running
    BY <1>4, PauseFacts DEF RunInv
  <2>2. Records(cp.completed)'
    BY <1>1, <2>1 DEF Records, Dispatched, Kept, Genuine, runVars
  <2>3. YesAdvances'
    <3> SUFFICES ASSUME e.reply.says = "approve", e.reply.node = o
                 PROVE  LET n == Nodes(stored)[o] IN n.gate /\ HasWhen(n) /\ n.when.ov = "ask"
      BY <1>1, <2>1 DEF YesAdvances
    <3> QED
      <4>1. Nodes(stored) = NodesOf(e)
        BY <1>1 DEF NodesOf
      <4> QED
        BY <1>1, <1>4, <4>1, AsksAgain
  <2> QED
    BY <2>1, <2>2, <2>3, <1>1, HistoriesStand, AtRest DEF FootprintComplete
<1>5. CASE e' = RecordEmpty(e, o) /\ UNCHANGED <<cp, outcome>>
  <2> DEFINE cell == [rows |-> 0,
                      val |-> IF NodesOf(e)[o].out = "none" THEN "absent" ELSE "null"]
  <2>1. /\ DOMAIN e' = RunFields /\ e'.pc = "walk" /\ e'.bp = e.bp /\ e'.reply = e.reply
        /\ e'.running = With(e.running, o, EmptyRecord) /\ e'.env = With(e.env, o, cell)
        /\ e'.foot = e.foot /\ e'.walked \subseteq DOMAIN NodesOf(e)
    BY <1>1, <1>5 DEF RecordEmpty, RunFields
  <2>2. Records(e.running)'
    <3>1. Records(With(e.running, o, EmptyRecord))
      BY <1>1, NewRecord
    <3> QED
      BY <1>1, <2>1, <3>1 DEF Records, Dispatched, Kept, Genuine, runVars
  <2>3. WalkState'
    <3>1. cell.val \notin Values
      BY DEF Values
    <3>2. /\ DOMAIN e'.env = DOMAIN e.env \cup {o} /\ e'.env[o] = cell
          /\ \A q \in DOMAIN e.env : q # o => e'.env[q] = e.env[q]
      BY <2>1 DEF With
    <3> HIDE DEF cell
    <3>3. Genuine(e.env)'
      BY <1>1, <3>1, <3>2 DEF RunInv, WalkState, Genuine, runVars
    <3> QED
      BY <1>1, <2>1, <3>3 DEF RunInv, WalkState, runVars
  <2> QED
    BY <1>1, <1>5, <2>1, <2>2, <2>3, GoesOn DEF AtQuery
<1>6. CASE /\ Opens(o)
           /\ e' = [e EXCEPT !.pc = "query",
                             !.running = IF NodesOf(e)[o].gate THEN With(e.running, o, EmptyRecord)
                                         ELSE e.running]
           /\ UNCHANGED <<cp, outcome>>
  <2>1. /\ DOMAIN e' = RunFields /\ e'.pc = "query" /\ e'.bp = e.bp /\ e'.reply = e.reply
        /\ e'.running \in {With(e.running, o, EmptyRecord), e.running}
        /\ e'.env = e.env /\ e'.foot = e.foot /\ e'.walked = e.walked
    BY <1>1, <1>6 DEF RunFields
  <2>2. Records(e.running)'
    <3>1. CASE e'.running = e.running
      BY <1>1, <3>1 DEF Records, Dispatched, Kept, Genuine, runVars
    <3>2. CASE e'.running = With(e.running, o, EmptyRecord)
      <4>1. Records(With(e.running, o, EmptyRecord))
        BY <1>1, NewRecord
      <4> QED
        BY <1>1, <3>2, <4>1 DEF Records, Dispatched, Kept, Genuine, runVars
    <3> QED
      BY <2>1, <3>1, <3>2
  <2>3. WalkState'
    BY <1>1, <2>1 DEF RunInv, WalkState, Genuine, runVars
  <2>4. Current' = o /\ NodesOf(e)' = NodesOf(e)
    BY <2>1 DEF Current, NodesOf
  <2>5. AtQuery'
    <3>1. NodesOf(e)[o].gate => o \in yes
      BY <1>1, <1>6, GateHeard DEF Opens
    <3> QED
      BY <1>1, <2>4, <3>1 DEF AtQuery, runVars
  <2> QED
    BY <1>1, <1>6, <2>1, <2>2, <2>3, <2>5, GoesOn
<1> QED
  BY <1>2, <1>3, <1>4, <1>5, <1>6

---------------------------------------------------------------------------
(* A query that is dispatched for the first time, from an open gate.       *)
LEMMA DispatchedOnce ==
    ASSUME RunInv, e.pc = "query", NEW x, x.n = IF Current \in DOMAIN sent
                                                  THEN sent[Current].n + 1 ELSE 1,
           sent' = With(sent, Current, x), UNCHANGED <<stored, yes, edited>>,
           DOMAIN live' \subseteq DOMAIN live \cup {Current}
    PROVE  Histories' /\ ConsentGiven'
<1>1. Current \notin DOMAIN sent /\ e.bp = stored
  BY DEF RunInv, AtQuery, InProgress
<1>2. /\ DOMAIN sent' = DOMAIN sent \cup {Current} /\ sent'[Current].n = 1
      /\ \A o \in DOMAIN sent : sent'[o] = sent[o]
  BY <1>1 DEF With
<1>3. Histories'
  BY <1>2 DEF RunInv, Histories
<1>4. Nodes(stored)[Current].gate => Current \in yes
  BY <1>1 DEF RunInv, AtQuery, NodesOf
<1>5. ConsentGiven'
  BY <1>2, <1>4 DEF RunInv, ConsentGiven
<1> QED
  BY <1>3, <1>5

(* A query that answered leaves its record, its cell and its provenance.   *)
LEMMA Recorded ==
    ASSUME RunInv, e.pc = "query", NEW x, sent' = With(sent, Current, x),
           NEW r, live' = With(live, Current, [rows |-> r.rows, prov |-> r.prov, val |-> r.val]),
           NEW val, val \in Values => r.rows = 1 /\ r.val = val,
           DOMAIN e'.running = DOMAIN e.running \cup {Current},
           e'.running[Current] = NodeRecord(val, r.prov, TRUE),
           \A o \in DOMAIN e.running : o # Current => e'.running[o] = e.running[o],
           DOMAIN e'.env = DOMAIN e.env \cup {Current},
           e'.env[Current].val = val \/ e'.env[Current].val \notin Values,
           \A o \in DOMAIN e.env : o # Current => e'.env[o] = e.env[o],
           e'.foot = e.foot \cup {<<r.prov, Current>>}
    PROVE  Records(e.running)' /\ WalkState'
<1> DEFINE at == Current
<1>1. /\ at \notin DOMAIN sent /\ at \notin DOMAIN live /\ Records(e.running) /\ Genuine(e.env)
      /\ \A o \in DOMAIN live : <<live[o].prov, o>> \in e.foot
  BY DEF RunInv, AtQuery, Histories, RunRecords, WalkState
<1>2. /\ DOMAIN sent' = DOMAIN sent \cup {at}
      /\ DOMAIN live' = DOMAIN live \cup {at}
      /\ \A o \in DOMAIN live : live'[o] = live[o]
      /\ live'[at].rows = r.rows /\ live'[at].prov = r.prov /\ live'[at].val = r.val
  BY <1>1 DEF With
<1>3. /\ e'.running[at].val = val /\ e'.running[at].prov = r.prov /\ e'.running[at].sql
  BY DEF NodeRecord
<1> HIDE DEF at
<1>4. /\ DOMAIN e'.running = DOMAIN e.running \cup {at} /\ DOMAIN e'.env = DOMAIN e.env \cup {at}
      /\ \A o \in DOMAIN e.running : o # at => e'.running[o] = e.running[o]
      /\ \A o \in DOMAIN e.env : o # at => e'.env[o] = e.env[o]
      /\ e'.env[at].val = val \/ e'.env[at].val \notin Values
      /\ e'.foot = e.foot \cup {<<r.prov, at>>}
  BY DEF at
<1>5. Dispatched(e.running)'
  BY <1>1, <1>2, <1>4 DEF Records, Dispatched
<1>6. Kept(e.running)'
  BY <1>1, <1>2, <1>3, <1>4 DEF Records, Kept
<1>7. Genuine(e.running)'
  BY <1>1, <1>2, <1>3, <1>4 DEF Records, Genuine
<1>8. Genuine(e.env)'
  BY <1>1, <1>2, <1>4 DEF Genuine
<1>9. \A o \in DOMAIN live' : <<live'[o].prov, o>> \in e'.foot
  BY <1>1, <1>2, <1>4
<1> QED
  BY <1>5, <1>6, <1>7, <1>8, <1>9 DEF Records, WalkState

LEMMA QueryStep == ASSUME RunInv, Query PROVE RunInv'
<1> DEFINE o == Current
           n == NodesOf(e)[o]
<1>1. /\ e.pc = "query" /\ DOMAIN e = RunFields /\ ~cp.open /\ ~cp'.open /\ cp' = cp
      /\ UNCHANGED <<stored, yes, edited>> /\ stored \in Catalog
      /\ o \in DOMAIN NodesOf(e) /\ e.walked \subseteq DOMAIN NodesOf(e)
  BY CurrentNode DEF Query, Walking, RunInv, Shape, InProgress, Placed
<1>2. CASE ~Bindable(o)
  <2>1. End(Failed("SLOT_INVALID")) /\ UNCHANGED runVars
    BY <1>1, <1>2 DEF Query, runVars
  <2> QED
    BY <1>1, <2>1, HistoriesStand, Refused
<1>3. CASE Bindable(o)
  <2> DEFINE x == [n |-> IF o \in DOMAIN sent THEN sent[o].n + 1 ELSE 1,
                   toks |-> UNION {p.toks : p \in NodeQuery(e, o).sites},
                   had |-> DOMAIN NodeBindings(e, o)]
  <2>1. PICK r \in {y \in Results : Sane(y)} \cup {Denied} :
          /\ sent' = With(sent, o, x)
          /\ live' = IF r.ok
                      THEN With(live, o, [rows |-> r.rows, prov |-> r.prov, val |-> r.val])
                      ELSE live
          /\ CASE ~r.ok -> End(Failed("denied"))
               [] r.ok /\ o \in TableConsumed(NodesOf(e)) -> Materialize(o, r)
               [] r.ok /\ o \notin TableConsumed(NodesOf(e))
                    /\ ScalarOutput(n, r) = "invalid" -> End(Failed("SLOT_INVALID"))
               [] OTHER ->
                    LET v == ScalarOutput(n, r) IN
                    /\ e' = [Ran(o, r) EXCEPT
                               !.running = With(@, o, NodeRecord(v, r.prov, TRUE)),
                               !.env = With(@, o, [rows |-> r.rows, val |-> v]),
                               !.terminal = o]
                    /\ UNCHANGED outcome
    BY <1>3 DEF Query
  <2>2. DOMAIN live' \subseteq DOMAIN live \cup {o}
    BY <2>1 DEF With
  <2>3. Histories' /\ ConsentGiven'
    BY <1>1, <2>1, <2>2, DispatchedOnce
  <2>4. ASSUME NEW c, End(Failed(c)) PROVE RunInv'
    BY <1>1, <2>3, <2>4, Refused
  <2>5. CASE ~r.ok
    BY <2>1, <2>4, <2>5
  <2>6. CASE r.ok /\ o \in TableConsumed(NodesOf(e))
    <3>1. CASE End(Failed("UNSUPPORTED"))
      BY <2>4, <3>1
    <3>2. CASE /\ e' = LET y == RecordEmpty(Ran(o, r), o) IN
                       [y EXCEPT !.scratch = @ \cup {o},
                                 !.running = With(@, o, NodeRecord("absent", r.prov, TRUE))]
               /\ UNCHANGED outcome
      <4>1. /\ DOMAIN e' = RunFields /\ e'.pc = "walk" /\ e'.bp = e.bp /\ e'.reply = e.reply
            /\ e'.walked \subseteq DOMAIN NodesOf(e) /\ e'.foot = e.foot \cup {<<r.prov, o>>}
            /\ e'.running = With(With(e.running, o, EmptyRecord), o,
                                 NodeRecord("absent", r.prov, TRUE))
            /\ e'.env = With(e.env, o, [rows |-> 0, val |-> IF NodesOf(Ran(o, r))[o].out = "none"
                                                           THEN "absent" ELSE "null"])
        BY <1>1, <3>2 DEF RecordEmpty, Ran, RunFields
      <4>2. /\ DOMAIN e'.running = DOMAIN e.running \cup {o}
            /\ e'.running[o] = NodeRecord("absent", r.prov, TRUE)
            /\ \A q \in DOMAIN e.running : q # o => e'.running[q] = e.running[q]
        BY <4>1 DEF With
      <4>3. /\ DOMAIN e'.env = DOMAIN e.env \cup {o} /\ e'.env[o].val \notin Values
            /\ \A q \in DOMAIN e.env : q # o => e'.env[q] = e.env[q]
        BY <4>1 DEF With, Values
      <4>4. "absent" \notin Values
        BY DEF Values
      <4>5. Records(e.running)' /\ WalkState'
        BY <1>1, <2>1, <2>6, <4>1, <4>2, <4>3, <4>4, Recorded
      <4> QED
        BY <1>1, <2>3, <3>2, <4>1, <4>5, WentOn DEF AtQuery
    <3> QED
      BY <2>1, <2>6, <3>1, <3>2 DEF Materialize
  <2>7. CASE r.ok /\ o \notin TableConsumed(NodesOf(e)) /\ ScalarOutput(n, r) = "invalid"
    BY <2>1, <2>4, <2>7
  <2>8. CASE r.ok /\ o \notin TableConsumed(NodesOf(e)) /\ ScalarOutput(n, r) # "invalid"
    <3> DEFINE v == ScalarOutput(n, r)
    <3>1. /\ e' = [Ran(o, r) EXCEPT
                      !.running = With(@, o, NodeRecord(v, r.prov, TRUE)),
                      !.env = With(@, o, [rows |-> r.rows, val |-> v]),
                      !.terminal = o]
          /\ UNCHANGED outcome
      BY <2>1, <2>8
    <3>2. v \in Values => r.rows = 1 /\ r.val = v
      BY DEF ScalarOutput, Values
    <3> HIDE DEF v
    <3>3. /\ DOMAIN e' = RunFields /\ e'.pc = "walk" /\ e'.bp = e.bp /\ e'.reply = e.reply
          /\ e'.walked \subseteq DOMAIN NodesOf(e) /\ e'.foot = e.foot \cup {<<r.prov, o>>}
          /\ e'.running = With(e.running, o, NodeRecord(v, r.prov, TRUE))
          /\ e'.env = With(e.env, o, [rows |-> r.rows, val |-> v])
      BY <1>1, <3>1 DEF Ran, RunFields
    <3>4. /\ DOMAIN e'.running = DOMAIN e.running \cup {o}
          /\ e'.running[o] = NodeRecord(v, r.prov, TRUE)
          /\ \A q \in DOMAIN e.running : q # o => e'.running[q] = e.running[q]
      BY <3>3 DEF With
    <3>5. /\ DOMAIN e'.env = DOMAIN e.env \cup {o} /\ e'.env[o].val = v
          /\ \A q \in DOMAIN e.env : q # o => e'.env[q] = e.env[q]
      BY <3>3 DEF With
    <3>6. Records(e.running)' /\ WalkState'
      BY <1>1, <2>1, <2>8, <3>2, <3>3, <3>4, <3>5, Recorded
    <3> QED
      BY <1>1, <2>3, <3>1, <3>3, <3>6, WentOn DEF AtQuery
  <2> QED
    BY <2>5, <2>6, <2>7, <2>8
<1> QED
  BY <1>2, <1>3

(* The answer cites every query of the run that answered.                  *)
LEMMA FootprintSpans ==
    ASSUME RunInv, e.pc = "walk", UNCHANGED runVars, NEW foot, e.foot \subseteq foot,
           NEW t, NEW check,
           outcome' = Completed(t, foot, {o \in DOMAIN e.running : e.running[o].sql}, check)
    PROVE  FootprintComplete'
<1>1. /\ outcome'.foot = {x[2] : x \in foot}
      /\ outcome'.sqls = {o \in DOMAIN e.running : e.running[o].sql}
      /\ outcome'.unknown = (\E x \in foot : x[1] = "unknown")
  BY DEF Completed
<1>2. Kept(e.running) /\ \A o \in DOMAIN live : <<live[o].prov, o>> \in foot
  BY DEF RunInv, RunRecords, WalkState, Records
<1>3. \A o \in DOMAIN live : o \in outcome'.foot /\ o \in outcome'.sqls
  <2> SUFFICES ASSUME NEW o \in DOMAIN live PROVE o \in outcome'.foot /\ o \in outcome'.sqls
    OBVIOUS
  <2>1. <<live[o].prov, o>> \in foot /\ <<live[o].prov, o>>[2] = o
    BY <1>2
  <2> QED
    BY <1>1, <1>2, <2>1 DEF Kept
<1>4. ASSUME NEW o \in DOMAIN live, live[o].prov = "unknown"
      PROVE  \E x \in foot : x[1] = "unknown"
  <2>1. <<live[o].prov, o>> \in foot /\ <<live[o].prov, o>>[1] = "unknown"
    BY <1>2, <1>4
  <2> QED
    BY <2>1
<1>5. (\E o \in DOMAIN live : live[o].prov = "unknown") => outcome'.unknown
  BY <1>1, <1>4
<1> QED
  BY <1>3, <1>5 DEF FootprintComplete, runVars

LEMMA FinalizeStep == ASSUME RunInv, Finalize PROVE RunInv'
<1> DEFINE sqls == {o \in DOMAIN e.running : e.running[o].sql}
<1>1. e.pc = "walk" /\ ~cp.open /\ UNCHANGED <<stored, cp, runVars>>
  BY DEF Finalize, RunInv, InProgress
<1>2. \/ \E c : End(Failed(c))
      \/ \E foot, t, check : e.foot \subseteq foot /\ End(Completed(t, foot, sqls, check))
  BY DEF Finalize
<1>3. ASSUME NEW c, End(Failed(c)) PROVE RunInv'
  BY <1>1, <1>3, HistoriesStand, Refused
<1>4. ASSUME NEW foot, NEW t, NEW check, e.foot \subseteq foot,
             End(Completed(t, foot, sqls, check))
      PROVE  RunInv'
  <2>1. /\ DOMAIN e' = RunFields /\ e'.pc = "idle" /\ outcome' = Completed(t, foot, sqls, check)
    BY <1>4, EndFacts DEF RunInv
  <2>2. outcome'.kind = "completed"
    BY <2>1 DEF Completed
  <2>3. FootprintComplete'
    BY <1>1, <1>4, <2>1, FootprintSpans
  <2> QED
    BY <1>1, <2>1, <2>2, <2>3, HistoriesStand, AtRest DEF YesAdvances
<1> QED
  BY <1>2, <1>3, <1>4

LEMMA EnvironmentStep == ASSUME RunInv, Narrow \/ Reseed PROVE RunInv'
<1>1. /\ cp.open /\ e.pc = "idle" /\ UNCHANGED <<e, cp, outcome, live, sent, yes>>
      /\ stored' \in Catalog
  BY DEF Narrow, Reseed, RunInv, Shape, InProgress, runVars
<1>2. edited' \/ UNCHANGED <<edited, stored>>
  BY DEF Narrow, Reseed, runVars
<1>3. Histories' /\ RunRecords'
  BY <1>1 DEF RunInv, Histories, RunRecords, Records, Dispatched, Kept, Genuine
<1>4. ConsentGiven' /\ YesAdvances' /\ FootprintComplete'
  BY <1>1, <1>2 DEF RunInv, ConsentGiven, YesAdvances, FootprintComplete
<1> QED
  BY <1>1, <1>3, <1>4
     DEF RunInv, Shape, InProgress, Placed, ReplyHeard, WalkState, AtQuery

---------------------------------------------------------------------------
(* What travels with a run (its records, in the executor's locals or in    *)
(* the checkpoint a pause writes) agrees with what its queries did.        *)
THEOREM BlueprintInvariant == BlueprintSpec => []RunInv
<1>1. RunInv /\ [BlueprintNext]_blueprintVars => RunInv'
  <2> SUFFICES ASSUME RunInv, [BlueprintNext]_blueprintVars PROVE RunInv'
    OBVIOUS
  <2>1. CASE UNCHANGED blueprintVars
    BY <2>1
       DEF blueprintVars, runVars, RunInv, Shape, InProgress, Placed, NodesOf, ReplyHeard, Histories,
           RunRecords, Records, Dispatched, Kept, Genuine, WalkState, AtQuery, Current, ConsentGiven,
           YesAdvances, FootprintComplete
  <2> QED
    BY <2>1, ExecuteStep, AnswerStep, SlotStep, ExpandRulesStep, PassOverStep, GateStep, QueryStep,
       FinalizeStep, EnvironmentStep DEF BlueprintNext
<1> QED
  BY <1>1, InitInv, PTL DEF BlueprintSpec

(* A pause loses nothing: a node that ran before it does not run again,    *)
(* binds into later nodes the single cell it returned, and stays in the    *)
(* footprint and the SQL list of the answer (resume in executor.py).       *)
THEOREM PausesLoseNothing == BlueprintSpec => []ResumeKeepsWork
<1>1. RunInv => ResumeKeepsWork
  <2> SUFFICES ASSUME RunInv PROVE ResumeKeepsWork
    OBVIOUS
  <2>1. ExactlyOnce
    BY DEF RunInv, Histories, ExactlyOnce
  <2>2. ScalarsSurvive
    BY DEF RunInv, WalkState, Genuine, Values, Bindable, ScalarsSurvive
  <2> QED
    BY <2>1, <2>2 DEF RunInv, ResumeKeepsWork
<1> QED
  BY <1>1, BlueprintInvariant, PTL

(* An affirmative answer opens the gate of its own node and no other, and  *)
(* does not meet the same question again (the approval gate and            *)
(* _approval_decision in executor.py).                                     *)
THEOREM ConsentIsPerGate == BlueprintSpec => []ConsentCounts
<1>1. RunInv => ConsentCounts
  BY DEF RunInv, ConsentCounts
<1> QED
  BY <1>1, BlueprintInvariant, PTL

---------------------------------------------------------------------------
(* What is bound.  The slots still to resolve are the last ones of the     *)
(* definition; a token belongs to one slot or to a rule, so a slot's value *)
(* or pattern is never overwritten.                                        *)
NameOf(i) == e.bp.slots[i].name
TokensOf(i) == SlotTokens(e.bp.slots[i])
Done == Len(e.bp.slots) - Len(e.slots)

Pending ==
    e.pc = "slots" =>
      /\ e.slots \in Seq({e.bp.slots[i] : i \in DOMAIN e.bp.slots})
      /\ Len(e.slots) <= Len(e.bp.slots)
      /\ \A j \in DOMAIN e.slots : e.slots[j] = e.bp.slots[Done + j]
      /\ \A i \in 1..Done : NameOf(i) \in DOMAIN e.doms
      /\ \A k \in (DOMAIN e.bound) \cup (DOMAIN e.omitted) : \E i \in 1..Done : k \in TokensOf(i)

Disjoint ==
    e.pc # "idle" =>
      /\ ParsesBlueprint(e.bp)
      /\ DOMAIN e.bound \cap DOMAIN e.omitted = {}
      /\ DOMAIN e.omitted \cap RuleTokens(e.bp) = {}

(* What the model proposed is one of the things it may propose.            *)
Proposed ==
    /\ e.pc # "idle" => \A name \in DOMAIN e.given : e.given[name] \in Raws
    /\ cp.open => \A name \in DOMAIN cp.given : cp.given[name] \in Raws

(* A value that a slot may be bound to, given what was proposed and what   *)
(* the probe of its domain found.                                          *)
NotGuessed(s, raw, domain, v) ==
    /\ s.type \in {"string", "period"} /\ domain.known /\ IsString(raw) =>
         /\ v.word \in domain.values
         /\ v.word = raw.word \/ \A d \in domain.values :
                                    Casefold(d) = Casefold(raw.word) => d = v.word
    /\ s.type = "window" => v.n \in 1..WindowCap
    /\ s.type = "range" => v.bounds[1].at < v.bounds[2].at

SlotsBound ==
    e.pc # "idle" =>
      \A i \in DOMAIN e.bp.slots :
        TokensOf(i) \subseteq DOMAIN e.bound =>
          \A k \in TokensOf(i) :
            NotGuessed(e.bp.slots[i], Given(NameOf(i)), e.doms[NameOf(i)], e.bound[k])

(* A prefix of a ranking, above the floor and without a significant gap.   *)
Confident(c) ==
    /\ c # <<>>
    /\ \A i \in DOMAIN c : c[i] >= Floor
    /\ \A i \in 1..(Len(c) - 1) : c[i] - c[i + 1] <= Gap

RulesBound ==
    e.pc # "idle" =>
      \A k \in DOMAIN e.bound : k \in RuleTokens(e.bp) => Confident(e.bound[k].items)

BindInv == Pending /\ Disjoint /\ Proposed /\ SlotsBound /\ RulesBound /\ NoFilterDropped

(* Slots with different names have no token in common, and each has one.   *)
LEMMA SlotHasToken == ASSUME NEW s PROVE SlotTokens(s) # {}
BY DEF SlotTokens

LEMMA TokensApart ==
    ASSUME NEW s, NEW t, s.name # t.name
    PROVE  SlotTokens(s) \cap SlotTokens(t) = {}
<1>1. ASSUME NEW x, NEW k \in SlotTokens(x) PROVE k[1] = x.name
  <2>1. k = <<x.name, "start">> \/ k = <<x.name, "end">> \/ k = <<x.name, "">>
    BY DEF SlotTokens
  <2>2. /\ <<x.name, "start">>[1] = x.name
        /\ <<x.name, "end">>[1] = x.name
        /\ <<x.name, "">>[1] = x.name
    OBVIOUS
  <2> QED
    BY <2>1, <2>2
<1> QED
  BY <1>1

(* BindTemplate: every token that has a value is still in the query after  *)
(* the patterns of omitted slots were applied.                             *)
LEMMA BoundTokensStay ==
    ASSUME NEW t, NEW bindings, NEW tables, NEW patterns,
           DOMAIN bindings \cap DOMAIN patterns = {},
           BindTemplate(t, bindings, tables, patterns).ok
    PROVE  DOMAIN bindings \subseteq
             UNION {p.toks : p \in BindTemplate(t, bindings, tables, patterns).sites}
<1>1. /\ DOMAIN bindings \subseteq ReferencedSlots(t)
      /\ \A k \in Present(t, patterns) : PatternApplies(t, k, patterns[k])
  BY DEF BindTemplate
<1>2. BindTemplate(t, bindings, tables, patterns).sites = ApplyOptionalPatterns(t, patterns)
  BY DEF BindTemplate
<1> SUFFICES ASSUME NEW k \in DOMAIN bindings
             PROVE  \E p \in ApplyOptionalPatterns(t, patterns) : k \in p.toks
  BY <1>2
<1>3. PICK p \in t.sites : k \in p.toks
  BY <1>1 DEF ReferencedSlots
<1>4. p.toks \cap Present(t, patterns) = {}
  <2> SUFFICES ASSUME NEW q \in p.toks, q \in Present(t, patterns) PROVE FALSE
    OBVIOUS
  <2>1. p.toks = {q}
    BY <1>1, <1>3 DEF PatternApplies
  <2>2. q \in DOMAIN patterns
    BY DEF Present
  <2> QED
    BY <1>3, <2>1, <2>2
<1> QED
  BY <1>3, <1>4 DEF ApplyOptionalPatterns

(* _domain_matches and BindMatch: a value is bound only if it is the only  *)
(* one that the word can mean.                                             *)
LEMMA MatchIsUnique ==
    ASSUME NEW raw, NEW values, IsFiniteSet(values), DOMAIN raw = DOMAIN Absent,
           BindMatch(raw, DomainMatches(raw.word, values)).is = "bind"
    PROVE  LET v == BindMatch(raw, DomainMatches(raw.word, values)).value
           IN  /\ v.word \in values
               /\ v.word = raw.word \/ \A d \in values :
                                          Casefold(d) = Casefold(raw.word) => d = v.word
<1> DEFINE M == DomainMatches(raw.word, values)
           v == BindMatch(raw, M).value
<1>1. M \subseteq values /\ IsFiniteSet(M)
  BY FS_Subset DEF DomainMatches
<1>2. Cardinality(M) = 1
  BY DEF BindMatch, AsksUser, Unique
<1>3. PICK d : M = {d}
  BY <1>1, <1>2, FS_Singleton
<1>4. Only(M) = d
  BY <1>3 DEF Only
<1>5. v.word = d
  <2>1. v = [raw EXCEPT !.kind = "word", !.word = d]
    BY <1>2, <1>4 DEF BindMatch, Binds, Unique
  <2>2. "word" \in DOMAIN raw
    BY DEF Absent
  <2> QED
    BY <2>1, <2>2
<1>6. CASE raw.word \in values
  BY <1>1, <1>3, <1>5, <1>6 DEF DomainMatches
<1>7. CASE raw.word \notin values
  BY <1>1, <1>3, <1>5, <1>7 DEF DomainMatches
<1> QED
  BY <1>6, <1>7

(* resolve_slot never guesses.                                             *)
LEMMA SlotNotGuessed ==
    ASSUME NEW raw, DOMAIN raw = DOMAIN Absent, NEW s, s.lo \in Nat, s.hi \in Nat, NEW domain,
           domain.known => IsFiniteSet(domain.values),
           ResolveSlot(raw, s, domain).is = "bind"
    PROVE  NotGuessed(s, raw, domain, ResolveSlot(raw, s, domain).value)
<1> DEFINE v == ResolveSlot(raw, s, domain).value
<1>1. raw.kind # "absent"
  BY DEF ResolveSlot, AsksUser, Omits
<1>2. CASE s.type = "window"
  <2>1. ResolveSlot(raw, s, domain) = ResolveWindow(raw, s)
    BY <1>1, <1>2 DEF ResolveSlot
  <2> DEFINE lo == IF s.lo > 1 THEN s.lo ELSE 1
             hi == IF s.hi # 0 /\ s.hi < WindowCap THEN s.hi ELSE WindowCap
  <2>2. raw.n \in lo..hi /\ v = [raw EXCEPT !.kind = "int"]
    BY <2>1 DEF ResolveWindow, Binds, AsksUser
  <2>3. lo \in Nat /\ lo >= 1 /\ hi \in Nat /\ hi <= WindowCap
    BY DEF WindowCap
  <2>4. v.n = raw.n
    <3>1. "n" \in DOMAIN raw
      BY DEF Absent
    <3> QED
      BY <2>2, <3>1
  <2>5. v.n \in 1..WindowCap
    <3> HIDE DEF lo, hi, v
    <3> QED
      BY <2>2, <2>3, <2>4 DEF WindowCap
  <2> QED
    BY <1>2, <2>5 DEF NotGuessed
<1>3. CASE s.type = "range"
  <2>1. ResolveSlot(raw, s, domain) = ResolveRange(raw)
    BY <1>1, <1>3 DEF ResolveSlot
  <2>2. v.bounds[1].at < v.bounds[2].at
    BY <2>1 DEF ResolveRange, Binds, AsksUser
  <2> QED
    BY <1>3, <2>2 DEF NotGuessed
<1>4. CASE s.type \in {"string", "period"} /\ domain.known /\ IsString(raw)
  <2>1. ResolveSlot(raw, s, domain) = BindMatch(raw, DomainMatches(raw.word, domain.values))
    <3>1. CASE s.type = "string"
      BY <1>1, <1>4, <3>1 DEF ResolveSlot, ResolveScalar, IsString
    <3>2. CASE s.type = "period"
      <4>1. ResolveSlot(raw, s, domain) = ResolvePeriod(raw, domain)
        BY <1>1, <3>2 DEF ResolveSlot
      <4>2. AsksUser.is # "bind"
        BY DEF AsksUser
      <4> QED
        BY <1>4, <4>1, <4>2 DEF ResolvePeriod
    <3> QED
      BY <1>4, <3>1, <3>2
  <2> QED
    BY <1>4, <2>1, MatchIsUnique DEF NotGuessed
<1> QED
  BY <1>2, <1>3, <1>4 DEF NotGuessed

(* _select_subset and expand_rule: the codes of a rule are a prefix of the *)
(* ranking, above the floor and without a significant gap.                 *)
LEMMA SubsetConfident ==
    ASSUME NEW scores \in Rankings, scores # <<>>, ~(Head(scores) < Floor)
    PROVE  Confident(SelectSubset(scores, Gap, Floor))
<1> DEFINE cuts == {i \in 1..(Len(scores) - 1) : scores[i] - scores[i + 1] > Gap}
           cut == IF cuts = {} THEN Len(scores) ELSE CHOOSE i \in cuts : \A j \in cuts : i <= j
           confident == {i \in 1..cut : scores[i] >= Floor}
           below == {i \in 1..cut : ~(scores[i] >= Floor)}
           c == SelectSubset(scores, Gap, Floor)
<1>1. /\ scores \in Seq(Int) /\ Gap \in Nat /\ Floor \in Nat
      /\ \A i, j \in DOMAIN scores : i <= j => scores[i] >= scores[j]
  BY RunAssumption
<1>2. Len(scores) \in Nat /\ Len(scores) >= 1 /\ DOMAIN scores = 1..Len(scores)
      /\ \A i \in 1..Len(scores) : scores[i] \in Int
  BY <1>1
<1>3. /\ cut \in 1..Len(scores)
      /\ \A i \in 1..(cut - 1) : i \notin cuts
  <2>3. cuts \subseteq 1..(Len(scores) - 1)
    OBVIOUS
  <2> HIDE DEF cuts
  <2>1. CASE cuts = {}
    BY <1>2, <2>1
  <2>2. CASE cuts # {}
    <3>1. cuts \subseteq DOMAIN scores /\ cuts \in SUBSET Nat
      BY <1>2, <2>3
    <3>2. \E i \in cuts : \A j \in cuts : i <= j
      BY <2>2, <3>1, FirstNumber
    <3>3. cut \in cuts /\ \A j \in cuts : cut <= j
      BY <2>2, <3>2
    <3>4. cut \in 1..(Len(scores) - 1)
      BY <2>3, <3>3
    <3> HIDE DEF cut
    <3> QED
      BY <1>2, <3>3, <3>4
  <2> QED
    BY <2>1, <2>2
<1> HIDE DEF cut
<1>4. PICK m \in 1..cut : confident = 1..m
  <2>1. CASE below = {}
    BY <1>3, <2>1
  <2>2. CASE below # {}
    <3>1. below \subseteq DOMAIN scores /\ below \in SUBSET Nat
      BY <1>2, <1>3
    <3>2. PICK b \in below : \A j \in below : b <= j
      <4> HIDE DEF below
      <4> QED
        BY <2>2, <3>1, FirstNumber
    <3>3. b # 1
      BY <1>1, <1>2, <3>2
    <3>4. ASSUME NEW i \in 1..cut PROVE scores[i] >= Floor <=> i <= b - 1
      <4>1. CASE i < b
        BY <3>2, <3>4, <4>1
      <4>2. CASE b <= i
        <5>1. b \in DOMAIN scores /\ i \in DOMAIN scores
          BY <1>2, <1>3, <3>1, <3>2
        <5>2. scores[b] >= scores[i] /\ scores[b] \in Int /\ scores[i] \in Int
          BY <1>1, <1>2, <4>2, <5>1
        <5>3. ~(scores[b] >= Floor) /\ b \in Nat
          BY <3>2, <1>2, <5>1
        <5> QED
          BY <1>1, <4>2, <5>2, <5>3
      <4> QED
        BY <1>3, <3>2, <4>1, <4>2
    <3>5. b - 1 \in 1..cut /\ confident = 1..(b - 1)
      BY <1>3, <3>2, <3>3, <3>4
    <3> QED
      BY <3>5
  <2> QED
    BY <2>1, <2>2
<1>5. Cardinality(confident) = m /\ confident # {}
  <2>1. m \in Nat /\ m >= 1
    BY <1>3, <1>4
  <2>2. Cardinality(1..m) = m
    BY <2>1, FS_Interval
  <2>3. 1 \in 1..m
    BY <2>1
  <2> HIDE DEF confident
  <2> QED
    BY <1>4, <2>2, <2>3
<1>6. c = SubSeq(scores, 1, m)
  BY <1>5 DEF SelectSubset, cut
<1> HIDE DEF c
<1>7. Len(c) = m /\ \A i \in 1..m : c[i] = scores[i]
  <2>1. m \in 1..Len(scores)
    BY <1>2, <1>3, <1>4
  <2> QED
    BY <1>1, <1>2, <1>6, <2>1
<1>8. \A i \in 1..m : scores[i] >= Floor
  BY <1>4
<1>9. \A i \in 1..(m - 1) : scores[i] - scores[i + 1] <= Gap
  BY <1>1, <1>2, <1>3, <1>4
<1>10. DOMAIN c = 1..m /\ c # <<>>
  <2>1. m \in 1..Len(scores)
    BY <1>2, <1>3, <1>4
  <2>2. c \in Seq(Int)
    BY <1>1, <1>2, <1>6, <2>1
  <2> QED
    BY <1>7, <2>1, <2>2, <1>2
<1> QED
  <2>1. /\ \A i \in 1..m : c[i] >= Floor
        /\ \A i \in 1..(m - 1) : c[i] - c[i + 1] <= Gap
    BY <1>2, <1>3, <1>4, <1>7, <1>8, <1>9
  <2> QED
    BY <1>7, <1>10, <2>1 DEF Confident, c

LEMMA RuleConfident ==
    ASSUME NEW r \in Resolved, ExpandRule(r, Gap, Floor).is = "bind"
    PROVE  Confident(ExpandRule(r, Gap, Floor).codes)
<1>1. r.ok /\ ~r.degraded /\ r.scores # <<>> /\ ~(Head(r.scores) < Floor)
  BY DEF ExpandRule
<1>2. r.scores \in Rankings
  <2>1. \/ r \in [ok : {TRUE}, degraded : {FALSE}, scores : Rankings]
        \/ r = [ok |-> TRUE, degraded |-> TRUE, scores |-> <<>>]
        \/ r = [ok |-> FALSE, degraded |-> FALSE, scores |-> <<>>]
    BY DEF Resolved
  <2>2. r # [ok |-> TRUE, degraded |-> TRUE, scores |-> <<>>]
    BY <1>1
  <2>3. r # [ok |-> FALSE, degraded |-> FALSE, scores |-> <<>>]
    BY <1>1
  <2>4. r \in [ok : {TRUE}, degraded : {FALSE}, scores : Rankings]
    BY <2>1, <2>2, <2>3
  <2> QED
    BY <2>4
<1>3. ExpandRule(r, Gap, Floor).codes = SelectSubset(r.scores, Gap, Floor)
  BY <1>1 DEF ExpandRule
<1> QED
  BY <1>1, <1>2, <1>3, SubsetConfident

---------------------------------------------------------------------------
LEMMA InitBindings == BlueprintInit => BindInv
<1> SUFFICES ASSUME BlueprintInit PROVE BindInv
  OBVIOUS
<1>1. e.pc = "idle" /\ ~cp.open /\ DOMAIN sent = {}
  BY DEF BlueprintInit, IdleRun, NoCheckpoint
<1> QED
  BY <1>1 DEF BindInv, Pending, Disjoint, Proposed, SlotsBound, RulesBound, NoFilterDropped

(* A run that is over has no bindings; its checkpoint has what it was given.*)
LEMMA NoBindings ==
    ASSUME e'.pc = "idle", NoFilterDropped',
           cp'.open => \A name \in DOMAIN cp'.given : cp'.given[name] \in Raws
    PROVE  BindInv'
BY DEF BindInv, Pending, Disjoint, Proposed, SlotsBound, RulesBound

(* After the slots and the rules are resolved the bindings stand.          *)
LEMMA BindingsStand ==
    ASSUME BindInv, e.pc # "idle", e'.pc \in {"walk", "query"}, e'.bp = e.bp, e'.given = e.given,
           e'.bound = e.bound, e'.omitted = e.omitted, e'.doms = e.doms, cp' = cp, NoFilterDropped'
    PROVE  BindInv'
BY DEF BindInv, Pending, Disjoint, Proposed, SlotsBound, RulesBound, NameOf, TokensOf, Given

LEMMA EntryBindings ==
    ASSUME NEW given, NEW completed, NEW reply, Enter(given, completed, reply), Shape, ~cp'.open,
           \A name \in DOMAIN given : given[name] \in Raws, NoFilterDropped'
    PROVE  BindInv'
<1>1. CASE e'.pc = "idle"
  BY <1>1, NoBindings
<1>2. CASE e'.pc # "idle"
  <2>1. /\ e'.pc = "slots" /\ e'.bp = stored /\ e'.given = given /\ e'.slots = stored.slots
        /\ e'.bound = <<>> /\ e'.omitted = <<>> /\ ParsesBlueprint(stored)
    BY <1>2 DEF Enter, End, Unsupported, IdleRun
  <2>2. stored.slots \in Seq({stored.slots[i] : i \in DOMAIN stored.slots})
    BY CatalogAssumption DEF Shape
  <2>3. Done' = 0 /\ Len(stored.slots) \in Nat /\ DOMAIN stored.slots = 1..Len(stored.slots)
    BY <2>1, <2>2 DEF Done
  <2>4. Pending'
    BY <2>1, <2>2, <2>3 DEF Pending
  <2>5. DOMAIN e'.bound = {} /\ DOMAIN e'.omitted = {}
    BY <2>1
  <2>6. Disjoint' /\ Proposed' /\ RulesBound'
    BY <2>1, <2>5 DEF Disjoint, Proposed, RulesBound
  <2>7. SlotsBound'
    BY <2>5, SlotHasToken DEF SlotsBound, TokensOf
  <2> QED
    BY <2>4, <2>6, <2>7 DEF BindInv
<1> QED
  BY <1>1, <1>2

LEMMA ExecuteBindings == ASSUME RunInv, BindInv, Execute PROVE BindInv'
<1>1. PICK given \in [{stored.slots[i].name : i \in DOMAIN stored.slots} -> Raws] :
        Enter(given, <<>>, NoReply)
  BY DEF Execute
<1>2. ~cp'.open /\ DOMAIN sent' = {}
  BY DEF Execute, NoCheckpoint
<1>3. NoFilterDropped'
  BY <1>2 DEF NoFilterDropped
<1> QED
  BY <1>1, <1>2, <1>3, EntryBindings DEF RunInv

LEMMA AnswerBindings == ASSUME RunInv, BindInv, Answer PROVE BindInv'
<1>1. /\ ~cp'.open /\ NoFilterDropped'
      /\ \A name \in DOMAIN cp.given : cp.given[name] \in Raws
  BY DEF Answer, NoCheckpoint, BindInv, NoFilterDropped, Proposed
<1>2. \/ End(Failed("UNSUPPORTED"))
      \/ \E reply : Enter(cp.given, cp.completed, reply)
  BY DEF Answer, Rehydrate
<1>3. CASE End(Failed("UNSUPPORTED"))
  BY <1>1, <1>3, EndFacts, NoBindings DEF RunInv
<1> QED
  BY <1>1, <1>2, <1>3, EntryBindings DEF RunInv

(* One slot: its tokens get a value, or the pattern it has for being       *)
(* omitted, or nothing.  No token of it had any before.                    *)
LEMMA SlotGone ==
    ASSUME RunInv, BindInv, e.pc = "slots", e.slots # <<>>
    PROVE  LET D == Done + 1 IN
           /\ D \in DOMAIN e.bp.slots /\ Head(e.slots) = e.bp.slots[D] /\ D \in Nat
           /\ Tail(e.slots) \in Seq({e.bp.slots[i] : i \in DOMAIN e.bp.slots})
           /\ Len(Tail(e.slots)) <= Len(e.bp.slots)
           /\ Len(e.bp.slots) - Len(Tail(e.slots)) = D
           /\ \A j \in DOMAIN Tail(e.slots) : Tail(e.slots)[j] = e.bp.slots[D + j]
           /\ \A i \in DOMAIN e.bp.slots : i # D =>
                /\ NameOf(i) # NameOf(D) /\ TokensOf(i) \cap TokensOf(D) = {}
           /\ TokensOf(D) \cap (DOMAIN e.bound \cup DOMAIN e.omitted) = {}
           /\ TokensOf(D) \cap RuleTokens(e.bp) = {} /\ TokensOf(D) # {}
           /\ e.bp.slots[D].lo \in Nat /\ e.bp.slots[D].hi \in Nat
           /\ Done \in Nat /\ \A i \in 1..Done : i \in DOMAIN e.bp.slots
<1> DEFINE b == e.bp.slots
           D == Done + 1
           T == {b[i] : i \in DOMAIN b}
<1>1. /\ e.slots \in Seq(T) /\ Len(e.slots) <= Len(b)
      /\ \A j \in DOMAIN e.slots : e.slots[j] = b[Done + j]
      /\ \A k \in (DOMAIN e.bound) \cup (DOMAIN e.omitted) : \E i \in 1..Done : k \in TokensOf(i)
  BY DEF BindInv, Pending
<1>2. b \in Seq(T) /\ e.bp \in Catalog /\ ParsesBlueprint(e.bp)
  BY CatalogAssumption DEF RunInv, Shape, InProgress, BindInv, Disjoint
<1>3. /\ Len(b) \in Nat /\ DOMAIN b = 1..Len(b) /\ Len(e.slots) \in 1..Len(b)
      /\ DOMAIN e.slots = 1..Len(e.slots)
  BY <1>1, <1>2
<1>a. \A n \in Nat : \A l \in 1..n :
         /\ n - l \in Nat /\ (n - l) + 1 \in 1..n /\ (n - l) + 1 \in Nat
         /\ l - 1 <= n /\ n - (l - 1) = (n - l) + 1
         /\ \A i \in 1..(n - l) : i \in 1..n /\ i # (n - l) + 1
  OBVIOUS
<1>4. D \in 1..Len(b) /\ D \in Nat /\ Done \in Nat
  BY <1>3, <1>a DEF Done
<1>5. Head(e.slots) = b[D]
  <2>1. Head(e.slots) = e.slots[1] /\ 1 \in DOMAIN e.slots
    BY <1>1, <1>3
  <2> QED
    BY <1>1, <2>1
<1>6. /\ Tail(e.slots) \in Seq(T) /\ Len(Tail(e.slots)) = Len(e.slots) - 1
      /\ \A j \in 1..(Len(e.slots) - 1) : Tail(e.slots)[j] = e.slots[j + 1]
      /\ DOMAIN Tail(e.slots) = 1..(Len(e.slots) - 1)
  BY <1>1
<1>7. Len(Tail(e.slots)) <= Len(b) /\ Len(b) - Len(Tail(e.slots)) = D
  <2>1. Len(e.slots) - 1 <= Len(b) /\ Len(b) - (Len(e.slots) - 1) = D
    BY <1>3, <1>a DEF Done
  <2> QED
    BY <1>6, <2>1
<1>8. \A j \in DOMAIN Tail(e.slots) : Tail(e.slots)[j] = b[D + j]
  <2> SUFFICES ASSUME NEW j \in 1..(Len(e.slots) - 1) PROVE e.slots[j + 1] = b[D + j]
    BY <1>6
  <2>1. j + 1 \in DOMAIN e.slots /\ Done + (j + 1) = D + j
    BY <1>3, <1>4
  <2> QED
    BY <1>1, <2>1
<1>9. \A i \in DOMAIN b : i # D =>
        NameOf(i) # NameOf(D) /\ TokensOf(i) \cap TokensOf(D) = {}
  <2> SUFFICES ASSUME NEW i \in DOMAIN b, i # D
               PROVE  NameOf(i) # NameOf(D) /\ TokensOf(i) \cap TokensOf(D) = {}
    OBVIOUS
  <2>1. b[i].name # b[D].name
    BY <1>2, <1>4 DEF ParsesBlueprint
  <2> QED
    BY <2>1, TokensApart DEF NameOf, TokensOf
<1>10. TokensOf(D) \cap (DOMAIN e.bound \cup DOMAIN e.omitted) = {}
  <2> SUFFICES ASSUME NEW k \in (DOMAIN e.bound) \cup (DOMAIN e.omitted), k \in TokensOf(D) PROVE FALSE
    OBVIOUS
  <2>1. PICK i \in 1..Done : k \in TokensOf(i)
    BY <1>1
  <2>2. i \in 1..Len(b) /\ i # D
    BY <1>3, <1>a DEF Done
  <2> QED
    BY <1>3, <1>9, <2>1, <2>2
<1>11. TokensOf(D) # {}
  BY DEF TokensOf, SlotTokens
<1>12. TokensOf(D) \cap RuleTokens(e.bp) = {} /\ b[D].lo \in Nat /\ b[D].hi \in Nat
  BY <1>2, <1>4, CatalogAssumption DEF TokensOf
<1>13. \A i \in 1..Done : i \in DOMAIN b
  BY <1>3, <1>a DEF Done
<1> QED
  BY <1>1, <1>3, <1>4, <1>5, <1>6, <1>7, <1>8, <1>9, <1>10, <1>11, <1>12, <1>13

(* What was proposed under a name, or nothing.                             *)
LEMMA GivenShape ==
    ASSUME BindInv, e.pc # "idle", NEW name
    PROVE  DOMAIN Given(name) = DOMAIN Absent
BY RunAssumption DEF BindInv, Proposed, Given

(* The slot after it was resolved: its tokens may have a value that was    *)
(* not guessed, or a pattern, and those of the other slots are as before.  *)
LEMMA SlotResolved ==
    ASSUME RunInv, BindInv, e.pc = "slots", e.slots # <<>>, NoFilterDropped', cp' = cp,
           e'.pc = "slots", e'.bp = e.bp, e'.given = e.given, e'.slots = Tail(e.slots),
           NEW domain, e'.doms = Merge(e.doms, {Head(e.slots).name}, domain),
           \/ /\ e'.bound = e.bound
              /\ \E T \in SUBSET SlotTokens(Head(e.slots)) : \E v :
                   e'.omitted \in {e.omitted, Merge(e.omitted, T, v)}
           \/ /\ e'.omitted = e.omitted
              /\ \E v : /\ e'.bound = Merge(e.bound, SlotTokens(Head(e.slots)), v)
                        /\ NotGuessed(Head(e.slots), Given(Head(e.slots).name), domain, v)
    PROVE  BindInv'
<1> DEFINE b == e.bp.slots
           D == Done + 1
           s == b[D]
<1>1. /\ D \in DOMAIN b /\ Head(e.slots) = s /\ D \in Nat
      /\ Tail(e.slots) \in Seq({b[i] : i \in DOMAIN b})
      /\ Len(Tail(e.slots)) <= Len(b) /\ Len(b) - Len(Tail(e.slots)) = D
      /\ \A j \in DOMAIN Tail(e.slots) : Tail(e.slots)[j] = b[D + j]
      /\ \A i \in DOMAIN b : i # D => NameOf(i) # NameOf(D) /\ TokensOf(i) \cap TokensOf(D) = {}
      /\ TokensOf(D) \cap (DOMAIN e.bound \cup DOMAIN e.omitted) = {}
      /\ TokensOf(D) \cap RuleTokens(e.bp) = {} /\ TokensOf(D) # {}
      /\ Done \in Nat /\ \A i \in 1..Done : i \in DOMAIN b
  BY SlotGone
<1>2. /\ Done' = D /\ SlotTokens(s) = TokensOf(D) /\ s.name = NameOf(D)
      /\ \A i : TokensOf(i)' = TokensOf(i) /\ NameOf(i)' = NameOf(i)
      /\ \A name : Given(name)' = Given(name)
  BY <1>1 DEF Done, TokensOf, NameOf, Given
<1>3. /\ DOMAIN e'.doms = DOMAIN e.doms \cup {NameOf(D)} /\ e'.doms[NameOf(D)] = domain
      /\ \A x \in DOMAIN e.doms : x # NameOf(D) => e'.doms[x] = e.doms[x]
  BY <1>1, <1>2 DEF Merge
<1>4. /\ \A i \in 1..Done : NameOf(i) \in DOMAIN e.doms
      /\ \A k \in (DOMAIN e.bound) \cup (DOMAIN e.omitted) : \E i \in 1..Done : k \in TokensOf(i)
      /\ ParsesBlueprint(e.bp) /\ DOMAIN e.bound \cap DOMAIN e.omitted = {}
      /\ DOMAIN e.omitted \cap RuleTokens(e.bp) = {}
      /\ \A k \in DOMAIN e.bound : k \in RuleTokens(e.bp) => Confident(e.bound[k].items)
      /\ \A i \in DOMAIN b : TokensOf(i) \subseteq DOMAIN e.bound =>
           \A k \in TokensOf(i) :
             NotGuessed(b[i], Given(NameOf(i)), e.doms[NameOf(i)], e.bound[k])
  BY DEF BindInv, Pending, Disjoint, RulesBound, SlotsBound
<1> DEFINE Change(fresh, stays) ==
      /\ fresh \in SUBSET TokensOf(D) /\ stays \in SUBSET TokensOf(D)
      /\ fresh = {} \/ (fresh = TokensOf(D) /\ stays = {})
      /\ DOMAIN e'.bound = (DOMAIN e.bound) \cup fresh
      /\ DOMAIN e'.omitted = (DOMAIN e.omitted) \cup stays
      /\ \A k \in DOMAIN e.bound : e'.bound[k] = e.bound[k]
      /\ \A k \in fresh : NotGuessed(s, Given(NameOf(D)), domain, e'.bound[k])
<1>c. \E fresh, stays : Change(fresh, stays)
  <2>1. CASE /\ e'.bound = e.bound
             /\ \E T \in SUBSET SlotTokens(Head(e.slots)) : \E v :
                  e'.omitted \in {e.omitted, Merge(e.omitted, T, v)}
    <3>a. PICK T \in SUBSET TokensOf(D) :
            \E v : e'.omitted \in {e.omitted, Merge(e.omitted, T, v)}
      BY <1>1, <1>2, <2>1
    <3>1. PICK v : e'.omitted \in {e.omitted, Merge(e.omitted, T, v)}
      BY <3>a
    <3>2. CASE e'.omitted = e.omitted
      <4>1. Change({}, {})
        BY <2>1, <3>2
      <4> HIDE DEF Change
      <4> QED
        BY <4>1
    <3>3. CASE e'.omitted = Merge(e.omitted, T, v)
      <4>1. DOMAIN e'.omitted = (DOMAIN e.omitted) \cup T
        BY <3>3 DEF Merge
      <4>2. /\ T \in SUBSET TokensOf(D) /\ DOMAIN e'.bound = (DOMAIN e.bound) \cup {}
            /\ \A k \in DOMAIN e.bound : e'.bound[k] = e.bound[k]
        BY <2>1, <3>1
      <4>3. Change({}, T)
        BY <4>1, <4>2
      <4> HIDE DEF Change
      <4> QED
        BY <4>3
    <3> QED
      BY <3>1, <3>2, <3>3
  <2>2. CASE /\ e'.omitted = e.omitted
             /\ \E v : /\ e'.bound = Merge(e.bound, SlotTokens(Head(e.slots)), v)
                       /\ NotGuessed(Head(e.slots), Given(Head(e.slots).name), domain, v)
    <3>1. PICK v : /\ e'.bound = Merge(e.bound, TokensOf(D), v)
                   /\ NotGuessed(s, Given(NameOf(D)), domain, v)
      BY <1>1, <1>2, <2>2
    <3>2. /\ DOMAIN e'.bound = (DOMAIN e.bound) \cup TokensOf(D)
          /\ \A k \in TokensOf(D) : e'.bound[k] = v
          /\ \A k \in DOMAIN e.bound : e'.bound[k] = e.bound[k]
      BY <1>1, <3>1 DEF Merge
    <3>3. Change(TokensOf(D), {})
      BY <2>2, <3>1, <3>2
    <3> HIDE DEF Change
    <3> QED
      BY <3>3
  <2> QED
    BY <2>1, <2>2
<1>5. PICK fresh, stays : Change(fresh, stays)
  BY <1>c
<1>d. D = Done + 1
  OBVIOUS
<1> HIDE DEF D, s
<1>6. Pending'
  <2>1. \A i \in 1..D : i = D \/ i \in 1..Done
    BY <1>1, <1>d
  <2>2. 1..Done \subseteq 1..D /\ D \in 1..D
    BY <1>1, <1>d
  <2>3. \A i \in 1..D : NameOf(i) \in DOMAIN e'.doms
    BY <1>3, <1>4, <2>1
  <2>4. \A k \in (DOMAIN e'.bound) \cup (DOMAIN e'.omitted) : \E i \in 1..D : k \in TokensOf(i)
    BY <1>4, <1>5, <2>2
  <2> QED
    <3>1. /\ e'.slots \in Seq({e'.bp.slots[i] : i \in DOMAIN e'.bp.slots})
          /\ Len(e'.slots) <= Len(e'.bp.slots)
          /\ \A j \in DOMAIN e'.slots : e'.slots[j] = e'.bp.slots[D + j]
      BY <1>1
    <3> QED
      BY <1>2, <2>3, <2>4, <3>1 DEF Pending
<1>7. Disjoint'
  BY <1>1, <1>4, <1>5 DEF Disjoint
<1>8. SlotsBound'
  <2> SUFFICES ASSUME NEW i \in DOMAIN b, TokensOf(i) \subseteq DOMAIN e'.bound, NEW k \in TokensOf(i)
               PROVE  NotGuessed(b[i], Given(NameOf(i)), e'.doms[NameOf(i)], e'.bound[k])
    BY <1>2 DEF SlotsBound
  <2>1. CASE i = D
    <3>1. k \in fresh
      BY <1>1, <1>5, <2>1
    <3> QED
      BY <1>3, <1>5, <2>1, <3>1 DEF s
  <2>2. CASE i # D
    <3>1. TokensOf(i) \subseteq DOMAIN e.bound
      BY <1>1, <1>5, <2>2
    <3>2. NameOf(i) \in DOMAIN e.doms /\ NameOf(i) # NameOf(D)
      <4>1. PICK h \in 1..Done : k \in TokensOf(h)
        BY <1>4, <3>1
      <4>2. h = i
        <5>1. h \in DOMAIN b
          BY <1>1, <4>1
        <5>2. b[h].name = b[i].name
          BY <4>1, TokensApart DEF TokensOf
        <5> QED
          BY <1>4, <5>1, <5>2 DEF ParsesBlueprint
      <4> QED
        BY <1>1, <1>4, <2>2, <4>1, <4>2
    <3> QED
      BY <1>3, <1>4, <1>5, <3>1, <3>2
  <2> QED
    BY <2>1, <2>2
<1>9. RulesBound'
  BY <1>1, <1>4, <1>5 DEF RulesBound
<1>10. Proposed'
  BY DEF BindInv, Proposed
<1> QED
  BY <1>6, <1>7, <1>8, <1>9, <1>10 DEF BindInv

LEMMA SlotBindings == ASSUME RunInv, BindInv, Slot PROVE BindInv'
<1> DEFINE s == Head(e.slots)
           raw == Given(s.name)
<1>1. /\ e.pc = "slots" /\ e.slots # <<>> /\ DOMAIN e = RunFields /\ ~cp.open /\ NoFilterDropped'
  BY DEF Slot, RunInv, Shape, InProgress, BindInv, NoFilterDropped, runVars
<1>2. PICK probe \in ProbeDomain(s, raw) :
        LET r == ResolveSlot(raw, s, probe[1])
            x == [e EXCEPT !.slots = Tail(@), !.foot = @ \cup probe[2],
                           !.doms = Merge(@, {s.name}, probe[1])]
        IN  CASE r.is = "ask" -> PauseAt(e, NoNode, <<>>)
              [] r.is = "omit" ->
                   /\ e' = IF s.pattern = "none" THEN x
                           ELSE [x EXCEPT !.omitted =
                                   Merge(@, SlotTokens(s) \cap AllReferenced(e.bp), s.pattern)]
                   /\ UNCHANGED <<cp, outcome>>
              [] r.is = "bind" /\ ~(SlotTokens(s) \subseteq AllReferenced(e.bp)) ->
                   End(Failed("SLOT_INVALID")) /\ UNCHANGED cp
              [] OTHER ->
                   /\ e' = [x EXCEPT !.bound = Merge(@, SlotTokens(s), r.value)]
                   /\ UNCHANGED <<cp, outcome>>
  BY DEF Slot
<1> DEFINE r == ResolveSlot(raw, s, probe[1])
           x == [e EXCEPT !.slots = Tail(@), !.foot = @ \cup probe[2],
                          !.doms = Merge(@, {s.name}, probe[1])]
<1>3. probe[1].known => IsFiniteSet(probe[1].values)
  BY RunAssumption DEF ProbeDomain, NoDomain
<1>4. s.lo \in Nat /\ s.hi \in Nat
  BY <1>1, SlotGone
<1>5. DOMAIN raw = DOMAIN Absent
  BY <1>1, GivenShape
<1>6. r.is \in {"ask", "omit", "bind"}
  BY DEF ResolveSlot, ResolveWindow, ResolveRange, ResolveScalar, ResolveEnum, ResolvePeriod,
         ResolveList, BindMatch, Binds, AsksUser, Omits
<1>7. CASE r.is = "ask"
  <2>1. PauseAt(e, NoNode, <<>>)
    BY <1>2, <1>7
  <2>2. e'.pc = "idle" /\ cp'.given = e.given
    BY <2>1 DEF PauseAt, IdleRun
  <2> QED
    BY <1>1, <2>2, NoBindings DEF BindInv, Proposed
<1>8. CASE r.is = "omit"
  <2> DEFINE T == SlotTokens(s) \cap AllReferenced(e.bp)
  <2>1. e' = (IF s.pattern = "none" THEN x ELSE [x EXCEPT !.omitted = Merge(@, T, s.pattern)]) /\ cp' = cp
    BY <1>2, <1>8
  <2>2. /\ e'.pc = "slots" /\ e'.bp = e.bp /\ e'.given = e.given /\ e'.slots = Tail(e.slots)
        /\ e'.doms = Merge(e.doms, {s.name}, probe[1]) /\ e'.bound = e.bound
        /\ e'.omitted \in {e.omitted, Merge(e.omitted, T, s.pattern)}
    BY <1>1, <2>1 DEF RunFields
  <2>3. T \in SUBSET SlotTokens(s)
    OBVIOUS
  <2>4. \E U \in SUBSET SlotTokens(s) : \E v : e'.omitted \in {e.omitted, Merge(e.omitted, U, v)}
    BY <2>2, <2>3
  <2> QED
    BY <1>1, <2>1, <2>2, <2>4, SlotResolved
<1>9. CASE r.is = "bind" /\ ~(SlotTokens(s) \subseteq AllReferenced(e.bp))
  <2>1. End(Failed("SLOT_INVALID")) /\ cp' = cp
    BY <1>2, <1>9
  <2> QED
    BY <1>1, <2>1, EndFacts, NoBindings DEF RunInv
<1>10. CASE r.is = "bind" /\ SlotTokens(s) \subseteq AllReferenced(e.bp)
  <2>1. e' = [x EXCEPT !.bound = Merge(@, SlotTokens(s), r.value)] /\ cp' = cp
    BY <1>2, <1>10
  <2>2. NotGuessed(s, raw, probe[1], r.value)
    BY <1>3, <1>4, <1>5, <1>10, SlotNotGuessed
  <2> HIDE DEF r
  <2>3. /\ e'.pc = "slots" /\ e'.bp = e.bp /\ e'.given = e.given /\ e'.slots = Tail(e.slots)
        /\ e'.doms = Merge(e.doms, {s.name}, probe[1]) /\ e'.omitted = e.omitted
        /\ e'.bound = Merge(e.bound, SlotTokens(s), r.value)
    BY <1>1, <2>1 DEF RunFields
  <2> QED
    BY <1>1, <2>1, <2>2, <2>3, SlotResolved
<1> QED
  BY <1>6, <1>7, <1>8, <1>9, <1>10

LEMMA ExpandRulesBindings == ASSUME RunInv, BindInv, ExpandRules PROVE BindInv'
<1>1. /\ e.pc = "slots" /\ DOMAIN e = RunFields /\ ~cp.open /\ cp' = cp /\ NoFilterDropped'
      /\ e.bp \in Catalog
  BY DEF ExpandRules, RunInv, Shape, InProgress, BindInv, NoFilterDropped, runVars
<1>2. \/ e' = StartWalk(e)
      \/ \E c : End(Failed(c))
      \/ \E r \in Resolved : \E f :
           /\ ExpandRule(r, Gap, Floor).is \notin {"denied", "fallback"}
           /\ e' = StartWalk([e EXCEPT !.foot = f,
                               !.bound = Merge(@, RuleTokens(e.bp),
                                               Codes(ExpandRule(r, Gap, Floor).codes))])
  BY <1>1 DEF ExpandRules, RunFields
<1>3. CASE e' = StartWalk(e)
  <2>1. /\ e'.pc = "walk" /\ e'.bp = e.bp /\ e'.given = e.given /\ e'.bound = e.bound
        /\ e'.omitted = e.omitted /\ e'.doms = e.doms
    BY <1>1, <1>3 DEF StartWalk, RunFields
  <2> QED
    BY <1>1, <2>1, BindingsStand
<1>4. ASSUME NEW c, End(Failed(c)) PROVE BindInv'
  BY <1>1, <1>4, EndFacts, NoBindings DEF RunInv
<1>5. ASSUME NEW r \in Resolved, NEW f,
             ExpandRule(r, Gap, Floor).is \notin {"denied", "fallback"},
             e' = StartWalk([e EXCEPT !.foot = f,
                               !.bound = Merge(@, RuleTokens(e.bp),
                                               Codes(ExpandRule(r, Gap, Floor).codes))])
      PROVE  BindInv'
  <2> DEFINE codes == ExpandRule(r, Gap, Floor).codes
             R == RuleTokens(e.bp)
  <2>1. ExpandRule(r, Gap, Floor).is = "bind"
    BY <1>5 DEF ExpandRule
  <2>2. Confident(Codes(codes).items)
    <3>1. Codes(codes).items = codes
      BY DEF Codes, Absent
    <3> QED
      BY <2>1, <3>1, RuleConfident
  <2> HIDE DEF codes, R
  <2>3. /\ e'.pc = "walk" /\ e'.bp = e.bp /\ e'.given = e.given
        /\ e'.bound = Merge(e.bound, R, Codes(codes))
        /\ e'.omitted = e.omitted /\ e'.doms = e.doms
    BY <1>1, <1>5 DEF StartWalk, RunFields, codes, R
  <2>4. /\ DOMAIN e'.bound = (DOMAIN e.bound) \cup R /\ \A k \in R : e'.bound[k] = Codes(codes)
        /\ \A k \in DOMAIN e.bound : k \notin R => e'.bound[k] = e.bound[k]
    BY <2>3 DEF Merge
  <2>5. \A i \in DOMAIN e.bp.slots : TokensOf(i) \cap R = {}
    BY <1>1, CatalogAssumption DEF TokensOf, R
  <2>6. Disjoint'
    BY <1>1, <2>3, <2>4 DEF BindInv, Disjoint, R
  <2>7. SlotsBound'
    <3>1. /\ \A i : TokensOf(i)' = TokensOf(i) /\ NameOf(i)' = NameOf(i)
          /\ \A name : Given(name)' = Given(name)
      BY <2>3 DEF TokensOf, NameOf, Given
    <3> SUFFICES ASSUME NEW i \in DOMAIN e.bp.slots, TokensOf(i) \subseteq DOMAIN e'.bound,
                        NEW k \in TokensOf(i)
                 PROVE  NotGuessed(e.bp.slots[i], Given(NameOf(i)), e.doms[NameOf(i)], e'.bound[k])
      BY <2>3, <3>1 DEF SlotsBound
    <3>2. TokensOf(i) \subseteq DOMAIN e.bound /\ k \notin R
      BY <2>4, <2>5
    <3>3. e'.bound[k] = e.bound[k]
      BY <2>4, <3>2
    <3> QED
      BY <1>1, <3>2, <3>3 DEF BindInv, SlotsBound
  <2>8. RulesBound'
    BY <2>2, <2>3, <2>4 DEF RulesBound, R
  <2>9. Pending' /\ Proposed'
    BY <1>1, <2>3 DEF BindInv, Pending, Proposed
  <2> QED
    BY <1>1, <2>6, <2>7, <2>8, <2>9 DEF BindInv
<1> QED
  BY <1>2, <1>3, <1>4, <1>5

---------------------------------------------------------------------------
(* The walk adds to the records of the run and leaves its bindings alone.  *)
LEMMA WalkBindings ==
    ASSUME RunInv, BindInv, PassOver \/ Gate \/ Finalize
    PROVE  BindInv'
<1>1. /\ e.pc = "walk" /\ DOMAIN e = RunFields /\ ~cp.open /\ NoFilterDropped'
  BY DEF PassOver, Gate, Finalize, Walking, RunInv, Shape, InProgress, BindInv, NoFilterDropped,
         runVars
<1>2. \/ /\ cp' = cp /\ e'.pc \in {"walk", "query"} /\ e'.bp = e.bp /\ e'.given = e.given
         /\ e'.bound = e.bound /\ e'.omitted = e.omitted /\ e'.doms = e.doms
      \/ \E x : End(x) /\ cp' = cp
      \/ \E o, completed : PauseAt(e, o, completed)
  <2>1. CASE PassOver
    BY <1>1, <2>1 DEF PassOver, RunFields
  <2>2. CASE Finalize
    BY <2>2 DEF Finalize
  <2>3. CASE Gate
    <3> DEFINE o == Current
    <3>1. \/ \E c : End(Failed(c)) /\ UNCHANGED cp
          \/ PauseAt(e, o, e.running)
          \/ e' = RecordEmpty(e, o) /\ UNCHANGED <<cp, outcome>>
          \/ /\ e' = [e EXCEPT !.pc = "query",
                               !.running = IF NodesOf(e)[o].gate THEN With(e.running, o, EmptyRecord)
                                           ELSE e.running]
             /\ UNCHANGED <<cp, outcome>>
      BY <1>1, <2>3 DEF Gate, RunFields
    <3>2. CASE e' = RecordEmpty(e, o) /\ UNCHANGED <<cp, outcome>>
      BY <1>1, <3>2 DEF RecordEmpty, RunFields
    <3>3. CASE /\ e' = [e EXCEPT !.pc = "query",
                               !.running = IF NodesOf(e)[o].gate THEN With(e.running, o, EmptyRecord)
                                           ELSE e.running]
               /\ UNCHANGED <<cp, outcome>>
      BY <1>1, <3>3 DEF RunFields
    <3> HIDE DEF o
    <3> QED
      BY <3>1, <3>2, <3>3
  <2> QED
    BY <2>1, <2>2, <2>3
<1>3. ASSUME NEW x, End(x), cp' = cp PROVE BindInv'
  BY <1>1, <1>3, EndFacts, NoBindings DEF RunInv
<1>4. ASSUME NEW o, NEW completed, PauseAt(e, o, completed) PROVE BindInv'
  <2>1. e'.pc = "idle" /\ cp'.given = e.given
    BY <1>4 DEF PauseAt, IdleRun
  <2> QED
    BY <1>1, <2>1, NoBindings DEF BindInv, Proposed
<1> QED
  BY <1>1, <1>2, <1>3, <1>4, BindingsStand

(* A dispatched query has every token that has a value.                    *)
LEMMA QueryKeepsFilters ==
    ASSUME BindInv, e.pc = "query", Bindable(Current), NEW x,
           x.toks = UNION {p.toks : p \in NodeQuery(e, Current).sites},
           x.had = DOMAIN NodeBindings(e, Current),
           sent' = With(sent, Current, x)
    PROVE  NoFilterDropped'
<1> DEFINE o == Current
           t == NodesOf(e)[o].sql
           bindings == NodeBindings(e, o)
           tables == NodesOf(e)[o].tables
<1>1. DOMAIN bindings \cap DOMAIN e.omitted = {}
  BY DEF NodeBindings, BindInv, Disjoint
<1>2. BindTemplate(t, bindings, tables, e.omitted).ok
  BY DEF Bindable, NodeQuery
<1>3. DOMAIN bindings \subseteq UNION {p.toks : p \in BindTemplate(t, bindings, tables, e.omitted).sites}
  <2> HIDE DEF t, bindings, tables
  <2> QED
    BY <1>1, <1>2, BoundTokensStay
<1>4. x.had \subseteq x.toks
  BY <1>3 DEF NodeQuery
<1>5. /\ DOMAIN sent' = DOMAIN sent \cup {o} /\ sent'[o] = x
      /\ \A q \in DOMAIN sent : q # o => sent'[q] = sent[q]
  BY DEF With
<1> HIDE DEF o
<1> QED
  BY <1>4, <1>5 DEF BindInv, NoFilterDropped

LEMMA QueryBindings == ASSUME RunInv, BindInv, Query PROVE BindInv'
<1> DEFINE o == Current
           n == NodesOf(e)[o]
<1>1. /\ e.pc = "query" /\ DOMAIN e = RunFields /\ ~cp.open /\ cp' = cp
  BY CurrentNode DEF Query, Walking, RunInv, Shape, InProgress, Placed
<1>2. CASE ~Bindable(o)
  <2>1. End(Failed("SLOT_INVALID")) /\ UNCHANGED sent
    BY <1>1, <1>2 DEF Query
  <2>2. NoFilterDropped'
    BY <2>1 DEF BindInv, NoFilterDropped
  <2> QED
    BY <1>1, <2>1, <2>2, EndFacts, NoBindings DEF RunInv
<1>3. CASE Bindable(o)
  <2> DEFINE x == [n |-> IF o \in DOMAIN sent THEN sent[o].n + 1 ELSE 1,
                   toks |-> UNION {p.toks : p \in NodeQuery(e, o).sites},
                   had |-> DOMAIN NodeBindings(e, o)]
  <2>1. PICK r \in {y \in Results : Sane(y)} \cup {Denied} :
          /\ sent' = With(sent, o, x)
          /\ live' = IF r.ok
                      THEN With(live, o, [rows |-> r.rows, prov |-> r.prov, val |-> r.val])
                      ELSE live
          /\ CASE ~r.ok -> End(Failed("denied"))
               [] r.ok /\ o \in TableConsumed(NodesOf(e)) -> Materialize(o, r)
               [] r.ok /\ o \notin TableConsumed(NodesOf(e))
                    /\ ScalarOutput(n, r) = "invalid" -> End(Failed("SLOT_INVALID"))
               [] OTHER ->
                    LET v == ScalarOutput(n, r) IN
                    /\ e' = [Ran(o, r) EXCEPT
                               !.running = With(@, o, NodeRecord(v, r.prov, TRUE)),
                               !.env = With(@, o, [rows |-> r.rows, val |-> v]),
                               !.terminal = o]
                    /\ UNCHANGED outcome
    BY <1>3 DEF Query
  <2>2. NoFilterDropped'
    BY <1>1, <1>3, <2>1, QueryKeepsFilters
  <2>3. ASSUME NEW c, End(Failed(c)) PROVE BindInv'
    BY <1>1, <2>2, <2>3, EndFacts, NoBindings DEF RunInv
  <2>4. ASSUME e'.pc = "walk", e'.bp = e.bp, e'.given = e.given, e'.bound = e.bound,
               e'.omitted = e.omitted, e'.doms = e.doms
        PROVE  BindInv'
    BY <1>1, <2>2, <2>4, BindingsStand
  <2>5. CASE ~r.ok
    BY <2>1, <2>3, <2>5
  <2>6. CASE r.ok /\ o \in TableConsumed(NodesOf(e))
    <3>1. CASE End(Failed("UNSUPPORTED"))
      BY <2>3, <3>1
    <3>2. CASE /\ e' = LET y == RecordEmpty(Ran(o, r), o) IN
                       [y EXCEPT !.scratch = @ \cup {o},
                                 !.running = With(@, o, NodeRecord("absent", r.prov, TRUE))]
               /\ UNCHANGED outcome
      <4>1. /\ e'.pc = "walk" /\ e'.bp = e.bp /\ e'.given = e.given /\ e'.bound = e.bound
            /\ e'.omitted = e.omitted /\ e'.doms = e.doms
        BY <1>1, <3>2 DEF RecordEmpty, Ran, RunFields
      <4> QED
        BY <2>4, <4>1
    <3> QED
      BY <2>1, <2>6, <3>1, <3>2 DEF Materialize
  <2>7. CASE r.ok /\ o \notin TableConsumed(NodesOf(e)) /\ ScalarOutput(n, r) = "invalid"
    BY <2>1, <2>3, <2>7
  <2>8. CASE r.ok /\ o \notin TableConsumed(NodesOf(e)) /\ ScalarOutput(n, r) # "invalid"
    <3> DEFINE v == ScalarOutput(n, r)
    <3>1. e' = [Ran(o, r) EXCEPT
                  !.running = With(@, o, NodeRecord(v, r.prov, TRUE)),
                  !.env = With(@, o, [rows |-> r.rows, val |-> v]),
                  !.terminal = o]
      BY <2>1, <2>8
    <3> HIDE DEF v
    <3>2. /\ e'.pc = "walk" /\ e'.bp = e.bp /\ e'.given = e.given /\ e'.bound = e.bound
          /\ e'.omitted = e.omitted /\ e'.doms = e.doms
      BY <1>1, <3>1 DEF Ran, RunFields
    <3> QED
      BY <2>4, <3>2
  <2> QED
    BY <2>5, <2>6, <2>7, <2>8
<1> QED
  BY <1>2, <1>3

LEMMA StandsBindings ==
    ASSUME BindInv, UNCHANGED <<e, cp, sent>>
    PROVE  BindInv'
BY DEF BindInv, Pending, Disjoint, Proposed, SlotsBound, RulesBound, NoFilterDropped, NameOf,
       TokensOf, Given, Done

(* While _resolve_all_slots and _expand_rules bind a run, each token gets  *)
(* one value or one pattern, and no later step of the walk changes it.     *)
THEOREM BindingsInvariant == BlueprintSpec => []BindInv
<1>1. RunInv /\ BindInv /\ [BlueprintNext]_blueprintVars => BindInv'
  <2> SUFFICES ASSUME RunInv, BindInv, [BlueprintNext]_blueprintVars PROVE BindInv'
    OBVIOUS
  <2>1. CASE UNCHANGED blueprintVars \/ Narrow \/ Reseed
    BY <2>1, StandsBindings DEF blueprintVars, runVars, Narrow, Reseed
  <2> QED
    BY <2>1, ExecuteBindings, AnswerBindings, SlotBindings, ExpandRulesBindings, WalkBindings,
       QueryBindings DEF BlueprintNext
<1> QED
  BY <1>1, InitBindings, BlueprintInvariant, PTL DEF BlueprintSpec

(* The query that runs is the one that was asked for: whatever predicates  *)
(* the patterns of omitted slots replaced, every slot and rule with a      *)
(* value is bound in it (bind_template), a word is the only value of its   *)
(* domain it can mean, a window and a range are in bounds (slots.py), and  *)
(* the codes of a rule are a confident prefix of their ranking without a   *)
(* significant gap (_select_subset in rules.py).                           *)
THEOREM QueriesAreFaithful == BlueprintSpec => []BindsFaithfully
<1>1. BindInv => BindsFaithfully
  <2> SUFFICES ASSUME BindInv PROVE BindsFaithfully
    OBVIOUS
  <2>1. ASSUME e.pc # "idle", NEW i \in DOMAIN e.bp.slots, TokensOf(i) \subseteq DOMAIN e.bound
        PROVE  NotGuessed(e.bp.slots[i], Given(NameOf(i)), e.doms[NameOf(i)],
                          e.bound[Only(TokensOf(i))])
    <3>1. TokensOf(i) # {}
      BY SlotHasToken DEF TokensOf
    <3>2. Only(TokensOf(i)) \in TokensOf(i)
      BY <3>1 DEF Only
    <3> QED
      BY <2>1, <3>2 DEF BindInv, SlotsBound
  <2>2. ASSUME e.pc # "idle", NEW k \in DOMAIN e.bound, k \in RuleTokens(e.bp)
        PROVE  Confident(e.bound[k].items)
    BY <2>2 DEF BindInv, RulesBound
  <2>3. ASSUME e.pc # "idle", NEW i \in DOMAIN e.bp.slots,
               SlotTokens(e.bp.slots[i]) \subseteq DOMAIN e.bound
        PROVE  NotGuessed(e.bp.slots[i], Given(e.bp.slots[i].name), e.doms[e.bp.slots[i].name],
                          e.bound[Only(SlotTokens(e.bp.slots[i]))])
    BY <2>1, <2>3 DEF NameOf, TokensOf
  <2>4. NeverGuesses
    BY <2>2, <2>3 DEF NeverGuesses, NotGuessed, Confident
  <2> QED
    BY <2>4 DEF BindInv, BindsFaithfully
<1> QED
  BY <1>1, BindingsInvariant, PTL
=============================================================================
