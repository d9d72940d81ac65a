-------------------------- MODULE AgentTurnProofs --------------------------
(***************************************************************************)
(* The inductive invariant of AgentTurn, for any requests, intents and     *)
(* budgets, and what follows from it for the exits of a turn.              *)
(***************************************************************************)
EXTENDS AgentTurn, TLAPS

(* The invariant one request at a time: r is the record of its locals, l   *)
(* the ledger.                                                             *)
Unrecorded(r) == IF "ask_user_judge" \in r.granted THEN 1 ELSE 0

Counted(r) ==
    /\ r.pc \in {"append", "load", "blueprint"} => r.rounds = 0 /\ r.iters = 0
    /\ r.pc = "round" => r.iters < MaxIterations /\ r.rounds = r.iters + Unrecorded(r)
    /\ r.pc \in {"gates", "state", "tools", "ask", "record"} =>
         r.iters < MaxIterations /\ r.rounds = r.iters + 1 + Unrecorded(r)
    /\ r.rounds <= MaxIterations + Unrecorded(r)

Windowed(r) ==
    /\ r.turn \in Turns /\ r.window \in Windows
    /\ (r.pc = "pause" \/ r.after = "pause") /\ r.reason = "budget_cap" =>
         r.window < MaxWindows

Local(r) ==
    /\ r.pc \in {"round", "state", "ask"} => ~r.refused
    /\ r.pc = "idle" => r = Idle
    /\ r.pc \in {"append", "load", "blueprint"} => r.granted = {}
    /\ r.pc \in {"round", "state", "ask"} => ~r.final
    /\ r.pc = "force" =>
         /\ r.after \in {"gates", "pause", "return"}
         /\ r.after = "gates" =>
              r.iters < MaxIterations /\ r.rounds = r.iters + 1 + Unrecorded(r)
    /\ \A k \in 1..Len(r.todo) : r.todo[k] # "ask_user_judge"
    /\ r.draft # "refused"

Quiet(r, l) == r.alone /\ ~r.lost /\ l.turn = r.turn

Copied(r, l) ==
    r.pc \notin {"idle", "append", "load", "blueprint", "pause"} /\ Quiet(r, l)
    => r.know = l.st

Settled(r, l) == PastTheGate(r) /\ Quiet(r, l) => PendingIntents(l.st) = {}

Good(r, l) ==
    /\ r \in Body
    /\ Counted(r) /\ Windowed(r) /\ Local(r)
    /\ Copied(r, l) /\ Settled(r, l)

(* What is stored, and the history.                                        *)
Stored ==
    /\ last \in Turns \cup {-1}
    /\ cp \in [open : BOOLEAN, reason : Reasons, window : Windows]
    /\ ledger \in [turn : Turns \cup {-1}, st : [Intents -> Statuses]]
    /\ claims \in SUBSET (Turns \X Windows \X Kinds)
    /\ trail \in [Turns -> SUBSET Facts]
    /\ nudges \in SUBSET (Turns \X Windows)
    /\ requests \in 0..MaxRequests
    /\ errors \in 0..MaxErrors
    /\ aborts \in 0..MaxAborts
    /\ ledger.turn # -1 => ledger.st # NoState
    /\ cp.open /\ cp.reason = "budget_cap" => cp.window < MaxWindows
    /\ SpentOnNudges

PInv ==
    /\ Stored
    /\ b \in [Procs -> Body]
    /\ \A p \in Procs : Good(b[p], ledger)
    /\ AloneIsAlone

(* The two forms of the invariant say the same.                            *)
LEMMA InvariantForms == IInv <=> PInv
<1>1. TypeOK /\ SpentOnNudges /\ (ledger.turn # -1 => ledger.st # NoState)
      /\ (cp.open /\ cp.reason = "budget_cap" => cp.window < MaxWindows)
      <=> Stored /\ b \in [Procs -> Body]
  BY Zenon DEF TypeOK, Stored
<1>2. RoundsCounted <=> \A p \in Procs : Counted(b[p])
  BY Zenon DEF RoundsCounted, Counted, Unrecorded
<1>3. WindowsBounded <=>
        /\ (cp.open /\ cp.reason = "budget_cap" => cp.window < MaxWindows)
        /\ \A p \in Procs : Windowed(b[p])
  BY Zenon DEF WindowsBounded, Windowed
<1>4. RoundsFresh /\ LocalsFit <=> \A p \in Procs : Local(b[p])
  BY Zenon DEF RoundsFresh, LocalsFit, Local, Unrecorded
<1>5. CopyCurrent <=> \A p \in Procs : Copied(b[p], ledger)
  BY Zenon DEF CopyCurrent, Copied, Undisturbed, Quiet
<1>6. SettledPastTheGate <=> \A p \in Procs : Settled(b[p], ledger)
  BY Zenon DEF SettledPastTheGate, Settled, Undisturbed, Quiet
<1>7. ASSUME b \in [Procs -> Body] PROVE \A p \in Procs : b[p] \in Body
  BY <1>7
<1> QED
  BY <1>1, <1>2, <1>3, <1>4, <1>5, <1>6, <1>7, Zenon DEF IInv, PInv, Good

(* Idle requests are good, whatever the ledger is.                         *)
LEMMA IdleGood ==
    ASSUME NEW l PROVE Good(Idle, l)
<1>1. Idle \in Body
  BY DEF Idle, Body, PC, Statuses, NoState, Kinds, NoAnswer, Answers, Reasons
<1>2. Counted(Idle) /\ Windowed(Idle) /\ Local(Idle)
  BY TurnAssumption DEF Counted, Windowed, Local, Idle, Unrecorded, Turns, Windows
<1>3. Copied(Idle, l) /\ Settled(Idle, l)
  BY DEF Copied, Settled, PastTheGate, Idle
<1> QED
  BY <1>1, <1>2, <1>3 DEF Good

(* A step in which p changes its own locals to r, and the ledger at most   *)
(* for the turn it works on, is a step of the invariant when r is good:    *)
(* another request on that turn does not count as alone.                   *)
LEMMA Frame ==
    ASSUME PInv, NEW p \in Procs, NEW r,
           b' = [b EXCEPT ![p] = r], Good(r, ledger'), Stored',
           r.pc # "idle" =>
             b[p].pc # "idle" /\ r.turn = b[p].turn /\ (r.alone => b[p].alone),
           ledger' = ledger \/ (b[p].pc # "idle" /\ ledger'.turn = b[p].turn)
    PROVE  PInv'
<1>1. b \in [Procs -> Body] /\ r \in Body
  BY DEF PInv, Good
<1>2. b' \in [Procs -> Body]
  BY <1>1
<1>3. b'[p] = r /\ \A q \in Procs : q # p => b'[q] = b[q]
  BY <1>1
<1>4. ASSUME NEW q \in Procs, q # p PROVE Good(b[q], ledger')
  <2>1. Good(b[q], ledger)
    BY DEF PInv
  <2>2. CASE ledger' = ledger
    BY <2>1, <2>2
  <2>3. CASE b[p].pc # "idle" /\ ledger'.turn = b[p].turn
    <3>1. b[q].pc # "idle" /\ ledger'.turn = b[q].turn => ~b[q].alone
      BY <1>4, <2>3 DEF PInv, AloneIsAlone, On
    <3>2. Copied(b[q], ledger')
      BY <3>1 DEF Copied, Quiet
    <3>3. PastTheGate(b[q]) => b[q].pc # "idle"
      BY <2>1 DEF Good, Local, PastTheGate, Idle
    <3>4. Settled(b[q], ledger')
      BY <3>1, <3>3 DEF Settled, Quiet
    <3> QED
      BY <2>1, <3>2, <3>4 DEF Good
  <2> QED
    BY <2>2, <2>3
<1>5. \A q \in Procs : Good(b'[q], ledger')
  BY <1>3, <1>4
<1>6. AloneIsAlone'
  <2> SUFFICES ASSUME NEW x \in Procs, NEW y \in Procs, x # y,
                      b'[x].pc # "idle", b'[y].pc # "idle", b'[y].turn = b'[x].turn
               PROVE  ~b'[x].alone
    BY DEF AloneIsAlone, On
  <2>1. CASE x = p
    BY <1>3, <2>1 DEF PInv, AloneIsAlone, On
  <2>2. CASE y = p
    BY <1>3, <2>2 DEF PInv, AloneIsAlone, On
  <2>3. CASE x # p /\ y # p
    BY <1>3, <2>3 DEF PInv, AloneIsAlone, On
  <2> QED
    BY <2>1, <2>2, <2>3
<1> QED
  BY <1>2, <1>5, <1>6 DEF PInv

(* What does not touch the store keeps it.                                 *)
LEMMA StoredFrame ==
    ASSUME Stored, UNCHANGED <<docVars, nudges, requests, errors, aborts>>
    PROVE  Stored'
BY DEF Stored, docVars, SpentOnNudges

(* A step that changes only the locals of p.                               *)
LEMMA LocalStep ==
    ASSUME PInv, NEW p \in Procs, NEW s, b' = [b EXCEPT ![p] = s], Good(s, ledger),
           UNCHANGED <<docVars, nudges, requests, errors, aborts>>,
           s.pc # "idle" =>
             b[p].pc # "idle" /\ s.turn = b[p].turn /\ (s.alone => b[p].alone)
    PROVE  PInv'
<1>1. Stored' /\ ledger' = ledger
  BY StoredFrame DEF PInv, docVars
<1>2. Good(s, ledger')
  BY <1>1
<1> QED
  BY <1>1, <1>2, Frame

(* A step that changes the locals of p and parts of the document that no   *)
(* request reads a second time.                                            *)
LEMMA DocumentStep ==
    ASSUME PInv, NEW p \in Procs, NEW s, b' = [b EXCEPT ![p] = s], Good(s, ledger),
           Stored', ledger' = ledger,
           s.pc # "idle" =>
             b[p].pc # "idle" /\ s.turn = b[p].turn /\ (s.alone => b[p].alone)
    PROVE  PInv'
<1>1. Good(s, ledger')
  OBVIOUS
<1> QED
  BY <1>1, Frame

(* A request that is about to load its session.                            *)
LEMMA LoadGood ==
    ASSUME NEW l, NEW r, Good(r, l), r.pc \in {"append", "blueprint"},
           NEW s \in Body, s = [r EXCEPT !.pc = "load"]
    PROVE  Good(s, l)
<1>1. /\ s.pc = "load" /\ s.rounds = r.rounds /\ s.iters = r.iters /\ s.granted = r.granted
      /\ s.turn = r.turn /\ s.window = r.window /\ s.after = r.after /\ s.reason = r.reason
      /\ s.final = r.final /\ s.todo = r.todo /\ s.draft = r.draft
      /\ s.alone = r.alone /\ s.lost = r.lost
  BY DEF Good, Body
<1>2. Counted(s)
  BY <1>1 DEF Good, Counted, Unrecorded
<1>3. Windowed(s) /\ Local(s)
  BY <1>1 DEF Good, Windowed, Local
<1>4. Copied(s, l) /\ Settled(s, l)
  BY <1>1 DEF Good, Copied, Settled, PastTheGate, Quiet
<1> QED
  BY <1>2, <1>3, <1>4 DEF Good

(* A question, an approval or a blueprint's pause ends the work of a       *)
(* request.                                                                *)
LEMMA PauseGood ==
    ASSUME NEW l, NEW r, Good(r, l), NEW reason \in Reasons \ {"budget_cap"},
           r.pc \in {"blueprint", "tools", "ask"}
    PROVE  Good([r EXCEPT !.pc = "pause", !.reason = reason], l)
<1> DEFINE s == [r EXCEPT !.pc = "pause", !.reason = reason]
<1>1. s \in Body
  <2>1. r \in Body /\ reason \in Reasons /\ "pause" \in PC
    BY DEF Good, PC
  <2> QED
    BY <2>1 DEF Body
<1>2. /\ s.pc = "pause" /\ s.rounds = r.rounds /\ s.iters = r.iters /\ s.granted = r.granted
      /\ s.turn = r.turn /\ s.window = r.window /\ s.after = r.after /\ s.reason = reason
      /\ s.final = r.final /\ s.todo = r.todo /\ s.draft = r.draft
      /\ s.alone = r.alone /\ s.lost = r.lost
  BY DEF Good, Body
<1> HIDE DEF s
<1>3. Counted(s)
  BY <1>2 DEF Good, Counted, Unrecorded
<1>4. Windowed(s) /\ Local(s)
  BY <1>2 DEF Good, Windowed, Local
<1>5. Copied(s, l) /\ Settled(s, l)
  BY <1>2 DEF Good, Copied, Settled, PastTheGate, Quiet
<1> QED
  BY <1>1, <1>3, <1>4, <1>5 DEF Good, s

(* A round begins with a recorded budget and a current copy.               *)
LEMMA BeginRoundGood ==
    ASSUME NEW l, NEW r \in Body, Windowed(r),
           r.iters < MaxIterations, r.rounds = r.iters + Unrecorded(r),
           Quiet(r, l) => r.know = l.st,
           \A k \in 1..Len(r.todo) : r.todo[k] # "ask_user_judge",
           r.draft # "refused"
    PROVE  /\ Good(BeginRound(r), l)
           /\ BeginRound(r).turn = r.turn /\ BeginRound(r).alone = r.alone
           /\ BeginRound(r).pc = "round"
<1> DEFINE s == BeginRound(r)
<1>1. s \in Body
  BY DEF BeginRound, Body, PC
<1>2. /\ s.pc = "round" /\ s.rounds = r.rounds /\ s.iters = r.iters /\ s.granted = r.granted
      /\ s.turn = r.turn /\ s.window = r.window /\ s.after = r.after /\ s.reason = r.reason
      /\ ~s.final /\ ~s.refused /\ s.todo = r.todo /\ s.draft = r.draft
      /\ s.alone = r.alone /\ s.lost = r.lost /\ s.know = r.know
  BY DEF BeginRound, Body
<1>3. r.iters \in Nat /\ Unrecorded(r) \in Nat /\ MaxIterations \in Nat
  BY TurnAssumption DEF Body, Unrecorded
<1> HIDE DEF s
<1>4. Counted(s)
  BY <1>2, <1>3 DEF Counted, Unrecorded
<1>5. Windowed(s)
  BY <1>2 DEF Windowed
<1>8. Local(s)
  BY <1>2 DEF Local
<1>6. Copied(s, l) /\ Settled(s, l)
  BY <1>2 DEF Copied, Settled, PastTheGate, Quiet
<1>7. Good(s, l)
  BY <1>1, <1>4, <1>5, <1>6, <1>8 DEF Good
<1> QED
  BY <1>2, <1>7 DEF s

---------------------------------------------------------------------------
(* The complaints of a round                                               *)

Complaints == Seq(Kinds \ {"ask_user_judge"})

Raises(c, kind) == \E k \in 1..Len(c) : c[k] = kind

LEMMA ComplaintsFit ==
    ASSUME NEW c \in Complaints
    PROVE  c \in Seq(Kinds) /\ \A k \in 1..Len(c) : c[k] # "ask_user_judge"
BY DEF Complaints

LEMMA NoOrOneComplaint ==
    /\ <<>> \in Complaints
    /\ \A kind \in Kinds \ {"ask_user_judge"} : <<kind>> \in Complaints
BY DEF Complaints

LEMMA KindsOfComplaint ==
    {"intents", "answer_shape", "empty_answer", "ungrounded_answer", "answer_judge"}
    \subseteq Kinds \ {"ask_user_judge"}
BY DEF Kinds

LEMMA MoreComplaints ==
    ASSUME NEW c \in Complaints, NEW d \in Complaints PROVE c \o d \in Complaints
BY DEF Complaints

LEMMA Regroup ==
    ASSUME NEW c \in Complaints, NEW d \in Complaints, NEW e \in Complaints
    PROVE  c \o d \o e = c \o (d \o e)
BY DEF Complaints

LEMMA JudgeComplaints ==
    ASSUME NEW p, NEW c \in JudgeSays(p, "answer_judge") PROVE c \in Complaints
<1>1. c = <<>> \/ c = <<"answer_judge">>
  BY DEF JudgeSays
<1> QED
  BY <1>1, NoOrOneComplaint, KindsOfComplaint

LEMMA IntentsFirst ==
    ASSUME NEW c \in Complaints PROVE Raises(<<"intents">> \o c, "intents")
<1>1. (<<"intents">> \o c)[1] = "intents" /\ 1 \in 1..Len(<<"intents">> \o c)
  BY DEF Complaints
<1> QED
  BY <1>1 DEF Raises

(* Prose passes the pending-intents gate only if nothing is pending.       *)
LEMMA ProseTodo ==
    ASSUME NEW p, NEW text, NEW c \in ProseComplaints(p, text)
    PROVE  /\ c \in Complaints
           /\ ~Raises(c, "intents") => PendingIntents(b[p].know) = {}
<1> DEFINE first == IF PendingIntents(b[p].know) # {} THEN <<"intents">>
                    ELSE IF b[p].seen = {"rows"} THEN <<"answer_shape">> ELSE <<>>
           rule == CASE text = "ungrounded" -> <<"ungrounded_answer">>
                     [] text = "misshaped" -> <<"answer_shape">>
                     [] OTHER -> <<>>
           tail == IF text = "blank" THEN {<<"empty_answer">>} ELSE JudgeSays(p, "answer_judge")
<1>1. PICK t \in tail : c = first \o rule \o t
  BY DEF ProseComplaints
<1>2. t \in Complaints
  BY <1>1, JudgeComplaints, NoOrOneComplaint, KindsOfComplaint
<1>3. first \in Complaints /\ rule \in Complaints
  BY NoOrOneComplaint, KindsOfComplaint
<1>4. PendingIntents(b[p].know) # {} => first = <<"intents">>
  OBVIOUS
<1> HIDE DEF first, rule, tail
<1>5. c = first \o (rule \o t) /\ rule \o t \in Complaints
  BY <1>1, <1>2, <1>3, Regroup, MoreComplaints
<1>6. c \in Complaints
  BY <1>3, <1>5, MoreComplaints
<1>7. ASSUME PendingIntents(b[p].know) # {} PROVE Raises(c, "intents")
  BY <1>4, <1>5, <1>7, IntentsFirst
<1> QED
  BY <1>6, <1>7

(* So does an answerWithTable call that says anything.                     *)
LEMMA TableTodo ==
    ASSUME NEW p, NEW a, NEW c \in TableComplaints(p, a)
    PROVE  /\ c \in Complaints
           /\ a.says /\ ~Raises(c, "intents") => PendingIntents(b[p].know) = {}
<1> DEFINE first == IF a.says /\ PendingIntents(b[p].know) # {} THEN <<"intents">> ELSE <<>>
           shape == IF a.says /\ ~a.tab /\ "rows" \in b[p].seen THEN <<"answer_shape">> ELSE <<>>
           judge == CASE ~a.says -> {<<>>}
                      [] a.says /\ b[p].judged -> {<<"answer_judge">>}
                      [] a.says /\ ~b[p].judged /\ b[p].refused -> {<<>>}
                      [] OTHER -> JudgeSays(p, "answer_judge")
<1>1. first \in Complaints /\ shape \in Complaints
  BY NoOrOneComplaint, KindsOfComplaint
<1>2. a.says /\ PendingIntents(b[p].know) # {} => first = <<"intents">>
  OBVIOUS
<1>3. \A j \in judge : j \in Complaints
  BY JudgeComplaints, NoOrOneComplaint, KindsOfComplaint
<1>4. c = first \/ \E j \in judge : c = first \o shape \o j
  BY DEF TableComplaints
<1> HIDE DEF first, shape, judge
<1>5. first = first \o <<>>
  BY <1>1 DEF Complaints
<1>6. PICK rest \in Complaints : c = first \o rest
  <2>1. CASE c = first
    BY <1>5, <2>1, NoOrOneComplaint
  <2>2. CASE \E j \in judge : c = first \o shape \o j
    <3>1. PICK j \in judge : c = first \o shape \o j
      BY <2>2
    <3>2. c = first \o (shape \o j) /\ shape \o j \in Complaints
      BY <1>1, <1>3, <3>1, Regroup, MoreComplaints
    <3> QED
      BY <3>2
  <2> QED
    BY <1>4, <2>1, <2>2
<1>7. c \in Complaints
  BY <1>1, <1>6, MoreComplaints
<1>8. ASSUME a.says, PendingIntents(b[p].know) # {} PROVE Raises(c, "intents")
  BY <1>2, <1>6, <1>8, IntentsFirst
<1> QED
  BY <1>7, <1>8

---------------------------------------------------------------------------
(* The steps of a round                                                    *)

LEMMA Increments ==
    ASSUME NEW r \in Body
    PROVE  r.rounds + 1 \in Nat /\ r.iters + 1 \in Nat /\ r.calls + 1 \in Nat
BY DEF Body

LEMMA RespondStep ==
    ASSUME PInv, NEW p \in Procs, Respond(p) PROVE PInv'
<1> DEFINE r == b[p]
<1>1. Good(r, ledger) /\ r \in Body /\ r.pc = "round"
  BY DEF PInv, Good, Respond
<1>2. UNCHANGED <<docVars, nudges, requests, errors, aborts>>
  BY DEF Respond
<1>3. /\ r.iters < MaxIterations /\ r.rounds = r.iters + Unrecorded(r)
      /\ r.iters \in Nat /\ Unrecorded(r) \in Nat /\ MaxIterations \in Nat
      /\ Windowed(r) /\ Local(r) /\ Copied(r, ledger)
  BY <1>1, TurnAssumption DEF Good, Counted, Unrecorded, Body
<1>4. ASSUME NEW ask \in BOOLEAN,
             Set(p, [[r EXCEPT !.rounds = @ + 1, !.draft = "open"]
                       EXCEPT !.pc = "state", !.ask = ask])
      PROVE  PInv'
  <2> DEFINE s == [[r EXCEPT !.rounds = @ + 1, !.draft = "open"]
                     EXCEPT !.pc = "state", !.ask = ask]
  <2>1. s \in Body
    BY <1>1, Increments DEF Body, PC
  <2>2. /\ s.pc = "state" /\ s.rounds = r.rounds + 1 /\ s.draft = "open"
        /\ s.iters = r.iters /\ s.granted = r.granted /\ s.turn = r.turn
        /\ s.window = r.window /\ s.after = r.after /\ s.reason = r.reason
        /\ s.refused = r.refused /\ s.final = r.final /\ s.todo = r.todo
        /\ s.alone = r.alone /\ s.lost = r.lost /\ s.know = r.know
    BY <1>1 DEF Body
  <2> HIDE DEF s
  <2>3. Counted(s)
    BY <1>3, <2>2 DEF Counted, Unrecorded
  <2>4. Windowed(s) /\ Local(s)
    BY <1>1, <1>3, <2>2 DEF Windowed, Local
  <2>5. Copied(s, ledger) /\ Settled(s, ledger)
    BY <1>1, <1>3, <2>2 DEF Copied, Settled, PastTheGate, Quiet, Local
  <2>6. Good(s, ledger)
    BY <2>1, <2>3, <2>4, <2>5 DEF Good
  <2>7. b' = [b EXCEPT ![p] = s]
    BY <1>4 DEF Set, s
  <2> QED
    BY <1>1, <1>2, <2>2, <2>6, <2>7, LocalStep
<1>5. ASSUME NEW text \in Texts, NEW c \in ProseComplaints(p, text),
             Set(p, [[r EXCEPT !.rounds = @ + 1, !.draft = "open"]
                       EXCEPT !.pc = "gates", !.todo = c,
                              !.draft = IF text = "blank" THEN "none" ELSE "open"])
      PROVE  PInv'
  <2> DEFINE s == [[r EXCEPT !.rounds = @ + 1, !.draft = "open"]
                     EXCEPT !.pc = "gates", !.todo = c,
                            !.draft = IF text = "blank" THEN "none" ELSE "open"]
  <2>0. /\ c \in Seq(Kinds)
        /\ \A k \in 1..Len(c) : c[k] # "ask_user_judge"
        /\ (\A k \in 1..Len(c) : c[k] # "intents") => PendingIntents(b[p].know) = {}
    BY ProseTodo, ComplaintsFit DEF Raises
  <2>1. s \in Body
    BY <1>1, <2>0, Increments DEF Body, PC
  <2>2. /\ s.pc = "gates" /\ s.rounds = r.rounds + 1 /\ s.draft \in {"none", "open"}
        /\ s.iters = r.iters /\ s.granted = r.granted /\ s.turn = r.turn
        /\ s.window = r.window /\ s.after = r.after /\ s.reason = r.reason
        /\ s.refused = r.refused /\ s.final = r.final /\ s.todo = c
        /\ s.alone = r.alone /\ s.lost = r.lost /\ s.know = r.know
    BY <1>1 DEF Body
  <2> HIDE DEF s
  <2>3. Counted(s)
    BY <1>3, <2>2 DEF Counted, Unrecorded
  <2>4. Windowed(s) /\ Local(s)
    BY <1>1, <1>3, <2>0, <2>2 DEF Windowed, Local
  <2>5. Copied(s, ledger) /\ Settled(s, ledger)
    BY <1>1, <1>3, <2>0, <2>2 DEF Copied, Settled, PastTheGate, Quiet, Local
  <2>6. Good(s, ledger)
    BY <2>1, <2>3, <2>4, <2>5 DEF Good
  <2>7. b' = [b EXCEPT ![p] = s]
    BY <1>5 DEF Set, s
  <2> QED
    BY <1>1, <1>2, <2>2, <2>6, <2>7, LocalStep
<1> QED
  BY <1>4, <1>5 DEF Respond
---------------------------------------------------------------------------
(* The start of a request, and the gates                                   *)

LEMMA AppendUserStep ==
    ASSUME PInv, NEW p \in Procs, AppendUser(p) PROVE PInv'
<1> DEFINE r == b[p]
           s == [r EXCEPT !.pc = "load"]
<1>1. Good(r, ledger) /\ r \in Body /\ r.pc = "append"
  BY DEF PInv, Good, AppendUser
<1>2. s \in Body
  BY <1>1 DEF Body, PC
<1>3. s = [r EXCEPT !.pc = "load"] /\ s.pc = "load" /\ s.turn = r.turn /\ s.alone = r.alone
  BY <1>1 DEF Body
<1>4. Good(s, ledger)
  BY <1>1, <1>2, <1>3, LoadGood
<1>5. Stored' /\ ledger' = ledger
  BY <1>1 DEF PInv, Good, Windowed, Stored, SpentOnNudges, AppendUser
<1>6. b' = [b EXCEPT ![p] = s]
  BY DEF AppendUser, Set
<1> HIDE DEF s
<1> QED
  BY <1>1, <1>3, <1>4, <1>5, <1>6, DocumentStep

LEMMA ResumeBlueprintStep ==
    ASSUME PInv, NEW p \in Procs, ResumeBlueprint(p) PROVE PInv'
<1> DEFINE r == b[p]
<1>1. Good(r, ledger) /\ r \in Body /\ r.pc = "blueprint"
  BY DEF PInv, Good, ResumeBlueprint
<1>2. ASSUME Set(p, [r EXCEPT !.pc = "pause", !.reason = "blueprint"]), UNCHANGED trail
      PROVE  PInv'
  <2> DEFINE s == [r EXCEPT !.pc = "pause", !.reason = "blueprint"]
  <2>1. UNCHANGED <<docVars, nudges, requests, errors, aborts>>
    BY <1>2 DEF ResumeBlueprint, docVars
  <2>2. s.turn = r.turn /\ s.alone = r.alone
    BY <1>1 DEF Body
  <2>3. Good(s, ledger)
    BY <1>1, PauseGood DEF Reasons
  <2>4. b' = [b EXCEPT ![p] = s]
    BY <1>2 DEF Set
  <2> HIDE DEF s
  <2> QED
    BY <1>1, <2>1, <2>2, <2>3, <2>4, LocalStep
<1>3. ASSUME NEW rows \in SUBSET {"rows"},
             trail' = [trail EXCEPT ![r.turn] = @ \cup {"ran"} \cup rows],
             Set(p, [r EXCEPT !.pc = "load"])
      PROVE  PInv'
  <2> DEFINE s == [r EXCEPT !.pc = "load"]
  <2>1. s \in Body
    BY <1>1 DEF Body, PC
  <2>2. s = [r EXCEPT !.pc = "load"] /\ s.turn = r.turn /\ s.alone = r.alone
    BY <1>1 DEF Body
  <2>3. Good(s, ledger)
    BY <1>1, <2>1, LoadGood
  <2>4. Stored' /\ ledger' = ledger
    BY <1>1, <1>3 DEF PInv, Good, Windowed, Stored, SpentOnNudges, ResumeBlueprint, Facts
  <2>5. b' = [b EXCEPT ![p] = s]
    BY <1>3 DEF Set
  <2> HIDE DEF s
  <2> QED
    BY <1>1, <2>2, <2>3, <2>4, <2>5, DocumentStep
<1> QED
  BY <1>2, <1>3 DEF ResumeBlueprint

LEMMA LoadStep ==
    ASSUME PInv, NEW p \in Procs, Load(p) PROVE PInv'
<1> DEFINE r == b[p]
           facts == trail[r.turn]
           seen == (facts \cap {"rows"}) \cup (IF "awt" \in facts THEN {"shown"} ELSE {})
           x == [r EXCEPT !.know = Live(r.turn), !.seen = seen]
           s == BeginRound(x)
<1>1. Good(r, ledger) /\ r \in Body /\ r.pc = "load"
  BY DEF PInv, Good, Load
<1>2. UNCHANGED <<docVars, nudges, requests, errors, aborts>> /\ b' = [b EXCEPT ![p] = s]
  BY DEF Load, Set
<1>3. Live(r.turn) \in [Intents -> Statuses] /\ (ledger.turn = r.turn => Live(r.turn) = ledger.st)
  BY DEF PInv, Stored, Live, NoState, Statuses
<1>4. seen \in SUBSET {"rows", "shown"}
  OBVIOUS
<1> HIDE DEF seen
<1>5. /\ x \in Body /\ x.pc = r.pc /\ x.know = Live(r.turn) /\ x.iters = r.iters /\ x.rounds = r.rounds
      /\ x.granted = r.granted /\ x.turn = r.turn /\ x.window = r.window
      /\ x.after = r.after /\ x.reason = r.reason /\ x.todo = r.todo /\ x.draft = r.draft
      /\ x.alone = r.alone /\ x.lost = r.lost
  BY <1>1, <1>3, <1>4 DEF Body
<1> HIDE DEF x
<1>6. Windowed(x)
  BY <1>1, <1>5 DEF Good, Windowed
<1>7. x.iters = 0 /\ x.rounds = 0 /\ x.granted = {} /\ Unrecorded(x) = 0
  BY <1>1, <1>5 DEF Good, Counted, Local, Unrecorded
<1>8. (Quiet(x, ledger) => x.know = ledger.st)
      /\ (\A k \in 1..Len(x.todo) : x.todo[k] # "ask_user_judge") /\ x.draft # "refused"
  BY <1>1, <1>3, <1>5 DEF Good, Local, Quiet
<1>9. Good(s, ledger) /\ s.turn = r.turn /\ s.alone = r.alone
  BY <1>5, <1>6, <1>7, <1>8, BeginRoundGood, TurnAssumption
<1> HIDE DEF s
<1> QED
  BY <1>1, <1>2, <1>9, LocalStep

(* A claim that is answered true, false or not at all.                     *)
LEMMA ClaimsKept ==
    ASSUME Stored, NEW p, b[p].turn \in Turns, b[p].window \in Windows, NEW kind \in Kinds,
           (MayRefuse(p, kind) /\ UNCHANGED errors) \/ MayNotRefuse(p, kind),
           UNCHANGED <<last, cp, ledger, trail, requests, aborts>>
    PROVE  Stored'
<1>1. BlockKey(p, kind) \in Turns \X Windows \X Kinds /\ <<b[p].turn, b[p].window>> \in Turns \X Windows
  BY DEF BlockKey
<1>2. claims' \in SUBSET (Turns \X Windows \X Kinds) /\ nudges' \in SUBSET (Turns \X Windows)
  BY <1>1 DEF Stored, MayRefuse, MayNotRefuse, Grant
<1>3. errors \in Nat /\ MaxErrors \in Nat
  BY TurnAssumption DEF Stored
<1>4. errors' \in 0..MaxErrors /\ (errors' = 0 => errors' = errors)
  BY <1>3 DEF Stored, MayNotRefuse
<1>5. SpentOnNudges'
  <2> SUFFICES ASSUME errors' = 0, NEW t \in Turns, NEW w \in Windows,
                      <<t, w, "intents">> \in claims'
               PROVE  <<t, w>> \in nudges'
    BY DEF SpentOnNudges
  <2>1. errors = 0 /\ nudges \subseteq nudges'
    BY <1>4 DEF MayRefuse, MayNotRefuse
  <2>2. CASE <<t, w, "intents">> \in claims
    BY <2>1, <2>2 DEF Stored, SpentOnNudges
  <2>3. CASE <<t, w, "intents">> \notin claims
    <3>1. MayRefuse(p, kind) /\ <<t, w, "intents">> = BlockKey(p, kind)
      BY <1>3, <1>4, <2>1, <2>3 DEF MayRefuse, MayNotRefuse, Grant
    <3> QED
      BY <3>1 DEF BlockKey, MayRefuse
  <2> QED
    BY <2>2, <2>3
<1> QED
  BY <1>2, <1>4, <1>5 DEF Stored

LEMMA HeadAndTail ==
    ASSUME NEW S, NEW c \in Seq(S), c # <<>>
    PROVE  /\ Head(c) = c[1] /\ Head(c) \in S /\ 1 \in 1..Len(c)
           /\ Tail(c) \in Seq(S)
           /\ \A k \in 1..Len(Tail(c)) : k + 1 \in 1..Len(c) /\ Tail(c)[k] = c[k + 1]
           /\ \A k \in 1..Len(c) : k = 1 \/ (k - 1 \in 1..Len(Tail(c)) /\ Tail(c)[k - 1] = c[k])
<1>1. Len(c) \in Nat /\ Len(c) > 0
  OBVIOUS
<1>2. Len(Tail(c)) = Len(c) - 1 /\ \A k \in 1..(Len(c) - 1) : Tail(c)[k] = c[k + 1]
  BY <1>1
<1>3. Head(c) = c[1] /\ c[1] \in S /\ Tail(c) \in Seq(S)
  BY <1>1
<1> QED
  BY <1>1, <1>2, <1>3

(* The first complaint of a round in its gates.                            *)
LEMMA FirstComplaint ==
    ASSUME NEW l, NEW r, Good(r, l), r.todo # <<>>
    PROVE  /\ r.todo \in Seq(Kinds)
           /\ Head(r.todo) \in Kinds \ {"ask_user_judge"}
           /\ Tail(r.todo) \in Seq(Kinds)
           /\ \A k \in 1..Len(Tail(r.todo)) : Tail(r.todo)[k] # "ask_user_judge"
           /\ Head(r.todo) # "intents" /\ (\A k \in 1..Len(Tail(r.todo)) : Tail(r.todo)[k] # "intents")
              => \A k \in 1..Len(r.todo) : r.todo[k] # "intents"
<1>1. r.todo \in Seq(Kinds) /\ \A k \in 1..Len(r.todo) : r.todo[k] # "ask_user_judge"
  BY DEF Good, Body, Local
<1> DEFINE c == r.todo
<1>2. c \in Seq(Kinds) /\ c # <<>>
  BY <1>1
<1> HIDE DEF c
<1>3. /\ Head(c) = c[1] /\ Head(c) \in Kinds /\ 1 \in 1..Len(c)
      /\ Tail(c) \in Seq(Kinds)
      /\ \A k \in 1..Len(Tail(c)) : k + 1 \in 1..Len(c) /\ Tail(c)[k] = c[k + 1]
      /\ \A k \in 1..Len(c) : k = 1 \/ (k - 1 \in 1..Len(Tail(c)) /\ Tail(c)[k - 1] = c[k])
  BY <1>2, HeadAndTail
<1>4. \A k \in 1..Len(c) : c[k] # "ask_user_judge"
  BY <1>1 DEF c
<1>5. Head(c) # "ask_user_judge" /\ \A k \in 1..Len(Tail(c)) : Tail(c)[k] # "ask_user_judge"
  BY <1>3, <1>4
<1>6. ASSUME Head(c) # "intents", \A k \in 1..Len(Tail(c)) : Tail(c)[k] # "intents"
      PROVE  \A k \in 1..Len(c) : c[k] # "intents"
  BY <1>3, <1>6
<1> QED
  BY <1>1, <1>3, <1>5, <1>6 DEF c

LEMMA RefuseFinishStep ==
    ASSUME PInv, NEW p \in Procs, RefuseFinish(p) PROVE PInv'
<1> DEFINE r == b[p]
           kind == Head(r.todo)
           x == Refused(p, kind)
<1>1. Good(r, ledger) /\ r \in Body /\ r.pc = "gates" /\ r.todo # <<>> /\ MayRefuse(p, kind)
  BY DEF PInv, Good, RefuseFinish
<1>2. kind \in Kinds \ {"ask_user_judge"}
  BY <1>1, FirstComplaint
<1> HIDE DEF kind
<1>3. Stored' /\ ledger' = ledger
  BY <1>1, <1>2, ClaimsKept DEF PInv, Good, Windowed, RefuseFinish, kind
<1>4. /\ x \in Body /\ x.rounds = r.rounds /\ x.iters = r.iters /\ Unrecorded(x) = Unrecorded(r)
      /\ x.turn = r.turn /\ x.window = r.window /\ x.after = r.after /\ x.reason = r.reason
      /\ x.final = r.final /\ x.draft = r.draft /\ x.know = r.know
      /\ x.alone = r.alone /\ x.lost = r.lost
  BY <1>1, <1>2 DEF Refused, Unrecorded, Body
<1> HIDE DEF x
<1>5. ASSUME NEW s \in Body, s.pc \in {"record", "tools"}, b' = [b EXCEPT ![p] = s],
             s.rounds = x.rounds, s.iters = x.iters, s.granted = x.granted,
             s.turn = x.turn, s.window = x.window, s.after = x.after, s.reason = x.reason,
             s.final = x.final, s.draft # "refused", s.todo = <<>>, s.know = x.know,
             s.alone = x.alone, s.lost = x.lost
      PROVE  PInv'
  <2>1. Counted(s)
    BY <1>1, <1>4, <1>5 DEF Good, Counted, Unrecorded
  <2>2. Windowed(s)
    BY <1>1, <1>4, <1>5 DEF Good, Windowed
  <2>3. Local(s)
    BY <1>5 DEF Local
  <2>4. Copied(s, ledger) /\ Settled(s, ledger)
    BY <1>1, <1>4, <1>5 DEF Good, Copied, Settled, Quiet, PastTheGate
  <2>5. Good(s, ledger)
    BY <1>5, <2>1, <2>2, <2>3, <2>4 DEF Good
  <2> QED
    BY <1>1, <1>3, <1>4, <1>5, <2>5, DocumentStep
<1>6. CASE r.exit = "prose"
  <2> DEFINE s == [Withdraw([x EXCEPT !.draft = "refused"]) EXCEPT !.pc = "record", !.todo = <<>>]
  <2>0. "record" \in PC /\ <<>> \in Seq(Kinds)
    BY DEF PC
  <2>1. s \in Body
    BY <1>4, <2>0 DEF Body, Withdraw
  <2>2. /\ s.pc = "record" /\ s.draft = "none" /\ s.todo = <<>> /\ s.rounds = x.rounds
        /\ s.iters = x.iters /\ s.granted = x.granted /\ s.turn = x.turn
        /\ s.window = x.window /\ s.after = x.after /\ s.reason = x.reason
        /\ s.final = x.final /\ s.know = x.know /\ s.alone = x.alone /\ s.lost = x.lost
    BY <1>4 DEF Body, Withdraw
  <2>3. b' = [b EXCEPT ![p] = s]
    BY <1>6 DEF RefuseFinish, Set, x, kind
  <2> HIDE DEF s
  <2> QED
    BY <1>5, <2>1, <2>2, <2>3
<1>7. CASE r.exit # "prose"
  <2> DEFINE s == [x EXCEPT !.pc = "tools", !.todo = <<>>, !.answer = NoAnswer, !.exit = "prose",
                            !.calls = @ + 1,
                            !.judged = @ \/ kind = "answer_judge"]
  <2>1. "tools" \in PC /\ <<>> \in Seq(Kinds) /\ x.calls + 1 \in Nat /\ (x.judged \/ kind = "answer_judge") \in BOOLEAN /\ NoAnswer \in Answers
    BY <1>4 DEF Body, NoAnswer, Answers, PC
  <2>2. s \in Body
    BY <1>4, <2>1 DEF Body
  <2>3. /\ s.pc = "tools" /\ s.draft = x.draft /\ s.todo = <<>> /\ s.rounds = x.rounds
        /\ s.iters = x.iters /\ s.granted = x.granted /\ s.turn = x.turn
        /\ s.window = x.window /\ s.after = x.after /\ s.reason = x.reason
        /\ s.final = x.final /\ s.know = x.know /\ s.alone = x.alone /\ s.lost = x.lost
    BY <1>4 DEF Body
  <2>4. b' = [b EXCEPT ![p] = s]
    BY <1>7 DEF RefuseFinish, Set, x, kind
  <2> HIDE DEF s
  <2>5. s.draft # "refused"
    BY <1>1, <1>4, <2>3 DEF Good, Local
  <2> QED
    BY <1>5, <2>2, <2>3, <2>4, <2>5
<1> QED
  BY <1>6, <1>7

LEMMA PassGateStep ==
    ASSUME PInv, NEW p \in Procs, PassGate(p) PROVE PInv'
<1> DEFINE r == b[p]
           kind == Head(r.todo)
           rest == Tail(r.todo)
           s == IF kind = "intents"
                THEN [r EXCEPT !.pc = "force", !.after = "gates", !.todo = Tail(@)]
                ELSE [r EXCEPT !.todo = Tail(@)]
<1>1. Good(r, ledger) /\ r \in Body /\ r.pc = "gates" /\ r.todo # <<>> /\ MayNotRefuse(p, kind)
  BY DEF PInv, Good, PassGate
<1>2. /\ kind \in Kinds \ {"ask_user_judge"} /\ rest \in Seq(Kinds)
      /\ \A k \in 1..Len(rest) : rest[k] # "ask_user_judge"
      /\ kind # "intents" /\ (\A k \in 1..Len(rest) : rest[k] # "intents")
         => \A k \in 1..Len(r.todo) : r.todo[k] # "intents"
  BY <1>1, FirstComplaint
<1>3. Stored' /\ ledger' = ledger
  BY <1>1, <1>2, ClaimsKept DEF PInv, Good, Windowed, PassGate
<1>4. b' = [b EXCEPT ![p] = s]
  BY DEF PassGate, Set
<1> HIDE DEF kind, rest
<1>5. s \in Body
  BY <1>1, <1>2 DEF Body, PC, rest
<1>6. /\ s.rounds = r.rounds /\ s.iters = r.iters /\ s.granted = r.granted
      /\ s.turn = r.turn /\ s.window = r.window /\ s.reason = r.reason
      /\ s.final = r.final /\ s.draft = r.draft /\ s.know = r.know /\ s.todo = rest
      /\ s.alone = r.alone /\ s.lost = r.lost /\ s.exit = r.exit /\ s.answer = r.answer
      /\ kind = "intents" => s.pc = "force" /\ s.after = "gates"
      /\ kind # "intents" => s.pc = "gates" /\ s.after = r.after
  BY <1>1 DEF Body, rest
<1> HIDE DEF s
<1>7. Counted(s)
  BY <1>1, <1>6 DEF Good, Counted, Unrecorded
<1>8. Windowed(s)
  BY <1>1, <1>6 DEF Good, Windowed
<1>9. Local(s)
  BY <1>1, <1>2, <1>6 DEF Good, Local, Counted, Unrecorded
<1>10. Copied(s, ledger)
  BY <1>1, <1>6 DEF Good, Copied, Quiet
<1>11. Settled(s, ledger)
  BY <1>1, <1>2, <1>6 DEF Good, Settled, Quiet, PastTheGate
<1>12. Good(s, ledger)
  BY <1>5, <1>7, <1>8, <1>9, <1>10, <1>11 DEF Good
<1> QED
  BY <1>1, <1>3, <1>4, <1>6, <1>12, DocumentStep

(* What a step within a round leaves alone.                                *)
SameWork(r, s) ==
    /\ s.rounds = r.rounds /\ s.iters = r.iters /\ s.granted = r.granted
    /\ s.turn = r.turn /\ s.window = r.window /\ s.after = r.after /\ s.reason = r.reason
    /\ s.know = r.know /\ s.draft = r.draft /\ s.alone = r.alone /\ s.lost = r.lost

InRound == {"gates", "state", "tools", "ask", "record"}

LEMMA InRoundGood ==
    ASSUME NEW l, NEW r, Good(r, l), r.pc \in InRound,
           NEW s \in Body, SameWork(r, s), s.pc \in InRound \cup {"finish"},
           s.pc \in {"state", "ask"} => ~s.refused /\ ~s.final,
           \A k \in 1..Len(s.todo) : s.todo[k] # "ask_user_judge",
           Settled(s, l)
    PROVE  Good(s, l)
<1>1. Counted(s)
  BY DEF Good, Counted, Unrecorded, SameWork, InRound
<1>2. Windowed(s)
  BY DEF Good, Windowed, SameWork, InRound
<1>3. Local(s)
  BY DEF Good, Local, SameWork, InRound
<1>4. Copied(s, l)
  BY DEF Good, Copied, Quiet, SameWork, InRound
<1> QED
  BY <1>1, <1>2, <1>3, <1>4 DEF Good

LEMMA EndStateCallsStep ==
    ASSUME PInv, NEW p \in Procs, EndStateCalls(p) PROVE PInv'
<1> DEFINE r == b[p]
           s == [r EXCEPT !.pc = IF b[p].ask THEN "ask" ELSE "tools", !.ask = FALSE, !.calls = 0]
<1>1. Good(r, ledger) /\ r \in Body /\ r.pc = "state" /\ ~r.refused /\ ~r.final
  BY DEF PInv, Good, Local, EndStateCalls
<1>2. UNCHANGED <<docVars, nudges, requests, errors, aborts>> /\ b' = [b EXCEPT ![p] = s]
  BY DEF EndStateCalls, Set
<1>3. s \in Body
  BY <1>1 DEF Body, PC
<1>4. SameWork(r, s) /\ s.pc \in {"ask", "tools"} /\ ~s.refused /\ ~s.final /\ s.todo = r.todo
  BY <1>1 DEF Body, SameWork
<1> HIDE DEF s
<1>5. Settled(s, ledger)
  BY <1>4 DEF Settled, PastTheGate
<1>6. Good(s, ledger)
  BY <1>1, <1>3, <1>4, <1>5, InRoundGood DEF InRound, Good, Local
<1> QED
  BY <1>1, <1>2, <1>4, <1>6, LocalStep DEF SameWork

LEMMA QueryStep ==
    ASSUME PInv, NEW p \in Procs, Query(p) PROVE PInv'
<1> DEFINE r == b[p]
<1>1. Good(r, ledger) /\ r \in Body /\ r.pc = "tools" /\ r.turn \in Turns
  BY DEF PInv, Good, Windowed, Query, CanCall
<1>2. PICK rows \in SUBSET {"rows"} :
        /\ trail' = [trail EXCEPT ![r.turn] = @ \cup {"ran"} \cup rows]
        /\ Set(p, [r EXCEPT !.calls = @ + 1, !.seen = @ \cup rows])
  BY DEF Query
<1> DEFINE s == [r EXCEPT !.calls = @ + 1, !.seen = @ \cup rows]
<1>3. r.calls + 1 \in Nat /\ r.seen \cup rows \in SUBSET {"rows", "shown"}
  <2>1. r.seen \in SUBSET {"rows", "shown"}
    BY <1>1 DEF Body
  <2> QED
    BY <1>1, <1>2, <2>1, Increments
<1>4. s \in Body
  BY <1>1, <1>3 DEF Body
<1>5. SameWork(r, s) /\ s.pc = "tools" /\ s.final = r.final /\ s.todo = r.todo
  BY <1>1 DEF Body, SameWork
<1>6. b' = [b EXCEPT ![p] = s]
  BY <1>2 DEF Set
<1> HIDE DEF s
<1>7. Settled(s, ledger)
  BY <1>1, <1>5 DEF Good, Settled, PastTheGate, SameWork, Quiet
<1>8. Good(s, ledger)
  BY <1>1, <1>4, <1>5, <1>7, InRoundGood DEF InRound, Good, Local
<1>9. Stored' /\ ledger' = ledger
  <2>1. trail' \in [Turns -> SUBSET Facts]
    BY <1>1, <1>2 DEF PInv, Stored, Facts
  <2> QED
    BY <2>1 DEF PInv, Stored, SpentOnNudges, Query
<1> QED
  BY <1>1, <1>5, <1>6, <1>8, <1>9, DocumentStep DEF SameWork

LEMMA BlueprintPausesStep ==
    ASSUME PInv, NEW p \in Procs, BlueprintPauses(p) PROVE PInv'
<1> DEFINE r == b[p]
           s == [r EXCEPT !.pc = "pause", !.reason = "blueprint"]
<1>1. Good(r, ledger) /\ r \in Body /\ r.pc = "tools"
  BY DEF PInv, Good, BlueprintPauses, CanCall
<1>2. UNCHANGED <<docVars, nudges, requests, errors, aborts>> /\ b' = [b EXCEPT ![p] = s]
  BY DEF BlueprintPauses, Set
<1>3. s.turn = r.turn /\ s.alone = r.alone
  BY <1>1 DEF Body
<1>4. Good(s, ledger)
  BY <1>1, PauseGood DEF Reasons
<1> HIDE DEF s
<1> QED
  BY <1>1, <1>2, <1>3, <1>4, LocalStep

LEMMA AnswerWithTableStep ==
    ASSUME PInv, NEW p \in Procs, AnswerWithTable(p) PROVE PInv'
<1> DEFINE r == b[p]
<1>1. Good(r, ledger) /\ r \in Body /\ r.pc = "tools"
  BY DEF PInv, Good, AnswerWithTable, CanCall
<1>2. PICK a \in Answers : \E c \in TableComplaints(p, a) :
        Set(p, [r EXCEPT !.pc = "gates", !.exit = "table", !.answer = a, !.todo = c])
  BY DEF AnswerWithTable
<1>3. PICK c \in TableComplaints(p, a) :
        Set(p, [r EXCEPT !.pc = "gates", !.exit = "table", !.answer = a, !.todo = c])
  BY <1>2
<1> DEFINE s == [r EXCEPT !.pc = "gates", !.exit = "table", !.answer = a, !.todo = c]
<1>4. /\ c \in Seq(Kinds)
      /\ \A k \in 1..Len(c) : c[k] # "ask_user_judge"
      /\ a.says /\ (\A k \in 1..Len(c) : c[k] # "intents") => PendingIntents(r.know) = {}
  BY TableTodo, ComplaintsFit DEF Raises
<1>5. s \in Body
  BY <1>1, <1>4 DEF Body, PC
<1>6. /\ SameWork(r, s) /\ s.pc = "gates" /\ s.final = r.final /\ s.todo = c /\ s.exit = "table"
      /\ s.answer = a
  BY <1>1 DEF Body, SameWork
<1>7. UNCHANGED <<docVars, nudges, requests, errors, aborts>> /\ b' = [b EXCEPT ![p] = s]
  BY <1>3 DEF AnswerWithTable, Set
<1> HIDE DEF s
<1>8. Settled(s, ledger)
  BY <1>1, <1>4, <1>6 DEF Good, Copied, Settled, PastTheGate, SameWork, Quiet
<1>9. Good(s, ledger)
  BY <1>1, <1>4, <1>5, <1>6, <1>8, InRoundGood DEF InRound
<1> QED
  BY <1>1, <1>6, <1>7, <1>9, LocalStep DEF SameWork

LEMMA EndBatchStep ==
    ASSUME PInv, NEW p \in Procs, EndBatch(p) PROVE PInv'
<1> DEFINE r == b[p]
           s == [r EXCEPT !.pc = IF b[p].final THEN "finish" ELSE "record"]
<1>1. Good(r, ledger) /\ r \in Body /\ r.pc = "tools"
  BY DEF PInv, Good, EndBatch
<1>2. UNCHANGED <<docVars, nudges, requests, errors, aborts>> /\ b' = [b EXCEPT ![p] = s]
  BY DEF EndBatch, Set
<1>3. s \in Body
  BY <1>1 DEF Body, PC
<1>4. /\ SameWork(r, s) /\ s.final = r.final /\ s.todo = r.todo
      /\ (r.final /\ s.pc = "finish") \/ (~r.final /\ s.pc = "record")
  BY <1>1 DEF Body, SameWork
<1> HIDE DEF s
<1>5. Settled(s, ledger)
  BY <1>1, <1>4 DEF Good, Settled, PastTheGate, SameWork, Quiet
<1>6. Good(s, ledger)
  BY <1>1, <1>3, <1>4, <1>5, InRoundGood DEF InRound, Good, Local
<1> QED
  BY <1>1, <1>2, <1>4, <1>6, LocalStep DEF SameWork

LEMMA EndGatesStep ==
    ASSUME PInv, NEW p \in Procs, EndGates(p) PROVE PInv'
<1> DEFINE r == b[p]
           x == [r EXCEPT !.pc = "tools", !.calls = @ + 1, !.answer = NoAnswer, !.exit = "prose"]
<1>1. Good(r, ledger) /\ r \in Body /\ r.pc = "gates" /\ r.todo = <<>> /\ r.turn \in Turns
  BY DEF PInv, Good, Windowed, EndGates
<1>2. "tools" \in PC /\ r.calls + 1 \in Nat /\ NoAnswer \in Answers
  BY <1>1 DEF Body, PC, NoAnswer, Answers
<1>3. x \in Body
  BY <1>1, <1>2 DEF Body
<1>4. SameWork(r, x) /\ x.pc = "tools" /\ x.final = r.final /\ x.todo = r.todo
  BY <1>1 DEF Body, SameWork
<1>5. r.exit = "prose" \/ r.answer.says => (Quiet(r, ledger) => PendingIntents(ledger.st) = {})
  BY <1>1 DEF Good, Settled, PastTheGate
<1> HIDE DEF x
<1>6. CASE r.exit = "prose" /\ Set(p, [r EXCEPT !.pc = "finish"]) /\ UNCHANGED trail
  <2> DEFINE s == [r EXCEPT !.pc = "finish"]
  <2>1. s \in Body
    BY <1>1 DEF Body, PC
  <2>2. SameWork(r, s) /\ s.pc = "finish" /\ s.todo = r.todo
    BY <1>1 DEF Body, SameWork
  <2>3. b' = [b EXCEPT ![p] = s] /\ UNCHANGED <<docVars, nudges, requests, errors, aborts>>
    BY <1>6 DEF Set, EndGates, docVars
  <2> HIDE DEF s
  <2>4. Settled(s, ledger)
    BY <1>5, <1>6, <2>2 DEF Settled, Quiet, SameWork
  <2>5. Good(s, ledger)
    BY <1>1, <2>1, <2>2, <2>4, InRoundGood DEF InRound, Good, Local
  <2> QED
    BY <1>1, <2>2, <2>3, <2>5, LocalStep DEF SameWork
<1>7. CASE r.exit = "table" /\ r.answer.bad /\ Set(p, x) /\ UNCHANGED trail
  <2>1. b' = [b EXCEPT ![p] = x] /\ UNCHANGED <<docVars, nudges, requests, errors, aborts>>
    BY <1>7 DEF Set, EndGates, docVars
  <2>2. Settled(x, ledger)
    BY <1>1, <1>4 DEF Good, Settled, PastTheGate, Quiet, SameWork
  <2>3. Good(x, ledger)
    BY <1>1, <1>3, <1>4, <2>2, InRoundGood DEF InRound, Good, Local
  <2> QED
    BY <1>1, <1>4, <2>1, <2>3, LocalStep DEF SameWork
<1>8. ASSUME NEW shown \in SUBSET {"shown"},
             trail' = [trail EXCEPT ![r.turn] = @ \cup {"awt"}],
             Set(p, [x EXCEPT !.final = r.answer.says, !.seen = @ \cup shown])
      PROVE  PInv'
  <2> DEFINE s == [x EXCEPT !.final = r.answer.says, !.seen = @ \cup shown]
  <2>1. r.answer.says \in BOOLEAN /\ x.seen \cup shown \in SUBSET {"rows", "shown"}
    BY <1>1, <1>3 DEF Body, Answers
  <2>2. s \in Body
    BY <1>3, <2>1 DEF Body
  <2>3. SameWork(r, s) /\ s.pc = "tools" /\ s.final = r.answer.says /\ s.todo = r.todo
    BY <1>3, <1>4 DEF Body, SameWork
  <2>4. b' = [b EXCEPT ![p] = s]
    BY <1>8 DEF Set
  <2> HIDE DEF s
  <2>5. Settled(s, ledger)
    BY <1>5, <2>3 DEF Settled, PastTheGate, Quiet, SameWork
  <2>6. Good(s, ledger)
    BY <1>1, <2>2, <2>3, <2>5, InRoundGood DEF InRound, Good, Local
  <2>7. trail' \in [Turns -> SUBSET Facts]
    BY <1>1, <1>8 DEF PInv, Stored, Facts
  <2>8. Stored' /\ ledger' = ledger
    BY <2>7 DEF PInv, Stored, SpentOnNudges, EndGates
  <2> QED
    BY <1>1, <2>3, <2>4, <2>6, <2>8, DocumentStep DEF SameWork
<1> QED
  BY <1>6, <1>7, <1>8 DEF EndGates, x

---------------------------------------------------------------------------
(* The ledger                                                              *)

LEMMA BlockedFits ==
    ASSUME NEW st \in [Intents -> Statuses]
    PROVE  /\ Blocked(st) \in [Intents -> Statuses]
           /\ PendingIntents(Blocked(st)) = {}
           /\ st # NoState => Blocked(st) # NoState
<1>1. Blocked(st) \in [Intents -> Statuses] /\ PendingIntents(Blocked(st)) = {}
  BY DEF Blocked, Statuses, PendingIntents
<1>2. ASSUME st # NoState PROVE Blocked(st) # NoState
  <2>1. PICK i \in Intents : st[i] # "none"
    BY <1>2 DEF NoState
  <2>2. Blocked(st)[i] # "none"
    BY <2>1 DEF Blocked
  <2> QED
    BY <2>1, <2>2 DEF NoState
<1> QED
  BY <1>1, <1>2

(* The request that has blocked what was pending goes on to its exit.      *)
LEMMA ForceGood ==
    ASSUME NEW l, NEW m, NEW r, Good(r, l), r.pc = "force", NEW s \in Body,
           s.pc = r.after, s.after = "idle",
           s.rounds = r.rounds, s.iters = r.iters, s.granted = r.granted,
           s.turn = r.turn, s.window = r.window, s.reason = r.reason,
           s.todo = r.todo, s.draft = r.draft,
           Quiet(s, m) => s.know = m.st /\ PendingIntents(m.st) = {}
    PROVE  Good(s, m)
<1>1. r.after \in {"gates", "pause", "return"}
  BY DEF Good, Local
<1>2. Counted(s)
  BY <1>1 DEF Good, Counted, Local, Unrecorded
<1>3. Windowed(s)
  BY <1>1 DEF Good, Windowed
<1>4. Local(s)
  BY <1>1 DEF Good, Local
<1>5. Copied(s, m) /\ Settled(s, m)
  BY DEF Copied, Settled
<1> QED
  BY <1>2, <1>3, <1>4, <1>5 DEF Good

LEMMA ForceBlockStep ==
    ASSUME PInv, NEW p \in Procs, ForceBlock(p) PROVE PInv'
<1> DEFINE r == b[p]
           x == [r EXCEPT !.pc = r.after, !.after = "idle"]
           new == [turn |-> r.turn, st |-> Blocked(Live(r.turn))]
<1>1. Good(r, ledger) /\ r \in Body /\ r.pc = "force" /\ r.turn \in Turns
  BY DEF PInv, Good, Windowed, ForceBlock
<1>2. Live(r.turn) \in [Intents -> Statuses] /\ (ledger.turn = r.turn => Live(r.turn) = ledger.st)
  BY DEF PInv, Stored, Live, NoState, Statuses
<1>3. /\ Blocked(Live(r.turn)) \in [Intents -> Statuses]
      /\ PendingIntents(Blocked(Live(r.turn))) = {}
      /\ Live(r.turn) # NoState => Blocked(Live(r.turn)) # NoState
  BY <1>2, BlockedFits
<1>4. "idle" \in PC /\ r.after \in PC /\ r.after \in {"gates", "pause", "return"}
  BY <1>1 DEF Good, Local, Body, PC
<1>5. x \in Body
  BY <1>1, <1>4 DEF Body
<1>6. /\ x.pc = r.after /\ x.after = "idle" /\ x.rounds = r.rounds /\ x.iters = r.iters
      /\ x.granted = r.granted /\ x.turn = r.turn /\ x.window = r.window /\ x.reason = r.reason
      /\ x.todo = r.todo /\ x.draft = r.draft /\ x.know = r.know
      /\ x.alone = r.alone /\ x.lost = r.lost
  BY <1>1 DEF Body
<1>7. Quiet(r, ledger) => r.know = ledger.st
  BY <1>1 DEF Good, Copied
<1>8. /\ new.turn = r.turn /\ new.st = Blocked(Live(r.turn))
      /\ new \in [turn : Turns \cup {-1}, st : [Intents -> Statuses]]
  BY <1>1, <1>3
<1> HIDE DEF x, new
<1>9. UNCHANGED <<last, cp, claims, trail, nudges, requests, aborts>>
  BY DEF ForceBlock
<1>10. CASE /\ PendingIntents(r.know) = {} \/ Live(r.turn) = NoState
            /\ Set(p, x)
            /\ UNCHANGED <<ledger, errors>>
  <2>1. Quiet(x, ledger) => x.know = ledger.st /\ PendingIntents(ledger.st) = {}
    BY <1>2, <1>6, <1>7, <1>10 DEF Quiet, PendingIntents, NoState
  <2>2. Good(x, ledger)
    BY <1>1, <1>5, <1>6, <2>1, ForceGood
  <2>3. b' = [b EXCEPT ![p] = x] /\ UNCHANGED <<docVars, nudges, requests, errors, aborts>>
    BY <1>9, <1>10 DEF Set, docVars
  <2> QED
    BY <1>1, <1>6, <2>2, <2>3, LocalStep
<1>11. CASE /\ Live(r.turn) # NoState /\ ledger' = new
            /\ Set(p, [x EXCEPT !.know = new.st]) /\ UNCHANGED errors
  <2> DEFINE s == [x EXCEPT !.know = new.st]
  <2>1. s \in Body
    BY <1>3, <1>5, <1>8 DEF Body
  <2>2. /\ s.pc = r.after /\ s.after = "idle" /\ s.rounds = r.rounds /\ s.iters = r.iters
        /\ s.granted = r.granted /\ s.turn = r.turn /\ s.window = r.window
        /\ s.reason = r.reason /\ s.todo = r.todo /\ s.draft = r.draft
        /\ s.know = new.st /\ s.alone = r.alone
    BY <1>5, <1>6 DEF Body
  <2>3. b' = [b EXCEPT ![p] = s]
    BY <1>11 DEF Set
  <2> HIDE DEF s
  <2>4. Good(s, new)
    BY <1>1, <1>3, <1>8, <2>1, <2>2, ForceGood
  <2>5. Stored'
    BY <1>3, <1>8, <1>9, <1>11 DEF PInv, Stored, SpentOnNudges
  <2>6. ledger' = new
    BY <1>11
  <2>7. Good(s, ledger')
    BY <2>4, <2>6
  <2> QED
    BY <1>1, <1>8, <2>2, <2>3, <2>5, <2>6, <2>7, Frame
<1>12. CASE /\ errors < MaxErrors /\ errors' = errors + 1
            /\ ledger' \in {ledger, IF Live(r.turn) = NoState THEN ledger ELSE new}
            /\ Set(p, [x EXCEPT !.lost = TRUE])
  <2> DEFINE s == [x EXCEPT !.lost = TRUE]
  <2>1. s \in Body
    BY <1>5 DEF Body
  <2>2. /\ s.pc = r.after /\ s.after = "idle" /\ s.rounds = r.rounds /\ s.iters = r.iters
        /\ s.granted = r.granted /\ s.turn = r.turn /\ s.window = r.window
        /\ s.reason = r.reason /\ s.todo = r.todo /\ s.draft = r.draft
        /\ s.lost = TRUE /\ s.alone = r.alone
    BY <1>5, <1>6 DEF Body
  <2>3. b' = [b EXCEPT ![p] = s]
    BY <1>12 DEF Set
  <2> HIDE DEF s
  <2>4. Good(s, ledger')
    BY <1>1, <2>1, <2>2, ForceGood DEF Quiet
  <2>5. errors' \in 0..MaxErrors /\ errors' # 0
    BY <1>12, TurnAssumption DEF PInv, Stored
  <2>6. Stored'
    BY <1>3, <1>8, <1>9, <1>12, <2>5 DEF PInv, Stored, SpentOnNudges
  <2>7. ledger' = ledger \/ ledger'.turn = r.turn
    BY <1>8, <1>12
  <2> QED
    BY <1>1, <2>2, <2>3, <2>4, <2>6, <2>7, Frame
<1> QED
  BY <1>10, <1>11, <1>12 DEF ForceBlock, x, new

LEMMA UpdatesFit ==
    ASSUME PInv, NEW t \in Turns, NEW st \in StateUpdates(t)
    PROVE  st \in [Intents -> Statuses] /\ st # NoState
<1>1. Live(t) \in [Intents -> Statuses]
  BY DEF PInv, Stored, Live, NoState, Statuses
<1>2. CASE Live(t) = NoState
  <2>1. PICK D \in (SUBSET Intents) \ {{}} :
          st = [i \in Intents |-> IF i \in D THEN "pending" ELSE "none"]
    BY <1>2 DEF StateUpdates
  <2>2. PICK i \in D : i \in Intents /\ st[i] = "pending"
    BY <2>1
  <2>3. st # NoState
    BY <2>2 DEF NoState
  <2> QED
    BY <2>1, <2>3 DEF Statuses
<1>3. CASE Live(t) # NoState
  <2>1. /\ st \in [Intents -> Statuses]
        /\ \A i \in Intents : st[i] = Live(t)[i] \/ st[i] \in {"pending", "closed"}
    BY <1>3 DEF StateUpdates
  <2>2. PICK i \in Intents : Live(t)[i] # "none"
    BY <1>1, <1>3 DEF NoState
  <2>3. st[i] # "none"
    BY <2>1, <2>2
  <2> QED
    BY <2>1, <2>2, <2>3 DEF NoState
<1> QED
  BY <1>2, <1>3

LEMMA UpdateAnalysisStateStep ==
    ASSUME PInv, NEW p \in Procs, UpdateAnalysisState(p) PROVE PInv'
<1> DEFINE r == b[p]
<1>1. /\ Good(r, ledger) /\ r \in Body /\ r.pc = "state" /\ r.turn \in Turns
      /\ ~r.refused /\ ~r.final
  BY DEF PInv, Good, Local, Windowed, UpdateAnalysisState
<1>2. PICK st \in StateUpdates(r.turn) :
        /\ ledger' = [turn |-> r.turn, st |-> st]
        /\ \/ Set(p, [Refresh(p, st) EXCEPT !.calls = @ + 1]) /\ UNCHANGED errors
           \/ /\ errors < MaxErrors /\ errors' = errors + 1
              /\ Set(p, [r EXCEPT !.calls = @ + 1, !.lost = TRUE])
  BY DEF UpdateAnalysisState
<1>3. st \in [Intents -> Statuses] /\ st # NoState
  BY <1>1, UpdatesFit
<1>4. UNCHANGED <<last, cp, claims, trail, nudges, requests, aborts>>
  BY DEF UpdateAnalysisState
<1>5. ledger'.turn = r.turn /\ ledger'.st = st
      /\ ledger' \in [turn : Turns \cup {-1}, st : [Intents -> Statuses]]
  BY <1>1, <1>2, <1>3
<1>6. errors' \in 0..MaxErrors /\ (errors' = 0 => errors = 0)
  BY <1>2, TurnAssumption DEF PInv, Stored
<1>7. Stored'
  BY <1>3, <1>4, <1>5, <1>6 DEF PInv, Stored, SpentOnNudges
<1>8. ASSUME NEW s \in Body, b' = [b EXCEPT ![p] = s],
             s.pc = "state", s.rounds = r.rounds, s.iters = r.iters, s.granted = r.granted,
             s.turn = r.turn, s.window = r.window, s.after = r.after, s.reason = r.reason,
             s.refused = r.refused, s.final = r.final, s.todo = r.todo, s.draft = r.draft,
             s.alone = r.alone, s.know = st \/ s.lost
      PROVE  PInv'
  <2>1. Counted(s)
    BY <1>1, <1>8 DEF Good, Counted, Unrecorded
  <2>2. Windowed(s)
    BY <1>1, <1>8 DEF Good, Windowed
  <2>3. Local(s)
    BY <1>1, <1>8 DEF Good, Local
  <2>4. Copied(s, ledger') /\ Settled(s, ledger')
    BY <1>1, <1>5, <1>8 DEF Copied, Settled, Quiet, PastTheGate
  <2>5. Good(s, ledger')
    BY <1>8, <2>1, <2>2, <2>3, <2>4 DEF Good
  <2> QED
    BY <1>1, <1>5, <1>7, <1>8, <2>5, Frame
<1>9. CASE Set(p, [Refresh(p, st) EXCEPT !.calls = @ + 1])
  <2> DEFINE s == [Refresh(p, st) EXCEPT !.calls = @ + 1]
  <2>1. Refresh(p, st) \in Body
    BY <1>1, <1>3 DEF Refresh, Body
  <2>2. Refresh(p, st).calls + 1 \in Nat
    BY <2>1, Increments
  <2>3. s \in Body
    BY <2>1, <2>2 DEF Body
  <2>4. /\ s.pc = "state" /\ s.rounds = r.rounds /\ s.iters = r.iters /\ s.granted = r.granted
        /\ s.turn = r.turn /\ s.window = r.window /\ s.after = r.after /\ s.reason = r.reason
        /\ s.refused = r.refused /\ s.final = r.final /\ s.todo = r.todo /\ s.draft = r.draft
        /\ s.alone = r.alone /\ s.know = st
    BY <1>1, <1>3 DEF Refresh, Body
  <2>5. b' = [b EXCEPT ![p] = s]
    BY <1>9 DEF Set
  <2> HIDE DEF s
  <2> QED
    BY <1>8, <2>3, <2>4, <2>5
<1>10. CASE Set(p, [r EXCEPT !.calls = @ + 1, !.lost = TRUE])
  <2> DEFINE s == [r EXCEPT !.calls = @ + 1, !.lost = TRUE]
  <2>1. s \in Body
    BY <1>1, Increments DEF Body
  <2>2. /\ s.pc = "state" /\ s.rounds = r.rounds /\ s.iters = r.iters /\ s.granted = r.granted
        /\ s.turn = r.turn /\ s.window = r.window /\ s.after = r.after /\ s.reason = r.reason
        /\ s.refused = r.refused /\ s.final = r.final /\ s.todo = r.todo /\ s.draft = r.draft
        /\ s.alone = r.alone /\ s.lost
    BY <1>1 DEF Body
  <2>3. b' = [b EXCEPT ![p] = s]
    BY <1>10 DEF Set
  <2> HIDE DEF s
  <2> QED
    BY <1>8, <2>1, <2>2, <2>3
<1> QED
  BY <1>2, <1>9, <1>10

---------------------------------------------------------------------------
(* The end of a round, and of a request                                    *)

LEMMA AskUserStep ==
    ASSUME PInv, NEW p \in Procs, AskUser(p) PROVE PInv'
<1> DEFINE r == b[p]
           pause == [r EXCEPT !.pc = "pause", !.reason = "askUser"]
           kind == "ask_user_judge"
           x == Refused(p, kind)
<1>1. /\ Good(r, ledger) /\ r \in Body /\ r.pc = "ask" /\ ~r.refused
      /\ r.turn \in Turns /\ r.window \in Windows /\ kind \in Kinds
  BY DEF PInv, Good, Local, Windowed, AskUser, Kinds
<1>2. UNCHANGED <<last, cp, ledger, trail, requests, aborts>>
  BY DEF AskUser
<1>3. Good(pause, ledger)
  BY <1>1, PauseGood DEF Reasons
<1>4. pause.turn = r.turn /\ pause.alone = r.alone
  BY <1>1 DEF Body
<1>5. CASE Set(p, pause) /\ UNCHANGED <<claims, nudges, errors>>
  <2>1. b' = [b EXCEPT ![p] = pause] /\ UNCHANGED <<docVars, nudges, requests, errors, aborts>>
    BY <1>2, <1>5 DEF Set, docVars
  <2> HIDE DEF pause
  <2> QED
    BY <1>1, <1>3, <1>4, <2>1, LocalStep
<1>6. CASE Set(p, pause) /\ MayNotRefuse(p, kind)
  <2>1. b' = [b EXCEPT ![p] = pause] /\ Stored' /\ ledger' = ledger
    BY <1>1, <1>2, <1>6, ClaimsKept DEF Set, PInv
  <2> HIDE DEF pause
  <2> QED
    BY <1>1, <1>3, <1>4, <2>1, DocumentStep
<1>7. ASSUME NEW says \in JudgeSays(p, kind), says # <<>>, MayRefuse(p, kind),
             Set(p, BeginRound(x)), UNCHANGED errors
      PROVE  PInv'
  <2> DEFINE s == BeginRound(x)
  <2>1. b' = [b EXCEPT ![p] = s] /\ Stored' /\ ledger' = ledger
    BY <1>1, <1>2, <1>7, ClaimsKept DEF Set, PInv
  <2>2. kind \notin r.granted
    BY <1>7 DEF JudgeSays
  <2>3. /\ x \in Body /\ x.pc = r.pc /\ x.rounds = r.rounds /\ x.iters = r.iters
        /\ kind \in x.granted
        /\ x.turn = r.turn /\ x.window = r.window /\ x.after = r.after /\ x.reason = r.reason
        /\ x.todo = r.todo /\ x.draft = r.draft /\ x.know = r.know
        /\ x.alone = r.alone /\ x.lost = r.lost
    BY <1>1 DEF Refused, Body
  <2> HIDE DEF x
  <2>4. r.iters < MaxIterations /\ r.rounds = r.iters + 1 + Unrecorded(r)
    BY <1>1 DEF Good, Counted
  <2>5. Unrecorded(r) = 0 /\ Unrecorded(x) = 1 /\ r.iters \in Nat
    BY <1>1, <2>2, <2>3 DEF Unrecorded, Body
  <2>6. x.iters < MaxIterations /\ x.rounds = x.iters + Unrecorded(x)
    BY <2>3, <2>4, <2>5
  <2>7. Windowed(x)
    BY <1>1, <2>3 DEF Good, Windowed
  <2>8. /\ Quiet(x, ledger) => x.know = ledger.st
        /\ \A k \in 1..Len(x.todo) : x.todo[k] # "ask_user_judge"
        /\ x.draft # "refused"
    BY <1>1, <2>3 DEF Good, Local, Copied, Quiet
  <2>9. Good(s, ledger) /\ s.turn = x.turn /\ s.alone = x.alone
    BY <2>3, <2>6, <2>7, <2>8, BeginRoundGood
  <2> HIDE DEF s
  <2> QED
    BY <1>1, <2>1, <2>3, <2>9, DocumentStep
<1> QED
  BY <1>5, <1>6, <1>7 DEF AskUser

LEMMA RunLateStep ==
    ASSUME PInv, NEW p \in Procs, RunLate(p) PROVE PInv'
<1> DEFINE r == b[p]
           s == [r EXCEPT !.late = TRUE]
<1>1. Good(r, ledger) /\ r \in Body /\ r.pc \in {"tools", "record"}
  BY DEF PInv, Good, RunLate
<1>2. UNCHANGED <<docVars, nudges, requests, errors, aborts>> /\ b' = [b EXCEPT ![p] = s]
  BY DEF RunLate, Set
<1>3. s \in Body
  BY <1>1 DEF Body
<1>4. SameWork(r, s) /\ s.pc = r.pc /\ s.final = r.final /\ s.todo = r.todo
  BY <1>1 DEF Body, SameWork
<1> HIDE DEF s
<1>5. Settled(s, ledger)
  BY <1>1, <1>4 DEF Good, Settled, PastTheGate, SameWork, Quiet
<1>6. Good(s, ledger)
  BY <1>1, <1>3, <1>4, <1>5, InRoundGood DEF InRound, Good, Local
<1> QED
  BY <1>1, <1>2, <1>4, <1>6, LocalStep DEF SameWork

(* A budget cap pauses only while a window is left.                        *)
LEMMA AtCapGood ==
    ASSUME NEW l, NEW r \in Body, Windowed(r), r.pc = "record",
           r.rounds <= MaxIterations + Unrecorded(r),
           Quiet(r, l) => r.know = l.st,
           r.final /\ Quiet(r, l) => PendingIntents(l.st) = {},
           \A k \in 1..Len(r.todo) : r.todo[k] # "ask_user_judge",
           r.draft # "refused"
    PROVE  Good(AtCap(r), l) /\ AtCap(r).turn = r.turn /\ AtCap(r).alone = r.alone
<1> DEFINE s == AtCap(r)
<1>1. r.window \in Nat /\ MaxWindows \in Nat
  BY TurnAssumption DEF Body
<1>2. {"force", "pause", "return", "idle"} \subseteq PC /\ "budget_cap" \in Reasons
  BY DEF PC, Reasons
<1>3. s \in Body
  <2>1. CASE r.window >= MaxWindows
    <3>1. s = [r EXCEPT !.pc = "force", !.after = "return"]
      BY <2>1 DEF AtCap
    <3> HIDE DEF s
    <3> QED
      BY <1>2, <3>1 DEF Body
  <2>2. CASE ~(r.window >= MaxWindows) /\ r.refused
    <3>1. s = [r EXCEPT !.pc = "force", !.after = "pause", !.reason = "budget_cap"]
      BY <2>2 DEF AtCap
    <3> HIDE DEF s
    <3> QED
      BY <1>2, <3>1 DEF Body
  <2>3. CASE ~(r.window >= MaxWindows) /\ ~r.refused
    <3>1. s = [r EXCEPT !.pc = "pause", !.after = "idle", !.reason = "budget_cap"]
      BY <2>3 DEF AtCap
    <3> HIDE DEF s
    <3> QED
      BY <1>2, <3>1 DEF Body
  <2> QED
    BY <2>1, <2>2, <2>3
<1>4. /\ s.rounds = r.rounds /\ s.granted = r.granted /\ s.turn = r.turn /\ s.window = r.window
      /\ s.final = r.final /\ s.todo = r.todo /\ s.draft = r.draft /\ s.know = r.know
      /\ s.alone = r.alone /\ s.lost = r.lost
      /\ \/ s.pc = "force" /\ s.after = "return"
         \/ s.pc = "force" /\ s.after = "pause" /\ r.window < MaxWindows
         \/ s.pc = "pause" /\ s.after = "idle" /\ r.window < MaxWindows
  BY <1>1 DEF AtCap, Body
<1> HIDE DEF s
<1>5. Counted(s)
  BY <1>4 DEF Counted, Unrecorded
<1>6. Windowed(s)
  BY <1>4 DEF Windowed
<1>7. Local(s)
  BY <1>4 DEF Local
<1>8. Copied(s, l) /\ Settled(s, l)
  BY <1>4 DEF Copied, Settled, Quiet, PastTheGate
<1>9. Good(s, l)
  BY <1>3, <1>5, <1>6, <1>7, <1>8 DEF Good
<1> QED
  BY <1>4, <1>9 DEF s

LEMMA RecordStep ==
    ASSUME PInv, NEW p \in Procs, Record(p) PROVE PInv'
<1> DEFINE r == b[p]
           x == [r EXCEPT !.iters = @ + 1]
<1>1. Good(r, ledger) /\ r \in Body /\ r.pc = "record"
  BY DEF PInv, Good, Record
<1>2. UNCHANGED <<docVars, nudges, requests, errors, aborts>>
  BY DEF Record
<1>3. Set(p, IF x.iters >= MaxIterations \/ x.late THEN AtCap(x) ELSE BeginRound(x))
  BY DEF Record
<1>4. /\ x \in Body /\ x.pc = r.pc /\ x.rounds = r.rounds /\ x.iters = r.iters + 1
      /\ x.granted = r.granted
      /\ x.turn = r.turn /\ x.window = r.window /\ x.after = r.after /\ x.reason = r.reason
      /\ x.todo = r.todo /\ x.draft = r.draft /\ x.know = r.know /\ x.final = r.final
      /\ x.alone = r.alone /\ x.lost = r.lost
  BY <1>1, Increments DEF Body
<1> HIDE DEF x
<1>5. /\ r.iters < MaxIterations /\ r.rounds = r.iters + 1 + Unrecorded(r)
      /\ Unrecorded(x) = Unrecorded(r) /\ Unrecorded(r) \in Nat /\ r.iters \in Nat
      /\ MaxIterations \in Nat
  BY <1>1, <1>4, TurnAssumption DEF Good, Counted, Unrecorded, Body
<1>6. Windowed(x)
  BY <1>1, <1>4 DEF Good, Windowed
<1>7. /\ Quiet(x, ledger) => x.know = ledger.st
      /\ x.final /\ Quiet(x, ledger) => PendingIntents(ledger.st) = {}
      /\ \A k \in 1..Len(x.todo) : x.todo[k] # "ask_user_judge"
      /\ x.draft # "refused"
  BY <1>1, <1>4 DEF Good, Local, Copied, Settled, PastTheGate, Quiet
<1>8. CASE x.iters >= MaxIterations \/ x.late
  <2> DEFINE s == AtCap(x)
  <2>1. x.rounds <= MaxIterations + Unrecorded(x)
    BY <1>4, <1>5
  <2>2. Good(s, ledger) /\ s.turn = x.turn /\ s.alone = x.alone
    BY <1>1, <1>4, <1>6, <1>7, <2>1, AtCapGood
  <2>3. b' = [b EXCEPT ![p] = s]
    BY <1>3, <1>8 DEF Set
  <2> HIDE DEF s
  <2> QED
    BY <1>1, <1>2, <1>4, <2>2, <2>3, LocalStep
<1>9. CASE ~(x.iters >= MaxIterations \/ x.late)
  <2> DEFINE s == BeginRound(x)
  <2>1. x.iters < MaxIterations /\ x.rounds = x.iters + Unrecorded(x)
    BY <1>4, <1>5, <1>9
  <2>2. Good(s, ledger) /\ s.turn = x.turn /\ s.alone = x.alone
    BY <1>4, <1>6, <1>7, <2>1, BeginRoundGood
  <2>3. b' = [b EXCEPT ![p] = s]
    BY <1>3, <1>9 DEF Set
  <2> HIDE DEF s
  <2> QED
    BY <1>1, <1>2, <1>4, <2>2, <2>3, LocalStep
<1> QED
  BY <1>8, <1>9

LEMMA ReturnStep ==
    ASSUME PInv, NEW p \in Procs, Finish(p) \/ Pause(p) \/ Stop(p) \/ Abort(p)
    PROVE  PInv'
<1>1. b' = [b EXCEPT ![p] = Idle] /\ ledger' = ledger
  BY DEF Finish, Pause, Stop, Abort, Return, Set, docVars
<1>2. b[p] \in Body /\ Windowed(b[p])
  BY DEF PInv, Good
<1>3. Stored'
  <2>1. CASE Finish(p)
    BY <1>2, <2>1 DEF PInv, Stored, SpentOnNudges, Finish, Windowed
  <2>2. CASE Pause(p)
    <3>1. b[p].reason \in Reasons /\ b[p].window \in Windows
      BY <1>2 DEF Body, Windowed
    <3>2. /\ cp' \in [open : BOOLEAN, reason : Reasons, window : Windows]
          /\ cp'.reason = "budget_cap" => cp'.window < MaxWindows
      BY <1>2, <2>2, <3>1 DEF Pause, Windowed
    <3> QED
      BY <2>2, <3>2 DEF PInv, Stored, SpentOnNudges, Pause
  <2>3. CASE Stop(p)
    BY <2>3, StoredFrame DEF PInv, Stop
  <2>4. CASE Abort(p)
    <3>1. aborts' \in 0..MaxAborts
      BY <2>4, TurnAssumption DEF PInv, Stored, Abort
    <3> QED
      BY <2>4, <3>1 DEF PInv, Stored, SpentOnNudges, Abort, docVars
  <2> QED
    BY <2>1, <2>2, <2>3, <2>4
<1>4. Idle.pc = "idle"
  BY DEF Idle
<1> QED
  BY <1>1, <1>3, <1>4, IdleGood, DocumentStep

---------------------------------------------------------------------------
(* A request enters                                                        *)

LEMMA NotAloneGood ==
    ASSUME NEW l, NEW r, Good(r, l), r.pc # "idle"
    PROVE  LET s == [r EXCEPT !.alone = FALSE]
           IN Good(s, l) /\ s.pc = r.pc /\ s.turn = r.turn /\ s.alone = FALSE
<1> DEFINE s == [r EXCEPT !.alone = FALSE]
<1>1. s \in Body
  BY DEF Good, Body
<1>2. /\ s.pc = r.pc /\ s.rounds = r.rounds /\ s.iters = r.iters /\ s.granted = r.granted
      /\ s.turn = r.turn /\ s.window = r.window /\ s.after = r.after /\ s.reason = r.reason
      /\ s.final = r.final /\ s.todo = r.todo /\ s.draft = r.draft /\ s.refused = r.refused
      /\ s.alone = FALSE
  BY DEF Good, Body
<1> HIDE DEF s
<1>3. Counted(s)
  BY <1>2 DEF Good, Counted, Unrecorded
<1>4. Windowed(s)
  BY <1>2 DEF Good, Windowed
<1>5. Local(s)
  BY <1>2 DEF Good, Local, Unrecorded
<1>6. Copied(s, l) /\ Settled(s, l)
  BY <1>2 DEF Copied, Settled, Quiet
<1>7. Good(s, l)
  BY <1>1, <1>3, <1>4, <1>5, <1>6 DEF Good
<1> QED
  BY <1>2, <1>7 DEF s

(* The others on its turn are told apart from then on.                     *)
LEMMA EnterStep ==
    ASSUME PInv, NEW p \in Procs, NEW r \in Body, Enter(p, r),
           \A v \in BOOLEAN : Good([r EXCEPT !.alone = v], ledger),
           Stored', ledger' = ledger
    PROVE  PInv'
<1> DEFINE v == \A x \in Procs \ {p} : ~On(x, r.turn)
           s == [r EXCEPT !.alone = v]
<1>1. v \in BOOLEAN
  OBVIOUS
<1>2. s.turn = r.turn /\ s.alone = v /\ Good(s, ledger)
  BY <1>1 DEF Body
<1>3. b' = [q \in Procs |->
              IF q = p THEN s
              ELSE IF On(q, r.turn) THEN [b[q] EXCEPT !.alone = FALSE] ELSE b[q]]
  BY DEF Enter
<1> HIDE DEF s
<1>4. b'[p] = s
  BY <1>3
<1>5. ASSUME NEW q \in Procs, q # p
      PROVE  /\ Good(b'[q], ledger) /\ b'[q].pc = b[q].pc /\ b'[q].turn = b[q].turn
             /\ b'[q].alone => b[q].alone
             /\ On(q, r.turn) => ~b'[q].alone
  <2>1. Good(b[q], ledger)
    BY DEF PInv
  <2>2. CASE On(q, r.turn)
    <3>1. b'[q] = [b[q] EXCEPT !.alone = FALSE]
      BY <1>3, <1>5, <2>2
    <3>2. b[q].pc # "idle"
      BY <2>2 DEF On
    <3> QED
      BY <2>1, <3>1, <3>2, NotAloneGood
  <2>3. CASE ~On(q, r.turn)
    <3>1. b'[q] = b[q]
      BY <1>3, <1>5, <2>3
    <3> QED
      BY <2>1, <2>3, <3>1
  <2> QED
    BY <2>2, <2>3
<1>6. \A q \in Procs : Good(b'[q], ledger)
  BY <1>2, <1>4, <1>5
<1>7. \A q \in Procs : Good(b'[q], ledger')
  BY <1>6
<1>8. b' \in [Procs -> Body]
  <2>1. \A q \in Procs : b'[q] \in Body
    BY <1>6 DEF Good
  <2> QED
    BY <1>3, <2>1
<1>9. AloneIsAlone'
  <2> SUFFICES ASSUME NEW x \in Procs, NEW y \in Procs, x # y,
                      b'[x].pc # "idle", b'[y].pc # "idle", b'[y].turn = b'[x].turn
               PROVE  ~b'[x].alone
    BY DEF AloneIsAlone, On
  <2>1. CASE x = p
    <3>1. On(y, r.turn) /\ y \in Procs \ {p}
      BY <1>2, <1>4, <1>5, <2>1 DEF On
    <3> QED
      BY <1>2, <1>4, <2>1, <3>1
  <2>2. CASE y = p
    <3>1. On(x, r.turn)
      BY <1>2, <1>4, <1>5, <2>2 DEF On
    <3> QED
      BY <1>5, <2>2, <3>1
  <2>3. CASE x # p /\ y # p
    BY <1>5, <2>3 DEF PInv, AloneIsAlone, On
  <2> QED
    BY <2>1, <2>2, <2>3
<1> QED
  BY <1>7, <1>8, <1>9 DEF PInv

(* A fresh body, whoever else works on its turn.                           *)
LEMMA FreshGood ==
    ASSUME NEW l, NEW r \in Body, NEW v \in BOOLEAN,
           r.pc \in {"append", "load", "blueprint", "force"},
           r.pc = "force" => r.after = "return" /\ (l.turn = r.turn => r.know = l.st),
           r.after \in {"idle", "return"},
           r.turn \in Turns, r.window \in Windows,
           r.rounds = 0, r.iters = 0, r.granted = {}, r.todo = <<>>, r.draft = "none",
           ~r.final
    PROVE  Good([r EXCEPT !.alone = v], l)
<1> DEFINE s == [r EXCEPT !.alone = v]
<1>1. s \in Body
  BY DEF Body
<1>2. /\ s.pc = r.pc /\ s.rounds = 0 /\ s.iters = 0 /\ s.granted = {}
      /\ s.turn = r.turn /\ s.window = r.window /\ s.after = r.after
      /\ ~s.final /\ s.todo = <<>> /\ s.draft = "none" /\ s.know = r.know
  BY DEF Body
<1> HIDE DEF s
<1>3. Counted(s)
  BY <1>2, TurnAssumption DEF Counted, Unrecorded
<1>4. Windowed(s)
  BY <1>2 DEF Windowed
<1>5. Local(s)
  BY <1>2 DEF Local
<1>6. Copied(s, l) /\ Settled(s, l)
  BY <1>2 DEF Copied, Settled, Quiet, PastTheGate
<1> QED
  BY <1>1, <1>3, <1>4, <1>5, <1>6 DEF Good, s

LEMMA IdleFields ==
    /\ Idle \in Body
    /\ Idle.rounds = 0 /\ Idle.iters = 0 /\ Idle.granted = {} /\ Idle.todo = <<>>
    /\ Idle.draft = "none" /\ ~Idle.final /\ Idle.after = "idle" /\ Idle.window = 1
<1>1. Idle \in Body
  BY IdleGood DEF Good
<1> QED
  BY <1>1 DEF Idle

LEMMA RunStep ==
    ASSUME PInv, NEW p \in Procs, Run(p) PROVE PInv'
<1> DEFINE r == [Idle EXCEPT !.pc = "append", !.turn = last + 1]
<1>1. last + 1 \in Turns /\ last + 1 \in Nat /\ 1 \in Windows
  BY TurnAssumption DEF Run, Turns, Windows
<1>2. /\ r \in Body /\ r.pc = "append" /\ r.turn = last + 1 /\ r.window = 1 /\ r.after = "idle"
      /\ r.rounds = 0 /\ r.iters = 0 /\ r.granted = {} /\ r.todo = <<>>
      /\ r.draft = "none" /\ ~r.final
  BY <1>1, IdleFields DEF Body, PC
<1>3. Enter(p, r)
  BY DEF Run
<1> HIDE DEF r
<1>4. \A v \in BOOLEAN : Good([r EXCEPT !.alone = v], ledger)
  BY <1>1, <1>2, FreshGood
<1>5. requests' \in 0..MaxRequests
  BY TurnAssumption DEF PInv, Stored, Run
<1>6. Stored' /\ ledger' = ledger
  BY <1>5 DEF PInv, Stored, SpentOnNudges, Run, docVars
<1> QED
  BY <1>2, <1>3, <1>4, <1>6, EnterStep

LEMMA ResumeStep ==
    ASSUME PInv, NEW p \in Procs, Resume(p) PROVE PInv'
<1>1. PICK r \in Resumed(cp, last) : Enter(p, r)
  BY DEF Resume
<1>2. /\ last \in Turns /\ last \in Nat /\ cp.window \in Windows /\ cp.window \in Nat
      /\ cp.reason \in Reasons
      /\ cp.reason = "budget_cap" => cp.window + 1 \in Windows /\ cp.window + 1 \in Nat
  <2>1. /\ cp \in [open : BOOLEAN, reason : Reasons, window : Windows] /\ last \in Turns
        /\ cp.reason = "budget_cap" => cp.window < MaxWindows
    BY DEF Resume, PInv, Stored
  <2>2. \A w \in Windows : w \in Nat /\ (w < MaxWindows => w + 1 \in Windows /\ w + 1 \in Nat)
    BY TurnAssumption DEF Windows
  <2>3. \A t \in Turns : t \in Nat
    BY TurnAssumption DEF Turns
  <2> QED
    BY <2>1, <2>2, <2>3
<1>3. Live(last) \in [Intents -> Statuses] /\ (ledger.turn = last => Live(last) = ledger.st)
  BY DEF PInv, Stored, Live, NoState, Statuses
<1> DEFINE x == [Idle EXCEPT !.turn = last, !.window = cp.window]
<1>4. /\ x \in Body /\ x.turn = last /\ x.window = cp.window /\ x.after = "idle"
      /\ x.rounds = 0 /\ x.iters = 0 /\ x.granted = {} /\ x.todo = <<>>
      /\ x.draft = "none" /\ ~x.final
  BY <1>2, IdleFields DEF Body
<1>5. \/ cp.reason = "budget_cap" /\ r = [x EXCEPT !.pc = "force", !.after = "return", !.know = Live(last)]
      \/ cp.reason = "budget_cap" /\ r = [x EXCEPT !.pc = "load", !.window = cp.window + 1]
      \/ r = [x EXCEPT !.pc = "load"]
      \/ r = [x EXCEPT !.pc = "blueprint"]
  BY <1>1, <1>2 DEF Resumed, Reasons
<1> HIDE DEF x
<1>6. {"force", "return", "load", "blueprint"} \subseteq PC
  BY DEF PC
<1>7. /\ r \in Body /\ r.turn = last /\ r.window \in Windows
      /\ r.rounds = 0 /\ r.iters = 0 /\ r.granted = {} /\ r.todo = <<>>
      /\ r.draft = "none" /\ ~r.final
      /\ \/ r.pc = "force" /\ r.after = "return" /\ r.know = Live(last)
         \/ r.pc \in {"load", "blueprint"} /\ r.after = "idle"
  <2>1. CASE r = [x EXCEPT !.pc = "force", !.after = "return", !.know = Live(last)]
    BY <1>2, <1>3, <1>4, <1>6, <2>1 DEF Body
  <2>2. CASE cp.reason = "budget_cap" /\ r = [x EXCEPT !.pc = "load", !.window = cp.window + 1]
    BY <1>2, <1>4, <1>6, <2>2 DEF Body
  <2>3. CASE r = [x EXCEPT !.pc = "load"]
    BY <1>2, <1>4, <1>6, <2>3 DEF Body
  <2>4. CASE r = [x EXCEPT !.pc = "blueprint"]
    BY <1>2, <1>4, <1>6, <2>4 DEF Body
  <2> QED
    BY <1>5, <2>1, <2>2, <2>3, <2>4
<1>8. \A v \in BOOLEAN : Good([r EXCEPT !.alone = v], ledger)
  BY <1>2, <1>3, <1>7, FreshGood
<1>9. requests' \in 0..MaxRequests
  BY TurnAssumption DEF PInv, Stored, Resume
<1>10. /\ cp' \in [open : BOOLEAN, reason : Reasons, window : Windows] /\ ~cp'.open
  BY DEF PInv, Stored, Resume
<1>11. Stored' /\ ledger' = ledger
  BY <1>9, <1>10 DEF PInv, Stored, SpentOnNudges, Resume
<1> QED
  BY <1>1, <1>7, <1>8, <1>11, EnterStep

---------------------------------------------------------------------------
(* The invariant                                                           *)

LEMMA InitiallyPInv == Init => PInv
<1> SUFFICES ASSUME Init PROVE PInv
  OBVIOUS
<1>1. \A p \in Procs : b[p] = Idle
  BY DEF Init
<1>2. b \in [Procs -> Body] /\ \A p \in Procs : Good(b[p], ledger)
  BY <1>1, IdleGood, IdleFields DEF Init
<1>3. AloneIsAlone
  BY <1>1 DEF AloneIsAlone, Idle
<1>4. /\ NoState \in [Intents -> Statuses] /\ 1 \in Windows /\ "askUser" \in Reasons
      /\ 0 \in 0..MaxRequests /\ 0 \in 0..MaxErrors /\ 0 \in 0..MaxAborts
  BY TurnAssumption DEF NoState, Statuses, Windows, Reasons
<1>5. Stored
  BY <1>4 DEF Init, Stored, SpentOnNudges, Facts
<1> QED
  BY <1>2, <1>3, <1>5 DEF PInv

LEMMA NextKeepsPInv == PInv /\ [Next]_vars => PInv'
<1> SUFFICES ASSUME PInv, [Next]_vars PROVE PInv'
  OBVIOUS
<1>1. ASSUME NEW p \in Procs, Run(p) PROVE PInv'
  BY <1>1, RunStep
<1>2. ASSUME NEW p \in Procs, Resume(p) PROVE PInv'
  BY <1>2, ResumeStep
<1>3. ASSUME NEW p \in Procs, Step(p) PROVE PInv'
  BY <1>3, AppendUserStep, ResumeBlueprintStep, LoadStep, RespondStep, RefuseFinishStep,
     PassGateStep, EndGatesStep, ForceBlockStep, UpdateAnalysisStateStep, EndStateCallsStep,
     QueryStep, BlueprintPausesStep, AnswerWithTableStep, EndBatchStep, AskUserStep,
     RecordStep, ReturnStep DEF Step
<1>4. ASSUME NEW p \in Procs, RunLate(p) PROVE PInv'
  BY <1>4, RunLateStep
<1>5. ASSUME NEW p \in Procs, Abort(p) PROVE PInv'
  BY <1>5, ReturnStep
<1>6. CASE UNCHANGED vars
  <2>1. UNCHANGED <<last, cp, ledger, claims, trail, b, nudges, requests, errors, aborts>>
    BY <1>6 DEF vars, docVars
  <2>2. Stored' /\ AloneIsAlone'
    BY <2>1 DEF PInv, Stored, SpentOnNudges, AloneIsAlone, On
  <2>3. b' \in [Procs -> Body] /\ \A p \in Procs : Good(b'[p], ledger')
    BY <2>1 DEF PInv
  <2> QED
    BY <2>2, <2>3 DEF PInv
<1> QED
  BY <1>1, <1>2, <1>3, <1>4, <1>5, <1>6 DEF Next

(* What the proof rests on holds in every reachable state: rounds and      *)
(* windows are counted right, the window-local copy of the ledger is the   *)
(* stored one, past the intents gate nothing is pending, a request that    *)
(* thinks it is alone is, and a spent allowance for pending intents was    *)
(* spent on telling the model.                                             *)
THEOREM InvariantHolds == Spec => []IInv
<1>1. Init => PInv
  BY InitiallyPInv
<1>2. PInv /\ [Next]_vars => PInv'
  BY NextKeepsPInv
<1>3. PInv => IInv
  BY InvariantForms
<1> QED
  BY <1>1, <1>2, <1>3, PTL DEF Spec

(* A turn stays within max_loop_iterations model calls of a window, plus   *)
(* one for a refused askUser, and within max_budget_windows, for any       *)
(* budgets, any number of requests and any failures.                       *)
THEOREM BudgetsAreBounds == Spec => []BudgetsHold
<1>1. IInv => BudgetsHold
  <2> SUFFICES ASSUME IInv, NEW p \in Procs PROVE b[p].rounds <= MaxIterations + 1
    BY DEF BudgetsHold, RoundsBounded
  <2>1. b[p].rounds \in Nat /\ MaxIterations \in Nat
    BY TurnAssumption DEF IInv, TypeOK, Body
  <2>2. \/ b[p].rounds <= MaxIterations + 0
        \/ b[p].rounds <= MaxIterations + 1
    BY DEF IInv, RoundsCounted
  <2> QED
    BY <2>1, <2>2
<1> QED
  BY <1>1, InvariantHolds, PTL

(* Prose that a gate refused is not what a turn shows at any of its exits. *)
THEOREM RefusedProseIsGone == Spec => []RefusedNeverShown
<1>1. IInv => RefusedNeverShown
  BY DEF IInv, LocalsFit, RefusedNeverShown
<1> QED
  BY <1>1, InvariantHolds, PTL

(* Who is at an exit moves only by a step of its own.                      *)
LEMMA OthersStay ==
    ASSUME b \in [Procs -> Body], NEW p \in Procs, NEW q \in Procs, p # q,
           NEW s, b' = [b EXCEPT ![q] = s]
    PROVE  b'[p] = b[p]
OBVIOUS

LEMMA EnteringStays ==
    ASSUME b \in [Procs -> Body], NEW p \in Procs, NEW q \in Procs, NEW r, Enter(q, r),
           p # q
    PROVE  b'[p].pc = b[p].pc
<1>1. b'[p] = b[p] \/ b'[p] = [b[p] EXCEPT !.alone = FALSE]
  BY DEF Enter
<1>2. b[p] \in Body
  OBVIOUS
<1> QED
  BY <1>1, <1>2 DEF Body

LEMMA StepSetsOwn ==
    ASSUME NEW q \in Procs, Step(q) \/ RunLate(q) \/ Abort(q)
    PROVE  \E s : b' = [b EXCEPT ![q] = s]
<1>1. CASE AppendUser(q) \/ Load(q) \/ PassGate(q) \/ EndStateCalls(q) \/ BlueprintPauses(q)
           \/ EndBatch(q) \/ Record(q) \/ RunLate(q)
  BY <1>1 DEF AppendUser, Load, PassGate, EndStateCalls, BlueprintPauses, EndBatch, Record,
              RunLate, Set
<1>2. CASE Finish(q) \/ Pause(q) \/ Stop(q) \/ Abort(q)
  BY <1>2 DEF Finish, Pause, Stop, Abort, Return, Set
<1>3. CASE ResumeBlueprint(q)
  BY <1>3 DEF ResumeBlueprint, Set
<1>4. CASE Respond(q)
  BY <1>4 DEF Respond, Set
<1>5. CASE RefuseFinish(q)
  BY <1>5 DEF RefuseFinish, Set
<1>6. CASE EndGates(q)
  BY <1>6 DEF EndGates, Set
<1>7. CASE ForceBlock(q)
  BY <1>7 DEF ForceBlock, Set
<1>8. CASE UpdateAnalysisState(q)
  BY <1>8 DEF UpdateAnalysisState, Set
<1>9. CASE Query(q)
  BY <1>9 DEF Query, Set
<1>10. CASE AnswerWithTable(q)
  BY <1>10 DEF AnswerWithTable, Set
<1>11. CASE AskUser(q)
  BY <1>11 DEF AskUser, Set
<1> QED
  BY <1>1, <1>2, <1>3, <1>4, <1>5, <1>6, <1>7, <1>8, <1>9, <1>10, <1>11 DEF Step

LEMMA OwnStepsOnly ==
    ASSUME b \in [Procs -> Body], NEW p \in Procs, [Next]_vars, b'[p].pc # b[p].pc
    PROVE  Run(p) \/ Resume(p) \/ Step(p) \/ RunLate(p) \/ Abort(p)
<1>1. Next
  BY DEF vars
<1>2. PICK q \in Procs : Run(q) \/ Resume(q) \/ Step(q) \/ RunLate(q) \/ Abort(q)
  BY <1>1 DEF Next
<1>3. CASE q = p
  BY <1>2, <1>3
<1>4. CASE q # p
  <2>1. CASE Run(q) \/ Resume(q)
    <3>1. \E r : Enter(q, r)
      BY <2>1 DEF Run, Resume
    <3> QED
      BY <1>4, <3>1, EnteringStays
  <2>2. CASE Step(q) \/ RunLate(q) \/ Abort(q)
    BY <1>4, <2>2, StepSetsOwn, OthersStay
  <2> QED
    BY <1>2, <2>1, <2>2
<1> QED
  BY <1>3, <1>4

LEMMA PInvHolds == Spec => []PInv
BY InitiallyPInv, NextKeepsPInv, PTL DEF Spec

(* No intent is pending when a turn ends in prose, by answerWithTable, at  *)
(* the hard ceiling or by "stop", when no ledger write raised and no other *)
(* request works on the turn.                                              *)
THEOREM NothingPendingAtTheEnd == Spec => NoPendingAtTerminal
<1> DEFINE Ends ==
      \A p \in Procs :
         /\ b[p].pc \in {"finish", "return"} /\ b'[p].pc = "idle"
         /\ b[p].alone /\ ~b[p].lost
         /\ ledger'.turn = b[p].turn
         => PendingIntents(ledger'.st) = {}
<1>1. PInv /\ [Next]_vars => [Ends]_vars
  <2> SUFFICES ASSUME PInv, [Next]_vars, NEW p \in Procs,
                      b[p].pc \in {"finish", "return"}, b'[p].pc = "idle",
                      b[p].alone, ~b[p].lost, ledger'.turn = b[p].turn
               PROVE  PendingIntents(ledger'.st) = {}
    OBVIOUS
  <2>1. Run(p) \/ Resume(p) \/ Step(p) \/ RunLate(p) \/ Abort(p)
    BY OwnStepsOnly DEF PInv
  <2>2. Finish(p) \/ Stop(p) \/ Abort(p)
    BY <2>1 DEF Run, Resume, Step, RunLate, AppendUser, ResumeBlueprint, Load, Respond,
       RefuseFinish, PassGate, EndGates, ForceBlock, UpdateAnalysisState, EndStateCalls,
       Query, BlueprintPauses, AnswerWithTable, EndBatch, CanCall, AskUser, Record, Pause
  <2>3. ledger' = ledger
    BY <2>2 DEF Finish, Stop, Abort, docVars
  <2>4. Settled(b[p], ledger)
    BY DEF PInv, Good
  <2> QED
    BY <2>3, <2>4 DEF Settled, PastTheGate, Quiet
<1>2. NoPendingAtTerminal <=> [][Ends]_vars
  BY DEF NoPendingAtTerminal
<1> HIDE DEF Ends
<1> QED
  BY <1>1, <1>2, PInvHolds, PTL DEF Spec

(* The runtime writes a "forced" disposition at an exit only in a turn and *)
(* window in which the model was told about pending intents, as long as no *)
(* store call raised.                                                      *)
THEOREM ToldBeforeBlocked == Spec => BlockedOnlyAfterNudge
<1> DEFINE Told ==
      \A p \in Procs :
         b[p].pc = "gates" /\ b'[p].pc = "force" /\ errors = 0 /\ errors' = 0
         => <<b[p].turn, b[p].window>> \in nudges
<1>1. PInv /\ [Next]_vars => [Told]_vars
  <2> SUFFICES ASSUME PInv, [Next]_vars, NEW p \in Procs,
                      b[p].pc = "gates", b'[p].pc = "force", errors = 0, errors' = 0
               PROVE  <<b[p].turn, b[p].window>> \in nudges
    OBVIOUS
  <2>1. Run(p) \/ Resume(p) \/ Step(p) \/ RunLate(p) \/ Abort(p)
    BY OwnStepsOnly DEF PInv
  <2>2. b[p] \in Body /\ b[p].turn \in Turns /\ b[p].window \in Windows
    BY DEF PInv, Good, Windowed
  <2>3. PassGate(p) \/ RefuseFinish(p) \/ EndGates(p) \/ Abort(p)
    BY <2>1 DEF Run, Resume, Step, RunLate, AppendUser, ResumeBlueprint, Load, Respond,
       ForceBlock, UpdateAnalysisState, EndStateCalls, Finish, Stop,
       Query, BlueprintPauses, AnswerWithTable, EndBatch, CanCall, AskUser, Record, Pause
  <2>4. ~Abort(p)
    BY DEF PInv, Abort, Return, Set, Idle
  <2>5. ~EndGates(p)
    <3> DEFINE x == [b[p] EXCEPT !.pc = "tools", !.calls = @ + 1, !.answer = NoAnswer, !.exit = "prose"]
    <3>1. x.pc = "tools" /\ [b[p] EXCEPT !.pc = "finish"].pc = "finish"
      BY <2>2 DEF Body
    <3>2. \A f, g : [x EXCEPT !.final = f, !.seen = @ \cup g].pc = "tools"
      BY <2>2 DEF Body
    <3> HIDE DEF x
    <3>3. ASSUME EndGates(p)
          PROVE  \/ b' = [b EXCEPT ![p] = [b[p] EXCEPT !.pc = "finish"]]
                 \/ b' = [b EXCEPT ![p] = x]
                 \/ \E f, g : b' = [b EXCEPT ![p] = [x EXCEPT !.final = f, !.seen = @ \cup g]]
      <4>1. CASE Set(p, [b[p] EXCEPT !.pc = "finish"])
        BY <4>1 DEF Set
      <4>2. CASE Set(p, x)
        BY <4>2 DEF Set
      <4>3. ASSUME NEW g, Set(p, [x EXCEPT !.final = b[p].answer.says, !.seen = @ \cup g])
            PROVE  \E f, h : b' = [b EXCEPT ![p] = [x EXCEPT !.final = f, !.seen = @ \cup h]]
        BY <4>3 DEF Set
      <4> QED
        BY <3>3, <4>1, <4>2, <4>3 DEF EndGates, x
    <3>4. ASSUME EndGates(p) PROVE b'[p].pc \in {"finish", "tools"}
      <4>1. \A s : b' = [b EXCEPT ![p] = s] => b'[p] = s
        BY DEF PInv
      <4>2. CASE \E f, g : b' = [b EXCEPT ![p] = [x EXCEPT !.final = f, !.seen = @ \cup g]]
        <5>1. PICK f, g : b' = [b EXCEPT ![p] = [x EXCEPT !.final = f, !.seen = @ \cup g]]
          BY <4>2
        <5>2. b'[p] = [x EXCEPT !.final = f, !.seen = @ \cup g]
          BY <4>1, <5>1
        <5> QED
          BY <3>2, <5>2
      <4> QED
        BY <3>1, <3>3, <3>4, <4>1, <4>2
    <3> QED
      BY <3>4
  <2>6. ~RefuseFinish(p)
    <3> DEFINE kind == Head(b[p].todo)
               x == Refused(p, kind)
               y == [Withdraw([x EXCEPT !.draft = "refused"]) EXCEPT !.pc = "record", !.todo = <<>>]
               z == [x EXCEPT !.pc = "tools", !.todo = <<>>, !.answer = NoAnswer, !.exit = "prose",
                              !.calls = @ + 1, !.judged = @ \/ kind = "answer_judge"]
    <3>1. y.pc = "record" /\ z.pc = "tools"
      BY <2>2 DEF Body, Refused, Withdraw
    <3> HIDE DEF y, z
    <3>2. ASSUME RefuseFinish(p)
          PROVE  b' = [b EXCEPT ![p] = y] \/ b' = [b EXCEPT ![p] = z]
      <4>1. CASE b[p].exit = "prose"
        BY <3>2, <4>1 DEF RefuseFinish, Set, y
      <4>2. CASE b[p].exit # "prose"
        BY <3>2, <4>2 DEF RefuseFinish, Set, z
      <4> QED
        BY <4>1, <4>2
    <3>3. ASSUME RefuseFinish(p) PROVE b'[p].pc \in {"record", "tools"}
      BY <3>1, <3>2, <3>3 DEF PInv
    <3> QED
      BY <3>3
  <2>7. PassGate(p)
    BY <2>3, <2>4, <2>5, <2>6
  <2>8. Head(b[p].todo) = "intents"
    BY <2>2, <2>7 DEF PInv, PassGate, Set, Body
  <2>9. BlockKey(p, "intents") \in claims
    BY <2>7, <2>8 DEF PassGate, MayNotRefuse
  <2> QED
    BY <2>2, <2>9 DEF PInv, Stored, SpentOnNudges, BlockKey
<1>2. BlockedOnlyAfterNudge <=> [][Told]_vars
  BY DEF BlockedOnlyAfterNudge
<1> HIDE DEF Told
<1> QED
  BY <1>1, <1>2, PInvHolds, PTL DEF Spec
=============================================================================
