----------------------------- MODULE AgentTurn -----------------------------
(***************************************************************************)
(* AgentLoop: the turns of one session.  A request starts a turn (run) or  *)
(* continues a paused one (resume); both enter _run_loop_body, which asks  *)
(* the model for a response, dispatches its tool calls, and ends the turn  *)
(* by one of its exits unless a finalization gate refuses.  Several        *)
(* requests of the session may be in flight; nothing serialises them.      *)
(*                                                                         *)
(* A store call is one step: SessionStore shows that it is atomic.  Texts, *)
(* results and evidence are reduced to what a gate asks about them.        *)
(***************************************************************************)
EXTENDS Integers, Sequences, FiniteSets

CONSTANTS
    Procs,          \* requests in flight at the same time
    Intents,        \* intents a turn may declare
    Texts,          \* what the model may say in prose
    JudgeOn,        \* an answer judge is configured
    MaxIterations,  \* max_loop_iterations
    MaxWindows,     \* max_budget_windows
    MaxStateCalls,  \* MAX_STATE_CALLS
    MaxToolCalls,   \* max_tool_calls_per_iteration
    MaxTurns,       \* bound: turns of the session
    MaxRequests,    \* bound: requests
    MaxErrors,      \* bound: store calls that raise where the loop carries on
    MaxAborts       \* bound: requests that raise or die

ASSUME TurnAssumption ==
    /\ Texts \subseteq {"blank", "plain", "ungrounded", "misshaped"}
    /\ JudgeOn \in BOOLEAN
    /\ MaxIterations \in Nat \ {0}
    /\ MaxWindows \in Nat \ {0}
    /\ MaxTurns \in Nat \ {0}
    /\ {MaxStateCalls, MaxToolCalls, MaxRequests, MaxErrors, MaxAborts} \subseteq Nat

VARIABLES
    last,    \* turn_index of the last message, or -1
    cp,      \* the pause checkpoint; open: written and not consumed
    ledger,  \* analysis_state: its turn and the status of each intent
    claims,  \* finalization_blocks: the keys that are spent
    trail,   \* trail[t]: what the tool trail shows of turn t
    b,       \* b[p]: the locals of request p
    nudges,  \* history: the turns and windows that were told of pending intents
    requests, errors, aborts

docVars == <<last, cp, ledger, claims, trail>>
vars == <<docVars, b, nudges, requests, errors, aborts>>

---------------------------------------------------------------------------
Kinds == {"intents", "answer_shape", "empty_answer", "ungrounded_answer",
          "answer_judge", "ask_user_judge"}

(* An intent that was not declared is "none"; a disposition the runtime    *)
(* wrote is "forced", one the model gave evidence for is "closed".         *)
Statuses == {"none", "pending", "closed", "forced"}
NoState == [i \in Intents |-> "none"]

Turns == 0..(MaxTurns - 1)
Windows == 1..MaxWindows
Facts == {"ran", "rows", "awt"}
Reasons == {"askUser", "budget_cap", "blueprint"}

PC == {"idle", "append", "load", "blueprint", "round", "gates", "force", "state", "tools",
       "ask", "record", "finish", "pause", "return"}

(* An answerWithTable call: it has a text, it designates a table, its      *)
(* blueprint did not run.                                                  *)
Answers == [says : BOOLEAN, tab : BOOLEAN, bad : BOOLEAN]
NoAnswer == [says |-> FALSE, tab |-> FALSE, bad |-> FALSE]

Body ==
    [pc : PC,
     turn : Nat,                       \* turn_index
     window : Nat,                     \* window_count
     know : [Intents -> Statuses],     \* analysis_state, the window-local copy
     seen : SUBSET {"rows", "shown"},  \* AnswerShapeCounter
     iters : Nat,                      \* BudgetGuard._iterations
     late : BOOLEAN,                   \* wall clock or token spend at its cap
     refused : BOOLEAN,                \* FinalizationGate._refused_this_round
     granted : SUBSET Kinds,           \* FinalizationGate._granted_kinds
     todo : Seq(Kinds),                \* complaints still to be raised at this exit
     answer : Answers,                 \* the answerWithTable call
     exit : {"prose", "table"},
     after : PC,                       \* where _force_block_pending_intents returns to
     ask : BOOLEAN,                    \* the response has an askUser call
     calls : Nat,                      \* calls dispatched of the batch
     final : BOOLEAN,                  \* designated_answer_text is set
     judged : BOOLEAN,                 \* judge_refusal_this_round
     draft : {"none", "open", "refused"},   \* last_assistant_text
     reason : Reasons,
     rounds : Nat,                     \* history: model calls of this body
     alone : BOOLEAN,                  \* history: no other request on this turn
     lost : BOOLEAN]                   \* history: a ledger write raised

Idle ==
    [pc |-> "idle", turn |-> 0, window |-> 1, know |-> NoState, seen |-> {},
     iters |-> 0, late |-> FALSE, refused |-> FALSE, granted |-> {}, todo |-> <<>>,
     answer |-> NoAnswer, exit |-> "prose", after |-> "idle", ask |-> FALSE, calls |-> 0, final |-> FALSE, judged |-> FALSE,
     draft |-> "none", reason |-> "askUser", rounds |-> 0, alone |-> FALSE, lost |-> FALSE]

TypeOK ==
    /\ last \in Turns \cup {-1}
    /\ cp \in [open : BOOLEAN, reason : Reasons, window : Windows]
    /\ ledger \in [turn : Turns \cup {-1}, st : [Intents -> Statuses]]
    /\ claims \in SUBSET (Turns \X Windows \X Kinds)
    /\ trail \in [Turns -> SUBSET Facts]
    /\ b \in [Procs -> Body]
    /\ nudges \in SUBSET (Turns \X Windows)
    /\ requests \in 0..MaxRequests
    /\ errors \in 0..MaxErrors
    /\ aborts \in 0..MaxAborts

Init ==
    /\ last = -1
    /\ cp = [open |-> FALSE, reason |-> "askUser", window |-> 1]
    /\ ledger = [turn |-> -1, st |-> NoState]
    /\ claims = {}
    /\ trail = [t \in Turns |-> {}]
    /\ b = [p \in Procs |-> Idle]
    /\ nudges = {}
    /\ requests = 0
    /\ errors = 0
    /\ aborts = 0

---------------------------------------------------------------------------
Set(p, r) == b' = [b EXCEPT ![p] = r]

On(q, t) == b[q].pc # "idle" /\ b[q].turn = t

(* Request p starts to work on the turn of r.                              *)
Enter(p, r) ==
    b' = [q \in Procs |->
            IF q = p THEN [r EXCEPT !.alone = \A x \in Procs \ {p} : ~On(x, r.turn)]
            ELSE IF On(q, r.turn) THEN [b[q] EXCEPT !.alone = FALSE] ELSE b[q]]

(* p answers its client; its locals are gone.                              *)
Return(p) == Set(p, Idle)

(* The top of the round: what is reset for every response.                 *)
BeginRound(r) ==
    [r EXCEPT !.pc = "round", !.refused = FALSE, !.judged = FALSE, !.final = FALSE,
              !.calls = 0]

(* live_analysis_state: a state of another turn is history.                *)
Live(t) == IF ledger.turn = t THEN ledger.st ELSE NoState

PendingIntents(st) == {i \in Intents : st[i] = "pending"}

---------------------------------------------------------------------------
(* Requests                                                                *)

(* run: the turn index is one more than that of the last message read ...  *)
Run(p) ==
    /\ b[p].pc = "idle"
    /\ requests < MaxRequests
    /\ last + 1 \in Turns
    /\ requests' = requests + 1
    /\ Enter(p, [Idle EXCEPT !.pc = "append", !.turn = last + 1])
    /\ UNCHANGED <<docVars, nudges, errors, aborts>>

(* ... and the user's message is appended by another store call.           *)
AppendUser(p) ==
    /\ b[p].pc = "append"
    /\ last' = b[p].turn
    /\ Set(p, [b[p] EXCEPT !.pc = "load"])
    /\ UNCHANGED <<cp, ledger, claims, trail, nudges, requests, errors, aborts>>

(* What a resume makes of the checkpoint c on turn t.  "Stop" ends the     *)
(* turn; any other answer to a budget cap opens the next window; a         *)
(* question is answered within its window; a blueprint goes on at its node.*)
Resumed(c, t) ==
    LET r == [Idle EXCEPT !.turn = t, !.window = c.window]
    IN CASE c.reason = "budget_cap" ->
              {[r EXCEPT !.pc = "force", !.after = "return", !.know = Live(t)],
               [r EXCEPT !.pc = "load", !.window = c.window + 1]}
         [] c.reason = "askUser" -> {[r EXCEPT !.pc = "load"]}
         [] c.reason = "blueprint" -> {[r EXCEPT !.pc = "blueprint"]}

(* resume: the checkpoint is consumed under the CAS it was read with, so   *)
(* the two store calls are one step.  The turn is that of the last message.*)
Resume(p) ==
    /\ b[p].pc = "idle"
    /\ requests < MaxRequests
    /\ cp.open
    /\ last \in Turns
    /\ requests' = requests + 1
    /\ cp' = [cp EXCEPT !.open = FALSE]
    /\ \E r \in Resumed(cp, last) : Enter(p, r)
    /\ UNCHANGED <<last, ledger, claims, trail, nudges, errors, aborts>>

(* _resume_blueprint: the executor pauses again, or its result goes to the *)
(* trail and the model loop continues.                                     *)
ResumeBlueprint(p) ==
    /\ b[p].pc = "blueprint"
    /\ \/ /\ Set(p, [b[p] EXCEPT !.pc = "pause", !.reason = "blueprint"])
          /\ UNCHANGED trail
       \/ /\ \E rows \in SUBSET {"rows"} :
               trail' = [trail EXCEPT ![b[p].turn] = @ \cup {"ran"} \cup rows]
          /\ Set(p, [b[p] EXCEPT !.pc = "load"])
    /\ UNCHANGED <<last, cp, ledger, claims, nudges, requests, errors, aborts>>

(* The preamble of _run_loop_body: a fresh guard and gate, and one read of *)
(* the session for the ledger and for what the trail shows of this turn.   *)
Load(p) ==
    /\ b[p].pc = "load"
    /\ LET facts == trail[b[p].turn] IN
       Set(p, BeginRound([b[p] EXCEPT
                 !.know = Live(b[p].turn),
                 !.seen = (facts \cap {"rows"}) \cup (IF "awt" \in facts THEN {"shown"} ELSE {})]))
    /\ UNCHANGED <<docVars, nudges, requests, errors, aborts>>

---------------------------------------------------------------------------
(* A round: the model's response and the complaints against it             *)

(* The judge approves, is skipped or fails, or it complains.               *)
JudgeSays(p, kind) ==
    IF JudgeOn /\ kind \notin b[p].granted THEN {<<>>, <<kind>>} ELSE {<<>>}

(* The gates of exit 1 in their order: pending intents or else untabled    *)
(* rows, the answer rules, which charge to ungrounded_answer or to         *)
(* answer_shape, the empty answer, the judge.                              *)
ProseComplaints(p, text) ==
    LET first == IF PendingIntents(b[p].know) # {} THEN <<"intents">>
                 ELSE IF b[p].seen = {"rows"} THEN <<"answer_shape">> ELSE <<>>
        rule == CASE text = "ungrounded" -> <<"ungrounded_answer">>
                  [] text = "misshaped" -> <<"answer_shape">>
                  [] OTHER -> <<>>
        tail == IF text = "blank" THEN {<<"empty_answer">>} ELSE JudgeSays(p, "answer_judge")
    IN {first \o rule \o t : t \in tail}

(* The gates of exit 2 for an answerWithTable call a: pending intents; a   *)
(* blueprint that did not run ends it; rows in hand and no table           *)
(* designated; the judge, whose refusal stands for the whole batch and who *)
(* is silent when another gate has refused in this round.                  *)
TableComplaints(p, a) ==
    LET first == IF a.says /\ PendingIntents(b[p].know) # {} THEN <<"intents">> ELSE <<>>
        shape == IF a.says /\ ~a.tab /\ "rows" \in b[p].seen THEN <<"answer_shape">> ELSE <<>>
        judge == CASE ~a.says -> {<<>>}
                   [] a.says /\ b[p].judged -> {<<"answer_judge">>}
                   [] a.says /\ ~b[p].judged /\ b[p].refused -> {<<>>}
                   [] OTHER -> JudgeSays(p, "answer_judge")
    IN IF a.bad THEN {first} ELSE {first \o shape \o j : j \in judge}

(* send_turn: prose, or a batch of tool calls that may include askUser.    *)
Respond(p) ==
    /\ b[p].pc = "round"
    /\ LET r == [b[p] EXCEPT !.rounds = @ + 1, !.draft = "open"]
       IN \/ \E text \in Texts : \E c \in ProseComplaints(p, text) :
               Set(p, [r EXCEPT !.pc = "gates", !.todo = c,
                                !.draft = IF text = "blank" THEN "none" ELSE "open"])
          \/ \E ask \in BOOLEAN : Set(p, [r EXCEPT !.pc = "state", !.ask = ask])
    /\ UNCHANGED <<docVars, nudges, requests, errors, aborts>>
---------------------------------------------------------------------------
(* The finalization gate                                                   *)

(* Mutation: the claim key does not name the turn.                         *)
KeyWithoutTurn(p, kind) == <<0, b[p].window, kind>>

(* finalization_block_key: one allowance per turn, window and kind.        *)
BlockKey(p, kind) == <<b[p].turn, b[p].window, kind>>

(* claim_finalization_block answers true.                                  *)
Grant(p, kind) ==
    /\ BlockKey(p, kind) \notin claims
    /\ claims' = claims \cup {BlockKey(p, kind)}

(* may_refuse is true: for free when this round was refused before, else   *)
(* by a claim.                                                             *)
MayRefuse(p, kind) ==
    /\ \/ b[p].refused /\ UNCHANGED claims
       \/ ~b[p].refused /\ Grant(p, kind)
    /\ nudges' = IF kind = "intents" THEN nudges \cup {<<b[p].turn, b[p].window>>} ELSE nudges

(* may_refuse is false: the allowance is spent, or the claim raised, its   *)
(* write applied or not.                                                   *)
MayNotRefuse(p, kind) ==
    /\ ~b[p].refused
    /\ \/ BlockKey(p, kind) \in claims /\ UNCHANGED <<claims, errors>>
       \/ /\ errors < MaxErrors
          /\ errors' = errors + 1
          /\ claims' \in {claims, claims \cup {BlockKey(p, kind)}}
    /\ UNCHANGED nudges

(* The locals after a refusal of that kind.                                *)
Refused(p, kind) ==
    [b[p] EXCEPT !.refused = TRUE,
                 !.granted = IF b[p].refused THEN @ ELSE @ \cup {kind}]

(* Mutation: the refused prose stays in last_assistant_text.               *)
WithdrawNothing(r) == r

(* A refused prose finish leaves no draft behind.                          *)
Withdraw(r) == [r EXCEPT !.draft = "none"]

(* A complaint refuses the finish.  In prose the round is over; a refused  *)
(* answerWithTable is an error result and the batch goes on.               *)
RefuseFinish(p) ==
    /\ b[p].pc = "gates"
    /\ b[p].todo # <<>>
    /\ LET kind == Head(b[p].todo) IN
         /\ MayRefuse(p, kind)
         /\ IF b[p].exit = "prose"
            THEN Set(p, [Withdraw([Refused(p, kind) EXCEPT !.draft = "refused"]) EXCEPT
                           !.pc = "record", !.todo = <<>>])
            ELSE Set(p, [Refused(p, kind) EXCEPT
                           !.pc = "tools", !.todo = <<>>, !.answer = NoAnswer, !.exit = "prose",
                           !.calls = @ + 1,
                           !.judged = @ \/ kind = "answer_judge"])
    /\ UNCHANGED <<last, cp, ledger, trail, requests, errors, aborts>>

(* Mutation: the complaint whose allowance is spent is raised again.       *)
PassGateAgain(p) ==
    /\ b[p].pc = "gates"
    /\ b[p].todo # <<>>
    /\ MayNotRefuse(p, Head(b[p].todo))
    /\ UNCHANGED <<last, cp, ledger, trail, b, requests, aborts>>

(* A complaint that may not refuse is dropped; pending intents are blocked *)
(* by the runtime first.                                                   *)
PassGate(p) ==
    /\ b[p].pc = "gates"
    /\ b[p].todo # <<>>
    /\ MayNotRefuse(p, Head(b[p].todo))
    /\ Set(p, IF Head(b[p].todo) = "intents"
              THEN [b[p] EXCEPT !.pc = "force", !.after = "gates", !.todo = Tail(@)]
              ELSE [b[p] EXCEPT !.todo = Tail(@)])
    /\ UNCHANGED <<last, cp, ledger, trail, requests, aborts>>

(* Nothing is left to complain about: prose ends the turn, an              *)
(* answerWithTable call goes to the trail and ends it after the batch if   *)
(* it says anything.  A designated table may not resolve.                  *)
EndGates(p) ==
    /\ b[p].pc = "gates"
    /\ b[p].todo = <<>>
    /\ LET a == b[p].answer
           r == [b[p] EXCEPT !.pc = "tools", !.calls = @ + 1, !.answer = NoAnswer, !.exit = "prose"]
       IN
       \/ /\ b[p].exit = "prose"
          /\ Set(p, [b[p] EXCEPT !.pc = "finish"])
          /\ UNCHANGED trail
       \/ /\ b[p].exit = "table" /\ a.bad
          /\ Set(p, r)
          /\ UNCHANGED trail
       \/ /\ b[p].exit = "table" /\ ~a.bad
          /\ trail' = [trail EXCEPT ![b[p].turn] = @ \cup {"awt"}]
          /\ \E shown \in SUBSET {"shown"} :
               /\ shown # {} => a.tab
               /\ Set(p, [r EXCEPT !.final = a.says, !.seen = @ \cup shown])
    /\ UNCHANGED <<last, cp, ledger, claims, nudges, requests, errors, aborts>>

(* _force_block_pending_intents: every pending intent of the live state is *)
(* blocked by the runtime.  Without a live state or without a pending      *)
(* intent nothing is written; a store error is swallowed.                  *)
Blocked(st) == [i \in Intents |-> IF st[i] = "pending" THEN "forced" ELSE st[i]]

ForceBlock(p) ==
    /\ b[p].pc = "force"
    /\ LET r == [b[p] EXCEPT !.pc = b[p].after, !.after = "idle"]
           new == [turn |-> b[p].turn, st |-> Blocked(Live(b[p].turn))]
       IN \/ /\ PendingIntents(b[p].know) = {} \/ Live(b[p].turn) = NoState
             /\ Set(p, r)
             /\ UNCHANGED <<ledger, errors>>
          \/ /\ PendingIntents(b[p].know) # {} /\ Live(b[p].turn) # NoState
             /\ ledger' = new
             /\ Set(p, [r EXCEPT !.know = new.st])
             /\ UNCHANGED errors
          \/ /\ PendingIntents(b[p].know) # {}
             /\ errors < MaxErrors
             /\ errors' = errors + 1
             /\ ledger' \in {ledger, IF Live(b[p].turn) = NoState THEN ledger ELSE new}
             /\ Set(p, [r EXCEPT !.lost = TRUE])
    /\ UNCHANGED <<last, cp, claims, trail, nudges, requests, aborts>>

---------------------------------------------------------------------------
(* The tool batch                                                          *)

(* What updateAnalysisState may write: the declaration of some intents, if *)
(* there is no live state and no substantive call on the trail of the      *)
(* turn; else new statuses for declared intents.                           *)
StateUpdates(t) ==
    IF Live(t) = NoState
    THEN IF "ran" \in trail[t] THEN {}
         ELSE {[i \in Intents |-> IF i \in D THEN "pending" ELSE "none"] :
                 D \in (SUBSET Intents) \ {{}}}
    ELSE {st \in [Intents -> Statuses] :
            \A i \in Intents :
                \/ st[i] = Live(t)[i]
                \/ Live(t)[i] # "none" /\ st[i] \in {"pending", "closed"}}

(* Mutation: the local copy is not refreshed from the result.              *)
RefreshNothing(p, st) == b[p]

(* refreshed_analysis_state                                                *)
Refresh(p, st) == [b[p] EXCEPT !.know = st]

(* A state call.  They are dispatched before the other calls; one that the *)
(* tool rejects changes nothing, one that raises is an error result.       *)
UpdateAnalysisState(p) ==
    /\ b[p].pc = "state"
    /\ b[p].calls < MaxStateCalls
    /\ \E st \in StateUpdates(b[p].turn) :
         \/ /\ ledger' = [turn |-> b[p].turn, st |-> st]
            /\ Set(p, [Refresh(p, st) EXCEPT !.calls = @ + 1])
            /\ UNCHANGED errors
         \/ /\ errors < MaxErrors
            /\ errors' = errors + 1
            /\ ledger' = [turn |-> b[p].turn, st |-> st]
            /\ Set(p, [b[p] EXCEPT !.calls = @ + 1, !.lost = TRUE])
    /\ UNCHANGED <<last, cp, claims, trail, nudges, requests, aborts>>

(* No (further) state call.  With an askUser call no other is dispatched.  *)
EndStateCalls(p) ==
    /\ b[p].pc = "state"
    /\ Set(p, [b[p] EXCEPT !.pc = IF b[p].ask THEN "ask" ELSE "tools",
                           !.ask = FALSE, !.calls = 0])
    /\ UNCHANGED <<docVars, nudges, requests, errors, aborts>>

(* The budget is checked after every call of a batch.                      *)
CanCall(p) ==
    /\ b[p].pc = "tools"
    /\ b[p].calls < MaxToolCalls
    /\ \/ b[p].calls = 0
       \/ ~b[p].late

(* A substantive call: a trail entry, with several rows or not.            *)
Query(p) ==
    /\ CanCall(p)
    /\ \E rows \in SUBSET {"rows"} :
         /\ trail' = [trail EXCEPT ![b[p].turn] = @ \cup {"ran"} \cup rows]
         /\ Set(p, [b[p] EXCEPT !.calls = @ + 1, !.seen = @ \cup rows])
    /\ UNCHANGED <<last, cp, ledger, claims, nudges, requests, errors, aborts>>

(* runBlueprint asks for a slot or an approval.                            *)
BlueprintPauses(p) ==
    /\ CanCall(p)
    /\ Set(p, [b[p] EXCEPT !.pc = "pause", !.reason = "blueprint"])
    /\ UNCHANGED <<docVars, nudges, requests, errors, aborts>>

AnswerWithTable(p) ==
    /\ CanCall(p)
    /\ \E a \in Answers :
         \E c \in TableComplaints(p, a) :
           Set(p, [b[p] EXCEPT !.pc = "gates", !.exit = "table", !.answer = a, !.todo = c])
    /\ UNCHANGED <<docVars, nudges, requests, errors, aborts>>

(* The batch is drained: a designated answer ends the turn.                *)
EndBatch(p) ==
    /\ b[p].pc = "tools"
    /\ Set(p, [b[p] EXCEPT !.pc = IF b[p].final THEN "finish" ELSE "record"])
    /\ UNCHANGED <<docVars, nudges, requests, errors, aborts>>

(* askUser pauses the turn, unless the judge complains about the question  *)
(* and may refuse: then the next round follows, and this one is not        *)
(* recorded against the budget.                                            *)
AskUser(p) ==
    /\ b[p].pc = "ask"
    /\ \E says \in JudgeSays(p, "ask_user_judge") :
         LET pause == [b[p] EXCEPT !.pc = "pause", !.reason = "askUser"] IN
         \/ /\ says = <<>>
            /\ Set(p, pause)
            /\ UNCHANGED <<claims, nudges, errors>>
         \/ /\ says # <<>>
            /\ MayRefuse(p, "ask_user_judge")
            /\ Set(p, BeginRound(Refused(p, "ask_user_judge")))
            /\ UNCHANGED errors
         \/ /\ says # <<>>
            /\ MayNotRefuse(p, "ask_user_judge")
            /\ Set(p, pause)
    /\ UNCHANGED <<last, cp, ledger, trail, requests, aborts>>

---------------------------------------------------------------------------
(* The budget and the exits                                                *)

(* The clock or the token count of the window reaches its cap.  It is read *)
(* between the calls of a batch and at the end of the round.               *)
RunLate(p) ==
    /\ b[p].pc \in {"tools", "record"}
    /\ ~b[p].late
    /\ Set(p, [b[p] EXCEPT !.late = TRUE])
    /\ UNCHANGED <<docVars, nudges, requests, errors, aborts>>

(* The window is used up: in the last window the turn stops, after a       *)
(* refused round what is pending is blocked, and the turn pauses.          *)
AtCap(r) ==
    IF r.window >= MaxWindows
    THEN [r EXCEPT !.pc = "force", !.after = "return"]
    ELSE [r EXCEPT !.pc = IF r.refused THEN "force" ELSE "pause",
                   !.after = IF r.refused THEN "pause" ELSE "idle",
                   !.reason = "budget_cap"]

(* Mutation: a refused round is not charged to the budget.                 *)
RecordRefusedFree(p) ==
    /\ b[p].pc = "record"
    /\ LET r == [b[p] EXCEPT !.iters = IF b[p].refused THEN @ ELSE @ + 1]
       IN Set(p, IF r.iters >= MaxIterations \/ r.late THEN AtCap(r) ELSE BeginRound(r))
    /\ UNCHANGED <<docVars, nudges, requests, errors, aborts>>

(* record_iteration, and the budget check of the round.                    *)
Record(p) ==
    /\ b[p].pc = "record"
    /\ LET r == [b[p] EXCEPT !.iters = @ + 1]
       IN Set(p, IF r.iters >= MaxIterations \/ r.late THEN AtCap(r)
                 ELSE BeginRound(r))
    /\ UNCHANGED <<docVars, nudges, requests, errors, aborts>>

(* _finish of a done exit appends the answer under the turn of the body.   *)
Finish(p) ==
    /\ b[p].pc = "finish"
    /\ last' = b[p].turn
    /\ Return(p)
    /\ UNCHANGED <<cp, ledger, claims, trail, nudges, requests, errors, aborts>>

(* write_pause_checkpoint replaces the checkpoint that was there.          *)
Pause(p) ==
    /\ b[p].pc = "pause"
    /\ cp' = [open |-> TRUE, reason |-> b[p].reason, window |-> b[p].window]
    /\ Return(p)
    /\ UNCHANGED <<last, ledger, claims, trail, nudges, requests, errors, aborts>>

(* The hard ceiling, and the answer "stop".                                *)
Stop(p) ==
    /\ b[p].pc = "return"
    /\ Return(p)
    /\ UNCHANGED <<docVars, nudges, requests, errors, aborts>>

(* Any other exception, a client that disconnects or a crash: what is      *)
(* stored stays.                                                           *)
Abort(p) ==
    /\ b[p].pc # "idle"
    /\ aborts < MaxAborts
    /\ aborts' = aborts + 1
    /\ Return(p)
    /\ UNCHANGED <<docVars, nudges, requests, errors>>

Step(p) ==
    \/ AppendUser(p) \/ ResumeBlueprint(p) \/ Load(p) \/ Respond(p)
    \/ RefuseFinish(p) \/ PassGate(p) \/ EndGates(p) \/ ForceBlock(p)
    \/ UpdateAnalysisState(p) \/ EndStateCalls(p)
    \/ Query(p) \/ BlueprintPauses(p) \/ AnswerWithTable(p) \/ EndBatch(p)
    \/ AskUser(p) \/ Record(p) \/ Finish(p) \/ Pause(p) \/ Stop(p)

Next ==
    \E p \in Procs : Run(p) \/ Resume(p) \/ Step(p) \/ RunLate(p) \/ Abort(p)

Spec == Init /\ [][Next]_vars

(* The model, the tools and the store answer or raise.                     *)
FairSpec == Spec /\ \A p \in Procs : WF_vars(Step(p))
---------------------------------------------------------------------------
(* Properties                                                              *)

(* No intent ends pending on a turn that reaches a terminal outcome (05    *)
(* section F): neither in prose nor by answerWithTable, at the hard        *)
(* ceiling or by "stop", after any resumes, whatever the local copy of the *)
(* ledger was.  Not promised when a ledger write raised, and not when two  *)
(* requests work on the same turn.                                         *)
NoPendingAtTerminal ==
    [][\A p \in Procs :
         /\ b[p].pc \in {"finish", "return"} /\ b'[p].pc = "idle"
         /\ b[p].alone /\ ~b[p].lost
         /\ ledger'.turn = b[p].turn
         => PendingIntents(ledger'.st) = {}]_vars

(* One entry of _run_loop_body calls the model at most max_loop_iterations *)
(* times, and once more when the judge sent back a question: the round of  *)
(* a refused askUser is the only one that is not recorded.                 *)
RoundsBounded == \A p \in Procs : b[p].rounds <= MaxIterations + 1

(* Prose that a gate refused never reaches the user, also not as the       *)
(* partial answer of a budget cap or the hard ceiling ("CLEAR THE DRAFT"). *)
RefusedNeverShown ==
    \A p \in Procs : b[p].pc \in {"finish", "pause", "return"} => b[p].draft # "refused"

(* The runtime blocks an intent at an exit only after the model was told   *)
(* about pending intents in this turn and window, or when a store call     *)
(* raised (finalization_block_key, "THE TURN INDEX IS LOAD-BEARING").      *)
BlockedOnlyAfterNudge ==
    [][\A p \in Procs :
         b[p].pc = "gates" /\ b'[p].pc = "force" /\ errors = 0 /\ errors' = 0
         => <<b[p].turn, b[p].window>> \in nudges]_vars

(* --- the parts of the inductive invariant ---                            *)

(* The model calls of a body are its recorded iterations, the round it is  *)
(* in and the one round that a refused askUser did not record.             *)
RoundsCounted ==
    \A p \in Procs :
      LET r == b[p]
          unrecorded == IF "ask_user_judge" \in r.granted THEN 1 ELSE 0
      IN /\ r.pc \in {"append", "load", "blueprint"} => r.rounds = 0 /\ r.iters = 0
         /\ r.pc = "round" =>
              r.iters < MaxIterations /\ r.rounds = r.iters + unrecorded
         /\ r.pc \in {"gates", "state", "tools", "ask", "record"} =>
              r.iters < MaxIterations /\ r.rounds = r.iters + 1 + unrecorded
         /\ r.rounds <= MaxIterations + unrecorded

(* The round of a response that is not refused yet.                        *)
RoundsFresh == \A p \in Procs : b[p].pc \in {"round", "state", "ask"} => ~b[p].refused

(* A cap that pauses leaves a window to resume into, so no request ever    *)
(* works in a window beyond max_budget_windows.                            *)
WindowsBounded ==
    /\ cp.open /\ cp.reason = "budget_cap" => cp.window < MaxWindows
    /\ \A p \in Procs :
         /\ b[p].turn \in Turns /\ b[p].window \in Windows
         /\ (b[p].pc = "pause" \/ b[p].after = "pause") /\ b[p].reason = "budget_cap" =>
              b[p].window < MaxWindows

Undisturbed(p) == b[p].alone /\ ~b[p].lost /\ ledger.turn = b[p].turn

(* The window-local copy of the ledger is the stored one.                  *)
CopyCurrent ==
    \A p \in Procs :
        b[p].pc \notin {"idle", "append", "load", "blueprint", "pause"} /\ Undisturbed(p)
        => b[p].know = ledger.st

(* Past the pending-intents gate of either exit nothing is pending.        *)
PastTheGate(r) ==
    \/ r.pc \in {"finish", "return"}
    \/ r.final
    \/ /\ r.pc = "gates" /\ (r.exit = "prose" \/ r.answer.says)
       /\ \A k \in 1..Len(r.todo) : r.todo[k] # "intents"

SettledPastTheGate ==
    \A p \in Procs :
        PastTheGate(b[p]) /\ Undisturbed(p) => PendingIntents(ledger.st) = {}

(* What the locals are between the steps that use them.                    *)
LocalsFit ==
    \A p \in Procs :
      LET r == b[p]
          unrecorded == IF "ask_user_judge" \in r.granted THEN 1 ELSE 0
      IN /\ r.pc = "idle" => r = Idle
         /\ r.pc \in {"append", "load", "blueprint"} => r.granted = {}
         /\ r.pc \in {"round", "state", "ask"} => ~r.final
         /\ r.pc = "force" =>
              /\ r.after \in {"gates", "pause", "return"}
              /\ r.after = "gates" =>
                   r.iters < MaxIterations /\ r.rounds = r.iters + 1 + unrecorded
         /\ \A k \in 1..Len(r.todo) : r.todo[k] # "ask_user_judge"
         /\ r.draft # "refused"

(* A request that thinks it is alone on its turn is.                       *)
AloneIsAlone ==
    \A p, q \in Procs :
        p # q /\ b[p].pc # "idle" /\ On(q, b[p].turn) => ~b[p].alone

(* An allowance for pending intents that is spent was spent on telling the *)
(* model.                                                                  *)
SpentOnNudges ==
    errors = 0 =>
        \A t \in Turns, w \in Windows :
            <<t, w, "intents">> \in claims => <<t, w>> \in nudges

IInv ==
    /\ TypeOK
    /\ ledger.turn # -1 => ledger.st # NoState
    /\ RoundsCounted
    /\ RoundsFresh
    /\ WindowsBounded
    /\ CopyCurrent
    /\ SettledPastTheGate
    /\ LocalsFit
    /\ AloneIsAlone
    /\ SpentOnNudges

(* Every request is answered: no chain of refusals, pauses of the judge    *)
(* and failed claims keeps a turn in the loop.                             *)
EventuallyAnswered == \A p \in Procs : b[p].pc # "idle" ~> b[p].pc = "idle"

(* A turn stays within its budgets, in rounds of a window and in windows,  *)
(* and its copy of the ledger is good enough for the gates at its exits.   *)
BudgetsHold == IInv /\ RoundsBounded
============================================================================
