--------------------------- MODULE SessionSummary ---------------------------
(* What the learning loop makes of a session: how turns, pauses, resumes    *)
(* and abandoned requests write messages and the tool trail                *)
(* (runtime/loop/agent_loop.py), what load_session_summary reads from them *)
(* (learning/summary/loader.py), and whether triage keeps the session.     *)
(* A text is what the lexicon finds in it; a tool call id is the position  *)
(* of its entry.                                                           *)
EXTENDS Naturals, Sequences, FiniteSets, SequencesExt

CONSTANTS
    Unset,
    Queries,       \* SQL texts
    Designations,  \* what an answerWithTable may show: sequences of SQL
    CodesOf,       \* the error codes a failing call of each tool may carry
    MaxTurns,      \* bound: turns of the session
    MaxWrites      \* bound: its messages and the entries of its trail

ASSUME SummaryAssumption ==
    /\ Unset \notin Queries \cup {"explicit_confirm", "no_correction"}
    /\ Designations \subseteq Seq(Queries)
    /\ MaxTurns \in Nat /\ MaxWrites \in Nat

VARIABLES
    messages,  \* of the document, in order
    trail,     \* tool_trail of the document, in order
    request,   \* the request in flight: "none", "running", or how it paused
    answered   \* history: turns in which a clarification was answered

svars == <<messages, trail, request, answered>>

---------------------------------------------------------------------------
(* The document                                                            *)

MessageTexts == {"plain", "correction", "confirmation"}
EMPTY_ANSWER_FALLBACK_TEXT == "fallback"
PauseReasons == {"askUser", "budget_cap", "approval"}

TurnMessage(role, turn, text) == [role |-> role, turn |-> turn, text |-> text]
TrailEntry(turn, tool, code, sql, shown) ==
    [turn |-> turn, tool |-> tool, code |-> code, sql |-> sql, shown |-> shown]

Tools == {"runQuery", "runBlueprint", "explainQuery", "answerWithTable",
          "getTableSchema", "askUser"}

ASSUME ToolsAssumption == DOMAIN CodesOf \subseteq Tools

Codes == UNION {CodesOf[t] : t \in DOMAIN CodesOf}
NoError == "none"
Ok(e) == e.code = NoError
TheTurn == IF messages = <<>> THEN 0 ELSE Last(messages).turn

SummaryTypeOK ==
    /\ \A m \in Range(messages) :
           /\ m.role \in {"user", "assistant"} /\ m.turn \in 1..MaxTurns
           /\ m.text \in MessageTexts \cup {EMPTY_ANSWER_FALLBACK_TEXT}
    /\ \A e \in Range(trail) :
           /\ e.turn \in 1..MaxTurns /\ e.tool \in Tools
           /\ e.code \in Codes \cup {NoError} /\ e.sql \in Queries \cup {Unset}
           /\ e.shown \in Designations \cup {<<>>}
    /\ request \in {"none", "running"} \cup PauseReasons
    /\ answered \subseteq 1..MaxTurns

SummaryInit == messages = <<>> /\ trail = <<>> /\ request = "none" /\ answered = {}

Written == Len(messages) + Len(trail)
AppendMessage(m) == Written < MaxWrites /\ messages' = Append(messages, m)

(* run: a new turn, also when the one before paused and was left alone.    *)
Run ==
    /\ request # "running" /\ TheTurn < MaxTurns
    /\ \E text \in MessageTexts : AppendMessage(TurnMessage("user", TheTurn + 1, text))
    /\ request' = "running"
    /\ UNCHANGED <<trail, answered>>

(* A dispatched call writes its entry, whatever became of it.              *)
DispatchCall ==
    /\ request = "running" /\ Written < MaxWrites
    /\ \E tool \in DOMAIN CodesOf, code \in Codes \cup {NoError} :
         /\ code \in CodesOf[tool] \cup {NoError}
         /\ \E sql \in IF tool \in {"runQuery", "explainQuery"} THEN Queries ELSE {Unset},
               shown \in IF tool = "answerWithTable" THEN Designations ELSE {<<>>} :
                trail' = Append(trail, TrailEntry(TheTurn, tool, code, sql, shown))
    /\ UNCHANGED <<messages, request, answered>>

(* An askUser, the budget cap and an approval pause write a checkpoint and *)
(* no entry: a paused tool did not complete.                               *)
Pause ==
    /\ request = "running"
    /\ request' \in PauseReasons
    /\ UNCHANGED <<messages, trail, answered>>

(* resume: the reply is a user message of the paused turn.  "stop" at the  *)
(* budget cap ends the turn without an assistant message.                  *)
Resume ==
    /\ request \in PauseReasons
    /\ \E text \in MessageTexts : AppendMessage(TurnMessage("user", TheTurn, text))
    /\ answered' = IF request = "askUser" THEN answered \cup {TheTurn} ELSE answered
    /\ request' \in {"running"} \cup (IF request = "budget_cap" THEN {"none"} ELSE {})
    /\ UNCHANGED trail

(* Both terminal exits persist the prose; a model that stayed silent has   *)
(* the fallback persisted in its name.                                     *)
FinishTurn ==
    /\ request = "running"
    /\ \E text \in {"plain", EMPTY_ANSWER_FALLBACK_TEXT} :
         AppendMessage(TurnMessage("assistant", TheTurn, text))
    /\ request' = "none"
    /\ UNCHANGED <<trail, answered>>

(* The request raises or its process dies: nothing more is written.        *)
AbortTurn ==
    /\ request = "running"
    /\ request' = "none"
    /\ UNCHANGED <<messages, trail, answered>>

SummaryNext == Run \/ DispatchCall \/ Pause \/ Resume \/ FinishTurn \/ AbortTurn

SummarySpec == SummaryInit /\ [][SummaryNext]_svars

---------------------------------------------------------------------------
(* What an error code says of the work (denial_mapping.py).  A code that   *)
(* is not in the table is classified as a judgement.                       *)

GateCodes ==
    {"ANSWER_TABLE_BLUEPRINT_NOT_RUN", "ANSWER_TABLE_NO_TABLE_DESIGNATED",
     "BLUEPRINT_DEFINITION_NOT_READ", "ANALYSIS_STATE_INVALID", "ANALYSIS_STATE_LATE_INIT",
     "FINALIZATION_BLOCKED_PENDING_INTENTS", "ANSWER_JUDGE_REJECTED",
     "RETRIEVAL_TOOL_INVALID_ARGS", "RUN_BLUEPRINT_UNSUPPORTED", "RUN_BLUEPRINT_ABORTED"}
InfraCodes ==
    {"CLICKHOUSE_UNAVAILABLE", "RESOLVE_VALUES_INTERNAL_ERROR", "RESOLVE_VALUES_UNAVAILABLE",
     "RETRIEVAL_TOOL_UNAVAILABLE", "RETRIEVAL_TOOL_INTERNAL_ERROR",
     "RUNTIME_TOOL_INTERNAL_ERROR", "INTERNAL_TRANSPORT_ERROR"}

EnforcementDenial(e) == e.code \in GateCodes \cup {"IDEMPOTENT_READ_ALREADY_SERVED"}
InfraFailure(e) == e.code \in InfraCodes

---------------------------------------------------------------------------
(* The summary                                                             *)

DATA_TOOLS == {"runQuery", "runBlueprint"}

(* The users' messages of a turn in the order they were appended: its      *)
(* question, then the replies.                                             *)
UsersOf(t) == SelectSeq(messages, LAMBDA m : m.role = "user" /\ m.turn = t)

(* _build_turns: the first prose of the turn that is the assistant's own.  *)
AssistantText(t) ==
    LET own == {i \in DOMAIN messages : /\ messages[i].role = "assistant"
                                        /\ messages[i].turn = t
                                        /\ messages[i].text # EMPTY_ANSWER_FALLBACK_TEXT}
    IN  IF own = {} THEN Unset ELSE messages[Min(own)].text

TurnsSeen == {m.turn : m \in Range(messages)} \cup {e.turn : e \in Range(trail)}

(* _failed_fixed_pairs: a failed data call and the next query that ran; a  *)
(* gate is no failure, an outage is one.                                   *)
FailedFixed ==
    {pair \in (DOMAIN trail) \X (DOMAIN trail) :
        LET i == pair[1]  j == pair[2] IN
        /\ trail[i].tool \in DATA_TOOLS /\ ~Ok(trail[i]) /\ ~EnforcementDenial(trail[i])
        /\ i < j /\ trail[j].tool = "runQuery" /\ Ok(trail[j])
        /\ \A k \in i + 1..j - 1 : ~(trail[k].tool = "runQuery" /\ Ok(trail[k]))}

(* _answer_sqls: the SQL behind every answer that was shown, under the     *)
(* first call that showed it.                                              *)
Shows(k, q) == trail[k].tool = "answerWithTable" /\ Ok(trail[k]) /\ q \in Range(trail[k].shown)
(* Mutation: a refused answer is taken for the first.                      *)
AnswerSqlsOfAnyStatus ==
    {use \in (DOMAIN trail) \X Queries :
        Shows(use[1], use[2]) /\ \A j \in 1..use[1] - 1 : use[2] \notin Range(trail[j].shown)}

AnswerSqls ==
    {use \in (DOMAIN trail) \X Queries :
        Shows(use[1], use[2]) /\ \A j \in 1..use[1] - 1 : ~Shows(j, use[2])}

(* sql_by_ref: what a call can be cited for.                               *)
SqlByRef(k) ==
    ({trail[k].sql} \ {Unset}) \cup {q \in Queries : <<k, q>> \in AnswerSqls}

(* _askuser_exchanges: the askUser calls of a turn take its replies in     *)
(* their order; the question that opened the turn is skipped.              *)
AskUserExchanges ==
    LET asked == {k \in DOMAIN trail : trail[k].tool = "askUser"}
        Nth(k) == 1 + Cardinality({j \in asked : j <= k /\ trail[j].turn = trail[k].turn})
        Reply(k) == IF Nth(k) <= Len(UsersOf(trail[k].turn))
                    THEN UsersOf(trail[k].turn)[Nth(k)].text ELSE Unset
    IN  {[ref |-> k, answer |-> Reply(k)] : k \in asked}

Later(t) ==
    LET after == {m \in Range(messages) : m.role = "user" /\ m.turn > t}
    IN  {m.text : m \in after}

(* _blueprint_usages: a run with a verdict, or with a correction after it. *)
BlueprintUsages ==
    LET runs == {k \in DOMAIN trail : /\ trail[k].tool = "runBlueprint"
                                      /\ ~EnforcementDenial(trail[k]) /\ ~InfraFailure(trail[k])}
    IN  {[ref |-> k, corrected |-> ~Ok(trail[k]) \/ "correction" \in Later(trail[k].turn)]
            : k \in runs}

(* Mutation: only the last turn is asked for its answer.                   *)
LastTurnAnswered ==
    {t \in {TheTurn} : /\ AssistantText(t) # Unset
                       /\ \E e \in Range(trail) : e.turn = t /\ e.tool \in DATA_TOOLS /\ Ok(e)}

(* _infer_accepted_signal: the turns that were successfully answered.      *)
AnswerTurns ==
    {t \in TurnsSeen : /\ AssistantText(t) # Unset
                       /\ \E e \in Range(trail) : e.turn = t /\ e.tool \in DATA_TOOLS /\ Ok(e)}

(* _infer_accepted_signal: after the last answered turn, a correction goes *)
(* before a confirmation.                                                  *)
AcceptedSignal ==
    IF AnswerTurns = {} THEN Unset
    ELSE LET after == Later(CHOOSE t \in AnswerTurns : \A u \in AnswerTurns : u <= t)
         IN  IF "correction" \in after THEN Unset
             ELSE IF "confirmation" \in after THEN "explicit_confirm" ELSE "no_correction"

(* triage.                                                                 *)
Keeps ==
    [K1 |-> AcceptedSignal # Unset /\ \E e \in Range(trail) : e.tool \in DATA_TOOLS /\ Ok(e),
     K2 |-> FailedFixed # {},
     K3 |-> \E x \in AskUserExchanges : x.answer # Unset,
     K4 |-> \E u \in BlueprintUsages : u.corrected]
Triage == IF \E k \in DOMAIN Keeps : Keeps[k] THEN "keep" ELSE "skip"

(* SessionSignals.from_summary: what the inbox ranks a candidate by.       *)
SessionSignals ==
    [accepted_signal |-> AcceptedSignal, turn_count |-> Cardinality(TurnsSeen),
     failed_fixed_count |-> Cardinality(FailedFixed),
     askuser_count |-> Cardinality(AskUserExchanges),
     corrected_blueprint |-> \E u \in BlueprintUsages : u.corrected]

---------------------------------------------------------------------------
(* Properties                                                              *)

(* Every query an answer showed can be cited: some call up to the one that *)
(* showed it stands for it, whatever was refused or shown again            *)
(* (sql_by_ref over _answer_sqls).                                         *)
ShownIsCitable ==
    \A k \in DOMAIN trail : \A q \in Queries :
        Shows(k, q) => \E j \in 1..k : q \in SqlByRef(j)

(* A session that was only ever answered by the fallback teaches no        *)
(* acceptance: an apology of the runtime is not an answer (_build_turns).  *)
SilenceIsNoAnswer ==
    AcceptedSignal # Unset =>
        \E m \in Range(messages) :
            /\ m.role = "assistant" /\ m.text # EMPTY_ANSWER_FALLBACK_TEXT
            /\ \E e \in Range(trail) : e.turn = m.turn /\ e.tool \in DATA_TOOLS /\ Ok(e)

SummarySound == SummaryTypeOK /\ ShownIsCitable /\ SilenceIsNoAnswer

(* Acceptance is lost to a user's correction and to nothing else: further  *)
(* turns, pauses, refused calls and dying requests leave it                *)
(* (_infer_accepted_signal).                                               *)
AcceptanceStands ==
    [][AcceptedSignal # Unset /\ AcceptedSignal' = Unset
        => /\ messages' # messages
           /\ Last(messages').role = "user" /\ Last(messages').text = "correction"]_svars

(* A clarification the user answered reaches the summary                   *)
(* (_askuser_exchanges; K3 of triage).                                     *)
AnswersTeach == answered # {} => \E x \in AskUserExchanges : x.answer # Unset
=============================================================================
