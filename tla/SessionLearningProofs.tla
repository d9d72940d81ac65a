----------------------- MODULE SessionLearningProofs -----------------------
(***************************************************************************)
(* What is learned from a session before anything is reviewed, for any     *)
(* session, model answers, prior art and bars: what the summary reads from *)
(* the messages and the trail, and what the coverage judge discards.       *)
(***************************************************************************)
EXTENDS SessionSummary, CoverageJudge, WellFoundedInduction, TLAPS

(* Of numbers, positions and orders, one is first.                         *)
LEMMA FirstNumber ==
    ASSUME NEW T \in SUBSET Nat, T # {}
    PROVE  \E i \in T : \A j \in T : i <= j
<1> DEFINE R == OpToRel(<, Nat)
<1>1. IsWellFoundedOn(R, Nat)
  BY NatLessThanWellFounded
<1>2. \A x, y \in Nat : <<y, x>> \in R <=> y < x
  BY DEF OpToRel
<1> HIDE DEF R
<1>3. PICK x \in T : \A y \in T : ~ (<<y, x>> \in R)
  BY <1>1, WFMin, Zenon
<1>4. \A y \in T : ~ (y < x)
  BY <1>2, <1>3
<1>5. \A y \in T : x <= y
  BY <1>4, SMT
<1> QED
  BY <1>5

---------------------------------------------------------------------------
(* What the learning loop reads from a session.  Messages and entries are  *)
(* only ever appended, by a request whose turn has its question.           *)
Messages == [role : {"user", "assistant"}, turn : 1..MaxTurns,
             text : MessageTexts \cup {EMPTY_ANSWER_FALLBACK_TEXT}]
Entries == [turn : 1..MaxTurns, tool : Tools, code : Codes \cup {NoError},
            sql : Queries \cup {Unset}, shown : Designations \cup {<<>>}]

SummaryInv ==
    /\ messages \in Seq(Messages)
    /\ trail \in Seq(Entries)
    /\ request \in {"none", "running"} \cup PauseReasons
    /\ request # "none" => messages # <<>>
    /\ answered \subseteq 1..MaxTurns

LEMMA TheTurnType ==
    ASSUME SummaryInv PROVE TheTurn \in Nat /\ (messages # <<>> => TheTurn \in 1..MaxTurns)
<1>1. CASE messages = <<>>
  BY <1>1 DEF TheTurn
<1>2. CASE messages # <<>>
  <2>1. Len(messages) \in DOMAIN messages /\ messages \in Seq(Messages)
    BY <1>2 DEF SummaryInv
  <2>2. messages[Len(messages)] \in Messages
    BY <2>1
  <2>3. messages[Len(messages)].turn \in 1..MaxTurns
    BY <2>2 DEF Messages
  <2> QED
    BY <1>2, <2>3, SummaryAssumption DEF TheTurn, Last
<1> QED
  BY <1>1, <1>2

(* A message that is appended has a turn, a role and a text.               *)
LEMMA AppendKeeps ==
    ASSUME SummaryInv, NEW m \in Messages, AppendMessage(m)
    PROVE  messages' \in Seq(Messages) /\ messages' # <<>>
BY DEF SummaryInv, AppendMessage

LEMMA NextKeepsSummaryInv == SummaryInv /\ [SummaryNext]_svars => SummaryInv'
<1> SUFFICES ASSUME SummaryInv, [SummaryNext]_svars PROVE SummaryInv'
  OBVIOUS
<1>1. CASE Run
  <2>1. PICK text \in MessageTexts : AppendMessage(TurnMessage("user", TheTurn + 1, text))
    BY <1>1 DEF Run
  <2>2. TurnMessage("user", TheTurn + 1, text) \in Messages
    BY <1>1, TheTurnType, SummaryAssumption DEF Run, TurnMessage, Messages
  <2>3. messages' \in Seq(Messages) /\ messages' # <<>>
    BY <2>1, <2>2, AppendKeeps
  <2> QED
    BY <1>1, <2>3 DEF Run, SummaryInv
<1>2. CASE DispatchCall
  <2>1. PICK tool \in DOMAIN CodesOf, code \in Codes \cup {NoError} :
          \E sql \in IF tool \in {"runQuery", "explainQuery"} THEN Queries ELSE {Unset},
             shown \in IF tool = "answerWithTable" THEN Designations ELSE {<<>>} :
               trail' = Append(trail, TrailEntry(TheTurn, tool, code, sql, shown))
    BY <1>2 DEF DispatchCall
  <2>2. PICK sql \in Queries \cup {Unset}, shown \in Designations \cup {<<>>} :
          trail' = Append(trail, TrailEntry(TheTurn, tool, code, sql, shown))
    BY <2>1
  <2>3. TheTurn \in 1..MaxTurns
    BY <1>2, TheTurnType DEF SummaryInv, DispatchCall
  <2>4. TrailEntry(TheTurn, tool, code, sql, shown) \in Entries
    BY <2>3, ToolsAssumption DEF TrailEntry, Entries
  <2>5. trail' \in Seq(Entries)
    BY <2>2, <2>4 DEF SummaryInv
  <2> QED
    BY <1>2, <2>5 DEF DispatchCall, SummaryInv
<1>3. CASE Pause
  BY <1>3 DEF Pause, SummaryInv
<1>4. CASE Resume
  <2>1. PICK text \in MessageTexts : AppendMessage(TurnMessage("user", TheTurn, text))
    BY <1>4 DEF Resume
  <2>2. TheTurn \in 1..MaxTurns
    BY <1>4, TheTurnType DEF SummaryInv, Resume, PauseReasons
  <2>3. TurnMessage("user", TheTurn, text) \in Messages
    BY <2>2 DEF TurnMessage, Messages
  <2>4. messages' \in Seq(Messages) /\ messages' # <<>>
    BY <2>1, <2>3, AppendKeeps
  <2> QED
    BY <1>4, <2>2, <2>4 DEF Resume, SummaryInv
<1>5. CASE FinishTurn
  <2>1. PICK text \in {"plain", EMPTY_ANSWER_FALLBACK_TEXT} :
          AppendMessage(TurnMessage("assistant", TheTurn, text))
    BY <1>5 DEF FinishTurn
  <2>2. TurnMessage("assistant", TheTurn, text) \in Messages
    BY <1>5, TheTurnType DEF SummaryInv, FinishTurn, TurnMessage, Messages, MessageTexts
  <2>3. messages' \in Seq(Messages) /\ messages' # <<>>
    BY <2>1, <2>2, AppendKeeps
  <2> QED
    BY <1>5, <2>3 DEF FinishTurn, SummaryInv
<1>6. CASE AbortTurn
  BY <1>6 DEF AbortTurn, SummaryInv
<1>7. CASE UNCHANGED svars
  BY <1>7 DEF svars, SummaryInv
<1> QED
  BY <1>1, <1>2, <1>3, <1>4, <1>5, <1>6, <1>7 DEF SummaryNext

(* Every message and entry belongs to a turn that a question opened, in    *)
(* every reachable state (agent_loop.py: run, resume).                     *)
THEOREM SummaryInvariant == SummarySpec => []SummaryInv
<1>1. SummaryInit => SummaryInv
  BY DEF SummaryInit, SummaryInv
<1>2. SummaryInv /\ [SummaryNext]_svars => SummaryInv'
  BY NextKeepsSummaryInv
<1> QED
  BY <1>1, <1>2, PTL DEF SummarySpec

---------------------------------------------------------------------------
(* An answer is cited under the first call that showed it.                 *)
LEMMA CitedUnderTheFirst ==
    ASSUME SummaryInv, NEW k \in DOMAIN trail, NEW q \in Queries, Shows(k, q)
    PROVE  \E j \in 1..k : q \in SqlByRef(j)
<1> DEFINE showing == {j \in 1..k : Shows(j, q)}
<1>1. k \in Nat /\ k \in showing /\ DOMAIN trail = 1..Len(trail) /\ Len(trail) \in Nat
  BY DEF SummaryInv
<1>2. showing \in SUBSET Nat /\ showing # {}
  BY <1>1
<1>3. PICK j \in showing : \A i \in showing : j <= i
  <2> HIDE DEF showing
  <2> QED
    BY <1>2, FirstNumber
<1>4. \A i \in 1..j - 1 : ~Shows(i, q)
  <2> SUFFICES ASSUME NEW i \in 1..j - 1, Shows(i, q) PROVE FALSE
    OBVIOUS
  <2>1. i \in showing
    BY <1>1, <1>3
  <2> QED
    BY <1>1, <1>3, <2>1
<1>5. <<j, q>> \in AnswerSqls
  BY <1>1, <1>3, <1>4 DEF AnswerSqls
<1> QED
  BY <1>3, <1>5 DEF SqlByRef

OwnProse(t) == {i \in DOMAIN messages : /\ messages[i].role = "assistant"
                                        /\ messages[i].turn = t
                                        /\ messages[i].text # EMPTY_ANSWER_FALLBACK_TEXT}

(* Acceptance needs a turn with prose of the assistant's own.              *)
LEMMA AcceptedHasProse ==
    ASSUME SummaryInv, AcceptedSignal # Unset PROVE SilenceIsNoAnswer
<1>1. PICK t \in AnswerTurns : TRUE
  BY DEF AcceptedSignal
<1>2. OwnProse(t) # {}
  BY <1>1 DEF AnswerTurns, AssistantText, OwnProse
<1>3. PICK i \in DOMAIN messages : /\ messages[i].role = "assistant" /\ messages[i].turn = t
                                   /\ messages[i].text # EMPTY_ANSWER_FALLBACK_TEXT
  BY <1>2 DEF OwnProse
<1>4. messages[i] \in Range(messages)
  BY DEF Range
<1> QED
  BY <1>1, <1>3, <1>4 DEF AnswerTurns, SilenceIsNoAnswer

(* Every answer that was shown can be cited, whatever was refused or shown *)
(* again, and the runtime's own apology supplies no acceptance             *)
(* (loader.py: sql_by_ref, _build_turns, _infer_accepted_signal).          *)
THEOREM SummaryIsSound == SummarySpec => []SummarySound
<1>1. SummaryInv => SummarySound
  <2> SUFFICES ASSUME SummaryInv PROVE SummarySound
    OBVIOUS
  <2>1. SummaryTypeOK
    <3>1. \A m \in Range(messages) : m \in Messages
      BY DEF SummaryInv, Range
    <3>2. \A e \in Range(trail) : e \in Entries
      BY DEF SummaryInv, Range
    <3> QED
      BY <3>1, <3>2 DEF SummaryInv, SummaryTypeOK, Messages, Entries
  <2>2. ShownIsCitable
    BY CitedUnderTheFirst DEF ShownIsCitable
  <2>3. SilenceIsNoAnswer
    BY AcceptedHasProse DEF SilenceIsNoAnswer
  <2> QED
    BY <2>1, <2>2, <2>3 DEF SummarySound
<1> QED
  BY <1>1, SummaryInvariant, PTL

---------------------------------------------------------------------------
(* What one step leaves of the answers.                                    *)
Appended(old, new) ==
    /\ Len(old) <= Len(new)
    /\ \A i \in 1..Len(old) : new[i] = old[i]

LEMMA StepsAppend ==
    ASSUME SummaryInv, [SummaryNext]_svars
    PROVE  /\ Appended(messages, messages') /\ Appended(trail, trail')
           /\ messages' = messages \/ \E m : messages' = Append(messages, m)
<1>1. messages' = messages \/ \E m : messages' = Append(messages, m)
  BY DEF SummaryNext, Run, DispatchCall, Pause, Resume, FinishTurn, AbortTurn, AppendMessage, svars
<1>2. trail' = trail \/ \E e : trail' = Append(trail, e)
  <2>1. CASE DispatchCall
    BY <2>1 DEF DispatchCall
  <2> QED
    BY <2>1 DEF SummaryNext, Run, Pause, Resume, FinishTurn, AbortTurn, svars
<1>3. messages \in Seq(Messages) /\ trail \in Seq(Entries)
  BY DEF SummaryInv
<1>4. Appended(messages, messages')
  BY <1>1, <1>3 DEF Appended
<1>5. Appended(trail, trail')
  BY <1>2, <1>3 DEF Appended
<1> QED
  BY <1>1, <1>4, <1>5

LEMMA RangeGrows ==
    ASSUME NEW S, NEW old \in Seq(S), NEW new \in Seq(S), Appended(old, new)
    PROVE  Range(old) \subseteq Range(new)
BY DEF Appended, Range

(* The first prose of a turn stays the first.                              *)
LEMMA FirstProse ==
    ASSUME SummaryInv, NEW t, OwnProse(t) # {}
    PROVE  /\ Min(OwnProse(t)) \in OwnProse(t)
           /\ \A i \in OwnProse(t) : Min(OwnProse(t)) <= i
<1>1. OwnProse(t) \in SUBSET Nat
  BY DEF OwnProse, SummaryInv
<1>2. \E i \in OwnProse(t) : \A j \in OwnProse(t) : i <= j
  BY <1>1, FirstNumber
<1> QED
  BY <1>2 DEF Min

LEMMA TextStays ==
    ASSUME SummaryInv, SummaryInv', Appended(messages, messages'), NEW t \in Nat,
           AssistantText(t) # Unset
    PROVE  AssistantText(t)' # Unset
<1>1. OwnProse(t) # {}
  BY DEF AssistantText, OwnProse
<1>0. /\ DOMAIN messages = 1..Len(messages) /\ Len(messages) \in Nat
      /\ DOMAIN messages' = 1..Len(messages') /\ Len(messages') \in Nat
  BY DEF SummaryInv
<1>2. /\ OwnProse(t) \subseteq OwnProse(t)'
      /\ \A k \in OwnProse(t)' : k \in OwnProse(t) \/ k > Len(messages)
  <2>1. ASSUME NEW k \in OwnProse(t) PROVE k \in OwnProse(t)'
    BY <1>0, <2>1 DEF OwnProse, Appended
  <2>2. ASSUME NEW k \in OwnProse(t)', ~ (k > Len(messages)) PROVE k \in OwnProse(t)
    <3>1. k \in 1..Len(messages)
      BY <1>0, <2>2 DEF OwnProse
    <3> QED
      BY <1>0, <2>2, <3>1 DEF OwnProse, Appended
  <2> QED
    BY <2>1, <2>2
<1> DEFINE i == Min(OwnProse(t))
           j == Min(OwnProse(t)')
<1>3. i \in OwnProse(t) /\ \A k \in OwnProse(t) : i <= k
  BY <1>1, FirstProse
<1>4. j \in OwnProse(t)' /\ \A k \in OwnProse(t)' : j <= k
  <2>1. OwnProse(t)' # {} /\ OwnProse(t)' \in SUBSET Nat
    BY <1>1, <1>2, <1>0 DEF OwnProse
  <2>2. \E k \in OwnProse(t)' : \A l \in OwnProse(t)' : k <= l
    BY <2>1, FirstNumber
  <2> QED
    BY <2>2 DEF Min
<1>5. i \in 1..Len(messages) /\ j \in Nat /\ Len(messages) \in Nat
  BY <1>3, <1>4 DEF OwnProse, SummaryInv
<1>6. j <= i /\ j \in OwnProse(t)
  BY <1>2, <1>3, <1>4, <1>5
<1>7. j = i
  BY <1>3, <1>5, <1>6
<1>8. messages'[j] = messages[i]
  BY <1>5, <1>7 DEF Appended
<1>9. AssistantText(t) = messages[i].text /\ AssistantText(t)' = messages'[j].text
  BY <1>1, <1>4 DEF AssistantText, OwnProse
<1> QED
  BY <1>8, <1>9

LEMMA TurnsAreNumbers == ASSUME SummaryInv PROVE AnswerTurns \subseteq 1..MaxTurns
<1>1. \A m \in Range(messages) : m.turn \in 1..MaxTurns
  <2>1. \A m \in Range(messages) : m \in Messages
    BY DEF SummaryInv, Range
  <2> QED
    BY <2>1 DEF Messages
<1>2. \A e \in Range(trail) : e.turn \in 1..MaxTurns
  <2>1. \A e \in Range(trail) : e \in Entries
    BY DEF SummaryInv, Range
  <2> QED
    BY <2>1 DEF Entries
<1> QED
  BY <1>1, <1>2 DEF AnswerTurns, TurnsSeen

LEMMA AnswersStay ==
    ASSUME SummaryInv, SummaryInv', Appended(messages, messages'), Appended(trail, trail')
    PROVE  AnswerTurns \subseteq AnswerTurns'
<1>1. Range(messages) \subseteq Range(messages') /\ Range(trail) \subseteq Range(trail')
  BY RangeGrows DEF SummaryInv
<1>2. TurnsSeen \subseteq TurnsSeen'
  BY <1>1 DEF TurnsSeen
<1>3. ASSUME NEW t \in AnswerTurns PROVE t \in AnswerTurns'
  <2>1. t \in Nat
    BY <1>3, TurnsAreNumbers
  <2>2. AssistantText(t)' # Unset
    BY <1>3, <2>1, TextStays DEF AnswerTurns
  <2>3. \E e \in Range(trail') : e.turn = t /\ e.tool \in DATA_TOOLS /\ Ok(e)
    BY <1>1, <1>3 DEF AnswerTurns
  <2> QED
    BY <1>2, <1>3, <2>2, <2>3 DEF AnswerTurns, Ok, NoError
<1> QED
  BY <1>3

(* The last answered turn.                                                 *)
LastAnswered == CHOOSE t \in AnswerTurns : \A u \in AnswerTurns : u <= t

LEMMA LastExists ==
    ASSUME SummaryInv, AnswerTurns # {}
    PROVE  LastAnswered \in AnswerTurns /\ \A u \in AnswerTurns : u <= LastAnswered
<1>1. AnswerTurns \subseteq 1..MaxTurns
  BY TurnsAreNumbers
<1> DEFINE T == {MaxTurns - t : t \in AnswerTurns}
<1>2. T \in SUBSET Nat /\ T # {}
  <2>1. \A t \in 1..MaxTurns : MaxTurns - t \in Nat
    BY SummaryAssumption
  <2> QED
    BY <1>1, <2>1
<1>3. PICK i \in T : \A j \in T : i <= j
  <2> HIDE DEF T
  <2> QED
    BY <1>2, FirstNumber
<1>4. PICK t \in AnswerTurns : i = MaxTurns - t
  BY <1>3
<1>5. \A u \in AnswerTurns : MaxTurns - t <= MaxTurns - u
  BY <1>3, <1>4
<1>6. \A u \in AnswerTurns : u <= t
  BY <1>1, <1>5, SummaryAssumption
<1> QED
  BY <1>6 DEF LastAnswered

LEMMA SignalOfLast ==
    ASSUME SummaryInv
    PROVE  AcceptedSignal = Unset <=>
             AnswerTurns = {} \/ "correction" \in Later(LastAnswered)
BY SummaryAssumption DEF AcceptedSignal, LastAnswered

LEMMA CorrectionAlone ==
    ASSUME SummaryInv, SummaryInv', [SummaryNext]_svars,
           AcceptedSignal # Unset, AcceptedSignal' = Unset
    PROVE  /\ messages' # messages
           /\ Last(messages').role = "user" /\ Last(messages').text = "correction"
<1>1. /\ Appended(messages, messages') /\ Appended(trail, trail')
      /\ messages' = messages \/ \E m : messages' = Append(messages, m)
  BY StepsAppend
<1>2. AnswerTurns \subseteq AnswerTurns'
  BY <1>1, AnswersStay
<1>3. AnswerTurns # {} /\ "correction" \notin Later(LastAnswered)
  BY SignalOfLast
<1>4. (AcceptedSignal = Unset <=> AnswerTurns = {} \/ "correction" \in Later(LastAnswered))'
  BY SummaryAssumption DEF AcceptedSignal, LastAnswered
<1>5. AnswerTurns' # {} /\ "correction" \in Later(LastAnswered)'
  BY <1>2, <1>3, <1>4
<1>6. LastAnswered \in AnswerTurns
  BY <1>3, LastExists
<1>7. (AnswerTurns # {} => LastAnswered \in AnswerTurns /\ \A u \in AnswerTurns : u <= LastAnswered)'
  <2>1. SummaryInv' => (AnswerTurns # {} => LastAnswered \in AnswerTurns
                          /\ \A u \in AnswerTurns : u <= LastAnswered)'
    BY LastExists, PTL
  <2> QED
    BY <2>1
<1>8. LastAnswered <= LastAnswered'
  BY <1>2, <1>5, <1>6, <1>7
<1>9. PICK m \in Range(messages') :
         m.role = "user" /\ m.turn > LastAnswered' /\ m.text = "correction"
  BY <1>5 DEF Later
<1>10. m \notin Range(messages)
  <2>1. LastAnswered \in Nat /\ LastAnswered' \in Nat
    <3>1. SummaryInv' => (AnswerTurns \subseteq 1..MaxTurns)'
      BY TurnsAreNumbers, PTL
    <3>2. LastAnswered \in 1..MaxTurns
      BY <1>6, TurnsAreNumbers
    <3>3. LastAnswered' \in AnswerTurns'
      BY <1>5, <1>7
    <3>4. LastAnswered' \in 1..MaxTurns
      BY <3>1, <3>3
    <3> QED
      BY <3>2, <3>4, SummaryAssumption
  <2>2. ASSUME m \in Range(messages) PROVE FALSE
    <3>1. m \in Messages
      BY <2>2 DEF SummaryInv, Range
    <3>2. m.turn \in Nat
      BY <3>1 DEF Messages
    <3>3. m.turn > LastAnswered
      BY <1>8, <1>9, <2>1, <3>2
    <3> QED
      BY <1>3, <1>9, <2>2, <3>3 DEF Later
  <2> QED
    BY <2>2
<1>11. messages' # messages
  BY <1>9, <1>10
<1>12. PICK n : messages' = Append(messages, n)
  BY <1>1, <1>11
<1>13. m = n
  BY <1>9, <1>10, <1>12 DEF Range, SummaryInv
<1>14. Last(messages') = n
  BY <1>12 DEF Last, SummaryInv
<1> QED
  BY <1>9, <1>11, <1>13, <1>14

(* Acceptance is lost to a user's correction and to nothing else, whatever *)
(* is asked, paused, refused or left half-done after it                    *)
(* (loader.py: _infer_accepted_signal).                                    *)
THEOREM AcceptanceIsKept == SummarySpec => AcceptanceStands
<1>1. SummaryInv /\ SummaryInv' /\ [SummaryNext]_svars =>
        [AcceptedSignal # Unset /\ AcceptedSignal' = Unset
          => /\ messages' # messages
             /\ Last(messages').role = "user" /\ Last(messages').text = "correction"]_svars
  BY CorrectionAlone
<1> QED
  BY <1>1, SummaryInvariant, PTL DEF SummarySpec, AcceptanceStands

---------------------------------------------------------------------------
(* The coverage judge.  The invariant is stated of one session (Fits), as  *)
(* a relation between where its worker stands and what the shared stores   *)
(* hold; a step moves one worker or changes one store.                     *)
Places == {"idle", "reuse", "ask", "decide", "extract", "put", "hard", "count",
           "structural", "soft", "seed", "persist", "mark", "done"}
Consulting == {"reuse", "ask", "decide"}
Staging == {"put", "hard", "count", "structural", "soft", "seed", "persist"}

Sibling(t) == [id |-> CandidateId(t), tier |-> "learning", origin |-> "corpus",
               similarity |-> Likeness, matched |-> TRUE, twin |-> Nothing]
AnyCards == Cards \cup {Sibling(t) : t \in Sessions}
Verdicts == {"insert", "conflict", "merge"}

Tasks == [at : Places, stage : {"pre", "post"}, idea : Ideas \cup {Nothing},
          cards : SUBSET AnyCards, dark : BOOLEAN, said : Answers \cup {Nothing},
          verdict : Verdicts]

Stores ==
    /\ graph \subseteq Cards
    /\ corpus \in [Ideas -> Artifacts \cup {Nothing}]
    /\ judgements \in [Refs -> JudgeRecords \cup {Nothing}]
    /\ config \in ValidConfigs
    /\ deliveries \in 0..MaxDeliveries

Functions ==
    /\ task \in [Sessions -> Tasks]
    /\ rows \in [Sessions -> Rows \cup {Nothing}]
    /\ fate \in [Sessions -> Fates]

(* Where the worker stands agrees with what it has read.                   *)
Placed(t) ==
    /\ t.stage = "pre" <=> t.idea = Nothing
    /\ t.at \in {"idle", "extract"} => t.stage = "pre"
    /\ t.at \in Staging => t.stage = "post"
    /\ t.at \in Consulting /\ t.dark =>
         t.stage = "post" /\ \A c \in t.cards : c.origin # "graph"
    /\ t.at = "decide" => t.said \in Answers

(* From the hard key to the seed the session has no artifact of its own    *)
(* for the idea; one that is counted is there, and a new one was seeded.   *)
Discarded(f) == f \in {"screened_out", "judged_out"}

Owned(s, t, f, C) ==
    /\ t.at \in {"structural", "soft"} \/ (t.stage = "post" /\ t.at \in Consulting)
         \/ f = "judged_out"
       => C[t.idea] = Nothing \/ C[t.idea].owner # s
    /\ t.at = "count" \/ (t.at = "persist" /\ t.verdict = "insert") => C[t.idea] # Nothing

Rowed(r, C) == r # Nothing /\ r.status = "insert" => C[r.idea] # Nothing

(* How the delivery ended, and on which record and evidence.               *)
Ended(s, t, f, J, K) ==
    /\ f # "none" => t.at \in {"mark", "done"}
    /\ f = "judged_out" => t.stage = "post"
    /\ Discarded(f) =>
         LET r == <<t.stage, s, t.idea>> IN
         J[r] # Nothing /\ J[r].dropped /\ J[r].said.by # Nothing
    /\ Discarded(f) /\ t.at = "mark" =>
         /\ ~t.dark /\ ~K.shadow
         /\ t.said.confidence >= (IF t.stage = "pre" THEN K.pre ELSE K.post)
         /\ {c \in t.cards : c.id = t.said.by} # {}
         /\ \A c \in t.cards : c.id = t.said.by => MayAuthorize(c)

Fits(s, t, f, r, C, J, K) ==
    Placed(t) /\ Owned(s, t, f, C) /\ Rowed(r, C) /\ Ended(s, t, f, J, K)

JudgeInv ==
    /\ Stores
    /\ Functions
    /\ \A s \in Sessions : Fits(s, task[s], fate[s], rows[s], corpus, judgements, config)

---------------------------------------------------------------------------
(* Facts about values.                                                     *)

LEMMA CardFacts ==
    ASSUME NEW c \in AnyCards
    PROVE  IsCard(c) /\ c.id # Nothing
<1>1. CASE c \in Cards
  BY <1>1, JudgeAssumption
<1>2. ASSUME NEW t \in Sessions, c = Sibling(t)
      PROVE  IsCard(c) /\ c.id # Nothing
  BY <1>2, JudgeAssumption DEF Sibling, IsCard, CandidateId
<1>. QED
  BY <1>1, <1>2 DEF AnyCards

LEMMA RefFacts ==
    ASSUME NEW s \in Sessions, NEW t \in Tasks, Placed(t)
    PROVE  <<t.stage, s, t.idea>> \in Refs
<1>1. t.stage \in {"pre", "post"} /\ t.idea \in Ideas \cup {Nothing}
  BY DEF Tasks
<1>. QED
  BY <1>1 DEF Refs, Placed

(* The corpus only gains artifacts, of the session that seeds, and counts. *)
Grows(C, D) ==
    \A k \in Ideas : C[k] # Nothing =>
        /\ D[k] # Nothing /\ D[k].owner = C[k].owner /\ D[k].hits >= C[k].hits
        /\ C[k].rejected => D[k].rejected

(* A worker that does not move keeps fitting when the others seed, count   *)
(* and judge.                                                              *)
LEMMA Frame ==
    ASSUME NEW s \in Sessions, NEW t \in Tasks, NEW f \in Fates, NEW r \in Rows \cup {Nothing},
           NEW C, NEW D, NEW J, NEW L, NEW K, Fits(s, t, f, r, C, J, K),
           Grows(C, D), \A k \in Ideas : C[k] = Nothing => D[k] = Nothing \/ D[k].owner # s,
           \A q \in Refs : q[2] = s => L[q] = J[q]
    PROVE  Fits(s, t, f, r, D, L, K)
<1>1. t.idea \in Ideas \cup {Nothing} /\ t.stage \in {"pre", "post"}
  BY DEF Tasks
<1>2. t.stage = "post" => t.idea \in Ideas
  BY <1>1 DEF Fits, Placed
<1>3. L[<<t.stage, s, t.idea>>] = J[<<t.stage, s, t.idea>>]
  BY RefFacts DEF Fits
<1>4. Owned(s, t, f, D)
  BY <1>2 DEF Fits, Placed, Owned, Ended, Grows, Staging
<1>5. Rowed(r, D)
  BY JudgeAssumption DEF Fits, Rowed, Grows, Rows
<1>6. Ended(s, t, f, L, K)
  BY <1>3 DEF Fits, Ended
<1>. QED
  BY <1>4, <1>5, <1>6 DEF Fits

---------------------------------------------------------------------------
(* One worker moves and the corpus and the records stay: it is enough that *)
(* its own state still fits.                                               *)

LEMMA Move ==
    ASSUME JudgeInv, NEW s \in Sessions, NEW t \in Tasks, NEW f \in Fates,
           NEW r \in Rows \cup {Nothing},
           task' = [task EXCEPT ![s] = t], fate' = [fate EXCEPT ![s] = f],
           rows' = [rows EXCEPT ![s] = r],
           UNCHANGED <<graph, corpus, judgements, config>>, deliveries' \in 0..MaxDeliveries,
           Fits(s, t, f, r, corpus, judgements, config)
    PROVE  JudgeInv'
<1>1. Stores' /\ Functions'
  BY DEF JudgeInv, Stores, Functions
<1>2. ASSUME NEW u \in Sessions
      PROVE  Fits(u, task'[u], fate'[u], rows'[u], corpus', judgements', config')
  <2>1. CASE u = s
    BY <2>1 DEF JudgeInv, Functions
  <2>2. CASE u # s
    BY <2>2 DEF JudgeInv, Functions
  <2>. QED
    BY <2>1, <2>2
<1>. QED
  BY <1>1, <1>2 DEF JudgeInv

LEMMA SeedMove ==
    ASSUME JudgeInv, NEW s \in Sessions, NEW t \in Tasks, NEW f \in Fates, NEW D,
           task' = [task EXCEPT ![s] = t], fate' = [fate EXCEPT ![s] = f],
           corpus' = D, D \in [Ideas -> Artifacts \cup {Nothing}], Grows(corpus, D),
           \A k \in Ideas : corpus[k] = Nothing => D[k] = Nothing \/ D[k].owner = s,
           UNCHANGED <<graph, rows, judgements, config, deliveries>>,
           Placed(t), Owned(s, t, f, D), Ended(s, t, f, judgements, config)
    PROVE  JudgeInv'
<1>1. Stores' /\ Functions'
  BY DEF JudgeInv, Stores, Functions
<1>2. ASSUME NEW u \in Sessions
      PROVE  Fits(u, task'[u], fate'[u], rows'[u], corpus', judgements', config')
  <2>0. /\ task[u] \in Tasks /\ fate[u] \in Fates /\ rows[u] \in Rows \cup {Nothing}
        /\ Fits(u, task[u], fate[u], rows[u], corpus, judgements, config)
    BY DEF JudgeInv, Functions
  <2>1. CASE u = s
    <3>1. Rowed(rows[u], D)
      BY <2>0, JudgeAssumption DEF Fits, Rowed, Grows, Rows
    <3>. QED
      BY <2>1, <3>1 DEF JudgeInv, Functions, Fits
  <2>2. CASE u # s
    <3>1. task'[u] = task[u] /\ fate'[u] = fate[u] /\ rows'[u] = rows[u]
      BY <2>2 DEF JudgeInv, Functions
    <3>2. \A k \in Ideas : corpus[k] = Nothing => D[k] = Nothing \/ D[k].owner # u
      BY <2>2
    <3>3. Fits(u, task[u], fate[u], rows[u], D, judgements, config)
      BY <2>0, <3>2, Frame
    <3>. QED
      BY <3>1, <3>3
  <2>. QED
    BY <2>1, <2>2
<1>. QED
  BY <1>1, <1>2 DEF JudgeInv

LEMMA Here ==
    ASSUME JudgeInv, NEW s \in Sessions
    PROVE  /\ task[s] \in Tasks /\ fate[s] \in Fates /\ rows[s] \in Rows \cup {Nothing}
           /\ Placed(task[s]) /\ Owned(s, task[s], fate[s], corpus) /\ Rowed(rows[s], corpus)
           /\ Ended(s, task[s], fate[s], judgements, config)
           /\ task[s].at \notin {"mark", "done"} => fate[s] = "none"
           /\ task[s].stage \in {"pre", "post"} /\ task[s].idea \in Ideas \cup {Nothing}
           /\ fate = [fate EXCEPT ![s] = fate[s]] /\ rows = [rows EXCEPT ![s] = rows[s]]
BY DEF JudgeInv, Functions, Fits, Ended, Tasks

(* While the delivery goes on its fate is open.                            *)
LEMMA MoveTask ==
    ASSUME JudgeInv, NEW s \in Sessions, NEW t \in Tasks, task[s].at \notin {"mark", "done"},
           task' = [task EXCEPT ![s] = t], UNCHANGED <<graph, corpus, judgements, config, fate, rows>>,
           deliveries' \in 0..MaxDeliveries, Placed(t), Owned(s, t, "none", corpus)
    PROVE  JudgeInv'
<1>1. fate[s] = "none" /\ fate[s] \in Fates /\ rows[s] \in Rows \cup {Nothing}
      /\ fate' = [fate EXCEPT ![s] = fate[s]] /\ rows' = [rows EXCEPT ![s] = rows[s]]
  BY Here
<1>2. Fits(s, t, fate[s], rows[s], corpus, judgements, config)
  BY <1>1, Here DEF Fits, Ended, Discarded
<1>. DEFINE f == fate[s]
            r == rows[s]
<1>3. /\ f \in Fates /\ r \in Rows \cup {Nothing}
      /\ fate' = [fate EXCEPT ![s] = f] /\ rows' = [rows EXCEPT ![s] = r]
      /\ Fits(s, t, f, r, corpus, judgements, config)
  BY <1>1, <1>2
<1>4. UNCHANGED <<graph, corpus, judgements, config>>
  OBVIOUS
<1>. HIDE DEF f, r
<1>. QED
  BY <1>3, <1>4, Move

LEMMA AtFacts ==
    ASSUME NEW t \in Tasks, NEW p \in Places
    PROVE  LET n == [t EXCEPT !.at = p] IN
           /\ n \in Tasks /\ n.at = p /\ n.stage = t.stage /\ n.idea = t.idea /\ n.cards = t.cards
           /\ n.dark = t.dark /\ n.said = t.said /\ n.verdict = t.verdict
BY DEF Tasks

Proceeded(w) == [w EXCEPT !.at = Onward(w), !.cards = {}, !.dark = FALSE, !.said = Nothing]

LEMMA ProceededFits ==
    ASSUME NEW s, NEW w \in Tasks, w.stage = "pre" <=> w.idea = Nothing, NEW C
    PROVE  /\ Proceeded(w) \in Tasks /\ Placed(Proceeded(w)) /\ Owned(s, Proceeded(w), "none", C)
           /\ Proceeded(w).stage = w.stage /\ Proceeded(w).idea = w.idea
           /\ Proceeded(w).at \in {"extract", "seed", "persist"}
<1>1. w.stage \in {"pre", "post"} /\ w.verdict \in Verdicts
  BY DEF Tasks
<1>2. /\ Onward(w) \in {"extract", "seed", "persist"}
      /\ Onward(w) = "extract" <=> w.stage = "pre"
      /\ Onward(w) = "persist" => w.verdict # "insert"
  BY <1>1 DEF Onward
<1>3. /\ Proceeded(w).stage = w.stage /\ Proceeded(w).idea = w.idea
      /\ Proceeded(w).at = Onward(w) /\ Proceeded(w).verdict = w.verdict
  BY DEF Proceeded, Tasks
<1>4. Proceeded(w) \in Tasks
  BY <1>2 DEF Proceeded, Tasks, Places
<1>5. Placed(Proceeded(w)) /\ Owned(s, Proceeded(w), "none", C)
  BY <1>1, <1>2, <1>3 DEF Placed, Owned, Staging, Consulting
<1>. QED
  BY <1>2, <1>3, <1>4, <1>5

(* Asking the judge, or going on without it.                               *)
LEMMA JudgeKeeps ==
    ASSUME JudgeInv, NEW s \in Sessions, NEW w \in Tasks, Judge(s, w),
           task[s].at \notin {"mark", "done"}, w.stage = "pre" <=> w.idea = Nothing,
           w.stage = "post" =>
             /\ corpus[w.idea] = Nothing \/ corpus[w.idea].owner # s
             /\ w.dark => \A c \in w.cards : c.origin # "graph",
           UNCHANGED <<graph, corpus, judgements, config, fate, rows>>,
           deliveries' \in 0..MaxDeliveries
    PROVE  JudgeInv'
<1>1. CASE FreeGate(w)
  <2>1. task' = [task EXCEPT ![s] = Proceeded(w)]
    BY <1>1 DEF Judge, Proceed, Proceeded
  <2>. QED
    BY <2>1, ProceededFits, MoveTask
<1>2. CASE ~FreeGate(w)
  <2>. DEFINE t == [w EXCEPT !.at = "reuse"]
  <2>1. task' = [task EXCEPT ![s] = t]
    BY <1>2 DEF Judge
  <2>2. /\ t \in Tasks /\ t.at = "reuse" /\ t.stage = w.stage /\ t.idea = w.idea
        /\ t.cards = w.cards /\ t.dark = w.dark
    <3>1. "reuse" \in Places
      BY DEF Places
    <3>. QED
      BY <3>1, AtFacts
  <2>3. w.dark => w.stage = "post"
    BY <1>2 DEF FreeGate, Tasks
  <2>. HIDE DEF t
  <2>4. Placed(t) /\ Owned(s, t, "none", corpus)
    BY <2>2, <2>3 DEF Placed, Owned, Staging, Consulting
  <2>. QED
    BY <2>1, <2>2, <2>4, MoveTask
<1>. QED
  BY <1>1, <1>2

LEMMA ScreenKeeps ==
    ASSUME JudgeInv, NEW s \in Sessions, Screen(s)
    PROVE  JudgeInv'
<1>1. PICK w \in Looked(s, task[s]) : Judge(s, w)
  BY DEF Screen
<1>2. task[s] \in Tasks /\ task[s].at = "idle" /\ task[s].stage = "pre" /\ task[s].idea = Nothing
  BY Here DEF Screen, Placed
<1>3. graph \subseteq AnyCards
  BY DEF JudgeInv, Stores, AnyCards
<1>4. w \in Tasks /\ w.stage = "pre" /\ w.idea = Nothing
  BY <1>2, <1>3 DEF Looked, Tasks
<1>5. deliveries' \in 0..MaxDeliveries
  BY JudgeAssumption DEF Screen, JudgeInv, Stores
<1>. QED
  BY <1>1, <1>2, <1>4, <1>5, JudgeKeeps DEF Screen

(* The steps that only move the worker on to p.                            *)
LEMMA GotoKeeps ==
    ASSUME JudgeInv, NEW s \in Sessions, NEW p \in Places, Goto(s, p),
           task[s].at \notin {"mark", "done"},
           UNCHANGED <<graph, corpus, judgements, config, fate, rows, deliveries>>,
           Placed([task[s] EXCEPT !.at = p]), Owned(s, [task[s] EXCEPT !.at = p], "none", corpus)
    PROVE  JudgeInv'
<1>1. [task[s] EXCEPT !.at = p] \in Tasks
  BY Here, AtFacts
<1>2. task' = [task EXCEPT ![s] = [task[s] EXCEPT !.at = p]]
  BY DEF Goto
<1>3. deliveries' \in 0..MaxDeliveries
  BY DEF JudgeInv, Stores
<1>. QED
  BY <1>1, <1>2, <1>3, MoveTask

LEMMA ReuseKeeps ==
    ASSUME JudgeInv, NEW s \in Sessions, Reuse(s)
    PROVE  JudgeInv'
<1>0. /\ task[s] \in Tasks /\ task[s].at = "reuse" /\ fate[s] = "none"
      /\ Placed(task[s]) /\ Owned(s, task[s], fate[s], corpus)
  BY Here DEF Reuse
<1>1. ASSUME judgements[Ref(s)] # Nothing,
             task' = [task EXCEPT ![s].at = "decide", ![s].said = judgements[Ref(s)].said]
      PROVE  JudgeInv'
  <2>. DEFINE t == [task[s] EXCEPT !.at = "decide", !.said = judgements[Ref(s)].said]
  <2>1. Ref(s) \in Refs
    BY <1>0, RefFacts DEF Ref
  <2>2. judgements[Ref(s)].said \in Answers
    BY <1>1, <2>1 DEF JudgeInv, Stores, JudgeRecords
  <2>3. task' = [task EXCEPT ![s] = t]
    BY <1>0, <1>1 DEF JudgeInv, Functions, Tasks
  <2>4. /\ t \in Tasks /\ t.at = "decide" /\ t.stage = task[s].stage /\ t.idea = task[s].idea
        /\ t.cards = task[s].cards /\ t.dark = task[s].dark /\ t.said \in Answers
    BY <1>0, <2>2 DEF Tasks, Places
  <2>. HIDE DEF t
  <2>5. Placed(t) /\ Owned(s, t, "none", corpus)
    BY <1>0, <2>4 DEF Placed, Owned, Staging, Consulting
  <2>. QED
    BY <1>0, <2>3, <2>4, <2>5, MoveTask DEF Reuse, JudgeInv, Stores
<1>2. ASSUME Goto(s, "ask")
      PROVE  JudgeInv'
  <2>. DEFINE t == [task[s] EXCEPT !.at = "ask"]
  <2>1. /\ t.at = "ask" /\ t.stage = task[s].stage /\ t.idea = task[s].idea
        /\ t.cards = task[s].cards /\ t.dark = task[s].dark
    BY <1>0, AtFacts DEF Places
  <2>. HIDE DEF t
  <2>2. Placed(t) /\ Owned(s, t, "none", corpus)
    BY <1>0, <2>1 DEF Placed, Owned, Staging, Consulting
  <2>. USE DEF t
  <2>. QED
    BY <1>0, <1>2, <2>2, GotoKeeps DEF Reuse, Places
<1>. QED
  BY <1>1, <1>2 DEF Reuse

LEMMA AskKeeps ==
    ASSUME JudgeInv, NEW s \in Sessions, Ask(s)
    PROVE  JudgeInv'
<1>0. /\ task[s] \in Tasks /\ task[s].at = "ask" /\ fate[s] = "none"
      /\ Placed(task[s]) /\ Owned(s, task[s], fate[s], corpus)
      /\ deliveries' \in 0..MaxDeliveries
  BY Here DEF Ask, JudgeInv, Stores
<1>1. ASSUME NEW a \in Answers, task' = [task EXCEPT ![s].at = "decide", ![s].said = a]
      PROVE  JudgeInv'
  <2>. DEFINE t == [task[s] EXCEPT !.at = "decide", !.said = a]
  <2>3. task' = [task EXCEPT ![s] = t]
    BY <1>0, <1>1 DEF JudgeInv, Functions, Tasks
  <2>4. /\ t \in Tasks /\ t.at = "decide" /\ t.stage = task[s].stage /\ t.idea = task[s].idea
        /\ t.cards = task[s].cards /\ t.dark = task[s].dark /\ t.said \in Answers
    BY <1>0 DEF Tasks, Places
  <2>. HIDE DEF t
  <2>5. Placed(t) /\ Owned(s, t, "none", corpus)
    BY <1>0, <2>4 DEF Placed, Owned, Staging, Consulting
  <2>. QED
    BY <1>0, <2>3, <2>4, <2>5, MoveTask DEF Ask
<1>2. ASSUME Proceed(s, task[s])
      PROVE  JudgeInv'
  <2>1. task' = [task EXCEPT ![s] = Proceeded(task[s])]
    BY <1>2 DEF Proceed, Proceeded
  <2>. QED
    BY <1>0, <2>1, ProceededFits, MoveTask DEF Ask, Placed
<1>. QED
  BY <1>1, <1>2 DEF Ask

(* A judgement is written under the session's own reference, and only the  *)
(* worker of that session reads it.                                        *)
LEMMA RecordMove ==
    ASSUME JudgeInv, NEW s \in Sessions, NEW t \in Tasks, NEW f \in Fates, NEW L,
           task' = [task EXCEPT ![s] = t], fate' = [fate EXCEPT ![s] = f],
           judgements' = L, L \in [Refs -> JudgeRecords \cup {Nothing}],
           \A q \in Refs : q[2] # s => L[q] = judgements[q],
           UNCHANGED <<graph, corpus, rows, config, deliveries>>,
           Placed(t), Owned(s, t, f, corpus), Ended(s, t, f, L, config)
    PROVE  JudgeInv'
<1>1. Stores' /\ Functions'
  BY DEF JudgeInv, Stores, Functions
<1>2. Grows(corpus, corpus)
  BY DEF Grows, JudgeInv, Stores, Artifacts
<1>3. ASSUME NEW u \in Sessions
      PROVE  Fits(u, task'[u], fate'[u], rows'[u], corpus', judgements', config')
  <2>0. /\ task[u] \in Tasks /\ fate[u] \in Fates /\ rows[u] \in Rows \cup {Nothing}
        /\ Fits(u, task[u], fate[u], rows[u], corpus, judgements, config)
    BY DEF JudgeInv, Functions
  <2>1. CASE u = s
    BY <2>0, <2>1 DEF JudgeInv, Functions, Fits
  <2>2. CASE u # s
    <3>1. task'[u] = task[u] /\ fate'[u] = fate[u] /\ rows'[u] = rows[u]
      BY <2>2 DEF JudgeInv, Functions
    <3>2. \A q \in Refs : q[2] = u => L[q] = judgements[q]
      BY <2>2
    <3>3. \A k \in Ideas : corpus[k] = Nothing => corpus[k] = Nothing \/ corpus[k].owner # u
      OBVIOUS
    <3>4. Fits(u, task[u], fate[u], rows[u], corpus, L, config)
      BY <2>0, <1>2, <3>2, <3>3, Frame
    <3>. QED
      BY <3>1, <3>4
  <2>. QED
    BY <2>1, <2>2
<1>. QED
  BY <1>1, <1>3 DEF JudgeInv

(* What a drop rests on: cards that were read, of which the named ones may *)
(* all authorize it.                                                       *)
LEMMA DropEvidence ==
    ASSUME NEW t \in Tasks, Placed(t), t.at = "decide", DropAllowed(t)
    PROVE  /\ ~t.dark /\ t.said.by # Nothing
           /\ t.said.confidence >= Bar(t)
           /\ {c \in t.cards : c.id = t.said.by} # {}
           /\ \A c \in t.cards : c.id = t.said.by => MayAuthorize(c)
<1>. DEFINE same == {c \in t.cards : c.id = t.said.by}
<1>1. \A c \in same : MayAuthorize(c)
  BY DEF DropAllowed, Named
<1>2. same # {}
  BY DEF DropAllowed, Named
<1>3. PICK c \in t.cards : c.id = t.said.by
  BY <1>2
<1>4. c \in AnyCards /\ MayAuthorize(c)
  BY <1>1, <1>3 DEF Tasks
<1>5. t.said.by # Nothing
  BY <1>3, <1>4, CardFacts
<1>6. c.origin = "graph"
  BY <1>4 DEF MayAuthorize
<1>7. ~t.dark
  BY <1>3, <1>6 DEF Placed, Consulting, Tasks
<1>. QED
  BY <1>1, <1>2, <1>5, <1>7 DEF DropAllowed

LEMMA DecideKeeps ==
    ASSUME JudgeInv, NEW s \in Sessions, Decide(s)
    PROVE  JudgeInv'
<1>. DEFINE drop == DropAllowed(task[s]) /\ ~config.shadow
            record == [said |-> task[s].said, dropped |-> drop]
<1>0. /\ task[s] \in Tasks /\ task[s].at = "decide" /\ fate[s] = "none"
      /\ Placed(task[s]) /\ Owned(s, task[s], fate[s], corpus)
      /\ fate = [fate EXCEPT ![s] = fate[s]] /\ fate[s] \in Fates
  BY Here DEF Decide
<1>1. Ref(s) \in Refs /\ Ref(s)[2] = s
  BY <1>0, RefFacts DEF Ref
<1>2. record \in JudgeRecords
  BY <1>0 DEF JudgeRecords, Placed
<1>3. PICK written, returned \in BOOLEAN :
        /\ returned => written
        /\ judgements' = IF written THEN [judgements EXCEPT ![Ref(s)] = record] ELSE judgements
        /\ IF drop /\ returned
           THEN End(s, IF task[s].stage = "pre" THEN "screened_out" ELSE "judged_out")
           ELSE Proceed(s, task[s]) /\ UNCHANGED fate
  BY DEF Decide
<1>4. /\ judgements' \in [Refs -> JudgeRecords \cup {Nothing}]
      /\ \A q \in Refs : q[2] # s => judgements'[q] = judgements[q]
  BY <1>1, <1>2, <1>3 DEF JudgeInv, Stores
<1>5. UNCHANGED <<graph, corpus, rows, config, deliveries>>
  BY DEF Decide
<1>6. CASE drop /\ returned
  <2>. DEFINE t == [task[s] EXCEPT !.at = "mark"]
              f == IF task[s].stage = "pre" THEN "screened_out" ELSE "judged_out"
  <2>1. task' = [task EXCEPT ![s] = t] /\ fate' = [fate EXCEPT ![s] = f]
    BY <1>3, <1>6 DEF End, Goto
  <2>2. /\ t \in Tasks /\ t.at = "mark" /\ t.stage = task[s].stage /\ t.idea = task[s].idea
        /\ t.cards = task[s].cards /\ t.dark = task[s].dark /\ t.said = task[s].said
    BY <1>0, AtFacts DEF Places
  <2>3. f \in {"screened_out", "judged_out"} /\ (f = "judged_out" <=> t.stage = "post")
    BY <2>2 DEF Tasks
  <2>4. judgements'[Ref(s)] = record /\ record # Nothing /\ record.dropped /\ record.said = task[s].said
    BY <1>1, <1>2, <1>3, <1>6, JudgeAssumption DEF JudgeInv, Stores
  <2>5. /\ ~task[s].dark /\ task[s].said.by # Nothing
        /\ task[s].said.confidence >= Bar(task[s])
        /\ {c \in task[s].cards : c.id = task[s].said.by} # {}
        /\ \A c \in task[s].cards : c.id = task[s].said.by => MayAuthorize(c)
    BY <1>0, <1>6, DropEvidence
  <2>6. ~config.shadow
    BY <1>6
  <2>. HIDE DEF t, f, record, drop
  <2>7. Placed(t)
    BY <1>0, <2>2 DEF Placed, Staging, Consulting
  <2>8. Owned(s, t, f, corpus)
    BY <1>0, <2>2, <2>3 DEF Owned, Consulting
  <2>9. Ended(s, t, f, judgements', config)
    BY <2>2, <2>3, <2>4, <2>5, <2>6 DEF Ended, Discarded, Ref, Bar
  <2>10. f \in Fates
    BY <2>3 DEF Fates
  <2>. QED
    BY <1>4, <1>5, <2>1, <2>2, <2>7, <2>8, <2>9, <2>10, RecordMove
<1>7. CASE ~(drop /\ returned)
  <2>. DEFINE t == Proceeded(task[s])
              f == fate[s]
  <2>1. task' = [task EXCEPT ![s] = t] /\ fate' = [fate EXCEPT ![s] = f]
    BY <1>0, <1>3, <1>7 DEF Proceed, Proceeded
  <2>2. t \in Tasks /\ Placed(t) /\ Owned(s, t, f, corpus) /\ f = "none" /\ f \in Fates
    BY <1>0, ProceededFits DEF Placed
  <2>. HIDE DEF t, f
  <2>3. Ended(s, t, f, judgements', config)
    BY <2>2 DEF Ended, Discarded
  <2>. QED
    BY <1>4, <1>5, <2>1, <2>2, <2>3, RecordMove
<1>. QED
  BY <1>6, <1>7

---------------------------------------------------------------------------
(* The extraction and the dedup stage.                                     *)

LEMMA ExtractKeeps ==
    ASSUME JudgeInv, NEW s \in Sessions, Extract(s)
    PROVE  JudgeInv'
<1>. DEFINE Put(k) == [AtRest EXCEPT !.at = "put", !.stage = "post", !.idea = k]
            f == fate[s]
            r == Nothing
<1>1. PICK k \in Derives[s] : task' = [task EXCEPT ![s] = Put(k)]
  BY DEF Extract
<1>2. k \in Ideas /\ k # Nothing
  BY JudgeAssumption
<1>3. /\ Put(k) \in Tasks /\ Put(k).at = "put" /\ Put(k).stage = "post" /\ Put(k).idea = k
      /\ ~Put(k).dark
  BY <1>2 DEF AtRest, Tasks, Places, Verdicts
<1>4. /\ fate' = [fate EXCEPT ![s] = f] /\ rows' = [rows EXCEPT ![s] = r]
      /\ f = "none" /\ f \in Fates /\ r \in Rows \cup {Nothing}
  BY Here DEF Extract
<1>5. UNCHANGED <<graph, corpus, judgements, config>> /\ deliveries' \in 0..MaxDeliveries
  BY DEF Extract, JudgeInv, Stores
<1>. HIDE DEF Put, f
<1>6. Fits(s, Put(k), f, r, corpus, judgements, config)
  BY <1>2, <1>3, <1>4
     DEF Fits, Placed, Owned, Rowed, Ended, Discarded, Staging, Consulting
<1>. HIDE DEF r
<1>. QED
  BY <1>1, <1>3, <1>4, <1>5, <1>6, Move

LEMMA PutRowKeeps ==
    ASSUME JudgeInv, NEW s \in Sessions, PutRow(s)
    PROVE  JudgeInv'
<1>. DEFINE t == [task[s] EXCEPT !.at = "hard"]
            f == fate[s]
            r == [idea |-> task[s].idea, status |-> "extracted"]
<1>0. task[s] \in Tasks /\ task[s].at = "put" /\ Placed(task[s]) /\ task[s].stage = "post"
  BY Here DEF PutRow, Placed, Staging
<1>1. task[s].idea \in Ideas
  BY <1>0 DEF Placed, Tasks
<1>2. /\ t \in Tasks /\ t.at = "hard" /\ t.stage = "post" /\ t.idea = task[s].idea
  BY <1>0, AtFacts DEF Places
<1>3. /\ fate' = [fate EXCEPT ![s] = f] /\ rows' = [rows EXCEPT ![s] = r]
      /\ task' = [task EXCEPT ![s] = t] /\ f = "none" /\ f \in Fates
  BY Here DEF PutRow, Goto
<1>4. r \in Rows \cup {Nothing} /\ r.status # "insert"
  BY <1>1 DEF Rows
<1>5. UNCHANGED <<graph, corpus, judgements, config>> /\ deliveries' \in 0..MaxDeliveries
  BY DEF PutRow, JudgeInv, Stores
<1>. HIDE DEF t, f, r
<1>6. Fits(s, t, f, r, corpus, judgements, config)
  BY <1>0, <1>2, <1>3, <1>4
     DEF Fits, Placed, Owned, Rowed, Ended, Discarded, Staging, Consulting
<1>. QED
  BY <1>2, <1>3, <1>4, <1>5, <1>6, Move

LEMMA HardKeyKeeps ==
    ASSUME JudgeInv, NEW s \in Sessions, HardKey(s)
    PROVE  JudgeInv'
<1>. DEFINE p == IF corpus[task[s].idea] # Nothing THEN "count" ELSE "structural"
            t == [task[s] EXCEPT !.at = p]
<1>0. task[s] \in Tasks /\ task[s].at = "hard" /\ Placed(task[s]) /\ task[s].stage = "post"
  BY Here DEF HardKey, Placed, Staging
<1>1. /\ p \in {"count", "structural"}
      /\ p = "structural" => corpus[task[s].idea] = Nothing
      /\ p = "count" => corpus[task[s].idea] # Nothing
  OBVIOUS
<1>2. Goto(s, p) /\ UNCHANGED <<graph, corpus, judgements, config, fate, rows, deliveries>>
  BY DEF HardKey
<1>. HIDE DEF p
<1>3. t.at = p /\ t.stage = "post" /\ t.idea = task[s].idea /\ t.dark = task[s].dark
  BY <1>0, <1>1, AtFacts DEF Places
<1>. HIDE DEF t
<1>4. Placed(t) /\ Owned(s, t, "none", corpus)
  BY <1>0, <1>1, <1>3 DEF Placed, Owned, Staging, Consulting
<1>. USE DEF t
<1>. QED
  BY <1>0, <1>1, <1>2, <1>4, GotoKeeps DEF Places

(* The end of a delivery that the judge does not take away.                *)
LEMMA EndFacts ==
    ASSUME JudgeInv, NEW s \in Sessions, NEW f \in Fates \ {"none", "screened_out", "judged_out"},
           End(s, f), task[s].at \in Staging
    PROVE  LET t == [task[s] EXCEPT !.at = "mark"] IN
           /\ task' = [task EXCEPT ![s] = t] /\ fate' = [fate EXCEPT ![s] = f]
           /\ t \in Tasks /\ Placed(t) /\ t.at = "mark"
           /\ \A C : Owned(s, t, f, C)
           /\ \A J, K : Ended(s, t, f, J, K)
<1>. DEFINE t == [task[s] EXCEPT !.at = "mark"]
<1>0. task[s] \in Tasks /\ Placed(task[s]) /\ task[s].stage = "post"
  BY Here DEF Placed
<1>1. t \in Tasks /\ t.at = "mark" /\ t.stage = "post" /\ t.idea = task[s].idea
  BY <1>0, AtFacts DEF Places
<1>2. task' = [task EXCEPT ![s] = t] /\ fate' = [fate EXCEPT ![s] = f]
  BY DEF End, Goto
<1>. HIDE DEF t
<1>3. Placed(t)
  BY <1>0, <1>1 DEF Placed, Staging, Consulting
<1>4. \A C : Owned(s, t, f, C)
  BY <1>1 DEF Owned, Consulting
<1>5. \A J, K : Ended(s, t, f, J, K)
  BY <1>1 DEF Ended, Discarded
<1>. USE DEF t
<1>. QED
  BY <1>1, <1>2, <1>3, <1>4, <1>5

(* A sighting of an artifact that is there.                                *)
LEMMA Counted ==
    ASSUME JudgeInv, NEW k \in Ideas, corpus[k] # Nothing
    PROVE  LET D == [corpus EXCEPT ![k].hits = @ + 1] IN
           /\ D \in [Ideas -> Artifacts \cup {Nothing}] /\ Grows(corpus, D)
           /\ \A j \in Ideas : corpus[j] = Nothing => D[j] = Nothing
<1>. DEFINE D == [corpus EXCEPT ![k].hits = @ + 1]
            a == [corpus[k] EXCEPT !.hits = @ + 1]
<1>1. corpus \in [Ideas -> Artifacts \cup {Nothing}] /\ corpus[k] \in Artifacts
  BY DEF JudgeInv, Stores
<1>2. corpus[k].hits \in Nat \ {0} /\ corpus[k].hits + 1 \in Nat \ {0}
  BY <1>1 DEF Artifacts
<1>3. /\ a \in Artifacts /\ a.owner = corpus[k].owner /\ a.rejected = corpus[k].rejected
      /\ a.hits = corpus[k].hits + 1
  BY <1>1, <1>2 DEF Artifacts
<1>4. D = [corpus EXCEPT ![k] = a]
  BY <1>1
<1>. HIDE DEF D, a
<1>5. D[k] = a /\ \A j \in Ideas \ {k} : D[j] = corpus[j]
  BY <1>1, <1>4
<1>6. D \in [Ideas -> Artifacts \cup {Nothing}]
  BY <1>1, <1>3, <1>4
<1>7. \A j \in Ideas : corpus[j] # Nothing /\ j # k => corpus[j].hits >= corpus[j].hits
  BY <1>1 DEF Artifacts
<1>8. a # Nothing
  BY <1>3, JudgeAssumption
<1>9. Grows(corpus, D)
  BY <1>2, <1>3, <1>5, <1>7, <1>8 DEF Grows
<1>. USE DEF D
<1>. QED
  BY <1>5, <1>6, <1>9

LEMMA CountKeeps ==
    ASSUME JudgeInv, NEW s \in Sessions, Count(s)
    PROVE  JudgeInv' /\ Grows(corpus, corpus')
<1>. DEFINE t == [task[s] EXCEPT !.at = "mark"]
            f == "counted"
            k == task[s].idea
            D == [corpus EXCEPT ![k].hits = @ + 1]
<1>0. /\ task[s] \in Tasks /\ Placed(task[s]) /\ task[s].at = "count"
      /\ Owned(s, task[s], fate[s], corpus)
  BY Here DEF Count
<1>1. k \in Ideas /\ corpus[k] # Nothing
  BY <1>0 DEF Placed, Tasks, Owned, Staging
<1>2. /\ task' = [task EXCEPT ![s] = t] /\ fate' = [fate EXCEPT ![s] = f]
      /\ t \in Tasks /\ Placed(t) /\ f \in Fates
      /\ Owned(s, t, f, D) /\ Ended(s, t, f, judgements, config)
  BY <1>0, EndFacts DEF Count, Fates, Staging
<1>3. /\ D \in [Ideas -> Artifacts \cup {Nothing}] /\ Grows(corpus, D)
      /\ \A j \in Ideas : corpus[j] = Nothing => D[j] = Nothing
  BY <1>1, Counted
<1>4. corpus' = D /\ UNCHANGED <<graph, rows, judgements, config, deliveries>>
  BY DEF Count
<1>. HIDE DEF t, f, k, D
<1>5. JudgeInv'
  BY <1>2, <1>3, <1>4, SeedMove
<1>. QED
  BY <1>3, <1>4, <1>5

LEMMA StructuralKeeps ==
    ASSUME JudgeInv, NEW s \in Sessions, Structural(s)
    PROVE  JudgeInv'
<1>0. /\ task[s] \in Tasks /\ Placed(task[s]) /\ task[s].at = "structural"
      /\ Owned(s, task[s], fate[s], corpus) /\ rows[s] \in Rows \cup {Nothing}
      /\ rows = [rows EXCEPT ![s] = rows[s]] /\ Rowed(rows[s], corpus)
  BY Here DEF Structural
<1>1. /\ UNCHANGED <<graph, corpus, judgements, config, rows, deliveries>>
      /\ deliveries' \in 0..MaxDeliveries
  BY DEF Structural, JudgeInv, Stores
<1>2. ASSUME Goto(s, "soft"), UNCHANGED fate
      PROVE  JudgeInv'
  <2>. DEFINE t == [task[s] EXCEPT !.at = "soft"]
  <2>1. t.at = "soft" /\ t.stage = task[s].stage /\ t.idea = task[s].idea
    BY <1>0, AtFacts DEF Places
  <2>. HIDE DEF t
  <2>2. Placed(t) /\ Owned(s, t, "none", corpus)
    BY <1>0, <2>1 DEF Placed, Owned, Staging, Consulting
  <2>. USE DEF t
  <2>. QED
    BY <1>0, <1>1, <1>2, <2>2, GotoKeeps DEF Places
<1>3. ASSUME End(s, "redundant")
      PROVE  JudgeInv'
  <2>. DEFINE t == [task[s] EXCEPT !.at = "mark"]
              f == "redundant"
              r == rows[s]
  <2>1. /\ task' = [task EXCEPT ![s] = t] /\ fate' = [fate EXCEPT ![s] = f]
        /\ t \in Tasks /\ Placed(t) /\ f \in Fates
        /\ Owned(s, t, f, corpus) /\ Ended(s, t, f, judgements, config)
    BY <1>0, <1>3, EndFacts DEF Fates, Staging
  <2>2. r \in Rows \cup {Nothing} /\ rows' = [rows EXCEPT ![s] = r] /\ Rowed(r, corpus)
    BY <1>0, <1>1
  <2>. HIDE DEF t, f, r
  <2>3. Fits(s, t, f, r, corpus, judgements, config)
    BY <2>1, <2>2 DEF Fits
  <2>. QED
    BY <1>1, <2>1, <2>2, <2>3, Move
<1>4. ASSUME task' = [task EXCEPT ![s].at = "persist", ![s].verdict = "merge"], UNCHANGED fate
      PROVE  JudgeInv'
  <2>. DEFINE t == [task[s] EXCEPT !.at = "persist", !.verdict = "merge"]
  <2>1. task' = [task EXCEPT ![s] = t]
    BY <1>0, <1>4 DEF JudgeInv, Functions, Tasks
  <2>2. /\ t \in Tasks /\ t.at = "persist" /\ t.verdict = "merge" /\ t.stage = task[s].stage
        /\ t.idea = task[s].idea
    BY <1>0 DEF Tasks, Places, Verdicts
  <2>. HIDE DEF t
  <2>3. Placed(t) /\ Owned(s, t, "none", corpus)
    BY <1>0, <2>2 DEF Placed, Owned, Staging, Consulting
  <2>. QED
    BY <1>0, <1>1, <1>4, <2>1, <2>2, <2>3, MoveTask
<1>. QED
  BY <1>2, <1>3, <1>4 DEF Structural

LEMMA BandedVerdict ==
    ASSUME NEW cards \in SUBSET AnyCards
    PROVE  Banded(cards) \in Verdicts
<1>. DEFINE near == {Confidence(c) : c \in cards}
<1>1. \A n \in near : n \in Nat
  BY CardFacts DEF Confidence, IsCard
<1>. HIDE DEF near
<1>2. \/ \E n \in near : n >= Merge
      \/ (\E n \in near : n >= Conflict) /\ (\A n \in near : n < Merge)
      \/ \A n \in near : n < Conflict
  BY <1>1 DEF Merge, Conflict
<1>. USE DEF near
<1>. QED
  BY <1>2 DEF Banded, Verdicts

LEMMA SiblingCards ==
    ASSUME JudgeInv, NEW k \in Ideas, NEW seen
    PROVE  \A c \in Siblings(k, seen) : c \in AnyCards /\ c.origin = "corpus"
<1>1. \A j \in Ideas : corpus[j] # Nothing => corpus[j].owner \in Sessions
  BY DEF JudgeInv, Stores, Artifacts
<1>. QED
  BY <1>1 DEF Siblings, AnyCards, Sibling

LEMMA SoftKeeps ==
    ASSUME JudgeInv, NEW s \in Sessions, Soft(s)
    PROVE  JudgeInv'
<1>0. /\ task[s] \in Tasks /\ Placed(task[s]) /\ task[s].at = "soft" /\ task[s].stage = "post"
      /\ Owned(s, task[s], fate[s], corpus)
  BY Here DEF Soft, Placed, Staging
<1>1. task[s].idea \in Ideas
  BY <1>0 DEF Placed, Tasks
<1>2. PICK dark, listed \in BOOLEAN :
        LET landed == IF dark THEN {} ELSE graph
            both == landed \cup IF listed THEN Siblings(task[s].idea, landed) ELSE {}
        IN Judge(s, [task[s] EXCEPT !.cards = both, !.dark = dark, !.verdict = Banded(both)])
  BY DEF Soft
<1>. DEFINE landed == IF dark THEN {} ELSE graph
            both == landed \cup IF listed THEN Siblings(task[s].idea, landed) ELSE {}
            w == [task[s] EXCEPT !.cards = both, !.dark = dark, !.verdict = Banded(both)]
<1>3. landed \subseteq AnyCards /\ (dark => landed = {})
  BY DEF JudgeInv, Stores, AnyCards
<1>4. \A c \in Siblings(task[s].idea, landed) : c \in AnyCards /\ c.origin = "corpus"
  BY <1>1, SiblingCards
<1>5. both \in SUBSET AnyCards /\ (dark => \A c \in both : c.origin # "graph")
  BY <1>3, <1>4
<1>6. Banded(both) \in Verdicts
  BY <1>5, BandedVerdict
<1>. HIDE DEF both
<1>7. /\ w \in Tasks /\ w.stage = "post" /\ w.idea = task[s].idea /\ w.cards = both
      /\ w.dark = dark
  BY <1>0, <1>5, <1>6 DEF Tasks
<1>8. Judge(s, w)
  BY <1>2 DEF both
<1>. HIDE DEF w
<1>9. corpus[w.idea] = Nothing \/ corpus[w.idea].owner # s
  BY <1>0, <1>7 DEF Owned
<1>10. UNCHANGED <<graph, corpus, judgements, config, fate, rows>> /\ deliveries' \in 0..MaxDeliveries
  BY DEF Soft, JudgeInv, Stores
<1>11. w.idea # Nothing
  BY <1>1, <1>7, JudgeAssumption
<1>. QED
  BY <1>0, <1>5, <1>7, <1>8, <1>9, <1>10, <1>11, JudgeKeeps

(* Insert wins.                                                            *)
LEMMA Seeded ==
    ASSUME JudgeInv, NEW s \in Sessions, NEW k \in Ideas
    PROVE  LET D == IF corpus[k] = Nothing THEN [corpus EXCEPT ![k] = Artifact(s)] ELSE corpus IN
           /\ D \in [Ideas -> Artifacts \cup {Nothing}] /\ Grows(corpus, D)
           /\ \A j \in Ideas : corpus[j] = Nothing => D[j] = Nothing \/ D[j].owner = s
           /\ D[k] # Nothing
<1>1. Artifact(s) \in Artifacts /\ Artifact(s).owner = s
  BY DEF Artifact, Artifacts
<1>2. Artifact(s) # Nothing
  BY <1>1, JudgeAssumption
<1>3. corpus \in [Ideas -> Artifacts \cup {Nothing}] /\ Grows(corpus, corpus)
  BY DEF JudgeInv, Stores, Grows, Artifacts
<1>4. CASE corpus[k] = Nothing
  <2>. DEFINE D == [corpus EXCEPT ![k] = Artifact(s)]
  <2>1. D \in [Ideas -> Artifacts \cup {Nothing}] /\ D[k] = Artifact(s)
        /\ \A j \in Ideas \ {k} : D[j] = corpus[j]
    BY <1>1, <1>3
  <2>. HIDE DEF D
  <2>2. Grows(corpus, D)
    BY <1>3, <1>4, <2>1 DEF Grows
  <2>. USE DEF D
  <2>. QED
    BY <1>1, <1>2, <1>4, <2>1, <2>2
<1>. QED
  BY <1>3, <1>4

LEMMA SeedKeeps ==
    ASSUME JudgeInv, NEW s \in Sessions, Seed(s)
    PROVE  JudgeInv' /\ Grows(corpus, corpus')
<1>. DEFINE t == [task[s] EXCEPT !.at = "persist"]
            f == fate[s]
            k == task[s].idea
            D == IF corpus[k] = Nothing THEN [corpus EXCEPT ![k] = Artifact(s)] ELSE corpus
<1>0. /\ task[s] \in Tasks /\ Placed(task[s]) /\ task[s].at = "seed" /\ task[s].stage = "post"
      /\ f = "none" /\ f \in Fates /\ fate = [fate EXCEPT ![s] = f]
  BY Here DEF Seed, Placed, Staging
<1>1. k \in Ideas
  BY <1>0 DEF Placed, Tasks
<1>2. /\ t \in Tasks /\ t.at = "persist" /\ t.stage = "post" /\ t.idea = k
  BY <1>0, AtFacts DEF Places
<1>3. /\ D \in [Ideas -> Artifacts \cup {Nothing}] /\ Grows(corpus, D)
      /\ \A j \in Ideas : corpus[j] = Nothing => D[j] = Nothing \/ D[j].owner = s
      /\ D[k] # Nothing
  BY <1>1, Seeded
<1>4. /\ corpus' = D /\ UNCHANGED <<graph, rows, judgements, config, deliveries>>
      /\ task' = [task EXCEPT ![s] = t] /\ fate' = [fate EXCEPT ![s] = f]
  BY <1>0 DEF Seed, Goto
<1>. HIDE DEF t, f, D
<1>5. Placed(t) /\ Owned(s, t, f, D)
  BY <1>0, <1>2, <1>3 DEF Placed, Owned, Staging, Consulting
<1>6. Ended(s, t, f, judgements, config)
  BY <1>0 DEF Ended, Discarded
<1>7. \A j \in Ideas : corpus[j] = Nothing => D[j] = Nothing \/ D[j].owner = s
  BY <1>3
<1>8. f \in Fates /\ t \in Tasks /\ D \in [Ideas -> Artifacts \cup {Nothing}] /\ Grows(corpus, D)
  BY <1>0, <1>2, <1>3
<1>9. JudgeInv'
  BY <1>4, <1>5, <1>6, <1>7, <1>8, SeedMove
<1>. QED
  BY <1>3, <1>4, <1>9

LEMMA PersistRowKeeps ==
    ASSUME JudgeInv, NEW s \in Sessions, PersistRow(s)
    PROVE  JudgeInv'
<1>. DEFINE t == [task[s] EXCEPT !.at = "mark"]
            f == "staged"
            r == [idea |-> task[s].idea, status |-> task[s].verdict]
<1>0. /\ task[s] \in Tasks /\ Placed(task[s]) /\ task[s].at = "persist" /\ task[s].stage = "post"
      /\ Owned(s, task[s], fate[s], corpus)
  BY Here DEF PersistRow, Placed, Staging
<1>1. task[s].idea \in Ideas
  BY <1>0 DEF Placed, Tasks
<1>2. /\ task' = [task EXCEPT ![s] = t] /\ fate' = [fate EXCEPT ![s] = f]
      /\ t \in Tasks /\ Placed(t) /\ f \in Fates
      /\ Owned(s, t, f, corpus) /\ Ended(s, t, f, judgements, config)
  BY <1>0, EndFacts DEF PersistRow, Fates, Staging
<1>3. r \in Rows \cup {Nothing} /\ rows' = [rows EXCEPT ![s] = r]
  BY <1>0, <1>1 DEF Rows, Tasks, Verdicts, PersistRow
<1>4. Rowed(r, corpus)
  BY <1>0 DEF Rowed, Owned
<1>5. UNCHANGED <<graph, corpus, judgements, config>> /\ deliveries' \in 0..MaxDeliveries
  BY DEF PersistRow, JudgeInv, Stores
<1>. HIDE DEF t, f, r
<1>6. Fits(s, t, f, r, corpus, judgements, config)
  BY <1>2, <1>4 DEF Fits
<1>. QED
  BY <1>2, <1>3, <1>5, <1>6, Move

LEMMA MarkKeeps ==
    ASSUME JudgeInv, NEW s \in Sessions, Mark(s)
    PROVE  JudgeInv'
<1>. DEFINE t == [AtRest EXCEPT !.at = "done", !.idea = task[s].idea, !.stage = task[s].stage]
            f == fate[s]
            r == rows[s]
<1>0. /\ task[s] \in Tasks /\ Placed(task[s]) /\ task[s].at = "mark"
      /\ Owned(s, task[s], fate[s], corpus)
      /\ f \in Fates /\ r \in Rows \cup {Nothing} /\ Rowed(r, corpus)
      /\ Ended(s, task[s], f, judgements, config)
      /\ fate = [fate EXCEPT ![s] = f] /\ rows = [rows EXCEPT ![s] = r]
  BY Here DEF Mark
<1>1. /\ t \in Tasks /\ t.at = "done" /\ t.stage = task[s].stage /\ t.idea = task[s].idea
  BY <1>0 DEF AtRest, Tasks, Places, Verdicts
<1>2. /\ task' = [task EXCEPT ![s] = t] /\ fate' = [fate EXCEPT ![s] = f]
      /\ rows' = [rows EXCEPT ![s] = r]
  BY <1>0 DEF Mark
<1>3. UNCHANGED <<graph, corpus, judgements, config>> /\ deliveries' \in 0..MaxDeliveries
  BY DEF Mark, JudgeInv, Stores
<1>. HIDE DEF t
<1>4. Placed(t) /\ Owned(s, t, f, corpus)
  BY <1>0, <1>1 DEF Placed, Owned, Staging, Consulting
<1>5. Ended(s, t, f, judgements, config)
  BY <1>0, <1>1 DEF Ended, Discarded
<1>. HIDE DEF f, r
<1>6. Fits(s, t, f, r, corpus, judgements, config)
  BY <1>0, <1>4, <1>5 DEF Fits
<1>. QED
  BY <1>0, <1>1, <1>2, <1>3, <1>6, Move

---------------------------------------------------------------------------
(* What happens around the sessions.                                       *)

LEMMA RestFits ==
    ASSUME NEW s, NEW r, NEW C, Rowed(r, C), NEW J, NEW K
    PROVE  AtRest \in Tasks /\ Fits(s, AtRest, "none", r, C, J, K)
<1>1. /\ AtRest \in Tasks /\ AtRest.at = "idle" /\ AtRest.stage = "pre" /\ AtRest.idea = Nothing
  BY DEF AtRest, Tasks, Places, Verdicts
<1>. QED
  BY <1>1 DEF Fits, Placed, Owned, Ended, Discarded, Staging, Consulting

LEMMA AbortKeeps ==
    ASSUME JudgeInv, NEW s \in Sessions, Abort(s)
    PROVE  JudgeInv'
<1>. DEFINE t == AtRest
            f == "none"
            r == rows[s]
<1>1. /\ task' = [task EXCEPT ![s] = t] /\ fate' = [fate EXCEPT ![s] = f]
      /\ rows' = [rows EXCEPT ![s] = r] /\ r \in Rows \cup {Nothing} /\ f \in Fates
      /\ UNCHANGED <<graph, corpus, judgements, config>> /\ deliveries' \in 0..MaxDeliveries
  BY Here DEF Abort, JudgeInv, Stores, Fates
<1>2. t \in Tasks /\ Fits(s, t, f, r, corpus, judgements, config)
  BY Here, RestFits
<1>. HIDE DEF t, f, r
<1>. QED
  BY <1>1, <1>2, Move

LEMMA RestartKeeps ==
    ASSUME JudgeInv, Restart
    PROVE  JudgeInv'
<1>1. Stores'
  BY DEF JudgeInv, Stores, Restart
<1>2. AtRest \in Tasks
  BY DEF AtRest, Tasks, Places, Verdicts
<1>3. Functions'
  BY <1>2 DEF JudgeInv, Functions, Restart, Fates
<1>4. ASSUME NEW u \in Sessions
      PROVE  Fits(u, task'[u], fate'[u], rows'[u], corpus', judgements', config')
  <2>1. UNCHANGED <<corpus, judgements, rows>>
    BY DEF Restart
  <2>2. CASE Unfinished(u)
    <3>1. task'[u] = AtRest /\ fate'[u] = "none"
      BY <2>2 DEF Restart
    <3>2. Rowed(rows[u], corpus)
      BY Here
    <3>. QED
      BY <2>1, <3>1, <3>2, RestFits
  <2>3. CASE ~Unfinished(u)
    <3>1. task'[u] = task[u] /\ fate'[u] = fate[u] /\ task[u].at \in {"idle", "done"}
      BY <2>3 DEF Restart, Unfinished
    <3>2. Placed(task[u]) /\ Owned(u, task[u], fate[u], corpus) /\ Rowed(rows[u], corpus)
          /\ Ended(u, task[u], fate[u], judgements, config)
      BY Here
    <3>3. Ended(u, task[u], fate[u], judgements, config')
      BY <3>1, <3>2 DEF Ended
    <3>. QED
      BY <2>1, <3>1, <3>2, <3>3 DEF Fits
  <2>. QED
    BY <2>2, <2>3
<1>. QED
  BY <1>1, <1>3, <1>4 DEF JudgeInv

LEMMA RegraphKeeps ==
    ASSUME JudgeInv, NEW card \in Cards, Regraph(card)
    PROVE  JudgeInv'
BY DEF JudgeInv, Stores, Functions, Regraph

LEMMA RejectKeeps ==
    ASSUME JudgeInv, NEW k \in Ideas, RejectIdea(k)
    PROVE  JudgeInv' /\ Grows(corpus, corpus')
<1>. DEFINE a == [corpus[k] EXCEPT !.rejected = TRUE]
            D == [corpus EXCEPT ![k] = a]
<1>1. /\ corpus \in [Ideas -> Artifacts \cup {Nothing}] /\ corpus[k] \in Artifacts
      /\ corpus[k] # Nothing
  BY DEF JudgeInv, Stores, RejectIdea
<1>2. corpus' = D
  BY <1>1 DEF RejectIdea
<1>3. a \in Artifacts /\ a.owner = corpus[k].owner /\ a.hits = corpus[k].hits /\ a.rejected
  BY <1>1 DEF Artifacts
<1>4. a # Nothing
  BY <1>3, JudgeAssumption
<1>. HIDE DEF a
<1>5. /\ D \in [Ideas -> Artifacts \cup {Nothing}] /\ D[k] = a
      /\ \A j \in Ideas \ {k} : D[j] = corpus[j]
  BY <1>1, <1>3
<1>. HIDE DEF D
<1>6. \A j \in Ideas : corpus[j] # Nothing => corpus[j].hits >= corpus[j].hits
  BY <1>1 DEF Artifacts
<1>7. Grows(corpus, D)
  BY <1>3, <1>4, <1>5, <1>6 DEF Grows
<1>8. UNCHANGED <<graph, judgements, config, task, rows, fate, deliveries>>
  BY DEF RejectIdea
<1>9. Stores' /\ Functions'
  BY <1>2, <1>5, <1>8 DEF JudgeInv, Stores, Functions
<1>10. ASSUME NEW u \in Sessions
       PROVE  Fits(u, task'[u], fate'[u], rows'[u], corpus', judgements', config')
  <2>1. /\ task[u] \in Tasks /\ fate[u] \in Fates /\ rows[u] \in Rows \cup {Nothing}
        /\ Fits(u, task[u], fate[u], rows[u], corpus, judgements, config)
    BY DEF JudgeInv, Functions
  <2>2. \A j \in Ideas : corpus[j] = Nothing => D[j] = Nothing \/ D[j].owner # u
    BY <1>1, <1>5
  <2>3. \A q \in Refs : q[2] = u => judgements[q] = judgements[q]
    OBVIOUS
  <2>4. Fits(u, task[u], fate[u], rows[u], D, judgements, config)
    BY <1>7, <2>1, <2>2, <2>3, Frame
  <2>. QED
    BY <1>2, <1>8, <2>4
<1>. QED
  BY <1>2, <1>7, <1>9, <1>10 DEF JudgeInv

---------------------------------------------------------------------------
(* Together.                                                               *)

LEMMA InitFits == JInit => JudgeInv
<1>. SUFFICES ASSUME JInit PROVE JudgeInv
  OBVIOUS
<1>1. Stores
  BY JudgeAssumption DEF JInit, Stores
<1>2. AtRest \in Tasks
  BY DEF AtRest, Tasks, Places, Verdicts
<1>3. Functions
  BY <1>2 DEF JInit, Functions, Fates
<1>4. ASSUME NEW s \in Sessions
      PROVE  Fits(s, task[s], fate[s], rows[s], corpus, judgements, config)
  <2>1. task[s] = AtRest /\ fate[s] = "none" /\ Rowed(rows[s], corpus)
    BY <1>4 DEF JInit, Rowed
  <2>. QED
    BY <2>1, RestFits
<1>. QED
  BY <1>1, <1>3, <1>4 DEF JudgeInv

LEMMA StepKeeps ==
    ASSUME JudgeInv, [JNext]_jvars
    PROVE  JudgeInv' /\ Grows(corpus, corpus')
<1>0. UNCHANGED corpus => Grows(corpus, corpus')
  BY DEF Grows, JudgeInv, Stores, Artifacts
<1>1. ASSUME NEW s \in Sessions,
             Screen(s) \/ Reuse(s) \/ Ask(s) \/ Decide(s) \/ Extract(s) \/ PutRow(s) \/ HardKey(s)
      PROVE  JudgeInv' /\ Grows(corpus, corpus')
  <2>1. UNCHANGED corpus
    BY <1>1 DEF Screen, Reuse, Ask, Decide, Extract, PutRow, HardKey
  <2>. QED
    BY <1>0, <1>1, <2>1, ScreenKeeps, ReuseKeeps, AskKeeps, DecideKeeps, ExtractKeeps,
       PutRowKeeps, HardKeyKeeps
<1>2. ASSUME NEW s \in Sessions,
             Structural(s) \/ Soft(s) \/ PersistRow(s) \/ Mark(s) \/ Abort(s)
      PROVE  JudgeInv' /\ Grows(corpus, corpus')
  <2>1. UNCHANGED corpus
    BY <1>2 DEF Structural, Soft, PersistRow, Mark, Abort
  <2>. QED
    BY <1>0, <1>2, <2>1, StructuralKeeps, SoftKeeps, PersistRowKeeps, MarkKeeps, AbortKeeps
<1>3. ASSUME NEW s \in Sessions, Count(s) \/ Seed(s)
      PROVE  JudgeInv' /\ Grows(corpus, corpus')
  BY <1>3, CountKeeps, SeedKeeps
<1>4. CASE Restart
  BY <1>0, <1>4, RestartKeeps DEF Restart
<1>5. ASSUME NEW c \in Cards, Regraph(c)
      PROVE  JudgeInv' /\ Grows(corpus, corpus')
  BY <1>0, <1>5, RegraphKeeps DEF Regraph
<1>6. ASSUME NEW k \in Ideas, RejectIdea(k)
      PROVE  JudgeInv' /\ Grows(corpus, corpus')
  BY <1>6, RejectKeeps
<1>7. CASE UNCHANGED jvars
  BY <1>0, <1>7 DEF jvars, JudgeInv, Stores, Functions
<1>. QED
  BY <1>1, <1>2, <1>3, <1>4, <1>5, <1>6, <1>7 DEF JNext

(* Every delivery of every session keeps its place, its evidence and its   *)
(* artifact in agreement with the stores, whatever crashes or comes twice. *)
THEOREM JudgeInvariant == JSpec => []JudgeInv
<1>1. JudgeInv /\ [JNext]_jvars => JudgeInv'
  BY StepKeeps
<1>. QED
  BY <1>1, InitFits, PTL DEF JSpec

(* _persist before the drop, _drop_allowed, _free_gate and                 *)
(* _resolve_covered_by: work that the judge takes away is on record, under *)
(* the running configuration, on cards that were read and may authorize.   *)
THEOREM DropsAreJustified == JSpec => []DropJustified
<1>1. ASSUME JudgeInv PROVE DropJustified
  <2>1. ASSUME NEW s \in Sessions
        PROVE  /\ task[s] \in Tasks /\ Placed(task[s])
               /\ Ended(s, task[s], fate[s], judgements, config)
               /\ rows[s] \in Rows \cup {Nothing}
    BY <1>1, Here
  <2>2. JudgeTypeOK
    <3>1. \A s \in Sessions : \A c \in task[s].cards : IsCard(c)
      BY <2>1, CardFacts DEF Tasks
    <3>2. \A s \in Sessions : /\ task[s].stage \in {"pre", "post"}
                              /\ task[s].idea \in Ideas \cup {Nothing}
                              /\ task[s].verdict \in {"insert", "conflict", "merge"}
                              /\ rows[s] = Nothing \/ rows[s].idea \in Ideas
      BY <2>1 DEF Tasks, Rows, Verdicts
    <3>. QED
      BY <1>1, <3>1, <3>2 DEF JudgeTypeOK, JudgeInv, Stores, Functions
  <2>3. DropHasRecord
    BY <2>1 DEF DropHasRecord, JudgedAway, Ended, Discarded, Ref
  <2>4. NoDropInTheDark
    BY <2>1 DEF NoDropInTheDark, JudgedAway, Ended, Discarded
  <2>5. DropStandsNow
    BY <2>1 DEF DropStandsNow, JudgedAway, Ended, Discarded, Bar, MayAuthorize
  <2>. QED
    BY <2>2, <2>3, <2>4, <2>5 DEF DropJustified
<1>. QED
  BY <1>1, JudgeInvariant, PTL

(* The judge is asked before the seed and the seed comes before the row:   *)
(* no artifact counts for discarded work, and each new row has its own.    *)
THEOREM ArtifactsMatchRows == JSpec => []RowMatchesArtifact
<1>1. ASSUME JudgeInv PROVE RowMatchesArtifact
  <2>1. ASSUME NEW s \in Sessions
        PROVE  Owned(s, task[s], fate[s], corpus) /\ Rowed(rows[s], corpus)
    BY <1>1, Here
  <2>. QED
    BY <2>1 DEF RowMatchesArtifact, DiscardedHasNoArtifact, NewRowHasArtifact, Owned, Rowed
<1>. QED
  BY <1>1, JudgeInvariant, PTL

(* Insert wins (seed_if_absent), record_hit and set_status: no step resets *)
(* an artifact's owner, its count or its rejection.                        *)
THEOREM ArtifactsLast == JSpec => ArtifactIsNeverReset
<1>1. JudgeInv /\ [JNext]_jvars => Grows(corpus, corpus')
  BY StepKeeps
<1>2. Grows(corpus, corpus') =>
        \A k \in Ideas : corpus[k] # Nothing =>
          /\ corpus'[k] # Nothing
          /\ corpus'[k].owner = corpus[k].owner
          /\ corpus'[k].hits >= corpus[k].hits
          /\ corpus[k].rejected => corpus'[k].rejected
  BY DEF Grows
<1>. QED
  BY <1>1, <1>2, JudgeInvariant, PTL DEF JSpec, ArtifactIsNeverReset
=============================================================================
