------------------------------ MODULE ToolRound ------------------------------
(***************************************************************************)
(* The rounds of a turn, between the session document and the model: the   *)
(* request that is assembled from the document (scope filter, interleave,  *)
(* emulated discovery, token budget), the calls of the response, and the   *)
(* two window-local guards that remember what the model was shown, the     *)
(* repeated-read guard and the blueprint-definition gate.                  *)
(*                                                                         *)
(* One blueprint, and one argument per tool: a tool name is a signature.   *)
(* A message is reduced to its weight in tokens.  The blocks that follow   *)
(* the question (retrieval, analysis state, nudge) are pinned with it and  *)
(* taken off the budget.                                                   *)
(***************************************************************************)
EXTENDS Integers, SequencesExt, Positions

CONSTANTS
    Calls,        \* tools the model may call
    Columns,      \* warehouse columns
    Footprints,   \* what a call may be found to have read
    Scopes,       \* column scopes of a caller; {} allows everything
    Emulates,     \* discovery emulation is configured
    Weight,       \* tokens of a readable result, by tool
    TokenBudget,  \* request_token_budget, what the pinned blocks leave
    PinnedPairs,  \* request_budget_pinned_recent_tool_pairs
    MaxTrimmedReadRefetches,  \* _MAX_TRIMMED_READ_REFETCHES, 2 in the code
    MaxBatch,     \* max_tool_calls_per_iteration
    MaxWindows,   \* max_budget_windows
    MaxTurns,     \* bound: turns of the session
    MaxBodies,    \* bound: loop bodies
    MaxItems      \* bound: entries of the session document

ASSUME RoundAssumption ==
    /\ Scopes \subseteq SUBSET Columns
    /\ Footprints \subseteq SUBSET Columns
    /\ Emulates \in BOOLEAN
    /\ Weight \in [Calls -> Nat \ {0}]
    /\ {TokenBudget, PinnedPairs, MaxBatch, MaxWindows, MaxTurns,
        MaxTrimmedReadRefetches, MaxBodies, MaxItems} \subseteq Nat

VARIABLES
    doc,      \* messages and tool_trail of the session, in the order of their ts
    scope,    \* credentials.column_scope of the request that is served
    b,        \* the locals of _run_loop_body
    request   \* the canonical request sent last

vars == <<doc, scope, b, request>>

---------------------------------------------------------------------------
IDEMPOTENT_READ_TOOLS ==
    Calls \cap {"getTableSchema", "listTables", "listDatabases", "explainQuery", "getBlueprint"}

EmulatedReads == IF Emulates THEN Calls \cap {"listTables", "listDatabases"} ELSE {}

(* A provenance is undetermined, or a set of columns.                      *)
ColumnProvenances == {<<>>} \cup {<<cs>> : cs \in SUBSET Columns}
Undetermined == <<>>

(* error_code: "served" is IDEMPOTENT_READ_ALREADY_SERVED, "unread"        *)
(* BLUEPRINT_DEFINITION_NOT_READ, "failed" any other.                      *)
Entry == [kind : {"user", "assistant", "tool"}, turn : Nat, body : Nat, round : Nat,
          call : Calls \cup {"none"}, status : {"ok", "denied"},
          code : {"none", "served", "unread", "failed"}, prov : ColumnProvenances]

Body == [pc : {"idle", "build", "model", "batch", "paused", "over"},
         turn : Int, window : Nat,
         body : Nat, round : Nat,                    \* history: bodies and responses so far
         seen : SUBSET IDEMPOTENT_READ_TOOLS,        \* ReadGuard._seen
         served : [IDEMPOTENT_READ_TOOLS -> Int],    \* _served_call_ids, 0: none
         refetches : [IDEMPOTENT_READ_TOOLS -> 0..MaxTrimmedReadRefetches],
         servedThisRound : SUBSET IDEMPOTENT_READ_TOOLS,
         definitionRead : BOOLEAN,                   \* BlueprintGate._definitions_read
         expandedThisRound : BOOLEAN,
         calls : Seq(Calls)]                         \* what is left of the batch

(* A message of the canonical request; its id says which entry it renders. *)
Unit == [id : Int, role : {"user", "assistant", "tool"}, readable : BOOLEAN, weight : Nat]

RoundTypeOK ==
    /\ doc \in Seq(Entry)
    /\ scope \in Scopes
    /\ b \in Body
    /\ request.all \in Seq(Unit) /\ request.kept \in Seq(Unit)
    /\ \A i \in DOMAIN request.kept : request.kept[i].id \in -Cardinality(EmulatedReads)..Len(doc)

NoRequest == [all |-> <<>>, kept |-> <<>>]
NoReads == [c \in IDEMPOTENT_READ_TOOLS |-> 0]

Init ==
    /\ doc = <<>>
    /\ scope \in Scopes
    /\ b = [pc |-> "idle", turn |-> -1, window |-> 1, body |-> 0, round |-> 0, seen |-> {},
            served |-> NoReads, refetches |-> NoReads, servedThisRound |-> {},
            definitionRead |-> FALSE, expandedThisRound |-> FALSE, calls |-> <<>>]
    /\ request = NoRequest

---------------------------------------------------------------------------
(* Context assembly                                                        *)

(* An empty scope hides nothing but what is undetermined.                  *)
InScope(p, s) == p # Undetermined /\ (s = {} \/ p[1] \subseteq s)

(* A failed call of the current turn is always kept, the model must see it.*)
Kept(e, s, turn) ==
    CASE e.kind = "user" -> TRUE
      [] e.kind = "assistant" -> InScope(e.prov, s)
      [] OTHER -> (e.turn = turn /\ e.status # "ok") \/ InScope(e.prov, s)

(* A result of this turn without provenance: a sentinel stands for it.     *)
Stranded(e, turn) ==
    e.kind = "tool" /\ e.turn = turn /\ e.status = "ok" /\ e.prov = Undetermined

StaleModelText(e, turn) == e.call = "recordAssumptions" /\ e.turn # turn

Rendered(id, e, sentinel) ==
    [id |-> id, role |-> e.kind, readable |-> e.kind = "tool" /\ ~sentinel,
     weight |-> IF e.kind = "tool" /\ ~sentinel /\ e.status = "ok" THEN Weight[e.call] ELSE 1]

Shows(e, s, turn) == ~StaleModelText(e, turn) /\ (Kept(e, s, turn) \/ Stranded(e, turn))

Assemble(d, s, turn) ==
    Pick([i \in DOMAIN d |-> Rendered(i, d[i], ~Kept(d[i], s, turn))],
         {i \in DOMAIN d : Shows(d[i], s, turn)})

(* The emulated pairs have ids of their own, below 0.                      *)
EmulatedId(c) == -(CHOOSE n \in 1..Cardinality(EmulatedReads) :
                     SetToSeq(EmulatedReads)[n] = c)

EmulatedPairs ==
    [n \in 1..Cardinality(EmulatedReads) |->
        [id |-> -n, role |-> "tool", readable |-> TRUE,
         weight |-> Weight[SetToSeq(EmulatedReads)[n]]]]

(* After the first run of user messages, or at the front.                  *)
SpliceDiscovery(m) ==
    LET users == {i \in DOMAIN m : m[i].role = "user"}
        first == CHOOSE i \in users : \A j \in users : i <= j
        after == IF users = {} THEN 0
                 ELSE CHOOSE k \in first..Len(m) :
                        /\ \A j \in first..k : m[j].role = "user"
                        /\ k < Len(m) => m[k + 1].role # "user"
    IN  SubSeq(m, 1, after) \o EmulatedPairs \o SubSeq(m, after + 1, Len(m))

---------------------------------------------------------------------------
(* fit_request_to_budget                                                   *)

(* The tokens of a request, one by one; its messages have different ids.   *)
Tokens(m) == Cardinality(UNION {{<<m[i].id, n>> : n \in 1..m[i].weight} : i \in DOMAIN m})

(* The boundary is positional: the first user message after the last       *)
(* answer.                                                                 *)
CurrentTurnStart(m) ==
    LET answers == {i \in DOMAIN m : m[i].role = "assistant"}
        last == IF answers = {} THEN 0 ELSE CHOOSE i \in answers : \A j \in answers : i >= j
        users == {i \in DOMAIN m : i > last /\ m[i].role = "user"}
    IN  IF users = {} THEN Len(m) + 1 ELSE CHOOSE i \in users : \A j \in users : i <= j

Pinned(m) ==
    LET start == CurrentTurnStart(m)
        pairs == {i \in DOMAIN m : i >= start /\ m[i].role = "tool"}
        recent == {i \in pairs : Cardinality({j \in pairs : j > i}) < PinnedPairs}
    IN  {i \in DOMAIN m : m[i].id < 0 \/ (i >= start /\ m[i].role # "tool") \/ i \in recent}

(* The droppable units in the order they go: older turns, then the older   *)
(* pairs of this one.                                                      *)
DropOrder(m) ==
    LET droppable == DOMAIN m \ Pinned(m)
        older == {i \in droppable : i < CurrentTurnStart(m)}
    IN  InOrder(older) \o InOrder(droppable \ older)

Without(m, gone) == Pick(m, DOMAIN m \ gone)

Fit(m) ==
    LET order == DropOrder(m)
        Left(k) == Without(m, {order[i] : i \in 1..k})
        Enough(k) == Tokens(Left(k)) <= TokenBudget \/ k = Len(order)
    IN  Left(CHOOSE k \in 0..Len(order) : Enough(k) /\ \A j \in 0..(k - 1) : ~Enough(j))

BeginRound(r) == [r EXCEPT !.servedThisRound = {}, !.expandedThisRound = FALSE]

(* _build_canonical_messages                                               *)
Build ==
    /\ b.pc = "build"
    /\ LET m == SpliceDiscovery(Assemble(doc, scope, b.turn)) IN
         request' = [all |-> m, kept |-> Fit(m)]
    /\ b' = [BeginRound(b) EXCEPT !.pc = "model"]
    /\ UNCHANGED <<doc, scope>>

Readable == {request.kept[i].id : i \in {j \in DOMAIN request.kept : request.kept[j].readable}}

---------------------------------------------------------------------------
(* Requests of the session                                                 *)

Message(kind, turn, p) ==
    [kind |-> kind, turn |-> turn, body |-> b.body, round |-> b.round, call |-> "none",
     status |-> "ok", code |-> "none", prov |-> p]

(* What the trail of the turn says was read, and which entry served it: a  *)
(* data-free marker proves a read, and is never the place to look for it.  *)
ReadsOf(d, turn, c) ==
    {i \in DOMAIN d : /\ d[i].kind = "tool" /\ d[i].turn = turn
                      /\ d[i].status = "ok" /\ d[i].call = c}

SeenBefore(d, turn) == {c \in IDEMPOTENT_READ_TOOLS : ReadsOf(d, turn, c) # {}}

ServedBefore(d, turn) ==
    LET Latest(S) == IF S = {} THEN 0 ELSE CHOOSE i \in S : \A j \in S : i >= j
    IN  [c \in IDEMPOTENT_READ_TOOLS |->
            IF c \in EmulatedReads THEN EmulatedId(c)
            ELSE Latest({i \in ReadsOf(d, turn, c) : d[i].code # "served"})]

(* A window starts with fresh guards, seeded from the trail of the turn    *)
(* and from the emulated reads.                                            *)
OpenWindow(turn, window, d) ==
    [b EXCEPT !.pc = "build", !.turn = turn, !.window = window, !.body = @ + 1,
              !.seen = SeenBefore(d, turn) \cup EmulatedReads,
              !.served = ServedBefore(d, turn),
              !.refetches = NoReads,
              !.definitionRead = ReadsOf(d, turn, "getBlueprint") # {},
              !.calls = <<>>]

(* A request may come with other credentials than the one before.          *)
Run ==
    /\ b.pc \in {"idle", "paused"} /\ b.body < MaxBodies
    /\ Len(doc) + 1 < MaxItems
    /\ LET turn == IF doc = <<>> THEN 0 ELSE doc[Len(doc)].turn + 1
           d == Append(doc, Message("user", turn, <<{}>>))
       IN  /\ turn < MaxTurns
           /\ doc' = d
           /\ b' = OpenWindow(turn, 1, d)
    /\ scope' \in Scopes
    /\ UNCHANGED request

(* The answer to a question, or the leave to go on, is a user message of   *)
(* the turn.                                                               *)
Resume ==
    /\ b.pc = "paused" /\ b.body < MaxBodies
    /\ Len(doc) + 1 < MaxItems
    /\ LET d == Append(doc, Message("user", b.turn, <<{}>>)) IN
         /\ doc' = d
         /\ \/ b' = OpenWindow(b.turn, b.window, d)
            \/ /\ b.window < MaxWindows
               /\ b' = OpenWindow(b.turn, b.window + 1, d)
    /\ scope' \in Scopes
    /\ UNCHANGED request

(* The request raises or dies; its turn has no answer.                     *)
Abandon ==
    /\ b.pc \in {"build", "model", "batch"}
    /\ b' = [b EXCEPT !.pc = "idle", !.calls = <<>>]
    /\ request' = NoRequest
    /\ UNCHANGED <<doc, scope>>

(* _compute_turn_provenance_union: one undetermined entry is enough, also  *)
(* that of a call that failed.                                             *)
TurnEntries(d, turn) ==
    {i \in DOMAIN d : /\ d[i].kind = "tool" /\ d[i].turn = turn
                      /\ d[i].code # "served"
                      /\ ~(d[i].status = "ok" /\ d[i].call = "recordAssumptions")}

TurnProvenance(d, turn) ==
    LET es == TurnEntries(d, turn) IN
    IF \E i \in es : d[i].prov = Undetermined THEN Undetermined
    ELSE <<UNION {d[i].prov[1] : i \in es}>>

---------------------------------------------------------------------------
(* The response                                                            *)

EndTurn ==
    /\ b.pc = "model"
    /\ doc' = Append(doc, Message("assistant", b.turn, TurnProvenance(doc, b.turn)))
    /\ b' = [b EXCEPT !.pc = "idle"]
    /\ request' = NoRequest
    /\ UNCHANGED <<scope>>

AskUser ==
    /\ b.pc = "model"
    /\ b' = [b EXCEPT !.pc = "paused"]
    /\ request' = NoRequest
    /\ UNCHANGED <<doc, scope>>

Respond ==
    /\ b.pc = "model"
    /\ \E n \in 1..MaxBatch : \E cs \in [1..n -> Calls] :
         /\ Len(doc) + n < MaxItems
         /\ b' = [b EXCEPT !.pc = "batch", !.calls = cs, !.round = @ + 1]
    /\ UNCHANGED <<doc, scope, request>>

Write(status, code, p) ==
    doc' = Append(doc,
        [kind |-> "tool", turn |-> b.turn, body |-> b.body, round |-> b.round,
         call |-> Head(b.calls), status |-> status, code |-> code, prov |-> p])

(* ReadGuard.classify                                                      *)
Unreadable(c) == b.served[c] = 0 \/ b.served[c] \notin Readable

Exempt(c) ==
    c \in b.seen /\ c \notin b.servedThisRound /\ Unreadable(c)

Declined(c) ==
    /\ c \in IDEMPOTENT_READ_TOOLS /\ c \in b.seen
    /\ Exempt(c) => b.refetches[c] >= MaxTrimmedReadRefetches

Granted(c) ==
    IF c \in IDEMPOTENT_READ_TOOLS /\ Exempt(c) /\ ~Declined(c)
    THEN [b.refetches EXCEPT ![c] = @ + 1] ELSE b.refetches

Gated(c) == c = "runBlueprint" /\ ~b.definitionRead

(* note_definition_in_context                                              *)
Expands(c) == c = "getBlueprint"

(* A repeat is answered with a data-free marker.  A getBlueprint that was  *)
(* declined counts as a definition in context.                             *)
Decline ==
    /\ b.pc = "batch" /\ b.calls # <<>> /\ Declined(Head(b.calls))
    /\ Write("ok", "served", Undetermined)
    /\ b' = [b EXCEPT !.calls = Tail(@),
                      !.expandedThisRound = @ \/ Expands(Head(b.calls))]
    /\ UNCHANGED <<scope, request>>

ReadGate ==
    /\ b.pc = "batch" /\ b.calls # <<>> /\ Gated(Head(b.calls))
    /\ Write("denied", "unread", <<{}>>)
    /\ b' = [b EXCEPT !.calls = Tail(@)]
    /\ UNCHANGED <<scope, request>>

Allowed(c) == ~Declined(c) /\ ~Gated(c)

(* Mutant: the definition counts at once, within the batch.                *)
ServedAtOnce(c) ==
    [b EXCEPT
      !.calls = Tail(@), !.refetches = Granted(c),
      !.seen = @ \cup ({c} \cap IDEMPOTENT_READ_TOOLS),
      !.served = [r \in IDEMPOTENT_READ_TOOLS |-> IF r = c THEN Len(doc) + 1 ELSE @[r]],
      !.servedThisRound = @ \cup ({c} \cap IDEMPOTENT_READ_TOOLS),
      !.definitionRead = @ \/ Expands(c)]

(* record_served                                                           *)
Served(c) ==
    [b EXCEPT
      !.calls = Tail(@), !.refetches = Granted(c),
      !.seen = @ \cup ({c} \cap IDEMPOTENT_READ_TOOLS),
      !.served = [r \in IDEMPOTENT_READ_TOOLS |-> IF r = c THEN Len(doc) + 1 ELSE @[r]],
      !.servedThisRound = @ \cup ({c} \cap IDEMPOTENT_READ_TOOLS),
      !.expandedThisRound = @ \/ Expands(c)]

(* What a call is found to have read: nothing for a metadata read, the     *)
(* footprint of a blueprint (one that is hidden is not found), and of a    *)
(* statement it cannot always be told.  The server lets a call read the    *)
(* columns of the caller only.                                             *)
Captured(c) ==
    LET visible == {<<f>> : f \in {g \in Footprints : InScope(<<g>>, scope)}} IN
    CASE c = "getBlueprint" -> IF visible = {} THEN {<<{}>>} ELSE visible
      [] c \in {"runQuery", "runBlueprint", "sampleRows"} -> visible \cup {Undetermined}
      [] OTHER -> {<<{}>>}

DispatchOk ==
    /\ b.pc = "batch" /\ b.calls # <<>> /\ Allowed(Head(b.calls))
    /\ \E p \in Captured(Head(b.calls)) : Write("ok", "none", p)
    /\ b' = Served(Head(b.calls))
    /\ UNCHANGED <<scope, request>>

DispatchDenied ==
    /\ b.pc = "batch" /\ b.calls # <<>> /\ Allowed(Head(b.calls))
    /\ Write("denied", "failed", Undetermined)
    /\ b' = [b EXCEPT !.calls = Tail(@), !.refetches = Granted(Head(b.calls))]
    /\ UNCHANGED <<scope, request>>

(* The end of the batch, drained or cut by the budget guard.               *)
Commit(r) == [r EXCEPT !.definitionRead = @ \/ r.expandedThisRound]

EndBatch ==
    /\ b.pc = "batch" /\ b.calls = <<>>
    /\ b' = [Commit(b) EXCEPT !.pc = "build"]
    /\ UNCHANGED <<doc, scope, request>>

BudgetCap ==
    /\ b.pc = "batch" /\ b.window < MaxWindows
    /\ doc # <<>> /\ doc[Len(doc)].round = b.round
    /\ b' = [Commit(b) EXCEPT !.pc = "paused", !.calls = <<>>]
    /\ request' = NoRequest
    /\ UNCHANGED <<doc, scope>>

Next ==
    \/ Run \/ Resume \/ Abandon \/ Build \/ EndTurn \/ AskUser \/ Respond
    \/ Decline \/ ReadGate \/ DispatchOk \/ DispatchDenied \/ EndBatch \/ BudgetCap

Spec == Init /\ [][Next]_vars

---------------------------------------------------------------------------
(* A runBlueprint passes the gate if and only if an earlier response of    *)
(* the same turn got the definition: never in the same batch, never from   *)
(* an older turn, and never refused again once it was read, in whatever    *)
(* window (BlueprintGate, seeded from the trail).                          *)
GateFollowsTheTrail ==
    \A i \in DOMAIN doc :
        doc[i].call = "runBlueprint" =>
            (doc[i].code # "unread" <=>
                \E j \in 1..(i - 1) :
                    /\ doc[j].call = "getBlueprint" /\ doc[j].status = "ok"
                    /\ doc[j].turn = doc[i].turn /\ doc[j].round < doc[i].round)

(* One loop body serves a read at most three times, however often its      *)
(* result is trimmed away (_MAX_TRIMMED_READ_REFETCHES).                   *)
ReadsBounded ==
    \A c \in IDEMPOTENT_READ_TOOLS, n \in 1..b.body :
        Cardinality({i \in DOMAIN doc : /\ doc[i].call = c /\ doc[i].body = n
                                        /\ doc[i].status = "ok" /\ doc[i].code # "served"})
            <= 1 + MaxTrimmedReadRefetches

(* What discovery emulation shows is never fetched: its pairs stay in      *)
(* every request, so the guard always finds them readable.                 *)
EmulatedNeverFetched ==
    \A i \in DOMAIN doc : doc[i].call \in EmulatedReads => doc[i].code = "served"

(* Whatever the budget, the request holds every user message of the turn   *)
(* and its newest PinnedPairs results, also after a pause, and after a     *)
(* turn that ended without an answer.                                      *)
CurrentTurnKept ==
    b.pc = "model" =>
        LET ofTurn == {i \in DOMAIN request.all :
                         request.all[i].id > 0 /\ doc[request.all[i].id].turn = b.turn}
            pairs == {i \in ofTurn : request.all[i].role = "tool"}
        IN  \A i \in ofTurn :
               \/ \E k \in DOMAIN request.kept : request.kept[k] = request.all[i]
               \/ i \in pairs /\ Cardinality({j \in pairs : j > i}) >= PinnedPairs

(* A result of this turn is trimmed only when nothing of an answered turn  *)
(* is left, the older result first, and nothing is trimmed that would      *)
(* still have fitted.                                                      *)
OlderGoesFirst ==
    b.pc = "model" =>
        LET here == {request.kept[k].id : k \in DOMAIN request.kept}
            gone == {i \in DOMAIN request.all : request.all[i].id \notin here}
            answers == {k \in DOMAIN request.all : request.all[k].role = "assistant"}
            answered == {doc[request.all[j].id].turn : j \in answers}
            tokens == Tokens(request.kept)
        IN  /\ \A i \in gone, k \in DOMAIN request.kept :
                  /\ doc[request.all[i].id].turn = b.turn
                  /\ request.kept[k].id > 0
                  => /\ doc[request.kept[k].id].turn = b.turn
                        \/ \A t \in answered : doc[request.kept[k].id].turn > t
                     /\ request.kept[k].role = "tool" => request.kept[k].id > request.all[i].id
            /\ gone # {} => \E i \in gone : tokens + request.all[i].weight > TokenBudget

(* What the caller's scope hides is in no request: no result, and no       *)
(* answer whose turn read it, or read something that cannot be told.       *)
HiddenStaysHidden ==
    b.pc = "model" =>
        \A k \in DOMAIN request.kept :
            LET u == request.kept[k]
                e == doc[u.id]
            IN  u.id > 0 =>
                  /\ u.readable /\ e.status = "ok" => InScope(e.prov, scope)
                  /\ u.role = "assistant" =>
                        \A i \in DOMAIN doc :
                            /\ doc[i].kind = "tool" /\ doc[i].turn = e.turn
                            /\ doc[i].status = "ok" /\ doc[i].code # "served"
                            => InScope(doc[i].prov, scope)

(* What was served decides: the blueprint gate and the guard of repeated   *)
(* reads follow the trail of what the model got, not what its request      *)
(* still shows.  And that request is what the turn and the caller are      *)
(* entitled to: the current turn whole, older results trimmed first,       *)
(* nothing hidden shown.                                                   *)
RoundsFaithful ==
    /\ RoundTypeOK /\ GateFollowsTheTrail /\ ReadsBounded /\ EmulatedNeverFetched
    /\ CurrentTurnKept /\ OlderGoesFirst /\ HiddenStaysHidden
=============================================================================
