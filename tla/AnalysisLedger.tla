--------------------------- MODULE AnalysisLedger ---------------------------
(***************************************************************************)
(* The analysis ledger of a turn: updateAnalysisState declares the intents *)
(* of the question and closes them, and the runtime finds the call of the  *)
(* trail that backs each closing.  An update reads the document, binds its *)
(* evidence to that copy, and then merges into whatever ledger the store   *)
(* holds (apply_analysis_state runs the merge inside its CAS).  Two        *)
(* requests that were sent for the same turn share trail and ledger.       *)
(***************************************************************************)
EXTENDS Integers, Sequences, FiniteSets

CONSTANTS
    Workers,     \* requests that run a loop for this turn
    MAX_INTENTS, \* 8 in the code
    MaxToolCallsOfTurn  \* bound: entries of the trail

ASSUME LedgerAssumption == MAX_INTENTS \in Nat \ {0} /\ MaxToolCallsOfTurn \in Nat

VARIABLES
    trail,    \* tool_trail of the turn; the position is the tool call id
    ledger,   \* analysis_state of the document, <<>> when there is none
    local,    \* the loop's analysis_state of each request: the ids it knows
    update,   \* the updateAnalysisState call of each request, bound and not merged
    declared  \* history: how much of the trail the declaring request had read

ledgerVars == <<trail, ledger, local, update, declared>>

---------------------------------------------------------------------------
(* sampleRows is to the ledger what resolveValues is, and is left out.     *)
SUBSTANTIVE_TOOLS == {"runQuery", "runBlueprint", "resolveValues"}
COMPLETION_EVIDENCE_TOOLS == {"runQuery", "runBlueprint", "getTableSchema"}
INTENT_TAGGABLE_TOOLS == COMPLETION_EVIDENCE_TOOLS

(* How a call can end: its error code, whether it is authoritative, and    *)
(* the row_count of its preview (none: no preview).  "served" marks a      *)
(* repeated read that fetched nothing.                                     *)
Outcome(tool, code, authoritative, rows) ==
    [tool |-> tool, status |-> IF code \in {"none", "served"} THEN "ok" ELSE "failed",
     code |-> code, authoritative |-> authoritative, rows |-> rows]

Outcomes ==
    {Outcome(t, "NO_ACCESS", FALSE, "absent") : t \in {"runQuery", "runBlueprint"}}
    \cup {Outcome(t, "none", FALSE, r) : t \in {"runQuery", "resolveValues"},
                                         r \in {"none", "some"}}
    \cup {Outcome("runBlueprint", "none", a, "some") : a \in BOOLEAN}
    \cup {Outcome("runBlueprint", "none", TRUE, "none"),
          Outcome("runBlueprint", "failed", FALSE, "absent"),
          Outcome("getTableSchema", "none", FALSE, "some"),
          Outcome("getTableSchema", "served", FALSE, "absent")}

Intents == 1..MAX_INTENTS
Untagged == 0

Entries == {[out |-> o, tag |-> t] : o \in Outcomes, t \in {Untagged} \cup Intents}

Statuses == {"pending", "completed", "blocked"}
DERIVABLE_REASON_CODES == {"NO_ACCESS", "REQUIRED_DATA_UNAVAILABLE"}
Intent == [status : Statuses, evidence : 0..MaxToolCallsOfTurn, reason : {"none"} \cup DERIVABLE_REASON_CODES]
Pending == [status |-> "pending", evidence |-> 0, reason |-> "none"]
Ledgers == UNION {[1..n -> Intent] : n \in 0..MAX_INTENTS}

(* An update in flight: what it asks for, by intent.                       *)
Updates == UNION {[S -> Intent] : S \in SUBSET Intents}
InFlight == [kind : {"none"}] \cup [kind : {"declare"}, count : Intents, seen : 0..MaxToolCallsOfTurn]
            \cup [kind : {"change"}, items : Updates]
Idle == [kind |-> "none"]

LedgerTypeOK ==
    /\ trail \in Seq(Entries)
    /\ \A k \in DOMAIN trail : trail[k].tag \in {Untagged} \cup DOMAIN ledger
    /\ ledger \in Ledgers
    /\ local \in [Workers -> SUBSET Intents]
    /\ update \in [Workers -> InFlight]

LedgerInit ==
    /\ trail = <<>> /\ ledger = <<>>
    /\ local = [w \in Workers |-> {}]
    /\ update = [w \in Workers |-> Idle]
    /\ declared = 0

---------------------------------------------------------------------------
(* Evidence                                                                *)

FetchedItself(entry) == entry.out.status = "ok" /\ entry.out.code # "served"

(* Mutant: a blueprint that was not verified completes an intent.          *)
CompletesLoosely(entry) == FetchedItself(entry) /\ entry.out.tool \in COMPLETION_EVIDENCE_TOOLS

(* validate_completion_evidence                                            *)
Completes(entry) ==
    /\ FetchedItself(entry) /\ entry.out.tool \in COMPLETION_EVIDENCE_TOOLS
    /\ entry.out.tool = "runBlueprint" => entry.out.authoritative

(* validate_block_evidence *)
ShowsNoAccess(entry) == entry.out.status # "ok" /\ entry.out.code = "NO_ACCESS"
ShowsNoData(entry) == FetchedItself(entry) /\ entry.out.rows = "none"

(* classify_block_evidence *)
BlockReason(entry) ==
    CASE ShowsNoAccess(entry) -> "NO_ACCESS"
      [] ShowsNoData(entry) -> "REQUIRED_DATA_UNAVAILABLE"
      [] OTHER -> "none"

Validates(entry, status) == IF status = "completed" THEN Completes(entry) ELSE BlockReason(entry) # "none"

(* auto_bind_candidates: a guess is only made among the tools that work.   *)
Guessable(entry, status) ==
    /\ Validates(entry, status)
    /\ status = "completed" \/ BlockReason(entry) = "REQUIRED_DATA_UNAVAILABLE"
       => entry.out.tool \in SUBSTANTIVE_TOOLS

TaggedFor(i, d) == {k \in DOMAIN d : d[k].tag = i}
Newest(S) == CHOOSE k \in S : \A j \in S : k >= j
The(S) == CHOOSE k \in S : TRUE

(* Mutant: the newest candidate is as good as the only one.                *)
ResolveNewest(i, status, d) ==
    LET tagged == {k \in TaggedFor(i, d) : Validates(d[k], status)}
        candidates == {k \in DOMAIN d : Guessable(d[k], status)}
    IN  IF tagged # {} THEN Newest(tagged)
        ELSE IF TaggedFor(i, d) = {} /\ candidates # {} THEN Newest(candidates)
        ELSE 0

(* resolve_evidence: the newest tagged call that validates; without any    *)
(* tagged call, the only candidate nobody tagged, or the only one at all.  *)
(* 0: the call is rejected.                                                *)
ResolveEvidence(i, status, d) ==
    LET tagged == {k \in TaggedFor(i, d) : Validates(d[k], status)}
        candidates == {k \in DOMAIN d : Guessable(d[k], status)}
        untagged == {k \in candidates : d[k].tag = Untagged}
    IN  IF tagged # {} THEN Newest(tagged)
        ELSE IF TaggedFor(i, d) # {} THEN 0
        ELSE IF Cardinality(untagged) = 1 THEN The(untagged)
        ELSE IF Cardinality(candidates) = 1 THEN The(candidates)
        ELSE 0

Closing(status) == status \in {"completed", "blocked"}

(* An intent that keeps its status keeps its evidence.                     *)
KeepsEvidence(i, status, led) == led[i].status = status /\ led[i].evidence # 0

Bound(i, status, led, d) ==
    IF ~Closing(status) THEN Pending
    ELSE IF KeepsEvidence(i, status, led) THEN led[i]
    ELSE LET k == ResolveEvidence(i, status, d) IN
         [status |-> status, evidence |-> k,
          reason |-> IF status = "blocked" THEN BlockReason(d[k]) ELSE "none"]

(* _bind_evidence_against_trail                                            *)
CanBind(i, status, led, d) ==
    Closing(status) /\ ~KeepsEvidence(i, status, led) => ResolveEvidence(i, status, d) # 0

(* _check_block_evidence_distinct *)
BlockEvidenceDistinct(led) ==
    \A i, j \in DOMAIN led :
        (i # j /\ led[i].status = "blocked" /\ led[j].status = "blocked")
        => led[i].evidence # led[j].evidence \/ led[i].evidence = 0

---------------------------------------------------------------------------
(* The calls of a loop                                                     *)

(* split_serves_intent: a tag the loop's ledger does not know is dropped.  *)
TagsOf(w, tool) ==
    IF tool \in INTENT_TAGGABLE_TOOLS THEN {Untagged} \cup local[w] ELSE {Untagged}

Call(w) ==
    /\ update[w] = Idle /\ Len(trail) < MaxToolCallsOfTurn
    /\ \E o \in Outcomes : \E t \in TagsOf(w, o.tool) :
         trail' = Append(trail, [out |-> o, tag |-> t])
    /\ UNCHANGED <<ledger, local, update, declared>>

(* find_locking_tool *)
Locked(d) == \E k \in DOMAIN d : d[k].out.tool \in SUBSTANTIVE_TOOLS

(* A call is rejected, and changes nothing, unless it lists 1 to           *)
(* MAX_INTENTS items of one kind: descriptions, or distinct ids with a     *)
(* status each.                                                            *)
Declarations == Intents
Changes == UNION {[S -> Statuses] : S \in (SUBSET Intents) \ {{}}}

(* The document is read: without a ledger the call declares the intents.   *)
BeginDeclare(w) ==
    /\ update[w] = Idle /\ ledger = <<>> /\ ~Locked(trail)
    /\ \E n \in Declarations :
         update' = [update EXCEPT ![w] =
            [kind |-> "declare", count |-> n, seen |-> Len(trail)]]
    /\ UNCHANGED <<trail, ledger, local, declared>>

(* With one, every item is bound, or the call is rejected.                 *)
BeginChange(w) ==
    /\ update[w] = Idle /\ ledger # <<>>
    /\ \E ask \in Changes :
         /\ DOMAIN ask \subseteq DOMAIN ledger
         /\ \A i \in DOMAIN ask : CanBind(i, ask[i], ledger, trail)
         /\ update' = [update EXCEPT ![w] =
                [kind |-> "change", items |-> [i \in DOMAIN ask |-> Bound(i, ask[i], ledger, trail)]]]
    /\ UNCHANGED <<trail, ledger, local, declared>>

(* The merge of a declaration is rejected when a ledger came to be.        *)
MergeDeclare(w) ==
    /\ update[w].kind = "declare"
    /\ IF ledger = <<>>
       THEN /\ ledger' = [i \in 1..update[w].count |-> Pending]
            /\ local' = [local EXCEPT ![w] = 1..update[w].count]
            /\ declared' = update[w].seen
       ELSE UNCHANGED <<ledger, local, declared>>
    /\ update' = [update EXCEPT ![w] = Idle]
    /\ UNCHANGED trail

Merged(led, items) == [i \in DOMAIN led |-> IF i \in DOMAIN items THEN items[i] ELSE led[i]]

Accepts(led, items) == BlockEvidenceDistinct(Merged(led, items))

(* The merge of a change works on the ledger of now.                       *)
MergeChange(w) ==
    /\ update[w].kind = "change"
    /\ IF Accepts(ledger, update[w].items)
       THEN /\ ledger' = Merged(ledger, update[w].items)
            /\ local' = [local EXCEPT ![w] = DOMAIN ledger]
       ELSE UNCHANGED <<ledger, local>>
    /\ update' = [update EXCEPT ![w] = Idle]
    /\ UNCHANGED <<trail, declared>>

(* A loop body starts with the ledger of the document.                     *)
Reload(w) ==
    /\ update[w] = Idle /\ local[w] # DOMAIN ledger
    /\ local' = [local EXCEPT ![w] = DOMAIN ledger]
    /\ UNCHANGED <<trail, ledger, update, declared>>

LedgerNext ==
    \E w \in Workers :
        \/ Call(w) \/ BeginDeclare(w) \/ BeginChange(w)
        \/ MergeDeclare(w) \/ MergeChange(w) \/ Reload(w)

LedgerSpec == LedgerInit /\ [][LedgerNext]_ledgerVars

---------------------------------------------------------------------------
(* Properties                                                              *)

(* A closed intent cites a call of the turn that supports what it says,    *)
(* whoever else called or closed meanwhile: an answer was fetched by the   *)
(* call itself and, from a blueprint, verified; a refusal was a refusal;   *)
(* an absence was a successful call without rows.                          *)
EvidenceHolds ==
    \A i \in DOMAIN ledger :
        LET x == ledger[i]
            o == trail[x.evidence].out
        IN  /\ Closing(x.status) => x.evidence \in DOMAIN trail
            /\ x.status = "completed" =>
                  /\ o.status = "ok" /\ o.code # "served"
                  /\ o.tool \notin {"resolveValues"}
                  /\ o.tool = "runBlueprint" => o.authoritative
            /\ x.status = "blocked" =>
                  \/ x.reason = "NO_ACCESS" /\ o.status = "failed" /\ o.code = "NO_ACCESS"
                  \/ /\ x.reason = "REQUIRED_DATA_UNAVAILABLE"
                     /\ o.status = "ok" /\ o.code # "served" /\ o.rows = "none"

(* One refused or empty call blocks one intent, also when two requests     *)
(* block at the same time (_check_block_evidence_distinct in the merge).   *)
OneBlockPerCall ==
    \A i, j \in DOMAIN ledger :
        (i # j /\ ledger[i].status = "blocked" /\ ledger[j].status = "blocked")
        => ledger[i].evidence # ledger[j].evidence

(* A guess is never made between two calls: when an intent is closed on a  *)
(* call that was not tagged for it, no other call nobody had tagged could  *)
(* have served it (resolve_evidence: "the runtime will not guess which").  *)
NoGuessBetweenTwo ==
    [][\A w \in Workers :
        (update[w] = Idle /\ update'[w].kind = "change") =>
            \A i \in DOMAIN update'[w].items :
                LET x == update'[w].items[i] IN
                (Closing(x.status) /\ x # ledger[i] /\ trail[x.evidence].tag # i) =>
                    ~\E k \in DOMAIN trail :
                        /\ k # x.evidence /\ trail[k].tag = Untagged
                        /\ trail[k].out.tool \in SUBSTANTIVE_TOOLS
                        /\ Validates(trail[k], x.status)]_ledgerVars

(* What one request closed, another request's update of other intents      *)
(* leaves as it is, and a declared ledger is never declared again.         *)
NoLostClosing ==
    [][ledger # <<>> =>
        /\ DOMAIN ledger' = DOMAIN ledger
        /\ \A i \in DOMAIN ledger :
              ledger'[i] # ledger[i] =>
                \E w \in Workers : /\ update[w].kind = "change" /\ update'[w] = Idle
                                   /\ i \in DOMAIN update[w].items]_ledgerVars

(* The intents are declared before the work starts: when they were         *)
(* declared, the trail that the declaring request had read held no         *)
(* substantive call.                                                       *)
DeclaredBeforeWork ==
    \A k \in 1..declared : trail[k].out.tool \notin SUBSTANTIVE_TOOLS

(* Whatever two requests of a turn call and close between each other's     *)
(* reads and writes, the ledger stands on evidence: of the right kind, not *)
(* used twice for a block, and of work done after the declaration.         *)
ClosingsSupported == LedgerTypeOK /\ EvidenceHolds /\ OneBlockPerCall /\ DeclaredBeforeWork

(* No step of an update guesses its evidence or undoes another's closing.  *)
UpdatesAreSafe == NoGuessBetweenTwo /\ NoLostClosing
=============================================================================
