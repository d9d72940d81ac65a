# Data-analysis agent: TLA+ verification project

TLA+ models of the stateful core of the data-analysis agent (`src/src/data_agent`, paths below are relative to
it), TLC configurations that check them, and TLAPS proofs. `PROJECT.json` lists the components, the runs, the
source lines behind every definition, the hazards and the theorems.

## 1. Inventory

The agent answers questions about a warehouse over HTTP and learns from finished conversations in the background.

| Component | State it keeps | Operations | Talks to |
|---|---|---|---|
| Session store (`runtime/session`) | one Couchbase document per session: messages, tool trail, analysis ledger, pause checkpoint, finalization claims, `learning_status` and hash; a CAS and a TTL | append, merge ledger, claim, pause, resume, idle scan, learning transition | everybody |
| Agent loop (`runtime/loop`) | per request: budget guard, window, round flags, local copy of the ledger, gates, read guard | run, resume, rounds, tool batches, finalization gates, forced blocks, pauses | session store, model, tools, judge |
| Context assembly, dispatcher (`runtime/context`, `dispatch`) | per request: what this turn has read, which definitions it was shown | assemble, trim, emulate discovery, serve or decline a call, cut a preview | agent loop, tools |
| Composite tools (`runtime/composite`) | the analysis ledger and the trail in the session document; an accumulator of answer tables | declare intents, close them on evidence, designate tables, roll badges up, rebuild | agent loop, session store |
| Blueprint execution (`runtime/blueprint`) | what a run has completed and where it paused (in the checkpoint) | execute, answer a slot or approval question, walk the DAG, verify the grain | agent loop, warehouse |
| Hydrator and corpus (`runtime/retrieval`, `corpus`) | the retrieval graph: nodes, indexes, catalog columns, stamps | fetch, clear, recreate, load, collect garbage; recall and open a blueprint | Neo4j, MCP export |
| Learning sweeper (`learning/sweeper.py`) | nothing durable; a scan in progress | scan, CAS `active -> pending`, enqueue, CAS `pending -> queued` | session store, queue |
| Learning queue (`learning/redis_queue.py`) | work stream, consumer group, dedup keys, dead-letter stream | enqueue, read, reclaim, ack, dead-letter | Redis |
| Learning consumer (`learning/consumer.py`) | a batch of deliveries in progress | reclaim, read, claim, extract, persist, finish, dead-letter | queue, session store, candidate store |
| Summary and triage (`learning/summary`, `triage`) | none: a projection of the session | read turns, SQL, clarifications, signals; keep or skip | session store |
| Extractor (`learning/extractor`) | one dialogue: budgets, kept and settled candidates | ask, serve searches, judge a batch, ask for corrections, finish | model, prior-art index |
| Generalizer (`learning/generalize`) | none: candidate to template, template to seed | rewrite, check, stamp, project | corpus loader |
| Coverage judge and dedup (`learning/judge`, `dedup`, `priorart`) | judgement records, corpus artifacts with hit counts | reuse, ask, decide, screen, hard, structural and soft layer, seed | graph, model, audit store |
| Candidate store, leakage gate, writer | candidate rows by `(content hash, ordinal)` | supersede, put, stamp drift, list by status, route | consumer, promotion, inbox |
| Promotion, landing, drift, replay (`learning/promotion`) | status and drift of candidate rows, landed graph nodes | cron cycle, land, demote, write-backs | candidate store, graph, warehouse |
| Review inbox (`learning/inbox`) | the same rows and nodes | approve, reject, complete, retract, verify, promote | candidate store, scheduler object |
| The rest | none, or request-local | text processing, single remote calls, HTTP plumbing, tracing | |

What is hard here:

* **Concurrency.** Nothing serialises the requests of a session (`runtime/app.py` takes no lock), several
  consumers run at once, and all of them meet in one document. The only protection is the CAS; the candidate rows do not
  even have that.
* **Redelivery.** A message that is idle for `min_idle_ms` is taken from its consumer whether that one is dead
  or slow. The same session then runs twice.
* **Crashes and exceptions** at any await of the daemons; a store command that raises may have been applied.
* **Expiry** of the session document, of dedup keys and stored results, and trimming of the stream.
* **Control flow across rounds.** A turn can be refused by five gates, paused and resumed into another window, and
  each step must leave a ledger, a set of claims and a draft in a state that the later exits rely on.
* **State rebuilt from a trail.** The read guard, the blueprint gate, the provenance of an answer, the answer tables
  and a resumed blueprint run are not stored: they are computed again from what a trail or a checkpoint kept.
* **Checks made once.** A corpus is validated when it is loaded and served for days; a candidate passes gates long
  before anybody lands it; a graph partition is stamped while its embedding model may be redeployed.

What makes the components correct:

* learning loop: one owner per session, no queued session without a message, recorded hashes that are true, legal
  lifecycle edges, a dead stream that agrees with the sessions, one extraction run per job, everything settles;
* session store: calls are atomic, a checkpoint is resumed once, nothing is discarded but by creation and TTL;
* agent loop: no intent is pending when a turn ends, bounded rounds, refused text is not shown, no forced block
  without a warning, every request is answered;
* a round: the current turn is in the request, nothing outside the scope is, the guards follow what was served;
* ledger and tables: a closing stands on the right call, no guess between two, a badge only on what was verified, a
  pause and a reload show the same tables;
* blueprint run: nothing runs twice or without consent, values survive the checkpoint, no filter is dropped;
* corpus: the stamp stands for the whole partition, what is served is in scope and can run, the corpus comes back after a failure;
* extraction, judge: budgets bound the dialogue, nothing kept is lost, no work is discarded without a record;
* candidates: nothing lands that no human approved or that has an entity in its text, nothing is validated that has not
  landed, a final decision is final, a demoted artifact leaves recall.

## 2. Modules

```
SessionLifecycle  LearningQueue     AtomicSession <=== SessionStore   AnswerTables     AgentTurn
          \         /                                    |         \     /            /    |
          LearningLoop ===> SessionOwnership      SessionStoreProofs \  /   MCAgentTurn  AgentTurnProofs
        /   |      |  \                                        MCSessionDocument
MCLearningLoop |  LearningLoopProofs
       |   (LoopStrand)
MCLoopScenes                         Blueprint
                                     /        \
 ToolRound  ResultPreview  BlueprintRun   BlueprintCompile    SessionSummary  CoverageJudge  CandidateReview
       \        |     AnalysisLedger |     /         \                 \          |         /   |
        \       |      /            /  CorpusGraph  Generalize  Extraction \      |        /  MCLiveness
              MCToolCalls                   \         |        /       MCLearnedCandidates   (and AgentTurn)
                                          MCBlueprintSupply

 BlueprintSupplyProofs extends MCBlueprintSupply, SessionLearningProofs SessionSummary and CoverageJudge,
 ToolCallsProofs ToolRound, ResultPreview and AnswerTables, SessionStoreProofs AnalysisLedger too;
 BlueprintRunProofs and CandidateReviewProofs extend their modules.
 Positions (a list comprehension) is used by ToolRound, ResultPreview, AnswerTables and BlueprintCompile.
 (===> : implements, by a refinement mapping)
```

A module `MCX` gives the constants of `X` values and, where TLC has to start somewhere, its inputs. The runs compose
components that share no state by a variable `part`: a behaviour is one of the parts and the others rest in one
initial state, so a run explores the sum of the state spaces and not the product.

### 2.1 The learning loop

`SessionLifecycle` is the session document as the loop sees it. A transcript is a version number and
`compute_content_hash` the identity on versions: the loop only ever compares hashes. CAS tokens are the set
`fresh[s]` of workers whose token is still the stored one; a read adds the reader, a write empties the set but for
the writer that is handed the new token. `AppendMessage` is a write that changes the transcript, `TouchSession` one
that does not. `GetSessionWithCas` creates an empty document on a miss, as the code does.

`LearningQueue` has one operator per Redis command. An entry is `new`, `pel`, `acked` or `trimmed`; `stale` are the
pending entries past `min_idle_ms`.

`LearningLoop` composes the two with the processes. A program counter stands between any two awaits:

| Action | Code |
|---|---|
| `SweepScan`, `SweepClaim`, `SweepLookup`, `SweepXAdd`, `SweepSetKey`, `SweepQueue` | `Sweeper.run_once`, `_enqueue`, `LearningQueue.enqueue` |
| `ConsumeReclaim`, `ConsumeNew`, `ConsumeLoad` | `Consumer.run_once`, `_dispatch`, the start of `_process` |
| `ConsumeClaim`, `ConsumeWork`, `ConsumeSupersede`, `ConsumePut`, `ConsumeStages`, `ConsumeReview`, `ConsumeFinish`, `ConsumeAck` | `_process`, `_do_work`, `_run_extractor`, `_run_stages` |
| `ConsumeDeadCas`, `ConsumeDeadAdd` | `_handle_dead_letter`, `finalize_dead_letter` |
| `SweepError`, `ConsumeError` | an exception that the per-session or per-delivery `try` isolates |
| `SweepCrash`, `ConsumeCrash` | a dead process, or an exception that ends the cycle |

`SessionOwnership` is the abstract specification: a session with a status, a transcript, a recorded hash and at most
one owner, without queue, tokens or program counters. The loop implements it with
`owner[s] = {c : c works on s under a current token}`.

### 2.2 The session store

`AtomicSession` says what a store call promises: it takes effect at one instant, or it has no effect and says so, or
its answer is lost. `SessionStore` has one step per key-value command of `_mutate_with_cas_retry`,
`_create_session`, `get_session_with_cas` and `resume_checkpoint`. Messages, trail entries, ledger merges and claims
are items named by their call, so the question whether an update is lost is a question about a set. A document
keeps the checkpoint (the call that wrote it) and whether it was consumed.

### 2.3 The turns

`AgentTurn` models `run`, `resume`, `_resume_blueprint` and `_run_loop_body`. The document is reduced to the turn of
its last message, the checkpoint, the ledger, the claims and what the trail shows of each turn. The locals of a request
are one record, `b[p]`, whose fields carry the names of the code's variables in their comments. A response of the model
is a choice (prose of some kind, or a batch with or without `askUser`), and so are the verdict of the judge and the
outcome of tools. The gates of the two exits are a sequence of complaints, raised in the code's order:

* `ProseComplaints`: pending intents, or else untabled rows; the answer rules; the empty answer; the judge;
* `TableComplaints`: pending intents; a blueprint that did not run (an error, no refusal); no table designated; the
  judge, whose refusal stands for the batch.

`RefuseFinish` ends the exit with a refusal if `may_refuse` grants it, `PassGate` drops the complaint (and
goes to `ForceBlock` for intents), `EndGates` lets the answer through. `Record` and `AtCap` are
`record_iteration` and the budget exits. A ledger, claim or forced-block write that raises is a choice in the
action itself; any other exception is `Abort`.

`ToolRound` is what happens inside one round of a turn: `Build` assembles the request (scope filter, interleaving of
trail and messages, emulated discovery, `fit_messages`), `Respond` is the model, and each call of its batch is declined
(`Decline`, `ReadGate`) or dispatched (`DispatchOk`, `DispatchDenied`). The guards and the provenance of the answer are
functions of the trail. A tool name stands for a signature and a message is a weight in tokens. What a comprehension of the
code keeps is written by positions (`Positions!Pick`). `ResultPreview` is the
ladder by which a schema is cut to its budget, one step per rung, and the prefix of cards.

`AnalysisLedger` has the ledger and the trail of one turn and the requests on it. An `updateAnalysisState` is two
steps, because evidence is bound to the trail as it was read (`BeginDeclare`, `BeginChange`) and merged later into
the ledger as it is then (`MergeDeclare`, `MergeChange`). `AnswerTables` follows the accumulator of designated tables
through runs, pauses, approvals and refused designations to the answer, and computes what a reload makes of the same
trail.

### 2.4 Blueprints

`Blueprint` has the pure functions that loader and executor share: slot resolution, binding of optional patterns, rules,
`when` clauses, order and validity of a DAG, the grain. `BlueprintRun` is the executor: `Execute` and `Answer` enter a
run, `Slot` and `ExpandRules` resolve what is given, `Gate`, `Query`, `PassOver` walk the nodes, `Finalize` verifies; a
pause leaves nothing but the checkpoint, and between a pause and its answer the scope may narrow (`Narrow`) or the
corpus be re-seeded (`Reseed`).

`BlueprintCompile` inlines references in dependency order and validates the result. `CorpusGraph` is the hydrator, the
only writer of the graph, with one action per call or transaction, and the two queries by which a pod reads it.
`Publish` and `Deploy` change the exports and the embedding model or its dimension under it; `CycleFails` ends a cycle anywhere.

### 2.5 Learning from a session

`SessionSummary` is how turns, pauses and dying requests write messages and trail, and what the summary and triage
read from them. `Extraction` is the dialogue with the model, its three budgets and the gates of a candidate; a raw
candidate says which gate it was written to fail, and the gates on predicates and catalog rules are computed.
`Generalize` rewrites the accepted SQL into templates and projects the seed that `BlueprintCompile` then accepts or
refuses. `CoverageJudge` is what can discard the work: the judge before and after the extraction and the three layers
of dedup, with a worker that may stop between any two calls and is delivered again.

`CandidateReview` starts where `LearningLoop` puts a row at `extracted`. Three stores are shared by three kinds of
processes without a lock: rows (`learning_candidates`), nodes (the landed graph) and artifacts (`learning_corpus`).
Rows are written by whole-document upserts without compare-and-swap. A job is what a process has read (`env`) and the
list of awaits it has still to do (`steps`), so a handler is one list:

| Job | Awaits | Code |
|---|---|---|
| consumer run | `supersede put pipeline`, then `bump` or `seed` and `put` | `_run_extractor`, `_run_stages`, `DedupStage.process` |
| form for a reviewer | `supersede put` | `_persist_declined_for_review` |
| cron, a candidate | `node deps replay stamp count node put` | `_advance_candidate` |
| cron, a validated row | `replay`, then `node`, or `put node`, or `node put` | `_recheck_validated` |
| approve | `reget deps replay land put` | `ReviewInbox.approve`, `apply_human_decision`, `_land_and_promote` |
| reject, retract | `node art put` | `apply_human_decision`, `apply_retract` |
| verify; promote; correction | `mark put`; `put`; `node put` | `apply_verify`, `apply_promote`, `apply_user_correction` |
| complete | `pipeline guard put`, or `guard put` | `ParameterizationCompleter` |

A guard that holds ends the list early. `ScanCandidates` and `ScanValidated` take the cycle's snapshots, and `Advance` and
`Recheck` work on them however old they are. A payload is reduced to the run it came from and whether it has an entity;
what a scan, a replay or a near-match finds is a choice. `serial`, chosen in the initial state, says whether the cron
and the requests take turns, which is what a docstring of `_land_and_promote` assumes; the deployment does not do it.
A landing, put, stamp or count that raises is a choice in the action; every other exception, and a dead process, is
`Crash`.

## 3. Runs

| Run | Instance | Shows |
|---|---|---|
| `loop_safety` | 1 session, 2 writes, 2 messages; scene one: 1 sweeper, 2 consumers, poison limit 2, writes and faults together at most 2; scene two: 2 sweepers, 1 consumer, a stream of length 1, document expiry, dedup-key expiry, 1 write | `QueuedHasMessage`, `DeadStreamAgrees`, `DoneHashTrue`, `LifecycleEdges`, and the refinement |
| `loop_live` | 1 sweeper, 1 consumer, extraction of up to 2 candidates, kill switch off and on, 1 fault | `EventuallySettled`, `OneRunPerJob`, `InFlightCanFinish` |
| `turn_gates` | 2 requests one after the other, 2 turns, 2 windows of 2 iterations, every kind of complaint, a judge, 1 dying request | `BudgetsHold`, `RefusedNeverShown`, `NoPendingAtTerminal`, `BlockedOnlyAfterNudge` |
| `tool_calls` | rounds: 2 turns, 2 windows, 3 tools, 2 columns, scopes that change, 7 entries of the trail; blueprints: 1 run, 3 answers, 1 re-seed or narrowed scope; previews: schemas of three columns under 8 budgets; ledger: 2 requests, 2 intents, 2 calls | `RoundsFaithful`; `ResumeKeepsWork`, `ConsentCounts`, `BindsFaithfully`; `PreviewHonest`; `ClosingsSupported`, `UpdatesAreSafe` |
| `session_document` | store: 2 requests, 3 calls of any kind, 2 attempts, 1 expiry, 1 command that raises; tables: 2 turns, 3 entries of the trail, 2 queries (one of them hidden from a narrow scope), 1 blueprint with 2 bindings, designations of up to 3 items | `ImplementsAtomic`, `ResumedOnce`, `OnlyCreationDiscards`; `AnswersHonest` |
| `blueprint_supply` | extraction: 2 searches, 1 retry, 2 corrections; corpus: 1 publication, 1 deployment with another model, dimension or both, 1 failure; every plan of `MCGeneralize` | `DialogueSound`, `KeptFiltersTheSame`, `ExtractionEnds`; `ReadyMeansComplete`, `CorpusSurvives`; `SupplySound` |
| `learned_candidates` | summary: 2 turns, 5 writes; judge: 2 sessions, 2 ideas, deliveries and changes of prior art or configuration together at most 3; review: 1 candidate of each kind, cron, 1 reviewer; runs, requests and faults together at most 4 | `SummarySound`, `AcceptanceStands`; `DropJustified`, `RowMatchesArtifact`, `ArtifactIsNeverReset`; `EntityFree`, `OnlyHumanLands`, `ValidatedIsLanded`, `TerminalStays` |
| `liveness` | review: cron, 1 reviewer with 2 requests, 1 fault, threshold 2; turn: 2 requests on one turn, 2 windows of 1 iteration, a store call that raises or a request that dies | `DemotionConverges`; `EventuallyAnswered` |
| `loop_strand`, `review_retract`, `judge_hits`, `answers_teach` | | section 6 |

**Bounds that are not a constant.** `OnScene` (a `CONSTRAINT` of `loop_safety`) keeps to the two scenes named above: the
races of two consumers and those of two sweepers need different faults, and each scene has its own. `WithinSums`
(`learned_candidates`) and the sum in `MCLiveness!Turning` bound faults together instead of one by one.
`FirstCallPlain` (`tool_calls`) lets the first call of a ledger's turn be a query with rows, a denied one or a verified
blueprint; every call may follow it.

**Why the bounds are enough for the questions asked.** A race over a session needs two processes that
hold a token and a writer that invalidates it: two consumers, or two sweepers, or two requests, and the
user. Two writes let the user write once before a load and once after. Two messages let a session be queued twice (a
resumed session), a poison limit of two puts a redelivery both below and above the limit, and one fault hits
every await in turn. In the store, three calls are a pause and two resumes, or two claims of a key and an append; two
attempts let a retry succeed and the budget run out. In a turn, two windows are a window that
pauses and the last one that stops; two iterations let a refusal be followed by another response in
the window; two turns let a claim of one turn meet the other. A request is trimmed as soon as two turns or two large
results meet in it. A blueprint run with three answers has a slot question, an approval, and a question that comes
again. Two calls and two intents are the least with which a closing can be ambiguous and a block can be double. The
exports of `MCCorpusGraph` have a diamond of references, a cycle, one that is too deep and one that does not validate;
a publication, a failure and a new model or dimension may meet at every step of a cycle. Of candidates, one is enough for every race over
a row, since a job touches one row, its node and its artifact; two requests are an approve and what may follow it (a
correction, a retract, a second approve); the second run meets the artifact and the node the first one left. Two
sessions with one idea meet in the hard key, two ideas in the similarity bands. What section 5 proves does not depend on
any bound.

**Deadlock** is checked in `loop_live`, `loop_strand` and `review_retract`: daemons never stop. It is switched off where
bounded inputs are used up, where a part of a composed run has come to its end, and in `loop_safety`, whose second scene may
spend its writes.

**Fairness.** `LearningLoop!FairSpec`: `run_forever` of both daemons catches what a cycle raises and sleeps, so a
step of a sweeper or consumer that stays enabled is taken; sessions go idle and messages age because time passes;
an operator who turns the kill switch off turns it on again. Nothing is assumed of users, faults or expiries.
`MCLiveness`: a request that can move moves, that is, model, tools and store answer or raise (each client has
a time-out); the scheduler's `run_forever` starts a cycle after each interval, and a job that can go on goes
on. Nothing makes a user resume, no request, correction or delivery is assumed, and the budget clock is never assumed to
run out. `MCBlueprintSupply`: the extraction is driven by its process, whose calls answer or raise, and the hydrator's
`run_forever` goes on after whatever a cycle raised; nothing makes anybody publish, deploy or fail.

## 4. Properties and what they are about

Every property is stated with the code it comes from in its module. What a reader may want to know first:

*Loop.* `SingleOwner` (in `IInv`): of all consumers that run a session after reclaims, one at most can complete it, and
what it loaded is what is stored. `QueuedHasMessage`: no crash between `XADD`, `SET` and the CAS strands a queued
session. `OneRunPerJob` and `InFlightCanFinish` hold with one consumer process and fail with two (section 6).

*Store.* `ImplementsAtomic` is the refinement of `AtomicSession`. `ResumedOnce`: a checkpoint is consumed once.
`OnlyCreationDiscards`: while a document lives, its items stay.

*Turn.* `BudgetsHold` is the inductive invariant with `RoundsBounded`: an entry of the loop body makes at most
`max_loop_iterations + 1` model calls. The extra one is the round of a refused `askUser`, which `continue`s past
`record_iteration`. `NoPendingAtTerminal`: an intent is never pending when a turn ends in an answer, at the hard ceiling
or by "stop". It is promised to a request that was alone on its turn and whose ledger writes did not raise; the local copy
of the ledger is what the gates look at, and with a second request on the turn it may be old.

*Calls.* `RoundsFaithful` joins six properties: `GateFollowsTheTrail`, `ReadsBounded` and `EmulatedNeverFetched` of what is
served or declined, `CurrentTurnKept`, `OlderGoesFirst` and `HiddenStaysHidden` of what is in the request.
`ResumeKeepsWork`, `ConsentCounts` and `BindsFaithfully` join those of a blueprint run: a node runs once
(`ExactlyOnce`), the footprint and the scalars survive a pause; a query behind a gate ran only after a yes to that node
(`ConsentGiven`), and a yes is not asked again (`YesAdvances`); no filter is dropped and nothing is guessed. A re-seed under
the same id excuses the first two, which is said in each (`edited`).
`ClosingsSupported` is about what the ledger holds, `UpdatesAreSafe` about what a step may do to it.

*Tables.* `AnswersHonest`: no view of an answer (live, rebuilt after a pause, reloaded) has a badge that no run had, and
the three views have the same tables whenever the trail can be replayed. `Replayable` says when it cannot: a run whose
result can no longer be read, a table that was left out for its scope, a blueprint that ran again after it was designated.

*Supply.* `DialogueSound` and `KeptFiltersTheSame` are about the extraction; `GeneralizedSound` (in `SupplySound`) says that a
template with the session's values back is the query the user accepted, and that the loader refuses a landing for
five reasons only (`LandingRefusesOnly` lists them). `ServedSound` (in `SupplySound`) joins `ServedInScope`, `ServedIsRunnable` and `OrderSound` (the iterative
depth-first search against a definition of cycles). `ReadyMeansComplete`: the stamp stands for the whole partition.
`CorpusSurvives`: the staging tier is never destroyed (`LearningTierKept`), and the published corpus comes back by itself
(`Recovers`), with one exception that the property names: `Stranded`, new indexes over nodes of another dimension under the
deployed model id. `StrandedByInterruption` says that only a deployment followed by an interrupted cycle leads there;
section 6 has the story.

*Candidates.* `DropJustified`, `RowMatchesArtifact` and `ArtifactIsNeverReset` are about what the judge and the dedup may
discard. `EntityFree`, `OnlyHumanLands` and `ValidatedIsLanded` speak of every envelope anybody holds, stored, in
a job or in a snapshot, because any of them may be put later. They hold whether or not the writers take turns.
`EntityFree` takes the scanner's word for what a pass and a span mean: a payload that passed has no entity, and a
payload without the spans found has none. `TerminalStays` holds when the writers take turns, and only then.
`DemotionConverges` holds in either case: the write-back of a demotion fails open, and the next cycle repeats it.

## 5. Proofs

Everything here holds for every value of the constants that satisfies the modules' assumptions (which say no more than
that bounds are natural numbers, that limits the code divides work by are positive, that inputs have the shape the code
reads, and that sweepers and consumers differ). One theorem pair assumes more, and says so: `SoleConsumer`. Some assumptions
are more than bounds. `CatalogAssumption`: no rule of a definition binds the token of one of its slots, which
the loader refuses (`slot_rule_overlap`, `runtime/blueprint/compiler.py:1376`). `RunAssumption`: a ranking of `resolveValues` is in
descending order, as `_select_subset` documents and relies on. `ExportsAreLists` (`CorpusGraph`): an export is a list of seeds and the
orders of a blueprint that parses are finitely many integers. `QueriesAreParsed` (`Generalize`): an accepted query is a list of
comparisons, and what a comparison compares with before S4 are literals, on a column that it references (`_predicate_of`).
`PlansAreExtracted`: a plan of good shape is what `_validate_roles` let through, with slots of a type that S4 writes, whose value
or pattern is there when the type or its being optional calls for it. `CatalogIsWellFormed`: the catalog has no key that is not
`db.table.column`. Positions and node orders are natural numbers; that a set of
them has a first one, which the code takes with `min` or a loop, is the lemma `FirstNumber`, from the well-foundedness of `<`.

`LearningLoopProofs`
* `TypeCorrect`. One lemma per store operation and Redis command, one per process step.
* `IInvHolds`. `SingleOwner` and `QueuedHasMessage` are not inductive. Ownership needs `TokensTellTruth`: a token that is
  current stands for a document that is as its holder last saw it; and what a process decided from it
  (`DecisionsStand`) fits the status. That a queued session has a message needs three more facts: transcripts do not recur
  (`VersionsGrow`), a dedup key or a sweeper past its `XADD` stands for a message (`KeysHaveMessages`), and the messages
  that carry the current transcript of a session that is *not yet* queued are all still pending
  (`UnqueuedMessagesPending`), because a consumer refuses such a delivery without acknowledging it.
  `QueuedIsNeverStranded`, `OneOwner`, `RecordedHashIsTrue` follow.
* `OnlyExpiryForgets`: an entry of the dead stream whose session is not flagged is one whose document expired; with it
  `DeadLettersAreFlagged`. `StatusFollowsTheEdges`: `learning_status` moves along the declared edges, whatever snapshot the
  writer holds, because a current token makes the snapshot true (`IInv`).
* `OneConsumerKeepsRunsApart`, `OneConsumerStrandsNothing` (`OneRunPerJob`, `InFlightCanFinish`), under `SoleConsumer`.
  `SoleConsumerInv` adds that the one consumer holds a delivery at most once (`HeldOnce`), that the rows of a job at work
  are its own (`OwnRows`), and that a session in flight has a message it has not acknowledged (`RunningHasMessage`). Without
  the assumption both are false (section 6, finding 1 and the first observation).
* `LoopRefinesOwnership`: `Spec => ImplementsOwnership`. The owners are read off program counters and tokens, so each
  lemma says what one process's steps do to `OwnerMap`: a write of the document empties it, a claim leaves the claimer,
  the end of a delivery drops its consumer, every other step leaves it, and then the step is a step of `SessionOwnership`
  or a stutter.

`SessionStoreProofs`
* `StoreInvariant`. The core is `CopyCurrent`: a request whose token equals the stored CAS holds a copy equal to the stored
  document, so a successful replace writes the effect of the call on the *current* document. `CallsOwned` keeps the
  calls of requests apart; `ResumeReady` and `CheckpointsSpent` say that a resume about to write has seen an open
  checkpoint and that a resumed one is no longer open.
* `CheckpointResumedOnce`, `OnlyCreationLoses`, and `StoreIsAtomic`: every step of the store is a step of
  `AtomicSession` or a stutter.

* `LedgerInvariant`. What a request has read and not yet merged must still be true when it merges: `Requested` says that the
  evidence it bound supports the closing in the trail of *now* (a trail only grows) and that the intents it names are still
  in the ledger (a ledger never loses one). With `Trailed` and `Ledgered` this is inductive.
* `ClosingsStandOnEvidence` (`ClosingsSupported`), `UpdatesNeitherGuessNorLose` (`UpdatesAreSafe`). Their lemmas say what
  `ResolveEvidence` returns: a call that supports the status, and an untagged one only if it is the only one.

`AgentTurnProofs`
* `InvariantHolds`: `Spec => []IInv`. `IInv` is stated request by request (`PInv`, equal by `InvariantForms`): how many rounds
  are counted at each program counter (`Counted`), that a budget pause leaves a window to open (`Windowed`), that the local
  ledger of a request alone on its turn is the stored one (`Copied`) and has nothing pending past the gate (`Settled`), and
  that every claim was preceded by a nudge (`SpentOnNudges`). A step of one request touches its own record
  (`Frame`, `LocalStep`), the document (`DocumentStep`) or enters the loop (`EnterStep`); each action has one lemma.
* `BudgetsAreBounds` (`BudgetsHold`), `RefusedProseIsGone` (`RefusedNeverShown`), `NothingPendingAtTheEnd`
  (`NoPendingAtTerminal`), `ToldBeforeBlocked` (`BlockedOnlyAfterNudge`).

`BlueprintRunProofs`
* `BlueprintInvariant`. The executor keeps nothing between two calls, so the invariant speaks of the records that travel, in the
  locals of a run or in its checkpoint: every dispatched node has one (`Dispatched`), the record of a query that answered has
  its SQL and provenance (`Kept`), and a value that can be bound is the single cell its query returned (`Genuine`). A
  run stands at a query only if that node was never dispatched and its gate, if it has one, was affirmed (`AtQuery`);
  for that the graph has to be acyclic, which the executor checks (`IsDag`), so that the walk never stops at no node
  (`CurrentNode`).
* `PausesLoseNothing` (`ResumeKeepsWork`), `ConsentIsPerGate` (`ConsentCounts`).
* `BindingsInvariant`. Slots are resolved in order (`Pending`), and tokens of different slots differ (`TokensApart`), so a value
  or a pattern is never overwritten (`Disjoint`); what was bound was not guessed (`SlotsBound`, `RulesBound`). The lemmas are
  about the operators: a domain match that binds is unique (`MatchIsUnique`), a resolved slot meets its type's
  promise (`SlotNotGuessed`), the codes of a rule are a confident prefix (`SubsetConfident`), and a template that binds
  keeps every token that has a value (`BoundTokensStay`), because a pattern replaces only a predicate with one token.
* `QueriesAreFaithful` (`BindsFaithfully`).

`ToolCallsProofs`
* `RoundInvariant`. A window's memory is made of what the trail says: the gate's flag of a window is whether the definition was
  got in an earlier round of the turn, and its flag of a round whether it was got in this one (`GateKnows`, over `GotBefore` and
  `GotIn`); what a body has served of a read is at most what was granted, and one (`GuardCounts`). The four steps of a batch share
  one lemma (`EntryStep`), the two that open a window another (`OpenStep`). `GateIsTheTrails` (`GateFollowsTheTrail`) and
  `ReadsStayBounded` (`ReadsBounded`) follow; they are two of the conjuncts of `RoundsFaithful`.
* `HistoryInvariant`. The document is a history: its turns follow one another (`Ordered`), each is opened by the user
  (`Opened`), and an answer ends its turn and carries the provenance of its results (`Closed`). A request at the model is the
  one that document, scope and turn call for (`RequestedNow`); from it the other conjuncts are read off the definitions, in
  three groups of lemmas. What a comprehension keeps is known by `Positions`: an item of the result is one of the items kept,
  in their order. `Laid`: the request is the kept messages and pairs in the order of the document, with the emulated
  discovery spliced in front. `Trimmed`: `fit_messages` drops a set of units that is closed under its order of dropping, and
  no more of them than make the rest fit (`Minimal`); units have distinct ids, so that tokens are the size of a set.
* `RequestsAreFaithful` (`RoundsFaithful`), with `CurrentTurnKept`, `OlderGoesFirst` and `HiddenStaysHidden`.
* `PreviewInvariant`. While a schema is upgraded, every column without documentation is still to be tried or has no room
  beside what is shown (`Upgrading`), and room only shrinks; while it is admitted, keys stand before the rest in what is to be
  tried (`Admitting`). `PreviewIsHonest` (`PreviewHonest`) follows, and for cards from what a prefix that fits is.
* `AnswersInvariant`. The trail is ordered by turns, and a designation that was accepted names what ran before it in its turn
  (`Founded`). What the loop holds is what a replay of its turn gives (`LiveOf`); a finished turn that can be replayed gives
  what its answer showed, whatever is appended after it (`Said`); and one replay over all turns gives for a turn what its own
  replay gives, because a designation finds the runs of its turn last. A badge that a table has is held by a run.
* `AnswersAreHonest` (`AnswersHonest`).

`BlueprintSupplyProofs`
* `ExtractionInvariant`. What was sent and what may still be asked is bounded while the dialogue runs (`Spent`), a pending decline
  is the verdict on the candidate at its index in the last batch that was read (`PendingOf`), and nothing is kept before the
  first correction unless the dialogue ends with it (`FirstRound`). `ExtractionIsSound` (`DialogueSound`) follows.
* `FiltersAreKept` (`KeptFiltersTheSame`). A kept candidate passed every gate (`GatesOf`, from `AllGatesPass`: if the first gate that
  fails does not exist, none fails), so every predicate is covered (`TotalityHolds`), the rules it cites exist
  (`CitedRulesAreKnown`), and one of their declarations is unreadable or the same filter.
* `CorpusInvariant`. `Whole`: every node of the mcp partition carries the stamp, and what is under a stamp is exactly the compiled
  export of that name, which the loader accepted. `Fetched`: what a cycle past each of its steps has in hand, and that
  it writes only an export that was accepted and is not there yet. The catalog may trim the edges of a node at any time,
  so `Content` leaves edges, model and stamp out.
* `ReadyIsComplete` (`ReadyMeansComplete`), `ServedStaysInScope` (`ServedInScope`), `ServedCanRun` (`ServedIsRunnable`) and
  `StagingIsKept` (`LearningTierKept`). Service does not validate: the theorems rest on `ValidDag` of the export that
  the stamp names.
* `OrderIsSound` (`OrderSound`), for any graph of references. The invariant of the search (`SearchInv`): grey is what is open
  on the stack, once (`GreyIsOpen`); black is what is ordered, after its targets (`BlackIsOrdered`); a target of an open
  blueprint is done or above it on the stack, and what is above it up to the next open one is its target (`OpenTargets`), which
  is why a grey target closes a cycle; nobody is forgotten. The search ends within its fuel because the stack and what white
  blueprints may still push get fewer with each step (`Left`). `ServedIsSound` joins it with the other two.
* `SupplyInvariant`. Of a candidate little is to be remembered: its stamp is what S4 makes of its plan, and a landing is refused
  only if the loader says no (`GeneralizeInv`). The work is in the lemmas about S4. An edit leaves a query as it is but for
  literals of located comparisons, which become the holes of slots with that value (`QueryEdited`), and a hole stays
  (`HolesStay`), so filling the holes gives the query back; the query that stands for a reference is the last one behind it
  and has the predicates of all (`Stands`). For a landing, an ok template compiles: it has no references, and each check of
  `ValidDag` is one that S4 made, one that the extractor made, or one of the five that nobody made (`Unchecked`).
* `SupplyIsSound` (`SupplySound`).

`SessionLearningProofs`
* `SummaryIsSound` (`SummarySound`). The typing of messages and trail is inductive with one more fact, that a request at work has a
  turn (`SummaryInv`); the rest is about the readers: an answer is cited under the first call that showed it
  (`CitedUnderTheFirst`), and an accepted session has prose of its own (`AcceptedHasProse`).
* `AcceptanceIsKept` (`AcceptanceStands`). A step appends at most one message and one entry (`StepsAppend`); so the first prose of a
  turn stays the first (`TextStays`), the answered turns grow (`AnswersStay`), the last of them moves forward only
  (`LastExists`), and a correction after it that was not there before is the message just written (`CorrectionAlone`).
* `JudgeInvariant`, stated of one session (`Fits`), as a relation between where its worker stands and what the shared stores
  hold: where a worker stands agrees with what it has read (`Placed`), it meets no artifact of its own between the hard key and the
  seed (`Owned`), a discarded delivery has a record (`Ended`), a new row has an artifact (`Rowed`).
* `DropsAreJustified` (`DropJustified`), `ArtifactsMatchRows` (`RowMatchesArtifact`), `ArtifactsLast`
  (`ArtifactIsNeverReset`).

`CandidateReviewProofs`
* `ReviewInvariant`. The stores have no compare-and-swap, so any envelope anybody holds (a stored row, the one in a job,
  a snapshot of the cycle) may be put later. The three promises are therefore stated of every envelope held, and so is
  what makes them inductive: a verdict that lets an envelope pass is true of its text and the gate never settles a
  schema edit (`Screened`); only an approve lands, past its guards it holds a stripped envelope of an approved run, and
  what enters the pipeline is still `extracted` (`JobFits`). Approvals and landed nodes only grow, so a step has to be
  examined at the one envelope, job or node it writes (lemma `Frame`).
* `EntityFreeAlways`, `OnlyHumanLandsAlways`, `ValidatedIsLandedAlways` follow.
* `FinalWordStands` (`TerminalStays`). `TerminalStays` speaks of the behaviours whose writers take turns; the second invariant
  `Turns` says for those that one writer is at work at most, that the row it read is not ended unless a later run replaced
  it, and that nobody else has seen the run that the consumer is writing.

**Only model-checked.** Liveness (`EventuallySettled`, `EventuallyAnswered`, `DemotionConverges`, `ExtractionEnds`, and of
`CorpusSurvives` the part `Recovers`), which the prover does not reach; and `StrandedByInterruption`, also a part of
`CorpusSurvives`. Every other property of a passing run is stated by a theorem.

**What the proofs found.** Four statements that TLC had passed were false outside the instances they were checked on, and were
repaired. `OlderGoesFirst` looked up the turn of an answer by its place in the request instead of its place in the document.
`Replayable` missed a table that is left out for its scope when the designation has the old shape. The bound on the steps of the
depth-first search counted blueprints and not how often they reference each other. `LandingRefusesOnly` missed a cause: a
blueprint has 16 slots at most (`_MAX_SLOTS`, `runtime/blueprint/models.py:224`), which S4 does not look at.

## 6. Where code and documentation disagree

Four are runs that TLC must find violated; `PROJECT.json` quotes the lines.

1. `loop_strand`: a consumer that is delayed between its `done` CAS and its `XACK` acknowledges a message under which
   another consumer has re-entered the session. If that one fails, the session stays `processing` for good.
2. `review_retract`: the cron's recheck puts a snapshot of the start of its cycle; a row that a reviewer promoted or
   retired meanwhile is validated again, and after a retract so is its node.
3. `judge_hits`: a redelivered session meets the artifact its own first run seeded (`dedup/stage.py:261`): the hit counts
   as a second sighting, and the row is left at `extracted`, which no scan reads.
4. `answers_teach`: a clarification that the user answered never reaches the summary, because an `askUser` leaves no
   trail entry, so triage K3 keeps no session.

Others that the models show and that have no run of their own:

* Two consumers of one job leave candidate rows of two extraction runs, although `supersede` is there to prevent it
  (`OneRunPerJob` fails with two consumers).
* A message that outlives its session re-creates it empty and moves it `active -> dead_letter`, an edge that
  `VALID_TRANSITIONS` does not have (`learning/models.py:31`); `LifecycleEdges` names this exception.
* `_create_session` upserts without CAS (`couchbase_store.py:171`): two first requests of a session can lose a write that
  was reported done.
* A forced block is not the last word of a turn: evidence binding relies on all force paths being terminal
  (`analysis_state.py:1073`), and the cap that follows a refused round forces and then pauses for another window
  (`agent_loop.py:4210`).
* "A fresh process resumes identically" (`executor.py:305`) and "the drift can never flip a gate" (`compiler.py:1649`) do
  not hold of a node without scalar output: only scalars survive the checkpoint, so after a resume such a node counts as
  empty (`LoadCompleted`), and a clause with `count` or `empty` of it may answer differently.
* A dimension change drops the indexes outside the transaction that clears nodes and stamps (`corpus_loader.py:939`). After
  a failure between the two, a cycle finds no index to compare dimensions with (`hydrator.py:119`). If the model id is still
  the same it sees no change at all, makes new indexes (`apply_schema`) and skips the load by sha: recall stays empty while
  `/ready` reads 200, until the export changes or a deployment has another model or dimension. That is what the docstring
  above it wants to exclude (928-933: "recall would be permanently empty while /ready still read 200").
  `blueprint_supply` reaches this state: with `<>[]PublishedIsServed` in place of `Recovers` TLC gives the trace load,
  `Deploy` (dimension only), two `DROP INDEX`, `CycleFails`, `ApplySchema`, and cycles that end in `LoadCorpus` from
  then on. `CorpusSurvives` excepts this state and no other.
* For an IN list the totality hint offers rules member by member, and the same gate then declines the rule it offered, because
  one value is another filter than a list (`validation.py:208`). S4 looks for one literal and cannot locate a list
  (`rewrite.py:73`); of a literal that occurs twice it replaces the first.
* A composite node needs no `source_tool_call_ref`, and a required slot that no node uses and a plan with more than 16 slots
  pass S4, so the loader refuses at landing (`LandingRefusesOnly`).
* `summary/loader.py` reads `blueprint_id`, but the argument of `runBlueprint` is `id`: usages have no id.
* Three error codes of `runBlueprint` are not in the denial table (`denial_mapping.py:56`), so a crash that the model got around
  counts as a correction.
* The blueprint gate opens on a definition "the model has ALREADY SEEN" (`blueprint_gate.py:97`), also when it was
  trimmed from the request since, or when the getBlueprint was declined as a repeat.
* When a blueprint runs again after it was designated, live answer and reload pair the designation with different
  runs (`session_history.py:139`); tables that are rebuilt are not checked against the scope again.
* A transport failure of the turn that asks for corrections discards what was kept. The coverage of a predicate ignores its
  operator. An approval node with a clause that asks, asks again after the approval. A catalog seed that failed is not
  retried before the next cycle.
* The write-back of a reject or retract fails open, and no scan reads a rejected or retired row: nothing
  repeats it. `DemotionConverges` is therefore about candidates only.
* A landing whose put fails leaves an `in_review` row with a validated node until a reviewer acts; no cycle re-lands it,
  as `_land_and_promote` says one would.
* The gate skips schema edits, so their scan is never settled and `_entity_scan_is_actionable` refuses every approve:
  in the model a schema edit is never validated.
* A blueprint approved over a finding has its spans blanked; once demoted it is neither clean for the cron nor
  actionable for a reviewer. A demoted knowledge chunk stays a candidate for good.

## 7. Abstractions

* A CAS loop of the request path is one step in `LearningLoop` and `AgentTurn`; `StoreIsAtomic` is what justifies it.
  Creation on a miss is atomic in these two modules (the exception is the race named in section 6).
* `XAUTOCLAIM` and the `XPENDING` reads after it are one step, and the default page of 100 entries is not exceeded.
  Delivery counts saturate one above the limit. `supersede` is one step.
* A transcript never recurs. Editing a session back to an earlier transcript would make two jobs equal; messages are
  append-only, so it cannot happen while a document lives.
* In `SessionStore` a write that times out lands at once or never, and the TTL does not run out between the upsert that arms
  it and the next read of the same resume.
* In `AgentTurn` there is no TTL; the read and the merge of `updateAnalysisState` are one step (`AnalysisLedger` has them as
  two); the wall clock and token arms of the budget are one flag that may be raised at any place where it is read; a table
  that is designated may or may not resolve.
* In `ToolRound` one argument per tool, and weights instead of texts; a unit of a request has an id, the place in the document
  it was made from. In `ResultPreview` sizes and scores instead of words. Tokens are counted one by one, as the size of a
  set; a ranking is any order of the columns by score, of which there is one.
* A SQL text is what the code asks of it: in `Blueprint` its form, the columns and tables it reads, the columns it returns
  and which bind tokens stand in which predicates; in `Extraction` its literal predicates; in `Generalize` the sequence of its
  comparisons. Parsing itself is left out, except that a text may be unreadable.
* What an extraction keeps, settles and reports are sets: their order and their repetitions are left out.
* `SelectSubset` takes the positions that reach the floor as a prefix of the ranking; the code filters, which is the same
  because the ranking descends.
* A scalar of a blueprint run is null, low or high, a result has up to two rows, a provenance is known or not. The data
  window stamp of an outcome and date arithmetic are left out.
* An export is its name, which stands for its sha. An embedding is the model and dimension it was made with; vector search is
  eligibility, so every eligible node may be recalled.
* In `CoverageJudge` a similarity is one of the ranks that the thresholds cut.
* In `CandidateReview` a job's reads before its first write are one step where nothing but that row is read; the other
  processes may move before every write. `depends_on` may hold or not at each check. Hit counts saturate at the threshold.
  `supersede` deletes the one row of the candidate's session. Not modelled: the scan cursor (`touch_scanned`) and
  `scan_limit`, soft recurrence (its weight is 0), the per-user fact a reroute commits, a wiring without landing writer.

Not modelled: see the components with status `partly` or `not_modelled` in `PROJECT.json`. Configuration, HTTP routes,
authentication, transports, tracing, prompts, ranking, redaction and the SQL parser have no state to interleave; their
outcomes are choices of the modules above.

## 8. Plan

Modelling is done for the components of section 2, and the safety properties of the passing runs are proved. What could
come next:

* the fairness arguments of section 3 as proofs, once a prover for `ENABLED` and well-founded progress is at hand;
* refinements of an abstract specification for the parts that have none: the corpus as one atomic publication
  (`CorpusGraph`), a request as a function of the document (`ToolRound`);
* the components listed `partly`, whose notes name what is left out.
