---------------------------- MODULE CoverageJudge ----------------------------
(***************************************************************************)
(* What discards a session's work before a human sees it: the coverage     *)
(* judge, asked once before the extraction and once inside the dedup       *)
(* stage, and the three layers of that stage (learning/judge, dedup,       *)
(* priorart).  A job is delivered at least once: a worker may stop between *)
(* any two calls and the session is then worked on from the beginning.     *)
(* The prior-art graph, the judge's model and the judgement store may each *)
(* fail, and the corpus and the judge's configuration change meanwhile.    *)
(* A similarity is one of the ranks that the thresholds cut.  An extracted *)
(* blueprint is its idea, that is, its hard (canonical) key.               *)
(***************************************************************************)
EXTENDS Naturals, FiniteSets

CONSTANTS
    Sessions, Ideas,
    Worded,           \* the sessions with a question or an SQL to search by
    Derives,          \* per session, the ideas an extraction of it may yield
    Cards,            \* what the graph may hold: [id, tier, similarity, matched, twin]
    Answers,          \* what the model says: [verdict, by, confidence]
    Configs,          \* [pre, post, shadow]: the bars, per process start
    Likeness,         \* the rank of two different ideas' intents
    Nothing,
    MaxDeliveries,    \* bound: deliveries of all sessions
    MaxChanges        \* bound: changes of the graph, the corpus or the config

\* Ranks: below band_low, ambiguous, conflict, merge, above band_high.
BandLow == 1
Conflict == 2
Merge == 3
BandHigh == 3
\* A cosine taken across two embedding spaces is halved: no band reaches it.
Confidence(card) == IF card.matched THEN card.similarity ELSE 0

VARIABLES
    graph,            \* the cards that are landed and not terminal
    corpus,           \* learning_corpus: per key Nothing or [owner, hits, rejected]
    judgements,       \* the durable records, by reference: Nothing or [said, dropped]
    config,
    task,             \* per session, where its worker is and what it has read
    rows,             \* the candidate store: per session Nothing or [idea, status]
    fate,             \* per session, how its last delivery ended
    deliveries,       \* how many there were
    changes

jvars == <<graph, corpus, judgements, config, task, rows, fate, deliveries, changes>>

\* The bars are confidences, or the process does not start.
Certain == 3
JudgeConfigs == [pre : 0..Certain, post : 0..Certain, shadow : BOOLEAN]
ValidConfigs == {c \in Configs : c \in JudgeConfigs /\ BandLow <= BandHigh}

\* What the stores hold: a key's artifact, the record of a judgement, and what
\* a hit of the prior art is read for.
Artifacts == [owner : Sessions, hits : Nat \ {0}, rejected : BOOLEAN]
JudgeRecords == [said : Answers, dropped : BOOLEAN]
IsCard(c) ==
    /\ c.tier \in {"mcp", "learning", "unsourced"} /\ c.origin \in {"graph", "corpus"}
    /\ c.similarity \in Nat /\ c.matched \in BOOLEAN
    /\ c.twin \in Ideas \cup {Nothing}

Rows == [idea : Ideas, status : {"extracted", "insert", "conflict", "merge"}]

\* Ids, records and rows are not Nothing; what is landed has an id and a band.
ASSUME JudgeAssumption ==
    /\ MaxDeliveries \in Nat /\ MaxChanges \in Nat /\ Likeness \in Nat
    /\ \A c \in Cards : IsCard(c) /\ c.origin = "graph" /\ c.id # Nothing
    /\ \A s \in Sessions : Derives[s] \subseteq Ideas /\ <<"candidate", s>> # Nothing
    /\ Nothing \notin Ideas /\ Nothing \notin Answers
    /\ Nothing \notin Artifacts /\ Nothing \notin JudgeRecords /\ Nothing \notin Rows

Refs == {"pre"} \X Sessions \X {Nothing} \cup {"post"} \X Sessions \X Ideas

AtRest == [at |-> "idle", stage |-> "pre", idea |-> Nothing, cards |-> {},
         dark |-> FALSE, said |-> Nothing, verdict |-> "insert"]

JInit ==
    /\ graph \in SUBSET Cards
    /\ corpus = [k \in Ideas |-> Nothing]
    /\ judgements = [r \in Refs |-> Nothing]
    /\ config \in ValidConfigs
    /\ task = [s \in Sessions |-> AtRest]
    /\ rows = [s \in Sessions |-> Nothing]
    /\ fate = [s \in Sessions |-> "none"]
    /\ deliveries = 0
    /\ changes = 0

Goto(s, place) == task' = [task EXCEPT ![s].at = place]

\* The end of a delivery's work, before the session is marked done.
End(s, how) ==
    /\ Goto(s, "mark")
    /\ fate' = [fate EXCEPT ![s] = how]

-----------------------------------------------------------------------------
(* The judge.                                                              *)

Ref(s) == <<task[s].stage, s, task[s].idea>>

\* Where a session goes that the judge does not drop.
Onward(w) ==
    CASE w.stage = "pre" -> "extract"
      [] w.stage = "post" /\ w.verdict = "insert" -> "seed"
      [] w.stage = "post" /\ w.verdict # "insert" -> "persist"

\* The answers that need no model call.
FreeGate(w) ==
    LET near == {Confidence(c) : c \in w.cards} IN
    \/ w.dark /\ w.stage = "pre"
    \/ \A n \in near : n < BandLow
    \/ w.stage = "post" /\ \E n \in near : n > BandHigh

\* What the judge read is forgotten with it.
Proceed(s, w) ==
    task' = [task EXCEPT ![s] =
        [w EXCEPT !.at = Onward(w), !.cards = {}, !.dark = FALSE, !.said = Nothing]]

Judge(s, w) ==
    IF FreeGate(w) THEN Proceed(s, w)
    ELSE task' = [task EXCEPT ![s] = [w EXCEPT !.at = "reuse"]]

\* Only the model's own assessment is reused; an unreadable store says nothing.
Reuse(s) ==
    /\ task[s].at = "reuse"
    /\ \/ /\ judgements[Ref(s)] # Nothing
          /\ task' = [task EXCEPT ![s].at = "decide", ![s].said = judgements[Ref(s)].said]
       \/ Goto(s, "ask")
    /\ UNCHANGED <<graph, corpus, judgements, config, rows, fate, deliveries, changes>>

\* A verdict or a confidence out of range is never repaired: no judgement.
COVERAGE_VERDICTS == {"duplicate", "delta", "new"}
Usable(a) == a.verdict \in COVERAGE_VERDICTS /\ a.confidence \in 0..Certain

\* One model turn; no answer, or one that cannot be read, is no judgement.
Ask(s) ==
    /\ task[s].at = "ask"
    /\ \/ \E a \in {x \in Answers : Usable(x)} : task' = [task EXCEPT ![s].at = "decide", ![s].said = a]
       \/ Proceed(s, task[s])
    /\ UNCHANGED <<graph, corpus, judgements, config, rows, fate, deliveries, changes>>

MayAuthorize(card) == card.origin = "graph" /\ card.tier \in {"mcp", "learning"}

\* Mutant: the card that authorizes most.
NamedPermissive(w) ==
    LET same == {c \in w.cards : c.id = w.said.by} IN
    IF \A c \in same : ~MayAuthorize(c) THEN same ELSE {c \in same : MayAuthorize(c)}

\* Of several cards with the named id, the one that authorizes least.
Named(w) ==
    LET same == {c \in w.cards : c.id = w.said.by} IN
    IF \A c \in same : MayAuthorize(c) THEN same ELSE {c \in same : ~MayAuthorize(c)}

Bar(w) == IF w.stage = "pre" THEN config.pre ELSE config.post

DropAllowed(w) ==
    /\ w.said.verdict = "duplicate"
    /\ w.said.confidence >= Bar(w)
    /\ Named(w) # {}
    /\ \A c \in Named(w) : MayAuthorize(c)

\* The record is written before the drop.  A write that did not return may
\* have landed, and costs the drop either way.
Decide(s) ==
    /\ task[s].at = "decide"
    /\ LET drop == DropAllowed(task[s]) /\ ~config.shadow
           record == [said |-> task[s].said, dropped |-> drop]
       IN \E written, returned \in BOOLEAN :
            /\ returned => written
            /\ judgements' = IF written THEN [judgements EXCEPT ![Ref(s)] = record] ELSE judgements
            /\ IF drop /\ returned
               THEN End(s, IF task[s].stage = "pre" THEN "screened_out" ELSE "judged_out")
               ELSE Proceed(s, task[s]) /\ UNCHANGED fate
    /\ UNCHANGED <<graph, corpus, config, rows, deliveries, changes>>

-----------------------------------------------------------------------------
(* The session before the dedup stage.                                     *)

\* A session with no words is not searched for: it has no cards, no outage.
Looked(s, w) ==
    {[w EXCEPT !.cards = IF s \in Worded THEN graph ELSE {}]}
    \cup {[w EXCEPT !.dark = TRUE] : x \in {s} \cap Worded}

\* A delivery, and screen_session's lookup, which is answered or is not.
Screen(s) ==
    /\ task[s].at = "idle" /\ deliveries < MaxDeliveries
    /\ deliveries' = deliveries + 1
    /\ \E w \in Looked(s, task[s]) : Judge(s, w)
    /\ UNCHANGED <<graph, corpus, judgements, config, rows, fate, changes>>

\* The rows of an earlier delivery go before this one's row is written.
Extract(s) ==
    /\ task[s].at = "extract"
    /\ rows' = [rows EXCEPT ![s] = Nothing]
    /\ \E k \in Derives[s] :
          task' = [task EXCEPT ![s] = [AtRest EXCEPT !.at = "put", !.stage = "post", !.idea = k]]
    /\ UNCHANGED <<graph, corpus, judgements, config, fate, deliveries, changes>>

PutRow(s) ==
    /\ task[s].at = "put"
    /\ rows' = [rows EXCEPT ![s] = [idea |-> task[s].idea, status |-> "extracted"]]
    /\ Goto(s, "hard")
    /\ UNCHANGED <<graph, corpus, judgements, config, fate, deliveries, changes>>

-----------------------------------------------------------------------------
(* The dedup stage.                                                        *)

\* Layer 1, whatever the artifact's status.
HardKey(s) ==
    /\ task[s].at = "hard"
    /\ Goto(s, IF corpus[task[s].idea] # Nothing THEN "count" ELSE "structural")
    /\ UNCHANGED <<graph, corpus, judgements, config, rows, fate, deliveries, changes>>

Count(s) ==
    /\ task[s].at = "count"
    /\ corpus' = [corpus EXCEPT ![task[s].idea].hits = @ + 1]
    /\ End(s, "counted")
    /\ UNCHANGED <<graph, judgements, config, rows, deliveries, changes>>

\* Layer 2: the canon first; an outage falls through to the soft layer.
Structural(s) ==
    /\ task[s].at = "structural"
    /\ \E twins \in {{}, {c \in graph : c.twin = task[s].idea}} :
          \/ twins = {} /\ Goto(s, "soft") /\ UNCHANGED fate
          \/ \E c \in twins : c.tier = "mcp" /\ End(s, "redundant")
          \/ /\ twins # {} /\ \A c \in twins : c.tier # "mcp"
             /\ task' = [task EXCEPT ![s].at = "persist", ![s].verdict = "merge"]
             /\ UNCHANGED fate
    /\ UNCHANGED <<graph, corpus, judgements, config, rows, deliveries, changes>>

LandedAs(k) == <<"bp", k>>
CandidateId(s) == <<"candidate", s>>

\* The corpus half: neither the candidate's own key, nor a rejected artifact,
\* nor one that the graph half already shows.
Siblings(k, seen) ==
    {[id |-> CandidateId(corpus[j].owner), tier |-> "learning", origin |-> "corpus",
      similarity |-> Likeness, matched |-> TRUE, twin |-> Nothing] :
        j \in {j \in Ideas \ {k} : /\ corpus[j] # Nothing /\ ~corpus[j].rejected
                                   /\ LandedAs(j) \notin {c.id : c \in seen}}}

Banded(cards) ==
    LET near == {Confidence(c) : c \in cards} IN
    CASE \E n \in near : n >= Merge -> "merge"
      [] (\E n \in near : n >= Conflict) /\ (\A n \in near : n < Merge) -> "conflict"
      [] \A n \in near : n < Conflict -> "insert"

Artifact(s) == [owner |-> s, hits |-> 1, rejected |-> FALSE]

\* Mutant: the artifact is registered before the judge is asked.
SoftSeeding(s) ==
    /\ task[s].at = "soft"
    /\ LET both == graph \cup Siblings(task[s].idea, graph) IN
          Judge(s, [task[s] EXCEPT !.cards = both, !.verdict = Banded(both)])
    /\ corpus' = IF corpus[task[s].idea] = Nothing
                 THEN [corpus EXCEPT ![task[s].idea] = Artifact(s)] ELSE corpus
    /\ UNCHANGED <<graph, judgements, config, rows, fate, deliveries, changes>>

\* Layer 3 and, on its cards, the judge; either half may fail to answer.
Soft(s) ==
    /\ task[s].at = "soft"
    /\ \E dark, listed \in BOOLEAN :
          LET landed == IF dark THEN {} ELSE graph
              both == landed \cup IF listed THEN Siblings(task[s].idea, landed) ELSE {}
          IN Judge(s, [task[s] EXCEPT !.cards = both, !.dark = dark, !.verdict = Banded(both)])
    /\ UNCHANGED <<graph, corpus, judgements, config, rows, fate, deliveries, changes>>

\* Mutant: the seed is an upsert.
SeedUpsert(s) ==
    /\ task[s].at = "seed"
    /\ corpus' = [corpus EXCEPT ![task[s].idea] = Artifact(s)]
    /\ Goto(s, "persist")
    /\ UNCHANGED <<graph, judgements, config, rows, fate, deliveries, changes>>

\* Insert wins: a key that another worker has seeded meanwhile stays as it is.
Seed(s) ==
    /\ task[s].at = "seed"
    /\ corpus' = IF corpus[task[s].idea] = Nothing
                 THEN [corpus EXCEPT ![task[s].idea] = Artifact(s)] ELSE corpus
    /\ Goto(s, "persist")
    /\ UNCHANGED <<graph, judgements, config, rows, fate, deliveries, changes>>

\* The rest of the pipeline, then the enriched row.
PersistRow(s) ==
    /\ task[s].at = "persist"
    /\ rows' = [rows EXCEPT ![s] = [idea |-> task[s].idea, status |-> task[s].verdict]]
    /\ End(s, "staged")
    /\ UNCHANGED <<graph, corpus, judgements, config, deliveries, changes>>

Mark(s) ==
    /\ task[s].at = "mark"
    /\ task' = [task EXCEPT ![s] = [AtRest EXCEPT !.at = "done", !.idea = task[s].idea,
                                                !.stage = task[s].stage]]
    /\ UNCHANGED <<graph, corpus, judgements, config, rows, fate, deliveries, changes>>

-----------------------------------------------------------------------------
(* What happens around it.                                                 *)

Unfinished(s) == task[s].at \notin {"idle", "done"}

\* A worker stops, or a store raises, between two calls: the job comes again.
Abort(s) ==
    /\ Unfinished(s)
    /\ task' = [task EXCEPT ![s] = AtRest]
    /\ fate' = [fate EXCEPT ![s] = "none"]
    /\ UNCHANGED <<graph, corpus, judgements, config, rows, deliveries, changes>>

Change == changes < MaxChanges /\ changes' = changes + 1

\* A new process reads its bars once; no delivery spans it.
Restart ==
    /\ Change
    /\ config' \in ValidConfigs \ {config}
    /\ task' = [s \in Sessions |-> IF Unfinished(s) THEN AtRest ELSE task[s]]
    /\ fate' = [s \in Sessions |-> IF Unfinished(s) THEN "none" ELSE fate[s]]
    /\ UNCHANGED <<graph, corpus, judgements, rows, deliveries>>

\* A node lands or is seeded, is retired or removed.
Regraph(card) ==
    /\ Change
    /\ graph' = IF card \in graph THEN graph \ {card} ELSE graph \cup {card}
    /\ UNCHANGED <<corpus, judgements, config, task, rows, fate, deliveries>>

\* A reviewer rejects the artifact (set_status, one field).
RejectIdea(k) ==
    /\ Change
    /\ corpus[k] # Nothing /\ ~corpus[k].rejected
    /\ corpus' = [corpus EXCEPT ![k].rejected = TRUE]
    /\ UNCHANGED <<graph, judgements, config, task, rows, fate, deliveries>>

JNext ==
    \/ \E s \in Sessions :
          \/ Screen(s) \/ Reuse(s) \/ Ask(s) \/ Decide(s)
          \/ Extract(s) \/ PutRow(s) \/ HardKey(s) \/ Count(s) \/ Structural(s)
          \/ Soft(s) \/ Seed(s) \/ PersistRow(s) \/ Mark(s) \/ Abort(s)
    \/ Restart
    \/ \E c \in Cards : Regraph(c)
    \/ \E k \in Ideas : RejectIdea(k)

JSpec == JInit /\ [][JNext]_jvars

-----------------------------------------------------------------------------
(* Properties.                                                             *)

Fates == {"none", "screened_out", "judged_out", "counted", "redundant", "staged"}

\* The type of every variable.
JudgeTypeOK ==
    /\ graph \subseteq Cards
    /\ \A s \in Sessions : \A c \in task[s].cards : IsCard(c)
    /\ \A k \in Ideas : corpus[k] \in Artifacts \cup {Nothing}
    /\ \A r \in Refs : judgements[r] \in JudgeRecords \cup {Nothing}
    /\ config \in ValidConfigs
    /\ \A s \in Sessions : /\ task[s].stage \in {"pre", "post"}
                           /\ task[s].idea \in Ideas \cup {Nothing}
                           /\ task[s].verdict \in {"insert", "conflict", "merge"}
                           /\ \/ rows[s] = Nothing
                              \/ rows[s].idea \in Ideas
    /\ fate \in [Sessions -> Fates]
    /\ deliveries \in 0..MaxDeliveries

JudgedAway(s) == fate[s] \in {"screened_out", "judged_out"}

\* Work that the judge discards is on record: the record of this very content
\* names an artifact and says that it was dropped (_persist, before the drop).
DropHasRecord ==
    \A s \in Sessions : JudgedAway(s) =>
        /\ judgements[Ref(s)] # Nothing
        /\ judgements[Ref(s)].dropped
        /\ judgements[Ref(s)].said.by # Nothing

\* No drop rests on a failed read of the prior art, not even one that the
\* unlanded siblings or a reused judgement would carry (_free_gate, origins).
NoDropInTheDark ==
    \A s \in Sessions : JudgedAway(s) /\ task[s].at = "mark" => ~task[s].dark

\* A drop stands on what is true now and not when the model was asked: the bar
\* and the shadow switch of the running process, and cards of this delivery,
\* all of which may authorize one (_reuse, _drop_allowed, _resolve_covered_by).
DropStandsNow ==
    \A s \in Sessions : JudgedAway(s) /\ task[s].at = "mark" =>
        LET named == {c \in task[s].cards : c.id = task[s].said.by} IN
        /\ ~config.shadow
        /\ task[s].said.confidence >= Bar(task[s])
        /\ named # {}
        /\ \A c \in named : c.origin = "graph" /\ c.tier # "unsourced"

\* A candidate that the judge discards never has an artifact of its own, which
\* would collect hits for work that nobody kept (_adjudicate before the seed).
DiscardedHasNoArtifact ==
    \A s \in Sessions : fate[s] = "judged_out" =>
        \/ corpus[task[s].idea] = Nothing
        \/ corpus[task[s].idea].owner # s

\* A row kept as new has its artifact, so that its sightings can be counted
\* before it lands (_seed_on_insert before the row).
NewRowHasArtifact ==
    \A s \in Sessions :
        rows[s] # Nothing /\ rows[s].status = "insert" => corpus[rows[s].idea] # Nothing

\* Two first sightings at once, redeliveries and a rejection: no later seed
\* resets an artifact's count, its owner or its rejection (insert wins).
ArtifactIsNeverReset ==
    [][\A k \in Ideas : corpus[k] # Nothing =>
          /\ corpus'[k] # Nothing
          /\ corpus'[k].owner = corpus[k].owner
          /\ corpus'[k].hits >= corpus[k].hits
          /\ corpus[k].rejected => corpus'[k].rejected]_jvars

\* dedup/stage.py:6-8, "race-safe by construction, which is what makes the
\* cross-session hit count sound": an idea has at most one hit per session.
HitsAreSessions ==
    \A k \in Ideas : corpus[k] # Nothing =>
        corpus[k].hits <= Cardinality({s \in Sessions : k \in Derives[s]})

\* A drop cancels work for good, so it is on record, on evidence that was
\* read, and on what holds when it is taken.
DropJustified == JudgeTypeOK /\ DropHasRecord /\ NoDropInTheDark /\ DropStandsNow

\* Rows and artifacts agree, whatever crashed or came twice: none for work
\* that was discarded, one for each row kept as new.
RowMatchesArtifact == DiscardedHasNoArtifact /\ NewRowHasArtifact
=============================================================================
