------------------------- MODULE SessionStoreProofs -------------------------
(***************************************************************************)
(* The session store implements AtomicSession, for any number of requests, *)
(* calls, keys and retries; and the ledger that a turn keeps in the        *)
(* session's document closes an intent on evidence, for any number of      *)
(* requests that read and write it.                                        *)
(***************************************************************************)
EXTENDS SessionStore, AnalysisLedger, FiniteSetTheorems, WellFoundedInduction, TLAPS

---------------------------------------------------------------------------
(* The ledger of the turn's analysis                                       *)

(* An intent supported by the calls of d; also of an intent that an update *)
(* has bound and not merged.                                               *)
Supports(x, d) ==
    /\ Closing(x.status) => x.evidence \in DOMAIN d
    /\ x.status = "completed" => Completes(d[x.evidence])
    /\ x.status = "blocked" =>
         /\ x.reason = BlockReason(d[x.evidence]) /\ x.reason # "none"

Untouched(d, n) == \A k \in 1..n : d[k].out.tool \notin SUBSTANTIVE_TOOLS

(* What a request has read and not yet written is still true: a trail only *)
(* grows, and a ledger never loses an intent.                              *)
Backed(u, led, d) ==
    /\ u.kind = "declare" => u.seen <= Len(d) /\ Untouched(d, u.seen)
    /\ u.kind = "change" =>
         /\ DOMAIN u.items \subseteq DOMAIN led
         /\ \A i \in DOMAIN u.items : Supports(u.items[i], d)

Trailed ==
    /\ trail \in Seq(Entries) /\ Len(trail) <= MaxToolCallsOfTurn
    /\ \A k \in DOMAIN trail : trail[k].tag \in {Untagged} \cup DOMAIN ledger
    /\ declared \in 0..Len(trail) /\ Untouched(trail, declared)

Ledgered ==
    /\ ledger \in Ledgers
    /\ \A i \in DOMAIN ledger : Supports(ledger[i], trail)
    /\ OneBlockPerCall

Requested ==
    /\ local \in [Workers -> SUBSET Intents]
    /\ update \in [Workers -> InFlight]
    /\ \A w \in Workers :
         local[w] \subseteq DOMAIN ledger /\ Backed(update[w], ledger, trail)

LedgerInv == Trailed /\ Ledgered /\ Requested

---------------------------------------------------------------------------
(* Operators                                                               *)

(* A set of calls has a newest one.                                        *)
LEMMA NewestIsIn ==
    ASSUME NEW n \in Nat, NEW S, S \subseteq 1..n, S # {}
    PROVE  Newest(S) \in S
<1> DEFINE D == {n - k : k \in S}
           R == OpToRel(<, Nat)
<1>0. \A k \in S : k \in Nat /\ n - k \in Nat
  OBVIOUS
<1>1. D \subseteq Nat /\ D # {}
  BY <1>0
<1> HIDE DEF D, R
<1>2. PICK m \in D : \A j \in D : <<j, m>> \notin R
  <2>1. IsWellFoundedOn(R, Nat)
    BY NatLessThanWellFounded DEF R
  <2>. QED
    BY <1>1, <2>1, WFMin
<1>3. ASSUME NEW j \in D PROVE m <= j
  <2>1. R = {ss \in Nat \X Nat : ss[1] < ss[2]}
    BY Zenon DEF R, OpToRel
  <2>2. j \in Nat /\ m \in Nat
    BY <1>1
  <2>3. ~(j < m)
    BY <1>2, <2>1, <2>2
  <2>. QED
    BY <2>2, <2>3
<1>4. PICK k \in S : m = n - k
  BY <1>2 DEF D
<1>5. \A j \in S : k >= j
  BY <1>0, <1>3, <1>4 DEF D
<1>. QED
  BY <1>5 DEF Newest

(* A set with one element is that element.                                 *)
LEMMA TheOnlyOne ==
    ASSUME NEW n \in Nat, NEW S, S \subseteq 1..n, Cardinality(S) = 1
    PROVE  S = {The(S)}
<1>1. IsFiniteSet(1..n)
  BY FS_Interval
<1>2. IsFiniteSet(S)
  BY <1>1, FS_Subset
<1>3. PICK x : S = {x}
  BY <1>2, FS_Singleton
<1>. QED
  BY <1>3 DEF The

LEMMA OutcomeStatus == \A o \in Outcomes : o.status \in {"ok", "failed"}
BY DEF Outcomes, Outcome

LEMMA BlockReasons ==
    ASSUME NEW e
    PROVE  /\ BlockReason(e) \in {"none"} \cup DERIVABLE_REASON_CODES
           /\ BlockReason(e) = "NO_ACCESS" => ShowsNoAccess(e)
           /\ BlockReason(e) = "REQUIRED_DATA_UNAVAILABLE" => ShowsNoData(e)
BY DEF BlockReason, DERIVABLE_REASON_CODES

(* resolve_evidence answers with a call of the trail that validates; with  *)
(* one that is not tagged for the intent only if nobody's call is left     *)
(* that could serve it as well.                                            *)
LEMMA Resolved ==
    ASSUME NEW n \in Nat, NEW d, DOMAIN d = 1..n, NEW i, NEW status,
           ResolveEvidence(i, status, d) # 0
    PROVE  LET k == ResolveEvidence(i, status, d) IN
           /\ k \in DOMAIN d /\ Validates(d[k], status)
           /\ d[k].tag # i =>
                \A j \in DOMAIN d :
                    j # k /\ d[j].tag = Untagged => ~Guessable(d[j], status)
<1> DEFINE tagged == {k \in TaggedFor(i, d) : Validates(d[k], status)}
           candidates == {k \in DOMAIN d : Guessable(d[k], status)}
           untagged == {k \in candidates : d[k].tag = Untagged}
           k == ResolveEvidence(i, status, d)
<1>1. tagged \subseteq 1..n /\ candidates \subseteq 1..n /\ untagged \subseteq 1..n
  BY DEF TaggedFor
<1>2. CASE tagged # {}
  <2>1. k = Newest(tagged)
    BY <1>2 DEF ResolveEvidence
  <2>2. k \in tagged
    BY <1>1, <1>2, <2>1, NewestIsIn
  <2>. QED
    BY <2>2 DEF TaggedFor
<1>3. CASE tagged = {}
  <2>1. TaggedFor(i, d) = {}
    BY <1>3 DEF ResolveEvidence
  <2>2. CASE Cardinality(untagged) = 1
    <3>1. k = The(untagged)
      BY <1>3, <2>1, <2>2 DEF ResolveEvidence
    <3>2. untagged = {k}
      BY <1>1, <2>2, <3>1, TheOnlyOne
    <3>. QED
      BY <3>2 DEF Guessable
  <2>3. CASE Cardinality(untagged) # 1
    <3>1. Cardinality(candidates) = 1 /\ k = The(candidates)
      BY <1>3, <2>1, <2>3 DEF ResolveEvidence
    <3>2. candidates = {k}
      BY <1>1, <3>1, TheOnlyOne
    <3>. QED
      BY <3>2 DEF Guessable
  <2>. QED
    BY <2>2, <2>3
<1>. QED
  BY <1>2, <1>3

(* What an update binds is supported by the trail it has read.             *)
LEMMA BoundIsSupported ==
    ASSUME NEW i \in DOMAIN ledger, NEW status \in Statuses,
           Trailed, Ledgered, CanBind(i, status, ledger, trail)
    PROVE  /\ Bound(i, status, ledger, trail) \in Intent
           /\ Supports(Bound(i, status, ledger, trail), trail)
<1> DEFINE x == Bound(i, status, ledger, trail)
<1>0. ledger[i] \in Intent /\ DOMAIN trail = 1..Len(trail) /\ Len(trail) \in Nat
  BY DEF Ledgered, Ledgers, Trailed
<1>1. CASE ~Closing(status)
  <2>1. x = Pending
    BY <1>1 DEF Bound
  <2>. QED
    BY <2>1, LedgerAssumption DEF Pending, Supports, Closing, Intent, Statuses
<1>2. CASE Closing(status) /\ KeepsEvidence(i, status, ledger)
  <2>1. x = ledger[i]
    BY <1>2 DEF Bound
  <2>. QED
    BY <2>1, <1>0 DEF Ledgered
<1>3. CASE Closing(status) /\ ~KeepsEvidence(i, status, ledger)
  <2> DEFINE k == ResolveEvidence(i, status, trail)
  <2>1. x = [status |-> status, evidence |-> k,
             reason |-> IF status = "blocked" THEN BlockReason(trail[k]) ELSE "none"]
    BY <1>3 DEF Bound
  <2>2. k # 0
    BY <1>3 DEF CanBind
  <2>3. k \in DOMAIN trail /\ Validates(trail[k], status)
    BY <2>2, <1>0, Resolved
  <2>4. k \in 0..MaxToolCallsOfTurn
    BY <2>3, <1>0, LedgerAssumption DEF Trailed
  <2>5. BlockReason(trail[k]) \in {"none"} \cup DERIVABLE_REASON_CODES
    BY BlockReasons
  <2> HIDE DEF k
  <2>6. x \in Intent
    BY <2>1, <2>4, <2>5 DEF Intent
  <2>7. Supports(x, trail)
    BY <2>1, <2>3, <1>3 DEF Supports, Validates, Closing
  <2>. QED
    BY <2>6, <2>7
<1>. QED
  BY <1>1, <1>2, <1>3

LEMMA IntentsOf ==
    ASSUME NEW led \in Ledgers
    PROVE  /\ DOMAIN led \subseteq Intents
           /\ \A i \in DOMAIN led : led[i] \in Intent
           /\ \E n \in 0..MAX_INTENTS : led \in [1..n -> Intent]
BY LedgerAssumption DEF Ledgers, Intents

---------------------------------------------------------------------------
(* Steps                                                                   *)

LEMMA InitLedgerInv == LedgerInit => LedgerInv
<1> SUFFICES ASSUME LedgerInit PROVE LedgerInv
  OBVIOUS
<1>1. ledger \in [1..0 -> Intent] /\ DOMAIN ledger = {}
  BY DEF LedgerInit
<1>2. Ledgered
  BY <1>1, LedgerAssumption DEF Ledgered, Ledgers, OneBlockPerCall
<1>3. Trailed
  BY LedgerAssumption DEF LedgerInit, Trailed, Untouched
<1>4. Requested
  BY <1>1 DEF LedgerInit, Requested, Backed, Idle, InFlight
<1>. QED
  BY <1>2, <1>3, <1>4 DEF LedgerInv

(* A longer trail supports what it supported.                              *)
LEMMA TrailGrows ==
    ASSUME NEW d \in Seq(Entries), NEW e \in Entries
    PROVE  /\ Append(d, e) \in Seq(Entries)
           /\ Len(Append(d, e)) = Len(d) + 1
           /\ DOMAIN d \subseteq DOMAIN Append(d, e)
           /\ \A k \in DOMAIN d : Append(d, e)[k] = d[k]
           /\ Append(d, e)[Len(d) + 1] = e
           /\ DOMAIN Append(d, e) = DOMAIN d \cup {Len(d) + 1}
           /\ \A x : Supports(x, d) => Supports(x, Append(d, e))
           /\ \A u, led : Backed(u, led, d) /\ u \in InFlight => Backed(u, led, Append(d, e))
<1> DEFINE f == Append(d, e)
<1>1. /\ f \in Seq(Entries) /\ Len(f) = Len(d) + 1
      /\ \A k \in 1..Len(d) : f[k] = d[k]
      /\ f[Len(d) + 1] = e /\ DOMAIN f = 1..(Len(d) + 1) /\ DOMAIN d = 1..Len(d)
      /\ Len(d) \in Nat
  OBVIOUS
<1> HIDE DEF f
<1>2. ASSUME NEW x, Supports(x, d) PROVE Supports(x, f)
  <2>1. Closing(x.status) => x.evidence \in DOMAIN f /\ f[x.evidence] = d[x.evidence]
    BY <1>1, <1>2 DEF Supports
  <2>. QED
    BY <2>1, <1>2 DEF Supports, Closing
<1>3. ASSUME NEW u, NEW led, u \in InFlight, Backed(u, led, d) PROVE Backed(u, led, f)
  <2>1. u.kind = "declare" => u.seen \in 0..MaxToolCallsOfTurn
    BY <1>3 DEF InFlight
  <2>2. ASSUME u.kind = "declare" PROVE u.seen <= Len(f) /\ Untouched(f, u.seen)
    <3>1. u.seen \in Nat /\ u.seen <= Len(d)
      BY <1>3, <2>1, <2>2, LedgerAssumption DEF Backed
    <3>2. \A k \in 1..u.seen : f[k] = d[k]
      BY <1>1, <3>1
    <3>. QED
      BY <1>1, <1>3, <2>2, <3>1, <3>2 DEF Backed, Untouched
  <2>3. ASSUME u.kind = "change"
        PROVE  /\ DOMAIN u.items \subseteq DOMAIN led
               /\ \A i \in DOMAIN u.items : Supports(u.items[i], f)
    BY <1>2, <1>3, <2>3 DEF Backed
  <2>. QED
    BY <2>2, <2>3 DEF Backed
<1>. QED
  BY <1>1, <1>2, <1>3 DEF f

(* A ledger that loses no intent backs what it backed.                     *)
LEMMA BackedByMore ==
    ASSUME NEW u, NEW led, NEW d, NEW more, Backed(u, led, d),
           DOMAIN led \subseteq DOMAIN more
    PROVE  Backed(u, more, d)
BY DEF Backed

LEMMA CallKeeps ==
    ASSUME LedgerInv, NEW w \in Workers, Call(w)
    PROVE  LedgerInv'
<1>0. PICK o \in Outcomes : \E t \in TagsOf(w, o.tool) :
        trail' = Append(trail, [out |-> o, tag |-> t])
  BY DEF Call
<1>1. PICK t \in TagsOf(w, o.tool) : trail' = Append(trail, [out |-> o, tag |-> t])
  BY <1>0
<1> DEFINE e == [out |-> o, tag |-> t]
<1>2. t \in {Untagged} \cup DOMAIN ledger /\ e \in Entries
  <2>1. t \in {Untagged} \cup local[w]
    BY DEF TagsOf
  <2>2. local[w] \subseteq DOMAIN ledger /\ DOMAIN ledger \subseteq Intents
    BY IntentsOf DEF LedgerInv, Requested, Ledgered
  <2>. QED
    BY <2>1, <2>2 DEF Entries
<1>3. e.tag = t /\ trail' = Append(trail, e)
  BY <1>1
<1> HIDE DEF e
<1>4. UNCHANGED <<ledger, local, update, declared>> /\ Len(trail) < MaxToolCallsOfTurn
  BY DEF Call
<1>5. trail \in Seq(Entries) /\ Len(trail) \in Nat /\ DOMAIN trail = 1..Len(trail)
  BY DEF LedgerInv, Trailed
<1>6. Trailed'
  <2>1. trail' \in Seq(Entries) /\ Len(trail') <= MaxToolCallsOfTurn
    BY <1>2, <1>3, <1>4, <1>5, TrailGrows, LedgerAssumption
  <2>2. \A k \in DOMAIN trail' : trail'[k].tag \in {Untagged} \cup DOMAIN ledger
    BY <1>2, <1>3, <1>5, TrailGrows DEF LedgerInv, Trailed
  <2>3. declared \in 0..Len(trail') /\ Untouched(trail', declared)
    BY <1>2, <1>3, <1>5, TrailGrows DEF LedgerInv, Trailed, Untouched
  <2>. QED
    BY <2>1, <2>2, <2>3, <1>4 DEF Trailed
<1>7. Ledgered'
  BY <1>2, <1>3, <1>4, <1>5, TrailGrows DEF LedgerInv, Ledgered, OneBlockPerCall
<1>8. Requested'
  <2>1. \A v \in Workers : Backed(update[v], ledger, trail')
    BY <1>2, <1>3, <1>5, TrailGrows DEF LedgerInv, Requested
  <2>. QED
    BY <2>1, <1>4 DEF LedgerInv, Requested
<1>. QED
  BY <1>6, <1>7, <1>8 DEF LedgerInv

LEMMA BeginDeclareKeeps ==
    ASSUME LedgerInv, NEW w \in Workers, BeginDeclare(w)
    PROVE  LedgerInv'
<1>1. PICK n \in Declarations :
        update' = [update EXCEPT ![w] = [kind |-> "declare", count |-> n, seen |-> Len(trail)]]
  BY DEF BeginDeclare
<1> DEFINE u == [kind |-> "declare", count |-> n, seen |-> Len(trail)]
<1>2. UNCHANGED <<trail, ledger, local, declared>> /\ ~Locked(trail)
  BY DEF BeginDeclare
<1>3. Len(trail) \in 0..MaxToolCallsOfTurn /\ DOMAIN trail = 1..Len(trail)
  BY LedgerAssumption DEF LedgerInv, Trailed
<1>4. u \in InFlight
  BY <1>3 DEF InFlight, Declarations
<1>5. Backed(u, ledger, trail)
  BY <1>2, <1>3 DEF Backed, Untouched, Locked
<1> HIDE DEF u
<1>6. Requested'
  BY <1>1, <1>2, <1>4, <1>5 DEF LedgerInv, Requested, u
<1>. QED
  BY <1>2, <1>6 DEF LedgerInv, Trailed, Ledgered, OneBlockPerCall

LEMMA BeginChangeKeeps ==
    ASSUME LedgerInv, NEW w \in Workers, BeginChange(w)
    PROVE  LedgerInv'
<1>1. PICK ask \in Changes :
        /\ DOMAIN ask \subseteq DOMAIN ledger
        /\ \A i \in DOMAIN ask : CanBind(i, ask[i], ledger, trail)
        /\ update' = [update EXCEPT ![w] =
             [kind |-> "change", items |-> [i \in DOMAIN ask |-> Bound(i, ask[i], ledger, trail)]]]
  BY DEF BeginChange
<1> DEFINE items == [i \in DOMAIN ask |-> Bound(i, ask[i], ledger, trail)]
           u == [kind |-> "change", items |-> items]
<1>2. UNCHANGED <<trail, ledger, local, declared>>
  BY DEF BeginChange
<1>3. DOMAIN ask \subseteq Intents /\ \A i \in DOMAIN ask : ask[i] \in Statuses
  BY DEF Changes
<1>4. \A i \in DOMAIN ask :
        /\ Bound(i, ask[i], ledger, trail) \in Intent
        /\ Supports(Bound(i, ask[i], ledger, trail), trail)
  BY <1>1, <1>3, BoundIsSupported DEF LedgerInv
<1>5. items \in Updates
  BY <1>3, <1>4 DEF Updates
<1>6. /\ DOMAIN items \subseteq DOMAIN ledger
      /\ \A i \in DOMAIN items : Supports(items[i], trail)
  BY <1>1, <1>4
<1> HIDE DEF items
<1>7. u \in InFlight
  BY <1>5 DEF InFlight
<1>8. Backed(u, ledger, trail)
  BY <1>6 DEF Backed
<1>9. update' = [update EXCEPT ![w] = u]
  BY <1>1 DEF items
<1> HIDE DEF u
<1>10. Requested'
  BY <1>2, <1>7, <1>8, <1>9 DEF LedgerInv, Requested
<1>. QED
  BY <1>2, <1>10 DEF LedgerInv, Trailed, Ledgered, OneBlockPerCall

LEMMA MergeDeclareKeeps ==
    ASSUME LedgerInv, NEW w \in Workers, MergeDeclare(w)
    PROVE  LedgerInv'
<1> DEFINE u == update[w]
<1>1. u.kind = "declare" /\ u.count \in Intents /\ u.seen \in 0..MaxToolCallsOfTurn
  BY DEF MergeDeclare, LedgerInv, Requested, InFlight
<1>2. u.seen \in 0..Len(trail) /\ Untouched(trail, u.seen)
  BY <1>1 DEF LedgerInv, Requested, Backed, Trailed
<1>3. update' = [update EXCEPT ![w] = Idle] /\ trail' = trail
  BY DEF MergeDeclare
<1>4. Idle \in InFlight /\ \A led, d : Backed(Idle, led, d)
  BY DEF Idle, InFlight, Backed
<1>5. CASE ledger = <<>>
  <2>1. /\ ledger' = [i \in 1..u.count |-> Pending]
        /\ local' = [local EXCEPT ![w] = 1..u.count]
        /\ declared' = u.seen
    BY <1>5 DEF MergeDeclare
  <2>2. DOMAIN ledger = {} /\ DOMAIN ledger' = 1..u.count /\ 1..u.count \subseteq Intents
    BY <1>1, <1>5, <2>1, LedgerAssumption DEF Intents
  <2>3. \A i \in DOMAIN ledger' : ledger'[i] = Pending
    BY <2>1
  <2>4. Pending \in Intent
    BY LedgerAssumption DEF Pending, Intent, Statuses
  <2>5. ledger' \in Ledgers
    <3>1. u.count \in 0..MAX_INTENTS /\ ledger' \in [1..u.count -> Intent]
      BY <1>1, <2>1, <2>4, LedgerAssumption DEF Intents
    <3>. QED
      BY <3>1 DEF Ledgers
  <2>6. Ledgered'
    BY <2>3, <2>5 DEF Ledgered, OneBlockPerCall, Pending, Supports, Closing
  <2>7. Trailed'
    BY <1>2, <1>3, <2>1, <2>2 DEF LedgerInv, Trailed
  <2>8. Requested'
    <3>1. \A v \in Workers : Backed(update'[v], ledger', trail)
      BY <1>3, <1>4, <2>2, BackedByMore DEF LedgerInv, Requested
    <3>. QED
      BY <1>3, <1>4, <2>1, <2>2, <3>1 DEF LedgerInv, Requested
  <2>. QED
    BY <2>6, <2>7, <2>8 DEF LedgerInv
<1>6. CASE ledger # <<>>
  <2>1. UNCHANGED <<ledger, local, declared>>
    BY <1>6 DEF MergeDeclare
  <2>2. Requested'
    BY <1>3, <1>4, <2>1 DEF LedgerInv, Requested
  <2>. QED
    BY <1>3, <2>1, <2>2 DEF LedgerInv, Trailed, Ledgered, OneBlockPerCall
<1>. QED
  BY <1>5, <1>6

LEMMA MergeChangeKeeps ==
    ASSUME LedgerInv, NEW w \in Workers, MergeChange(w)
    PROVE  LedgerInv'
<1> DEFINE items == update[w].items
           new == Merged(ledger, items)
<1>1. update[w].kind = "change" /\ items \in Updates
  BY DEF MergeChange, LedgerInv, Requested, InFlight
<1>2. /\ DOMAIN items \subseteq DOMAIN ledger
      /\ \A i \in DOMAIN items : Supports(items[i], trail) /\ items[i] \in Intent
  BY <1>1 DEF LedgerInv, Requested, Backed, Updates
<1>3. update' = [update EXCEPT ![w] = Idle] /\ trail' = trail /\ declared' = declared
  BY DEF MergeChange
<1>4. Idle \in InFlight /\ \A led, d : Backed(Idle, led, d)
  BY DEF Idle, InFlight, Backed
<1>5. CASE Accepts(ledger, items)
  <2>1. ledger' = new /\ local' = [local EXCEPT ![w] = DOMAIN ledger]
    BY <1>5 DEF MergeChange
  <2>2. DOMAIN new = DOMAIN ledger
    BY DEF Merged
  <2>3. \A i \in DOMAIN new : Supports(new[i], trail) /\ new[i] \in Intent
    BY <1>2, IntentsOf DEF Merged, LedgerInv, Ledgered
  <2>4. new \in Ledgers
    <3>1. PICK n \in 0..MAX_INTENTS : ledger \in [1..n -> Intent]
      BY IntentsOf DEF LedgerInv, Ledgered
    <3>2. new \in [1..n -> Intent]
      BY <2>2, <2>3, <3>1 DEF Merged
    <3>. QED
      BY <3>2 DEF Ledgers
  <2>5. BlockEvidenceDistinct(new)
    BY <1>5 DEF Accepts
  <2> HIDE DEF new
  <2>6. ASSUME NEW i \in DOMAIN new, NEW j \in DOMAIN new, i # j,
               new[i].status = "blocked", new[j].status = "blocked"
        PROVE  new[i].evidence # new[j].evidence
    <3>1. new[i].evidence \in DOMAIN trail
      BY <2>3, <2>6 DEF Supports, Closing
    <3>2. new[i].evidence # 0
      BY <3>1 DEF LedgerInv, Trailed
    <3>. QED
      BY <2>5, <2>6, <3>2 DEF BlockEvidenceDistinct
  <2>7. Ledgered'
    BY <1>3, <2>1, <2>3, <2>4, <2>6 DEF Ledgered, OneBlockPerCall
  <2>8. Requested'
    <3>1. DOMAIN ledger \subseteq Intents
      BY IntentsOf DEF LedgerInv, Ledgered
    <3>2. \A v \in Workers : Backed(update'[v], ledger', trail)
      BY <1>3, <1>4, <2>1, <2>2, BackedByMore DEF LedgerInv, Requested
    <3>. QED
      BY <1>3, <1>4, <2>1, <2>2, <3>1, <3>2 DEF LedgerInv, Requested
  <2>9. Trailed'
    BY <1>3, <2>1, <2>2 DEF LedgerInv, Trailed
  <2>. QED
    BY <2>7, <2>8, <2>9 DEF LedgerInv
<1>6. CASE ~Accepts(ledger, items)
  <2>1. UNCHANGED <<ledger, local>>
    BY <1>6 DEF MergeChange
  <2>2. Requested'
    BY <1>3, <1>4, <2>1 DEF LedgerInv, Requested
  <2>. QED
    BY <1>3, <2>1, <2>2 DEF LedgerInv, Trailed, Ledgered, OneBlockPerCall
<1>. QED
  BY <1>5, <1>6

LEMMA ReloadKeeps ==
    ASSUME LedgerInv, NEW w \in Workers, Reload(w)
    PROVE  LedgerInv'
<1>1. DOMAIN ledger \subseteq Intents
  BY IntentsOf DEF LedgerInv, Ledgered
<1>2. Requested'
  BY <1>1 DEF Reload, LedgerInv, Requested
<1>. QED
  BY <1>2 DEF Reload, LedgerInv, Trailed, Ledgered, OneBlockPerCall

LEMMA NextKeepsLedgerInv == LedgerInv /\ [LedgerNext]_ledgerVars => LedgerInv'
<1> SUFFICES ASSUME LedgerInv, [LedgerNext]_ledgerVars PROVE LedgerInv'
  OBVIOUS
<1>1. CASE UNCHANGED ledgerVars
  BY <1>1 DEF ledgerVars, LedgerInv, Trailed, Ledgered, Requested, OneBlockPerCall
<1>2. CASE LedgerNext
  <2>1. PICK w \in Workers :
          \/ Call(w) \/ BeginDeclare(w) \/ BeginChange(w)
          \/ MergeDeclare(w) \/ MergeChange(w) \/ Reload(w)
    BY <1>2 DEF LedgerNext
  <2>. QED
    BY <2>1, CallKeeps, BeginDeclareKeeps, BeginChangeKeeps, MergeDeclareKeeps,
       MergeChangeKeeps, ReloadKeeps
<1>. QED
  BY <1>1, <1>2

---------------------------------------------------------------------------
(* The theorems                                                            *)

(* Whatever requests of a turn call, declare and close between each        *)
(* other's reads and writes, what the ledger and the updates in flight     *)
(* hold is supported by the trail.                                         *)
THEOREM LedgerInvariant == LedgerSpec => []LedgerInv
BY InitLedgerInv, NextKeepsLedgerInv, PTL DEF LedgerSpec

(* A closed intent cites a call of the right kind, a refused or empty call *)
(* blocks one intent, and the intents were declared before the work        *)
(* (_bind_evidence_against_trail, _check_block_evidence_distinct and       *)
(* find_locking_tool).                                                     *)
THEOREM ClosingsStandOnEvidence == LedgerSpec => []ClosingsSupported
<1>1. LedgerInv => ClosingsSupported
  <2> SUFFICES ASSUME LedgerInv PROVE ClosingsSupported
    OBVIOUS
  <2>1. LedgerTypeOK
    BY DEF LedgerInv, Trailed, Ledgered, Requested, LedgerTypeOK
  <2>2. DeclaredBeforeWork
    BY DEF LedgerInv, Trailed, Untouched, DeclaredBeforeWork
  <2>3. ASSUME NEW i \in DOMAIN ledger
        PROVE  LET x == ledger[i]
                   o == trail[x.evidence].out
               IN  /\ Closing(x.status) => x.evidence \in DOMAIN trail
                   /\ x.status = "completed" =>
                         /\ o.status = "ok" /\ o.code # "served"
                         /\ o.tool \notin {"resolveValues"}
                         /\ o.tool = "runBlueprint" => o.authoritative
                   /\ x.status = "blocked" =>
                         \/ x.reason = "NO_ACCESS" /\ o.status = "failed" /\ o.code = "NO_ACCESS"
                         \/ /\ x.reason = "REQUIRED_DATA_UNAVAILABLE"
                            /\ o.status = "ok" /\ o.code # "served" /\ o.rows = "none"
    <3> DEFINE x == ledger[i]
               e == trail[x.evidence]
    <3>1. Supports(x, trail)
      BY DEF LedgerInv, Ledgered
    <3>2. Closing(x.status) => e.out.status \in {"ok", "failed"}
      BY <3>1, OutcomeStatus DEF Supports, LedgerInv, Trailed, Entries
    <3>3. x.status = "completed" => Completes(e)
      BY <3>1 DEF Supports
    <3>4. x.status = "blocked" =>
            \/ x.reason = "NO_ACCESS" /\ ShowsNoAccess(e)
            \/ x.reason = "REQUIRED_DATA_UNAVAILABLE" /\ ShowsNoData(e)
      BY <3>1, BlockReasons DEF Supports, DERIVABLE_REASON_CODES
    <3> HIDE DEF x, e
    <3>5. /\ x.status = "completed" =>
                /\ e.out.status = "ok" /\ e.out.code # "served"
                /\ e.out.tool \notin {"resolveValues"}
                /\ e.out.tool = "runBlueprint" => e.out.authoritative
      BY <3>3 DEF Completes, FetchedItself, COMPLETION_EVIDENCE_TOOLS
    <3>6. x.status = "blocked" =>
            \/ x.reason = "NO_ACCESS" /\ e.out.status = "failed" /\ e.out.code = "NO_ACCESS"
            \/ /\ x.reason = "REQUIRED_DATA_UNAVAILABLE"
               /\ e.out.status = "ok" /\ e.out.code # "served" /\ e.out.rows = "none"
      BY <3>2, <3>4 DEF ShowsNoAccess, ShowsNoData, FetchedItself, Closing
    <3>. QED
      BY <3>1, <3>5, <3>6 DEF x, e, Supports
  <2>4. EvidenceHolds
    BY <2>3 DEF EvidenceHolds
  <2>. QED
    BY <2>1, <2>2, <2>4 DEF ClosingsSupported, LedgerInv, Ledgered
<1>. QED
  BY <1>1, LedgerInvariant, PTL

(* No update guesses its evidence between two calls (resolve_evidence),    *)
(* and none undoes a closing of another request (the merge inside the CAS  *)
(* of apply_analysis_state).                                               *)
LEMMA GuessStep ==
    ASSUME LedgerInv, NEW w \in Workers, BeginChange(w),
           NEW i \in DOMAIN update'[w].items
    PROVE  LET x == update'[w].items[i] IN
           (Closing(x.status) /\ x # ledger[i] /\ trail[x.evidence].tag # i) =>
               ~\E k \in DOMAIN trail :
                   /\ k # x.evidence /\ trail[k].tag = Untagged
                   /\ trail[k].out.tool \in SUBSTANTIVE_TOOLS
                   /\ Validates(trail[k], x.status)
<1>1. PICK ask \in Changes :
        /\ DOMAIN ask \subseteq DOMAIN ledger
        /\ \A q \in DOMAIN ask : CanBind(q, ask[q], ledger, trail)
        /\ update' = [update EXCEPT ![w] =
             [kind |-> "change", items |-> [q \in DOMAIN ask |-> Bound(q, ask[q], ledger, trail)]]]
  BY DEF BeginChange
<1> DEFINE x == update'[w].items[i]
           k == ResolveEvidence(i, ask[i], trail)
<1>2. i \in DOMAIN ask /\ x = Bound(i, ask[i], ledger, trail)
  BY <1>1 DEF LedgerInv, Requested
<1>3. DOMAIN trail = 1..Len(trail) /\ Len(trail) \in Nat
  BY DEF LedgerInv, Trailed
<1>4. SUFFICES ASSUME Closing(x.status), x # ledger[i], trail[x.evidence].tag # i,
                      NEW j \in DOMAIN trail, j # x.evidence, trail[j].tag = Untagged,
                      trail[j].out.tool \in SUBSTANTIVE_TOOLS,
                      Validates(trail[j], x.status)
               PROVE  FALSE
  OBVIOUS
<1>5. Closing(ask[i]) /\ ~KeepsEvidence(i, ask[i], ledger)
  BY <1>2, <1>4 DEF Bound, Closing, Pending
<1>6. x.status = ask[i] /\ x.evidence = k /\ k # 0
  BY <1>1, <1>2, <1>5 DEF Bound, CanBind
<1>7. ~Guessable(trail[j], ask[i])
  BY <1>3, <1>4, <1>6, Resolved
<1>. QED
  BY <1>4, <1>6, <1>7 DEF Guessable

THEOREM UpdatesNeitherGuessNorLose == LedgerSpec => UpdatesAreSafe
<1> DEFINE NoGuess == \A w \in Workers :
        (update[w] = Idle /\ update'[w].kind = "change") =>
            \A i \in DOMAIN update'[w].items :
                LET x == update'[w].items[i] IN
                (Closing(x.status) /\ x # ledger[i] /\ trail[x.evidence].tag # i) =>
                    ~\E k \in DOMAIN trail :
                        /\ k # x.evidence /\ trail[k].tag = Untagged
                        /\ trail[k].out.tool \in SUBSTANTIVE_TOOLS
                        /\ Validates(trail[k], x.status)
           NoLoss == ledger # <<>> =>
        /\ DOMAIN ledger' = DOMAIN ledger
        /\ \A i \in DOMAIN ledger :
              ledger'[i] # ledger[i] =>
                \E w \in Workers : /\ update[w].kind = "change" /\ update'[w] = Idle
                                   /\ i \in DOMAIN update[w].items
<1>1. LedgerInv /\ [LedgerNext]_ledgerVars => [NoGuess]_ledgerVars
  <2> SUFFICES ASSUME LedgerInv, LedgerNext, NEW w \in Workers,
                      update[w] = Idle, update'[w].kind = "change"
               PROVE  BeginChange(w)
    BY GuessStep
  <2>1. update[w].kind # "change"
    BY DEF Idle
  <2>2. PICK v \in Workers :
          \/ Call(v) \/ BeginDeclare(v) \/ BeginChange(v)
          \/ MergeDeclare(v) \/ MergeChange(v) \/ Reload(v)
    BY DEF LedgerNext
  <2>3. update \in [Workers -> InFlight] /\ update'[w] # update[w]
    BY <2>1 DEF LedgerInv, Requested
  <2>4. CASE BeginChange(v)
    BY <2>3, <2>4 DEF BeginChange
  <2>5. CASE Call(v) \/ Reload(v)
    BY <2>3, <2>5 DEF Call, Reload
  <2>6. CASE BeginDeclare(v)
    BY <2>3, <2>6 DEF BeginDeclare
  <2>7. CASE MergeDeclare(v) \/ MergeChange(v)
    BY <2>3, <2>7 DEF MergeDeclare, MergeChange
  <2>. QED
    BY <2>2, <2>4, <2>5, <2>6, <2>7
<1>2. LedgerInv /\ [LedgerNext]_ledgerVars => [NoLoss]_ledgerVars
  <2> SUFFICES ASSUME LedgerInv, LedgerNext, ledger # <<>> PROVE NoLoss
    OBVIOUS
  <2>1. PICK v \in Workers :
          \/ Call(v) \/ BeginDeclare(v) \/ BeginChange(v)
          \/ MergeDeclare(v) \/ MergeChange(v) \/ Reload(v)
    BY DEF LedgerNext
  <2>2. CASE ledger' = ledger
    BY <2>2
  <2>3. CASE MergeChange(v) /\ ledger' # ledger
    <3>1. ledger' = Merged(ledger, update[v].items) /\ update[v].kind = "change"
      BY <2>3 DEF MergeChange
    <3>2. update'[v] = Idle
      BY <2>3 DEF MergeChange, LedgerInv, Requested
    <3>. QED
      BY <3>1, <3>2 DEF Merged
  <2>. QED
    BY <2>1, <2>2, <2>3
       DEF Call, BeginDeclare, BeginChange, MergeDeclare, Reload
<1>3. LedgerSpec => [][NoGuess]_ledgerVars
  BY <1>1, LedgerInvariant, PTL DEF LedgerSpec
<1>4. LedgerSpec => [][NoLoss]_ledgerVars
  BY <1>2, LedgerInvariant, PTL DEF LedgerSpec
<1>. QED
  BY <1>3, <1>4 DEF UpdatesAreSafe, NoGuessBetweenTwo, NoLostClosing

---------------------------------------------------------------------------
(* The document                                                            *)
USE DEF PC, Effective, NoEffect

(* The two documents that are not results of a call are documents.         *)
LEMMA DocTypes ==
    /\ NoDoc \in Doc
    /\ EmptyDoc \in Doc
    /\ EmptyDoc # NoDoc
    /\ NoOp \notin Ops
    /\ 0 \notin Calls
    /\ -1 \notin Calls
    /\ Calls \subseteq Nat
BY StoreAssumption DEF NoDoc, EmptyDoc, Doc, NoOp, Ops, Kinds

(* What a call answers and makes of a document is well typed, and its      *)
(* result is never the missing document.                                   *)
LEMMA EffectTypes ==
    ASSUME NEW d \in Doc, NEW c \in Calls, NEW o \in [Calls -> Ops \cup {NoOp}], o[c] \in Ops,
           d.cp # -1
    PROVE  /\ Effect(d, c, o) \in Doc
           /\ Effect(d, c, o).cp # -1
           /\ Answer(d, c, o) \in {"ok", "granted", "resumed", "opened", "refused", "consumed"}
           /\ d.items \subseteq Effect(d, c, o).items
BY DocTypes DEF Effect, Answer, Doc, Ops, Kinds

(* What a resume, and any other call, does to the checkpoint.              *)
LEMMA EffectCheckpoint ==
    ASSUME NEW d \in Doc, NEW c \in Calls, NEW o \in [Calls -> Ops \cup {NoOp}], o[c] \in Ops
    PROVE  /\ o[c][1] = "resume" /\ d.cp # 0 /\ ~d.used =>
                /\ Answer(d, c, o) = "resumed"
                /\ Effect(d, c, o).cp = d.cp
                /\ Effect(d, c, o).used = TRUE
           /\ o[c][1] # "resume" => Answer(d, c, o) # "resumed"
           /\ o[c][1] = "pause" => Effect(d, c, o).cp = c
           /\ o[c][1] \notin {"pause", "resume"} =>
                Effect(d, c, o).cp = d.cp /\ Effect(d, c, o).used = d.used
BY DocTypes DEF Effect, Answer, Doc, Ops, Kinds

(* Only a resume that finds an open checkpoint answers "resumed".          *)
LEMMA AnswerResumed ==
    ASSUME NEW d \in Doc, NEW c \in Calls, NEW o \in [Calls -> Ops \cup {NoOp}], o[c] \in Ops
    PROVE  Answer(d, c, o) = "resumed" <=> o[c][1] = "resume" /\ d.cp # 0 /\ d.used = FALSE
BY DocTypes DEF Answer, Doc, Ops, Kinds

(* The call of a request that is in one.                                   *)
LEMMA CallTypes ==
    ASSUME TypeOK, CallsOwned, NEW p \in Procs, pc[p] # "idle"
    PROVE  /\ call[p] \in Calls
           /\ op[call[p]] \in Ops
           /\ op[call[p]] # NoOp
           /\ ret[call[p]] = "none"
BY DocTypes, StoreAssumption DEF TypeOK, CallsOwned, OwnCall

(* Initially nothing is there.                                             *)
LEMMA InitIInv == Init => IInv
<1> SUFFICES ASSUME Init PROVE IInv
  OBVIOUS
<1> USE DocTypes, StoreAssumption DEF Init, AtomicInit
<1>1. TypeOK
  BY DEF TypeOK
<1>2. CallsOwned
  BY DEF CallsOwned, OwnCall
<1>3. CopyCurrent /\ ResumeReady
  BY DEF CopyCurrent, ResumeReady
<1>4. CheckpointsSpent /\ ResumedOnce
  BY DEF CheckpointsSpent, ResumedOnce, NoDoc
<1> QED
  BY <1>1, <1>2, <1>3, <1>4 DEF IInv

---------------------------------------------------------------------------
(* What a call's own memory may become: it is still in the call, or the    *)
(* call is over.                                                           *)
Keeps(p) ==
    /\ \A q \in Procs \ {p} : /\ pc'[q] = pc[q] /\ call'[q] = call[q] /\ copy'[q] = copy[q]
                              /\ token'[q] = token[q]
    /\ pc'[p] # "idle" => call'[p] = call[p] /\ ret' = ret
    /\ pc'[p] = "idle" => \E a \in Effective \cup NoEffect :
                            a # "none" /\ ret' = [ret EXCEPT ![call[p]] = a]
    /\ op' = op
    /\ calls' = calls

(* The replace that wins: the copy is the document.                        *)
Writes(p) ==
    /\ pc[p] = "replace"
    /\ ReplaceWins(p)
    /\ doc' = Effect(doc, call[p], op)
    /\ cas' = cas + 1
    /\ pc'[p] = "idle"
    /\ ret' \in {[ret EXCEPT ![call[p]] = a] : a \in {Answer(doc, call[p], op), "raised"}}
    /\ took' = [took EXCEPT ![call[p]] = IF ret'[call[p]] = "resumed" THEN doc.cp ELSE @]

(* Every other step of a call: it leaves the document alone or creates a   *)
(* new one, and does not claim to have changed it.                         *)
Reads(p) ==
    /\ pc[p] # "idle"
    /\ \/ doc' = doc /\ cas' = cas
       \/ doc' = EmptyDoc /\ cas' = cas + 1
    /\ took' = took
    /\ \A c \in Calls : ret'[c] = "resumed" => ret[c] = "resumed"

(* A winning replace writes what the call makes of the current document.   *)
LEMMA ReplaceWrites ==
    ASSUME IInv, NEW p \in Procs, Replace(p), ReplaceWins(p)
    PROVE  Keeps(p) /\ Writes(p)
<1>1. pc[p] = "replace" /\ copy[p] = doc /\ pc[p] # "idle"
  BY DEF IInv, CopyCurrent, Replace
<1>2. call[p] \in Calls /\ op[call[p]] \in Ops /\ ret[call[p]] = "none"
  BY <1>1, CallTypes DEF IInv
<1>3. /\ WriteCopy(p)
      /\ Return(p, Answer(doc, call[p], op))
      /\ took' = [took EXCEPT ![call[p]] = IF Kind(p) = "resume" THEN doc.cp ELSE @]
      /\ UNCHANGED <<op, calls, expiries, timeouts>>
  BY <1>1 DEF Replace, ReplaceWins
<1>4. doc.cp # -1 /\ doc \in Doc
  BY <1>1, DocTypes DEF IInv, TypeOK, CheckpointsSpent, ReplaceWins
<1>5. Answer(doc, call[p], op) \in {"ok", "granted", "resumed", "opened", "refused", "consumed"}
  BY <1>2, <1>4, EffectTypes DEF IInv, TypeOK
<1>6. Answer(doc, call[p], op) = "resumed" <=> Kind(p) = "resume"
  <2>1. Kind(p) = "resume" => doc.cp \in Calls /\ ~doc.used
    BY <1>1 DEF IInv, ResumeReady
  <2>2. Kind(p) = "resume" => doc.cp # 0
    BY <2>1, DocTypes
  <2>3. op \in [Calls -> Ops \cup {NoOp}]
    BY DEF IInv, TypeOK
  <2>4. Kind(p) = "resume" => doc.used = FALSE
    BY <2>1, <1>4 DEF Doc
  <2> QED
    BY <2>2, <2>3, <2>4, <1>2, <1>4, AnswerResumed DEF Kind
<1>7. Keeps(p)
  BY <1>2, <1>3, <1>5 DEF Keeps, Return, IInv, TypeOK
<1>8. ret'[call[p]] = Answer(doc, call[p], op)
  BY <1>2, <1>3 DEF Return, IInv, TypeOK
<1>9. took' = [took EXCEPT ![call[p]] = IF ret'[call[p]] = "resumed" THEN doc.cp ELSE @]
  BY <1>3, <1>6, <1>8
<1>10. Writes(p)
  BY <1>1, <1>3, <1>9 DEF Writes, Replace, WriteCopy, Return, IInv, TypeOK
<1> QED
  BY <1>7, <1>10

(* A command that raises after its write: the same, with another answer.   *)
LEMMA TimeoutWrites ==
    ASSUME IInv, NEW p \in Procs, Timeout(p), ~(UNCHANGED <<doc, cas>>), pc[p] # "create"
    PROVE  Keeps(p) /\ Writes(p)
<1>1. /\ pc[p] = "replace"
      /\ ReplaceWins(p)
      /\ WriteCopy(p)
      /\ Return(p, "raised")
      /\ UNCHANGED <<op, took, calls>>
  BY DEF Timeout
<1>2. call[p] \in Calls /\ op[call[p]] \in Ops /\ ret[call[p]] = "none"
  BY <1>1, CallTypes DEF IInv
<1>3. copy[p] = doc
  BY <1>1 DEF IInv, CopyCurrent
<1>4. ret'[call[p]] = "raised" /\ took' = [took EXCEPT ![call[p]] = took[call[p]]]
  BY <1>1, <1>2 DEF Return, IInv, TypeOK
<1> QED
  BY <1>1, <1>2, <1>3, <1>4 DEF Keeps, Writes, WriteCopy, Return, IInv, TypeOK

(* Every step of a call writes or only reads.                              *)
LEMMA CallStep ==
    ASSUME IInv, NEW p \in Procs, Step(p), ~Start(p)
    PROVE  Keeps(p) /\ (Writes(p) \/ Reads(p))
<1> USE DEF Return, GoTo, IInv, TypeOK
<1>0. pc[p] # "idle"
  BY DEF Step, Get, Recheck, CreateSession, Reget, ResumeGet, Replace, Timeout
<1>1. call[p] \in Calls /\ ret[call[p]] = "none"
  BY <1>0, CallTypes
<1>2. CASE Get(p)
  BY <1>2, <1>0, <1>1 DEF Get, Keeps, Reads
<1>3. CASE Recheck(p)
  BY <1>3, <1>0, <1>1 DEF Recheck, Keeps, Reads
<1>4. CASE CreateSession(p)
  BY <1>4, <1>0, <1>1 DEF CreateSession, Keeps, Reads
<1>5. CASE Reget(p)
  BY <1>5, <1>0, <1>1 DEF Reget, Retry, Keeps, Reads
<1>6. CASE ResumeGet(p)
  BY <1>6, <1>0, <1>1 DEF ResumeGet, Keeps, Reads
<1>7. CASE Replace(p)
  <2>1. CASE ReplaceWins(p)
    BY <1>7, <2>1, ReplaceWrites
  <2>2. CASE ~ReplaceWins(p)
    BY <1>7, <2>2, <1>0, <1>1 DEF Replace, Retry, Keeps, Reads
  <2> QED
    BY <2>1, <2>2
<1>8. CASE Timeout(p)
  <2>1. CASE UNCHANGED <<doc, cas>> \/ pc[p] = "create"
    BY <1>8, <2>1, <1>0, <1>1 DEF Timeout, Keeps, Reads
  <2> QED
    BY <1>8, <2>1, TimeoutWrites
<1> QED
  BY <1>2, <1>3, <1>4, <1>5, <1>6, <1>7, <1>8 DEF Step

---------------------------------------------------------------------------
(* The memory of the requests has its types, after a call returns as well. *)
LocalsTyped ==
    /\ pc \in [Procs -> PC]
    /\ call \in [Procs -> {0} \cup Calls]
    /\ copy \in [Procs -> Doc]
    /\ token \in [Procs -> Nat]
    /\ attempt \in [Procs -> 0..(MaxCasRetries - 1)]

LEMMA ReturnTyped ==
    ASSUME LocalsTyped, NEW p \in Procs, NEW a, Return(p, a)
    PROVE  LocalsTyped'
<1>1. 0 \in 0..(MaxCasRetries - 1) /\ NoDoc \in Doc
  BY StoreAssumption, DocTypes
<1> QED
  BY <1>1 DEF LocalsTyped, Return

LEMMA RetryTyped ==
    ASSUME LocalsTyped, NEW p \in Procs, Retry(p)
    PROVE  LocalsTyped'
<1>1. CASE attempt[p] + 1 < MaxCasRetries
  <2>1. attempt[p] + 1 \in 0..(MaxCasRetries - 1)
    BY <1>1, StoreAssumption DEF LocalsTyped
  <2> QED
    BY <1>1, <2>1 DEF LocalsTyped, Retry
<1>2. CASE ~(attempt[p] + 1 < MaxCasRetries)
  BY <1>2, ReturnTyped DEF Retry
<1> QED
  BY <1>1, <1>2

LEMMA LocalsStep ==
    ASSUME LocalsTyped, doc \in Doc, cas \in Nat, NEW p \in Procs, Step(p), ~Start(p)
    PROVE  LocalsTyped'
<1>1. CASE Get(p)
  <2>1. CASE \E a : Return(p, a)
    BY <2>1, ReturnTyped
  <2> QED
    BY <1>1, <2>1 DEF LocalsTyped, Get, GoTo
<1>2. CASE Recheck(p)
  <2>1. CASE \E a : Return(p, a)
    BY <2>1, ReturnTyped
  <2> QED
    BY <1>2, <2>1 DEF LocalsTyped, Recheck, GoTo
<1>3. CASE CreateSession(p)
  BY <1>3, ReturnTyped DEF LocalsTyped, CreateSession, GoTo
<1>4. CASE Reget(p)
  <2>1. CASE Retry(p)
    BY <2>1, RetryTyped
  <2> QED
    BY <1>4, <2>1 DEF LocalsTyped, Reget
<1>5. CASE ResumeGet(p)
  <2>1. CASE \E a : Return(p, a)
    BY <2>1, ReturnTyped
  <2> QED
    BY <1>5, <2>1 DEF LocalsTyped, ResumeGet
<1>6. CASE Replace(p)
  BY <1>6, ReturnTyped, RetryTyped DEF Replace
<1>7. CASE Timeout(p)
  BY <1>7, ReturnTyped DEF Timeout
<1> QED
  BY <1>1, <1>2, <1>3, <1>4, <1>5, <1>6, <1>7 DEF Step

(* Every step keeps the types.                                             *)
LEMMA TypeStep == IInv /\ [Next]_vars => TypeOK'
<1> SUFFICES ASSUME IInv, [Next]_vars PROVE TypeOK'
  OBVIOUS
<1> USE DocTypes, StoreAssumption DEF IInv, TypeOK
<1>1. CASE UNCHANGED vars
  BY <1>1 DEF vars, atomicVars, procVars
<1>2. CASE SessionExpires
  BY <1>2 DEF SessionExpires, procVars
<1>3. ASSUME NEW p \in Procs, Start(p) PROVE TypeOK'
  BY <1>3 DEF Start
<1>4. ASSUME NEW p \in Procs, Step(p), ~Start(p) PROVE TypeOK'
  <2>1. Keeps(p) /\ (Writes(p) \/ Reads(p))
    BY <1>4, CallStep
  <2>2. pc[p] # "idle" /\ call[p] \in Calls /\ op[call[p]] \in Ops
    BY <2>1, CallTypes DEF Writes, Reads
  <2>3. doc' \in Doc
    BY <2>1, <2>2, EffectTypes DEF Writes, Reads, ReplaceWins, CheckpointsSpent
  <2>4. cas' \in Nat
    BY <2>1 DEF Writes, Reads
  <2>5. ret' \in [Calls -> Effective \cup NoEffect] /\ op' = op /\ calls' = calls
    <3>1. CASE pc'[p] = "idle"
      <4>1. PICK a \in Effective \cup NoEffect : ret' = [ret EXCEPT ![call[p]] = a]
        BY <2>1, <3>1 DEF Keeps
      <4> QED
        BY <2>1, <2>2, <4>1 DEF Keeps
    <3>2. CASE pc'[p] # "idle"
      BY <2>1, <3>2 DEF Keeps
    <3> QED
      BY <3>1, <3>2
  <2>6. took' \in [Calls -> {0} \cup Calls]
    <3>1. CASE Reads(p)
      BY <3>1 DEF Reads
    <3>2. CASE Writes(p)
      <4>1. doc.cp \in {0} \cup Calls
        BY <3>2 DEF Writes, ReplaceWins, CheckpointsSpent
      <4> QED
        BY <3>2, <4>1, <2>2 DEF Writes
    <3> QED
      BY <2>1, <3>1, <3>2
  <2>7. LocalsTyped'
    BY <1>4, LocalsStep DEF LocalsTyped
  <2>8. expiries' = expiries /\ timeouts' \in 0..MaxTimeouts
    BY <1>4 DEF Step, Get, Recheck, CreateSession, Reget, ResumeGet, Replace, Timeout
  <2> QED
    BY <2>3, <2>4, <2>5, <2>6, <2>7, <2>8 DEF LocalsTyped
<1> QED
  BY <1>1, <1>2, <1>3, <1>4 DEF Next, Step

(* Calls stay with the request that started them.                          *)
LEMMA CallsStep == IInv /\ [Next]_vars => CallsOwned'
<1> SUFFICES ASSUME IInv, [Next]_vars PROVE CallsOwned'
  OBVIOUS
<1> USE DocTypes, StoreAssumption DEF IInv, TypeOK, CallsOwned, OwnCall
<1>1. CASE UNCHANGED vars
  BY <1>1 DEF vars, atomicVars, procVars
<1>2. CASE SessionExpires
  BY <1>2 DEF SessionExpires, procVars
<1>3. ASSUME NEW p \in Procs, Start(p) PROVE CallsOwned'
  <2>1. /\ calls + 1 \in Calls /\ calls' = calls + 1 /\ ret' = ret
        /\ \E o \in Ops : op' = [op EXCEPT ![calls + 1] = o]
        /\ pc' = [pc EXCEPT ![p] = "get"]
        /\ call' = [call EXCEPT ![p] = calls + 1]
    <3>1. calls + 1 \in Calls
      BY <1>3 DEF Start
    <3> QED
      BY <1>3, <3>1 DEF Start
  <2>2. \A q \in Procs : OwnCall(q)'
    BY <2>1
  <2>3. \A q, r \in Procs : pc'[q] # "idle" /\ pc'[r] # "idle" /\ call'[q] = call'[r] => q = r
    BY <2>1
  <2>4. \A c \in Calls : c > calls' => op'[c] = NoOp /\ ret'[c] = "none"
    BY <2>1
  <2> QED
    BY <2>2, <2>3, <2>4
<1>0. \A q, r \in Procs : pc[q] # "idle" /\ pc[r] # "idle" /\ call[q] = call[r] => q = r
  BY DEF CallsOwned
<1>4. ASSUME NEW p \in Procs, Step(p), ~Start(p) PROVE CallsOwned'
  <2>1. Keeps(p) /\ pc[p] # "idle"
    BY <1>4, CallStep DEF Writes, Reads
  <2>2. call[p] \in Calls
    BY <2>1, CallTypes
  <2>3. \A q \in Procs : OwnCall(q)'
    BY <2>1, <2>2 DEF Keeps
  <2>4. ASSUME NEW q \in Procs, NEW r \in Procs,
               pc'[q] # "idle", pc'[r] # "idle", call'[q] = call'[r]
        PROVE  q = r
    <3>1. call'[q] = call[q] /\ pc[q] # "idle" /\ call'[r] = call[r] /\ pc[r] # "idle"
      BY <2>1, <2>4 DEF Keeps
    <3>2. call[q] = call[r]
      BY <3>1, <2>4, Zenon
    <3> QED
      BY <3>1, <3>2, <1>0, Zenon
  <2>5. \A c \in Calls : c > calls' => op'[c] = NoOp /\ ret'[c] = "none"
    BY <2>1, <2>2 DEF Keeps
  <2> QED
    BY <2>3, <2>4, <2>5
<1> QED
  BY <1>1, <1>2, <1>3, <1>4 DEF Next, Step

(* A write makes every other token stale; a read takes a current one.      *)
LEMMA CopyStep == IInv /\ [Next]_vars => CopyCurrent'
<1> SUFFICES ASSUME IInv, [Next]_vars PROVE CopyCurrent'
  OBVIOUS
<1> USE DocTypes, StoreAssumption DEF IInv, TypeOK, CopyCurrent, ReplaceWins
<1>1. CASE UNCHANGED vars
  BY <1>1 DEF vars, atomicVars, procVars
<1>2. CASE SessionExpires
  BY <1>2 DEF SessionExpires, procVars
<1>3. ASSUME NEW p \in Procs, Start(p) PROVE CopyCurrent'
  BY <1>3 DEF Start
<1>4. ASSUME NEW p \in Procs, Step(p), ~Start(p) PROVE CopyCurrent'
  <2>1. Keeps(p) /\ (Writes(p) \/ Reads(p))
    BY <1>4, CallStep
  <2>2. ASSUME NEW q \in Procs \ {p}
        PROVE  token'[q] <= cas' /\ (pc'[q] = "replace" /\ doc' # NoDoc /\ token'[q] = cas' => copy'[q] = doc')
    BY <2>1 DEF Keeps, Writes, Reads
  <2>3. token'[p] <= cas' /\ (pc'[p] = "replace" /\ doc' # NoDoc /\ token'[p] = cas' => copy'[p] = doc')
    <3> USE <1>4 DEF Return, GoTo
    <3>1. CASE Get(p) \/ Recheck(p) \/ ResumeGet(p)
      BY <3>1 DEF Get, Recheck, ResumeGet
    <3>2. CASE CreateSession(p)
      BY <3>2 DEF CreateSession
    <3>3. CASE Reget(p)
      BY <3>3 DEF Reget, Retry
    <3>4. CASE Replace(p)
      BY <3>4 DEF Replace, Retry, WriteCopy
    <3>5. CASE Timeout(p)
      BY <3>5 DEF Timeout, WriteCopy
    <3> QED
      BY <3>1, <3>2, <3>3, <3>4, <3>5 DEF Step
  <2> QED
    BY <2>2, <2>3
<1> QED
  BY <1>1, <1>2, <1>3, <1>4 DEF Next, Step

(* What resume_checkpoint has found when it goes on.                       *)
LEMMA ResumeChecks ==
    ASSUME TypeOK, CallsOwned, CheckpointsSpent, NEW p \in Procs, pc[p] # "idle",
           doc # NoDoc, Answer(doc, call[p], op) = "resumed"
    PROVE  doc.cp \in Calls /\ ~doc.used
<1>1. call[p] \in Calls /\ op[call[p]] \in Ops
  BY CallTypes
<1>2. doc \in Doc /\ op \in [Calls -> Ops \cup {NoOp}]
  BY DEF TypeOK
<1>3. doc.cp # 0 /\ doc.used = FALSE
  BY <1>1, <1>2, AnswerResumed
<1> QED
  BY <1>3 DEF CheckpointsSpent

(* A resume reaches its replace through resume_checkpoint's check.         *)
LEMMA ReadyStep == IInv /\ [Next]_vars => ResumeReady'
<1> SUFFICES ASSUME IInv, [Next]_vars PROVE ResumeReady'
  OBVIOUS
<1> USE DocTypes, StoreAssumption DEF IInv, TypeOK, ResumeReady, Kind
<1>1. CASE UNCHANGED vars
  BY <1>1 DEF vars, atomicVars, procVars
<1>2. CASE SessionExpires
  BY <1>2 DEF SessionExpires, procVars
<1>3. ASSUME NEW p \in Procs, Start(p) PROVE ResumeReady'
  <2>1. ASSUME NEW q \in Procs \ {p}, pc[q] # "idle" PROVE call[q] \in Calls /\ op'[call[q]] = op[call[q]]
    BY <1>3, <2>1 DEF Start, CallsOwned, OwnCall
  <2> QED
    BY <1>3, <2>1 DEF Start
<1>4. ASSUME NEW p \in Procs, Step(p), ~Start(p) PROVE ResumeReady'
  <2>1. Keeps(p) /\ pc[p] # "idle" /\ call[p] \in Calls /\ op[call[p]] \in Ops
    BY <1>4, CallStep, CallTypes DEF Writes, Reads
  <2>2. /\ pc'[p] = "reget" => Kind(p)' # "open"
        /\ pc'[p] = "resume_get" => Kind(p)' = "resume"
        /\ pc'[p] = "replace" => Kind(p)' # "open"
        /\ pc'[p] = "replace" /\ Kind(p)' = "resume" => copy'[p].cp \in Calls /\ ~copy'[p].used
    <3> USE <1>4, <2>1 DEF Return, GoTo
    <3>1. CASE Get(p) \/ Recheck(p)
      BY <3>1 DEF Get, Recheck
    <3>2. CASE CreateSession(p)
      BY <3>2 DEF CreateSession
    <3>3. CASE Reget(p)
      <4>1. CASE pc'[p] \in {"get", "idle"}
        BY <4>1
      <4> QED
        BY <3>3, <4>1 DEF Reget, Retry
    <3>4. CASE Replace(p) \/ Timeout(p)
      BY <3>4 DEF Replace, Retry, Timeout
    <3>5. CASE ResumeGet(p)
      <4>1. doc # NoDoc /\ Answer(doc, call[p], op) = "resumed" => doc.cp \in Calls /\ ~doc.used
        BY ResumeChecks
      <4> QED
        BY <3>5, <4>1 DEF ResumeGet
    <3> QED
      BY <3>1, <3>2, <3>3, <3>4, <3>5 DEF Step
  <2>3. ASSUME NEW q \in Procs \ {p}
        PROVE  /\ pc'[q] = "reget" => Kind(q)' # "open"
               /\ pc'[q] = "resume_get" => Kind(q)' = "resume"
               /\ pc'[q] = "replace" => Kind(q)' # "open"
               /\ pc'[q] = "replace" /\ Kind(q)' = "resume" => copy'[q].cp \in Calls /\ ~copy'[q].used
    BY <2>1 DEF Keeps
  <2> QED
    BY <2>2, <2>3
<1> QED
  BY <1>1, <1>2, <1>3, <1>4 DEF Next, Step

(* Answers are final; a call that is new among the resumed ones took the   *)
(* open checkpoint and leaves it used; no other call uses one up, and a    *)
(* new checkpoint carries the id of the call that just ended.              *)
SpendStep(me) ==
    /\ \A c \in Calls : ret[c] # "none" => ret'[c] = ret[c]
    /\ \A c \in Calls : ret'[c] = "resumed" => ret[c] = "resumed" \/ c = me
    /\ \A c \in Calls : c # me => took'[c] = took[c]
    /\ ret[me] = "none"
    /\ ret'[me] = "resumed" => /\ doc.cp \in Calls /\ doc.used = FALSE
                               /\ took'[me] = doc.cp
                               /\ doc'.cp = doc.cp /\ doc'.used = TRUE
    /\ \/ doc'.cp \in {0, -1}
       \/ doc'.cp = me /\ ret'[me] # "none"
       \/ doc'.cp = doc.cp /\ (doc.used => doc'.used)
    /\ doc'.cp = -1 => doc' = NoDoc

LEMMA SpendKeeps ==
    ASSUME CheckpointsSpent, ResumedOnce, NEW me \in Calls, SpendStep(me)
    PROVE  CheckpointsSpent' /\ ResumedOnce'
<1> USE DocTypes DEF SpendStep
<1>0. /\ doc = NoDoc \/ doc.cp \in {0} \cup Calls
      /\ doc.cp \in Calls => ret[doc.cp] # "none"
      /\ \A c \in Calls : ret[c] = "resumed" =>
           took[c] \in Calls /\ ret[took[c]] # "none" /\ (doc.cp = took[c] => doc.used)
  BY DEF CheckpointsSpent
<1>1. doc' = NoDoc \/ doc'.cp \in {0} \cup Calls
  <2>1. doc.cp \in {0, -1} \cup Calls
    BY <1>0 DEF NoDoc
  <2> QED
    BY <2>1
<1>2. doc'.cp \in Calls => ret'[doc'.cp] # "none"
  BY <1>0
<1>3. ASSUME NEW c \in Calls, ret'[c] = "resumed"
      PROVE  took'[c] \in Calls /\ ret'[took'[c]] # "none" /\ (doc'.cp = took'[c] => doc'.used)
  <2>1. CASE ret[c] = "resumed"
    <3>1. c # me /\ took'[c] = took[c] /\ took[c] \in Calls /\ ret[took[c]] # "none"
      BY <2>1, <1>0
    <3>2. took[c] # me /\ ret'[took[c]] # "none"
      BY <3>1
    <3>3. doc'.cp = took[c] => doc'.cp = doc.cp /\ (doc.used => doc'.used)
      BY <3>1, <3>2
    <3> QED
      BY <2>1, <1>0, <3>1, <3>2, <3>3
  <2>2. CASE ret[c] # "resumed"
    <3>1. c = me
      BY <1>3, <2>2
    <3>2. doc.cp \in Calls /\ took'[c] = doc.cp /\ doc'.used = TRUE
      BY <1>3, <3>1
    <3>3. ret'[doc.cp] # "none"
      BY <1>0, <3>2
    <3> QED
      BY <3>2, <3>3
  <2> QED
    BY <2>1, <2>2
<1>4. ASSUME NEW c \in Calls, NEW d \in Calls, ret'[c] = "resumed", ret'[d] = "resumed",
             took'[c] = took'[d]
      PROVE  c = d
  <2>1. \A x \in Calls : ret[x] = "resumed" /\ ret'[me] = "resumed" => took[x] # took'[me]
    BY <1>0
  <2>2. CASE c = me /\ d # me
    <3>1. ret[d] = "resumed" /\ took'[d] = took[d]
      BY <2>2, <1>4
    <3> QED
      BY <2>1, <2>2, <3>1, <1>4
  <2>3. CASE d = me /\ c # me
    <3>1. ret[c] = "resumed" /\ took'[c] = took[c]
      BY <2>3, <1>4
    <3> QED
      BY <2>1, <2>3, <3>1, <1>4
  <2>4. CASE c # me /\ d # me
    <3>1. /\ ret[c] = "resumed" /\ took'[c] = took[c]
          /\ ret[d] = "resumed" /\ took'[d] = took[d]
      BY <2>4, <1>4
    <3> QED
      BY <3>1, <1>4 DEF ResumedOnce
  <2> QED
    BY <2>2, <2>3, <2>4
<1> QED
  BY <1>1, <1>2, <1>3, <1>4 DEF CheckpointsSpent, ResumedOnce

(* A call that does not write spends nothing.                              *)
LEMMA ReadsSpend ==
    ASSUME IInv, NEW p \in Procs, Keeps(p), Reads(p)
    PROVE  SpendStep(call[p])
<1>1. call[p] \in Calls /\ ret[call[p]] = "none" /\ pc[p] # "idle"
  BY CallTypes DEF IInv, Reads
<1>2. \A c \in Calls : ret[c] # "none" => ret'[c] = ret[c]
  BY <1>1 DEF Keeps, IInv, TypeOK
<1>3. /\ took' = took
      /\ \A c \in Calls : ret'[c] = "resumed" => ret[c] = "resumed"
      /\ doc' = doc \/ doc' = EmptyDoc
  BY DEF Reads
<1>4. doc'.cp = -1 => doc' = NoDoc
  BY <1>3, DocTypes DEF EmptyDoc, IInv, CheckpointsSpent
<1>5. doc'.cp \in {0, -1} \/ (doc'.cp = doc.cp /\ (doc.used => doc'.used))
  BY <1>3 DEF EmptyDoc
<1>6. ret'[call[p]] # "resumed"
  BY <1>1, <1>3
<1> QED
  BY <1>1, <1>2, <1>3, <1>4, <1>5, <1>6 DEF SpendStep

(* One that writes may spend the open checkpoint.                          *)
LEMMA WritesSpend ==
    ASSUME IInv, NEW p \in Procs, Keeps(p), Writes(p)
    PROVE  SpendStep(call[p])
<1> DEFINE me == call[p]
           d1 == Effect(doc, me, op)
<1>1. me \in Calls /\ op[me] \in Ops /\ ret[me] = "none" /\ pc[p] # "idle"
  BY CallTypes DEF IInv, Writes
<1>2. /\ ret \in [Calls -> Effective \cup NoEffect] /\ took \in [Calls -> {0} \cup Calls]
      /\ doc \in Doc /\ op \in [Calls -> Ops \cup {NoOp}]
  BY DEF IInv, TypeOK
<1>3. /\ doc' = d1
      /\ doc # NoDoc
      /\ \E a \in {Answer(doc, me, op), "raised"} : ret' = [ret EXCEPT ![me] = a]
      /\ took' = [took EXCEPT ![me] = IF ret'[me] = "resumed" THEN doc.cp ELSE @]
  BY DEF Writes, ReplaceWins
<1>4. doc.cp \in {0} \cup Calls
  BY <1>3 DEF IInv, CheckpointsSpent
<1>5. ret'[me] \in {Answer(doc, me, op), "raised"} /\ \A c \in Calls : c # me => ret'[c] = ret[c]
  BY <1>1, <1>2, <1>3
<1>6. d1.cp # -1 /\ Answer(doc, me, op) # "none"
  <2>1. doc.cp # -1
    BY <1>4, DocTypes
  <2>2. Answer(doc, me, op) \in {"ok", "granted", "resumed", "opened", "refused", "consumed"}
    BY <2>1, <1>1, <1>2, EffectTypes, Zenon
  <2>3. d1.cp # -1
    BY <2>1, <1>1, <1>2, EffectTypes, Zenon
  <2> QED
    BY <2>2, <2>3
<1>7. \A c \in Calls : c # me => took'[c] = took[c]
  BY <1>1, <1>2, <1>3
<1>8. ASSUME ret'[me] = "resumed"
      PROVE  /\ doc.cp \in Calls /\ doc.used = FALSE /\ took'[me] = doc.cp
             /\ d1.cp = doc.cp /\ d1.used = TRUE
  <2>1. Answer(doc, me, op) = "resumed"
    BY <1>5, <1>8
  <2>2. op[me][1] = "resume" /\ doc.cp # 0 /\ doc.used = FALSE
    BY <2>1, <1>1, <1>2, AnswerResumed
  <2>3. d1.cp = doc.cp /\ d1.used = TRUE
    BY <2>1, <2>2 DEF Effect
  <2> QED
    BY <2>2, <2>3, <1>1, <1>2, <1>3, <1>4, <1>8
<1>9. d1.cp = me \/ (d1.cp = doc.cp /\ (doc.used => d1.used))
  BY <1>1, <1>2 DEF Effect, Doc
<1> HIDE DEF d1
<1>10. \A c \in Calls : ret[c] # "none" => ret'[c] = ret[c]
  BY <1>1, <1>5
<1>11. \A c \in Calls : ret'[c] = "resumed" => ret[c] = "resumed" \/ c = me
  BY <1>5
<1>12. ret'[me] # "none"
  BY <1>5, <1>6
<1> QED
  BY <1>1, <1>3, <1>6, <1>7, <1>8, <1>9, <1>10, <1>11, <1>12 DEF SpendStep

(* A checkpoint is written once, and consumed by the resume that took it.  *)
LEMMA CheckpointStep == IInv /\ [Next]_vars => CheckpointsSpent' /\ ResumedOnce'
<1> SUFFICES ASSUME IInv, [Next]_vars PROVE CheckpointsSpent' /\ ResumedOnce'
  OBVIOUS
<1>1. CASE UNCHANGED vars
  BY <1>1 DEF vars, atomicVars, IInv, CheckpointsSpent, ResumedOnce
<1>2. CASE SessionExpires
  BY <1>2, DocTypes DEF SessionExpires, NoDoc, IInv, CheckpointsSpent, ResumedOnce
<1>3. ASSUME NEW p \in Procs, Start(p) PROVE CheckpointsSpent' /\ ResumedOnce'
  BY <1>3 DEF Start, IInv, CheckpointsSpent, ResumedOnce
<1>4. ASSUME NEW p \in Procs, Step(p), ~Start(p) PROVE CheckpointsSpent' /\ ResumedOnce'
  <2>1. Keeps(p) /\ (Writes(p) \/ Reads(p))
    BY <1>4, CallStep
  <2>2. call[p] \in Calls
    BY <2>1, CallTypes DEF Reads, Writes, IInv
  <2>3. SpendStep(call[p])
    BY <2>1, ReadsSpend, WritesSpend
  <2> QED
    BY <2>2, <2>3, SpendKeeps DEF IInv
<1> QED
  BY <1>1, <1>2, <1>3, <1>4 DEF Next, Step

(* The inductive invariant holds in every reachable state, for any number  *)
(* of requests, calls, retries, expiries and time-outs.                    *)
THEOREM StoreInvariant == Spec => []IInv
<1>1. Init => IInv
  BY InitIInv
<1>2. IInv /\ [Next]_vars => IInv'
  BY TypeStep, CallsStep, CopyStep, ReadyStep, CheckpointStep DEF IInv
<1> QED
  BY <1>1, <1>2, PTL DEF Spec

(* However two resumes interleave, only one of them consumes a checkpoint  *)
(* (resume_checkpoint).                                                    *)
THEOREM CheckpointResumedOnce == Spec => []ResumedOnce
<1>1. IInv => ResumedOnce
  BY DEF IInv
<1> QED
  BY <1>1, StoreInvariant, PTL

(* What a step does to the document.                                       *)
LEMMA DocStep ==
    IInv /\ [Next]_vars =>
        doc' \in {NoDoc, EmptyDoc} \/ doc' = doc \/ \E p \in Procs : pc[p] # "idle" /\ Writes(p)
<1> SUFFICES ASSUME IInv, [Next]_vars
             PROVE  doc' \in {NoDoc, EmptyDoc} \/ doc' = doc
                    \/ \E p \in Procs : pc[p] # "idle" /\ Writes(p)
  OBVIOUS
<1>1. CASE UNCHANGED vars \/ SessionExpires
  BY <1>1 DEF vars, atomicVars, SessionExpires
<1>2. ASSUME NEW p \in Procs, Start(p) PROVE doc' = doc
  BY <1>2 DEF Start
<1>3. ASSUME NEW p \in Procs, Step(p), ~Start(p)
      PROVE  doc' \in {NoDoc, EmptyDoc} \/ doc' = doc \/ (pc[p] # "idle" /\ Writes(p))
  BY <1>3, CallStep DEF Reads, Writes
<1> QED
  BY <1>1, <1>2, <1>3 DEF Next, Step

(* No write of a request discards what another one wrote: the replace is   *)
(* on the document as it is (_mutate_with_cas_retry).                      *)
THEOREM OnlyCreationLoses == Spec => OnlyCreationDiscards
<1>1. IInv /\ [Next]_vars => [doc' \in {NoDoc, EmptyDoc} \/ doc.items \subseteq doc'.items]_vars
  <2> SUFFICES ASSUME IInv, [Next]_vars
               PROVE  doc' \in {NoDoc, EmptyDoc} \/ doc.items \subseteq doc'.items
    OBVIOUS
  <2>1. ASSUME NEW p \in Procs, pc[p] # "idle", Writes(p) PROVE doc.items \subseteq doc'.items
    <3>1. call[p] \in Calls /\ op[call[p]] \in Ops
      BY <2>1, CallTypes DEF IInv
    <3>2. doc.cp # -1 /\ doc \in Doc /\ op \in [Calls -> Ops \cup {NoOp}]
      BY <2>1, DocTypes DEF IInv, TypeOK, CheckpointsSpent, Writes, ReplaceWins
    <3> QED
      BY <2>1, <3>1, <3>2, EffectTypes DEF Writes
  <2> QED
    BY <2>1, DocStep
<1> QED
  BY <1>1, StoreInvariant, PTL DEF Spec, OnlyCreationDiscards

(* The store implements AtomicSession: each call is one atomic operation   *)
(* on the session document.                                                *)
THEOREM StoreIsAtomic == Spec => ImplementsAtomic
<1>1. Init => AtomicInit
  BY DEF Init
<1>2. IInv /\ [Next]_vars => [AtomicNext]_atomicVars
  <2> SUFFICES ASSUME IInv, [Next]_vars PROVE [AtomicNext]_atomicVars
    OBVIOUS
  <2>1. CASE UNCHANGED vars
    BY <2>1 DEF vars
  <2>2. CASE SessionExpires
    BY <2>2 DEF SessionExpires, AtomicNext, Expire
  <2>3. ASSUME NEW p \in Procs, Start(p) PROVE AtomicNext
    <3>1. calls + 1 \in Calls
      BY <2>3, StoreAssumption DEF Start, IInv, TypeOK
    <3>2. op[calls + 1] = NoOp
      BY <3>1, StoreAssumption DEF IInv, TypeOK, CallsOwned
    <3>3. Invoke(calls + 1)
      BY <2>3, <3>2 DEF Start, Invoke
    <3> QED
      BY <3>1, <3>3 DEF AtomicNext
  <2>4. ASSUME NEW p \in Procs, Step(p), ~Start(p) PROVE [AtomicNext]_atomicVars
    <3>1. Keeps(p) /\ (Writes(p) \/ Reads(p)) /\ pc[p] # "idle"
      BY <2>4, CallStep DEF Writes, Reads
    <3>2. call[p] \in Calls /\ op[call[p]] \in Ops /\ op[call[p]] # NoOp /\ ret[call[p]] = "none"
      BY <3>1, CallTypes DEF IInv
    <3>3. CASE Writes(p)
      <4>1. Perform(call[p])
        BY <3>1, <3>2, <3>3 DEF Writes, Keeps, Perform, ReplaceWins
      <4> QED
        BY <3>2, <4>1 DEF AtomicNext
    <3>4. CASE ret' = ret /\ Reads(p)
      BY <3>1, <3>4 DEF Reads, Keeps, AtomicNext, Create, atomicVars
    <3>5. CASE ret' # ret /\ ~Writes(p)
      <4>1. PICK a \in {"opened", "consumed", "lost", "raised"} :
              /\ ret' = [ret EXCEPT ![call[p]] = a]
              /\ doc' = doc \/ (doc' = EmptyDoc /\ a \in {"opened", "raised"})
        <5> USE <3>5 DEF Return, GoTo
        <5>1. CASE Get(p) \/ Recheck(p)
          BY <5>1 DEF Get, Recheck
        <5>2. CASE CreateSession(p)
          BY <5>2 DEF CreateSession
        <5>3. CASE Reget(p) \/ ResumeGet(p)
          BY <5>3 DEF Reget, ResumeGet, Retry
        <5>4. CASE Replace(p)
          <6>1. ~ReplaceWins(p)
            BY <5>4, ReplaceWrites
          <6> QED
            BY <5>4, <6>1 DEF Replace, Retry
        <5>5. CASE Timeout(p)
          <6>1. UNCHANGED <<doc, cas>> \/ pc[p] = "create"
            BY <5>5, TimeoutWrites
          <6> QED
            BY <5>5, <6>1 DEF Timeout
        <5> QED
          BY <2>4, <5>1, <5>2, <5>3, <5>4, <5>5 DEF Step
      <4>2. took' = took /\ op' = op
        BY <3>1, <3>5 DEF Reads, Keeps
      <4>3. CASE doc' = doc
        BY <4>1, <4>2, <4>3, <3>2 DEF AtomicNext, Decline, DeclineAs
      <4>4. CASE doc' # doc
        BY <4>1, <4>2, <4>4, <3>2 DEF AtomicNext, Create, DeclineAs
      <4> QED
        BY <4>3, <4>4
    <3> QED
      BY <3>1, <3>3, <3>4, <3>5
  <2> QED
    BY <2>1, <2>2, <2>3, <2>4 DEF Next, Step
<1> QED
  BY <1>1, <1>2, StoreInvariant, PTL DEF Spec, AtomicSpec, ImplementsAtomic
============================================================================
