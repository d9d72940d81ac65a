-------------------------- MODULE ToolCallsProofs --------------------------
(***************************************************************************)
(* What a tool call of a turn may rely on, for any number of workers,      *)
(* calls, scopes and documents: the guards of the rounds decide by what    *)
(* the trail of the turn says was served, every request holds what its     *)
(* turn may rely on, a result that is cut says so, and the tables of an    *)
(* answer are verified as far as their runs were.                          *)
(***************************************************************************)
EXTENDS ToolRound, ResultPreview, AnswerTables, FiniteSetTheorems, SequenceTheorems,
        WellFoundedInduction, TLAPS

---------------------------------------------------------------------------
(* Positions                                                               *)

(* How many members of a set are below a number.                           *)
Below(S, i) == {j \in S : j < i}

LEMMA BelowFacts ==
    ASSUME NEW S, S \subseteq Int, IsFiniteSet(S)
    PROVE  /\ Cardinality(S) \in Nat
           /\ \A i \in S : Cardinality(Below(S, i)) \in 0..(Cardinality(S) - 1)
           /\ \A i, j \in S : i < j => Cardinality(Below(S, i)) < Cardinality(Below(S, j))
<1>1. Cardinality(S) \in Nat
  BY FS_CardinalityType
<1>2. \A i \in Int : IsFiniteSet(Below(S, i)) /\ Cardinality(Below(S, i)) \in Nat
  <2> SUFFICES ASSUME NEW i \in Int
               PROVE  IsFiniteSet(Below(S, i)) /\ Cardinality(Below(S, i)) \in Nat
    OBVIOUS
  <2>1. Below(S, i) \subseteq S
    BY DEF Below
  <2>2. IsFiniteSet(Below(S, i))
    BY <2>1, FS_Subset
  <2> QED
    BY <2>2, FS_CardinalityType
<1>3. \A i \in S : IsFiniteSet(Below(S, i) \cup {i})
                   /\ Cardinality(Below(S, i) \cup {i}) = Cardinality(Below(S, i)) + 1
  <2> SUFFICES ASSUME NEW i \in S
               PROVE  IsFiniteSet(Below(S, i) \cup {i})
                      /\ Cardinality(Below(S, i) \cup {i}) = Cardinality(Below(S, i)) + 1
    OBVIOUS
  <2>1. IsFiniteSet(Below(S, i)) /\ i \notin Below(S, i)
    BY <1>2 DEF Below
  <2> QED
    BY <2>1, FS_AddElement
<1>4. \A i \in S : Cardinality(Below(S, i)) + 1 <= Cardinality(S)
  <2> SUFFICES ASSUME NEW i \in S PROVE Cardinality(Below(S, i)) + 1 <= Cardinality(S)
    OBVIOUS
  <2>1. Below(S, i) \cup {i} \in SUBSET S
    BY DEF Below
  <2>2. Cardinality(Below(S, i) \cup {i}) <= Cardinality(S)
    BY <2>1, FS_Subset
  <2> QED
    BY <1>3, <2>2
<1>5. \A i, j \in S : i < j => Cardinality(Below(S, i)) + 1 <= Cardinality(Below(S, j))
  <2> SUFFICES ASSUME NEW i \in S, NEW j \in S, i < j
               PROVE  Cardinality(Below(S, i)) + 1 <= Cardinality(Below(S, j))
    OBVIOUS
  <2>1. i \in Int /\ j \in Int
    OBVIOUS
  <2>2. ASSUME NEW x \in Below(S, i) \cup {i} PROVE x \in Below(S, j)
    <3>1. x \in S /\ x \in Int /\ (x = i \/ x < i)
      BY DEF Below
    <3>2. x < j
      BY <2>1, <3>1
    <3> QED
      BY <3>1, <3>2 DEF Below
  <2>5. Below(S, i) \cup {i} \in SUBSET Below(S, j)
    BY <2>2
  <2>3. IsFiniteSet(Below(S, j))
    BY <1>2, <2>1
  <2>4. Cardinality(Below(S, i) \cup {i}) <= Cardinality(Below(S, j))
    BY <2>5, <2>3, FS_Subset
  <2> QED
    BY <1>3, <2>4
<1>6. ASSUME NEW i \in S PROVE Cardinality(Below(S, i)) \in 0..(Cardinality(S) - 1)
  <2>1. Cardinality(Below(S, i)) \in Nat /\ Cardinality(Below(S, i)) + 1 <= Cardinality(S)
    BY <1>2, <1>4
  <2> QED
    BY <1>1, <2>1
<1>7. ASSUME NEW i \in S, NEW j \in S, i < j
      PROVE  Cardinality(Below(S, i)) < Cardinality(Below(S, j))
  <2>1. /\ Cardinality(Below(S, i)) \in Nat /\ Cardinality(Below(S, j)) \in Nat
        /\ Cardinality(Below(S, i)) + 1 <= Cardinality(Below(S, j))
    BY <1>2, <1>5, <1>7
  <2> QED
    BY <2>1
<1> QED
  BY <1>1, <1>6, <1>7

(* Every rank is somebody's.                                               *)
LEMMA EveryRank ==
    ASSUME NEW S, S \subseteq Int, IsFiniteSet(S), NEW k \in 1..Cardinality(S)
    PROVE  \E i \in S : Cardinality(Below(S, i)) = k - 1
<1> DEFINE f == [i \in S |-> Cardinality(Below(S, i)) + 1]
           n == Cardinality(S)
<1>1. n \in Nat /\ IsFiniteSet(1..n) /\ Cardinality(1..n) = n
  <2>1. n \in Nat
    BY FS_CardinalityType
  <2>2. IsFiniteSet(1..n) /\ Cardinality(1..n) = IF 1 > n THEN 0 ELSE n - 1 + 1
    BY <2>1, FS_Interval
  <2> QED
    BY <2>1, <2>2
<1>2. f \in [S -> 1..n]
  <2>1. ASSUME NEW i \in S PROVE Cardinality(Below(S, i)) + 1 \in 1..n
    <3>1. Cardinality(Below(S, i)) \in 0..(n - 1)
      BY BelowFacts
    <3> QED
      BY <1>1, <3>1
  <2> QED
    BY <2>1
<1>3. \A i, j \in S : f[i] = f[j] => i = j
  <2> SUFFICES ASSUME NEW i \in S, NEW j \in S, i # j PROVE f[i] # f[j]
    OBVIOUS
  <2>0. /\ \A x \in S : Cardinality(Below(S, x)) \in 0..(n - 1)
        /\ \A x, y \in S : x < y => Cardinality(Below(S, x)) < Cardinality(Below(S, y))
    BY BelowFacts
  <2>1. /\ Cardinality(Below(S, i)) \in 0..(n - 1) /\ Cardinality(Below(S, j)) \in 0..(n - 1)
        /\ i < j => Cardinality(Below(S, i)) < Cardinality(Below(S, j))
        /\ j < i => Cardinality(Below(S, j)) < Cardinality(Below(S, i))
    BY <2>0
  <2>2. i < j \/ j < i
    OBVIOUS
  <2> QED
    BY <1>1, <2>1, <2>2
<1>4. f \in Injection(S, 1..n)
  BY <1>2, <1>3 DEF Injection, IsInjective
<1>5. f \in Surjection(S, 1..n)
  BY <1>1, <1>4, FS_Injection
<1>6. PICK i \in S : f[i] = k
  BY <1>5 DEF Surjection
<1>7. Cardinality(Below(S, i)) \in 0..(n - 1)
  BY BelowFacts
<1> QED
  BY <1>6, <1>7

LEMMA InOrderFacts ==
    ASSUME NEW S, S \subseteq Int, IsFiniteSet(S)
    PROVE  /\ InOrder(S) \in Seq(S) /\ Len(InOrder(S)) = Cardinality(S)
           /\ \A i \in S : \E k \in 1..Len(InOrder(S)) : InOrder(S)[k] = i
           /\ \A k, l \in 1..Len(InOrder(S)) : k < l => InOrder(S)[k] < InOrder(S)[l]
<1> DEFINE n == Cardinality(S)
           p == InOrder(S)
<1>1. n \in Nat
  BY FS_CardinalityType
<1>2. \A k \in 1..n : p[k] \in S /\ Cardinality(Below(S, p[k])) = k - 1
  <2> SUFFICES ASSUME NEW k \in 1..n
               PROVE  p[k] \in S /\ Cardinality(Below(S, p[k])) = k - 1
    OBVIOUS
  <2>1. p[k] = CHOOSE i \in S : Cardinality(Below(S, i)) = k - 1
    BY DEF InOrder, Below
  <2>2. \E i \in S : Cardinality(Below(S, i)) = k - 1
    BY EveryRank
  <2> QED
    BY <2>1, <2>2
<1>3. p \in Seq(S) /\ Len(p) = n
  <2> DEFINE At(k) == CHOOSE i \in S : Cardinality({j \in S : j < i}) = k - 1
  <2>1. p = [k \in 1..n |-> At(k)]
    BY DEF InOrder
  <2> HIDE DEF At, p
  <2>2. p \in [1..n -> S]
    BY <1>2, <2>1
  <2> QED
    BY <1>1, <2>2
<1>4. ASSUME NEW k \in 1..n, NEW l \in 1..n, k < l PROVE p[k] < p[l]
  <2>1. /\ p[k] \in S /\ Cardinality(Below(S, p[k])) = k - 1
        /\ p[l] \in S /\ Cardinality(Below(S, p[l])) = l - 1
    BY <1>2
  <2>2. p[l] < p[k] => Cardinality(Below(S, p[l])) < Cardinality(Below(S, p[k]))
    BY <2>1, BelowFacts
  <2>3. p[k] \in Int /\ p[l] \in Int
    BY <2>1
  <2> HIDE DEF p, n
  <2>4. ~(p[l] < p[k]) /\ p[l] # p[k]
    BY <1>1, <1>4, <2>1, <2>2
  <2> QED
    BY <2>3, <2>4
<1>5. ASSUME NEW i \in S PROVE \E k \in 1..n : p[k] = i
  <2> DEFINE k == Cardinality(Below(S, i)) + 1
  <2>1. Cardinality(Below(S, i)) \in 0..(n - 1)
    BY BelowFacts
  <2>2. k \in 1..n
    BY <1>1, <2>1
  <2>3. p[k] \in S /\ Cardinality(Below(S, p[k])) = Cardinality(Below(S, i))
    BY <1>2, <2>1, <2>2
  <2>4. /\ i < p[k] => Cardinality(Below(S, i)) < Cardinality(Below(S, p[k]))
        /\ p[k] < i => Cardinality(Below(S, p[k])) < Cardinality(Below(S, i))
    BY <2>3, BelowFacts
  <2>5. ~(i < p[k]) /\ ~(p[k] < i)
    BY <2>1, <2>3, <2>4
  <2>6. i \in Int /\ p[k] \in Int
    BY <2>3
  <2> HIDE DEF p, k
  <2>7. p[k] = i
    BY <2>5, <2>6
  <2> QED
    BY <2>2, <2>7
<1> HIDE DEF p, n
<1>6. /\ p \in Seq(S) /\ Len(p) = n
      /\ \A i \in S : \E k \in 1..Len(p) : p[k] = i
      /\ \A k, l \in 1..Len(p) : k < l => p[k] < p[l]
  BY <1>3, <1>4, <1>5
<1> QED
  BY <1>6 DEF p, n

(* A list comprehension keeps the chosen positions, all of them, in order. *)
LEMMA PickFacts ==
    ASSUME NEW U, NEW s \in Seq(U), NEW S \in SUBSET (1..Len(s))
    PROVE  /\ Pick(s, S) \in Seq(U)
           /\ DOMAIN Pick(s, S) = DOMAIN InOrder(S)
           /\ DOMAIN InOrder(S) = 1..Len(Pick(s, S))
           /\ \A k \in DOMAIN InOrder(S) : InOrder(S)[k] \in S /\ Pick(s, S)[k] = s[InOrder(S)[k]]
           /\ \A i \in S : \E k \in DOMAIN InOrder(S) : InOrder(S)[k] = i
           /\ \A k, l \in DOMAIN InOrder(S) : k < l => InOrder(S)[k] < InOrder(S)[l]
<1> DEFINE p == InOrder(S)
<1>1. S \subseteq Int /\ IsFiniteSet(S)
  <2>1. IsFiniteSet(1..Len(s)) /\ S \in SUBSET (1..Len(s))
    BY FS_Interval
  <2>2. IsFiniteSet(S)
    BY <2>1, FS_Subset
  <2> QED
    BY <2>2
<1>2. /\ p \in Seq(S)
      /\ \A i \in S : \E k \in 1..Len(p) : p[k] = i
      /\ \A k, l \in 1..Len(p) : k < l => p[k] < p[l]
  BY <1>1, InOrderFacts
<1>3. Pick(s, S) = [k \in DOMAIN p |-> s[p[k]]]
  BY DEF Pick
<1> HIDE DEF p
<1>4. DOMAIN p = 1..Len(p) /\ Len(p) \in Nat /\ \A k \in DOMAIN p : p[k] \in S
  BY <1>2
<1>5. \A k \in DOMAIN p : s[p[k]] \in U
  <2>1. \A i \in S : s[i] \in U
    OBVIOUS
  <2> QED
    BY <1>4, <2>1
<1>6. Pick(s, S) \in Seq(U) /\ Len(Pick(s, S)) = Len(p) /\ DOMAIN Pick(s, S) = DOMAIN p
  BY <1>3, <1>4, <1>5
<1>7. /\ Pick(s, S) \in Seq(U) /\ DOMAIN Pick(s, S) = DOMAIN p /\ DOMAIN p = 1..Len(Pick(s, S))
      /\ \A k \in DOMAIN p : p[k] \in S /\ Pick(s, S)[k] = s[p[k]]
      /\ \A i \in S : \E k \in DOMAIN p : p[k] = i
      /\ \A k, l \in DOMAIN p : k < l => p[k] < p[l]
  BY <1>2, <1>3, <1>4, <1>6
<1> QED
  BY <1>7 DEF p

(* The least and the greatest member of a set of naturals.                 *)
LEMMA FirstNumber ==
    ASSUME NEW T \in SUBSET Nat, T # {}
    PROVE  \E i \in T : \A j \in T : i <= j
<1> DEFINE R == OpToRel(<, Nat)
<1>1. IsWellFoundedOn(R, Nat)
  BY NatLessThanWellFounded
<1>2. \A x, y \in Nat : <<y, x>> \in R <=> y < x
  BY DEF OpToRel
<1> HIDE DEF R
<1>3. PICK x \in T : \A y \in T : ~ (<<y, x>> \in R)
  BY <1>1, WFMin, Zenon
<1>4. \A y \in T : ~ (y < x)
  BY <1>2, <1>3
<1>5. \A y \in T : x <= y
  BY <1>4, SMT
<1> QED
  BY <1>5

LEMMA LastNumber ==
    ASSUME NEW n \in Nat, NEW T \in SUBSET (1..n), T # {}
    PROVE  \E i \in T : \A j \in T : i >= j
<1> DEFINE U == {m \in Nat : \A j \in T : j <= m}
<1>1. n \in U
  OBVIOUS
<1>2. PICK m \in U : \A k \in U : m <= k
  <2>1. U \in SUBSET Nat /\ U # {}
    BY <1>1
  <2> QED
    BY <2>1, FirstNumber
<1>3. m \in Nat /\ \A j \in T : j <= m
  BY <1>2
<1>4. m \in T
  <2> SUFFICES ASSUME m \notin T PROVE FALSE
    OBVIOUS
  <2>1. \A j \in T : j \in Nat /\ j >= 1 /\ j <= m - 1
    BY <1>3
  <2>2. m - 1 \in Nat
    <3>1. PICK j \in T : TRUE
      OBVIOUS
    <3>2. j \in Nat /\ j >= 1 /\ j <= m
      BY <1>3, <2>1
    <3> QED
      BY <1>3, <3>2
  <2>3. m - 1 \in U
    BY <2>1, <2>2
  <2> QED
    BY <1>2, <1>3, <2>3
<1> QED
  BY <1>3, <1>4

---------------------------------------------------------------------------
(* The guards of the rounds                                                *)

(* The two guards of a round.  What they remember is a window's; what they *)
(* decide follows the trail of the turn.                                   *)
BodyShape(r) ==
    r = [pc |-> r.pc, turn |-> r.turn, window |-> r.window, body |-> r.body, round |-> r.round,
         seen |-> r.seen, served |-> r.served, refetches |-> r.refetches,
         servedThisRound |-> r.servedThisRound, definitionRead |-> r.definitionRead,
         expandedThisRound |-> r.expandedThisRound, calls |-> r.calls]

Locals ==
    /\ BodyShape(b)
    /\ b.pc # "idle" => b.turn \in Nat
    /\ b.body \in Nat /\ b.round \in Nat
    /\ b.refetches \in [IDEMPOTENT_READ_TOOLS -> 0..MaxTrimmedReadRefetches]
    /\ b.definitionRead \in BOOLEAN /\ b.expandedThisRound \in BOOLEAN
    /\ b.calls \in Seq(Calls)

Trail ==
    /\ doc \in Seq(Entry)
    /\ \A i \in DOMAIN doc : /\ doc[i].round <= b.round /\ doc[i].body <= b.body
                             /\ doc[i].kind # "tool" => doc[i].call = "none"

(* A definition was got in the turn: in any round, in an earlier one, now. *)
Gets(e, turn) == e.call = "getBlueprint" /\ e.status = "ok" /\ e.turn = turn
Got(d, turn) == \E j \in DOMAIN d : Gets(d[j], turn)
GotBefore(d, turn, r) == \E j \in DOMAIN d : Gets(d[j], turn) /\ d[j].round < r
GotIn(d, turn, r) == \E j \in DOMAIN d : Gets(d[j], turn) /\ d[j].round = r

GateKnows ==
    /\ b.pc \in {"build", "model"} => (b.definitionRead <=> Got(doc, b.turn))
    /\ b.pc = "model" => ~b.expandedThisRound
    /\ b.pc = "batch" => /\ b.definitionRead <=> GotBefore(doc, b.turn, b.round)
                         /\ b.expandedThisRound <=> GotIn(doc, b.turn, b.round)

(* What a body served of a read; a second time it was granted.             *)
Serves(e, c, n) == e.call = c /\ e.body = n /\ e.status = "ok" /\ e.code # "served"
ServedIn(d, c, n) == {i \in DOMAIN d : Serves(d[i], c, n)}

Allowance(r, c) == r.refetches[c] + (IF c \in r.seen THEN 1 ELSE 0)
GuardCounts ==
    b.pc \in {"build", "model", "batch"} =>
      \A c \in IDEMPOTENT_READ_TOOLS :
        Cardinality(ServedIn(doc, c, b.body)) <= Allowance(b, c)

RoundInv ==
    /\ Locals /\ Trail /\ GateKnows /\ GuardCounts
    /\ GateFollowsTheTrail /\ ReadsBounded

---------------------------------------------------------------------------
LEMMA InitRoundInv == Init => RoundInv
<1> SUFFICES ASSUME Init PROVE RoundInv
  OBVIOUS
<1>1. Locals
  BY RoundAssumption DEF Init, Locals, BodyShape, NoReads
<1>2. Trail /\ GateKnows /\ GuardCounts /\ GateFollowsTheTrail /\ ReadsBounded
  BY DEF Init, Trail, GateKnows, GuardCounts, GateFollowsTheTrail, ReadsBounded
<1> QED
  BY <1>1, <1>2 DEF RoundInv

(* What a new entry leaves of the trail and of the counts.                 *)
LEMMA ServedFinite ==
    ASSUME NEW d \in Seq(Entry), NEW c, NEW n
    PROVE  IsFiniteSet(ServedIn(d, c, n)) /\ Cardinality(ServedIn(d, c, n)) \in Nat
<1>1. IsFiniteSet(1..Len(d)) /\ ServedIn(d, c, n) \subseteq 1..Len(d)
  BY FS_Interval DEF ServedIn
<1>2. IsFiniteSet(ServedIn(d, c, n))
  BY <1>1, FS_Subset
<1> QED
  BY <1>2, FS_CardinalityType

LEMMA ServedAppend ==
    ASSUME NEW d \in Seq(Entry), NEW e \in Entry, NEW c, NEW n
    PROVE  IF Serves(e, c, n)
           THEN ServedIn(Append(d, e), c, n) = ServedIn(d, c, n) \cup {Len(d) + 1}
           ELSE ServedIn(Append(d, e), c, n) = ServedIn(d, c, n)
BY DEF ServedIn, Serves

LEMMA CountAppend ==
    ASSUME NEW d \in Seq(Entry), NEW e \in Entry, NEW c, NEW n
    PROVE  /\ ~ Serves(e, c, n) =>
                Cardinality(ServedIn(Append(d, e), c, n)) = Cardinality(ServedIn(d, c, n))
           /\ Cardinality(ServedIn(Append(d, e), c, n)) <= Cardinality(ServedIn(d, c, n)) + 1
<1>1. IsFiniteSet(ServedIn(d, c, n)) /\ Cardinality(ServedIn(d, c, n)) \in Nat
  BY ServedFinite
<1>2. Len(d) + 1 \notin ServedIn(d, c, n)
  BY DEF ServedIn
<1>3. Cardinality(ServedIn(d, c, n) \cup {Len(d) + 1}) = Cardinality(ServedIn(d, c, n)) + 1
  BY <1>1, <1>2, FS_AddElement
<1>4. CASE Serves(e, c, n)
  <2>1. ServedIn(Append(d, e), c, n) = ServedIn(d, c, n) \cup {Len(d) + 1}
    BY <1>4, ServedAppend
  <2> QED
    BY <1>1, <1>3, <1>4, <2>1
<1>5. CASE ~ Serves(e, c, n)
  <2>1. ServedIn(Append(d, e), c, n) = ServedIn(d, c, n)
    BY <1>5, ServedAppend
  <2> QED
    BY <1>1, <2>1
<1> QED
  BY <1>4, <1>5

LEMMA GotAppend ==
    ASSUME NEW d \in Seq(Entry), NEW e \in Entry, NEW turn, NEW r
    PROVE  /\ Got(Append(d, e), turn) <=> Got(d, turn) \/ Gets(e, turn)
           /\ GotBefore(Append(d, e), turn, r) <=>
                GotBefore(d, turn, r) \/ (Gets(e, turn) /\ e.round < r)
           /\ GotIn(Append(d, e), turn, r) <=> GotIn(d, turn, r) \/ (Gets(e, turn) /\ e.round = r)
<1>1. /\ DOMAIN Append(d, e) = DOMAIN d \cup {Len(d) + 1} /\ Append(d, e)[Len(d) + 1] = e
      /\ \A i \in DOMAIN d : Append(d, e)[i] = d[i]
  OBVIOUS
<1> QED
  BY <1>1 DEF Got, GotBefore, GotIn

(* The gate's promise concerns what was there before an entry.             *)
LEMMA PromiseAppend ==
    ASSUME RoundInv, NEW e \in Entry, doc' = Append(doc, e),
           e.call = "runBlueprint" =>
             (e.code # "unread" <=> GotBefore(doc, e.turn, e.round))
    PROVE  GateFollowsTheTrail'
<1>1. /\ doc \in Seq(Entry) /\ Len(doc) \in Nat /\ DOMAIN doc = 1..Len(doc)
      /\ DOMAIN doc' = 1..(Len(doc) + 1) /\ doc'[Len(doc) + 1] = e
      /\ \A i \in 1..Len(doc) : doc'[i] = doc[i]
  BY DEF RoundInv, Trail
<1> SUFFICES ASSUME NEW i \in DOMAIN doc', doc'[i].call = "runBlueprint"
             PROVE  doc'[i].code # "unread" <=>
                      \E j \in 1..(i - 1) :
                        /\ doc'[j].call = "getBlueprint" /\ doc'[j].status = "ok"
                        /\ doc'[j].turn = doc'[i].turn /\ doc'[j].round < doc'[i].round
  BY DEF GateFollowsTheTrail
<1>2. CASE i \in 1..Len(doc)
  <2>1. \A j \in 1..(i - 1) : doc'[j] = doc[j]
    BY <1>1, <1>2
  <2>2. doc[i].call = "runBlueprint" /\ i \in DOMAIN doc
    BY <1>1, <1>2
  <2> QED
    BY <1>1, <1>2, <2>1, <2>2 DEF RoundInv, GateFollowsTheTrail
<1>3. CASE i = Len(doc) + 1
  <2>1. 1..(i - 1) = DOMAIN doc
    BY <1>1, <1>3
  <2> QED
    BY <1>1, <1>3, <2>1 DEF GotBefore, Gets
<1> QED
  BY <1>1, <1>2, <1>3

LEMMA TrailAppend ==
    ASSUME RoundInv, NEW e \in Entry, doc' = Append(doc, e),
           e.round <= b.round, e.body <= b.body, e.kind # "tool" => e.call = "none",
           b'.round \in Nat, b'.body \in Nat, b.round <= b'.round, b.body <= b'.body
    PROVE  Trail'
<1>1. /\ doc \in Seq(Entry) /\ doc' \in Seq(Entry) /\ DOMAIN doc' = DOMAIN doc \cup {Len(doc) + 1}
      /\ doc'[Len(doc) + 1] = e /\ \A i \in DOMAIN doc : doc'[i] = doc[i]
  BY DEF RoundInv, Trail
<1>2. \A i \in DOMAIN doc' : doc'[i] \in Entry
  BY <1>1
<1>3. \A i \in DOMAIN doc' : doc'[i].round \in Nat /\ doc'[i].body \in Nat
  BY <1>2 DEF Entry
<1>4. b.round \in Nat /\ b.body \in Nat
  BY DEF RoundInv, Locals
<1>5. ASSUME NEW i \in DOMAIN doc'
      PROVE  /\ doc'[i].round <= b'.round /\ doc'[i].body <= b'.body
             /\ doc'[i].kind # "tool" => doc'[i].call = "none"
  <2>1. /\ doc'[i].round <= b.round /\ doc'[i].body <= b.body
        /\ doc'[i].kind # "tool" => doc'[i].call = "none"
    BY <1>1 DEF RoundInv, Trail
  <2> QED
    BY <1>3, <1>4, <2>1
<1> QED
  BY <1>1, <1>5 DEF Trail

(* A message of the user or the assistant: no call, no count.              *)
LEMMA MessageServes ==
    ASSUME RoundInv, NEW e \in Entry, doc' = Append(doc, e), e.call = "none"
    PROVE  /\ GateFollowsTheTrail'
           /\ \A c \in IDEMPOTENT_READ_TOOLS, n \in Nat :
                Cardinality(ServedIn(doc', c, n)) = Cardinality(ServedIn(doc, c, n))
<1>1. GateFollowsTheTrail'
  BY PromiseAppend
<1>2. doc \in Seq(Entry)
  BY DEF RoundInv, Trail
<1>3. ASSUME NEW c \in IDEMPOTENT_READ_TOOLS, NEW n \in Nat
      PROVE  Cardinality(ServedIn(doc', c, n)) = Cardinality(ServedIn(doc, c, n))
  <2>1. ~ Serves(e, c, n)
    BY DEF Serves, IDEMPOTENT_READ_TOOLS
  <2> QED
    BY <1>2, <2>1, CountAppend
<1> QED
  BY <1>1, <1>3

Bounded(d, n) ==
    \A c \in IDEMPOTENT_READ_TOOLS :
        Cardinality(ServedIn(d, c, n)) <= 1 + MaxTrimmedReadRefetches

LEMMA BoundedForms == ReadsBounded <=> \A n \in 1..b.body : Bounded(doc, n)
BY DEF ReadsBounded, Bounded, ServedIn, Serves

(* Each call of a batch writes one entry and keeps the window.             *)
LEMMA EntryStep ==
    ASSUME RoundInv, b.pc = "batch", NEW e \in Entry, doc' = Append(doc, e),
           e.kind = "tool", e.turn = b.turn, e.body = b.body, e.round = b.round,
           Locals', b'.pc = "batch", b'.turn = b.turn, b'.body = b.body, b'.round = b.round,
           b'.definitionRead = b.definitionRead,
           b'.expandedThisRound <=> b.expandedThisRound \/ Gets(e, b.turn),
           e.call = "runBlueprint" => (e.code # "unread" <=> b.definitionRead),
           \A c \in IDEMPOTENT_READ_TOOLS :
              IF Serves(e, c, b.body) THEN Allowance(b, c) + 1 <= Allowance(b', c)
              ELSE Allowance(b, c) <= Allowance(b', c)
    PROVE  RoundInv'
<1>0. doc \in Seq(Entry) /\ b.round \in Nat /\ b.body \in Nat
  BY DEF RoundInv, Trail, Locals
<1>1. Trail'
  BY <1>0, TrailAppend
<1>2. GateKnows'
  <2>1. GotBefore(doc', b.turn, b.round) <=> GotBefore(doc, b.turn, b.round)
    BY <1>0, GotAppend
  <2>2. GotIn(doc', b.turn, b.round) <=> GotIn(doc, b.turn, b.round) \/ Gets(e, b.turn)
    BY <1>0, GotAppend
  <2> QED
    BY <2>1, <2>2 DEF RoundInv, GateKnows
<1>3. GateFollowsTheTrail'
  <2>1. b.definitionRead <=> GotBefore(doc, b.turn, b.round)
    BY DEF RoundInv, GateKnows
  <2> QED
    BY <2>1, PromiseAppend
<1>4. \A c \in IDEMPOTENT_READ_TOOLS : Allowance(b, c) \in Nat /\ Allowance(b', c) \in Nat
  <2>1. ASSUME NEW c \in IDEMPOTENT_READ_TOOLS
        PROVE  b.refetches[c] \in Nat /\ b'.refetches[c] \in 0..MaxTrimmedReadRefetches
    BY <2>1, RoundAssumption DEF RoundInv, Locals
  <2> QED
    BY <2>1, RoundAssumption DEF Allowance
<1>5. ASSUME NEW c \in IDEMPOTENT_READ_TOOLS
      PROVE  Cardinality(ServedIn(doc', c, b.body)) <= Allowance(b', c)
  <2>1. Cardinality(ServedIn(doc, c, b.body)) <= Allowance(b, c)
    BY DEF RoundInv, GuardCounts
  <2>2. /\ Cardinality(ServedIn(doc, c, b.body)) \in Nat
        /\ Cardinality(ServedIn(doc', c, b.body)) \in Nat
    BY <1>0, <1>1, ServedFinite DEF Trail
  <2>3. /\ ~ Serves(e, c, b.body) =>
              Cardinality(ServedIn(doc', c, b.body)) = Cardinality(ServedIn(doc, c, b.body))
        /\ Cardinality(ServedIn(doc', c, b.body)) <= Cardinality(ServedIn(doc, c, b.body)) + 1
    BY <1>0, CountAppend
  <2> QED
    BY <1>4, <2>1, <2>2, <2>3
<1>6. GuardCounts'
  BY <1>5 DEF GuardCounts
<1>7. ReadsBounded'
  <2>1. ASSUME NEW n \in 1..b.body PROVE Bounded(doc', n)
    <3>1. CASE n = b.body
      <4>1. \A c \in IDEMPOTENT_READ_TOOLS : Allowance(b', c) <= 1 + MaxTrimmedReadRefetches
        BY RoundAssumption DEF Locals, Allowance
      <4>2. ASSUME NEW c \in IDEMPOTENT_READ_TOOLS
            PROVE  Cardinality(ServedIn(doc', c, n)) <= 1 + MaxTrimmedReadRefetches
        <5>1. Cardinality(ServedIn(doc', c, n)) \in Nat
          BY <1>1, ServedFinite DEF Trail
        <5>2. Cardinality(ServedIn(doc', c, n)) <= Allowance(b', c)
          BY <1>5, <3>1
        <5> QED
          BY <1>4, <4>1, <5>1, <5>2, RoundAssumption
      <4> QED
        BY <4>2 DEF Bounded
    <3>2. CASE n # b.body
      <4>1. \A c \in IDEMPOTENT_READ_TOOLS : ~ Serves(e, c, n)
        BY <3>2 DEF Serves
      <4>2. \A c \in IDEMPOTENT_READ_TOOLS :
              Cardinality(ServedIn(doc', c, n)) = Cardinality(ServedIn(doc, c, n))
        BY <1>0, <4>1, CountAppend
      <4>3. Bounded(doc, n)
        BY <2>1, BoundedForms DEF RoundInv
      <4> QED
        BY <4>2, <4>3 DEF Bounded
    <3> QED
      BY <3>1, <3>2
  <2> QED
    BY <2>1 DEF ReadsBounded, Bounded, ServedIn, Serves
<1> QED
  BY <1>1, <1>2, <1>3, <1>6, <1>7 DEF RoundInv

---------------------------------------------------------------------------
(* The steps of a batch                                                    *)
Recorded(status, code, p) ==
    [kind |-> "tool", turn |-> b.turn, body |-> b.body, round |-> b.round,
     call |-> Head(b.calls), status |-> status, code |-> code, prov |-> p]

LEMMA RecordedType ==
    ASSUME RoundInv, b.pc = "batch", b.calls # <<>>, NEW status \in {"ok", "denied"},
           NEW code \in {"none", "served", "unread", "failed"}, NEW p \in ColumnProvenances
    PROVE  /\ Recorded(status, code, p) \in Entry
           /\ Head(b.calls) \in Calls /\ Tail(b.calls) \in Seq(Calls)
           /\ doc \in Seq(Entry) /\ BodyShape(b)
           /\ b.turn \in Nat /\ b.body \in Nat /\ b.round \in Nat
<1>1. b.turn \in Nat /\ b.body \in Nat /\ b.round \in Nat /\ b.calls \in Seq(Calls)
  BY DEF RoundInv, Locals
<1>2. Head(b.calls) \in Calls /\ Tail(b.calls) \in Seq(Calls)
  BY <1>1
<1>3. Recorded(status, code, p) \in Entry
  BY <1>1, <1>2 DEF Recorded, Entry
<1> QED
  BY <1>1, <1>2, <1>3 DEF RoundInv, Locals, Trail

LEMMA DeclineKeeps == ASSUME RoundInv, Decline PROVE RoundInv'
<1> DEFINE c == Head(b.calls)
           e == Recorded("ok", "served", Undetermined)
<1>1. /\ b.pc = "batch" /\ b.calls # <<>> /\ c \in IDEMPOTENT_READ_TOOLS
      /\ doc' = Append(doc, e)
      /\ b' = [b EXCEPT !.calls = Tail(@), !.expandedThisRound = @ \/ Expands(c)]
  BY DEF Decline, Declined, Write, Recorded
<1>2. /\ e \in Entry /\ Tail(b.calls) \in Seq(Calls) /\ BodyShape(b)
  BY <1>1, RecordedType DEF ColumnProvenances, Undetermined
<1>3. /\ BodyShape(b') /\ b'.pc = "batch" /\ b'.turn = b.turn /\ b'.body = b.body
      /\ b'.round = b.round /\ b'.definitionRead = b.definitionRead
      /\ b'.expandedThisRound = (b.expandedThisRound \/ Expands(c))
      /\ b'.calls = Tail(b.calls) /\ b'.refetches = b.refetches /\ b'.seen = b.seen
  BY <1>1, <1>2 DEF BodyShape
<1>4. Locals'
  BY <1>1, <1>2, <1>3 DEF RoundInv, Locals
<1>5. Gets(e, b.turn) <=> Expands(c)
  BY DEF Gets, Expands, Recorded
<1>6. e.call # "runBlueprint"
  BY <1>1 DEF Recorded, IDEMPOTENT_READ_TOOLS
<1>7. \A r \in IDEMPOTENT_READ_TOOLS :
         ~ Serves(e, r, b.body) /\ Allowance(b, r) <= Allowance(b', r)
  <2>1. ASSUME NEW r \in IDEMPOTENT_READ_TOOLS PROVE Allowance(b, r) \in Nat
    BY RoundAssumption DEF RoundInv, Locals, Allowance
  <2> QED
    BY <1>3, <2>1 DEF Serves, Recorded, Allowance
<1>8. e.kind = "tool" /\ e.turn = b.turn /\ e.body = b.body /\ e.round = b.round
  BY DEF Recorded
<1> HIDE DEF e, c
<1> QED
  BY <1>1, <1>2, <1>3, <1>4, <1>5, <1>6, <1>7, <1>8, EntryStep

LEMMA ReadGateKeeps == ASSUME RoundInv, ReadGate PROVE RoundInv'
<1> DEFINE c == Head(b.calls)
           e == Recorded("denied", "unread", <<{}>>)
<1>1. /\ b.pc = "batch" /\ b.calls # <<>> /\ c = "runBlueprint" /\ ~ b.definitionRead
      /\ doc' = Append(doc, e) /\ b' = [b EXCEPT !.calls = Tail(@)]
  BY DEF ReadGate, Gated, Write, Recorded
<1>2. /\ e \in Entry /\ Tail(b.calls) \in Seq(Calls) /\ BodyShape(b)
  <2>1. <<{}>> \in ColumnProvenances
    BY DEF ColumnProvenances
  <2> QED
    BY <1>1, <2>1, RecordedType
<1>3. /\ BodyShape(b') /\ b'.pc = "batch" /\ b'.turn = b.turn /\ b'.body = b.body
      /\ b'.round = b.round /\ b'.definitionRead = b.definitionRead
      /\ b'.expandedThisRound = b.expandedThisRound
      /\ b'.calls = Tail(b.calls) /\ b'.refetches = b.refetches /\ b'.seen = b.seen
  BY <1>1, <1>2 DEF BodyShape
<1>4. Locals'
  BY <1>1, <1>2, <1>3 DEF RoundInv, Locals
<1>5. ~ Gets(e, b.turn) /\ e.code = "unread"
  BY DEF Gets, Recorded
<1>7. \A r \in IDEMPOTENT_READ_TOOLS :
         ~ Serves(e, r, b.body) /\ Allowance(b, r) <= Allowance(b', r)
  <2>1. ASSUME NEW r \in IDEMPOTENT_READ_TOOLS PROVE Allowance(b, r) \in Nat
    BY RoundAssumption DEF RoundInv, Locals, Allowance
  <2> QED
    BY <1>3, <2>1 DEF Serves, Recorded, Allowance
<1>8. e.kind = "tool" /\ e.turn = b.turn /\ e.body = b.body /\ e.round = b.round
  BY DEF Recorded
<1> HIDE DEF e, c
<1> QED
  BY <1>1, <1>2, <1>3, <1>4, <1>5, <1>7, <1>8, EntryStep

(* A read that is exempt from the guard is granted while there are grants. *)
LEMMA GrantedType ==
    ASSUME RoundInv, NEW c \in Calls, Allowed(c)
    PROVE  /\ Granted(c) \in [IDEMPOTENT_READ_TOOLS -> 0..MaxTrimmedReadRefetches]
           /\ \A r \in IDEMPOTENT_READ_TOOLS : b.refetches[r] <= Granted(c)[r]
           /\ c \in IDEMPOTENT_READ_TOOLS /\ c \in b.seen =>
                Granted(c)[c] = b.refetches[c] + 1
<1>1. /\ b.refetches \in [IDEMPOTENT_READ_TOOLS -> 0..MaxTrimmedReadRefetches]
      /\ MaxTrimmedReadRefetches \in Nat
  BY RoundAssumption DEF RoundInv, Locals
<1>2. CASE c \in IDEMPOTENT_READ_TOOLS /\ Exempt(c)
  <2>1. b.refetches[c] < MaxTrimmedReadRefetches
    BY <1>1, <1>2 DEF Allowed, Declined, Exempt
  <2>2. Granted(c) = [b.refetches EXCEPT ![c] = @ + 1]
    BY <1>2 DEF Granted, Allowed
  <2> QED
    BY <1>1, <1>2, <2>1, <2>2
<1>3. CASE ~ (c \in IDEMPOTENT_READ_TOOLS /\ Exempt(c))
  <2>1. Granted(c) = b.refetches
    BY <1>3 DEF Granted
  <2>2. ~ (c \in IDEMPOTENT_READ_TOOLS /\ c \in b.seen)
    BY <1>3 DEF Allowed, Declined
  <2> QED
    BY <1>1, <2>1, <2>2
<1> QED
  BY <1>2, <1>3

LEMMA CapturedType == ASSUME NEW c, NEW p \in Captured(c) PROVE p \in ColumnProvenances
<1>1. \A f \in Footprints : <<f>> \in ColumnProvenances
  BY RoundAssumption DEF ColumnProvenances
<1>2. <<{}>> \in ColumnProvenances /\ Undetermined \in ColumnProvenances
  BY DEF ColumnProvenances, Undetermined
<1> QED
  BY <1>1, <1>2 DEF Captured

LEMMA DispatchOkKeeps == ASSUME RoundInv, DispatchOk PROVE RoundInv'
<1> DEFINE c == Head(b.calls)
<1>0. PICK p \in Captured(c) : Write("ok", "none", p)
  BY DEF DispatchOk
<1> DEFINE e == Recorded("ok", "none", p)
<1>1. /\ b.pc = "batch" /\ b.calls # <<>> /\ Allowed(c)
      /\ doc' = Append(doc, e) /\ b' = Served(c)
  BY <1>0 DEF DispatchOk, Write, Recorded
<1>2. e \in Entry /\ Tail(b.calls) \in Seq(Calls) /\ BodyShape(b) /\ c \in Calls
  BY <1>1, CapturedType, RecordedType
<1>3. /\ BodyShape(b') /\ b'.pc = "batch" /\ b'.turn = b.turn /\ b'.body = b.body
      /\ b'.round = b.round /\ b'.definitionRead = b.definitionRead
      /\ b'.expandedThisRound = (b.expandedThisRound \/ Expands(c))
      /\ b'.calls = Tail(b.calls) /\ b'.refetches = Granted(c)
      /\ b'.seen = b.seen \cup ({c} \cap IDEMPOTENT_READ_TOOLS)
  BY <1>1, <1>2 DEF BodyShape, Served
<1>4. Locals'
  BY <1>1, <1>2, <1>3, GrantedType DEF RoundInv, Locals
<1>5. Gets(e, b.turn) <=> Expands(c)
  BY DEF Gets, Expands, Recorded
<1>6. e.call = "runBlueprint" => (e.code # "unread" <=> b.definitionRead)
  BY <1>1 DEF Recorded, Allowed, Gated, RoundInv, Locals
<1>7. ASSUME NEW r \in IDEMPOTENT_READ_TOOLS
      PROVE  IF Serves(e, r, b.body) THEN Allowance(b, r) + 1 <= Allowance(b', r)
             ELSE Allowance(b, r) <= Allowance(b', r)
  <2>1. /\ b.refetches[r] \in Nat /\ Granted(c)[r] \in Nat /\ b.refetches[r] <= Granted(c)[r]
        /\ r = c /\ c \in b.seen => Granted(c)[r] = b.refetches[r] + 1
    <3>1. MaxTrimmedReadRefetches \in Nat
      BY RoundAssumption
    <3>2. b.refetches[r] \in 0..MaxTrimmedReadRefetches
      BY DEF RoundInv, Locals
    <3>3. Granted(c) \in [IDEMPOTENT_READ_TOOLS -> 0..MaxTrimmedReadRefetches]
      BY <1>1, <1>2, GrantedType
    <3>4. /\ b.refetches[r] <= Granted(c)[r]
          /\ r = c /\ c \in b.seen => Granted(c)[r] = b.refetches[r] + 1
      BY <1>1, <1>2, GrantedType
    <3> HIDE DEF c
    <3> QED
      BY <3>1, <3>2, <3>3, <3>4
  <2>2. Serves(e, r, b.body) <=> r = c
    BY DEF Serves, Recorded
  <2> HIDE DEF c, e
  <2> QED
    BY <1>3, <2>1, <2>2 DEF Allowance
<1>8. e.kind = "tool" /\ e.turn = b.turn /\ e.body = b.body /\ e.round = b.round
  BY DEF Recorded
<1> HIDE DEF e, c
<1> QED
  BY <1>1, <1>2, <1>3, <1>4, <1>5, <1>6, <1>7, <1>8, EntryStep

LEMMA DispatchDeniedKeeps == ASSUME RoundInv, DispatchDenied PROVE RoundInv'
<1> DEFINE c == Head(b.calls)
           e == Recorded("denied", "failed", Undetermined)
<1>1. /\ b.pc = "batch" /\ b.calls # <<>> /\ Allowed(c) /\ doc' = Append(doc, e)
      /\ b' = [b EXCEPT !.calls = Tail(@), !.refetches = Granted(c)]
  BY DEF DispatchDenied, Write, Recorded
<1>2. e \in Entry /\ Tail(b.calls) \in Seq(Calls) /\ BodyShape(b) /\ c \in Calls
  BY <1>1, RecordedType DEF ColumnProvenances, Undetermined
<1>3. /\ BodyShape(b') /\ b'.pc = "batch" /\ b'.turn = b.turn /\ b'.body = b.body
      /\ b'.round = b.round /\ b'.definitionRead = b.definitionRead
      /\ b'.expandedThisRound = b.expandedThisRound
      /\ b'.calls = Tail(b.calls) /\ b'.refetches = Granted(c) /\ b'.seen = b.seen
  BY <1>1, <1>2 DEF BodyShape
<1>4. Locals'
  BY <1>1, <1>2, <1>3, GrantedType DEF RoundInv, Locals
<1>5. ~ Gets(e, b.turn)
  BY DEF Gets, Recorded
<1>6. e.call = "runBlueprint" => (e.code # "unread" <=> b.definitionRead)
  BY <1>1 DEF Recorded, Allowed, Gated, RoundInv, Locals
<1>7. ASSUME NEW r \in IDEMPOTENT_READ_TOOLS
      PROVE  ~ Serves(e, r, b.body) /\ Allowance(b, r) <= Allowance(b', r)
  <2>1. /\ b.refetches[r] \in Nat /\ Granted(c)[r] \in Nat /\ b.refetches[r] <= Granted(c)[r]
    <3>1. MaxTrimmedReadRefetches \in Nat
      BY RoundAssumption
    <3>2. b.refetches[r] \in 0..MaxTrimmedReadRefetches
      BY DEF RoundInv, Locals
    <3>3. Granted(c) \in [IDEMPOTENT_READ_TOOLS -> 0..MaxTrimmedReadRefetches]
      BY <1>1, <1>2, GrantedType
    <3>4. /\ b.refetches[r] <= Granted(c)[r]
          /\ r = c /\ c \in b.seen => Granted(c)[r] = b.refetches[r] + 1
      BY <1>1, <1>2, GrantedType
    <3> HIDE DEF c
    <3> QED
      BY <3>1, <3>2, <3>3, <3>4
  <2>2. ~ Serves(e, r, b.body)
    BY DEF Serves, Recorded
  <2> HIDE DEF c, e
  <2> QED
    BY <1>3, <2>1, <2>2 DEF Allowance
<1>8. e.kind = "tool" /\ e.turn = b.turn /\ e.body = b.body /\ e.round = b.round
  BY DEF Recorded
<1> HIDE DEF e, c
<1> QED
  BY <1>1, <1>2, <1>3, <1>4, <1>5, <1>6, <1>7, <1>8, EntryStep

---------------------------------------------------------------------------
(* The steps between two batches                                           *)
LEMMA MessageType ==
    ASSUME RoundInv, NEW kind \in {"user", "assistant"}, NEW turn \in Nat,
           NEW p \in ColumnProvenances
    PROVE  Message(kind, turn, p) \in Entry /\ Message(kind, turn, p).call = "none"
           /\ Message(kind, turn, p).body = b.body /\ Message(kind, turn, p).round = b.round
           /\ Message(kind, turn, p).kind # "tool" /\ b.body \in Nat /\ b.round \in Nat
<1>1. b.body \in Nat /\ b.round \in Nat
  BY DEF RoundInv, Locals
<1> QED
  BY <1>1 DEF Message, Entry

(* A window starts with what the trail of the turn says was read.          *)
LEMMA OpenStep ==
    ASSUME RoundInv, NEW turn \in Nat, NEW window,
           doc' = Append(doc, Message("user", turn, <<{}>>)),
           b' = OpenWindow(turn, window, doc')
    PROVE  RoundInv'
<1> DEFINE e == Message("user", turn, <<{}>>)
<1>1. /\ e \in Entry /\ e.call = "none" /\ e.body = b.body /\ e.round = b.round
      /\ e.kind # "tool" /\ b.body \in Nat /\ b.round \in Nat
  <2>1. <<{}>> \in ColumnProvenances
    BY DEF ColumnProvenances
  <2> QED
    BY <2>1, MessageType
<1>2. /\ BodyShape(b') /\ b'.pc = "build" /\ b'.turn = turn /\ b'.body = b.body + 1
      /\ b'.round = b.round /\ b'.refetches = NoReads /\ b'.calls = <<>>
      /\ b'.definitionRead = (ReadsOf(doc', turn, "getBlueprint") # {})
      /\ b'.expandedThisRound = b.expandedThisRound
      /\ b'.seen = SeenBefore(doc', turn) \cup EmulatedReads
  BY DEF RoundInv, Locals, BodyShape, OpenWindow
<1> HIDE DEF e
<1>3. Locals'
  <2>1. NoReads \in [IDEMPOTENT_READ_TOOLS -> 0..MaxTrimmedReadRefetches]
    BY RoundAssumption DEF NoReads
  <2>2. <<>> \in Seq(Calls) /\ b.expandedThisRound \in BOOLEAN
    BY DEF RoundInv, Locals
  <2>3. b'.definitionRead \in BOOLEAN
    BY <1>2
  <2>4. b'.turn \in Nat /\ b'.body \in Nat /\ b'.round \in Nat
    BY <1>1, <1>2
  <2>5. BodyShape(b') /\ b'.refetches = NoReads /\ b'.calls = <<>>
        /\ b'.expandedThisRound = b.expandedThisRound
    BY <1>2
  <2> QED
    BY <2>1, <2>2, <2>3, <2>4, <2>5 DEF Locals
<1>4. Trail'
  BY <1>1, <1>2, TrailAppend DEF e
<1>5. GateKnows'
  <2>1. ReadsOf(doc', turn, "getBlueprint") # {} <=> Got(doc', turn)
    <3>1. ASSUME NEW i \in DOMAIN doc', doc'[i].call = "getBlueprint" PROVE doc'[i].kind = "tool"
      BY <1>4, <3>1 DEF Trail
    <3> QED
      BY <3>1 DEF ReadsOf, Got, Gets
  <2> QED
    BY <1>2, <2>1 DEF GateKnows
<1>6. /\ GateFollowsTheTrail'
      /\ \A c \in IDEMPOTENT_READ_TOOLS, n \in Nat :
           Cardinality(ServedIn(doc', c, n)) = Cardinality(ServedIn(doc, c, n))
  BY <1>1, MessageServes DEF e
<1>7. \A c \in IDEMPOTENT_READ_TOOLS : Cardinality(ServedIn(doc', c, b.body + 1)) = 0
  <2>1. ASSUME NEW c \in IDEMPOTENT_READ_TOOLS PROVE ServedIn(doc, c, b.body + 1) = {}
    <3>1. \A i \in DOMAIN doc : doc[i].body \in Nat /\ doc[i].body <= b.body
      <4>1. \A i \in DOMAIN doc : doc[i] \in Entry
        BY DEF RoundInv, Trail
      <4> QED
        BY <4>1 DEF RoundInv, Trail, Entry
    <3> QED
      BY <1>1, <3>1 DEF ServedIn, Serves
  <2>2. \A c \in IDEMPOTENT_READ_TOOLS : Cardinality(ServedIn(doc, c, b.body + 1)) = 0
    BY <2>1, FS_EmptySet
  <2>3. b.body + 1 \in Nat
    BY <1>1
  <2> QED
    BY <1>6, <2>2, <2>3
<1>8. GuardCounts'
  <2>1. \A c \in IDEMPOTENT_READ_TOOLS : 0 <= Allowance(b', c)
    BY <1>2 DEF Allowance, NoReads
  <2> QED
    BY <1>2, <1>7, <2>1 DEF GuardCounts
<1>9. ReadsBounded'
  <2>1. ASSUME NEW n \in 1..(b.body + 1) PROVE Bounded(doc', n)
    <3>1. CASE n = b.body + 1
      BY <1>7, <3>1, RoundAssumption DEF Bounded
    <3>2. CASE n # b.body + 1
      <4>1. n \in 1..b.body
        BY <1>1, <3>2
      <4>2. Bounded(doc, n)
        BY <4>1, BoundedForms DEF RoundInv
      <4> QED
        BY <1>6, <4>1, <4>2 DEF Bounded
    <3> QED
      BY <3>1, <3>2
  <2> QED
    BY <1>2, <2>1 DEF ReadsBounded, Bounded, ServedIn, Serves
<1> QED
  BY <1>3, <1>4, <1>5, <1>6, <1>8, <1>9 DEF RoundInv

LEMMA RunKeeps == ASSUME RoundInv, Run PROVE RoundInv'
<1> DEFINE turn == IF doc = <<>> THEN 0 ELSE doc[Len(doc)].turn + 1
<1>1. turn \in Nat
  <2>1. CASE doc = <<>>
    BY <2>1
  <2>2. CASE doc # <<>>
    <3>1. Len(doc) \in DOMAIN doc /\ doc \in Seq(Entry)
      BY <2>2 DEF RoundInv, Trail
    <3>2. doc[Len(doc)] \in Entry
      BY <3>1
    <3> QED
      BY <2>2, <3>2 DEF Entry
  <2> QED
    BY <2>1, <2>2
<1>2. /\ doc' = Append(doc, Message("user", turn, <<{}>>))
      /\ b' = OpenWindow(turn, 1, doc')
  BY DEF Run
<1> HIDE DEF turn
<1> QED
  BY <1>1, <1>2, OpenStep

LEMMA ResumeKeeps == ASSUME RoundInv, Resume PROVE RoundInv'
<1>1. b.turn \in Nat
  BY DEF Resume, RoundInv, Locals
<1>2. doc' = Append(doc, Message("user", b.turn, <<{}>>))
  BY DEF Resume
<1>3. b' = OpenWindow(b.turn, b.window, doc') \/ b' = OpenWindow(b.turn, b.window + 1, doc')
  BY DEF Resume
<1> QED
  BY <1>1, <1>2, <1>3, OpenStep

(* The other steps write no entry of a call.                               *)
LEMMA ShapeAfter ==
    ASSUME RoundInv, NEW pc, NEW calls, b' = [b EXCEPT !.pc = pc, !.calls = calls]
    PROVE  /\ BodyShape(b') /\ b'.pc = pc /\ b'.calls = calls /\ b'.turn = b.turn
           /\ b'.body = b.body /\ b'.round = b.round /\ b'.refetches = b.refetches
           /\ b'.seen = b.seen /\ b'.definitionRead = b.definitionRead
           /\ b'.expandedThisRound = b.expandedThisRound
BY DEF RoundInv, Locals, BodyShape

LEMMA QuietCounts ==
    ASSUME RoundInv, doc' = doc, b'.body = b.body
    PROVE  GateFollowsTheTrail' /\ ReadsBounded'
BY DEF RoundInv, GateFollowsTheTrail, ReadsBounded

(* A turn or a window is left.                                             *)
LEMMA LeaveKeeps ==
    ASSUME RoundInv, doc' = doc, BodyShape(b'), b'.pc \in {"idle", "paused"},
           b.pc # "idle", b'.turn = b.turn, b'.body = b.body, b'.round = b.round,
           b'.refetches = b.refetches, b'.definitionRead \in BOOLEAN,
           b'.expandedThisRound \in BOOLEAN, b'.calls \in Seq(Calls)
    PROVE  RoundInv'
<1>1. Locals'
  BY DEF RoundInv, Locals
<1>2. Trail' /\ GateKnows' /\ GuardCounts'
  BY DEF RoundInv, Trail, GateKnows, GuardCounts
<1> QED
  BY <1>1, <1>2, QuietCounts DEF RoundInv

LEMMA AbandonKeeps == ASSUME RoundInv, Abandon PROVE RoundInv'
<1>1. b' = [b EXCEPT !.pc = "idle", !.calls = <<>>] /\ doc' = doc /\ b.pc # "idle"
  BY DEF Abandon
<1>2. b.definitionRead \in BOOLEAN /\ b.expandedThisRound \in BOOLEAN /\ <<>> \in Seq(Calls)
  BY DEF RoundInv, Locals
<1> QED
  BY <1>1, <1>2, ShapeAfter, LeaveKeeps

LEMMA AskUserKeeps == ASSUME RoundInv, AskUser PROVE RoundInv'
<1>1. b' = [b EXCEPT !.pc = "paused", !.calls = b.calls] /\ doc' = doc /\ b.pc # "idle"
  BY DEF AskUser, RoundInv, Locals, BodyShape
<1>2. /\ b.definitionRead \in BOOLEAN /\ b.expandedThisRound \in BOOLEAN
      /\ b.calls \in Seq(Calls)
  BY DEF RoundInv, Locals
<1> QED
  BY <1>1, <1>2, ShapeAfter, LeaveKeeps

LEMMA BudgetCapKeeps == ASSUME RoundInv, BudgetCap PROVE RoundInv'
<1>1. b' = [Commit(b) EXCEPT !.pc = "paused", !.calls = <<>>] /\ doc' = doc /\ b.pc # "idle"
  BY DEF BudgetCap
<1>2. /\ BodyShape(b') /\ b'.pc = "paused" /\ b'.calls = <<>> /\ b'.turn = b.turn
      /\ b'.body = b.body /\ b'.round = b.round /\ b'.refetches = b.refetches
      /\ b'.definitionRead = (b.definitionRead \/ b.expandedThisRound)
      /\ b'.expandedThisRound = b.expandedThisRound
  BY <1>1 DEF RoundInv, Locals, BodyShape, Commit
<1>3. b'.definitionRead \in BOOLEAN /\ b'.expandedThisRound \in BOOLEAN /\ b'.calls \in Seq(Calls)
  BY <1>2 DEF RoundInv, Locals
<1> QED
  BY <1>1, <1>2, <1>3, LeaveKeeps

(* The definitions got in this round are committed at its end.             *)
LEMMA EndBatchKeeps == ASSUME RoundInv, EndBatch PROVE RoundInv'
<1>1. b.pc = "batch" /\ b' = [Commit(b) EXCEPT !.pc = "build"] /\ doc' = doc
  BY DEF EndBatch
<1>2. /\ BodyShape(b') /\ b'.pc = "build" /\ b'.calls = b.calls /\ b'.turn = b.turn
      /\ b'.body = b.body /\ b'.round = b.round /\ b'.refetches = b.refetches
      /\ b'.seen = b.seen
      /\ b'.definitionRead = (b.definitionRead \/ b.expandedThisRound)
      /\ b'.expandedThisRound = b.expandedThisRound
  BY <1>1 DEF RoundInv, Locals, BodyShape, Commit
<1>3. Locals'
  BY <1>1, <1>2 DEF RoundInv, Locals
<1>4. Got(doc, b.turn) <=> GotBefore(doc, b.turn, b.round) \/ GotIn(doc, b.turn, b.round)
  <2>1. \A i \in DOMAIN doc : doc[i].round < b.round \/ doc[i].round = b.round
    <3>1. \A i \in DOMAIN doc : doc[i].round \in Nat
      <4>1. \A i \in DOMAIN doc : doc[i] \in Entry
        BY DEF RoundInv, Trail
      <4> QED
        BY <4>1 DEF Entry
    <3> QED
      BY <3>1 DEF RoundInv, Trail, Locals
  <2> QED
    BY <2>1 DEF Got, GotBefore, GotIn
<1>5. Trail' /\ GateKnows' /\ GuardCounts'
  BY <1>1, <1>2, <1>4 DEF RoundInv, Trail, GateKnows, GuardCounts, Allowance
<1> QED
  BY <1>1, <1>2, <1>3, <1>5, QuietCounts DEF RoundInv

LEMMA BuildKeeps == ASSUME RoundInv, Build PROVE RoundInv'
<1>1. b.pc = "build" /\ b' = [BeginRound(b) EXCEPT !.pc = "model"] /\ doc' = doc
  BY DEF Build
<1>2. /\ BodyShape(b') /\ b'.pc = "model" /\ b'.calls = b.calls /\ b'.turn = b.turn
      /\ b'.body = b.body /\ b'.round = b.round /\ b'.refetches = b.refetches
      /\ b'.seen = b.seen /\ b'.definitionRead = b.definitionRead
      /\ b'.expandedThisRound = FALSE
  BY <1>1 DEF RoundInv, Locals, BodyShape, BeginRound
<1>3. Locals'
  BY <1>1, <1>2 DEF RoundInv, Locals
<1>4. Trail' /\ GateKnows' /\ GuardCounts'
  BY <1>1, <1>2 DEF RoundInv, Trail, GateKnows, GuardCounts, Allowance
<1> QED
  BY <1>1, <1>2, <1>3, <1>4, QuietCounts DEF RoundInv

LEMMA RespondKeeps == ASSUME RoundInv, Respond PROVE RoundInv'
<1>1. PICK n \in 1..MaxBatch : \E cs \in [1..n -> Calls] :
         b' = [b EXCEPT !.pc = "batch", !.calls = cs, !.round = @ + 1]
  BY DEF Respond
<1>2. PICK cs \in [1..n -> Calls] :
         b' = [b EXCEPT !.pc = "batch", !.calls = cs, !.round = @ + 1]
  BY <1>1
<1>3. cs \in Seq(Calls)
  <2>1. n \in Nat
    BY RoundAssumption
  <2> QED
    BY <2>1
<1>4. /\ BodyShape(b') /\ b'.pc = "batch" /\ b'.calls = cs /\ b'.turn = b.turn
      /\ b'.body = b.body /\ b'.round = b.round + 1 /\ b'.refetches = b.refetches
      /\ b'.seen = b.seen /\ b'.definitionRead = b.definitionRead
      /\ b'.expandedThisRound = b.expandedThisRound
  BY <1>2 DEF RoundInv, Locals, BodyShape
<1>5. b.pc = "model" /\ doc' = doc /\ b.round \in Nat
  BY DEF Respond, RoundInv, Locals
<1>6. Locals'
  BY <1>3, <1>4, <1>5 DEF RoundInv, Locals
<1>7. \A i \in DOMAIN doc : doc[i].round \in Nat /\ doc[i].round <= b.round
  <2>1. \A i \in DOMAIN doc : doc[i] \in Entry
    BY DEF RoundInv, Trail
  <2> QED
    BY <2>1 DEF Entry, RoundInv, Trail
<1>8. Trail' /\ GuardCounts'
  BY <1>4, <1>5, <1>7 DEF RoundInv, Trail, GuardCounts, Allowance
<1>9. GateKnows'
  <2>1. /\ Got(doc, b.turn) <=> GotBefore(doc, b.turn, b.round + 1)
        /\ ~ GotIn(doc, b.turn, b.round + 1)
    BY <1>5, <1>7 DEF Got, GotBefore, GotIn
  <2> QED
    BY <1>4, <1>5, <2>1 DEF RoundInv, GateKnows
<1> QED
  BY <1>4, <1>5, <1>6, <1>8, <1>9, QuietCounts DEF RoundInv

LEMMA ProvenanceType ==
    ASSUME RoundInv, NEW turn PROVE TurnProvenance(doc, turn) \in ColumnProvenances
<1>1. \A i \in DOMAIN doc : doc[i].prov \in ColumnProvenances
  <2>1. \A i \in DOMAIN doc : doc[i] \in Entry
    BY DEF RoundInv, Trail
  <2> QED
    BY <2>1 DEF Entry
<1>2. CASE \E i \in TurnEntries(doc, turn) : doc[i].prov = Undetermined
  BY <1>2 DEF TurnProvenance, ColumnProvenances, Undetermined
<1>3. CASE ~ \E i \in TurnEntries(doc, turn) : doc[i].prov = Undetermined
  <2>1. \A i \in TurnEntries(doc, turn) : doc[i].prov[1] \in SUBSET Columns
    BY <1>1, <1>3 DEF TurnEntries, ColumnProvenances, Undetermined
  <2>2. UNION {doc[i].prov[1] : i \in TurnEntries(doc, turn)} \in SUBSET Columns
    BY <2>1
  <2> QED
    BY <1>3, <2>2 DEF TurnProvenance, ColumnProvenances
<1> QED
  BY <1>2, <1>3

LEMMA EndTurnKeeps == ASSUME RoundInv, EndTurn PROVE RoundInv'
<1> DEFINE p == TurnProvenance(doc, b.turn)
           e == Message("assistant", b.turn, p)
<1>1. /\ b' = [b EXCEPT !.pc = "idle", !.calls = b.calls] /\ doc' = Append(doc, e)
      /\ b.turn \in Nat
  BY DEF EndTurn, RoundInv, Locals, BodyShape
<1>2. p \in ColumnProvenances
  BY ProvenanceType
<1> HIDE DEF p
<1>3. /\ e \in Entry /\ e.call = "none" /\ e.body = b.body /\ e.round = b.round
      /\ e.kind # "tool" /\ b.body \in Nat /\ b.round \in Nat
  BY <1>1, <1>2, MessageType
<1> HIDE DEF e
<1>4. /\ BodyShape(b') /\ b'.pc = "idle" /\ b'.calls = b.calls /\ b'.turn = b.turn
      /\ b'.body = b.body /\ b'.round = b.round /\ b'.refetches = b.refetches
      /\ b'.definitionRead = b.definitionRead /\ b'.expandedThisRound = b.expandedThisRound
  BY <1>1, ShapeAfter
<1>5. Locals'
  BY <1>4 DEF RoundInv, Locals
<1>6. Trail'
  BY <1>1, <1>3, <1>4, TrailAppend
<1>7. GateKnows' /\ GuardCounts'
  BY <1>4 DEF GateKnows, GuardCounts
<1>8. /\ GateFollowsTheTrail'
      /\ \A c \in IDEMPOTENT_READ_TOOLS, n \in Nat :
           Cardinality(ServedIn(doc', c, n)) = Cardinality(ServedIn(doc, c, n))
  BY <1>1, <1>3, MessageServes
<1>9. ReadsBounded'
  <2>1. \A n \in 1..b.body : Bounded(doc, n)
    BY BoundedForms DEF RoundInv
  <2>2. \A n \in 1..b.body : Bounded(doc', n)
    BY <1>8, <2>1 DEF Bounded
  <2> QED
    BY <1>4, <2>2 DEF ReadsBounded, Bounded, ServedIn, Serves
<1> QED
  BY <1>5, <1>6, <1>7, <1>8, <1>9 DEF RoundInv

LEMMA NextKeepsRoundInv == RoundInv /\ [Next]_vars => RoundInv'
<1> SUFFICES ASSUME RoundInv, [Next]_vars PROVE RoundInv'
  OBVIOUS
<1>1. CASE Run \/ Resume \/ Abandon \/ Build \/ EndTurn \/ AskUser \/ Respond
  BY <1>1, RunKeeps, ResumeKeeps, AbandonKeeps, BuildKeeps, EndTurnKeeps, AskUserKeeps,
     RespondKeeps
<1>2. CASE Decline \/ ReadGate \/ DispatchOk \/ DispatchDenied \/ EndBatch \/ BudgetCap
  BY <1>2, DeclineKeeps, ReadGateKeeps, DispatchOkKeeps, DispatchDeniedKeeps, EndBatchKeeps,
     BudgetCapKeeps
<1>3. CASE UNCHANGED vars
  <2>1. doc' = doc /\ b' = b
    BY <1>3 DEF vars
  <2>2. Locals' /\ Trail' /\ GateKnows' /\ GuardCounts'
    BY <2>1 DEF RoundInv, Locals, Trail, GateKnows, GuardCounts
  <2> QED
    BY <2>1, <2>2, QuietCounts DEF RoundInv
<1> QED
  BY <1>1, <1>2, <1>3 DEF Next

(* What the two guards remember of a window agrees with the trail of the   *)
(* turn, in every reachable state (ReadGuard, BlueprintGate).              *)
THEOREM RoundInvariant == Spec => []RoundInv
<1>1. Init => RoundInv
  BY InitRoundInv
<1>2. RoundInv /\ [Next]_vars => RoundInv'
  BY NextKeepsRoundInv
<1> QED
  BY <1>1, <1>2, PTL DEF Spec

(* A runBlueprint passes the gate if and only if an earlier response of    *)
(* its turn got the definition, in whatever window (blueprint_gate.py).    *)
THEOREM GateIsTheTrails == Spec => []GateFollowsTheTrail
<1>1. RoundInv => GateFollowsTheTrail
  BY DEF RoundInv
<1> QED
  BY <1>1, RoundInvariant, PTL

(* One loop body serves a read a bounded number of times, however often    *)
(* its result is trimmed away (_MAX_TRIMMED_READ_REFETCHES).               *)
THEOREM ReadsStayBounded == Spec => []ReadsBounded
<1>1. RoundInv => ReadsBounded
  BY DEF RoundInv
<1> QED
  BY <1>1, RoundInvariant, PTL

---------------------------------------------------------------------------
(* The session document as a history: turns follow one another, each is    *)
(* opened by the user and closed by its answer, and the answer carries     *)
(* what the turn read.                                                     *)
Ordered(d) == \A i, j \in DOMAIN d : i <= j => d[i].turn <= d[j].turn
Opened(d) ==
    \A i \in DOMAIN d : \E j \in 1..i : d[j].kind = "user" /\ d[j].turn = d[i].turn
Closes(d, i) ==
    /\ \A j \in DOMAIN d : j > i => d[i].turn < d[j].turn
    /\ d[i].prov = TurnProvenance(d, d[i].turn)
Closed(d) == \A i \in DOMAIN d : d[i].kind = "assistant" => Closes(d, i)

(* A call is one of the tools; the entry of recordAssumptions, which the   *)
(* provenance of a turn leaves out, read nothing.                          *)
Called(e) ==
    /\ e.kind = "tool" => e.call \in Calls
    /\ e.call = "recordAssumptions" /\ e.status = "ok" /\ e.code # "served" => e.prov = <<{}>>
AllCalled(d) == \A i \in DOMAIN d : Called(d[i])

Told(d) == Ordered(d) /\ Opened(d) /\ Closed(d) /\ AllCalled(d)

(* The document is open for the turn that is served.                       *)
Live ==
    b.pc # "idle" => /\ doc # <<>> /\ doc[Len(doc)].turn = b.turn
                     /\ doc[Len(doc)].kind # "assistant"

(* Only the results of a turn make its provenance.                         *)
LEMMA ProvenanceAppend ==
    ASSUME NEW d \in Seq(Entry), NEW e \in Entry, NEW turn, e.kind # "tool" \/ e.turn # turn
    PROVE  TurnProvenance(Append(d, e), turn) = TurnProvenance(d, turn)
<1> DEFINE D == Append(d, e)
           es == TurnEntries(d, turn)
<1>1. /\ DOMAIN D = DOMAIN d \cup {Len(d) + 1} /\ D[Len(d) + 1] = e
      /\ \A i \in DOMAIN d : D[i] = d[i]
  OBVIOUS
<1>2. TurnEntries(D, turn) = es
  BY <1>1 DEF TurnEntries
<1>3. \A i \in es : i \in DOMAIN d /\ D[i] = d[i]
  BY <1>1 DEF TurnEntries
<1> HIDE DEF D, es
<1>4. {D[i].prov[1] : i \in es} = {d[i].prov[1] : i \in es}
  BY <1>3
<1>5. (\E i \in es : D[i].prov = Undetermined) <=> (\E i \in es : d[i].prov = Undetermined)
  BY <1>3
<1>6. TurnProvenance(D, turn) = TurnProvenance(d, turn)
  BY <1>2, <1>4, <1>5 DEF TurnProvenance, es
<1> QED
  BY <1>6 DEF D

LEMMA ToldAppend ==
    ASSUME NEW d \in Seq(Entry), NEW e \in Entry, Told(d), Called(e),
           d # <<>> => d[Len(d)].turn <= e.turn,
           d # <<>> /\ d[Len(d)].kind = "assistant" => d[Len(d)].turn < e.turn,
           e.kind = "user" \/ (d # <<>> /\ d[Len(d)].turn = e.turn),
           e.kind = "assistant" => e.prov = TurnProvenance(d, e.turn)
    PROVE  Told(Append(d, e))
<1> DEFINE D == Append(d, e)
           n == Len(d)
<1>1. /\ DOMAIN D = 1..(n + 1) /\ DOMAIN d = 1..n /\ D[n + 1] = e /\ n \in Nat
      /\ \A i \in 1..n : D[i] = d[i]
  OBVIOUS
<1>2. /\ \A i \in 1..n : d[i].turn \in Nat
      /\ e.turn \in Nat
  <2>1. \A i \in 1..n : d[i] \in Entry
    OBVIOUS
  <2> QED
    BY <2>1 DEF Entry
<1>3. \A i \in 1..n : d[i].turn <= e.turn
  <2> SUFFICES ASSUME NEW i \in 1..n PROVE d[i].turn <= e.turn
    OBVIOUS
  <2>1. d # <<>> /\ n \in 1..n /\ i <= n
    BY <1>1
  <2>2. d[i].turn <= d[n].turn /\ d[n].turn <= e.turn
    BY <1>1, <2>1 DEF Told, Ordered
  <2> QED
    BY <1>2, <2>1, <2>2
<1>4. \A i \in 1..n : d[i].kind = "assistant" => d[i].turn < e.turn
  <2> SUFFICES ASSUME NEW i \in 1..n, d[i].kind = "assistant" PROVE d[i].turn < e.turn
    OBVIOUS
  <2>1. d # <<>> /\ n \in 1..n /\ i <= n
    BY <1>1
  <2>2. CASE i = n
    BY <2>1, <2>2
  <2>3. CASE i # n
    <3>1. n > i
      <4> HIDE DEF n
      <4>1. i \in Nat /\ n \in Nat
        BY <1>1
      <4> QED
        BY <2>1, <2>3, <4>1
    <3>2. Closes(d, i)
      BY <1>1 DEF Told, Closed
    <3>3. d[i].turn < d[n].turn
      BY <1>1, <2>1, <3>1, <3>2 DEF Closes
    <3> QED
      BY <1>2, <1>3, <2>1, <3>3
  <2> QED
    BY <2>2, <2>3
<1>5. \A i \in 1..n : d[i].kind = "assistant" =>
         TurnProvenance(D, d[i].turn) = TurnProvenance(d, d[i].turn)
  <2> SUFFICES ASSUME NEW i \in 1..n, d[i].kind = "assistant"
               PROVE  TurnProvenance(D, d[i].turn) = TurnProvenance(d, d[i].turn)
    OBVIOUS
  <2>1. e.turn # d[i].turn
    BY <1>2, <1>4
  <2> QED
    BY <2>1, ProvenanceAppend
<1>6. e.kind = "assistant" => TurnProvenance(D, e.turn) = TurnProvenance(d, e.turn)
  <2> SUFFICES ASSUME e.kind = "assistant"
               PROVE  TurnProvenance(D, e.turn) = TurnProvenance(d, e.turn)
    OBVIOUS
  <2> QED
    BY ProvenanceAppend
<1>7. /\ \A i, j \in 1..n : i <= j => d[i].turn <= d[j].turn
      /\ \A i \in 1..n : \E j \in 1..i : d[j].kind = "user" /\ d[j].turn = d[i].turn
      /\ \A i \in 1..n : Called(d[i])
      /\ \A i \in 1..n : d[i].kind = "assistant" =>
            /\ \A j \in 1..n : j > i => d[i].turn < d[j].turn
            /\ d[i].prov = TurnProvenance(d, d[i].turn)
  BY <1>1 DEF Told, Ordered, Opened, Closed, Closes, AllCalled
<1>8. d # <<>> => n \in 1..n
  BY <1>1
<1> HIDE DEF D, n
<1>9. Ordered(D)
  BY <1>1, <1>2, <1>3, <1>7 DEF Ordered
<1>10. Opened(D)
  <2> SUFFICES ASSUME NEW i \in 1..(n + 1)
               PROVE  \E j \in 1..i : D[j].kind = "user" /\ D[j].turn = D[i].turn
    BY <1>1 DEF Opened
  <2>1. CASE i \in 1..n
    <3>1. PICK j \in 1..i : d[j].kind = "user" /\ d[j].turn = d[i].turn
      BY <1>7, <2>1
    <3>2. j \in 1..n
      BY <1>1, <2>1, <3>1
    <3> QED
      BY <1>1, <2>1, <3>1, <3>2
  <2>2. CASE i = n + 1
    <3>1. CASE e.kind = "user"
      BY <1>1, <2>2, <3>1
    <3>2. CASE e.kind # "user"
      <4>1. n \in 1..n /\ d[n].turn = e.turn
        BY <1>8, <3>2 DEF n
      <4>2. PICK j \in 1..n : d[j].kind = "user" /\ d[j].turn = d[n].turn
        BY <1>7, <4>1
      <4>3. j \in 1..i
        BY <1>1, <2>2, <4>2
      <4> QED
        BY <1>1, <2>2, <4>1, <4>2, <4>3
    <3> QED
      BY <3>1, <3>2
  <2>3. i \in 1..n \/ i = n + 1
    BY <1>1
  <2> QED
    BY <2>1, <2>2, <2>3
<1>11. Closed(D)
  <2> SUFFICES ASSUME NEW i \in 1..(n + 1), D[i].kind = "assistant" PROVE Closes(D, i)
    BY <1>1 DEF Closed
  <2>1. CASE i \in 1..n
    <3>1. D[i] = d[i] /\ d[i].kind = "assistant"
      BY <1>1, <2>1
    <3>2. D[i].prov = TurnProvenance(D, D[i].turn)
      BY <1>5, <1>7, <2>1, <3>1
    <3>3. ASSUME NEW j \in 1..(n + 1), j > i PROVE D[i].turn < D[j].turn
      <4>1. CASE j \in 1..n
        BY <1>1, <1>7, <2>1, <3>1, <3>3, <4>1
      <4>2. CASE j = n + 1
        BY <1>1, <1>4, <2>1, <3>1, <4>2
      <4>3. j \in 1..n \/ j = n + 1
        BY <1>1
      <4> QED
        BY <4>1, <4>2, <4>3
    <3> QED
      BY <1>1, <3>2, <3>3 DEF Closes
  <2>2. CASE i = n + 1
    <3>1. \A j \in 1..(n + 1) : ~(j > i)
      BY <1>1, <2>2
    <3>2. D[i] = e /\ e.prov = TurnProvenance(D, e.turn)
      BY <1>1, <1>6, <2>2
    <3> QED
      BY <1>1, <3>1, <3>2 DEF Closes
  <2>3. i \in 1..n \/ i = n + 1
    BY <1>1
  <2> QED
    BY <2>1, <2>2, <2>3
<1>12. AllCalled(D)
  <2>1. \A i \in 1..(n + 1) : i \in 1..n \/ i = n + 1
    BY <1>1
  <2>2. \A i \in 1..(n + 1) : Called(D[i])
    BY <1>1, <1>7, <2>1
  <2> QED
    BY <1>1, <2>2 DEF AllCalled
<1>13. Told(D)
  BY <1>9, <1>10, <1>11, <1>12 DEF Told
<1> QED
  BY <1>13 DEF D

---------------------------------------------------------------------------
(* The rest of the types, and the guard's view of the emulated reads.      *)
Rest ==
    /\ b.pc \in {"idle", "build", "model", "batch", "paused", "over"}
    /\ b.turn \in Int /\ b.window \in Nat
    /\ b.seen \in SUBSET IDEMPOTENT_READ_TOOLS
    /\ b.served \in [IDEMPOTENT_READ_TOOLS -> Int]
    /\ b.servedThisRound \in SUBSET IDEMPOTENT_READ_TOOLS
    /\ scope \in Scopes

GuardKnows ==
    b.pc \in {"build", "model", "batch"} =>
        \A c \in EmulatedReads : c \in b.seen /\ b.served[c] = EmulatedId(c)
PairsReadable ==
    b.pc \in {"model", "batch"} => \A c \in EmulatedReads : EmulatedId(c) \in Readable

(* A request is the one the document, the scope and the turn call for.     *)
MessagesOf(r, d) ==
    /\ r.all \in Seq(Unit) /\ r.kept \in Seq(Unit)
    /\ \A i \in DOMAIN r.kept : r.kept[i].id \in -Cardinality(EmulatedReads)..Len(d)
RequestedNow ==
    /\ MessagesOf(request, doc)
    /\ b.pc = "model" => /\ request.all = SpliceDiscovery(Assemble(doc, scope, b.turn))
                         /\ request.kept = Fit(request.all)

HistoryInv ==
    /\ Told(doc) /\ Live /\ Rest
    /\ GuardKnows /\ PairsReadable /\ EmulatedNeverFetched
    /\ RequestedNow

LEMMA EmulatedFinite ==
    /\ IsFiniteSet(EmulatedReads) /\ Cardinality(EmulatedReads) \in Nat
    /\ EmulatedReads \in SUBSET IDEMPOTENT_READ_TOOLS
    /\ EmulatedReads \in SUBSET Calls
    /\ "none" \notin EmulatedReads /\ "runBlueprint" \notin EmulatedReads
<1>1. EmulatedReads \in SUBSET {"listTables", "listDatabases"}
  BY DEF EmulatedReads
<1>2. IsFiniteSet({"listTables"} \cup {"listDatabases"})
  BY FS_Singleton, FS_AddElement
<1>3. {"listTables"} \cup {"listDatabases"} = {"listTables", "listDatabases"}
  OBVIOUS
<1>4. IsFiniteSet(EmulatedReads)
  BY <1>1, <1>2, <1>3, FS_Subset
<1>5. Cardinality(EmulatedReads) \in Nat
  BY <1>4, FS_CardinalityType
<1> QED
  BY <1>1, <1>4, <1>5 DEF EmulatedReads, IDEMPOTENT_READ_TOOLS

(* SetToSeq lists a finite set.                                            *)
LEMMA Listed ==
    ASSUME NEW S, IsFiniteSet(S)
    PROVE  /\ SetToSeq(S) \in [1..Cardinality(S) -> S]
           /\ \A c \in S : \E n \in 1..Cardinality(S) : SetToSeq(S)[n] = c
           /\ \A m, n \in 1..Cardinality(S) : SetToSeq(S)[m] = SetToSeq(S)[n] => m = n
<1> DEFINE n == Cardinality(S)
           f == SetToSeq(S)
<1>1. n \in Nat /\ ExistsBijection(1..n, S)
  BY FS_CardinalityType
<1>2. \E g \in [1..n -> S] : IsInjective(g)
  BY <1>1 DEF ExistsBijection, Bijection, Injection
<1>3. f \in [1..n -> S] /\ IsInjective(f)
  BY <1>2 DEF SetToSeq
<1> HIDE DEF f
<1>4. f \in Injection(1..n, S)
  BY <1>3 DEF Injection
<1>5. IsFiniteSet(1..n) /\ Cardinality(1..n) = n
  <2>1. IsFiniteSet(1..n) /\ Cardinality(1..n) = IF 1 > n THEN 0 ELSE n - 1 + 1
    BY <1>1, FS_Interval
  <2> QED
    BY <1>1, <2>1
<1>6. f \in Surjection(1..n, S)
  BY <1>4, <1>5, FS_Injection
<1>7. \A c \in S : \E m \in 1..n : f[m] = c
  BY <1>6 DEF Surjection
<1>8. \A l, m \in 1..n : f[l] = f[m] => l = m
  BY <1>3 DEF IsInjective
<1> QED
  BY <1>3, <1>7, <1>8 DEF f

LEMMA EmulatedIds ==
    ASSUME NEW c \in EmulatedReads
    PROVE  /\ EmulatedId(c) \in Int /\ EmulatedId(c) < 0
           /\ \E n \in 1..Cardinality(EmulatedReads) :
                EmulatedId(c) = -n /\ SetToSeq(EmulatedReads)[n] = c
<1> DEFINE N == 1..Cardinality(EmulatedReads)
           x == CHOOSE n \in N : SetToSeq(EmulatedReads)[n] = c
<1>1. \E n \in N : SetToSeq(EmulatedReads)[n] = c
  BY EmulatedFinite, Listed
<1>2. x \in N /\ SetToSeq(EmulatedReads)[x] = c
  BY <1>1
<1>3. EmulatedId(c) = -x
  BY DEF EmulatedId
<1> HIDE DEF x
<1>4. x \in Nat /\ x > 0
  BY <1>2, EmulatedFinite
<1> QED
  BY <1>2, <1>3, <1>4

---------------------------------------------------------------------------
LEMMA InitHistoryInv == Init => HistoryInv
<1> SUFFICES ASSUME Init PROVE HistoryInv
  OBVIOUS
<1>1. doc = <<>> /\ b.pc = "idle" /\ request = NoRequest /\ scope \in Scopes
  BY DEF Init
<1>2. Told(doc) /\ Live /\ EmulatedNeverFetched
  BY <1>1 DEF Told, Ordered, Opened, Closed, AllCalled, Live, EmulatedNeverFetched
<1>3. Rest
  BY DEF Init, Rest, NoReads
<1>4. GuardKnows /\ PairsReadable
  BY <1>1 DEF GuardKnows, PairsReadable
<1>5. RequestedNow
  BY <1>1 DEF RequestedNow, MessagesOf, NoRequest
<1> QED
  BY <1>2, <1>3, <1>4, <1>5 DEF HistoryInv

LEMMA NoMessages ==
    ASSUME request' = NoRequest, b'.pc # "model" PROVE RequestedNow'
BY DEF RequestedNow, MessagesOf, NoRequest

(* A message of an earlier request is still in the document.               *)
LEMMA MessagesStay ==
    ASSUME NEW r, NEW d \in Seq(Entry), NEW D \in Seq(Entry), MessagesOf(r, d), Len(d) <= Len(D)
    PROVE  MessagesOf(r, D)
<1>1. Cardinality(EmulatedReads) \in Nat
  BY EmulatedFinite
<1>2. -Cardinality(EmulatedReads) \in Int /\ Len(d) \in Int /\ Len(D) \in Int
  BY <1>1
<1>3. \A i \in DOMAIN r.kept : r.kept[i].id \in -Cardinality(EmulatedReads)..Len(D)
  BY <1>2 DEF MessagesOf
<1> QED
  BY <1>3 DEF MessagesOf

LEMMA RequestStays ==
    ASSUME RoundInv, HistoryInv, request' = request, b'.pc # "model",
           doc' = doc \/ (\E e \in Entry : doc' = Append(doc, e))
    PROVE  RequestedNow'
<1>1. doc \in Seq(Entry) /\ doc' \in Seq(Entry) /\ Len(doc) <= Len(doc')
  BY DEF RoundInv, Trail
<1>2. MessagesOf(request, doc)
  BY DEF HistoryInv, RequestedNow
<1>3. MessagesOf(request, doc')
  BY <1>1, <1>2, MessagesStay
<1> QED
  BY <1>3 DEF RequestedNow

(* A turn or a window is left.                                             *)
LEMMA LeaveHistory ==
    ASSUME RoundInv, HistoryInv, doc' = doc, scope' = scope, request' = NoRequest,
           b'.pc \in {"idle", "paused"}, b.pc # "idle", b'.turn = b.turn, b'.window = b.window,
           b'.seen = b.seen, b'.served = b.served, b'.servedThisRound = b.servedThisRound
    PROVE  HistoryInv'
<1>1. Told(doc') /\ Live' /\ EmulatedNeverFetched'
  BY DEF HistoryInv, Live, EmulatedNeverFetched
<1>2. Rest'
  BY DEF HistoryInv, Rest
<1>3. GuardKnows' /\ PairsReadable'
  BY DEF GuardKnows, PairsReadable
<1>4. RequestedNow'
  BY NoMessages
<1> QED
  BY <1>1, <1>2, <1>3, <1>4 DEF HistoryInv

LEMMA AbandonHistory == ASSUME RoundInv, HistoryInv, Abandon PROVE HistoryInv'
<1>1. b.pc # "idle" /\ b' = [b EXCEPT !.pc = "idle", !.calls = <<>>]
  BY DEF Abandon
<1>2. /\ b'.pc = "idle" /\ b'.turn = b.turn /\ b'.window = b.window /\ b'.seen = b.seen
      /\ b'.served = b.served /\ b'.servedThisRound = b.servedThisRound
  BY <1>1 DEF RoundInv, Locals, BodyShape
<1> QED
  BY <1>1, <1>2, LeaveHistory DEF Abandon

LEMMA AskUserHistory == ASSUME RoundInv, HistoryInv, AskUser PROVE HistoryInv'
<1>1. b.pc # "idle" /\ b' = [b EXCEPT !.pc = "paused"]
  BY DEF AskUser
<1>2. /\ b'.pc = "paused" /\ b'.turn = b.turn /\ b'.window = b.window /\ b'.seen = b.seen
      /\ b'.served = b.served /\ b'.servedThisRound = b.servedThisRound
  BY <1>1 DEF RoundInv, Locals, BodyShape
<1> QED
  BY <1>1, <1>2, LeaveHistory DEF AskUser

LEMMA BudgetCapHistory == ASSUME RoundInv, HistoryInv, BudgetCap PROVE HistoryInv'
<1>1. b.pc # "idle" /\ b' = [Commit(b) EXCEPT !.pc = "paused", !.calls = <<>>]
  BY DEF BudgetCap
<1>2. /\ b'.pc = "paused" /\ b'.turn = b.turn /\ b'.window = b.window /\ b'.seen = b.seen
      /\ b'.served = b.served /\ b'.servedThisRound = b.servedThisRound
  BY <1>1 DEF RoundInv, Locals, BodyShape, Commit
<1> QED
  BY <1>1, <1>2, LeaveHistory DEF BudgetCap

LEMMA EndBatchHistory == ASSUME RoundInv, HistoryInv, EndBatch PROVE HistoryInv'
<1>1. /\ b.pc = "batch" /\ b' = [Commit(b) EXCEPT !.pc = "build"]
      /\ doc' = doc /\ scope' = scope /\ request' = request
  BY DEF EndBatch
<1>2. /\ b'.pc = "build" /\ b'.turn = b.turn /\ b'.window = b.window /\ b'.seen = b.seen
      /\ b'.served = b.served /\ b'.servedThisRound = b.servedThisRound
  BY <1>1 DEF RoundInv, Locals, BodyShape, Commit
<1>3. Told(doc') /\ Live' /\ EmulatedNeverFetched'
  BY <1>1, <1>2 DEF HistoryInv, Live, EmulatedNeverFetched
<1>4. Rest'
  BY <1>1, <1>2 DEF HistoryInv, Rest
<1>5. GuardKnows' /\ PairsReadable'
  BY <1>1, <1>2 DEF HistoryInv, GuardKnows, PairsReadable
<1>6. RequestedNow'
  BY <1>1, <1>2, RequestStays
<1> QED
  BY <1>3, <1>4, <1>5, <1>6 DEF HistoryInv

LEMMA RespondHistory == ASSUME RoundInv, HistoryInv, Respond PROVE HistoryInv'
<1>1. \E cs : b' = [b EXCEPT !.pc = "batch", !.calls = cs, !.round = @ + 1]
  BY DEF Respond
<1>2. b.pc = "model" /\ doc' = doc /\ scope' = scope /\ request' = request
  BY DEF Respond
<1>3. /\ b'.pc = "batch" /\ b'.turn = b.turn /\ b'.window = b.window /\ b'.seen = b.seen
      /\ b'.served = b.served /\ b'.servedThisRound = b.servedThisRound
  BY <1>1 DEF RoundInv, Locals, BodyShape
<1>4. Told(doc') /\ Live' /\ EmulatedNeverFetched'
  BY <1>2, <1>3 DEF HistoryInv, Live, EmulatedNeverFetched
<1>5. Rest'
  BY <1>2, <1>3 DEF HistoryInv, Rest
<1>6. GuardKnows' /\ PairsReadable'
  BY <1>2, <1>3 DEF HistoryInv, GuardKnows, PairsReadable, Readable
<1>7. RequestedNow'
  BY <1>2, <1>3, RequestStays
<1> QED
  BY <1>4, <1>5, <1>6, <1>7 DEF HistoryInv

(* A window starts with the emulated reads as already served.              *)
LEMMA ServedBeforeType ==
    ASSUME NEW d \in Seq(Entry), NEW turn
    PROVE  /\ ServedBefore(d, turn) \in [IDEMPOTENT_READ_TOOLS -> Int]
           /\ \A c \in EmulatedReads : ServedBefore(d, turn)[c] = EmulatedId(c)
<1> DEFINE Reads(c) == {i \in ReadsOf(d, turn, c) : d[i].code # "served"}
           Latest(S) == IF S = {} THEN 0 ELSE CHOOSE i \in S : \A j \in S : i >= j
           At(c) == IF c \in EmulatedReads THEN EmulatedId(c) ELSE Latest(Reads(c))
<1>1. ServedBefore(d, turn) = [c \in IDEMPOTENT_READ_TOOLS |-> At(c)]
  BY DEF ServedBefore
<1>2. ASSUME NEW S \in SUBSET (1..Len(d)) PROVE Latest(S) \in Int
  <2>1. CASE S = {}
    BY <2>1
  <2>2. CASE S # {}
    <3>1. Len(d) \in Nat
      OBVIOUS
    <3>2. \E i \in S : \A j \in S : i >= j
      BY <2>2, <3>1, LastNumber
    <3>3. Latest(S) \in S
      BY <2>2, <3>2
    <3>4. S \in SUBSET Int
      BY <3>1
    <3> QED
      BY <3>3, <3>4
  <2> QED
    BY <2>1, <2>2
<1>5. \A c : Reads(c) \in SUBSET (1..Len(d))
  BY DEF ReadsOf
<1>3. \A c \in IDEMPOTENT_READ_TOOLS : At(c) \in Int
  <2> HIDE DEF Latest, Reads
  <2> QED
    BY <1>2, <1>5, EmulatedIds
<1>4. \A c \in EmulatedReads : At(c) = EmulatedId(c) /\ c \in IDEMPOTENT_READ_TOOLS
  BY EmulatedFinite
<1> HIDE DEF At
<1> QED
  BY <1>1, <1>3, <1>4

LEMMA OpenHistory ==
    ASSUME RoundInv, HistoryInv, NEW turn \in Nat, NEW window \in Nat,
           doc' = Append(doc, Message("user", turn, <<{}>>)),
           b' = OpenWindow(turn, window, doc'), scope' \in Scopes, request' = request,
           doc # <<>> => doc[Len(doc)].turn <= turn,
           doc # <<>> /\ doc[Len(doc)].kind = "assistant" => doc[Len(doc)].turn < turn
    PROVE  HistoryInv'
<1> DEFINE e == Message("user", turn, <<{}>>)
<1>1. e \in Entry /\ doc \in Seq(Entry)
  <2>1. <<{}>> \in ColumnProvenances
    BY DEF ColumnProvenances
  <2> QED
    BY <2>1, MessageType DEF RoundInv, Trail
<1>2. e.kind = "user" /\ e.turn = turn /\ e.call = "none"
  BY DEF Message
<1>3. /\ b'.pc = "build" /\ b'.turn = turn /\ b'.window = window
      /\ b'.seen = SeenBefore(doc', turn) \cup EmulatedReads
      /\ b'.served = ServedBefore(doc', turn)
      /\ b'.servedThisRound = b.servedThisRound
  BY DEF RoundInv, Locals, BodyShape, OpenWindow
<1> HIDE DEF e
<1>4. /\ doc' = Append(doc, e) /\ doc' \in Seq(Entry) /\ doc' # <<>> /\ doc'[Len(doc')] = e
      /\ DOMAIN doc' = DOMAIN doc \cup {Len(doc) + 1} /\ \A i \in DOMAIN doc : doc'[i] = doc[i]
      /\ doc'[Len(doc) + 1] = e
  BY <1>1 DEF e
<1>5. Told(doc')
  <2>1. Called(e)
    BY <1>2 DEF Called
  <2>2. Told(doc)
    BY DEF HistoryInv
  <2> QED
    BY <1>1, <1>2, <1>4, <2>1, <2>2, ToldAppend
<1>6. Live'
  BY <1>2, <1>3, <1>4 DEF Live
<1>7. EmulatedNeverFetched'
  BY <1>2, <1>4, EmulatedFinite DEF HistoryInv, EmulatedNeverFetched
<1>8. /\ ServedBefore(doc', turn) \in [IDEMPOTENT_READ_TOOLS -> Int]
      /\ \A c \in EmulatedReads : ServedBefore(doc', turn)[c] = EmulatedId(c)
  BY <1>4, ServedBeforeType
<1>9. Rest'
  <2>1. SeenBefore(doc', turn) \cup EmulatedReads \in SUBSET IDEMPOTENT_READ_TOOLS
    BY EmulatedFinite DEF SeenBefore
  <2> QED
    BY <1>3, <1>8, <2>1 DEF HistoryInv, Rest
<1>10. GuardKnows' /\ PairsReadable'
  BY <1>3, <1>8 DEF GuardKnows, PairsReadable
<1>11. RequestedNow'
  BY <1>1, <1>3, <1>4, RequestStays
<1> QED
  BY <1>5, <1>6, <1>7, <1>9, <1>10, <1>11 DEF HistoryInv

LEMMA LastEntry ==
    ASSUME RoundInv, doc # <<>>
    PROVE  Len(doc) \in DOMAIN doc /\ doc[Len(doc)] \in Entry /\ doc[Len(doc)].turn \in Nat
<1>1. Len(doc) \in DOMAIN doc /\ doc[Len(doc)] \in Entry
  BY DEF RoundInv, Trail
<1> QED
  BY <1>1 DEF Entry

LEMMA RunHistory == ASSUME RoundInv, HistoryInv, Run PROVE HistoryInv'
<1> DEFINE turn == IF doc = <<>> THEN 0 ELSE doc[Len(doc)].turn + 1
<1>1. /\ turn \in Nat
      /\ doc # <<>> => doc[Len(doc)].turn <= turn /\ doc[Len(doc)].turn < turn
  BY LastEntry
<1>2. /\ doc' = Append(doc, Message("user", turn, <<{}>>))
      /\ b' = OpenWindow(turn, 1, doc') /\ scope' \in Scopes /\ request' = request
  BY DEF Run
<1> HIDE DEF turn
<1> QED
  BY <1>1, <1>2, OpenHistory

LEMMA ResumeHistory == ASSUME RoundInv, HistoryInv, Resume PROVE HistoryInv'
<1>1. b.pc # "idle" /\ b.turn \in Nat /\ b.window \in Nat
  BY DEF Resume, RoundInv, Locals, HistoryInv, Rest
<1>2. doc[Len(doc)].turn <= b.turn /\ doc[Len(doc)].kind # "assistant"
  BY <1>1 DEF HistoryInv, Live
<1>3. /\ doc' = Append(doc, Message("user", b.turn, <<{}>>))
      /\ scope' \in Scopes /\ request' = request
  BY DEF Resume
<1>4. b' = OpenWindow(b.turn, b.window, doc') \/ b' = OpenWindow(b.turn, b.window + 1, doc')
  BY DEF Resume
<1>5. b.window + 1 \in Nat
  BY <1>1
<1> QED
  BY <1>1, <1>2, <1>3, <1>4, <1>5, OpenHistory

LEMMA EndTurnHistory == ASSUME RoundInv, HistoryInv, EndTurn PROVE HistoryInv'
<1> DEFINE p == TurnProvenance(doc, b.turn)
           e == Message("assistant", b.turn, p)
<1>1. /\ b.pc = "model" /\ doc' = Append(doc, e) /\ b' = [b EXCEPT !.pc = "idle"]
      /\ scope' = scope /\ request' = NoRequest /\ b.turn \in Nat
  BY DEF EndTurn, RoundInv, Locals
<1>2. p \in ColumnProvenances
  BY ProvenanceType
<1> HIDE DEF p
<1>3. e \in Entry /\ doc \in Seq(Entry)
  BY <1>1, <1>2, MessageType DEF RoundInv, Trail
<1>4. e.kind = "assistant" /\ e.turn = b.turn /\ e.call = "none" /\ e.prov = p
  BY DEF Message
<1>5. /\ b'.pc = "idle" /\ b'.turn = b.turn /\ b'.window = b.window /\ b'.seen = b.seen
      /\ b'.served = b.served /\ b'.servedThisRound = b.servedThisRound
  BY <1>1 DEF RoundInv, Locals, BodyShape
<1> HIDE DEF e
<1>6. /\ DOMAIN doc' = DOMAIN doc \cup {Len(doc) + 1} /\ \A i \in DOMAIN doc : doc'[i] = doc[i]
      /\ doc'[Len(doc) + 1] = e
  BY <1>1, <1>3
<1>7. Told(doc')
  <2>1. Called(e)
    BY <1>4 DEF Called
  <2>2. /\ Told(doc) /\ doc # <<>> /\ doc[Len(doc)].turn = b.turn
        /\ doc[Len(doc)].kind # "assistant"
    BY <1>1 DEF HistoryInv, Live
  <2>3. doc[Len(doc)].turn <= e.turn
    BY <1>1, <1>4, <2>2
  <2>4. e.prov = TurnProvenance(doc, e.turn)
    BY <1>4 DEF p
  <2> QED
    BY <1>1, <1>3, <1>4, <2>1, <2>2, <2>3, <2>4, ToldAppend
<1>8. Live' /\ GuardKnows' /\ PairsReadable'
  BY <1>5 DEF Live, GuardKnows, PairsReadable
<1>9. EmulatedNeverFetched'
  BY <1>4, <1>6, EmulatedFinite DEF HistoryInv, EmulatedNeverFetched
<1>10. Rest'
  BY <1>1, <1>5 DEF HistoryInv, Rest
<1>11. RequestedNow'
  BY <1>1, <1>5, NoMessages
<1> QED
  BY <1>7, <1>8, <1>9, <1>10, <1>11 DEF HistoryInv

---------------------------------------------------------------------------
(* The steps of a batch                                                    *)

(* The guard finds the emulated pairs in every request, and declines.      *)
LEMMA EmulatedDeclined ==
    ASSUME HistoryInv, b.pc = "batch", NEW c \in EmulatedReads PROVE Declined(c)
<1>1. c \in b.seen /\ b.served[c] = EmulatedId(c) /\ EmulatedId(c) \in Readable
  BY DEF HistoryInv, GuardKnows, PairsReadable
<1>2. b.served[c] # 0
  BY <1>1, EmulatedIds
<1>3. ~ Exempt(c)
  BY <1>1, <1>2 DEF Exempt, Unreadable
<1> QED
  BY <1>1, <1>3, EmulatedFinite DEF Declined

LEMMA RecordHistory ==
    ASSUME RoundInv, HistoryInv, b.pc = "batch", b.calls # <<>>, NEW status \in {"ok", "denied"},
           NEW code \in {"none", "served", "unread", "failed"}, NEW p \in ColumnProvenances,
           doc' = Append(doc, Recorded(status, code, p)), scope' = scope, request' = request,
           Head(b.calls) \in EmulatedReads => code = "served",
           Head(b.calls) = "recordAssumptions" /\ status = "ok" /\ code # "served" => p = <<{}>>,
           b'.pc = "batch", b'.turn = b.turn, b'.window = b.window,
           b'.seen \in SUBSET IDEMPOTENT_READ_TOOLS, b.seen \subseteq b'.seen,
           b'.served \in [IDEMPOTENT_READ_TOOLS -> Int],
           \A c \in EmulatedReads : b'.served[c] = b.served[c],
           b'.servedThisRound \in SUBSET IDEMPOTENT_READ_TOOLS
    PROVE  HistoryInv'
<1> DEFINE e == Recorded(status, code, p)
<1>1. e \in Entry /\ doc \in Seq(Entry) /\ Head(b.calls) \in Calls /\ b.turn \in Nat
  BY RecordedType
<1>2. /\ e.kind = "tool" /\ e.turn = b.turn /\ e.call = Head(b.calls) /\ e.prov = p
      /\ e.status = status /\ e.code = code
  BY DEF Recorded
<1> HIDE DEF e
<1>3. /\ doc' = Append(doc, e) /\ doc' \in Seq(Entry) /\ doc' # <<>> /\ doc'[Len(doc')] = e
      /\ DOMAIN doc' = DOMAIN doc \cup {Len(doc) + 1} /\ \A i \in DOMAIN doc : doc'[i] = doc[i]
      /\ doc'[Len(doc) + 1] = e
  BY <1>1 DEF e
<1>4. Told(doc')
  <2>1. Called(e)
    BY <1>1, <1>2 DEF Called
  <2>2. /\ Told(doc) /\ doc # <<>> /\ doc[Len(doc)].turn = b.turn
        /\ doc[Len(doc)].kind # "assistant"
    BY DEF HistoryInv, Live
  <2>3. doc[Len(doc)].turn <= e.turn
    BY <1>1, <1>2, <2>2
  <2> QED
    BY <1>1, <1>2, <1>3, <2>1, <2>2, <2>3, ToldAppend
<1>5. Live'
  BY <1>2, <1>3 DEF Live
<1>6. Rest'
  BY DEF HistoryInv, Rest
<1>7. GuardKnows' /\ PairsReadable'
  BY DEF HistoryInv, GuardKnows, PairsReadable, Readable
<1>8. EmulatedNeverFetched'
  BY <1>2, <1>3 DEF HistoryInv, EmulatedNeverFetched
<1>9. RequestedNow'
  BY <1>1, <1>3, RequestStays
<1> QED
  BY <1>4, <1>5, <1>6, <1>7, <1>8, <1>9 DEF HistoryInv

LEMMA DeclineHistory == ASSUME RoundInv, HistoryInv, Decline PROVE HistoryInv'
<1> DEFINE c == Head(b.calls)
<1>1. /\ b.pc = "batch" /\ b.calls # <<>> /\ scope' = scope /\ request' = request
      /\ doc' = Append(doc, Recorded("ok", "served", Undetermined))
      /\ b' = [b EXCEPT !.calls = Tail(@), !.expandedThisRound = @ \/ Expands(c)]
  BY DEF Decline, Write, Recorded
<1>2. /\ b'.pc = "batch" /\ b'.turn = b.turn /\ b'.window = b.window /\ b'.seen = b.seen
      /\ b'.served = b.served /\ b'.servedThisRound = b.servedThisRound
  BY <1>1 DEF RoundInv, Locals, BodyShape
<1>3. Undetermined \in ColumnProvenances /\ Rest
  BY DEF ColumnProvenances, Undetermined, HistoryInv
<1> HIDE DEF c
<1> QED
  BY <1>1, <1>2, <1>3, RecordHistory DEF Rest

LEMMA ReadGateHistory == ASSUME RoundInv, HistoryInv, ReadGate PROVE HistoryInv'
<1>1. /\ b.pc = "batch" /\ b.calls # <<>> /\ scope' = scope /\ request' = request
      /\ doc' = Append(doc, Recorded("denied", "unread", <<{}>>))
      /\ b' = [b EXCEPT !.calls = Tail(@)] /\ Head(b.calls) = "runBlueprint"
  BY DEF ReadGate, Write, Recorded, Gated
<1>2. /\ b'.pc = "batch" /\ b'.turn = b.turn /\ b'.window = b.window /\ b'.seen = b.seen
      /\ b'.served = b.served /\ b'.servedThisRound = b.servedThisRound
  BY <1>1 DEF RoundInv, Locals, BodyShape
<1>3. <<{}>> \in ColumnProvenances /\ Rest
  BY DEF ColumnProvenances, HistoryInv
<1> QED
  BY <1>1, <1>2, <1>3, RecordHistory, EmulatedFinite DEF Rest

LEMMA DispatchDeniedHistory == ASSUME RoundInv, HistoryInv, DispatchDenied PROVE HistoryInv'
<1> DEFINE c == Head(b.calls)
<1>1. /\ b.pc = "batch" /\ b.calls # <<>> /\ scope' = scope /\ request' = request
      /\ doc' = Append(doc, Recorded("denied", "failed", Undetermined))
      /\ b' = [b EXCEPT !.calls = Tail(@), !.refetches = Granted(c)] /\ ~ Declined(c)
  BY DEF DispatchDenied, Write, Recorded, Allowed
<1>2. /\ b'.pc = "batch" /\ b'.turn = b.turn /\ b'.window = b.window /\ b'.seen = b.seen
      /\ b'.served = b.served /\ b'.servedThisRound = b.servedThisRound
  BY <1>1 DEF RoundInv, Locals, BodyShape
<1>3. Undetermined \in ColumnProvenances /\ Rest
  BY DEF ColumnProvenances, Undetermined, HistoryInv
<1>4. Head(b.calls) \notin EmulatedReads
  BY <1>1, EmulatedDeclined
<1> HIDE DEF c
<1> QED
  BY <1>1, <1>2, <1>3, <1>4, RecordHistory DEF Rest

LEMMA DispatchOkHistory == ASSUME RoundInv, HistoryInv, DispatchOk PROVE HistoryInv'
<1> DEFINE c == Head(b.calls)
<1>1. /\ b.pc = "batch" /\ b.calls # <<>> /\ scope' = scope /\ request' = request
      /\ b' = Served(c) /\ ~ Declined(c)
      /\ \E p \in Captured(c) : doc' = Append(doc, Recorded("ok", "none", p))
  BY DEF DispatchOk, Write, Recorded, Allowed
<1>2. PICK p \in Captured(c) : doc' = Append(doc, Recorded("ok", "none", p))
  BY <1>1
<1>3. p \in ColumnProvenances
  BY CapturedType
<1>4. c = "recordAssumptions" => p = <<{}>>
  BY DEF Captured
<1>5. /\ b'.pc = "batch" /\ b'.turn = b.turn /\ b'.window = b.window
      /\ b'.seen = b.seen \cup ({c} \cap IDEMPOTENT_READ_TOOLS)
      /\ b'.served = [r \in IDEMPOTENT_READ_TOOLS |-> IF r = c THEN Len(doc) + 1 ELSE b.served[r]]
      /\ b'.servedThisRound = b.servedThisRound \cup ({c} \cap IDEMPOTENT_READ_TOOLS)
  BY <1>1 DEF RoundInv, Locals, BodyShape, Served
<1>6. c \notin EmulatedReads
  BY <1>1, EmulatedDeclined
<1> HIDE DEF c
<1>7. Rest /\ doc \in Seq(Entry)
  BY DEF HistoryInv, RoundInv, Trail
<1>8. /\ b'.served \in [IDEMPOTENT_READ_TOOLS -> Int]
      /\ \A r \in EmulatedReads : b'.served[r] = b.served[r]
  <2>1. Len(doc) + 1 \in Int
    BY <1>7
  <2>2. \A r \in IDEMPOTENT_READ_TOOLS : b.served[r] \in Int
    BY <1>7 DEF Rest
  <2> QED
    BY <1>5, <1>6, <2>1, <2>2, EmulatedFinite
<1>9. /\ b'.seen \in SUBSET IDEMPOTENT_READ_TOOLS /\ b.seen \subseteq b'.seen
      /\ b'.servedThisRound \in SUBSET IDEMPOTENT_READ_TOOLS
  BY <1>5, <1>7 DEF Rest
<1> QED
  BY <1>1, <1>2, <1>3, <1>4, <1>5, <1>6, <1>8, <1>9, RecordHistory DEF c

---------------------------------------------------------------------------
(* What the document gives a request: the entries that show, in their      *)
(* order, rendered.                                                        *)
Renders(u, d, s, turn) ==
    /\ u.id \in DOMAIN d /\ Shows(d[u.id], s, turn)
    /\ u = Rendered(u.id, d[u.id], ~Kept(d[u.id], s, turn))

LEMMA Assembled ==
    ASSUME NEW d \in Seq(Entry), AllCalled(d), NEW s, NEW turn, NEW A, A = Assemble(d, s, turn)
    PROVE  /\ A \in Seq(Unit)
           /\ \A k \in DOMAIN A : Renders(A[k], d, s, turn)
           /\ \A k, l \in DOMAIN A : k < l => A[k].id < A[l].id
           /\ \A i \in DOMAIN d : Shows(d[i], s, turn) => \E k \in DOMAIN A : A[k].id = i
<1> DEFINE R == [i \in DOMAIN d |-> Rendered(i, d[i], ~Kept(d[i], s, turn))]
           S == {i \in DOMAIN d : Shows(d[i], s, turn)}
           p == InOrder(S)
<1>1. \A i \in DOMAIN d : Rendered(i, d[i], ~Kept(d[i], s, turn)) \in Unit
  <2> SUFFICES ASSUME NEW i \in DOMAIN d PROVE Rendered(i, d[i], ~Kept(d[i], s, turn)) \in Unit
    OBVIOUS
  <2>1. d[i] \in Entry /\ i \in Int
    OBVIOUS
  <2>2. d[i].kind \in {"user", "assistant", "tool"}
    BY <2>1 DEF Entry
  <2>3. d[i].kind = "tool" => Weight[d[i].call] \in Nat
    BY RoundAssumption DEF AllCalled, Called
  <2> QED
    BY <2>1, <2>2, <2>3 DEF Rendered, Unit
<1>2. R \in Seq(Unit) /\ Len(R) = Len(d) /\ DOMAIN R = DOMAIN d
  BY <1>1
<1>3. \A i \in DOMAIN d : R[i].id = i /\ R[i] = Rendered(i, d[i], ~Kept(d[i], s, turn))
  BY DEF Rendered
<1>4. A = Pick(R, S)
  BY DEF Assemble
<1>5. S \in SUBSET (1..Len(R))
  BY <1>2
<1>6. \A i \in S : i \in DOMAIN d /\ Shows(d[i], s, turn)
  OBVIOUS
<1>7. \A i \in DOMAIN d : Shows(d[i], s, turn) => i \in S
  OBVIOUS
<1> HIDE DEF R, S
<1>8. /\ A \in Seq(Unit) /\ DOMAIN A = DOMAIN p
      /\ \A k \in DOMAIN p : p[k] \in S /\ A[k] = R[p[k]]
      /\ \A i \in S : \E k \in DOMAIN p : p[k] = i
      /\ \A k, l \in DOMAIN p : k < l => p[k] < p[l]
  BY <1>2, <1>4, <1>5, PickFacts
<1> HIDE DEF p
<1>9. \A k \in DOMAIN A : A[k].id = p[k] /\ p[k] \in DOMAIN d
  BY <1>3, <1>6, <1>8
<1>10. \A k \in DOMAIN A : Renders(A[k], d, s, turn)
  BY <1>3, <1>6, <1>8, <1>9 DEF Renders
<1>11. \A k, l \in DOMAIN A : k < l => A[k].id < A[l].id
  BY <1>8, <1>9
<1>12. \A i \in DOMAIN d : Shows(d[i], s, turn) => \E k \in DOMAIN A : A[k].id = i
  BY <1>7, <1>8, <1>9
<1> QED
  BY <1>8, <1>10, <1>11, <1>12

(* The pairs of the emulated reads.                                        *)
LEMMA EmulatedShape ==
    /\ EmulatedPairs \in Seq(Unit) /\ Len(EmulatedPairs) = Cardinality(EmulatedReads)
    /\ \A n \in 1..Cardinality(EmulatedReads) :
          /\ EmulatedPairs[n].id = -n /\ EmulatedPairs[n].role = "tool"
          /\ EmulatedPairs[n].readable
<1> DEFINE N == Cardinality(EmulatedReads)
           e(n) == [id |-> -n, role |-> "tool", readable |-> TRUE,
                    weight |-> Weight[SetToSeq(EmulatedReads)[n]]]
<1>1. N \in Nat /\ EmulatedPairs = [n \in 1..N |-> e(n)]
  BY EmulatedFinite DEF EmulatedPairs
<1>2. ASSUME NEW n \in 1..N PROVE e(n) \in Unit
  <2>1. SetToSeq(EmulatedReads)[n] \in EmulatedReads
    BY EmulatedFinite, Listed
  <2>2. SetToSeq(EmulatedReads)[n] \in Calls
    BY <2>1, EmulatedFinite
  <2>3. Weight[SetToSeq(EmulatedReads)[n]] \in Nat
    BY <2>2, RoundAssumption
  <2>4. -n \in Int
    BY <1>1
  <2> QED
    BY <2>3, <2>4 DEF Unit
<1>3. \A n \in 1..N : e(n).id = -n /\ e(n).role = "tool" /\ e(n).readable
  OBVIOUS
<1> HIDE DEF e, N
<1>4. EmulatedPairs \in Seq(Unit) /\ Len(EmulatedPairs) = N
  BY <1>1, <1>2
<1>5. \A n \in 1..N : EmulatedPairs[n] = e(n)
  BY <1>1
<1> QED
  BY <1>3, <1>4, <1>5 DEF N

(* They follow the messages the user opens the request with.               *)
LEMMA SplicedAfter ==
    ASSUME NEW A \in Seq(Unit), 1 \in DOMAIN A, A[1].role = "user"
    PROVE  \E a \in 1..Len(A) :
             /\ \A j \in 1..a : A[j].role = "user"
             /\ SpliceDiscovery(A) = SubSeq(A, 1, a) \o EmulatedPairs \o SubSeq(A, a + 1, Len(A))
<1> DEFINE users == {i \in DOMAIN A : A[i].role = "user"}
           first == CHOOSE i \in users : \A j \in users : i <= j
           Ends(k) == /\ \A j \in first..k : A[j].role = "user"
                      /\ k < Len(A) => A[k + 1].role # "user"
           after == CHOOSE k \in first..Len(A) : Ends(k)
<1>1. users # {} /\ 1 \in users /\ users \in SUBSET Nat /\ \A i \in users : i >= 1
  OBVIOUS
<1>2. first = 1
  <2>1. \E i \in users : \A j \in users : i <= j
    BY <1>1, FirstNumber
  <2>2. first \in users /\ \A j \in users : first <= j
    BY <2>1
  <2> HIDE DEF first, users
  <2>3. first <= 1 /\ first >= 1 /\ first \in Nat
    BY <1>1, <2>2
  <2> QED
    BY <2>3
<1>3. Len(A) \in Nat /\ Len(A) >= 1 /\ DOMAIN A = 1..Len(A)
  OBVIOUS
<1>4. \E k \in 1..Len(A) : Ends(k)
  <2> DEFINE n == Len(A)
             T == {m \in 1..n : m = n \/ A[m + 1].role # "user"}
  <2>1. T \in SUBSET Nat /\ n \in T /\ n \in Nat
    BY <1>3
  <2>2. PICK k \in T : \A j \in T : k <= j
    BY <2>1, FirstNumber
  <2>3. k \in 1..n /\ (k = n \/ A[k + 1].role # "user")
    BY <2>2
  <2>4. \A j \in 1..n : j \notin T => A[j + 1].role = "user"
    OBVIOUS
  <2> HIDE DEF T, n
  <2>5. k \in 1..n /\ (k < n => A[k + 1].role # "user")
    BY <2>1, <2>3
  <2>6. ASSUME NEW j \in 1..k PROVE A[j].role = "user"
    <3>1. CASE j = 1
      BY <3>1
    <3>2. CASE j # 1
      <4>1. j - 1 \in 1..n /\ j - 1 < k /\ (j - 1) + 1 = j
        BY <2>1, <2>3, <3>2
      <4>2. j - 1 \notin T
        BY <2>2, <2>3, <4>1
      <4> QED
        BY <2>4, <4>1, <4>2
    <3> QED
      BY <3>1, <3>2
  <2> QED
    BY <1>2, <2>5, <2>6 DEF n
<1>5. after \in 1..Len(A) /\ Ends(after)
  BY <1>2, <1>4
<1>6. SpliceDiscovery(A) =
        SubSeq(A, 1, after) \o EmulatedPairs \o SubSeq(A, after + 1, Len(A))
  BY <1>1 DEF SpliceDiscovery
<1>7. \A j \in 1..after : A[j].role = "user"
  BY <1>2, <1>5
<1> HIDE DEF after
<1> QED
  BY <1>5, <1>6, <1>7

Parts(M, A, n, a) ==
    /\ \A j \in 1..a : A[j].role = "user"
    /\ \A i \in 1..a : M[i] = A[i]
    /\ \A i \in (a + 1)..(a + n) : M[i] = EmulatedPairs[i - a]
    /\ \A i \in (a + n + 1)..(Len(A) + n) : M[i] = A[i - n]

LEMMA Spliced ==
    ASSUME NEW A \in Seq(Unit), 1 \in DOMAIN A, A[1].role = "user"
    PROVE  /\ SpliceDiscovery(A) \in Seq(Unit)
           /\ Len(SpliceDiscovery(A)) = Len(A) + Cardinality(EmulatedReads)
           /\ \E a \in 1..Len(A) :
                Parts(SpliceDiscovery(A), A, Cardinality(EmulatedReads), a)
<1> DEFINE M == SpliceDiscovery(A)
           n == Cardinality(EmulatedReads)
<1>1. PICK a \in 1..Len(A) :
        /\ \A j \in 1..a : A[j].role = "user"
        /\ M = SubSeq(A, 1, a) \o EmulatedPairs \o SubSeq(A, a + 1, Len(A))
  BY SplicedAfter
<1> DEFINE X == SubSeq(A, 1, a)
           Y == SubSeq(A, a + 1, Len(A))
           W == X \o EmulatedPairs
<1>2. a \in Nat /\ Len(A) \in Nat /\ 1 <= a /\ a <= Len(A) /\ n \in Nat
  BY EmulatedFinite
<1>3. X \in Seq(Unit) /\ Len(X) = a /\ \A i \in 1..a : X[i] = A[i]
  <2>1. \A i \in 1..a : A[i] \in Unit
    BY <1>2
  <2>2. /\ X \in Seq(Unit) /\ Len(X) = IF 1 <= a THEN a - 1 + 1 ELSE 0
        /\ \A i \in 1..(a - 1 + 1) : X[i] = A[1 + i - 1]
    BY <1>2, <2>1, SubSeqProperties
  <2> HIDE DEF X
  <2>3. a - 1 + 1 = a /\ \A i \in 1..a : 1 + i - 1 = i
    BY <1>2
  <2> QED
    BY <1>2, <2>2, <2>3
<1>4. Y \in Seq(Unit) /\ Len(Y) = Len(A) - a /\ \A i \in 1..(Len(A) - a) : Y[i] = A[a + i]
  <2>1. \A i \in (a + 1)..Len(A) : A[i] \in Unit
    BY <1>2
  <2>2. /\ Y \in Seq(Unit)
        /\ Len(Y) = IF a + 1 <= Len(A) THEN Len(A) - (a + 1) + 1 ELSE 0
        /\ \A i \in 1..(Len(A) - (a + 1) + 1) : Y[i] = A[(a + 1) + i - 1]
    BY <1>2, <2>1, SubSeqProperties
  <2> HIDE DEF Y
  <2>3. Len(A) - (a + 1) + 1 = Len(A) - a /\ \A i \in 1..(Len(A) - a) : (a + 1) + i - 1 = a + i
    BY <1>2
  <2>4. Len(Y) = Len(A) - a
    BY <1>2, <2>2
  <2> QED
    BY <1>2, <2>2, <2>3, <2>4
<1>5. EmulatedPairs \in Seq(Unit) /\ Len(EmulatedPairs) = n
  BY EmulatedShape
<1> HIDE DEF X, Y
<1>6. /\ W \in Seq(Unit) /\ Len(W) = a + n
      /\ \A i \in 1..(a + n) : W[i] = IF i <= a THEN X[i] ELSE EmulatedPairs[i - a]
  <2>1. /\ W \in Seq(Unit) /\ Len(W) = Len(X) + Len(EmulatedPairs)
        /\ \A i \in 1..(Len(X) + Len(EmulatedPairs)) :
              W[i] = IF i <= Len(X) THEN X[i] ELSE EmulatedPairs[i - Len(X)]
    BY <1>3, <1>5, ConcatProperties
  <2> HIDE DEF W
  <2> QED
    BY <1>3, <1>5, <2>1
<1> HIDE DEF W
<1>7. /\ W \o Y \in Seq(Unit) /\ Len(W \o Y) = (a + n) + (Len(A) - a)
      /\ \A i \in 1..((a + n) + (Len(A) - a)) :
            (W \o Y)[i] = IF i <= a + n THEN W[i] ELSE Y[i - (a + n)]
  <2> DEFINE V == W \o Y
  <2>1. /\ V \in Seq(Unit) /\ Len(V) = Len(W) + Len(Y)
        /\ \A i \in 1..(Len(W) + Len(Y)) : V[i] = IF i <= Len(W) THEN W[i] ELSE Y[i - Len(W)]
    BY <1>4, <1>6, ConcatProperties
  <2> HIDE DEF V
  <2>2. /\ V \in Seq(Unit) /\ Len(V) = (a + n) + (Len(A) - a)
        /\ \A i \in 1..((a + n) + (Len(A) - a)) : V[i] = IF i <= a + n THEN W[i] ELSE Y[i - (a + n)]
    BY <1>4, <1>6, <2>1
  <2> QED
    BY <2>2 DEF V
<1>8. M = W \o Y
  BY <1>1 DEF W, X, Y
<1>9. (a + n) + (Len(A) - a) = Len(A) + n
  BY <1>2
<1>10. /\ M \in Seq(Unit) /\ Len(M) = Len(A) + n
       /\ \A i \in 1..(Len(A) + n) : M[i] = IF i <= a + n THEN W[i] ELSE Y[i - (a + n)]
  BY <1>7, <1>8, <1>9
<1>11. \A i \in 1..a : M[i] = A[i]
  <2> SUFFICES ASSUME NEW i \in 1..a PROVE M[i] = A[i]
    OBVIOUS
  <2>1. i \in 1..(Len(A) + n) /\ i <= a + n /\ i \in 1..(a + n) /\ i <= a
    BY <1>2
  <2> QED
    BY <1>3, <1>6, <1>10, <2>1
<1>12. \A i \in (a + 1)..(a + n) : M[i] = EmulatedPairs[i - a]
  <2> SUFFICES ASSUME NEW i \in (a + 1)..(a + n) PROVE M[i] = EmulatedPairs[i - a]
    OBVIOUS
  <2>1. i \in 1..(Len(A) + n) /\ i <= a + n /\ i \in 1..(a + n) /\ ~(i <= a)
    BY <1>2
  <2> QED
    BY <1>6, <1>10, <2>1
<1>13. \A i \in (a + n + 1)..(Len(A) + n) : M[i] = A[i - n]
  <2> SUFFICES ASSUME NEW i \in (a + n + 1)..(Len(A) + n) PROVE M[i] = A[i - n]
    OBVIOUS
  <2>1. /\ i \in 1..(Len(A) + n) /\ ~(i <= a + n)
        /\ i - (a + n) \in 1..(Len(A) - a) /\ a + (i - (a + n)) = i - n
    BY <1>2
  <2>2. M[i] = Y[i - (a + n)] /\ Y[i - (a + n)] = A[a + (i - (a + n))]
    BY <1>4, <1>10, <2>1
  <2> QED
    BY <2>1, <2>2
<1>14. Parts(M, A, n, a)
  BY <1>1, <1>11, <1>12, <1>13 DEF Parts
<1> QED
  BY <1>2, <1>10, <1>14

(* A request before its budget: the entries that show in their order, and  *)
(* the emulated pairs, that precede every result.                          *)
Pair(u) ==
    /\ u.id \in -Cardinality(EmulatedReads)..(-1) /\ u.role = "tool" /\ u.readable

Laid(M, d, s, turn) ==
    /\ M \in Seq(Unit)
    /\ \A i \in DOMAIN M : IF M[i].id > 0 THEN Renders(M[i], d, s, turn) ELSE Pair(M[i])
    /\ \A i, j \in DOMAIN M : i < j /\ M[i].id > 0 /\ M[j].id > 0 => M[i].id < M[j].id
    /\ \A i, j \in DOMAIN M : M[i].id = M[j].id => i = j
    /\ \A k \in DOMAIN d : Shows(d[k], s, turn) => \E i \in DOMAIN M : M[i].id = k
    /\ \A i, j \in DOMAIN M : M[i].id > 0 /\ M[i].role = "tool" /\ M[j].id < 0 => j < i
    /\ \A c \in EmulatedReads : \E i \in DOMAIN M : M[i].id = EmulatedId(c)

LEMMA RequestIsLaid ==
    ASSUME NEW d \in Seq(Entry), AllCalled(d), NEW s, NEW turn,
           d # <<>>, d[1].kind = "user", d[1].call = "none"
    PROVE  Laid(SpliceDiscovery(Assemble(d, s, turn)), d, s, turn)
<1> DEFINE A == Assemble(d, s, turn)
           M == SpliceDiscovery(A)
           n == Cardinality(EmulatedReads)
<1>1. /\ A \in Seq(Unit)
      /\ \A k \in DOMAIN A : Renders(A[k], d, s, turn)
      /\ \A k, l \in DOMAIN A : k < l => A[k].id < A[l].id
      /\ \A i \in DOMAIN d : Shows(d[i], s, turn) => \E k \in DOMAIN A : A[k].id = i
  BY Assembled
<1> HIDE DEF A
<1>2. DOMAIN A = 1..Len(A) /\ Len(A) \in Nat
  BY <1>1
<1>3. \A k \in 1..Len(A) : A[k].id \in Nat /\ A[k].id > 0 /\ A[k].id \in DOMAIN d
  BY <1>1, <1>2 DEF Renders
<1>4. 1 \in DOMAIN A /\ A[1].role = "user"
  <2>1. 1 \in DOMAIN d /\ Shows(d[1], s, turn)
    BY DEF Shows, StaleModelText, Kept
  <2>2. PICK k \in DOMAIN A : A[k].id = 1
    BY <1>1, <2>1
  <2>3. k = 1
    <3> SUFFICES ASSUME k # 1 PROVE FALSE
      OBVIOUS
    <3>1. 1 \in DOMAIN A /\ 1 < k
      BY <1>2, <2>2
    <3>2. A[1].id < A[k].id
      BY <1>1, <2>2, <3>1
    <3> QED
      BY <1>2, <1>3, <2>2, <3>1, <3>2
  <2> QED
    BY <1>1, <2>2, <2>3 DEF Renders, Rendered
<1>5. /\ M \in Seq(Unit) /\ Len(M) = Len(A) + n /\ n \in Nat
      /\ \E a \in 1..Len(A) : Parts(M, A, n, a)
  BY <1>1, <1>4, Spliced, EmulatedFinite
<1>6. PICK a \in 1..Len(A) :
        /\ \A j \in 1..a : A[j].role = "user"
        /\ \A i \in 1..a : M[i] = A[i]
        /\ \A i \in (a + 1)..(a + n) : M[i] = EmulatedPairs[i - a]
        /\ \A i \in (a + n + 1)..(Len(A) + n) : M[i] = A[i - n]
  BY <1>5 DEF Parts
<1>7. \A m \in 1..n : /\ EmulatedPairs[m].id = -m /\ EmulatedPairs[m].role = "tool"
                      /\ EmulatedPairs[m].readable
  BY EmulatedShape
<1> DEFINE From(i) == IF i <= a THEN i ELSE i - n
           Real(i) == i <= a \/ i > a + n
<1>8. DOMAIN M = 1..(Len(A) + n) /\ a \in Nat /\ 1 <= a /\ a <= Len(A)
  BY <1>2, <1>5
<1>9. ASSUME NEW i \in DOMAIN M, Real(i)
      PROVE  From(i) \in 1..Len(A) /\ M[i] = A[From(i)]
  <2>1. CASE i <= a
    <3>1. i \in 1..a /\ i \in 1..Len(A)
      BY <1>2, <1>8, <2>1
    <3> QED
      BY <1>6, <2>1, <3>1
  <2>2. CASE ~(i <= a)
    <3>1. i \in (a + n + 1)..(Len(A) + n) /\ i - n \in 1..Len(A)
      BY <1>2, <1>5, <1>8, <1>9, <2>2
    <3> QED
      BY <1>6, <2>2, <3>1
  <2> QED
    BY <2>1, <2>2
<1>10. ASSUME NEW i \in DOMAIN M, ~ Real(i)
       PROVE  i - a \in 1..n /\ M[i] = EmulatedPairs[i - a] /\ M[i].id = -(i - a)
  <2>1. i - a \in 1..n /\ i \in (a + 1)..(a + n)
    BY <1>2, <1>5, <1>8, <1>10
  <2> QED
    BY <1>6, <1>7, <2>1
<1>11. ASSUME NEW i \in DOMAIN M
       PROVE  /\ Real(i) <=> M[i].id > 0
              /\ ~ Real(i) <=> M[i].id < 0
  <2>1. CASE Real(i)
    <3>1. M[i].id \in Nat /\ M[i].id > 0
      BY <1>3, <1>9, <2>1
    <3> QED
      BY <2>1, <3>1
  <2>2. CASE ~ Real(i)
    <3>1. M[i].id = -(i - a) /\ i - a \in 1..n
      BY <1>10, <2>2
    <3> QED
      BY <1>5, <2>2, <3>1
  <2> QED
    BY <2>1, <2>2
<1>12. ASSUME NEW i \in DOMAIN M, NEW j \in DOMAIN M, Real(i), Real(j), i < j
       PROVE  M[i].id < M[j].id
  <2>1. From(i) < From(j)
    BY <1>5, <1>8, <1>12
  <2> QED
    BY <1>1, <1>2, <1>9, <1>12, <2>1
<1> HIDE DEF M, From
<1>13. \A i \in DOMAIN M : IF M[i].id > 0 THEN Renders(M[i], d, s, turn) ELSE Pair(M[i])
  <2> SUFFICES ASSUME NEW i \in DOMAIN M
               PROVE  IF M[i].id > 0 THEN Renders(M[i], d, s, turn) ELSE Pair(M[i])
    OBVIOUS
  <2>1. CASE Real(i)
    BY <1>1, <1>2, <1>9, <1>11, <2>1
  <2>2. CASE ~ Real(i)
    <3>1. /\ i - a \in 1..n /\ M[i] = EmulatedPairs[i - a] /\ M[i].id = -(i - a)
      BY <1>10, <2>2
    <3>2. -(i - a) \in -n..(-1)
      BY <1>5, <3>1
    <3> QED
      BY <1>7, <1>11, <2>2, <3>1, <3>2 DEF Pair
  <2> QED
    BY <2>1, <2>2
<1>14. \A i, j \in DOMAIN M : i < j /\ M[i].id > 0 /\ M[j].id > 0 => M[i].id < M[j].id
  BY <1>11, <1>12
<1>15. \A i, j \in DOMAIN M : M[i].id = M[j].id => i = j
  <2> SUFFICES ASSUME NEW i \in DOMAIN M, NEW j \in DOMAIN M, M[i].id = M[j].id, i < j PROVE FALSE
    BY <1>8
  <2>1. CASE Real(i)
    <3>1. Real(j)
      BY <1>11, <2>1
    <3>2. M[i].id < M[j].id /\ M[i].id \in Nat
      BY <1>3, <1>9, <1>12, <2>1, <3>1
    <3> QED
      BY <3>2
  <2>2. CASE ~ Real(i)
    <3>1. ~ Real(j)
      BY <1>11, <2>2
    <3>2. M[i].id = -(i - a) /\ M[j].id = -(j - a) /\ i \in Nat /\ j \in Nat
      BY <1>8, <1>10, <2>2, <3>1
    <3>3. -(i - a) = -(j - a)
      BY <3>2
    <3> QED
      BY <1>8, <3>2, <3>3
  <2> QED
    BY <2>1, <2>2
<1>16. \A k \in DOMAIN d : Shows(d[k], s, turn) => \E i \in DOMAIN M : M[i].id = k
  <2> SUFFICES ASSUME NEW k \in DOMAIN d, Shows(d[k], s, turn)
               PROVE  \E i \in DOMAIN M : M[i].id = k
    OBVIOUS
  <2>1. PICK x \in 1..Len(A) : A[x].id = k
    BY <1>1, <1>2
  <2>2. CASE x <= a
    <3>1. x \in DOMAIN M /\ M[x] = A[x]
      BY <1>2, <1>5, <1>6, <1>8, <2>2
    <3> QED
      BY <2>1, <3>1
  <2>3. CASE ~(x <= a)
    <3>1. x + n \in DOMAIN M /\ x + n \in (a + n + 1)..(Len(A) + n) /\ (x + n) - n = x
      BY <1>2, <1>5, <1>8, <2>3
    <3>2. M[x + n] = A[x]
      BY <1>6, <3>1
    <3> QED
      BY <2>1, <3>1, <3>2
  <2> QED
    BY <2>2, <2>3
<1>17. \A i, j \in DOMAIN M : M[i].id > 0 /\ M[i].role = "tool" /\ M[j].id < 0 => j < i
  <2> SUFFICES ASSUME NEW i \in DOMAIN M, NEW j \in DOMAIN M, Real(i), M[i].role = "tool",
                      ~ Real(j)
               PROVE  j < i
    BY <1>11
  <2>1. ~(i <= a)
    <3> SUFFICES ASSUME i <= a PROVE FALSE
      OBVIOUS
    <3>1. i \in 1..a
      BY <1>8
    <3> QED
      BY <1>6, <3>1
  <2> QED
    BY <1>5, <1>8, <2>1
<1>18. \A c \in EmulatedReads : \E i \in DOMAIN M : M[i].id = EmulatedId(c)
  <2> SUFFICES ASSUME NEW c \in EmulatedReads PROVE \E i \in DOMAIN M : M[i].id = EmulatedId(c)
    OBVIOUS
  <2>1. PICK m \in 1..n : EmulatedId(c) = -m
    BY EmulatedIds
  <2>2. a + m \in DOMAIN M /\ a + m \in (a + 1)..(a + n) /\ (a + m) - a = m
    BY <1>2, <1>5, <1>8
  <2>3. M[a + m] = EmulatedPairs[m]
    BY <1>6, <2>2
  <2> QED
    BY <1>7, <2>1, <2>2, <2>3
<1>19. Laid(M, d, s, turn)
  BY <1>5, <1>13, <1>14, <1>15, <1>16, <1>17, <1>18 DEF Laid
<1> QED
  BY <1>19 DEF M, A

---------------------------------------------------------------------------
(* The budget: what is dropped, in which order, and how far.               *)
LEMMA StartFacts ==
    ASSUME NEW M \in Seq(Unit), NEW p \in DOMAIN M, M[p].role = "user",
           \A i \in DOMAIN M : M[i].role = "assistant" => i < p
    PROVE  /\ CurrentTurnStart(M) \in Nat /\ CurrentTurnStart(M) <= p
           /\ \A i \in DOMAIN M : M[i].role = "assistant" => i < CurrentTurnStart(M)
<1> DEFINE answers == {i \in DOMAIN M : M[i].role = "assistant"}
           latest == IF answers = {} THEN 0 ELSE CHOOSE i \in answers : \A j \in answers : i >= j
           users == {i \in DOMAIN M : i > latest /\ M[i].role = "user"}
           start == CHOOSE i \in users : \A j \in users : i <= j
<1>1. DOMAIN M = 1..Len(M) /\ Len(M) \in Nat /\ p \in Nat /\ p > 0
  OBVIOUS
<1>2. latest \in Nat /\ (\A i \in answers : i <= latest) /\ latest < p
  <2>1. CASE answers = {}
    BY <1>1, <2>1
  <2>2. CASE answers # {}
    <3>1. answers \in SUBSET (1..Len(M))
      BY <1>1
    <3>2. \E i \in answers : \A j \in answers : i >= j
      BY <1>1, <2>2, <3>1, LastNumber
    <3>3. latest \in answers /\ \A j \in answers : latest >= j
      BY <2>2, <3>2
    <3>4. \A i \in answers : i < p /\ i \in Nat
      BY <1>1
    <3> HIDE DEF latest
    <3> QED
      BY <3>3, <3>4
  <2> QED
    BY <2>1, <2>2
<1>3. CurrentTurnStart(M) = IF users = {} THEN Len(M) + 1 ELSE start
  BY DEF CurrentTurnStart
<1>4. \A i \in DOMAIN M : M[i].role = "assistant" => i \in answers
  OBVIOUS
<1> HIDE DEF latest, answers
<1>5. p \in users /\ users \in SUBSET Nat /\ \A i \in users : i > latest
  BY <1>1, <1>2
<1>6. \E i \in users : \A j \in users : i <= j
  BY <1>5, FirstNumber
<1>7. start \in users /\ \A j \in users : start <= j
  BY <1>6
<1> HIDE DEF start, users
<1>8. start \in Nat /\ start <= p /\ start > latest /\ CurrentTurnStart(M) = start
  BY <1>3, <1>5, <1>7
<1>9. \A i \in DOMAIN M : M[i].role = "assistant" => i < start
  BY <1>1, <1>2, <1>4, <1>8
<1> QED
  BY <1>8, <1>9

Droppable(M) == DOMAIN M \ Pinned(M)
Before(x, y, start) ==
    IF x < start THEN y < start => x < y ELSE y >= start /\ x < y

LEMMA OrderFacts ==
    ASSUME NEW M \in Seq(Unit), CurrentTurnStart(M) \in Int
    PROVE  /\ DropOrder(M) \in Seq(Droppable(M))
           /\ \A i \in Droppable(M) : \E k \in 1..Len(DropOrder(M)) : DropOrder(M)[k] = i
           /\ \A k, l \in 1..Len(DropOrder(M)) :
                k < l => Before(DropOrder(M)[k], DropOrder(M)[l], CurrentTurnStart(M))
<1> DEFINE D == Droppable(M)
           start == CurrentTurnStart(M)
           older == {i \in D : i < start}
           newer == D \ older
           x == InOrder(older)
           y == InOrder(newer)
           o == x \o y
<1>1. DropOrder(M) = o
  BY DEF DropOrder, Droppable
<1>2. /\ IsFiniteSet(1..Len(M)) /\ D \in SUBSET (1..Len(M)) /\ older \in SUBSET (1..Len(M))
      /\ newer \in SUBSET (1..Len(M)) /\ 1..Len(M) \in SUBSET Int
  <2>1. IsFiniteSet(1..Len(M)) /\ DOMAIN M = 1..Len(M) /\ 1..Len(M) \in SUBSET Int
    BY FS_Interval
  <2>2. D \in SUBSET (1..Len(M))
    BY <2>1 DEF Droppable
  <2> HIDE DEF D
  <2> QED
    BY <2>1, <2>2
<1>3. IsFiniteSet(older) /\ IsFiniteSet(newer) /\ older \subseteq Int /\ newer \subseteq Int
  BY <1>2, FS_Subset
<1>4. \A i \in older : i \in D /\ i < start
  OBVIOUS
<1>5. \A i \in newer : i \in D /\ i >= start
  BY <1>2
<1>6. \A i \in D : i \in older \/ i \in newer
  OBVIOUS
<1> HIDE DEF older, newer, D
<1>7. /\ x \in Seq(older)
      /\ \A i \in older : \E k \in 1..Len(x) : x[k] = i
      /\ \A k, l \in 1..Len(x) : k < l => x[k] < x[l]
  BY <1>3, InOrderFacts
<1>8. /\ y \in Seq(newer)
      /\ \A i \in newer : \E k \in 1..Len(y) : y[k] = i
      /\ \A k, l \in 1..Len(y) : k < l => y[k] < y[l]
  BY <1>3, InOrderFacts
<1> HIDE DEF x, y
<1>9. /\ x \in Seq(D) /\ y \in Seq(D) /\ Len(x) \in Nat /\ Len(y) \in Nat
      /\ \A k \in 1..Len(x) : x[k] \in older
      /\ \A k \in 1..Len(y) : y[k] \in newer
  BY <1>4, <1>5, <1>7, <1>8
<1>10. /\ o \in Seq(D) /\ Len(o) = Len(x) + Len(y)
       /\ \A k \in 1..(Len(x) + Len(y)) : o[k] = IF k <= Len(x) THEN x[k] ELSE y[k - Len(x)]
  BY <1>9, ConcatProperties
<1> HIDE DEF o
<1>11. \A i \in D : \E k \in 1..Len(o) : o[k] = i
  <2> SUFFICES ASSUME NEW i \in D PROVE \E k \in 1..Len(o) : o[k] = i
    OBVIOUS
  <2>1. CASE i \in older
    <3>1. PICK k \in 1..Len(x) : x[k] = i
      BY <1>7, <2>1
    <3>2. k \in 1..Len(o) /\ k \in 1..(Len(x) + Len(y)) /\ k <= Len(x)
      BY <1>9, <1>10
    <3> QED
      BY <1>10, <3>1, <3>2
  <2>2. CASE i \in newer
    <3>1. PICK k \in 1..Len(y) : y[k] = i
      BY <1>8, <2>2
    <3>2. /\ Len(x) + k \in 1..Len(o) /\ Len(x) + k \in 1..(Len(x) + Len(y))
          /\ ~(Len(x) + k <= Len(x)) /\ (Len(x) + k) - Len(x) = k
      BY <1>9, <1>10
    <3>3. o[Len(x) + k] = y[k]
      BY <1>10, <3>2
    <3> QED
      BY <3>1, <3>2, <3>3
  <2> QED
    BY <1>6, <2>1, <2>2
<1>12. \A k, l \in 1..Len(o) : k < l => Before(o[k], o[l], start)
  <2> SUFFICES ASSUME NEW k \in 1..Len(o), NEW l \in 1..Len(o), k < l
               PROVE  Before(o[k], o[l], start)
    OBVIOUS
  <2>1. /\ k <= Len(x) => o[k] = x[k] /\ k \in 1..Len(x)
        /\ ~(k <= Len(x)) => o[k] = y[k - Len(x)] /\ k - Len(x) \in 1..Len(y)
        /\ l <= Len(x) => o[l] = x[l] /\ l \in 1..Len(x)
        /\ ~(l <= Len(x)) => o[l] = y[l - Len(x)] /\ l - Len(x) \in 1..Len(y)
    BY <1>9, <1>10
  <2>2. CASE l <= Len(x)
    <3>1. k <= Len(x)
      BY <1>9, <1>10, <2>2
    <3>2. o[k] < o[l] /\ o[k] < start
      BY <1>4, <1>7, <1>9, <2>1, <2>2, <3>1
    <3> QED
      BY <3>2 DEF Before
  <2>3. CASE k <= Len(x) /\ ~(l <= Len(x))
    <3>1. o[k] \in older /\ o[l] \in newer
      BY <1>9, <2>1, <2>3
    <3>2. o[k] < start /\ o[l] >= start /\ o[l] \in Int
      BY <1>3, <1>4, <1>5, <3>1
    <3> QED
      BY <3>2 DEF Before
  <2>4. CASE ~(k <= Len(x))
    <3>1. ~(l <= Len(x)) /\ k - Len(x) < l - Len(x)
      BY <1>9, <1>10, <2>4
    <3>2. o[k] < o[l] /\ o[l] \in newer /\ o[k] \in newer
      BY <1>8, <1>9, <2>1, <2>4, <3>1
    <3>3. o[l] >= start /\ o[k] >= start /\ o[k] \in Int
      BY <1>3, <1>5, <3>2
    <3> QED
      BY <3>2, <3>3 DEF Before
  <2> QED
    BY <2>2, <2>3, <2>4
<1> QED
  BY <1>1, <1>10, <1>11, <1>12 DEF D

(* Units are dropped in that order, as few as make the request fit.        *)
Minimal(M, gone) ==
    gone # {} => \E x \in gone : ~(Tokens(Without(M, gone \ {x})) <= TokenBudget)

LEMMA Trimmed ==
    ASSUME NEW M \in Seq(Unit), CurrentTurnStart(M) \in Int
    PROVE  \E gone \in SUBSET Droppable(M) :
             /\ Fit(M) = Without(M, gone)
             /\ \A x \in gone, y \in Droppable(M) \ gone : Before(x, y, CurrentTurnStart(M))
             /\ Minimal(M, gone)
<1> DEFINE o == DropOrder(M)
           D == Droppable(M)
           start == CurrentTurnStart(M)
           First(k) == {o[i] : i \in 1..k}
           Left(k) == Without(M, First(k))
           Enough(k) == Tokens(Left(k)) <= TokenBudget \/ k = Len(o)
           K == CHOOSE k \in 0..Len(o) : Enough(k) /\ \A j \in 0..(k - 1) : ~Enough(j)
<1>1. Fit(M) = Left(K)
  BY DEF Fit
<1>2. /\ o \in Seq(D)
      /\ \A i \in D : \E k \in 1..Len(o) : o[k] = i
      /\ \A k, l \in 1..Len(o) : k < l => Before(o[k], o[l], start)
  BY OrderFacts
<1>3. Len(o) \in Nat
  BY <1>2
<1>4. D \in SUBSET Int
  BY DEF Droppable
<1> HIDE DEF o, D, start
<1>5. K \in 0..Len(o) /\ Enough(K) /\ \A j \in 0..(K - 1) : ~Enough(j)
  <2> DEFINE T == {k \in 0..Len(o) : Enough(k)}
  <2>1. T \in SUBSET Nat /\ Len(o) \in T
    BY <1>3
  <2>2. PICK k \in T : \A j \in T : k <= j
    BY <2>1, FirstNumber
  <2>3. k \in 0..Len(o) /\ Enough(k)
    BY <2>2
  <2>4. \A j \in 0..Len(o) : j \notin T => ~ Enough(j)
    OBVIOUS
  <2> HIDE DEF T, Enough
  <2>5. ASSUME NEW j \in 0..(k - 1) PROVE ~ Enough(j)
    <3>1. j \in 0..Len(o) /\ ~(k <= j)
      BY <1>3, <2>3
    <3> QED
      BY <2>2, <2>4, <3>1
  <2> QED
    BY <2>3, <2>5
<1> HIDE DEF K
<1>6. First(K) \in SUBSET D
  <2>1. \A i \in 1..K : o[i] \in D
    BY <1>2, <1>3, <1>5
  <2> QED
    BY <2>1
<1>7. ASSUME NEW x \in First(K), NEW y \in D \ First(K) PROVE Before(x, y, start)
  <2>1. PICK k \in 1..K : x = o[k]
    OBVIOUS
  <2>2. PICK l \in 1..Len(o) : y = o[l]
    BY <1>2
  <2>3. ~(l \in 1..K)
    BY <2>2
  <2>4. k \in 1..Len(o) /\ k < l
    BY <1>3, <1>5, <2>3
  <2> QED
    BY <1>2, <2>1, <2>2, <2>4
<1>8. Minimal(M, First(K))
  <2> SUFFICES ASSUME First(K) # {}
               PROVE  \E x \in First(K) : ~(Tokens(Without(M, First(K) \ {x})) <= TokenBudget)
    BY DEF Minimal
  <2>1. K \in Nat /\ K >= 1 /\ K <= Len(o)
    <3>1. PICK i \in 1..K : TRUE
      OBVIOUS
    <3> QED
      BY <1>3, <1>5, <3>1
  <2>2. K - 1 \in 0..(K - 1) /\ K \in 1..K /\ K \in 1..Len(o)
    BY <2>1
  <2>3. o[K] \in First(K)
    BY <2>2
  <2>4. First(K) \ {o[K]} = First(K - 1)
    <3>1. ASSUME NEW i \in 1..(K - 1) PROVE i \in 1..K /\ o[i] # o[K]
      <4>1. i \in 1..K /\ i \in 1..Len(o) /\ i < K
        BY <2>1
      <4>2. Before(o[i], o[K], start)
        BY <1>2, <2>2, <4>1
      <4>3. o[i] \in D /\ o[K] \in D
        <5>1. \A k \in 1..Len(o) : o[k] \in D
          BY <1>2
        <5> QED
          BY <2>2, <4>1, <5>1
      <4>4. o[i] \in Int /\ o[K] \in Int
        BY <1>4, <4>3
      <4>5. start \in Int
        BY DEF start
      <4>6. o[i] # o[K]
        BY <4>2, <4>4, <4>5 DEF Before
      <4> QED
        BY <4>1, <4>6
    <3>2. \A i \in 1..K : i = K \/ i \in 1..(K - 1)
      BY <2>1
    <3> QED
      BY <3>1, <3>2
  <2>5. ~ Enough(K - 1)
    BY <1>5, <2>2
  <2>6. ~(Tokens(Without(M, First(K - 1))) <= TokenBudget)
    BY <2>5
  <2> QED
    BY <2>3, <2>4, <2>6
<1>9. Fit(M) = Without(M, First(K))
  BY <1>1
<1> HIDE DEF First
<1>10. \E gone \in SUBSET D :
         /\ Fit(M) = Without(M, gone)
         /\ \A x \in gone, y \in D \ gone : Before(x, y, start)
         /\ Minimal(M, gone)
  BY <1>6, <1>7, <1>8, <1>9
<1> QED
  BY <1>10 DEF D, start

LEMMA WithoutFacts ==
    ASSUME NEW M \in Seq(Unit), NEW gone
    PROVE  /\ Without(M, gone) \in Seq(Unit)
           /\ \A k \in DOMAIN Without(M, gone) : \E i \in DOMAIN M \ gone : Without(M, gone)[k] = M[i]
           /\ \A i \in DOMAIN M \ gone : \E k \in DOMAIN Without(M, gone) : Without(M, gone)[k] = M[i]
<1> DEFINE S == DOMAIN M \ gone
           W == Without(M, gone)
           p == InOrder(S)
<1>1. S \in SUBSET (1..Len(M)) /\ W = Pick(M, S)
  BY DEF Without
<1> HIDE DEF S, W
<1>2. /\ W \in Seq(Unit) /\ DOMAIN W = DOMAIN p
      /\ \A k \in DOMAIN p : p[k] \in S /\ W[k] = M[p[k]]
      /\ \A i \in S : \E k \in DOMAIN p : p[k] = i
  BY <1>1, PickFacts
<1> HIDE DEF p
<1>3. /\ \A k \in DOMAIN W : \E i \in S : W[k] = M[i]
      /\ \A i \in S : \E k \in DOMAIN W : W[k] = M[i]
  BY <1>2
<1> QED
  BY <1>2, <1>3 DEF S, W

(* The tokens of a request are those of its messages.                      *)
TokensOf(u) == {<<u.id, n>> : n \in 1..u.weight}

LEMMA TokensOfOne ==
    ASSUME NEW u \in Unit
    PROVE  IsFiniteSet(TokensOf(u)) /\ Cardinality(TokensOf(u)) = u.weight /\ u.weight \in Nat
<1> DEFINE w == u.weight
           f == [n \in 1..w |-> <<u.id, n>>]
<1>1. w \in Nat
  BY DEF Unit
<1>2. f \in Bijection(1..w, TokensOf(u))
  BY DEF Bijection, Injection, Surjection, IsInjective, TokensOf
<1>3. IsFiniteSet(1..w) /\ Cardinality(1..w) = w
  <2>1. IsFiniteSet(1..w) /\ Cardinality(1..w) = IF 1 > w THEN 0 ELSE w - 1 + 1
    BY <1>1, FS_Interval
  <2> QED
    BY <1>1, <2>1
<1>4. ExistsBijection(1..w, TokensOf(u))
  BY <1>2 DEF ExistsBijection
<1> QED
  BY <1>1, <1>3, <1>4, FS_Bijection

AllTokens(M, S) == UNION {TokensOf(M[i]) : i \in S}

LEMMA AllTokensFinite ==
    ASSUME NEW M \in Seq(Unit), NEW S \in SUBSET DOMAIN M
    PROVE  IsFiniteSet(AllTokens(M, S)) /\ Cardinality(AllTokens(M, S)) \in Nat
<1> DEFINE Q == {TokensOf(M[i]) : i \in S}
           f == [i \in S |-> TokensOf(M[i])]
<1>1. IsFiniteSet(S)
  <2>1. IsFiniteSet(1..Len(M)) /\ S \in SUBSET (1..Len(M))
    BY FS_Interval
  <2> QED
    BY <2>1, FS_Subset
<1>2. f \in Surjection(S, Q)
  BY DEF Surjection
<1>3. IsFiniteSet(Q)
  BY <1>1, <1>2, FS_Surjection
<1>4. \A T \in Q : IsFiniteSet(T)
  <2> SUFFICES ASSUME NEW i \in S PROVE IsFiniteSet(TokensOf(M[i]))
    OBVIOUS
  <2>1. M[i] \in Unit
    OBVIOUS
  <2> QED
    BY <2>1, TokensOfOne
<1>5. IsFiniteSet(UNION Q)
  BY <1>3, <1>4, FS_UNION
<1> QED
  BY <1>5, FS_CardinalityType DEF AllTokens

LEMMA TokensWithout ==
    ASSUME NEW M \in Seq(Unit), NEW gone
    PROVE  Tokens(Without(M, gone)) = Cardinality(AllTokens(M, DOMAIN M \ gone))
<1> DEFINE W == Without(M, gone)
           S == DOMAIN M \ gone
<1>1. /\ W \in Seq(Unit)
      /\ \A k \in DOMAIN W : \E i \in S : W[k] = M[i]
      /\ \A i \in S : \E k \in DOMAIN W : W[k] = M[i]
  <2> HIDE DEF W
  <2>1. W = Without(M, gone)
    BY DEF W
  <2> QED
    BY <2>1, WithoutFacts
<1>2. Tokens(W) = Cardinality(UNION {TokensOf(W[k]) : k \in DOMAIN W})
  BY DEF Tokens, TokensOf
<1>3. {TokensOf(W[k]) : k \in DOMAIN W} = {TokensOf(M[i]) : i \in S}
  BY <1>1
<1>4. Tokens(W) = Cardinality(AllTokens(M, S))
  BY <1>2, <1>3 DEF AllTokens
<1> QED
  BY <1>4 DEF W, S

(* Ids differ, so a message that is left out takes its own tokens along.   *)
LEMMA TokensOfGone ==
    ASSUME NEW M \in Seq(Unit), NEW gone \in SUBSET DOMAIN M, NEW x \in gone,
           \A i, j \in DOMAIN M : M[i].id = M[j].id => i = j
    PROVE  /\ Tokens(Without(M, gone)) \in Nat /\ M[x].weight \in Nat
           /\ Tokens(Without(M, gone \ {x})) = Tokens(Without(M, gone)) + M[x].weight
<1> DEFINE S == DOMAIN M \ gone
           T == AllTokens(M, S)
           q == TokensOf(M[x])
<1>1. DOMAIN M \ (gone \ {x}) = S \cup {x} /\ x \notin S /\ S \in SUBSET DOMAIN M /\ x \in DOMAIN M
  OBVIOUS
<1>2. IsFiniteSet(T) /\ Cardinality(T) \in Nat
  BY AllTokensFinite
<1>3. IsFiniteSet(q) /\ Cardinality(q) = M[x].weight /\ M[x].weight \in Nat
  BY TokensOfOne
<1>4. AllTokens(M, S \cup {x}) = T \cup q
  BY DEF AllTokens
<1>5. T \cap q = {}
  <2> SUFFICES ASSUME NEW i \in S, NEW t \in TokensOf(M[i]), t \in q PROVE FALSE
    BY DEF AllTokens
  <2>1. t[1] = M[i].id /\ t[1] = M[x].id
    BY DEF TokensOf
  <2> QED
    BY <1>1, <2>1
<1>6. Cardinality(T \cup q) = Cardinality(T) + Cardinality(q) - Cardinality(T \cap q)
  BY <1>2, <1>3, FS_Union
<1>7. Cardinality(T \cap q) = 0
  BY <1>5, FS_EmptySet
<1>8. /\ Tokens(Without(M, gone)) = Cardinality(T)
      /\ Tokens(Without(M, gone \ {x})) = Cardinality(T \cup q)
  <2>1. Tokens(Without(M, gone)) = Cardinality(T)
    BY TokensWithout
  <2>2. Tokens(Without(M, gone \ {x})) = Cardinality(AllTokens(M, DOMAIN M \ (gone \ {x})))
    BY TokensWithout
  <2> HIDE DEF T, q, S
  <2> QED
    BY <1>1, <1>4, <2>1, <2>2
<1> HIDE DEF T, q
<1> QED
  BY <1>2, <1>3, <1>6, <1>7, <1>8

---------------------------------------------------------------------------
(* The request of a turn that is served, against its document.             *)
Serving(d, turn) ==
    /\ d \in Seq(Entry) /\ Told(d) /\ d # <<>>
    /\ d[Len(d)].turn = turn /\ d[Len(d)].kind # "assistant"
    /\ \A i \in DOMAIN d : d[i].kind # "tool" => d[i].call = "none"

LEMMA ServingNow == ASSUME RoundInv, HistoryInv, b.pc # "idle" PROVE Serving(doc, b.turn)
BY DEF RoundInv, Trail, HistoryInv, Live, Serving

LEMMA ServingTypes ==
    ASSUME NEW d, NEW turn, Serving(d, turn)
    PROVE  /\ DOMAIN d = 1..Len(d) /\ Len(d) \in Nat /\ Len(d) \in 1..Len(d) /\ turn \in Nat
           /\ \A i \in DOMAIN d : d[i] \in Entry /\ d[i].turn \in Nat /\ d[i].turn <= turn
                                  /\ d[i].kind \in {"user", "assistant", "tool"}
<1> DEFINE n == Len(d)
<1>1. d \in Seq(Entry) /\ d # <<>>
  BY DEF Serving
<1>2. n \in Nat /\ DOMAIN d = 1..n /\ n \in 1..n
  BY <1>1
<1>3. \A i \in 1..n : d[i] \in Entry
  BY <1>1
<1>4. \A i \in 1..n : d[i].turn \in Nat /\ d[i].kind \in {"user", "assistant", "tool"}
  BY <1>3 DEF Entry
<1>5. d[n].turn = turn /\ \A i, j \in 1..n : i <= j => d[i].turn <= d[j].turn
  BY <1>2 DEF Serving, Told, Ordered
<1> HIDE DEF n
<1>6. \A i \in 1..n : d[i].turn <= turn
  BY <1>2, <1>5
<1> QED
  BY <1>2, <1>3, <1>4, <1>5, <1>6 DEF n

LEMMA ServingLaid ==
    ASSUME NEW d, NEW s, NEW turn, Serving(d, turn)
    PROVE  Laid(SpliceDiscovery(Assemble(d, s, turn)), d, s, turn)
<1>1. d \in Seq(Entry) /\ AllCalled(d) /\ d # <<>> /\ 1 \in DOMAIN d
  BY DEF Serving, Told
<1>2. d[1].kind = "user"
  <2>1. PICK j \in 1..1 : d[j].kind = "user"
    BY <1>1 DEF Serving, Told, Opened
  <2> QED
    BY <2>1
<1>3. d[1].call = "none"
  BY <1>1, <1>2 DEF Serving
<1> QED
  BY <1>1, <1>2, <1>3, RequestIsLaid

(* Every answer is of an earlier turn.                                     *)
LEMMA AnswerIsEarlier ==
    ASSUME NEW d, NEW turn, Serving(d, turn), NEW i \in DOMAIN d, d[i].kind = "assistant"
    PROVE  d[i].turn < turn
<1> DEFINE n == Len(d)
<1>1. DOMAIN d = 1..n /\ n \in Nat /\ n \in DOMAIN d
  BY ServingTypes
<1>2. d[n].turn = turn /\ d[n].kind # "assistant"
  BY DEF Serving
<1> HIDE DEF n
<1>3. n > i
  BY <1>1, <1>2
<1>4. Closes(d, i)
  BY DEF Serving, Told, Closed
<1> QED
  BY <1>1, <1>2, <1>3, <1>4 DEF Closes

LEMMA IdOrder ==
    ASSUME NEW M, NEW d, NEW s, NEW turn, Laid(M, d, s, turn),
           NEW i \in DOMAIN M, NEW j \in DOMAIN M, M[i].id > 0, M[j].id > 0, M[i].id <= M[j].id
    PROVE  i <= j
<1>1. M \in Seq(Unit) /\ i \in Nat /\ j \in Nat /\ M[i] \in Unit /\ M[j] \in Unit
  BY DEF Laid
<1>2. M[i].id \in Int /\ M[j].id \in Int
  BY <1>1 DEF Unit
<1>3. j < i => M[j].id < M[i].id
  BY DEF Laid
<1> QED
  BY <1>1, <1>2, <1>3

LEMMA Rendering ==
    ASSUME NEW M, NEW d, NEW s, NEW turn, Laid(M, d, s, turn), Serving(d, turn),
           NEW i \in DOMAIN M, M[i].id > 0
    PROVE  /\ M[i].id \in DOMAIN d /\ M[i].id \in Nat
           /\ M[i].role = d[M[i].id].kind
           /\ Shows(d[M[i].id], s, turn)
           /\ M[i].readable = (d[M[i].id].kind = "tool" /\ Kept(d[M[i].id], s, turn))
<1>1. Renders(M[i], d, s, turn)
  BY DEF Laid
<1>2. M[i].id \in DOMAIN d /\ Shows(d[M[i].id], s, turn)
      /\ M[i] = Rendered(M[i].id, d[M[i].id], ~Kept(d[M[i].id], s, turn))
  BY <1>1 DEF Renders
<1>3. M[i].id \in Nat
  BY <1>2, ServingTypes
<1> QED
  BY <1>2, <1>3 DEF Rendered

(* The turn begins, by position, no later than its first message, and      *)
(* after every answer.                                                     *)
LEMMA TurnStart ==
    ASSUME NEW M, NEW d, NEW s, NEW turn, Laid(M, d, s, turn), Serving(d, turn),
           NEW p \in DOMAIN M, M[p].id > 0, d[M[p].id].turn = turn
    PROVE  /\ CurrentTurnStart(M) \in Nat /\ CurrentTurnStart(M) <= p
           /\ M[p].role # "assistant"
           /\ \A i \in DOMAIN M : M[i].role = "assistant" => i < CurrentTurnStart(M)
<1> DEFINE x == M[p].id
<1>1. M \in Seq(Unit) /\ DOMAIN M = 1..Len(M) /\ Len(M) \in Nat
  BY DEF Laid
<1>2. x \in DOMAIN d /\ x \in Nat /\ M[p].role = d[x].kind
  BY Rendering
<1>3. M[p].role # "assistant"
  BY <1>2, AnswerIsEarlier, ServingTypes
<1>4. PICK k \in 1..x : d[k].kind = "user" /\ d[k].turn = turn
  BY <1>2 DEF Serving, Told, Opened
<1>5. k \in DOMAIN d /\ k \in Nat /\ k > 0 /\ k <= x
  <2>1. DOMAIN d = 1..Len(d) /\ Len(d) \in Nat
    BY ServingTypes
  <2> HIDE DEF x
  <2> QED
    BY <1>2, <2>1
<1>6. Shows(d[k], s, turn)
  BY <1>4, <1>5 DEF Serving, Shows, StaleModelText, Kept
<1>7. PICK q \in DOMAIN M : M[q].id = k
  BY <1>6, <1>5 DEF Laid
<1>8. M[q].id > 0 /\ M[q].id <= M[p].id
  BY <1>5, <1>7
<1>9. q <= p
  BY <1>8, IdOrder
<1>10. M[q].role = "user"
  BY <1>4, <1>7, <1>8, Rendering
<1>11. ASSUME NEW i \in DOMAIN M, M[i].role = "assistant" PROVE i < q
  <2>1. M[i].id > 0
    BY <1>11 DEF Laid, Pair
  <2>2. M[i].id \in DOMAIN d /\ M[i].id \in Nat /\ d[M[i].id].kind = "assistant"
    BY <1>11, <2>1, Rendering
  <2>3. d[M[i].id].turn < d[M[q].id].turn
    BY <1>4, <1>7, <2>2, AnswerIsEarlier
  <2>4. ~(M[q].id <= M[i].id)
    <3> SUFFICES ASSUME M[q].id <= M[i].id PROVE FALSE
      OBVIOUS
    <3>1. d[M[q].id].turn <= d[M[i].id].turn
      BY <1>5, <1>7, <2>2 DEF Serving, Told, Ordered
    <3>2. d[M[i].id].turn \in Nat /\ d[M[q].id].turn \in Nat
      BY <1>5, <1>7, <2>2, ServingTypes
    <3> QED
      BY <2>3, <3>1, <3>2
  <2>5. M[i].id <= M[q].id
    BY <1>5, <1>7, <2>2, <2>4
  <2>6. i <= q
    BY <1>8, <2>1, <2>5, IdOrder
  <2>7. i # q
    BY <1>10, <1>11
  <2> QED
    BY <1>1, <2>6, <2>7
<1>12. /\ CurrentTurnStart(M) \in Nat /\ CurrentTurnStart(M) <= q
       /\ \A i \in DOMAIN M : M[i].role = "assistant" => i < CurrentTurnStart(M)
  BY <1>1, <1>10, <1>11, StartFacts
<1> QED
  BY <1>1, <1>3, <1>9, <1>12

(* There is such a message.                                                *)
LEMMA TurnHasMessage ==
    ASSUME NEW M, NEW d, NEW s, NEW turn, Laid(M, d, s, turn), Serving(d, turn)
    PROVE  \E p \in DOMAIN M : M[p].id > 0 /\ d[M[p].id].turn = turn
<1> DEFINE n == Len(d)
<1>1. DOMAIN d = 1..n /\ n \in Nat /\ n \in DOMAIN d /\ d[n].turn = turn
  BY ServingTypes DEF Serving
<1>2. PICK k \in 1..n : d[k].kind = "user" /\ d[k].turn = turn
  BY <1>1 DEF Serving, Told, Opened
<1> HIDE DEF n
<1>3. k \in DOMAIN d /\ k > 0
  BY <1>1
<1>4. Shows(d[k], s, turn)
  BY <1>2, <1>3 DEF Serving, Shows, StaleModelText, Kept
<1>5. PICK q \in DOMAIN M : M[q].id = k
  BY <1>3, <1>4 DEF Laid
<1> QED
  BY <1>2, <1>3, <1>5

(* What the budget leaves of it.                                           *)
Leaves(M, gone) ==
    /\ gone \in SUBSET Droppable(M)
    /\ \A x \in gone, y \in Droppable(M) \ gone : Before(x, y, CurrentTurnStart(M))
    /\ Minimal(M, gone)

LEMMA KeptOfRequest ==
    ASSUME NEW M, NEW d, NEW s, NEW turn, Laid(M, d, s, turn), Serving(d, turn)
    PROVE  /\ \E gone : Leaves(M, gone) /\ Fit(M) = Without(M, gone)
           /\ Fit(M) \in Seq(Unit)
           /\ \A k \in DOMAIN Fit(M) : Fit(M)[k].id \in -Cardinality(EmulatedReads)..Len(d)
           /\ \A c \in EmulatedReads :
                \E k \in DOMAIN Fit(M) : Fit(M)[k].id = EmulatedId(c) /\ Fit(M)[k].readable
<1>1. M \in Seq(Unit)
  BY DEF Laid
<1>2. CurrentTurnStart(M) \in Nat
  BY TurnHasMessage, TurnStart
<1>3. PICK gone \in SUBSET Droppable(M) :
        /\ Fit(M) = Without(M, gone)
        /\ \A x \in gone, y \in Droppable(M) \ gone : Before(x, y, CurrentTurnStart(M))
        /\ Minimal(M, gone)
  <2>1. CurrentTurnStart(M) \in Int
    BY <1>2
  <2> QED
    BY <1>1, <2>1, Trimmed
<1>4. Leaves(M, gone)
  BY <1>3 DEF Leaves
<1> DEFINE F == Fit(M)
<1>5. /\ F \in Seq(Unit)
      /\ \A k \in DOMAIN F : \E i \in DOMAIN M \ gone : F[k] = M[i]
      /\ \A i \in DOMAIN M \ gone : \E k \in DOMAIN F : F[k] = M[i]
  BY <1>1, <1>3, WithoutFacts
<1> HIDE DEF F
<1>6. ASSUME NEW k \in DOMAIN F PROVE F[k].id \in -Cardinality(EmulatedReads)..Len(d)
  <2>1. PICK i \in DOMAIN M : F[k] = M[i]
    BY <1>5
  <2>2. Cardinality(EmulatedReads) \in Nat /\ DOMAIN d = 1..Len(d) /\ Len(d) \in Nat
    BY EmulatedFinite, ServingTypes
  <2>3. CASE M[i].id > 0
    <3>1. M[i].id \in 1..Len(d)
      BY <2>2, <2>3, Rendering
    <3> QED
      BY <2>1, <2>2, <3>1
  <2>4. CASE ~(M[i].id > 0)
    <3>1. M[i].id \in -Cardinality(EmulatedReads)..(-1)
      BY <2>4 DEF Laid, Pair
    <3> QED
      BY <2>1, <2>2, <3>1
  <2> QED
    BY <2>3, <2>4
<1>7. ASSUME NEW c \in EmulatedReads
      PROVE  \E k \in DOMAIN F : F[k].id = EmulatedId(c) /\ F[k].readable
  <2>1. PICK i \in DOMAIN M : M[i].id = EmulatedId(c)
    BY DEF Laid
  <2>2. M[i].id \in Int /\ M[i].id < 0
    BY <2>1, EmulatedIds
  <2>3. M[i].readable
    BY <2>2 DEF Laid, Pair
  <2>4. i \in Pinned(M)
    BY <2>2 DEF Pinned
  <2>5. i \in DOMAIN M \ gone
    BY <2>4 DEF Droppable
  <2>6. PICK k \in DOMAIN F : F[k] = M[i]
    BY <1>5, <2>5
  <2> QED
    BY <2>1, <2>3, <2>6
<1> QED
  BY <1>3, <1>4, <1>5, <1>6, <1>7 DEF F

LEMMA BuildHistory == ASSUME RoundInv, HistoryInv, Build PROVE HistoryInv'
<1> DEFINE M == SpliceDiscovery(Assemble(doc, scope, b.turn))
<1>1. /\ b.pc = "build" /\ request' = [all |-> M, kept |-> Fit(M)]
      /\ b' = [BeginRound(b) EXCEPT !.pc = "model"] /\ doc' = doc /\ scope' = scope
  BY DEF Build
<1>2. /\ b'.pc = "model" /\ b'.turn = b.turn /\ b'.window = b.window /\ b'.seen = b.seen
      /\ b'.served = b.served /\ b'.servedThisRound = {}
  BY <1>1 DEF RoundInv, Locals, BodyShape, BeginRound
<1>3. Serving(doc, b.turn)
  BY <1>1, ServingNow
<1>4. Laid(M, doc, scope, b.turn)
  BY <1>3, ServingLaid
<1>5. request'.all = SpliceDiscovery(Assemble(doc', scope', b'.turn))
  BY <1>1, <1>2
<1> HIDE DEF M
<1>6. M \in Seq(Unit) /\ request'.all = M /\ request'.kept = Fit(M)
  BY <1>1, <1>4 DEF Laid
<1>7. /\ Fit(M) \in Seq(Unit)
      /\ \A k \in DOMAIN Fit(M) : Fit(M)[k].id \in -Cardinality(EmulatedReads)..Len(doc)
      /\ \A c \in EmulatedReads :
           \E k \in DOMAIN Fit(M) : Fit(M)[k].id = EmulatedId(c) /\ Fit(M)[k].readable
  BY <1>3, <1>4, KeptOfRequest
<1>8. Told(doc') /\ Live' /\ EmulatedNeverFetched'
  BY <1>1, <1>2 DEF HistoryInv, Live, EmulatedNeverFetched
<1>9. Rest'
  BY <1>1, <1>2 DEF HistoryInv, Rest
<1>10. GuardKnows'
  BY <1>1, <1>2 DEF HistoryInv, GuardKnows
<1>11. PairsReadable'
  <2> SUFFICES ASSUME NEW c \in EmulatedReads PROVE EmulatedId(c) \in Readable'
    BY DEF PairsReadable
  <2>1. PICK k \in DOMAIN Fit(M) : Fit(M)[k].id = EmulatedId(c) /\ Fit(M)[k].readable
    BY <1>7
  <2> QED
    BY <1>6, <2>1 DEF Readable
<1>12. RequestedNow'
  <2>1. MessagesOf(request', doc')
    BY <1>1, <1>6, <1>7 DEF MessagesOf
  <2> QED
    BY <1>5, <1>6, <2>1 DEF RequestedNow
<1> QED
  BY <1>8, <1>9, <1>10, <1>11, <1>12 DEF HistoryInv

LEMMA NextKeepsHistoryInv == RoundInv /\ HistoryInv /\ [Next]_vars => HistoryInv'
<1> SUFFICES ASSUME RoundInv, HistoryInv, [Next]_vars PROVE HistoryInv'
  OBVIOUS
<1>1. CASE Run
  BY <1>1, RunHistory
<1>2. CASE Resume
  BY <1>2, ResumeHistory
<1>3. CASE Abandon
  BY <1>3, AbandonHistory
<1>4. CASE Build
  BY <1>4, BuildHistory
<1>5. CASE EndTurn
  BY <1>5, EndTurnHistory
<1>6. CASE AskUser
  BY <1>6, AskUserHistory
<1>7. CASE Respond
  BY <1>7, RespondHistory
<1>8. CASE Decline
  BY <1>8, DeclineHistory
<1>9. CASE ReadGate
  BY <1>9, ReadGateHistory
<1>10. CASE DispatchOk
  BY <1>10, DispatchOkHistory
<1>11. CASE DispatchDenied
  BY <1>11, DispatchDeniedHistory
<1>12. CASE EndBatch
  BY <1>12, EndBatchHistory
<1>13. CASE BudgetCap
  BY <1>13, BudgetCapHistory
<1>14. CASE UNCHANGED vars
  BY <1>14 DEF HistoryInv, Live, Rest, GuardKnows, PairsReadable, EmulatedNeverFetched,
               RequestedNow, Readable, vars
<1> QED
  BY <1>1, <1>2, <1>3, <1>4, <1>5, <1>6, <1>7, <1>8, <1>9, <1>10, <1>11, <1>12, <1>13, <1>14
     DEF Next

LEMMA RoundTypes == ASSUME RoundInv, HistoryInv PROVE RoundTypeOK
<1>1. b \in Body
  BY DEF RoundInv, Locals, BodyShape, HistoryInv, Rest, Body
<1>2. doc \in Seq(Entry) /\ scope \in Scopes
  BY DEF RoundInv, Trail, HistoryInv, Rest
<1>3. MessagesOf(request, doc)
  BY DEF HistoryInv, RequestedNow
<1> QED
  BY <1>1, <1>2, <1>3 DEF RoundTypeOK, MessagesOf

(* A result of the turn that is not pinned has PinnedPairs newer ones.     *)
PairsOf(M) == {i \in DOMAIN M : i >= CurrentTurnStart(M) /\ M[i].role = "tool"}
Newer(M, i) == {j \in PairsOf(M) : j > i}

LEMMA PinnedForms ==
    ASSUME NEW M
    PROVE  /\ \A i \in DOMAIN M : i \in Pinned(M) <=>
                 \/ M[i].id < 0
                 \/ i >= CurrentTurnStart(M) /\ M[i].role # "tool"
                 \/ i \in PairsOf(M) /\ Cardinality(Newer(M, i)) < PinnedPairs
BY DEF Pinned, PairsOf, Newer

LEMMA NewerFinite ==
    ASSUME NEW M \in Seq(Unit), NEW i
    PROVE  IsFiniteSet(Newer(M, i)) /\ Cardinality(Newer(M, i)) \in Nat
<1>1. IsFiniteSet(1..Len(M)) /\ Newer(M, i) \in SUBSET (1..Len(M))
  BY FS_Interval DEF Newer, PairsOf
<1> QED
  BY <1>1, FS_Subset, FS_CardinalityType

(* The request of this round, and what was left out of it.                 *)
LEMMA RequestNow ==
    ASSUME RoundInv, HistoryInv, b.pc = "model"
    PROVE  /\ Serving(doc, b.turn) /\ Laid(request.all, doc, scope, b.turn)
           /\ request.all \in Seq(Unit)
           /\ \E gone : /\ Leaves(request.all, gone)
                        /\ request.kept = Without(request.all, gone)
<1>1. Serving(doc, b.turn)
  BY ServingNow
<1>2. request.all = SpliceDiscovery(Assemble(doc, scope, b.turn)) /\ request.kept = Fit(request.all)
  BY DEF HistoryInv, RequestedNow
<1>3. Laid(request.all, doc, scope, b.turn)
  BY <1>1, <1>2, ServingLaid
<1>4. \E gone : Leaves(request.all, gone) /\ Fit(request.all) = Without(request.all, gone)
  BY <1>1, <1>3, KeptOfRequest
<1> QED
  BY <1>1, <1>2, <1>3, <1>4 DEF Laid

LEMMA GoneOfTurn ==
    ASSUME NEW M, NEW d, NEW s, NEW turn, Laid(M, d, s, turn), Serving(d, turn),
           NEW gone, Leaves(M, gone), NEW i \in gone, d[M[i].id].turn = turn
    PROVE  /\ i \in DOMAIN M /\ M[i].id > 0
           /\ CurrentTurnStart(M) \in Nat /\ CurrentTurnStart(M) <= i
           /\ M[i].role = "tool" /\ i \in PairsOf(M)
           /\ Cardinality(Newer(M, i)) >= PinnedPairs
<1>1. M \in Seq(Unit)
  BY DEF Laid
<1>2. i \in DOMAIN M /\ i \notin Pinned(M)
  BY DEF Leaves, Droppable
<1>3. ~(M[i].id < 0)
  BY <1>2, PinnedForms
<1>4. M[i].id > 0
  <2> SUFFICES ASSUME ~(M[i].id > 0) PROVE FALSE
    OBVIOUS
  <2>1. M[i].id \in -Cardinality(EmulatedReads)..(-1)
    BY <1>2 DEF Laid, Pair
  <2>2. Cardinality(EmulatedReads) \in Nat
    BY EmulatedFinite
  <2> QED
    BY <1>3, <2>1, <2>2
<1>5. CurrentTurnStart(M) \in Nat /\ CurrentTurnStart(M) <= i
  BY <1>2, <1>4, TurnStart
<1>6. i \in Nat
  BY <1>1, <1>2
<1>7. i >= CurrentTurnStart(M)
  BY <1>5, <1>6
<1>8. M[i].role = "tool"
  BY <1>2, <1>7, PinnedForms
<1>9. i \in PairsOf(M)
  BY <1>2, <1>7, <1>8 DEF PairsOf
<1>10. ~(Cardinality(Newer(M, i)) < PinnedPairs)
  BY <1>2, <1>9, PinnedForms
<1>11. Cardinality(Newer(M, i)) \in Nat /\ PinnedPairs \in Nat
  BY <1>1, NewerFinite, RoundAssumption
<1> QED
  BY <1>2, <1>4, <1>5, <1>8, <1>9, <1>10, <1>11

(* What comes after an entry of the turn is of the turn.                   *)
LEMMA LaterOfTurn ==
    ASSUME NEW M, NEW d, NEW s, NEW turn, Laid(M, d, s, turn), Serving(d, turn),
           NEW i \in DOMAIN M, M[i].id > 0, d[M[i].id].turn = turn,
           NEW j \in DOMAIN M, M[j].id > 0, i < j
    PROVE  d[M[j].id].turn = turn
<1>1. M[i].id < M[j].id
  BY DEF Laid
<1>2. M[i].id \in DOMAIN d /\ M[j].id \in DOMAIN d /\ M[i].id \in Nat /\ M[j].id \in Nat
  BY Rendering
<1>3. d[M[i].id].turn <= d[M[j].id].turn
  BY <1>1, <1>2 DEF Serving, Told, Ordered
<1>4. d[M[j].id].turn \in Nat /\ turn \in Nat /\ d[M[j].id].turn <= turn
  BY <1>2, ServingTypes
<1> QED
  BY <1>3, <1>4

LEMMA TurnIsKept == ASSUME RoundInv, HistoryInv PROVE CurrentTurnKept
<1> SUFFICES ASSUME b.pc = "model" PROVE CurrentTurnKept
  BY DEF CurrentTurnKept
<1> DEFINE M == request.all
           F == request.kept
           s == scope
           d == doc
           turn == b.turn
           ofTurn == {i \in DOMAIN M : M[i].id > 0 /\ d[M[i].id].turn = turn}
           pairs == {i \in ofTurn : M[i].role = "tool"}
<1>1. /\ Serving(d, turn) /\ Laid(M, d, s, turn) /\ M \in Seq(Unit)
      /\ \E gone : Leaves(M, gone) /\ F = Without(M, gone)
  BY RequestNow
<1>2. PICK gone : Leaves(M, gone) /\ F = Without(M, gone)
  BY <1>1
<1>3. \A i \in DOMAIN M \ gone : \E k \in DOMAIN F : F[k] = M[i]
  BY <1>1, <1>2, WithoutFacts
<1>4. CurrentTurnKept <=>
        \A i \in ofTurn : \/ \E k \in DOMAIN F : F[k] = M[i]
                          \/ i \in pairs /\ Cardinality({j \in pairs : j > i}) >= PinnedPairs
  BY DEF CurrentTurnKept
<1> HIDE DEF M, F, s, d, turn
<1>5. ASSUME NEW i \in ofTurn, ~(\E k \in DOMAIN F : F[k] = M[i])
      PROVE  i \in pairs /\ Cardinality({j \in pairs : j > i}) >= PinnedPairs
  <2>1. i \in DOMAIN M /\ i \in gone
    BY <1>3, <1>5
  <2>2. /\ M[i].id > 0 /\ M[i].role = "tool" /\ i \in PairsOf(M)
        /\ Cardinality(Newer(M, i)) >= PinnedPairs
        /\ CurrentTurnStart(M) \in Nat /\ CurrentTurnStart(M) <= i
    BY <1>1, <1>2, <2>1, GoneOfTurn
  <2>3. ASSUME NEW j \in Newer(M, i) PROVE j \in pairs /\ j > i
    <3>1. j \in DOMAIN M /\ M[j].role = "tool" /\ j > i
      BY <2>3 DEF Newer, PairsOf
    <3>2. i \in Nat /\ j \in Nat
      BY <1>1, <2>1, <3>1
    <3>3. M[j].id > 0
      <4> SUFFICES ASSUME ~(M[j].id > 0) PROVE FALSE
        OBVIOUS
      <4>1. M[j].id \in -Cardinality(EmulatedReads)..(-1) /\ Cardinality(EmulatedReads) \in Nat
        BY <1>1, <3>1, EmulatedFinite DEF Laid, Pair
      <4>2. M[j].id < 0
        BY <4>1
      <4>3. j < i
        BY <1>1, <2>1, <2>2, <3>1, <4>2 DEF Laid
      <4> QED
        BY <3>1, <3>2, <4>3
    <3>4. d[M[j].id].turn = turn
      BY <1>1, <2>1, <2>2, <3>1, <3>2, <3>3, LaterOfTurn
    <3> QED
      BY <3>1, <3>3, <3>4
  <2>4. ASSUME NEW j \in pairs, j > i PROVE j \in Newer(M, i)
    <3>1. i \in Nat /\ j \in Nat /\ j \in DOMAIN M
      BY <1>1, <2>1
    <3>2. j >= CurrentTurnStart(M)
      BY <2>2, <2>4, <3>1
    <3> QED
      BY <2>4, <3>1, <3>2 DEF Newer, PairsOf
  <2>5. {j \in pairs : j > i} = Newer(M, i)
    BY <2>3, <2>4
  <2> QED
    BY <2>1, <2>2, <2>5
<1> QED
  BY <1>4, <1>5

LEMMA HiddenIsHidden == ASSUME RoundInv, HistoryInv PROVE HiddenStaysHidden
<1> SUFFICES ASSUME b.pc = "model", NEW k \in DOMAIN request.kept, request.kept[k].id > 0
             PROVE  LET u == request.kept[k]
                        e == doc[u.id]
                    IN  /\ u.readable /\ e.status = "ok" => InScope(e.prov, scope)
                        /\ u.role = "assistant" =>
                              \A i \in DOMAIN doc :
                                  /\ doc[i].kind = "tool" /\ doc[i].turn = e.turn
                                  /\ doc[i].status = "ok" /\ doc[i].code # "served"
                                  => InScope(doc[i].prov, scope)
  BY DEF HiddenStaysHidden
<1> DEFINE M == request.all
           u == request.kept[k]
           e == doc[u.id]
<1>1. /\ Serving(doc, b.turn) /\ Laid(M, doc, scope, b.turn) /\ M \in Seq(Unit)
      /\ \E gone : Leaves(M, gone) /\ request.kept = Without(M, gone)
  BY RequestNow
<1>2. PICK x \in DOMAIN M : u = M[x]
  BY <1>1, WithoutFacts
<1>3. /\ u.id \in DOMAIN doc /\ u.role = e.kind /\ Shows(e, scope, b.turn)
      /\ u.readable = (e.kind = "tool" /\ Kept(e, scope, b.turn))
  BY <1>1, <1>2, Rendering
<1> HIDE DEF u, e, M
<1>4. u.readable /\ e.status = "ok" => InScope(e.prov, scope)
  BY <1>3 DEF Kept
<1>5. ASSUME u.role = "assistant", NEW i \in DOMAIN doc,
             doc[i].kind = "tool", doc[i].turn = e.turn,
             doc[i].status = "ok", doc[i].code # "served"
      PROVE  InScope(doc[i].prov, scope)
  <2>1. e.kind = "assistant" /\ InScope(e.prov, scope)
    BY <1>3, <1>5 DEF Shows, Kept, Stranded
  <2>2. e.prov = TurnProvenance(doc, e.turn)
    BY <1>1, <1>3, <2>1 DEF Serving, Told, Closed, Closes, e
  <2>3. CASE doc[i].call = "recordAssumptions"
    <3>1. doc[i].prov = <<{}>>
      BY <1>1, <1>5, <2>3 DEF Serving, Told, AllCalled, Called
    <3> QED
      BY <3>1 DEF InScope, Undetermined
  <2>4. CASE doc[i].call # "recordAssumptions"
    <3> DEFINE es == TurnEntries(doc, e.turn)
               all == UNION {doc[j].prov[1] : j \in es}
    <3>1. i \in es
      BY <1>5, <2>4 DEF TurnEntries
    <3>2. e.prov # Undetermined /\ (scope = {} \/ e.prov[1] \subseteq scope)
      BY <2>1 DEF InScope
    <3>3. /\ \A j \in es : doc[j].prov # Undetermined
          /\ e.prov = <<all>>
      BY <2>2, <3>2 DEF TurnProvenance
    <3>4. doc[i].prov[1] \subseteq all
      BY <3>1
    <3> HIDE DEF all, es
    <3>5. e.prov[1] = all
      BY <3>3
    <3> QED
      BY <3>1, <3>2, <3>3, <3>4, <3>5 DEF InScope
  <2> QED
    BY <2>3, <2>4
<1> QED
  BY <1>4, <1>5 DEF u, e

LEMMA OlderIsGone ==
    ASSUME NEW M, NEW d, NEW s, NEW turn, Laid(M, d, s, turn), Serving(d, turn),
           NEW gone, Leaves(M, gone),
           NEW i \in gone, d[M[i].id].turn = turn,
           NEW y \in DOMAIN M \ gone, M[y].id > 0
    PROVE  /\ \/ d[M[y].id].turn = turn
              \/ \A j \in DOMAIN M : M[j].role = "assistant" /\ M[j].id > 0 =>
                    d[M[y].id].turn > d[M[j].id].turn
           /\ M[y].role = "tool" => M[y].id > M[i].id
<1> DEFINE start == CurrentTurnStart(M)
<1>1. M \in Seq(Unit) /\ DOMAIN M = 1..Len(M) /\ Len(M) \in Nat
  BY DEF Laid
<1>2. /\ i \in DOMAIN M /\ M[i].id > 0 /\ start \in Nat /\ start <= i
      /\ M[i].role = "tool" /\ i \in PairsOf(M) /\ Cardinality(Newer(M, i)) >= PinnedPairs
  BY GoneOfTurn
<1>3. y \in Nat /\ i \in Nat
  BY <1>1, <1>2
<1>4. M[y].id \in DOMAIN d /\ M[y].id \in Nat /\ M[i].id \in DOMAIN d /\ M[i].id \in Nat
  BY <1>2, Rendering
<1>5. y \notin Pinned(M) => y >= start /\ i < y
  <2> SUFFICES ASSUME y \notin Pinned(M) PROVE y >= start /\ i < y
    OBVIOUS
  <2>1. y \in Droppable(M) \ gone
    BY DEF Droppable
  <2>2. Before(i, y, start)
    BY <2>1 DEF Leaves
  <2> HIDE DEF start
  <2> QED
    BY <1>2, <1>3, <2>2 DEF Before
<1>6. y \in Pinned(M) => y >= start
  <2>1. ~(M[y].id < 0)
    BY <1>4
  <2> QED
    BY <2>1, PinnedForms DEF PairsOf
<1>7. y >= start
  BY <1>5, <1>6
<1>8. ASSUME NEW j \in DOMAIN M, M[j].role = "assistant", M[j].id > 0
      PROVE  d[M[y].id].turn > d[M[j].id].turn
  <2>1. j < start
    BY <1>2, <1>8, TurnStart
  <2>2. j < y
    BY <1>1, <1>2, <1>3, <1>7, <1>8, <2>1
  <2>3. M[j].id < M[y].id
    BY <1>8, <2>2 DEF Laid
  <2>4. M[j].id \in DOMAIN d /\ d[M[j].id].kind = "assistant"
    BY <1>8, Rendering
  <2>5. d[M[j].id].turn < d[M[y].id].turn
    <3>1. M[j].id \in Nat
      BY <1>8, Rendering
    <3>2. M[y].id > M[j].id
      BY <1>4, <2>3, <3>1
    <3>3. Closes(d, M[j].id)
      BY <2>4 DEF Serving, Told, Closed
    <3> QED
      BY <1>4, <3>2, <3>3 DEF Closes
  <2>6. d[M[j].id].turn \in Nat /\ d[M[y].id].turn \in Nat
    BY <1>4, <2>4, ServingTypes
  <2> QED
    BY <2>5, <2>6
<1>9. ASSUME M[y].role = "tool" PROVE M[y].id > M[i].id
  <2>1. i < y
    <3>1. CASE y \notin Pinned(M)
      BY <1>5, <3>1
    <3>2. CASE y \in Pinned(M)
      <4>1. ~(M[y].id < 0)
        BY <1>4
      <4>2. y \in PairsOf(M) /\ Cardinality(Newer(M, y)) < PinnedPairs
        BY <1>9, <3>2, <4>1, PinnedForms
      <4>3. IsFiniteSet(Newer(M, y)) /\ Cardinality(Newer(M, y)) \in Nat
            /\ Cardinality(Newer(M, i)) \in Nat /\ PinnedPairs \in Nat
        BY <1>1, NewerFinite, RoundAssumption
      <4> SUFFICES ASSUME ~(i < y) PROVE FALSE
        OBVIOUS
      <4>4. Newer(M, i) \in SUBSET Newer(M, y)
        <5>1. ASSUME NEW j \in PairsOf(M), j > i PROVE j > y
          <6>1. j \in Nat
            BY <1>1 DEF PairsOf
          <6> QED
            BY <1>3, <5>1, <6>1
        <5> QED
          BY <5>1 DEF Newer
      <4>5. Cardinality(Newer(M, i)) <= Cardinality(Newer(M, y))
        BY <4>3, <4>4, FS_Subset
      <4> QED
        BY <1>2, <4>2, <4>3, <4>5
    <3> QED
      BY <3>1, <3>2
  <2>2. M[i].id < M[y].id
    BY <1>2, <2>1 DEF Laid
  <2> QED
    BY <1>4, <2>2
<1> QED
  BY <1>8, <1>9

LEMMA OlderWentFirst == ASSUME RoundInv, HistoryInv PROVE OlderGoesFirst
<1> SUFFICES ASSUME b.pc = "model" PROVE OlderGoesFirst
  BY DEF OlderGoesFirst
<1> DEFINE M == request.all
           F == request.kept
           here == {F[k].id : k \in DOMAIN F}
           left == {i \in DOMAIN M : M[i].id \notin here}
           answers == {k \in DOMAIN M : M[k].role = "assistant"}
           answered == {doc[M[j].id].turn : j \in answers}
<1>1. /\ Serving(doc, b.turn) /\ Laid(M, doc, scope, b.turn) /\ M \in Seq(Unit)
      /\ \E gone : Leaves(M, gone) /\ F = Without(M, gone)
  BY RequestNow
<1>2. PICK gone : Leaves(M, gone) /\ F = Without(M, gone)
  BY <1>1
<1>3. /\ F \in Seq(Unit)
      /\ \A k \in DOMAIN F : \E i \in DOMAIN M \ gone : F[k] = M[i]
      /\ \A i \in DOMAIN M \ gone : \E k \in DOMAIN F : F[k] = M[i]
  BY <1>1, <1>2, WithoutFacts
<1>4. \A i, j \in DOMAIN M : M[i].id = M[j].id => i = j
  BY <1>1 DEF Laid
<1>5. gone \in SUBSET DOMAIN M
  BY <1>2 DEF Leaves, Droppable
<1>6. OlderGoesFirst <=>
        /\ \A i \in left, k \in DOMAIN F :
              /\ doc[M[i].id].turn = b.turn
              /\ F[k].id > 0
              => /\ \/ doc[F[k].id].turn = b.turn
                    \/ \A t \in answered : doc[F[k].id].turn > t
                 /\ F[k].role = "tool" => F[k].id > M[i].id
        /\ left # {} => \E i \in left : Tokens(F) + M[i].weight > TokenBudget
  BY DEF OlderGoesFirst
<1>7. \A t \in answered : \E j \in answers : t = doc[M[j].id].turn
  OBVIOUS
<1>8. \A j \in answers : j \in DOMAIN M /\ M[j].role = "assistant" /\ M[j].id > 0
  <2>1. \A j \in DOMAIN M : M[j].id > 0 \/ M[j].role = "tool"
    BY <1>1 DEF Laid, Pair
  <2> QED
    BY <2>1
<1> HIDE DEF M, F, answered, answers
<1>9. left = gone
  <2>1. ASSUME NEW i \in left PROVE i \in gone
    BY <1>3, <2>1
  <2>2. ASSUME NEW i \in gone PROVE i \in left
    <3>1. i \in DOMAIN M
      BY <1>5, <2>2
    <3>2. ASSUME NEW k \in DOMAIN F, F[k].id = M[i].id PROVE FALSE
      <4>1. PICK j \in DOMAIN M \ gone : F[k] = M[j]
        BY <1>3
      <4>2. j = i
        BY <1>4, <3>1, <3>2, <4>1
      <4> QED
        BY <2>2, <4>1, <4>2
    <3> QED
      BY <3>1, <3>2
  <2> QED
    BY <2>1, <2>2
<1> HIDE DEF left
<1>10. ASSUME NEW i \in gone, NEW k \in DOMAIN F, doc[M[i].id].turn = b.turn, F[k].id > 0
       PROVE  /\ \/ doc[F[k].id].turn = b.turn
                 \/ \A t \in answered : doc[F[k].id].turn > t
              /\ F[k].role = "tool" => F[k].id > M[i].id
  <2>1. PICK y \in DOMAIN M \ gone : F[k] = M[y]
    BY <1>3
  <2>2. /\ \/ doc[M[y].id].turn = b.turn
           \/ \A j \in DOMAIN M : M[j].role = "assistant" /\ M[j].id > 0 =>
                 doc[M[y].id].turn > doc[M[j].id].turn
        /\ M[y].role = "tool" => M[y].id > M[i].id
    BY <1>1, <1>2, <1>10, <2>1, OlderIsGone
  <2> QED
    BY <1>7, <1>8, <2>1, <2>2
<1>11. ASSUME gone # {} PROVE \E i \in gone : Tokens(F) + M[i].weight > TokenBudget
  <2>1. PICK x \in gone : ~(Tokens(Without(M, gone \ {x})) <= TokenBudget)
    BY <1>2, <1>11 DEF Leaves, Minimal
  <2>2. /\ Tokens(F) \in Nat /\ M[x].weight \in Nat
        /\ Tokens(Without(M, gone \ {x})) = Tokens(F) + M[x].weight
    BY <1>1, <1>2, <1>4, <1>5, TokensOfGone
  <2>3. TokenBudget \in Nat
    BY RoundAssumption
  <2>4. Tokens(F) + M[x].weight > TokenBudget
    BY <2>1, <2>2, <2>3
  <2> QED
    BY <2>4
<1> QED
  BY <1>6, <1>9, <1>10, <1>11

(* The document of the session tells its turns in order, each closed by an *)
(* answer that carries what the turn read; the guard knows the emulated    *)
(* reads and their pairs are readable in every round; the request is the   *)
(* one the document calls for (_build_canonical_messages, ReadGuard).      *)
THEOREM HistoryInvariant == Spec => [](RoundInv /\ HistoryInv)
<1>1. Init => RoundInv /\ HistoryInv
  BY InitRoundInv, InitHistoryInv
<1>2. RoundInv /\ HistoryInv /\ [Next]_vars => RoundInv' /\ HistoryInv'
  BY NextKeepsRoundInv, NextKeepsHistoryInv
<1> QED
  BY <1>1, <1>2, PTL DEF Spec

(* Every request holds the whole current turn but what its own newest      *)
(* results push out, drops what is older first and no more than it must,   *)
(* and shows nothing the caller's scope hides; what is emulated is never   *)
(* fetched (fit_request_to_budget, scope filter, discovery emulation).     *)
THEOREM RequestsAreFaithful == Spec => []RoundsFaithful
<1>1. RoundInv /\ HistoryInv => RoundsFaithful
  BY RoundTypes, TurnIsKept, OlderWentFirst, HiddenIsHidden DEF RoundsFaithful, RoundInv, HistoryInv
<1> QED
  BY <1>1, HistoryInvariant, PTL

---------------------------------------------------------------------------
(* The preview of a schema                                                 *)

(* A sequence that lists a set, every member once.                         *)
Lists(s, S) ==
    /\ s \in Seq(S)
    /\ \A i \in S : \E k \in 1..Len(s) : s[k] = i
    /\ \A k, l \in 1..Len(s) : s[k] = s[l] => k = l

LEMMA ListsLength ==
    ASSUME NEW S, NEW s, Lists(s, S)
    PROVE  {s[k] : k \in 1..Len(s)} = S /\ IsFiniteSet(S) /\ Len(s) = Cardinality(S)
<1> DEFINE n == Len(s)
           f == [k \in 1..n |-> s[k]]
<1>1. /\ s \in Seq(S) /\ n \in Nat /\ \A k \in 1..n : s[k] \in S
      /\ \A i \in S : \E k \in 1..n : s[k] = i
      /\ \A k, l \in 1..n : s[k] = s[l] => k = l
  BY DEF Lists
<1>2. f \in Bijection(1..n, S)
  BY <1>1 DEF Bijection, Injection, Surjection, IsInjective
<1>3. ExistsBijection(1..n, S)
  BY <1>2 DEF ExistsBijection
<1>4. IsFiniteSet(1..n) /\ Cardinality(1..n) = n
  <2>1. IsFiniteSet(1..n) /\ Cardinality(1..n) = IF 1 > n THEN 0 ELSE n - 1 + 1
    BY <1>1, FS_Interval
  <2> HIDE DEF n
  <2> QED
    BY <1>1, <2>1
<1>5. IsFiniteSet(S) /\ Cardinality(S) = n
  BY <1>3, <1>4, FS_Bijection
<1> QED
  BY <1>1, <1>5

LEMMA ListsBoth ==
    ASSUME NEW A, NEW B, NEW x, NEW y, Lists(x, A), Lists(y, B), A \cap B = {}
    PROVE  /\ Lists(x \o y, A \cup B)
           /\ \A k, l \in 1..Len(x \o y) : (x \o y)[l] \in A /\ k < l => (x \o y)[k] \in A
<1> DEFINE U == A \cup B
           o == x \o y
           m == Len(x)
           n == Len(y)
<1>1. /\ x \in Seq(A) /\ y \in Seq(B) /\ m \in Nat /\ n \in Nat
      /\ \A k \in 1..m : x[k] \in A
      /\ \A k \in 1..n : y[k] \in B
      /\ \A i \in A : \E k \in 1..m : x[k] = i
      /\ \A i \in B : \E k \in 1..n : y[k] = i
      /\ \A k, l \in 1..m : x[k] = x[l] => k = l
      /\ \A k, l \in 1..n : y[k] = y[l] => k = l
  BY DEF Lists
<1>2. /\ o \in Seq(U) /\ Len(o) = m + n
      /\ \A k \in 1..(m + n) : o[k] = IF k <= m THEN x[k] ELSE y[k - m]
  <2>1. x \in Seq(U) /\ y \in Seq(U)
    BY <1>1
  <2>2. /\ o \in Seq(U) /\ Len(o) = Len(x) + Len(y)
        /\ \A k \in 1..(Len(x) + Len(y)) : o[k] = IF k <= Len(x) THEN x[k] ELSE y[k - Len(x)]
    BY <2>1, ConcatProperties
  <2> QED
    BY <2>2
<1> HIDE DEF o, m, n, U
<1>3. ASSUME NEW k \in 1..(m + n)
      PROVE  \/ k \in 1..m /\ k <= m /\ o[k] = x[k] /\ o[k] \in A /\ o[k] \notin B
             \/ k - m \in 1..n /\ ~(k <= m) /\ o[k] = y[k - m] /\ o[k] \in B /\ o[k] \notin A
  <2>1. CASE k <= m
    BY <1>1, <1>2, <2>1
  <2>2. CASE ~(k <= m)
    <3>1. k - m \in 1..n
      BY <1>1, <2>2
    <3> QED
      BY <1>1, <1>2, <2>2, <3>1
  <2> QED
    BY <2>1, <2>2
<1>4. ASSUME NEW i \in U PROVE \E k \in 1..(m + n) : o[k] = i
  <2>1. CASE i \in A
    <3>1. PICK k \in 1..m : x[k] = i
      BY <1>1, <2>1
    <3>2. k \in 1..(m + n) /\ k <= m
      BY <1>1
    <3> QED
      BY <1>2, <3>1, <3>2
  <2>2. CASE i \in B
    <3>1. PICK k \in 1..n : y[k] = i
      BY <1>1, <2>2
    <3>2. k + m \in 1..(m + n) /\ ~(k + m <= m) /\ (k + m) - m = k
      BY <1>1
    <3>3. o[k + m] = y[k]
      BY <1>2, <3>2
    <3> QED
      BY <3>1, <3>2, <3>3
  <2> QED
    BY <2>1, <2>2 DEF U
<1>5. ASSUME NEW k \in 1..(m + n), NEW l \in 1..(m + n), o[k] = o[l] PROVE k = l
  <2>1. CASE k \in 1..m /\ k <= m /\ o[k] = x[k] /\ o[k] \in A /\ o[k] \notin B
    BY <1>1, <1>3, <1>5, <2>1
  <2>2. CASE k - m \in 1..n /\ ~(k <= m) /\ o[k] = y[k - m] /\ o[k] \in B /\ o[k] \notin A
    <3>1. l - m \in 1..n /\ o[l] = y[l - m]
      BY <1>3, <1>5, <2>2
    <3>2. k - m = l - m
      BY <1>1, <1>5, <2>2, <3>1
    <3> QED
      BY <1>1, <3>2
  <2> QED
    BY <1>3, <2>1, <2>2
<1>6. ASSUME NEW k \in 1..(m + n), NEW l \in 1..(m + n), o[l] \in A, k < l PROVE o[k] \in A
  <2>1. l <= m
    BY <1>3, <1>6
  <2>2. k <= m
    BY <1>1, <1>6, <2>1
  <2> QED
    BY <1>3, <2>2
<1>7. Lists(o, U)
  BY <1>2, <1>4, <1>5 DEF Lists
<1> QED
  BY <1>2, <1>6, <1>7 DEF o, U

LEMMA ListsInOrder ==
    ASSUME NEW n \in Nat, NEW S \in SUBSET (1..n)
    PROVE  Lists(InOrder(S), S)
<1> DEFINE p == InOrder(S)
<1>1. IsFiniteSet(S) /\ S \subseteq Int
  <2>1. IsFiniteSet(1..n) /\ S \in SUBSET (1..n)
    BY FS_Interval
  <2>2. IsFiniteSet(S)
    BY <2>1, FS_Subset
  <2> QED
    BY <2>2
<1>2. /\ p \in Seq(S)
      /\ \A i \in S : \E k \in 1..Len(p) : p[k] = i
      /\ \A k, l \in 1..Len(p) : k < l => p[k] < p[l]
  BY <1>1, InOrderFacts
<1> HIDE DEF p
<1>3. ASSUME NEW k \in 1..Len(p), NEW l \in 1..Len(p), p[k] = p[l] PROVE k = l
  <2>1. p[k] \in Int /\ k \in Int /\ l \in Int
    <3>1. p[k] \in S
      BY <1>2
    <3>2. p[k] \in Int
      BY <1>1, <3>1
    <3>3. k \in Int /\ l \in Int
      OBVIOUS
    <3> QED
      BY <3>2, <3>3
  <2>2. ~(k < l) /\ ~(l < k)
    BY <1>2, <1>3, <2>1
  <2> QED
    BY <2>1, <2>2
<1> QED
  BY <1>2, <1>3 DEF Lists, p

(* Numbers that are listed in another order.                               *)
LEMMA SurjectionOnce ==
    ASSUME NEW n \in Nat, NEW r \in [1..n -> 1..n], \A i \in 1..n : \E k \in 1..n : r[k] = i
    PROVE  \A k, l \in 1..n : r[k] = r[l] => k = l
<1>1. IsFiniteSet(1..n)
  BY FS_Interval
<1>2. r \in Surjection(1..n, 1..n)
  BY DEF Surjection
<1>3. r \in Injection(1..n, 1..n)
  BY <1>1, <1>2, FS_Surjection
<1> QED
  BY <1>3 DEF Injection, IsInjective

---------------------------------------------------------------------------
Shaped ==
    /\ cap \in Nat
    /\ schema \in Seq(ColumnEntry)
    /\ \A i \in All : schema[i].skeleton <= schema[i].full
    /\ rank \in [All -> All] /\ \A i \in All : \E k \in All : rank[k] = i

LEMMA AllFacts ==
    ASSUME Shaped
    PROVE  /\ Len(schema) \in Nat /\ All = 1..Len(schema) /\ DOMAIN schema = All
           /\ IsFiniteSet(All) /\ Cardinality(All) = Len(schema)
           /\ \A i \in All : schema[i].skeleton \in Nat /\ schema[i].full \in Nat
<1>1. schema \in Seq(ColumnEntry) /\ Len(schema) \in Nat /\ All = 1..Len(schema) /\ DOMAIN schema = All
  BY DEF Shaped, All
<1>2. IsFiniteSet(All) /\ Cardinality(All) = Len(schema)
  <2> DEFINE n == Len(schema)
  <2>1. n \in Nat /\ All = 1..n
    BY <1>1
  <2> HIDE DEF n
  <2>2. IsFiniteSet(1..n) /\ Cardinality(1..n) = IF 1 > n THEN 0 ELSE n - 1 + 1
    BY <2>1, FS_Interval
  <2>3. IsFiniteSet(All) /\ Cardinality(All) = n
    BY <2>1, <2>2
  <2> QED
    BY <2>3 DEF n
<1>3. \A i \in All : schema[i] \in ColumnEntry
  BY <1>1
<1> QED
  BY <1>1, <1>2, <1>3 DEF ColumnEntry

LEMMA RankedLists ==
    ASSUME Shaped, NEW these \in SUBSET All
    PROVE  Lists(Ranked(these), these)
<1> DEFINE n == Len(schema)
           S == {k \in DOMAIN rank : rank[k] \in these}
           p == InOrder(S)
           q == Ranked(these)
<1>1. n \in Nat /\ All = 1..n
  BY AllFacts
<1>2. /\ rank \in [1..n -> 1..n] /\ DOMAIN rank = 1..n /\ rank \in Seq(All) /\ Len(rank) = n
      /\ \A i \in 1..n : \E k \in 1..n : rank[k] = i
  <2> HIDE DEF n
  <2> QED
    BY <1>1 DEF Shaped
<1>3. \A k, l \in 1..n : rank[k] = rank[l] => k = l
  BY <1>1, <1>2, SurjectionOnce
<1>4. S \in SUBSET (1..Len(rank)) /\ q = Pick(rank, S)
  BY <1>2 DEF Ranked
<1>5. \A k \in S : k \in 1..n /\ rank[k] \in these
  BY <1>2
<1>6. \A k \in 1..n : rank[k] \in these => k \in S
  BY <1>2
<1> HIDE DEF n, S, q
<1>7. /\ q \in Seq(All) /\ DOMAIN q = DOMAIN p /\ DOMAIN p = 1..Len(q)
      /\ \A k \in DOMAIN p : p[k] \in S /\ q[k] = rank[p[k]]
      /\ \A i \in S : \E k \in DOMAIN p : p[k] = i
      /\ \A k, l \in DOMAIN p : k < l => p[k] < p[l]
  BY <1>2, <1>4, PickFacts
<1> HIDE DEF p
<1>8. \A k \in 1..Len(q) : q[k] \in these
  BY <1>5, <1>7
<1>9. q \in Seq(these)
  BY <1>7, <1>8
<1>10. ASSUME NEW i \in these PROVE \E k \in 1..Len(q) : q[k] = i
  <2>1. PICK j \in 1..n : rank[j] = i
    BY <1>1, <1>2
  <2>2. j \in S
    BY <1>6, <2>1
  <2>3. PICK k \in DOMAIN p : p[k] = j
    BY <1>7, <2>2
  <2> QED
    BY <1>7, <2>1, <2>3
<1>11. ASSUME NEW k \in 1..Len(q), NEW l \in 1..Len(q), q[k] = q[l] PROVE k = l
  <2>1. p[k] \in 1..n /\ p[l] \in 1..n /\ rank[p[k]] = rank[p[l]]
    BY <1>5, <1>7, <1>11
  <2>2. p[k] = p[l]
    BY <1>3, <2>1
  <2>3. k \in Int /\ l \in Int /\ p[k] \in Int
    BY <2>1
  <2>4. ~(k < l) /\ ~(l < k)
    BY <1>7, <2>1, <2>2, <2>3
  <2> QED
    BY <2>3, <2>4
<1> QED
  BY <1>9, <1>10, <1>11 DEF Lists, q

LEMMA EmittedLists ==
    ASSUME Shaped, NEW listed \in SUBSET All, NEW first
    PROVE  Lists(Emitted(listed, first), listed)
<1>1. Lists(Ranked(listed \cap first), listed \cap first)
  BY RankedLists
<1>2. Len(schema) \in Nat /\ listed \ first \in SUBSET (1..Len(schema))
  BY AllFacts
<1>3. Lists(InOrder(listed \ first), listed \ first)
  BY <1>2, ListsInOrder
<1>4. (listed \cap first) \cap (listed \ first) = {} /\ (listed \cap first) \cup (listed \ first) = listed
  OBVIOUS
<1>5. Lists(Emitted(listed, first), (listed \cap first) \cup (listed \ first))
  BY <1>1, <1>3, <1>4, ListsBoth DEF Emitted
<1> QED
  BY <1>4, <1>5

LEMMA BothRanked ==
    ASSUME Shaped, NEW A \in SUBSET All, NEW B \in SUBSET All, A \subseteq B
    PROVE  /\ Lists(Ranked(A) \o RestRanked(B), A \cup (All \ B))
           /\ \A k, l \in 1..Len(Ranked(A) \o RestRanked(B)) :
                (Ranked(A) \o RestRanked(B))[l] \in A /\ k < l =>
                    (Ranked(A) \o RestRanked(B))[k] \in A
<1>1. Lists(Ranked(A), A) /\ Lists(RestRanked(B), All \ B)
  BY RankedLists DEF RestRanked
<1>2. A \cap (All \ B) = {}
  OBVIOUS
<1> QED
  BY <1>1, <1>2, ListsBoth

---------------------------------------------------------------------------
(* Sizes                                                                   *)
FormTokens(i, full) == {<<i, n>> : n \in 1..FormSize(i, full)}
SizeTokens(listed, full) == UNION {FormTokens(i, full) : i \in listed}

LEMMA SizeFinite ==
    ASSUME Shaped, NEW listed \in SUBSET All, NEW full
    PROVE  /\ SizeOf(listed, full) = Cardinality(SizeTokens(listed, full))
           /\ IsFiniteSet(SizeTokens(listed, full)) /\ SizeOf(listed, full) \in Nat
<1> DEFINE Q == {FormTokens(i, full) : i \in listed}
           f == [i \in listed |-> FormTokens(i, full)]
<1>1. IsFiniteSet(listed)
  BY AllFacts, FS_Subset
<1>2. f \in Surjection(listed, Q)
  BY DEF Surjection
<1>3. IsFiniteSet(Q)
  BY <1>1, <1>2, FS_Surjection
<1>4. ASSUME NEW i \in listed PROVE IsFiniteSet(FormTokens(i, full))
  <2> DEFINE w == FormSize(i, full)
             g == [n \in 1..w |-> <<i, n>>]
  <2>1. w \in Nat
    BY AllFacts DEF FormSize
  <2>2. IsFiniteSet(1..w)
    BY <2>1, FS_Interval
  <2>3. g \in Surjection(1..w, FormTokens(i, full))
    BY DEF Surjection, FormTokens
  <2> QED
    BY <2>2, <2>3, FS_Surjection
<1>5. \A T \in Q : IsFiniteSet(T)
  BY <1>4
<1>6. IsFiniteSet(UNION Q)
  BY <1>3, <1>5, FS_UNION
<1>7. IsFiniteSet(SizeTokens(listed, full))
  BY <1>6 DEF SizeTokens
<1>8. SizeOf(listed, full) = Cardinality(SizeTokens(listed, full))
  BY DEF SizeOf, SizeTokens, FormTokens
<1> QED
  BY <1>7, <1>8, FS_CardinalityType

(* More detail never takes less.                                           *)
LEMMA SizeGrows ==
    ASSUME Shaped, NEW listed \in SUBSET All, NEW full, NEW more, full \subseteq more
    PROVE  SizeOf(listed, full) <= SizeOf(listed, more)
<1>1. ASSUME NEW i \in listed PROVE FormTokens(i, full) \subseteq FormTokens(i, more)
  <2>1. FormSize(i, full) \in Nat /\ FormSize(i, more) \in Nat /\ FormSize(i, full) <= FormSize(i, more)
    <3>1. /\ schema[i].skeleton \in Nat /\ schema[i].full \in Nat
          /\ schema[i].skeleton <= schema[i].full
      BY AllFacts DEF Shaped
    <3> QED
      BY <3>1 DEF FormSize
  <2>2. \A n \in 1..FormSize(i, full) : n \in 1..FormSize(i, more)
    BY <2>1
  <2> QED
    BY <2>2 DEF FormTokens
<1>2. SizeTokens(listed, full) \in SUBSET SizeTokens(listed, more)
  BY <1>1 DEF SizeTokens
<1>3. /\ SizeOf(listed, full) = Cardinality(SizeTokens(listed, full))
      /\ SizeOf(listed, more) = Cardinality(SizeTokens(listed, more))
      /\ IsFiniteSet(SizeTokens(listed, more))
  BY SizeFinite
<1>4. Cardinality(SizeTokens(listed, full)) <= Cardinality(SizeTokens(listed, more))
  BY <1>2, <1>3, FS_Subset
<1> QED
  BY <1>3, <1>4

---------------------------------------------------------------------------
(* The ladder                                                              *)

(* A column whose documentation has no room beside what is shown.          *)
NoRoom(i) == Cardinality(All \ detailed) > 1 => ~Fits(All, detailed \cup {i})

Upgrading ==
    /\ detailed \in SUBSET All /\ front \in SUBSET All
    /\ Bare \subseteq detailed /\ Structural \subseteq front
    /\ todo \in Seq(All)
    /\ \A i \in All \ detailed : NoRoom(i) \/ \E k \in 1..Len(todo) : todo[k] = i
    /\ Fits(All, detailed) \/ (detailed = Bare /\ front = Structural)

(* The keys come first, and not all skeletons fit.                         *)
Admitting ==
    /\ detailed = Bare /\ front = Structural /\ ~Fits(All, Bare)
    /\ todo \in Seq(All) /\ \A i \in All : \E k \in 1..Len(todo) : todo[k] = i
    /\ \A k, l \in 1..Len(todo) : todo[l] \in Structural /\ k < l => todo[k] \in Structural

PreviewInv ==
    /\ rungs \in {"complete", "upgrade", "admit", "listed", "cards", "capped"}
    /\ rungs \in {"complete", "upgrade", "admit"} => Shaped
    /\ rungs \in {"complete", "cards"} => note = None /\ out = <<>>
    /\ rungs = "cards" => schema \in Seq(Nat)
    /\ rungs = "upgrade" => Upgrading
    /\ rungs = "admit" => Admitting
    /\ PreviewHonest

Structured == Structural \in SUBSET All /\ Bare \in SUBSET All

LEMMA StructuredAlways == Structured
BY DEF Structured, Structural, Bare

LEMMA NothingListed ==
    ASSUME rungs' \notin {"listed", "capped"} PROVE PreviewHonest'
BY DEF PreviewHonest, WithinBudget, MarkerIsTrue, KeysGoLast, OmittedLast, PackedDense

LEMMA VisibleShape ==
    ASSUME NEW columns \in Schemas
    PROVE  /\ VisibleOf(columns) \in Seq(ColumnEntry)
           /\ \A k \in DOMAIN VisibleOf(columns) :
                VisibleOf(columns)[k].skeleton <= VisibleOf(columns)[k].full
<1> DEFINE S == {i \in DOMAIN columns : ~columns[i].tenancy}
           v == VisibleOf(columns)
<1>1. columns \in Seq(ColumnEntry) /\ \A i \in DOMAIN columns : columns[i].skeleton <= columns[i].full
  BY PreviewAssumption
<1>2. S \in SUBSET (1..Len(columns)) /\ v = Pick(columns, S)
  BY <1>1 DEF VisibleOf
<1>3. \A i \in S : i \in DOMAIN columns
  OBVIOUS
<1> HIDE DEF S, v
<1>4. /\ v \in Seq(ColumnEntry) /\ DOMAIN v = DOMAIN InOrder(S)
      /\ \A k \in DOMAIN InOrder(S) : InOrder(S)[k] \in S /\ v[k] = columns[InOrder(S)[k]]
  BY <1>1, <1>2, PickFacts
<1>5. \A k \in DOMAIN v : v[k].skeleton <= v[k].full
  BY <1>1, <1>3, <1>4
<1> QED
  BY <1>4, <1>5 DEF v

LEMMA InitPreviewInv == PInit => PreviewInv
<1> SUFFICES ASSUME PInit PROVE PreviewInv
  OBVIOUS
<1>1. rungs \in {"complete", "cards"} /\ note = None /\ out = <<>>
  BY DEF PInit
<1>2. rungs = "cards" => schema \in Seq(Nat)
  BY PreviewAssumption DEF PInit
<1>3. rungs = "complete" => Shaped
  <2> SUFFICES ASSUME rungs = "complete" PROVE Shaped
    OBVIOUS
  <2>1. PICK columns \in Schemas : schema = VisibleOf(columns)
    BY DEF PInit
  <2>2. schema \in Seq(ColumnEntry) /\ \A i \in DOMAIN schema : schema[i].skeleton <= schema[i].full
    BY <2>1, VisibleShape
  <2>3. rank \in [All -> All] /\ \A i \in All : \E k \in All : rank[k] = i
    BY DEF PInit, RankColumns
  <2> QED
    BY <2>2, <2>3, PreviewAssumption DEF Shaped, All, PInit
<1>4. PreviewHonest
  BY <1>1 DEF PreviewHonest, WithinBudget, MarkerIsTrue, KeysGoLast, OmittedLast, PackedDense
<1> QED
  BY <1>1, <1>2, <1>3, <1>4 DEF PreviewInv

(* What is listed, and the marker that goes with it.                       *)
LEMMA ListedTruth ==
    ASSUME Shaped, schema' = schema, cap' = cap, detailed' = detailed, rungs' = "listed",
           NEW S \in SUBSET All, NEW first, out' = Emitted(S, first),
           note' = MarkerOf(S, detailed), S # {} => Fits(S, detailed)
    PROVE  /\ Shown' = S /\ All' = All /\ Structural' = Structural /\ Bare' = Bare
           /\ \A D : Fits(All, D)' <=> Fits(All, D)
           /\ WithinBudget' /\ MarkerIsTrue'
<1>1. All' = All /\ Structural' = Structural /\ Bare' = Bare
  BY DEF All, Structural, Bare
<1>2. \A L, D : /\ (SizeOf(L, D))' = SizeOf(L, D) /\ (MarkerOf(L, D))' = MarkerOf(L, D)
                /\ Fits(L, D)' <=> Fits(L, D)
  BY DEF SizeOf, FormSize, MarkerOf, Fits, MarkerSize
<1>3. Lists(out', S)
  BY EmittedLists
<1>4. Shown' = S /\ Len(out') = Cardinality(S)
  BY <1>3, ListsLength DEF Shown
<1>5. Cardinality(S) \in Nat /\ (Cardinality(S) = 0 <=> S = {}) /\ (Cardinality(All) = 0 <=> All = {})
  <2>1. IsFiniteSet(S) /\ IsFiniteSet(All)
    BY AllFacts, FS_Subset
  <2> QED
    BY <2>1, FS_EmptySet, FS_CardinalityType
<1>6. /\ note'.listed = Cardinality(S) /\ note'.omitted = Len(schema) - Cardinality(S)
      /\ note'.reduced = Cardinality(S \ detailed)
  BY DEF MarkerOf
<1>7. note' = None => S = {} /\ Len(schema) = 0
  <2> SUFFICES ASSUME note' = None PROVE S = {} /\ Len(schema) = 0
    OBVIOUS
  <2>1. note'.listed = 0 /\ note'.omitted = 0
    BY DEF None
  <2> QED
    BY <1>5, <1>6, <2>1, AllFacts
<1>8. WithinBudget'
  <2>1. CASE S = {}
    BY <1>4, <2>1 DEF WithinBudget
  <2>2. CASE S # {}
    <3>1. SizeOf(S, detailed) + MarkerSize(MarkerOf(S, detailed)) <= cap
      BY <2>2 DEF Fits
    <3>2. note' # None
      BY <1>7, <2>2
    <3>3. (SizeOf(Shown, detailed))' = SizeOf(S, detailed) /\ (MarkerSize(note))' = MarkerSize(MarkerOf(S, detailed))
      BY <1>4 DEF SizeOf, FormSize, MarkerSize
    <3> QED
      BY <3>1, <3>2, <3>3 DEF WithinBudget, None
  <2> QED
    BY <2>1, <2>2
<1>9. MarkerIsTrue'
  <2>1. note' = None => S = 1..Len(schema) /\ S \ detailed = {}
    BY <1>7
  <2> QED
    BY <1>4, <1>6, <2>1 DEF MarkerIsTrue, None
<1> QED
  BY <1>1, <1>2, <1>4, <1>8, <1>9

(* A schema that fits is listed whole, and carries no marker.              *)
LEMMA CompleteKeeps == ASSUME PreviewInv, Complete PROVE PreviewInv'
<1> DEFINE n == Len(schema)
           o == [i \in All |-> i]
<1>1. Shaped /\ note = None /\ rungs' = "listed" /\ schema' = schema /\ cap' = cap
      /\ note' = None /\ detailed' = All /\ out' = o /\ SizeOf(All, All) <= cap
  BY DEF PreviewInv, Complete
<1>2. n \in Nat /\ All = 1..n /\ All' = All /\ Cardinality(All) = n
  BY <1>1, AllFacts DEF All
<1>3. Len(o) = n /\ {o[i] : i \in 1..n} = All
  BY <1>2
<1>4. Shown' = All
  BY <1>1, <1>3 DEF Shown
<1>5. (SizeOf(Shown, detailed))' = SizeOf(All, All) /\ SizeOf(All, All) \in Nat
  <2>1. SizeOf(All, All) \in Nat
    BY <1>1, SizeFinite
  <2>2. (SizeOf(Shown, detailed))' = SizeOf(All, All)
    BY <1>1, <1>4 DEF SizeOf, FormSize
  <2> QED
    BY <2>1, <2>2
<1>6. WithinBudget'
  <2>1. SizeOf(All, All) + 0 <= cap
    BY <1>1, <1>5
  <2> QED
    BY <1>1, <1>5, <2>1 DEF WithinBudget, None
<1>7. MarkerIsTrue'
  <2>1. Len(out') = Cardinality(Shown') /\ Shown' = 1..Len(schema') /\ Shown' \ detailed' = {}
    BY <1>1, <1>2, <1>3, <1>4
  <2> QED
    BY <1>1, <2>1 DEF MarkerIsTrue, None
<1>8. KeysGoLast' /\ OmittedLast' /\ PackedDense'
  <2>1. Structural' \subseteq Shown'
    BY <1>2, <1>4 DEF Structural
  <2>2. All' \ detailed' = {}
    BY <1>1, <1>2
  <2> QED
    BY <1>2, <1>4, <2>1, <2>2 DEF KeysGoLast, OmittedLast, PackedDense
<1> QED
  BY <1>1, <1>6, <1>7, <1>8 DEF PreviewInv, PreviewHonest

LEMMA SkeletonsKeeps == ASSUME PreviewInv, Skeletons PROVE PreviewInv'
<1> DEFINE A == Structural \ Bare
           B == Structural \cup Bare
           t == Ranked(A) \o RestRanked(B)
<1>1. /\ Shaped /\ rungs' = "upgrade" /\ schema' = schema /\ cap' = cap /\ rank' = rank
      /\ detailed' = Bare /\ front' = Structural /\ todo' = t
  BY DEF PreviewInv, Skeletons
<1>2. All' = All /\ Structural' = Structural /\ Bare' = Bare
  BY <1>1 DEF All, Structural, Bare
<1>3. Shaped'
  BY <1>1, <1>2 DEF Shaped
<1>4. A \in SUBSET All /\ B \in SUBSET All /\ A \subseteq B
  BY StructuredAlways DEF Structured
<1>5. Lists(t, A \cup (All \ B))
  <2> HIDE DEF A, B
  <2> QED
    BY <1>1, <1>4, BothRanked
<1>6. A \cup (All \ B) = All \ Bare
  BY StructuredAlways DEF Structured
<1>7. Lists(t, All \ Bare)
  BY <1>5, <1>6
<1> HIDE DEF t
<1>8. t \in Seq(All) /\ \A i \in All \ Bare : \E k \in 1..Len(t) : t[k] = i
  BY <1>7 DEF Lists
<1>9. Upgrading'
  <2>1. /\ detailed' \in SUBSET All' /\ front' \in SUBSET All'
        /\ Bare' \subseteq detailed' /\ Structural' \subseteq front'
        /\ detailed' = Bare' /\ front' = Structural'
    BY <1>1, <1>2, StructuredAlways DEF Structured
  <2>2. todo' \in Seq(All') /\ \A i \in All' \ detailed' : \E k \in 1..Len(todo') : todo'[k] = i
    BY <1>1, <1>2, <1>8
  <2> QED
    BY <2>1, <2>2 DEF Upgrading
<1>10. PreviewHonest'
  BY <1>1, NothingListed
<1> QED
  BY <1>1, <1>3, <1>9, <1>10 DEF PreviewInv

(* What had no room beside less has none beside more.                      *)
LEMMA RoomShrinks ==
    ASSUME Shaped, detailed \in SUBSET All, NEW D \in SUBSET All, detailed \subseteq D,
           Cardinality(All \ D) > 1, NEW i \in All \ detailed, NoRoom(i)
    PROVE  ~Fits(All, D \cup {i})
<1>1. Cardinality(All \ D) <= Cardinality(All \ detailed) /\ Cardinality(All \ detailed) \in Nat
      /\ Cardinality(All \ D) \in Nat
  <2> DEFINE X == All \ D
             Y == All \ detailed
  <2>1. IsFiniteSet(Y)
    BY AllFacts, FS_Subset
  <2>2. X \in SUBSET Y
    OBVIOUS
  <2> HIDE DEF X, Y
  <2>3. IsFiniteSet(X) /\ Cardinality(X) <= Cardinality(Y)
    BY <2>1, <2>2, FS_Subset
  <2>4. Cardinality(X) \in Nat /\ Cardinality(Y) \in Nat
    BY <2>1, <2>3, FS_CardinalityType
  <2> QED
    BY <2>3, <2>4 DEF X, Y
<1>2. ~Fits(All, detailed \cup {i})
  BY <1>1 DEF NoRoom
<1>3. Cardinality(All \ (D \cup {i})) > 0 /\ Cardinality(All \ (detailed \cup {i})) > 0
  <2>1. ASSUME NEW F \in SUBSET All, Cardinality(All \ F) > 1
        PROVE  Cardinality(All \ (F \cup {i})) > 0
    <3> DEFINE X == All \ (F \cup {i})
    <3>1. IsFiniteSet(X)
      BY AllFacts, FS_Subset
    <3>2. SUFFICES ASSUME X = {} PROVE FALSE
      BY <3>1, FS_EmptySet, FS_CardinalityType
    <3>3. All \ F \in SUBSET {i}
      BY <3>2
    <3>4. IsFiniteSet({i}) /\ Cardinality({i}) = 1
      BY FS_Singleton
    <3>5. Cardinality(All \ F) <= 1 /\ Cardinality(All \ F) \in Nat
      BY <3>3, <3>4, FS_Subset, FS_CardinalityType
    <3> QED
      BY <2>1, <3>5
  <2>2. Cardinality(All \ detailed) > 1
    BY <1>1
  <2> QED
    BY <2>1, <2>2
<1>4. MarkerSize(MarkerOf(All, D \cup {i})) = MarkerSize(MarkerOf(All, detailed \cup {i}))
      /\ MarkerSize(MarkerOf(All, D \cup {i})) \in Nat
  BY <1>3 DEF MarkerSize, MarkerOf
<1>5. /\ SizeOf(All, detailed \cup {i}) <= SizeOf(All, D \cup {i})
      /\ SizeOf(All, detailed \cup {i}) \in Nat /\ SizeOf(All, D \cup {i}) \in Nat
  BY SizeGrows, SizeFinite
<1>6. cap \in Nat
  BY DEF Shaped
<1> QED
  BY <1>2, <1>4, <1>5, <1>6 DEF Fits

(* An entry that is tried goes in, or has no room, and never will.         *)
LEMMA UpgradeKeeps == ASSUME PreviewInv, Upgrade PROVE PreviewInv'
<1> DEFINE h == Head(todo)
<1>1. /\ Shaped /\ Upgrading /\ rungs' = "upgrade" /\ schema' = schema /\ cap' = cap /\ rank' = rank
      /\ todo # <<>> /\ todo' = Tail(todo)
  BY DEF PreviewInv, Upgrade
<1>2. All' = All /\ Structural' = Structural /\ Bare' = Bare
  BY <1>1 DEF All, Structural, Bare
<1>3. Shaped'
  BY <1>1, <1>2 DEF Shaped
<1>4. \A L, D : Fits(L, D)' <=> Fits(L, D)
  BY <1>1 DEF SizeOf, FormSize, MarkerOf, Fits, MarkerSize
<1>5. /\ h \in All /\ Tail(todo) \in Seq(All)
      /\ \A k \in 1..Len(todo) : todo[k] = h \/ \E j \in 1..Len(Tail(todo)) : Tail(todo)[j] = todo[k]
  <2>1. todo \in Seq(All) /\ todo # <<>>
    BY <1>1 DEF Upgrading
  <2>2. h = todo[1] /\ h \in All /\ Tail(todo) \in Seq(All) /\ Len(Tail(todo)) = Len(todo) - 1
        /\ \A j \in 1..(Len(todo) - 1) : Tail(todo)[j] = todo[j + 1]
    BY <2>1
  <2>3. ASSUME NEW k \in 1..Len(todo), k # 1 PROVE \E j \in 1..Len(Tail(todo)) : Tail(todo)[j] = todo[k]
    <3>1. k - 1 \in 1..(Len(todo) - 1) /\ (k - 1) + 1 = k
      BY <2>1, <2>3
    <3>2. Tail(todo)[k - 1] = todo[k]
      BY <2>2, <3>1
    <3> QED
      BY <2>2, <3>1, <3>2
  <2> QED
    BY <2>2, <2>3
<1> HIDE DEF h
<1>6. /\ detailed \in SUBSET All /\ front \in SUBSET All
      /\ Bare \subseteq detailed /\ Structural \subseteq front
      /\ \A i \in All \ detailed : NoRoom(i) \/ \E k \in 1..Len(todo) : todo[k] = i
      /\ Fits(All, detailed) \/ (detailed = Bare /\ front = Structural)
  BY <1>1 DEF Upgrading
<1>7. PreviewHonest'
  BY <1>1, NothingListed
<1>8. Upgrading'
  <2>1. CASE Fits(All, detailed \cup {h})
    <3> DEFINE D == detailed \cup {h}
    <3>1. detailed' = D /\ front' = front \cup {h} /\ D \in SUBSET All /\ detailed \subseteq D /\ h \in D
      BY <1>5, <1>6, <2>1 DEF Upgrade, h
    <3>2. ASSUME NEW i \in All \ D, ~\E j \in 1..Len(Tail(todo)) : Tail(todo)[j] = i, Cardinality(All \ D) > 1
          PROVE  ~Fits(All, D \cup {i})
      <4>1. i # h /\ i \in All \ detailed
        BY <3>1, <3>2
      <4>2. ~\E k \in 1..Len(todo) : todo[k] = i
        BY <1>5, <3>2, <4>1
      <4>3. NoRoom(i)
        BY <1>6, <4>1, <4>2
      <4> HIDE DEF D
      <4> QED
        BY <1>1, <3>1, <3>2, <4>1, <4>3, RoomShrinks
    <3>3. ASSUME NEW i \in All \ D, ~\E j \in 1..Len(Tail(todo)) : Tail(todo)[j] = i
          PROVE  NoRoom(i)'
      <4>1. (Cardinality(All \ detailed))' = Cardinality(All \ D)
        BY <1>2, <3>1
      <4>2. Fits(All, detailed \cup {i})' <=> Fits(All, D \cup {i})
        BY <1>2, <1>4, <3>1
      <4> QED
        BY <3>2, <3>3, <4>1, <4>2 DEF NoRoom
    <3>4. \A i \in All' \ detailed' : NoRoom(i)' \/ \E k \in 1..Len(todo') : todo'[k] = i
      BY <1>1, <1>2, <3>1, <3>3
    <3>5. Fits(All, detailed)'
      BY <1>2, <1>4, <2>1, <3>1
    <3>6. /\ detailed' \in SUBSET All' /\ front' \in SUBSET All'
          /\ Bare' \subseteq detailed' /\ Structural' \subseteq front' /\ todo' \in Seq(All')
      BY <1>1, <1>2, <1>5, <1>6, <3>1
    <3> QED
      BY <3>4, <3>5, <3>6 DEF Upgrading
  <2>2. CASE ~Fits(All, detailed \cup {h})
    <3>1. detailed' = detailed /\ front' = front
      BY <2>2 DEF Upgrade, h
    <3>2. ASSUME NEW i \in All \ detailed PROVE NoRoom(i)' <=> NoRoom(i)
      BY <1>2, <1>4, <3>1 DEF NoRoom
    <3>3. ASSUME NEW i \in All \ detailed, ~\E j \in 1..Len(Tail(todo)) : Tail(todo)[j] = i
          PROVE  NoRoom(i)
      <4>1. CASE i = h
        BY <2>2, <4>1 DEF NoRoom
      <4>2. CASE i # h
        BY <1>5, <1>6, <3>3, <4>2
      <4> QED
        BY <4>1, <4>2
    <3>4. \A i \in All' \ detailed' : NoRoom(i)' \/ \E k \in 1..Len(todo') : todo'[k] = i
      BY <1>1, <1>2, <3>1, <3>2, <3>3
    <3>5. Fits(All, detailed)' \/ (detailed' = Bare' /\ front' = Structural')
      BY <1>2, <1>4, <1>6, <3>1
    <3>6. /\ detailed' \in SUBSET All' /\ front' \in SUBSET All'
          /\ Bare' \subseteq detailed' /\ Structural' \subseteq front' /\ todo' \in Seq(All')
      BY <1>1, <1>2, <1>5, <1>6, <3>1
    <3> QED
      BY <3>4, <3>5, <3>6 DEF Upgrading
  <2> QED
    BY <2>1, <2>2
<1> QED
  BY <1>1, <1>3, <1>7, <1>8 DEF PreviewInv

(* A prefix that keeps what holds up to the first number for which it fails. *)
LEMMA UpTo ==
    ASSUME NEW N \in Nat, NEW G
    PROVE  \E n \in 0..N : (\A m \in 1..n : m \in G) /\ (n = N \/ n + 1 \in (1..N) \ G)
<1>1. CASE \A m \in 1..N : m \in G
  BY <1>1
<1>2. CASE \E m \in 1..N : m \notin G
  <2> DEFINE Bad == {m \in Nat : m \in 1..N /\ m \notin G}
  <2>1. Bad # {} /\ Bad \in SUBSET Nat
    BY <1>2
  <2>2. PICK f \in Bad : \A g \in Bad : f <= g
    <3> HIDE DEF Bad
    <3> QED
      BY <2>1, FirstNumber
  <2>3. f \in 1..N /\ f \notin G /\ \A m \in 1..N : m \notin G => f <= m
    BY <2>2
  <2>4. f - 1 \in 0..N /\ (f - 1) + 1 = f /\ \A m \in 1..(f - 1) : m \in 1..N /\ ~(f <= m)
    BY <2>3
  <2>5. \A m \in 1..(f - 1) : m \in G
    BY <2>3, <2>4
  <2> QED
    BY <2>3, <2>4, <2>5
<1> QED
  BY <1>1, <1>2

LEMMA UpgradedKeeps == ASSUME PreviewInv, Upgraded PROVE PreviewInv'
<1>1. /\ Shaped /\ Upgrading /\ schema' = schema /\ cap' = cap /\ rank' = rank
      /\ todo = <<>> /\ detailed' = detailed /\ front' = front
  BY DEF PreviewInv, Upgraded
<1>2. /\ detailed \in SUBSET All /\ front \in SUBSET All
      /\ \A i \in All \ detailed : NoRoom(i)
      /\ Fits(All, detailed) \/ (detailed = Bare /\ front = Structural)
  BY <1>1 DEF Upgrading
<1>3. CASE Fits(All, detailed)
  <2>1. rungs' = "listed" /\ out' = Emitted(All, front) /\ note' = MarkerOf(All, detailed)
    BY <1>3 DEF Upgraded
  <2>2. /\ Shown' = All /\ All' = All /\ Structural' = Structural /\ Bare' = Bare
        /\ \A D : Fits(All, D)' <=> Fits(All, D)
        /\ WithinBudget' /\ MarkerIsTrue'
    <3> DEFINE S == All
    <3>1. S \in SUBSET All /\ out' = Emitted(S, front) /\ note' = MarkerOf(S, detailed) /\ Fits(S, detailed)
      BY <1>3, <2>1
    <3> HIDE DEF S
    <3>2. /\ Shown' = S /\ All' = All /\ Structural' = Structural /\ Bare' = Bare
          /\ \A D : Fits(All, D)' <=> Fits(All, D)
          /\ WithinBudget' /\ MarkerIsTrue'
      BY <1>1, <2>1, <3>1, ListedTruth
    <3> QED
      BY <3>2 DEF S
  <2>3. KeysGoLast' /\ OmittedLast'
    BY <2>2, StructuredAlways DEF KeysGoLast, OmittedLast, Structured
  <2>4. PackedDense'
    <3>1. ASSUME NEW i \in All \ detailed, Cardinality(All \ detailed) > 1
          PROVE  ~Fits(All, detailed \cup {i})'
      <4>1. ~Fits(All, detailed \cup {i})
        BY <1>2, <3>1 DEF NoRoom
      <4> QED
        BY <1>1, <2>2, <4>1
    <3> QED
      BY <1>1, <2>2, <3>1 DEF PackedDense
  <2> QED
    BY <2>1, <2>2, <2>3, <2>4 DEF PreviewInv, PreviewHonest
<1>4. CASE ~Fits(All, detailed)
  <2> DEFINE t == Ranked(Structural) \o RestRanked(Structural)
  <2>1. /\ rungs' = "admit" /\ detailed = Bare /\ front = Structural /\ todo' = t
    BY <1>2, <1>4 DEF Upgraded
  <2>2. All' = All /\ Structural' = Structural /\ Bare' = Bare
    BY <1>1 DEF All, Structural, Bare
  <2>3. Shaped'
    BY <1>1, <2>2 DEF Shaped
  <2>4. Fits(All, Bare)' <=> Fits(All, Bare)
    BY <1>1, <2>2 DEF SizeOf, FormSize, MarkerOf, Fits, MarkerSize
  <2>5. /\ Lists(t, All)
        /\ \A k, l \in 1..Len(t) : t[l] \in Structural /\ k < l => t[k] \in Structural
    <3> DEFINE A == Structural
    <3>1. A \in SUBSET All /\ A \subseteq A /\ A \cup (All \ A) = All
      BY StructuredAlways DEF Structured
    <3> HIDE DEF A
    <3>2. /\ Lists(Ranked(A) \o RestRanked(A), A \cup (All \ A))
          /\ \A k, l \in 1..Len(Ranked(A) \o RestRanked(A)) :
                (Ranked(A) \o RestRanked(A))[l] \in A /\ k < l =>
                    (Ranked(A) \o RestRanked(A))[k] \in A
      BY <1>1, <3>1, BothRanked
    <3> QED
      BY <3>1, <3>2 DEF A
  <2> HIDE DEF t
  <2>6. t \in Seq(All) /\ \A i \in All : \E k \in 1..Len(t) : t[k] = i
    BY <2>5 DEF Lists
  <2>7. Admitting'
    BY <1>1, <1>4, <2>1, <2>2, <2>4, <2>5, <2>6 DEF Admitting
  <2>8. PreviewHonest'
    BY <2>1, NothingListed
  <2> QED
    BY <2>1, <2>3, <2>7, <2>8 DEF PreviewInv
<1> QED
  BY <1>3, <1>4

LEMMA AdmitKeeps == ASSUME PreviewInv, Admit PROVE PreviewInv'
<1> DEFINE First(n) == {todo[i] : i \in 1..n}
           Ok(m) == Fits(First(m), detailed)
           N == Len(todo)
           most == CHOOSE n \in 0..N : (\A m \in 1..n : Ok(m)) /\ (n = N \/ ~Ok(n + 1))
           S == First(most)
<1>1. /\ Shaped /\ Admitting /\ schema' = schema /\ cap' = cap /\ rungs' = "listed"
      /\ detailed' = detailed /\ out' = Emitted(S, front) /\ note' = MarkerOf(S, detailed)
  BY DEF PreviewInv, Admit
<1>2. /\ detailed = Bare /\ ~Fits(All, Bare) /\ todo \in Seq(All) /\ N \in Nat
      /\ \A i \in All : \E k \in 1..N : todo[k] = i
      /\ \A k, l \in 1..N : todo[l] \in Structural /\ k < l => todo[k] \in Structural
  BY <1>1 DEF Admitting
<1>3. most \in 0..N /\ (\A m \in 1..most : Ok(m))
  <2> HIDE DEF Ok, N
  <2> DEFINE G == {m \in 1..N : Ok(m)}
  <2>1. \E n \in 0..N : (\A m \in 1..n : m \in G) /\ (n = N \/ n + 1 \in (1..N) \ G)
    <3> HIDE DEF G
    <3> QED
      BY <1>2, UpTo
  <2>2. \E n \in 0..N : (\A m \in 1..n : Ok(m)) /\ (n = N \/ ~Ok(n + 1))
    BY <2>1
  <2> QED
    BY <2>2
<1>4. S \in SUBSET All /\ (S # {} => Fits(S, detailed))
  <2>1. \A i \in 1..most : i \in 1..N
    <3> HIDE DEF most, Ok
    <3> QED
      BY <1>2, <1>3
  <2>2. S \in SUBSET All
    <3> HIDE DEF most
    <3> QED
      BY <1>2, <2>1
  <2>3. S # {} => most \in 1..most
    <3> HIDE DEF most, Ok, N
    <3> QED
      BY <1>2, <1>3
  <2>4. S # {} => Ok(most)
    <3> HIDE DEF Ok, S, most
    <3> QED
      BY <1>3, <2>3
  <2> QED
    BY <2>2, <2>4
<1>5. ASSUME NEW i \in All, i \notin S, i \in Structural PROVE S \subseteq Structural
  <2>1. PICK l \in 1..N : todo[l] = i
    BY <1>2
  <2>2. l \notin 1..most
    BY <1>5, <2>1
  <2>3. ASSUME NEW k \in 1..most PROVE todo[k] \in Structural
    <3>1. k \in 1..N /\ k < l
      <4> HIDE DEF most
      <4> QED
        BY <1>2, <1>3, <2>2
    <3> QED
      BY <1>2, <1>5, <2>1, <3>1
  <2> QED
    BY <2>3
<1> HIDE DEF S
<1>6. /\ Shown' = S /\ All' = All /\ Structural' = Structural /\ Bare' = Bare
      /\ \A D : Fits(All, D)' <=> Fits(All, D)
      /\ WithinBudget' /\ MarkerIsTrue'
  BY <1>1, <1>4, ListedTruth
<1>7. KeysGoLast'
  BY <1>5, <1>6, StructuredAlways DEF KeysGoLast, Structured
<1>8. OmittedLast'
  BY <1>2, <1>6 DEF OmittedLast
<1>9. PackedDense'
  <2>1. S = All => All = {}
    BY <1>2, <1>4
  <2>2. S = All => All \ detailed = {}
    BY <2>1
  <2> QED
    BY <1>1, <1>6, <2>2 DEF PackedDense
<1> QED
  BY <1>1, <1>6, <1>7, <1>8, <1>9 DEF PreviewInv, PreviewHonest

(* Cards are a prefix, and the count that rides with them is its length.   *)
LEMMA CapCardsKeeps == ASSUME PreviewInv, CapCards PROVE PreviewInv'
<1> DEFINE Ok(m) == CardsSize(m) <= cap
           N == Len(schema)
           most == CHOOSE n \in 0..N : (\A m \in 1..n : Ok(m)) /\ (n = N \/ ~Ok(n + 1))
           o == [i \in 1..most |-> i]
<1>1. /\ schema \in Seq(Nat) /\ schema' = schema /\ rungs' = "capped" /\ out' = o
      /\ note' = IF most = N THEN None
                 ELSE [listed |-> most, total |-> N, reduced |-> 0, omitted |-> N - most]
  BY DEF PreviewInv, CapCards
<1>2. N \in Nat
  BY <1>1
<1>3. most \in 0..N
  <2> HIDE DEF Ok, N
  <2> DEFINE G == {m \in 1..N : Ok(m)}
  <2>1. \E n \in 0..N : (\A m \in 1..n : m \in G) /\ (n = N \/ n + 1 \in (1..N) \ G)
    <3> HIDE DEF G
    <3> QED
      BY <1>2, UpTo
  <2>2. \E n \in 0..N : (\A m \in 1..n : Ok(m)) /\ (n = N \/ ~Ok(n + 1))
    BY <2>1
  <2> QED
    BY <2>2
<1> HIDE DEF most
<1>4. Len(o) = most /\ {o[i] : i \in 1..most} = 1..most
  BY <1>2, <1>3
<1>5. Shown' = 1..most
  BY <1>1, <1>4 DEF Shown
<1>6. Cardinality(1..most) = most
  <2>1. most \in Nat
    BY <1>2, <1>3
  <2> QED
    BY <2>1, FS_Interval
<1>7. Cardinality({}) = 0
  BY FS_EmptySet
<1>8. MarkerIsTrue'
  <2>1. CASE most = N
    <3>1. note' = None /\ Shown' = 1..Len(schema')
      BY <1>1, <1>5, <2>1
    <3> QED
      BY <1>1, <1>4, <1>5, <1>6, <3>1 DEF MarkerIsTrue, None
  <2>2. CASE most # N
    <3>1. note' = [listed |-> most, total |-> N, reduced |-> 0, omitted |-> N - most] /\ N # 0
      BY <1>1, <1>2, <1>3, <2>2
    <3>2. note' # [listed |-> 0, total |-> 0, reduced |-> 0, omitted |-> 0]
      <4> HIDE DEF N
      <4>1. note'.total # 0
        BY <3>1
      <4> QED
        BY <4>1
    <3>3. note'.listed = most /\ note'.omitted = Len(schema') - most /\ note'.reduced = 0
      BY <1>1, <3>1
    <3> QED
      BY <1>1, <1>4, <1>5, <1>6, <1>7, <3>2, <3>3 DEF MarkerIsTrue, None
  <2> QED
    BY <2>1, <2>2
<1>9. WithinBudget' /\ KeysGoLast' /\ OmittedLast' /\ PackedDense'
  BY <1>1 DEF WithinBudget, KeysGoLast, OmittedLast, PackedDense
<1> QED
  BY <1>1, <1>8, <1>9 DEF PreviewInv, PreviewHonest

(* Whatever the schema, the scores and the budget, the ladder descends with *)
(* every column that still lacks its documentation either to be tried or   *)
(* without room, and is admitted, once not all skeletons fit, keys first.  *)
THEOREM PreviewInvariant == PSpec => []PreviewInv
<1>1. PreviewInv /\ [PNext]_pvars => PreviewInv'
  <2> SUFFICES ASSUME PreviewInv, [PNext]_pvars PROVE PreviewInv'
    OBVIOUS
  <2>1. CASE Complete
    BY <2>1, CompleteKeeps
  <2>2. CASE Skeletons
    BY <2>2, SkeletonsKeeps
  <2>3. CASE Upgrade
    BY <2>3, UpgradeKeeps
  <2>4. CASE Upgraded
    BY <2>4, UpgradedKeeps
  <2>5. CASE Admit
    BY <2>5, AdmitKeeps
  <2>6. CASE CapCards
    BY <2>6, CapCardsKeeps
  <2>7. CASE UNCHANGED pvars
    <3>1. /\ rungs' = rungs /\ schema' = schema /\ cap' = cap /\ rank' = rank /\ detailed' = detailed
          /\ front' = front /\ todo' = todo /\ out' = out /\ note' = note
      BY <2>7 DEF pvars
    <3>2. All' = All /\ Structural' = Structural /\ Bare' = Bare /\ Shown' = Shown
      BY <3>1 DEF All, Structural, Bare, Shown
    <3>3. \A L, D : Fits(L, D)' <=> Fits(L, D)
      BY <3>1 DEF SizeOf, FormSize, MarkerOf, Fits, MarkerSize
    <3>4. \A i : NoRoom(i)' <=> NoRoom(i)
      BY <3>1, <3>2, <3>3 DEF NoRoom
    <3>5. (Shaped' <=> Shaped) /\ (Upgrading' <=> Upgrading) /\ (Admitting' <=> Admitting)
      BY <3>1, <3>2, <3>3, <3>4 DEF Shaped, Upgrading, Admitting
    <3>6. WithinBudget' <=> WithinBudget
      BY <3>1, <3>2 DEF WithinBudget, SizeOf, FormSize, MarkerSize
    <3>7. MarkerIsTrue' <=> MarkerIsTrue
      BY <3>1, <3>2 DEF MarkerIsTrue
    <3>8. (KeysGoLast' <=> KeysGoLast) /\ (OmittedLast' <=> OmittedLast) /\ (PackedDense' <=> PackedDense)
      BY <3>1, <3>2, <3>3 DEF KeysGoLast, OmittedLast, PackedDense
    <3> QED
      BY <3>1, <3>5, <3>6, <3>7, <3>8 DEF PreviewInv, PreviewHonest
  <2> QED
    BY <2>1, <2>2, <2>3, <2>4, <2>5, <2>6, <2>7 DEF PNext
<1> QED
  BY <1>1, InitPreviewInv, PTL DEF PSpec

(* What the model is shown of a table or of cards that had to be cut fits  *)
(* the budget with its marker, misses nothing the marker does not tell,    *)
(* loses keys last and columns only when their skeletons do not fit, and   *)
(* leaves no column bare that had room (fit_schema_under_cap).             *)
THEOREM PreviewIsHonest == PSpec => []PreviewHonest
<1>1. PreviewInv => PreviewHonest
  BY DEF PreviewInv
<1> QED
  BY <1>1, PreviewInvariant, PTL

---------------------------------------------------------------------------
(* The tables of an answer                                                 *)

(* All of a sequence, picked.                                              *)
LEMMA PickAll ==
    ASSUME NEW T, NEW s \in Seq(T), NEW S, S = DOMAIN s
    PROVE  Pick(s, S) = s
<1> DEFINE n == Len(s)
           p == InOrder(S)
<1>1. n \in Nat /\ S = 1..n
  OBVIOUS
<1> HIDE DEF n
<1>2. ASSUME NEW i \in 1..n PROVE Cardinality({j \in S : j < i}) = i - 1
  <2>1. {j \in S : j < i} = 1..(i - 1)
    BY <1>1
  <2>2. i - 1 \in Nat
    BY <1>1
  <2> DEFINE m == i - 1
  <2>3. Cardinality(1..m) = m
    <3> HIDE DEF m
    <3>1. m \in Nat => Cardinality(1..m) = m
      BY FS_Interval
    <3> QED
      BY <2>2, <3>1 DEF m
  <2> QED
    BY <2>1, <2>3
<1>3. Cardinality(S) = n
  BY <1>1, FS_Interval
<1>4. ASSUME NEW k \in 1..n PROVE p[k] = k
  <2>1. p[k] = CHOOSE i \in S : Cardinality({j \in S : j < i}) = k - 1
    BY <1>3 DEF InOrder
  <2>2. \A i \in S : Cardinality({j \in S : j < i}) = k - 1 <=> i = k
    BY <1>1, <1>2
  <2>3. (CHOOSE i \in S : Cardinality({j \in S : j < i}) = k - 1) = k
    BY <1>1, <2>2
  <2> QED
    BY <2>1, <2>3
<1>5. DOMAIN p = 1..n
  BY <1>3 DEF InOrder
<1>6. Pick(s, S) = [k \in DOMAIN p |-> s[p[k]]]
  BY DEF Pick
<1>7. s = [k \in 1..n |-> s[k]]
  BY DEF n
<1> HIDE DEF p
<1>8. [k \in DOMAIN p |-> s[p[k]]] = [k \in 1..n |-> s[k]]
  BY <1>4, <1>5
<1> QED
  BY <1>6, <1>7, <1>8

(* What a picked item is.                                                  *)
LEMMA PickedIn ==
    ASSUME NEW T, NEW s \in Seq(T), NEW S \in SUBSET (DOMAIN s)
    PROVE  /\ Pick(s, S) \in Seq(T)
           /\ \A k \in DOMAIN Pick(s, S) : \E i \in S : Pick(s, S)[k] = s[i]
<1> DEFINE p == InOrder(S)
           q == Pick(s, S)
<1>1. S \in SUBSET (1..Len(s))
  OBVIOUS
<1>2. /\ q \in Seq(T) /\ DOMAIN q = DOMAIN p
      /\ \A k \in DOMAIN p : p[k] \in S /\ q[k] = s[p[k]]
  BY <1>1, PickFacts
<1> QED
  BY <1>2

---------------------------------------------------------------------------
(* Entries                                                                 *)
LEMMA RecordFacts ==
    ASSUME NEW e \in Records
    PROVE  /\ e.kind \in {"run", "answer"} /\ e.turn \in Nat
           /\ e.kind = "run" => /\ e.bp \in Blueprints /\ e.run \in Runs
                                /\ e.slots \in Slots \cup {0} /\ e.kept \in BOOLEAN
           /\ e.kind = "answer" => /\ e.ok \in BOOLEAN /\ e.args \in Seq(Items) /\ e.top \in Items
                                   /\ e.provs \in Seq({"open", "hidden"})
BY DEF Records

LEMMA RunFacts ==
    /\ \A r \in Runs : /\ r.sql \in Blueprints \X Slots /\ r.sql \in Texts /\ r.sql # NoText
                       /\ r.badge \in {"passed", "empty"} /\ r.slots \in Slots \cup {0} /\ r # NoRun
    /\ NoRun.sql = NoText /\ NoRun.badge = "none" /\ NoRun.slots = 0
    /\ NoText \notin Texts
<1>1. \A t \in Blueprints \X Slots : t # <<"none", 0>>
  BY TablesAssumption
<1>2. \A q \in Queries : <<"sql", q>> # <<"none", 0>>
  OBVIOUS
<1> QED
  BY <1>1, <1>2 DEF Runs, NoRun, NoText, Texts

LEMMA MapFacts ==
    ASSUME NEW runs \in RunMaps, NEW g \in Blueprints
    PROVE  /\ runs[g] = NoRun <=> runs[g].sql = NoText
           /\ runs[g] = NoRun \/ runs[g] \in Runs
BY RunFacts DEF RunMaps

---------------------------------------------------------------------------
(* Designation                                                             *)
Resolvable == [sql : Texts \cup {NoText}, bp : Blueprints \cup {"none"},
               named : Blueprints \cup {"none"}]

(* Two runs a designation cannot tell apart.                               *)
Same(x, y) == x.sql = y.sql /\ x.badge = y.badge

(* An item that is a query, or names a blueprint that ran alike.           *)
Agrees(item, runs, others) ==
    item.sql = NoText /\ item.bp # "none" => Same(runs[item.bp], others[item.bp])

LEMMA CandidatesIn ==
    ASSUME NEW args \in Seq(Items), NEW top \in Items
    PROVE  /\ Candidates(args, top) \in Seq(Items)
           /\ \A k \in DOMAIN Candidates(args, top) :
                \/ \E i \in DOMAIN args : Candidates(args, top)[k] = args[i]
                \/ Candidates(args, top)[k] = top
<1> DEFINE S == {i \in DOMAIN args : Designating(args[i])}
           q == Pick(args, S)
<1>1. S \in SUBSET (DOMAIN args)
  OBVIOUS
<1> HIDE DEF S
<1>2. q \in Seq(Items) /\ \A k \in DOMAIN q : \E i \in DOMAIN args : q[k] = args[i]
  BY <1>1, PickedIn
<1>3. Candidates(args, top) = IF q # <<>> THEN q ELSE IF Designating(top) THEN <<top>> ELSE <<>>
  BY DEF Candidates, S
<1> HIDE DEF q
<1>4. CASE q # <<>>
  BY <1>2, <1>3, <1>4
<1>5. CASE q = <<>> /\ Designating(top)
  BY <1>3, <1>5
<1>6. CASE q = <<>> /\ ~Designating(top)
  BY <1>3, <1>6
<1> QED
  BY <1>4, <1>5, <1>6

LEMMA ResolveIn ==
    ASSUME NEW item \in Items, NEW runs \in RunMaps
    PROVE  /\ Resolve(item, runs) \in Resolvable
           /\ Resolve(item, runs).bp # "none" =>
                /\ Resolve(item, runs).bp = item.bp /\ item.sql = NoText
                /\ Resolve(item, runs).sql = runs[item.bp].sql
           /\ \A others \in RunMaps :
                Agrees(item, runs, others) => Resolve(item, runs) = Resolve(item, others)
<1>1. item.bp \in Blueprints \cup {"none"} /\ item.sql \in Texts \cup {NoText}
  BY DEF Items, NoText, Texts
<1>2. CASE item.sql # NoText
  BY <1>1, <1>2 DEF Resolve, Resolvable
<1>3. CASE item.sql = NoText /\ item.bp = "none"
  BY <1>1, <1>3, RunFacts DEF Resolve, Resolvable
<1>4. CASE item.sql = NoText /\ item.bp # "none"
  <2>1. /\ item.bp \in Blueprints
        /\ runs[item.bp].sql \in Texts \cup {NoText}
        /\ \A others \in RunMaps : /\ runs[item.bp] = NoRun <=> runs[item.bp].sql = NoText
                                   /\ others[item.bp] = NoRun <=> others[item.bp].sql = NoText
    BY <1>1, <1>4, MapFacts, RunFacts
  <2> QED
    BY <1>4, <2>1 DEF Resolve, Resolvable, Agrees, Same
<1> QED
  BY <1>2, <1>3, <1>4

LEMMA ResolveAllIn ==
    ASSUME NEW args \in Seq(Items), NEW top \in Items, NEW runs \in RunMaps
    PROVE  /\ ResolveAll(args, top, runs) \in Seq(Resolvable)
           /\ DOMAIN ResolveAll(args, top, runs) = DOMAIN Candidates(args, top)
           /\ \A k \in DOMAIN Candidates(args, top) :
                ResolveAll(args, top, runs)[k] = Resolve(Candidates(args, top)[k], runs)
<1> DEFINE items == Candidates(args, top)
<1>1. items \in Seq(Items)
  BY CandidatesIn
<1>2. ResolveAll(args, top, runs) = [i \in DOMAIN items |-> Resolve(items[i], runs)]
  BY DEF ResolveAll
<1> HIDE DEF items
<1>3. \A i \in DOMAIN items : items[i] \in Items /\ Resolve(items[i], runs) \in Resolvable
  BY <1>1, ResolveIn
<1>4. DOMAIN items = 1..Len(items) /\ Len(items) \in Nat
  BY <1>1
<1>5. [i \in DOMAIN items |-> Resolve(items[i], runs)] \in Seq(Resolvable)
  BY <1>3, <1>4
<1> QED
  BY <1>2, <1>5 DEF items

LEMMA FinalizeIn ==
    ASSUME NEW items \in Seq(Resolvable)
    PROVE  /\ Finalize(items) \in Seq(Resolvable)
           /\ \A k \in DOMAIN Finalize(items) :
                \E i \in DOMAIN items : Finalize(items)[k] = items[i] /\ items[i].sql # NoText
<1> DEFINE Fresh(i) == /\ items[i].sql # NoText
                       /\ \A j \in 1..(i - 1) : items[j].sql # items[i].sql
           S == {i \in DOMAIN items : Fresh(i)}
           q == Pick(items, S)
           n == IF Len(q) > MAX_ANSWER_TABLES THEN MAX_ANSWER_TABLES ELSE Len(q)
<1>1. S \in SUBSET (DOMAIN items) /\ \A i \in S : items[i].sql # NoText
  OBVIOUS
<1>2. Finalize(items) = [k \in 1..n |-> q[k]]
  BY DEF Finalize
<1> HIDE DEF S
<1>3. q \in Seq(Resolvable) /\ \A k \in DOMAIN q : \E i \in S : q[k] = items[i]
  BY <1>1, PickedIn
<1> HIDE DEF q
<1>4. Len(q) \in Nat /\ DOMAIN q = 1..Len(q)
  BY <1>3
<1>5. n \in Nat /\ \A k \in 1..n : k \in DOMAIN q
  BY <1>4, TablesAssumption
<1> HIDE DEF n
<1>6. \A k \in 1..n : q[k] \in Resolvable
  BY <1>3, <1>4, <1>5
<1>7. [k \in 1..n |-> q[k]] \in Seq(Resolvable)
  BY <1>5, <1>6
<1>8. \A k \in 1..n : \E i \in DOMAIN items : q[k] = items[i] /\ items[i].sql # NoText
  BY <1>1, <1>3, <1>5
<1> QED
  BY <1>2, <1>5, <1>7, <1>8

(* What a designation, and a badge, is made of.                            *)
LEMMA FinalIn ==
    ASSUME NEW args \in Seq(Items), NEW top \in Items, NEW runs \in RunMaps,
           NEW f, f = Finalize(ResolveAll(args, top, runs))
    PROVE  /\ f \in Seq(Resolvable)
           /\ \A k \in DOMAIN f :
                \E i \in DOMAIN Candidates(args, top) :
                    /\ f[k] = Resolve(Candidates(args, top)[i], runs)
                    /\ f[k].sql # NoText /\ f[k].sql \in Texts
           /\ \A k \in DOMAIN f : f[k].bp # "none" =>
                /\ f[k].bp \in Blueprints /\ f[k].sql = runs[f[k].bp].sql
                /\ runs[f[k].bp] \in Runs
<1> DEFINE items == ResolveAll(args, top, runs)
           c == Candidates(args, top)
<1>1. items \in Seq(Resolvable) /\ DOMAIN items = DOMAIN c
      /\ \A i \in DOMAIN c : items[i] = Resolve(c[i], runs)
  BY ResolveAllIn
<1>2. c \in Seq(Items)
  BY CandidatesIn
<1> HIDE DEF items
<1>3. f \in Seq(Resolvable) /\ \A k \in DOMAIN f : \E i \in DOMAIN items : f[k] = items[i] /\ items[i].sql # NoText
  BY <1>1, FinalizeIn DEF items
<1> HIDE DEF c
<1>4. ASSUME NEW k \in DOMAIN f
      PROVE  /\ \E i \in DOMAIN c : f[k] = Resolve(c[i], runs) /\ f[k].sql # NoText /\ f[k].sql \in Texts
             /\ f[k].bp # "none" => /\ f[k].bp \in Blueprints /\ f[k].sql = runs[f[k].bp].sql
                                    /\ runs[f[k].bp] \in Runs
  <2>1. PICK i \in DOMAIN c : f[k] = Resolve(c[i], runs) /\ f[k].sql # NoText
    BY <1>1, <1>3
  <2>2. c[i] \in Items
    BY <1>2
  <2>3. f[k] \in Resolvable
    BY <1>3
  <2>4. f[k].sql \in Texts /\ f[k].bp \in Blueprints \cup {"none"}
    BY <2>1, <2>3 DEF Resolvable
  <2>5. f[k].bp # "none" => f[k].sql = runs[f[k].bp].sql
    BY <2>1, <2>2, ResolveIn
  <2>6. f[k].bp # "none" => runs[f[k].bp] \in Runs
    BY <2>1, <2>4, <2>5, MapFacts
  <2> QED
    BY <2>1, <2>4, <2>5, <2>6
<1> QED
  BY <1>3, <1>4 DEF c

(* Runs that agree on what a call names resolve it alike.                  *)
LEMMA ResolvedAlike ==
    ASSUME NEW args \in Seq(Items), NEW top \in Items, NEW runs \in RunMaps, NEW others \in RunMaps,
           \A k \in DOMAIN Candidates(args, top) : Agrees(Candidates(args, top)[k], runs, others)
    PROVE  /\ ResolveAll(args, top, runs) = ResolveAll(args, top, others)
           /\ \A k \in DOMAIN Finalize(ResolveAll(args, top, runs)) :
                Finalize(ResolveAll(args, top, runs))[k].bp # "none" =>
                    Same(runs[Finalize(ResolveAll(args, top, runs))[k].bp],
                         others[Finalize(ResolveAll(args, top, runs))[k].bp])
<1> DEFINE c == Candidates(args, top)
           f == Finalize(ResolveAll(args, top, runs))
<1>1. c \in Seq(Items)
  BY CandidatesIn
<1>2. \A i \in DOMAIN c : Agrees(c[i], runs, others)
  OBVIOUS
<1>3. /\ ResolveAll(args, top, runs) = [i \in DOMAIN c |-> Resolve(c[i], runs)]
      /\ ResolveAll(args, top, others) = [i \in DOMAIN c |-> Resolve(c[i], others)]
  BY DEF ResolveAll
<1>4. \A k \in DOMAIN f : \E i \in DOMAIN c : f[k] = Resolve(c[i], runs)
  BY FinalIn
<1> HIDE DEF c, f
<1>5. \A i \in DOMAIN c : c[i] \in Items
  BY <1>1
<1>6. \A i \in DOMAIN c : Resolve(c[i], runs) = Resolve(c[i], others)
  BY <1>2, <1>5, ResolveIn
<1>7. ASSUME NEW k \in DOMAIN f, f[k].bp # "none" PROVE Same(runs[f[k].bp], others[f[k].bp])
  <2>1. PICK i \in DOMAIN c : f[k] = Resolve(c[i], runs)
    BY <1>4
  <2>2. f[k].bp = c[i].bp /\ c[i].sql = NoText
    BY <1>5, <1>7, <2>1, ResolveIn
  <2> QED
    BY <1>2, <1>7, <2>2 DEF Agrees
<1>8. ResolveAll(args, top, runs) = ResolveAll(args, top, others)
  BY <1>3, <1>6
<1> QED
  BY <1>7, <1>8 DEF f

(* A table without its provenance.                                         *)
Marked(f, runs) ==
    [k \in DOMAIN f |->
        [sql |-> f[k].sql, bp |-> f[k].bp,
         badge |-> IF f[k].bp = "none" THEN "none" ELSE runs[f[k].bp].badge]]

Provs == {"open", "hidden", "none"}

(* A table has the badge of the run it shows, or none.                     *)
LEMMA EnrichIn ==
    ASSUME NEW args \in Seq(Items), NEW top \in Items, NEW runs \in RunMaps,
           NEW f, f = Finalize(ResolveAll(args, top, runs)), NEW k \in DOMAIN f, NEW p \in Provs
    PROVE  /\ Enrich(f[k], runs, p) \in Tables /\ Enrich(f[k], runs, p).prov = p
           /\ Enrich(f[k], runs, p).badge # "none" =>
                /\ f[k].bp \in Blueprints /\ Enrich(f[k], runs, p).bp = f[k].bp /\ runs[f[k].bp] # NoRun
                /\ Enrich(f[k], runs, p).sql = runs[f[k].bp].sql
                /\ Enrich(f[k], runs, p).badge = runs[f[k].bp].badge
           /\ [sql |-> Enrich(f[k], runs, p).sql, bp |-> Enrich(f[k], runs, p).bp,
               badge |-> Enrich(f[k], runs, p).badge] = Marked(f, runs)[k]
<1>1. f[k].sql \in Texts /\ f[k].bp \in Blueprints \cup {"none"}
  <2>1. f \in Seq(Resolvable) /\ f[k].sql \in Texts
    BY FinalIn
  <2>2. f[k] \in Resolvable
    BY <2>1
  <2> QED
    BY <2>1, <2>2 DEF Resolvable
<1>2. CASE f[k].bp = "none"
  BY <1>1, <1>2, RunFacts DEF Enrich, Table, Tables, Badges, Provs, Marked
<1>3. CASE f[k].bp # "none"
  <2>1. /\ f[k].bp \in Blueprints /\ f[k].sql = runs[f[k].bp].sql /\ runs[f[k].bp] \in Runs
    BY <1>3, FinalIn
  <2>2. /\ runs[f[k].bp].badge \in {"passed", "empty"} /\ runs[f[k].bp].slots \in Slots \cup {0}
        /\ runs[f[k].bp] # NoRun
    BY <2>1, RunFacts
  <2> QED
    BY <1>1, <1>3, <2>1, <2>2 DEF Enrich, Table, Tables, Badges, Provs, Marked
<1> QED
  BY <1>2, <1>3

---------------------------------------------------------------------------
(* Rebuilding                                                              *)

(* The trail holds the run whose badge a map or a table shows.             *)
Holds(d, g, sql, badge) ==
    \E i \in DOMAIN d : /\ d[i].kind = "run" /\ d[i].bp = g
                        /\ d[i].run.sql = sql /\ d[i].run.badge = badge

Backs(d, runs) ==
    \A g \in Blueprints : runs[g] # NoRun => Holds(d, g, runs[g].sql, runs[g].badge)

LEMMA RunsInFacts ==
    ASSUME NEW d \in Seq(Records), NEW turns
    PROVE  /\ RunsIn(d, turns) \in RunMaps
           /\ \A g \in Blueprints :
                \/ RunsOf(d, g, turns) = {} /\ RunsIn(d, turns)[g] = NoRun
                \/ \E i \in RunsOf(d, g, turns) :
                      /\ \A j \in RunsOf(d, g, turns) : i >= j
                      /\ RunsIn(d, turns)[g] = [d[i].run EXCEPT !.slots = d[i].slots]
                      /\ RunsIn(d, turns)[g] \in Runs
                      /\ Same(RunsIn(d, turns)[g], d[i].run)
           /\ Backs(d, RunsIn(d, turns))
<1> DEFINE R == RunsIn(d, turns)
<1>1. ASSUME NEW g \in Blueprints
      PROVE  \/ RunsOf(d, g, turns) = {} /\ R[g] = NoRun
             \/ \E i \in RunsOf(d, g, turns) :
                   /\ \A j \in RunsOf(d, g, turns) : i >= j
                   /\ R[g] = [d[i].run EXCEPT !.slots = d[i].slots]
                   /\ R[g] \in Runs /\ Same(R[g], d[i].run)
                   /\ Holds(d, g, R[g].sql, R[g].badge)
  <2> DEFINE ids == RunsOf(d, g, turns)
             m == CHOOSE i \in ids : \A j \in ids : i >= j
  <2>1. R[g] = IF ids = {} THEN NoRun ELSE [d[m].run EXCEPT !.slots = d[m].slots]
    BY DEF RunsIn
  <2>2. ids \in SUBSET (1..Len(d)) /\ Len(d) \in Nat
        /\ \A i \in ids : i \in DOMAIN d /\ d[i].kind = "run" /\ d[i].bp = g
    BY DEF RunsOf
  <2>3. CASE ids = {}
    BY <2>1, <2>3
  <2>4. CASE ids # {}
    <3>1. \E i \in ids : \A j \in ids : i >= j
      <4> HIDE DEF ids
      <4> DEFINE n == Len(d)
      <4>1. n \in Nat /\ ids \in SUBSET (1..n)
        BY <2>2
      <4> HIDE DEF n
      <4> QED
        BY <2>4, <4>1, LastNumber
    <3>2. m \in ids /\ \A j \in ids : m >= j
      <4> HIDE DEF ids
      <4> QED
        BY <3>1
    <3>3. d[m] \in Records /\ d[m].kind = "run" /\ d[m].bp = g /\ m \in DOMAIN d
      BY <2>2, <3>2
    <3>4. d[m].run \in Runs /\ d[m].slots \in Slots \cup {0}
      BY <3>3, RecordFacts
    <3> DEFINE r == [d[m].run EXCEPT !.slots = d[m].slots]
    <3>5. R[g] = r
      BY <2>1, <2>4
    <3> HIDE DEF m, ids, R
    <3>6. r \in Runs /\ r.sql = d[m].run.sql /\ r.badge = d[m].run.badge
      BY <3>4 DEF Runs
    <3>7. Holds(d, g, R[g].sql, R[g].badge)
      BY <3>3, <3>5, <3>6 DEF Holds
    <3>8. R[g] \in Runs /\ Same(R[g], d[m].run)
      BY <3>5, <3>6 DEF Same
    <3>9. \E i \in ids :
             /\ \A j \in ids : i >= j
             /\ R[g] = [d[i].run EXCEPT !.slots = d[i].slots]
             /\ R[g] \in Runs /\ Same(R[g], d[i].run)
             /\ Holds(d, g, R[g].sql, R[g].badge)
      BY <3>2, <3>5, <3>7, <3>8
    <3> QED
      BY <3>9 DEF ids
  <2> QED
    BY <2>3, <2>4
<1>2. R = [g \in Blueprints |-> R[g]]
  BY DEF RunsIn
<1> HIDE DEF R
<1>3. \A g \in Blueprints : R[g] \in Runs \cup {NoRun}
  BY <1>1
<1>4. R \in RunMaps
  BY <1>2, <1>3 DEF RunMaps
<1>5. Backs(d, R)
  BY <1>1 DEF Backs
<1> QED
  BY <1>1, <1>4, <1>5 DEF R

(* The answers of a turn that were taken.                                  *)
Taken(d, t) == {i \in DOMAIN d : d[i].kind = "answer" /\ d[i].ok /\ d[i].turn = t}

Final(d, i, runs) == Finalize(ResolveAll(d[i].args, d[i].top, runs))

LEMMA LastFacts ==
    ASSUME NEW d \in Seq(Records), NEW t, NEW runs
    PROVE  \/ /\ LastDesignation(d, t, runs) = 0
              /\ \A i \in Taken(d, t) : Final(d, i, runs) = <<>>
           \/ /\ LastDesignation(d, t, runs) \in Taken(d, t)
              /\ Final(d, LastDesignation(d, t, runs), runs) # <<>>
              /\ \A i \in Taken(d, t) : Final(d, i, runs) # <<>> => LastDesignation(d, t, runs) >= i
<1> DEFINE ids == {i \in DOMAIN d : /\ d[i].kind = "answer" /\ d[i].ok /\ d[i].turn = t
                                     /\ Finalize(ResolveAll(d[i].args, d[i].top, runs)) # <<>>}
           m == CHOOSE i \in ids : \A j \in ids : i >= j
           n == Len(d)
<1>1. LastDesignation(d, t, runs) = IF ids = {} THEN 0 ELSE m
  BY DEF LastDesignation
<1>2. n \in Nat /\ ids \in SUBSET (1..n)
  OBVIOUS
<1>3. \A i \in ids : i \in Taken(d, t) /\ Final(d, i, runs) # <<>>
  BY DEF Taken, Final
<1>4. \A i \in Taken(d, t) : Final(d, i, runs) # <<>> => i \in ids
  BY DEF Taken, Final
<1> HIDE DEF ids, n
<1>5. CASE ids = {}
  BY <1>1, <1>4, <1>5
<1>6. CASE ids # {}
  <2>1. \E i \in ids : \A j \in ids : i >= j
    BY <1>2, <1>6, LastNumber
  <2>2. m \in ids /\ \A j \in ids : m >= j
    BY <2>1
  <2> QED
    BY <1>1, <1>3, <1>4, <1>6, <2>2
<1> QED
  BY <1>5, <1>6

(* The tables of a designation.                                            *)
LEMMA SpreadIn ==
    ASSUME NEW args \in Seq(Items), NEW top \in Items, NEW runs \in RunMaps,
           NEW f, f = Finalize(ResolveAll(args, top, runs)), NEW p, \A k \in DOMAIN f : p[k] \in Provs,
           NEW v, v = [k \in DOMAIN f |-> Enrich(f[k], runs, p[k])],
           NEW d, Backs(d, runs)
    PROVE  /\ v \in Seq(Tables) /\ DOMAIN v = DOMAIN f /\ Plain(v) = Marked(f, runs)
           /\ \A k \in DOMAIN v : v[k].badge # "none" => Holds(d, v[k].bp, v[k].sql, v[k].badge)
           /\ \A k \in DOMAIN v : v[k].prov = p[k]
<1>1. f \in Seq(Resolvable)
  BY FinalIn
<1>2. ASSUME NEW k \in DOMAIN f
      PROVE  /\ v[k] \in Tables /\ v[k].prov = p[k]
             /\ v[k].badge # "none" => Holds(d, v[k].bp, v[k].sql, v[k].badge)
             /\ [sql |-> v[k].sql, bp |-> v[k].bp, badge |-> v[k].badge] = Marked(f, runs)[k]
  <2> DEFINE q == p[k]
  <2>1. v[k] = Enrich(f[k], runs, q) /\ q \in Provs
    OBVIOUS
  <2> HIDE DEF q
  <2>2. /\ Enrich(f[k], runs, q) \in Tables /\ Enrich(f[k], runs, q).prov = q
        /\ Enrich(f[k], runs, q).badge # "none" =>
             /\ f[k].bp \in Blueprints /\ Enrich(f[k], runs, q).bp = f[k].bp /\ runs[f[k].bp] # NoRun
             /\ Enrich(f[k], runs, q).sql = runs[f[k].bp].sql
             /\ Enrich(f[k], runs, q).badge = runs[f[k].bp].badge
        /\ [sql |-> Enrich(f[k], runs, q).sql, bp |-> Enrich(f[k], runs, q).bp,
            badge |-> Enrich(f[k], runs, q).badge] = Marked(f, runs)[k]
    BY <2>1, EnrichIn
  <2> QED
    BY <2>1, <2>2 DEF Backs, q
<1>3. DOMAIN v = DOMAIN f /\ DOMAIN f = 1..Len(f) /\ Len(f) \in Nat
  BY <1>1
<1>4. v \in Seq(Tables)
  <2> DEFINE n == Len(f)
  <2>1. n \in Nat /\ v = [k \in 1..n |-> Enrich(f[k], runs, p[k])] /\ \A k \in 1..n : v[k] \in Tables
    BY <1>2, <1>3
  <2> HIDE DEF n
  <2>2. v \in [1..n -> Tables]
    BY <2>1
  <2> QED
    BY <2>1, <2>2
<1>5. Plain(v) = Marked(f, runs)
  BY <1>2, <1>3 DEF Plain, Marked
<1> QED
  BY <1>2, <1>3, <1>4, <1>5

(* What a turn's answer is, read off the trail.                            *)
Replay(d, t, turns) ==
    LET runs == RunsIn(d, turns)
        i == LastDesignation(d, t, runs)
    IN  IF i = 0 THEN <<>> ELSE Marked(Final(d, i, runs), runs)

LEMMA TakenFacts ==
    ASSUME NEW d \in Seq(Records), NEW t, NEW i \in Taken(d, t)
    PROVE  /\ i \in DOMAIN d /\ i # 0 /\ d[i] \in Records /\ d[i].kind = "answer" /\ d[i].ok /\ d[i].turn = t
           /\ d[i].args \in Seq(Items) /\ d[i].top \in Items /\ d[i].provs \in Seq({"open", "hidden"})
<1>1. i \in DOMAIN d /\ i # 0 /\ d[i] \in Records /\ d[i].kind = "answer" /\ d[i].ok /\ d[i].turn = t
  BY DEF Taken
<1> QED
  BY <1>1, RecordFacts

LEMMA EmptyPlain == Plain(<<>>) = <<>> /\ <<>> \in Seq(Tables)
BY DEF Plain

LEMMA RebuiltIn ==
    ASSUME NEW d \in Seq(Records), NEW t
    PROVE  /\ Rebuilt(d, t).runs = RunsIn(d, {t})
           /\ Rebuilt(d, t).tables \in Seq(Tables)
           /\ Plain(Rebuilt(d, t).tables) = Replay(d, t, {t})
           /\ \A k \in DOMAIN Rebuilt(d, t).tables :
                Rebuilt(d, t).tables[k].badge # "none" =>
                    Holds(d, Rebuilt(d, t).tables[k].bp, Rebuilt(d, t).tables[k].sql,
                          Rebuilt(d, t).tables[k].badge)
<1> DEFINE runs == RunsIn(d, {t})
           i == LastDesignation(d, t, runs)
           f == Final(d, i, runs)
           p == [k \in DOMAIN f |-> IF k \in DOMAIN d[i].provs THEN d[i].provs[k] ELSE "none"]
           v == [k \in DOMAIN f |-> Enrich(f[k], runs, p[k])]
           w == Rebuilt(d, t).tables
<1>1. Rebuilt(d, t).runs = runs /\ w = IF i = 0 THEN <<>> ELSE v
  BY DEF Rebuilt, Final
<1>2. Replay(d, t, {t}) = IF i = 0 THEN <<>> ELSE Marked(f, runs)
  BY DEF Replay
<1>3. runs \in RunMaps /\ Backs(d, runs)
  BY RunsInFacts
<1>4. CASE i = 0
  BY <1>1, <1>2, <1>4, EmptyPlain
<1>5. CASE i # 0
  <2>1. i \in Taken(d, t)
    BY <1>5, LastFacts
  <2> DEFINE args == d[i].args
             top == d[i].top
  <2>2. args \in Seq(Items) /\ top \in Items /\ d[i].provs \in Seq({"open", "hidden"})
    BY <2>1, TakenFacts
  <2>3. f = Finalize(ResolveAll(args, top, runs))
    BY DEF Final
  <2>4. \A k \in DOMAIN f : p[k] \in Provs
    <3> HIDE DEF f, i
    <3> QED
      BY <2>2 DEF Provs
  <2> HIDE DEF runs, i, f, p, args, top
  <2>5. /\ v \in Seq(Tables) /\ Plain(v) = Marked(f, runs)
        /\ \A k \in DOMAIN v : v[k].badge # "none" => Holds(d, v[k].bp, v[k].sql, v[k].badge)
    BY <1>3, <2>2, <2>3, <2>4, SpreadIn
  <2> QED
    BY <1>1, <1>2, <1>5, <2>5 DEF runs
<1> QED
  BY <1>4, <1>5

LEMMA VisibleIn ==
    ASSUME NEW v \in Seq(Tables)
    PROVE  /\ Visible(v) \in Seq(Tables)
           /\ \A k \in DOMAIN Visible(v) : \E i \in DOMAIN v : Visible(v)[k] = v[i]
           /\ (\A k \in DOMAIN v : v[k].prov # "hidden") => Visible(v) = v
<1> DEFINE S == {k \in DOMAIN v : InTableScope(v[k].prov, narrow)}
<1>1. S \in SUBSET (DOMAIN v) /\ Visible(v) = Pick(v, S)
  BY DEF Visible
<1>2. (\A k \in DOMAIN v : v[k].prov # "hidden") => S = DOMAIN v
  BY DEF InTableScope
<1> HIDE DEF S
<1>3. Pick(v, S) \in Seq(Tables) /\ \A k \in DOMAIN Pick(v, S) : \E i \in S : Pick(v, S)[k] = v[i]
  BY <1>1, PickedIn
<1>4. S = DOMAIN v => Pick(v, S) = v
  BY PickAll
<1> QED
  BY <1>1, <1>2, <1>3, <1>4

(* Nothing of an answer is out of any scope.                               *)
AllOpen(e) == \A k \in DOMAIN e.provs : e.provs[k] = "open"

LEMMA HistoryIn ==
    ASSUME NEW d \in Seq(Records), NEW t
    PROVE  /\ \A k \in DOMAIN History(d, t) :
                History(d, t)[k].badge # "none" =>
                    Holds(d, History(d, t)[k].bp, History(d, t)[k].sql, History(d, t)[k].badge)
           /\ (\A i \in Taken(d, t) : AllOpen(d[i])) =>
                Plain(History(d, t)) = Replay(d, t, 0..MaxQuestions)
<1> DEFINE runs == RunsIn(d, 0..MaxQuestions)
           i == LastDesignation(d, t, runs)
           f == Final(d, i, runs)
           p == [k \in DOMAIN f |-> IF Len(d[i].provs) = Len(f) THEN d[i].provs[k] ELSE "none"]
           v == [k \in DOMAIN f |-> Enrich(f[k], runs, p[k])]
<1>1. History(d, t) = IF i = 0 THEN <<>> ELSE Visible(v)
  BY DEF History, Final
<1>2. Replay(d, t, 0..MaxQuestions) = IF i = 0 THEN <<>> ELSE Marked(f, runs)
  BY DEF Replay
<1>3. runs \in RunMaps /\ Backs(d, runs)
  BY RunsInFacts
<1>4. CASE i = 0
  BY <1>1, <1>2, <1>4, EmptyPlain
<1>5. CASE i # 0
  <2>1. i \in Taken(d, t)
    BY <1>5, LastFacts
  <2> DEFINE args == d[i].args
             top == d[i].top
  <2>2. args \in Seq(Items) /\ top \in Items /\ d[i].provs \in Seq({"open", "hidden"})
    BY <2>1, TakenFacts
  <2>3. f = Finalize(ResolveAll(args, top, runs))
    BY DEF Final
  <2>4. f \in Seq(Resolvable)
    <3> HIDE DEF runs, i, f, args, top
    <3> QED
      BY <1>3, <2>2, <2>3, FinalIn
  <2>5. \A k \in DOMAIN f : /\ p[k] \in Provs
                            /\ AllOpen(d[i]) => p[k] # "hidden"
    <3> HIDE DEF f, i
    <3>1. \A k \in DOMAIN f : Len(d[i].provs) = Len(f) => k \in DOMAIN d[i].provs
      BY <2>2, <2>4
    <3> QED
      BY <2>2, <3>1 DEF Provs, AllOpen
  <2> HIDE DEF runs, i, f, p, args, top
  <2>6. /\ v \in Seq(Tables) /\ Plain(v) = Marked(f, runs) /\ DOMAIN v = DOMAIN f
        /\ \A k \in DOMAIN v : v[k].badge # "none" => Holds(d, v[k].bp, v[k].sql, v[k].badge)
        /\ \A k \in DOMAIN v : v[k].prov = p[k]
    BY <1>3, <2>2, <2>3, <2>5, SpreadIn
  <2> HIDE DEF v
  <2>7. /\ \A k \in DOMAIN Visible(v) : \E j \in DOMAIN v : Visible(v)[k] = v[j]
        /\ AllOpen(d[i]) => Visible(v) = v
    BY <2>5, <2>6, VisibleIn
  <2> QED
    BY <1>1, <1>2, <1>5, <2>1, <2>6, <2>7
<1> QED
  BY <1>4, <1>5

Open(args, top) ==
    (\A k \in DOMAIN args : ProvOf(args[k].sql) = "open") /\ ProvOf(top.sql) = "open"

LEMMA LiveIn ==
    ASSUME NEW args \in Seq(Items), NEW top \in Items, NEW runs \in RunMaps, NEW d, Backs(d, runs)
    PROVE  /\ LiveTables(args, top, runs) \in Seq(Tables)
           /\ \A k \in DOMAIN LiveTables(args, top, runs) :
                /\ LiveTables(args, top, runs)[k].prov \in {"open", "hidden"}
                /\ LiveTables(args, top, runs)[k].badge # "none" =>
                     Holds(d, LiveTables(args, top, runs)[k].bp, LiveTables(args, top, runs)[k].sql,
                           LiveTables(args, top, runs)[k].badge)
           /\ Open(args, top) =>
                /\ \A k \in DOMAIN LiveTables(args, top, runs) :
                     LiveTables(args, top, runs)[k].prov = "open"
                /\ Plain(LiveTables(args, top, runs)) =
                     Marked(Finalize(ResolveAll(args, top, runs)), runs)
<1> DEFINE f == Finalize(ResolveAll(args, top, runs))
           p == [k \in DOMAIN f |-> ProvOf(f[k].sql)]
           v == [k \in DOMAIN f |-> Enrich(f[k], runs, p[k])]
           c == Candidates(args, top)
<1>1. LiveTables(args, top, runs) = Visible(v)
  BY DEF LiveTables
<1>2. /\ f \in Seq(Resolvable)
      /\ \A k \in DOMAIN f : \E i \in DOMAIN c : f[k] = Resolve(c[i], runs) /\ f[k].sql # NoText
      /\ \A k \in DOMAIN f : f[k].bp # "none" => f[k].sql = runs[f[k].bp].sql /\ runs[f[k].bp] \in Runs
  BY FinalIn
<1>3. /\ c \in Seq(Items)
      /\ \A k \in DOMAIN c : (\E i \in DOMAIN args : c[k] = args[i]) \/ c[k] = top
  BY CandidatesIn
<1>4. ASSUME Open(args, top), NEW k \in DOMAIN f PROVE p[k] = "open"
  <2>1. CASE f[k].bp # "none"
    <3>1. f[k].sql \in Blueprints \X Slots
      BY <1>2, <2>1, RunFacts
    <3>2. \A q \in HiddenQueries : f[k].sql # <<"sql", q>>
      BY <3>1, TablesAssumption
    <3> QED
      BY <3>2 DEF ProvOf
  <2>2. CASE f[k].bp = "none"
    <3>1. PICK i \in DOMAIN c : f[k] = Resolve(c[i], runs) /\ f[k].sql # NoText
      BY <1>2
    <3> HIDE DEF c, f
    <3>2. c[i] \in Items
      BY <1>3
    <3>3. f[k].sql = c[i].sql
      <4>1. c[i].bp \in Blueprints \cup {"none"}
        BY <3>2 DEF Items
      <4>2. c[i].bp # "none" => (runs[c[i].bp] = NoRun <=> runs[c[i].bp].sql = NoText)
        BY <4>1, MapFacts
      <4> QED
        BY <2>2, <3>1, <4>2, RunFacts DEF Resolve
    <3>4. ProvOf(c[i].sql) = "open"
      BY <1>3, <1>4 DEF Open
    <3> QED
      BY <3>3, <3>4
  <2> QED
    BY <2>1, <2>2
<1>5. \A k \in DOMAIN f : p[k] \in {"open", "hidden"}
  BY DEF ProvOf
<1> HIDE DEF p, f
<1>6. /\ v \in Seq(Tables) /\ Plain(v) = Marked(f, runs) /\ DOMAIN v = DOMAIN f
      /\ \A k \in DOMAIN v : v[k].badge # "none" => Holds(d, v[k].bp, v[k].sql, v[k].badge)
      /\ \A k \in DOMAIN v : v[k].prov = p[k]
  <2>1. \A k \in DOMAIN f : p[k] \in Provs
    BY <1>5 DEF Provs
  <2>2. f = Finalize(ResolveAll(args, top, runs))
    BY DEF f
  <2> QED
    BY <2>1, <2>2, SpreadIn
<1> HIDE DEF v
<1>7. /\ Visible(v) \in Seq(Tables)
      /\ \A k \in DOMAIN Visible(v) : \E j \in DOMAIN v : Visible(v)[k] = v[j]
      /\ (\A k \in DOMAIN v : v[k].prov # "hidden") => Visible(v) = v
  BY <1>6, VisibleIn
<1>8. Open(args, top) => Visible(v) = v /\ \A k \in DOMAIN v : v[k].prov = "open"
  BY <1>4, <1>6, <1>7
<1>9. \A k \in DOMAIN Visible(v) :
        /\ Visible(v)[k].prov \in {"open", "hidden"}
        /\ Visible(v)[k].badge # "none" =>
             Holds(d, Visible(v)[k].bp, Visible(v)[k].sql, Visible(v)[k].badge)
  BY <1>5, <1>6, <1>7
<1> QED
  BY <1>1, <1>6, <1>7, <1>8, <1>9 DEF f

---------------------------------------------------------------------------
(* One story                                                               *)
(* What an answer took had run in its turn.                                *)
RunBefore(d, i, g) ==
    \E j \in DOMAIN d : j < i /\ d[j].kind = "run" /\ d[j].bp = g /\ d[j].turn = d[i].turn

Founded(d) ==
    \A i \in DOMAIN d : d[i].kind = "answer" /\ d[i].ok =>
        \A k \in DOMAIN Candidates(d[i].args, d[i].top) :
            \/ Candidates(d[i].args, d[i].top)[k].sql # NoText
            \/ RunBefore(d, i, Candidates(d[i].args, d[i].top)[k].bp)

(* Replayable, of any trail.                                               *)
ReplayableIn(d, turns) ==
    /\ \A i \in DOMAIN d : d[i].kind = "run" /\ d[i].turn \in turns => d[i].kept
    /\ \A i \in DOMAIN d : d[i].kind = "answer" /\ d[i].ok /\ d[i].turn \in turns =>
          /\ Open(d[i].args, d[i].top)
          /\ \A j \in (i + 1)..Len(d) : d[j].kind = "run" => d[j].turn \notin turns

LEMMA ReplayableIs == \A turns : Replayable(turns) <=> ReplayableIn(rec, turns)
BY DEF Replayable, ReplayableIn, Open

LEMMA LastAlike ==
    ASSUME NEW d \in Seq(Records), NEW e \in Seq(Records), NEW t, NEW runs, NEW others,
           Taken(d, t) = Taken(e, t), \A i \in Taken(d, t) : Final(d, i, runs) = Final(e, i, others)
    PROVE  LastDesignation(d, t, runs) = LastDesignation(e, t, others)
<1> DEFINE m == LastDesignation(d, t, runs)
           n == LastDesignation(e, t, others)
<1>1. \/ m = 0 /\ \A i \in Taken(d, t) : Final(d, i, runs) = <<>>
      \/ /\ m \in Taken(d, t) /\ Final(d, m, runs) # <<>>
         /\ \A i \in Taken(d, t) : Final(d, i, runs) # <<>> => m >= i
  BY LastFacts
<1>2. \/ n = 0 /\ \A i \in Taken(e, t) : Final(e, i, others) = <<>>
      \/ /\ n \in Taken(e, t) /\ Final(e, n, others) # <<>>
         /\ \A i \in Taken(e, t) : Final(e, i, others) # <<>> => n >= i
  BY LastFacts
<1>3. \A i \in Taken(d, t) : i \in Int
  BY DEF Taken
<1> HIDE DEF m, n
<1>4. m = n
  BY <1>1, <1>2, <1>3
<1> QED
  BY <1>4 DEF m, n

LEMMA OneStory ==
    ASSUME NEW d \in Seq(Records), NEW N \in Nat, N <= MaxQuestions,
           \A i \in DOMAIN d : d[i].turn \in 0..N,
           Ordered(d), Founded(d), ReplayableIn(d, 0..N), NEW t \in 0..N
    PROVE  Replay(d, t, {t}) = Replay(d, t, 0..MaxQuestions)
<1> DEFINE one == RunsIn(d, {t})
           all == RunsIn(d, 0..MaxQuestions)
<1>1. one \in RunMaps /\ all \in RunMaps
  BY RunsInFacts
<1>2. ASSUME NEW i \in Taken(d, t), NEW g \in Blueprints, RunBefore(d, i, g)
      PROVE  Same(one[g], all[g])
  <2> DEFINE S == RunsOf(d, g, {t})
             T == RunsOf(d, g, 0..MaxQuestions)
  <2>1. i \in DOMAIN d /\ d[i].kind = "answer" /\ d[i].ok /\ d[i].turn = t
    BY TakenFacts
  <2>2. PICK j \in DOMAIN d : j < i /\ d[j].kind = "run" /\ d[j].bp = g /\ d[j].turn = t
    BY <1>2, <2>1 DEF RunBefore
  <2>3. \A k \in DOMAIN d : d[k].kind = "run" => d[k].kept /\ d[k].turn \in 0..MaxQuestions
    <3>1. \A k \in DOMAIN d : d[k].turn \in 0..MaxQuestions
      BY TablesAssumption
    <3> QED
      BY <3>1 DEF ReplayableIn
  <2>4. /\ \A k \in DOMAIN d : k \in T <=> d[k].kind = "run" /\ d[k].bp = g
        /\ \A k \in DOMAIN d : k \in S <=> d[k].kind = "run" /\ d[k].bp = g /\ d[k].turn = t
        /\ S \in SUBSET (DOMAIN d) /\ T \in SUBSET (DOMAIN d)
    BY <2>3 DEF RunsOf
  <2>5. j \in S /\ j \in T
    BY <2>2, <2>4
  <2> HIDE DEF S, T, one, all
  <2>6. PICK m \in S : (\A k \in S : m >= k) /\ Same(one[g], d[m].run)
    BY <2>5, RunsInFacts DEF S, one
  <2>7. PICK n \in T : (\A k \in T : n >= k) /\ Same(all[g], d[n].run)
    BY <2>5, RunsInFacts DEF T, all
  <2>8. n \in DOMAIN d /\ m \in DOMAIN d /\ d[n].kind = "run"
    BY <2>4
  <2>9. ~(n > i)
    <3>1. \A k \in (i + 1)..Len(d) : d[k].kind = "run" => d[k].turn \notin 0..N
      BY <2>1 DEF ReplayableIn
    <3>2. n > i => n \in (i + 1)..Len(d)
      BY <2>1, <2>8
    <3> QED
      BY <2>8, <3>1, <3>2
  <2>10. n # i
    BY <2>1, <2>8
  <2>11. n <= i /\ j <= n
    BY <2>1, <2>5, <2>7, <2>8, <2>9
  <2>12. d[n].turn = t
    <3>1. d[n].turn <= t /\ t <= d[n].turn
      BY <2>1, <2>2, <2>8, <2>11 DEF Ordered
    <3>2. d[n].turn \in Nat
      BY <2>8
    <3> QED
      BY <3>1, <3>2
  <2>13. n \in S /\ m \in T
    BY <2>4, <2>8, <2>12
  <2>14. m = n
    BY <2>6, <2>7, <2>8, <2>13
  <2> QED
    BY <2>6, <2>7, <2>14 DEF Same
<1>3. ASSUME NEW i \in Taken(d, t)
      PROVE  /\ Final(d, i, one) = Final(d, i, all)
             /\ Marked(Final(d, i, one), one) = Marked(Final(d, i, all), all)
  <2> DEFINE args == d[i].args
             top == d[i].top
             c == Candidates(args, top)
             f == Finalize(ResolveAll(args, top, one))
  <2>1. args \in Seq(Items) /\ top \in Items /\ i \in DOMAIN d /\ d[i].kind = "answer" /\ d[i].ok
    BY TakenFacts
  <2>2. \A k \in DOMAIN c : c[k] \in Items /\ (c[k].sql # NoText \/ RunBefore(d, i, c[k].bp))
    <3>1. c \in Seq(Items)
      BY <2>1, CandidatesIn
    <3>2. \A k \in DOMAIN c : c[k].sql # NoText \/ RunBefore(d, i, c[k].bp)
      BY <2>1 DEF Founded
    <3> QED
      BY <3>1, <3>2
  <2> HIDE DEF one, all
  <2>3. \A k \in DOMAIN c : Agrees(c[k], one, all)
    <3> SUFFICES ASSUME NEW k \in DOMAIN c, c[k].sql = NoText, c[k].bp # "none"
                 PROVE  Same(one[c[k].bp], all[c[k].bp])
      BY DEF Agrees
    <3>1. c[k].bp \in Blueprints /\ RunBefore(d, i, c[k].bp)
      BY <2>2 DEF Items
    <3> QED
      BY <1>2, <3>1
  <2> HIDE DEF args, top
  <2>4. /\ ResolveAll(args, top, one) = ResolveAll(args, top, all)
        /\ \A k \in DOMAIN f : f[k].bp # "none" => Same(one[f[k].bp], all[f[k].bp])
    BY <1>1, <2>1, <2>3, ResolvedAlike
  <2>5. Final(d, i, one) = f /\ Final(d, i, all) = f
    BY <2>4 DEF Final, args, top
  <2> HIDE DEF f
  <2>6. Marked(f, one) = Marked(f, all)
    BY <2>4 DEF Marked, Same
  <2> QED
    BY <2>5, <2>6
<1>4. LastDesignation(d, t, one) = LastDesignation(d, t, all)
  <2> HIDE DEF one, all
  <2> QED
    BY <1>3, LastAlike
<1>5. LastDesignation(d, t, one) # 0 => LastDesignation(d, t, one) \in Taken(d, t)
  BY LastFacts
<1> DEFINE m == LastDesignation(d, t, one)
<1>6. m # 0 => Marked(Final(d, m, one), one) = Marked(Final(d, m, all), all)
  <2> HIDE DEF one, all, m
  <2> QED
    BY <1>3, <1>5 DEF m
<1>7. /\ Replay(d, t, {t}) = IF m = 0 THEN <<>> ELSE Marked(Final(d, m, one), one)
      /\ Replay(d, t, 0..MaxQuestions) = IF m = 0 THEN <<>> ELSE Marked(Final(d, m, all), all)
  BY <1>4 DEF Replay
<1> HIDE DEF m, one, all
<1> QED
  BY <1>6, <1>7

---------------------------------------------------------------------------
(* Longer trails                                                           *)
LEMMA LatestRun ==
    ASSUME NEW d \in Seq(Records), NEW T, NEW g \in Blueprints
    PROVE  /\ RunsOf(d, g, T) = {} => RunsIn(d, T)[g] = NoRun
           /\ RunsOf(d, g, T) # {} =>
                \E i \in RunsOf(d, g, T) :
                    /\ \A j \in RunsOf(d, g, T) : i >= j
                    /\ RunsIn(d, T)[g] = [d[i].run EXCEPT !.slots = d[i].slots]
                    /\ Same(RunsIn(d, T)[g], d[i].run)
<1>1. \/ RunsOf(d, g, T) = {} /\ RunsIn(d, T)[g] = NoRun
      \/ \E i \in RunsOf(d, g, T) :
             /\ \A j \in RunsOf(d, g, T) : i >= j
             /\ RunsIn(d, T)[g] = [d[i].run EXCEPT !.slots = d[i].slots]
             /\ RunsIn(d, T)[g] \in Runs
             /\ Same(RunsIn(d, T)[g], d[i].run)
  BY RunsInFacts
<1> QED
  BY <1>1

LEMMA SameRun ==
    ASSUME NEW d \in Seq(Records), NEW e \in Seq(Records), NEW T, NEW g \in Blueprints,
           RunsOf(d, g, T) = RunsOf(e, g, T),
           \A i \in RunsOf(d, g, T) : e[i].run = d[i].run /\ e[i].slots = d[i].slots
    PROVE  RunsIn(d, T)[g] = RunsIn(e, T)[g]
<1>1. CASE RunsOf(d, g, T) = {}
  <2>1. RunsOf(e, g, T) = {}
    BY <1>1
  <2>2. RunsIn(d, T)[g] = NoRun
    BY <1>1, LatestRun
  <2>3. RunsIn(e, T)[g] = NoRun
    BY <2>1, LatestRun
  <2> QED
    BY <2>2, <2>3
<1>2. CASE RunsOf(d, g, T) # {}
  <2>1. PICK i \in RunsOf(d, g, T) :
           /\ \A j \in RunsOf(d, g, T) : i >= j
           /\ RunsIn(d, T)[g] = [d[i].run EXCEPT !.slots = d[i].slots]
    <3>1. \E i \in RunsOf(d, g, T) :
             /\ \A j \in RunsOf(d, g, T) : i >= j
             /\ RunsIn(d, T)[g] = [d[i].run EXCEPT !.slots = d[i].slots]
             /\ Same(RunsIn(d, T)[g], d[i].run)
      BY <1>2, LatestRun
    <3> QED
      BY <3>1
  <2>2. RunsOf(e, g, T) # {}
    BY <1>2
  <2>3. PICK k \in RunsOf(e, g, T) :
           /\ \A j \in RunsOf(e, g, T) : k >= j
           /\ RunsIn(e, T)[g] = [e[k].run EXCEPT !.slots = e[k].slots]
    BY <2>2, LatestRun
  <2>4. i \in Int /\ k \in Int /\ i >= k /\ k >= i
    BY <2>1, <2>3 DEF RunsOf
  <2>5. i = k
    BY <2>4
  <2> QED
    BY <2>1, <2>3, <2>5
<1> QED
  BY <1>1, <1>2

LEMMA SameRuns ==
    ASSUME NEW d \in Seq(Records), NEW e \in Seq(Records), NEW T,
           \A g \in Blueprints : RunsOf(d, g, T) = RunsOf(e, g, T),
           \A g \in Blueprints : \A i \in RunsOf(d, g, T) : e[i].run = d[i].run /\ e[i].slots = d[i].slots
    PROVE  RunsIn(d, T) = RunsIn(e, T)
<1>1. \A g \in Blueprints : RunsIn(d, T)[g] = RunsIn(e, T)[g]
  BY SameRun
<1>2. /\ RunsIn(d, T) = [g \in Blueprints |-> RunsIn(d, T)[g]]
      /\ RunsIn(e, T) = [g \in Blueprints |-> RunsIn(e, T)[g]]
  BY DEF RunsIn
<1> QED
  BY <1>1, <1>2

LEMMA SameReplay ==
    ASSUME NEW d \in Seq(Records), NEW e \in Seq(Records), NEW t, NEW T,
           Taken(d, t) = Taken(e, t),
           \A i \in Taken(d, t) : e[i].args = d[i].args /\ e[i].top = d[i].top,
           RunsIn(d, T) = RunsIn(e, T)
    PROVE  Replay(d, t, T) = Replay(e, t, T)
<1> DEFINE runs == RunsIn(d, T)
           i == LastDesignation(d, t, runs)
<1>1. \A k \in Taken(d, t) : Final(d, k, runs) = Final(e, k, runs)
  BY DEF Final
<1>2. i = LastDesignation(e, t, runs)
  <2> HIDE DEF runs
  <2> QED
    BY <1>1, LastAlike
<1>3. i # 0 => i \in Taken(d, t)
  BY LastFacts
<1>4. /\ Replay(d, t, T) = IF i = 0 THEN <<>> ELSE Marked(Final(d, i, runs), runs)
      /\ Replay(e, t, T) = IF i = 0 THEN <<>> ELSE Marked(Final(e, i, runs), runs)
  BY <1>2 DEF Replay
<1> HIDE DEF runs, i
<1> QED
  BY <1>1, <1>3, <1>4

LEMMA Grown ==
    ASSUME NEW d \in Seq(Records), NEW e \in Records
    PROVE  /\ Append(d, e) \in Seq(Records) /\ Len(d) \in Nat
           /\ DOMAIN d = 1..Len(d) /\ DOMAIN Append(d, e) = 1..(Len(d) + 1)
           /\ Len(Append(d, e)) = Len(d) + 1
           /\ \A i \in DOMAIN d : i \in DOMAIN Append(d, e) /\ Append(d, e)[i] = d[i]
           /\ Append(d, e)[Len(d) + 1] = e /\ Len(d) + 1 \in DOMAIN Append(d, e)
           /\ \A i \in DOMAIN Append(d, e) : i \in DOMAIN d \/ i = Len(d) + 1
OBVIOUS

LEMMA GrownEntries ==
    ASSUME NEW d \in Seq(Records), NEW e \in Records
    PROVE  \A i \in DOMAIN Append(d, e) :
               Append(d, e)[i] = e \/ (i \in DOMAIN d /\ Append(d, e)[i] = d[i])
<1>1. /\ \A i \in DOMAIN d : Append(d, e)[i] = d[i]
      /\ Append(d, e)[Len(d) + 1] = e
      /\ \A i \in DOMAIN Append(d, e) : i \in DOMAIN d \/ i = Len(d) + 1
  BY Grown
<1> QED
  BY <1>1

LEMMA StillHolds ==
    ASSUME NEW d \in Seq(Records), NEW e \in Records, NEW g, NEW sql, NEW badge, Holds(d, g, sql, badge)
    PROVE  Holds(Append(d, e), g, sql, badge)
<1>1. PICK i \in DOMAIN d : d[i].kind = "run" /\ d[i].bp = g /\ d[i].run.sql = sql /\ d[i].run.badge = badge
  BY DEF Holds
<1>2. i \in DOMAIN Append(d, e) /\ Append(d, e)[i] = d[i]
  BY Grown
<1> QED
  BY <1>1, <1>2 DEF Holds

(* A trail that grows in its last turn.                                    *)
LEMMA GrownInOrder ==
    ASSUME NEW d \in Seq(Records), NEW e \in Records, Ordered(d), Founded(d),
           \A i \in DOMAIN d : d[i].turn \in 0..e.turn,
           e.kind = "answer" /\ e.ok =>
               \A k \in DOMAIN Candidates(e.args, e.top) :
                   \/ Candidates(e.args, e.top)[k].sql # NoText
                   \/ \E j \in DOMAIN d : /\ d[j].kind = "run" /\ d[j].turn = e.turn
                                          /\ d[j].bp = Candidates(e.args, e.top)[k].bp
    PROVE  Ordered(Append(d, e)) /\ Founded(Append(d, e))
           /\ \A i \in DOMAIN Append(d, e) : Append(d, e)[i].turn \in 0..e.turn
<1> DEFINE D == Append(d, e)
           n == Len(d)
<1>1. /\ n \in Nat /\ DOMAIN d = 1..n /\ DOMAIN D = 1..(n + 1) /\ D[n + 1] = e
      /\ \A i \in DOMAIN d : D[i] = d[i] /\ i \in DOMAIN D
      /\ \A i \in DOMAIN D : i \in DOMAIN d \/ i = n + 1
  BY Grown
<1>2. e.turn \in Nat
  BY RecordFacts
<1> HIDE DEF D, n
<1>3. \A i \in DOMAIN D : D[i].turn \in 0..e.turn
  BY <1>1, <1>2
<1>4. Ordered(D)
  <2> SUFFICES ASSUME NEW i \in DOMAIN D, NEW j \in DOMAIN D, i <= j PROVE D[i].turn <= D[j].turn
    BY DEF Ordered
  <2>1. CASE j = n + 1
    BY <1>1, <1>2, <1>3, <2>1
  <2>2. CASE j \in DOMAIN d
    <3>1. i \in DOMAIN d
      BY <1>1, <2>2
    <3> QED
      BY <1>1, <2>2, <3>1 DEF Ordered
  <2> QED
    BY <1>1, <2>1, <2>2
<1>5. Founded(D)
  <2>1. ASSUME NEW i \in DOMAIN d, NEW g, RunBefore(d, i, g) PROVE RunBefore(D, i, g)
    BY <1>1, <2>1 DEF RunBefore
  <2> SUFFICES ASSUME NEW i \in DOMAIN D, D[i].kind = "answer", D[i].ok,
                      NEW k \in DOMAIN Candidates(D[i].args, D[i].top)
               PROVE  \/ Candidates(D[i].args, D[i].top)[k].sql # NoText
                      \/ RunBefore(D, i, Candidates(D[i].args, D[i].top)[k].bp)
    BY DEF Founded
  <2>2. CASE i \in DOMAIN d
    <3>1. D[i] = d[i]
      BY <1>1, <2>2
    <3>2. \/ Candidates(d[i].args, d[i].top)[k].sql # NoText
          \/ RunBefore(d, i, Candidates(d[i].args, d[i].top)[k].bp)
      BY <2>2, <3>1 DEF Founded
    <3> QED
      BY <2>1, <2>2, <3>1, <3>2
  <2>3. CASE i = n + 1
    <3>1. D[i] = e
      BY <1>1, <2>3
    <3>2. SUFFICES ASSUME Candidates(e.args, e.top)[k].sql = NoText
                   PROVE  RunBefore(D, i, Candidates(e.args, e.top)[k].bp)
      BY <3>1
    <3>3. PICK j \in DOMAIN d : /\ d[j].kind = "run" /\ d[j].turn = e.turn
                                /\ d[j].bp = Candidates(e.args, e.top)[k].bp
      BY <3>1, <3>2
    <3>4. j \in DOMAIN D /\ j < i /\ D[j] = d[j]
      BY <1>1, <2>3
    <3> QED
      BY <3>1, <3>3, <3>4 DEF RunBefore
  <2> QED
    BY <1>1, <2>2, <2>3
<1> QED
  BY <1>3, <1>4, <1>5 DEF D

(* It is no longer replayable than it was.                                 *)
LEMMA GrownReplays ==
    ASSUME NEW d \in Seq(Records), NEW e \in Records, NEW T, ReplayableIn(Append(d, e), T)
    PROVE  /\ ReplayableIn(d, T)
           /\ e.kind = "run" /\ e.turn \in T => \A t \in T : Taken(d, t) = {}
<1> DEFINE D == Append(d, e)
           n == Len(d)
<1>1. /\ n \in Nat /\ DOMAIN d = 1..n /\ DOMAIN D = 1..(n + 1) /\ D[n + 1] = e /\ Len(D) = n + 1
      /\ \A i \in DOMAIN d : D[i] = d[i] /\ i \in DOMAIN D
  BY Grown
<1>2. ReplayableIn(D, T)
  OBVIOUS
<1> HIDE DEF D
<1>3. \A i \in DOMAIN d : d[i].kind = "run" /\ d[i].turn \in T => d[i].kept
  BY <1>1, <1>2 DEF ReplayableIn
<1>4. ASSUME NEW i \in DOMAIN d, d[i].kind = "answer", d[i].ok, d[i].turn \in T
      PROVE  /\ Open(d[i].args, d[i].top)
             /\ \A j \in (i + 1)..n : d[j].kind = "run" => d[j].turn \notin T
             /\ e.kind = "run" => e.turn \notin T
  <2>1. Open(D[i].args, D[i].top) /\ \A j \in (i + 1)..(n + 1) : D[j].kind = "run" => D[j].turn \notin T
    BY <1>1, <1>2, <1>4 DEF ReplayableIn
  <2>2. \A j \in (i + 1)..n : j \in (i + 1)..(n + 1) /\ j \in DOMAIN d
    BY <1>1
  <2>3. n + 1 \in (i + 1)..(n + 1)
    BY <1>1
  <2> QED
    BY <1>1, <2>1, <2>2, <2>3
<1>5. ReplayableIn(d, T)
  BY <1>3, <1>4 DEF ReplayableIn
<1>6. e.kind = "run" /\ e.turn \in T => \A t \in T : Taken(d, t) = {}
  BY <1>4 DEF Taken
<1> QED
  BY <1>5, <1>6

LEMMA GrownTaken ==
    ASSUME NEW d \in Seq(Records), NEW e \in Records, NEW t
    PROVE  /\ e.kind = "answer" /\ e.ok /\ e.turn = t => Taken(Append(d, e), t) = Taken(d, t) \cup {Len(d) + 1}
           /\ ~(e.kind = "answer" /\ e.ok /\ e.turn = t) => Taken(Append(d, e), t) = Taken(d, t)
           /\ \A i \in Taken(d, t) : Append(d, e)[i] = d[i]
<1>1. /\ Append(d, e)[Len(d) + 1] = e /\ Len(d) + 1 \in DOMAIN Append(d, e)
      /\ \A i \in DOMAIN d : i \in DOMAIN Append(d, e) /\ Append(d, e)[i] = d[i]
      /\ \A i \in DOMAIN Append(d, e) : i \in DOMAIN d \/ i = Len(d) + 1
      /\ Len(d) + 1 \notin DOMAIN d
  BY Grown
<1> QED
  BY <1>1 DEF Taken

LEMMA GrownRuns ==
    ASSUME NEW d \in Seq(Records), NEW e \in Records, NEW T
    PROVE  /\ e.kind = "answer" \/ e.turn \notin T => RunsIn(Append(d, e), T) = RunsIn(d, T)
           /\ e.kind = "run" /\ e.turn \in T /\ e.kept =>
                /\ Same(RunsIn(Append(d, e), T)[e.bp], e.run)
                /\ \A g \in Blueprints \ {e.bp} : RunsIn(Append(d, e), T)[g] = RunsIn(d, T)[g]
<1> DEFINE D == Append(d, e)
           n == Len(d)
<1>1. /\ n \in Nat /\ D \in Seq(Records) /\ DOMAIN d = 1..n /\ D[n + 1] = e /\ n + 1 \in DOMAIN D
      /\ \A i \in DOMAIN d : D[i] = d[i] /\ i \in DOMAIN D
      /\ \A i \in DOMAIN D : i \in DOMAIN d \/ i = n + 1
  BY Grown
<1> HIDE DEF D, n
<1>2. ASSUME NEW g \in Blueprints, ~(e.kind = "run" /\ e.turn \in T /\ e.bp = g /\ e.kept)
      PROVE  RunsOf(D, g, T) = RunsOf(d, g, T)
  BY <1>1, <1>2 DEF RunsOf
<1>3. \A g \in Blueprints : \A i \in RunsOf(d, g, T) : D[i].run = d[i].run /\ D[i].slots = d[i].slots
  BY <1>1 DEF RunsOf
<1>4. CASE e.kind = "answer" \/ e.turn \notin T
  <2>1. \A g \in Blueprints : RunsOf(D, g, T) = RunsOf(d, g, T)
    BY <1>2, <1>4
  <2>2. RunsIn(d, T) = RunsIn(D, T)
    BY <1>1, <1>3, <2>1, SameRuns
  <2> QED
    BY <1>4, <2>2 DEF D
<1>5. CASE e.kind = "run" /\ e.turn \in T
  <2>1. SUFFICES ASSUME e.kept
                 PROVE  /\ Same(RunsIn(D, T)[e.bp], e.run)
                        /\ \A g \in Blueprints \ {e.bp} : RunsIn(D, T)[g] = RunsIn(d, T)[g]
    BY <1>5 DEF D
  <2>2. e.bp \in Blueprints
    BY <1>5, RecordFacts
  <2>3. n + 1 \in RunsOf(D, e.bp, T) /\ \A i \in RunsOf(D, e.bp, T) : i \in 1..(n + 1)
    BY <1>1, <1>5, <2>1 DEF RunsOf
  <2>4. PICK m \in RunsOf(D, e.bp, T) :
           (\A j \in RunsOf(D, e.bp, T) : m >= j) /\ Same(RunsIn(D, T)[e.bp], D[m].run)
    BY <1>1, <2>2, <2>3, LatestRun
  <2>5. m = n + 1
    BY <1>1, <2>3, <2>4
  <2>6. ASSUME NEW g \in Blueprints, g # e.bp PROVE RunsIn(D, T)[g] = RunsIn(d, T)[g]
    <3>1. RunsOf(D, g, T) = RunsOf(d, g, T)
      BY <1>2, <2>6
    <3> QED
      BY <1>1, <1>3, <3>1, SameRun
  <2> QED
    BY <1>1, <2>4, <2>5, <2>6
<1> QED
  BY <1>4, <1>5, RecordFacts DEF D

---------------------------------------------------------------------------
(* The invariant                                                           *)
Accums == [tables : Seq(Tables), runs : RunMaps, use : Blueprints \cup {"none"}, badge : Badges]

Envelopes == [lead : Texts \cup {NoText}, use : Blueprints \cup {"none"}, badge : Badges,
              tables : Seq(Tables)]

Answered == [turn : Nat, env : Envelopes, narrow : BOOLEAN]

(* The trail: its turns follow one another, an accepted call designates    *)
(* what has run in its turn, and what reads nothing hidden is recorded so. *)
TrailOf(d, t) ==
    /\ d \in Seq(Records)
    /\ \A i \in DOMAIN d : d[i].turn \in 0..t
    /\ Ordered(d) /\ Founded(d)
    /\ \A i \in DOMAIN d :
          d[i].kind = "answer" /\ d[i].ok /\ Open(d[i].args, d[i].top) => AllOpen(d[i])

RanIn(d, t, g, sql, badge) ==
    \E i \in DOMAIN d : /\ d[i].kind = "run" /\ d[i].bp = g /\ d[i].turn = t
                        /\ d[i].run.sql = sql /\ d[i].run.badge = badge

Honest(d, tables) ==
    \A k \in DOMAIN tables :
        tables[k].badge # "none" => Holds(d, tables[k].bp, tables[k].sql, tables[k].badge)

(* What the loop holds in turn t, and that it is what the trail tells.     *)
LiveOf(d, a, t) ==
    /\ t \in Nat
    /\ \A g \in Blueprints : a.runs[g] # NoRun => RanIn(d, t, g, a.runs[g].sql, a.runs[g].badge)
    /\ Honest(d, a.tables)
    /\ ReplayableIn(d, {t}) =>
          /\ \A g \in Blueprints : Same(a.runs[g], RunsIn(d, {t})[g])
          /\ Replay(d, t, {t}) = Plain(a.tables)

(* What an answer showed, and that the trail still tells it.               *)
Said(d, x) ==
    /\ ReplayableIn(d, {x.turn}) => Replay(d, x.turn, {x.turn}) = Plain(x.env.tables)
    /\ x.env.badge = "passed" =>
          \A k \in DOMAIN x.env.tables :
              Holds(d, x.env.tables[k].bp, x.env.tables[k].sql, "passed")

AnswersInv ==
    /\ TablesTypeOK
    /\ accum \in Accums /\ shown \in Seq(Answered)
    /\ phase = "approval" => asked \in Blueprints \X Slots
    /\ TrailOf(rec, last)
    /\ phase = "idle" => accum = EmptyAccum
    /\ phase # "idle" => LiveOf(rec, accum, last)
    /\ \A n \in DOMAIN shown :
          /\ shown[n].turn \in 0..last
          /\ shown[n].turn = last => phase = "idle"
          /\ Said(rec, shown[n])

LEMMA EmptyFacts ==
    /\ EmptyAccum \in Accums /\ EmptyAccum.runs = NoRuns /\ EmptyAccum.tables = <<>>
    /\ NoRuns \in RunMaps
    /\ \A t \in Seq(Tables), r \in RunMaps : Accumulators(t, r, "none", "none") \in Accums
BY DEF EmptyAccum, Accumulators, Accums, NoRuns, RunMaps, Badges

LEMMA RanHolds ==
    ASSUME NEW d, NEW t, NEW g, NEW sql, NEW badge, RanIn(d, t, g, sql, badge)
    PROVE  Holds(d, g, sql, badge)
BY DEF RanIn, Holds

(* A turn with no accepted answer shows nothing.                           *)
LEMMA NoneTaken ==
    ASSUME NEW d \in Seq(Records), NEW t, NEW T, Taken(d, t) = {}
    PROVE  Replay(d, t, T) = <<>>
<1> DEFINE runs == RunsIn(d, T)
           i == LastDesignation(d, t, runs)
<1>1. i = 0
  <2>1. i = 0 \/ i \in Taken(d, t)
    BY LastFacts
  <2> QED
    BY <2>1
<1> QED
  BY <1>1 DEF Replay

---------------------------------------------------------------------------
(* An answer of another turn, and a result that expires                    *)
LEMMA ToldGrows ==
    ASSUME NEW d \in Seq(Records), NEW e \in Records, NEW x \in Answered, x.turn # e.turn, Said(d, x)
    PROVE  Said(Append(d, e), x)
<1> DEFINE D == Append(d, e)
           t == x.turn
           S == {t}
<1>1. D \in Seq(Records)
  BY Grown
<1>2. e.turn \notin S /\ e.turn # t
  OBVIOUS
<1>3. ASSUME ReplayableIn(D, S) PROVE Replay(D, t, S) = Plain(x.env.tables)
  <2> HIDE DEF S, t
  <2>1. ReplayableIn(d, S)
    BY <1>3, GrownReplays
  <2>2. Taken(D, t) = Taken(d, t) /\ \A i \in Taken(d, t) : D[i] = d[i]
    BY <1>2, GrownTaken
  <2>3. RunsIn(D, S) = RunsIn(d, S)
    BY <1>2, GrownRuns
  <2> HIDE DEF D
  <2>4. Replay(d, t, S) = Replay(D, t, S)
    BY <1>1, <2>2, <2>3, SameReplay
  <2> QED
    BY <2>1, <2>4 DEF Said, S, t
<1>4. ASSUME x.env.badge = "passed", NEW k \in DOMAIN x.env.tables
      PROVE  Holds(D, x.env.tables[k].bp, x.env.tables[k].sql, "passed")
  <2>1. Holds(d, x.env.tables[k].bp, x.env.tables[k].sql, "passed")
    BY <1>4 DEF Said
  <2> QED
    BY <2>1, StillHolds
<1> QED
  BY <1>3, <1>4 DEF Said

(* The full result of run i is gone.                                       *)
Forgets(d, D, i) ==
    /\ d \in Seq(Records) /\ D \in Seq(Records) /\ DOMAIN D = DOMAIN d /\ Len(D) = Len(d)
    /\ i \in DOMAIN d /\ D[i].kind = "run" /\ ~D[i].kept
    /\ \A j \in DOMAIN d : /\ D[j].kind = d[j].kind /\ D[j].turn = d[j].turn
                           /\ j # i => D[j] = d[j]
                           /\ d[j].kind = "run" => D[j].bp = d[j].bp /\ D[j].run = d[j].run
                           /\ d[j].kind = "answer" => D[j] = d[j]

LEMMA ExpiryForgets ==
    ASSUME NEW d \in Seq(Records), NEW i \in DOMAIN d, d[i].kind = "run"
    PROVE  Forgets(d, [d EXCEPT ![i].kept = FALSE], i)
<1> DEFINE x == [d[i] EXCEPT !.kept = FALSE]
           D == [d EXCEPT ![i].kept = FALSE]
<1>1. /\ d[i] \in Records /\ d[i].kind = "run"
      /\ d[i] \in [kind : {"run"}, turn : Nat, bp : Blueprints, run : Runs, slots : Slots \cup {0},
                   kept : BOOLEAN]
  BY DEF Records
<1>2. x \in Records /\ x.kind = "run" /\ x.turn = d[i].turn /\ x.bp = d[i].bp /\ x.run = d[i].run
      /\ x.kept = FALSE
  BY <1>1 DEF Records
<1>3. D = [d EXCEPT ![i] = x]
  OBVIOUS
<1> HIDE DEF x
<1>4. D \in Seq(Records) /\ DOMAIN D = DOMAIN d /\ Len(D) = Len(d) /\ D[i] = x
      /\ \A j \in DOMAIN d : j # i => D[j] = d[j]
  <2>1. i \in 1..Len(d)
    OBVIOUS
  <2>2. /\ [d EXCEPT ![i] = x] \in Seq(Records) /\ Len([d EXCEPT ![i] = x]) = Len(d)
        /\ \A j \in 1..Len(d) : [d EXCEPT ![i] = x][j] = IF j = i THEN x ELSE d[j]
    BY <1>2, <2>1, ExceptSeq
  <2> QED
    BY <1>3, <2>1, <2>2
<1> HIDE DEF D
<1> QED
  BY <1>1, <1>2, <1>4 DEF Forgets, D

LEMMA Forgotten ==
    ASSUME NEW d, NEW D, NEW i, Forgets(d, D, i)
    PROVE  /\ \A g, sql, badge : Holds(d, g, sql, badge) => Holds(D, g, sql, badge)
           /\ \A t, g, sql, badge : RanIn(d, t, g, sql, badge) => RanIn(D, t, g, sql, badge)
BY DEF Forgets, Holds, RanIn

LEMMA ForgottenTrail ==
    ASSUME NEW d, NEW D, NEW i, Forgets(d, D, i), NEW t, TrailOf(d, t)
    PROVE  TrailOf(D, t)
<1>1. /\ D \in Seq(Records) /\ DOMAIN D = DOMAIN d
      /\ \A j \in DOMAIN d : /\ D[j].kind = d[j].kind /\ D[j].turn = d[j].turn
                             /\ d[j].kind = "run" => D[j].bp = d[j].bp /\ D[j].run = d[j].run
                             /\ d[j].kind = "answer" => D[j] = d[j]
  BY DEF Forgets
<1>2. Ordered(D)
  BY <1>1 DEF TrailOf, Ordered
<1>3. ASSUME NEW j \in DOMAIN d, NEW g, RunBefore(d, j, g) PROVE RunBefore(D, j, g)
  <2>1. PICK k \in DOMAIN d : k < j /\ d[k].kind = "run" /\ d[k].bp = g /\ d[k].turn = d[j].turn
    BY <1>3 DEF RunBefore
  <2> QED
    BY <1>1, <2>1 DEF RunBefore
<1>4. Founded(D)
  <2> SUFFICES ASSUME NEW j \in DOMAIN D, D[j].kind = "answer", D[j].ok,
                      NEW k \in DOMAIN Candidates(D[j].args, D[j].top)
               PROVE  \/ Candidates(D[j].args, D[j].top)[k].sql # NoText
                      \/ RunBefore(D, j, Candidates(D[j].args, D[j].top)[k].bp)
    BY DEF Founded
  <2>1. j \in DOMAIN d /\ d[j].kind = "answer" /\ D[j] = d[j]
    BY <1>1
  <2>2. \/ Candidates(d[j].args, d[j].top)[k].sql # NoText
        \/ RunBefore(d, j, Candidates(d[j].args, d[j].top)[k].bp)
    BY <2>1 DEF TrailOf, Founded
  <2> QED
    BY <1>3, <2>1, <2>2
<1>5. \A j \in DOMAIN D : D[j].turn \in 0..t
  BY <1>1 DEF TrailOf
<1>6. \A j \in DOMAIN D :
         D[j].kind = "answer" /\ D[j].ok /\ Open(D[j].args, D[j].top) => AllOpen(D[j])
  BY <1>1 DEF TrailOf
<1> QED
  BY <1>1, <1>2, <1>4, <1>5, <1>6 DEF TrailOf

(* A turn that can still be replayed has not lost the run.                 *)
LEMMA ForgottenReplay ==
    ASSUME NEW d, NEW D, NEW i, Forgets(d, D, i), NEW t, NEW S, S = {t}, ReplayableIn(D, S)
    PROVE  /\ ReplayableIn(d, S) /\ RunsIn(D, S) = RunsIn(d, S)
           /\ Replay(D, t, S) = Replay(d, t, S)
<1>1. /\ D \in Seq(Records) /\ d \in Seq(Records) /\ DOMAIN D = DOMAIN d /\ Len(D) = Len(d)
      /\ i \in DOMAIN d /\ D[i].kind = "run" /\ ~D[i].kept
      /\ \A j \in DOMAIN d : /\ D[j].kind = d[j].kind /\ D[j].turn = d[j].turn
                             /\ j # i => D[j] = d[j]
                             /\ d[j].kind = "answer" => D[j] = d[j]
  BY DEF Forgets
<1>2. d[i].turn \notin S /\ D[i].turn \notin S
  BY <1>1 DEF ReplayableIn
<1>3. ReplayableIn(d, S)
  <2>1. \A j \in DOMAIN d : d[j].kind = "run" /\ d[j].turn \in S => d[j].kept
    BY <1>1, <1>2 DEF ReplayableIn
  <2>2. ASSUME NEW j \in DOMAIN d, d[j].kind = "answer", d[j].ok, d[j].turn \in S
        PROVE  /\ Open(d[j].args, d[j].top)
               /\ \A k \in (j + 1)..Len(d) : d[k].kind = "run" => d[k].turn \notin S
    <3>1. D[j] = d[j] /\ j \in DOMAIN D
      BY <1>1, <2>2
    <3>2. /\ Open(d[j].args, d[j].top)
          /\ \A k \in (j + 1)..Len(d) : D[k].kind = "run" => D[k].turn \notin S
      BY <1>1, <2>2, <3>1 DEF ReplayableIn
    <3>3. \A k \in (j + 1)..Len(d) : k \in DOMAIN d
      BY <1>1, <2>2
    <3> QED
      BY <1>1, <3>2, <3>3
  <2> QED
    BY <2>1, <2>2 DEF ReplayableIn
<1>4. \A g \in Blueprints : RunsOf(d, g, S) = RunsOf(D, g, S)
  BY <1>1, <1>2 DEF RunsOf
<1>5. \A g \in Blueprints : \A j \in RunsOf(d, g, S) : D[j].run = d[j].run /\ D[j].slots = d[j].slots
  BY <1>1, <1>2 DEF RunsOf
<1>6. RunsIn(d, S) = RunsIn(D, S)
  BY <1>1, <1>4, <1>5, SameRuns
<1>7. Taken(d, t) = Taken(D, t)
      /\ \A j \in Taken(d, t) : D[j].args = d[j].args /\ D[j].top = d[j].top
  BY <1>1 DEF Taken
<1>8. Replay(d, t, S) = Replay(D, t, S)
  BY <1>1, <1>6, <1>7, SameReplay
<1> QED
  BY <1>3, <1>6, <1>8

LEMMA ToldExpires ==
    ASSUME NEW d, NEW D, NEW i, Forgets(d, D, i), NEW x, Said(d, x)
    PROVE  Said(D, x)
<1> DEFINE S == {x.turn}
<1>1. ReplayableIn(D, S) => ReplayableIn(d, S) /\ Replay(D, x.turn, S) = Replay(d, x.turn, S)
  BY ForgottenReplay
<1>2. \A g, sql, badge : Holds(d, g, sql, badge) => Holds(D, g, sql, badge)
  BY Forgotten
<1> QED
  BY <1>1, <1>2 DEF Said

LEMMA LiveExpires ==
    ASSUME NEW d, NEW D, NEW i, Forgets(d, D, i), NEW a, NEW t, LiveOf(d, a, t)
    PROVE  LiveOf(D, a, t)
<1> DEFINE S == {t}
<1>1. ReplayableIn(D, S) => /\ ReplayableIn(d, S) /\ RunsIn(D, S) = RunsIn(d, S)
                            /\ Replay(D, t, S) = Replay(d, t, S)
  BY ForgottenReplay
<1>2. /\ \A g, sql, badge : Holds(d, g, sql, badge) => Holds(D, g, sql, badge)
      /\ \A u, g, sql, badge : RanIn(d, u, g, sql, badge) => RanIn(D, u, g, sql, badge)
  BY Forgotten
<1> QED
  BY <1>1, <1>2 DEF LiveOf, Honest

---------------------------------------------------------------------------
(* What is shown                                                           *)
LEMMA RollupIn ==
    ASSUME NEW v \in Seq(Tables)
    PROVE  /\ Rollup(v) \in Badges
           /\ Rollup(v) = "passed" => \A k \in DOMAIN v : v[k].badge = "passed"
<1> DEFINE S == {v[i].badge : i \in DOMAIN v}
<1>1. S \in SUBSET Badges
  <2>1. \A i \in DOMAIN v : v[i] \in Tables
    OBVIOUS
  <2> QED
    BY <2>1 DEF Tables
<1>2. IsFiniteSet(Badges)
  <2>1. IsFiniteSet({"none"}) /\ IsFiniteSet({"none"} \cup {"passed"})
        /\ IsFiniteSet(({"none"} \cup {"passed"}) \cup {"empty"})
    BY FS_Singleton, FS_Union
  <2>2. Badges = ({"none"} \cup {"passed"}) \cup {"empty"}
    BY DEF Badges
  <2> QED
    BY <2>1, <2>2
<1>3. Rollup(v) = IF Cardinality(S) = 1 THEN CHOOSE x \in S : TRUE ELSE "none"
  BY DEF Rollup
<1>4. \A k \in DOMAIN v : v[k].badge \in S
  OBVIOUS
<1> HIDE DEF S
<1>5. CASE Cardinality(S) = 1
  <2>1. IsFiniteSet(S)
    BY <1>1, <1>2, FS_Subset
  <2>2. PICK x : S = {x}
    BY <1>5, <2>1, FS_Singleton
  <2>3. Rollup(v) = x
    BY <1>3, <1>5, <2>2
  <2> QED
    BY <1>1, <1>4, <2>2, <2>3
<1>6. CASE Cardinality(S) # 1
  BY <1>3, <1>6 DEF Badges
<1> QED
  BY <1>5, <1>6

LEMMA EnvelopeIn ==
    ASSUME NEW a \in Accums
    PROVE  /\ Envelope(a) \in Envelopes /\ Envelope(a).tables = a.tables
           /\ Envelope(a).badge = "passed" => \A k \in DOMAIN a.tables : a.tables[k].badge = "passed"
<1> DEFINE v == a.tables
<1>1. v \in Seq(Tables) /\ a.use \in Blueprints \cup {"none"} /\ a.badge \in Badges
  BY DEF Accums
<1>2. CASE v = <<>>
  BY <1>1, <1>2 DEF Envelope, Envelopes
<1>3. CASE v # <<>>
  <2>1. v[1] \in Tables
    BY <1>1, <1>3
  <2>2. v[1].sql \in Texts /\ v[1].bp \in Blueprints \cup {"none"}
    BY <2>1 DEF Tables
  <2>3. Envelope(a) = [lead |-> v[1].sql, use |-> v[1].bp, badge |-> Rollup(v), tables |-> v]
    BY <1>3 DEF Envelope
  <2> HIDE DEF v
  <2>4. /\ Rollup(v) \in Badges
        /\ Rollup(v) = "passed" => \A k \in DOMAIN v : v[k].badge = "passed"
    BY <1>1, RollupIn
  <2>5. Envelope(a) \in Envelopes
    BY <1>1, <2>2, <2>3, <2>4 DEF Envelopes
  <2> QED
    BY <2>3, <2>4, <2>5 DEF v
<1> QED
  BY <1>2, <1>3

(* The answer of what the loop holds.                                      *)
LEMMA ToldNow ==
    ASSUME NEW d, NEW a \in Accums, NEW t, LiveOf(d, a, t), NEW x \in Answered,
           x.turn = t, x.env = Envelope(a)
    PROVE  Said(d, x)
<1>1. /\ Envelope(a).tables = a.tables
      /\ Envelope(a).badge = "passed" => \A k \in DOMAIN a.tables : a.tables[k].badge = "passed"
  BY EnvelopeIn
<1>2. ReplayableIn(d, {t}) => Replay(d, t, {t}) = Plain(a.tables)
  BY DEF LiveOf
<1>3. Honest(d, a.tables)
  BY DEF LiveOf
<1>4. ASSUME x.env.badge = "passed", NEW k \in DOMAIN x.env.tables
      PROVE  Holds(d, x.env.tables[k].bp, x.env.tables[k].sql, "passed")
  <2>1. k \in DOMAIN a.tables /\ a.tables[k].badge = "passed" /\ x.env.tables = a.tables
    BY <1>1, <1>4
  <2> QED
    BY <1>3, <2>1 DEF Honest
<1> QED
  BY <1>1, <1>2, <1>4 DEF Said

---------------------------------------------------------------------------
(* What the loop holds                                                     *)
LEMMA LiveAsks ==
    ASSUME NEW d, NEW t \in Int, t + 1 \in Nat, TrailOf(d, t)
    PROVE  LiveOf(d, EmptyAccum, t + 1)
<1> DEFINE u == t + 1
           S == {u}
<1>1. d \in Seq(Records) /\ \A i \in DOMAIN d : d[i].turn \in 0..t
  BY DEF TrailOf
<1>2. \A i \in DOMAIN d : d[i].turn # u
  BY <1>1
<1>3. Taken(d, u) = {} /\ \A g \in Blueprints : RunsOf(d, g, S) = {}
  BY <1>2 DEF Taken, RunsOf
<1> HIDE DEF S, u
<1>4. Replay(d, u, S) = <<>>
  BY <1>1, <1>3, NoneTaken
<1>5. \A g \in Blueprints : RunsIn(d, S)[g] = NoRun
  BY <1>1, <1>3, LatestRun
<1>6. \A g \in Blueprints : EmptyAccum.runs[g] = NoRun
  BY EmptyFacts DEF NoRuns
<1>7. EmptyAccum.tables = <<>> /\ Plain(<<>>) = <<>>
  BY EmptyFacts, EmptyPlain
<1>8. u \in Nat /\ u = t + 1 /\ S = {u}
  BY DEF u, S
<1>9. Honest(d, EmptyAccum.tables)
  BY <1>7 DEF Honest
<1>10. \A g \in Blueprints : Same(EmptyAccum.runs[g], RunsIn(d, S)[g])
  BY <1>5, <1>6 DEF Same
<1>11. LiveOf(d, EmptyAccum, u)
  BY <1>4, <1>6, <1>7, <1>8, <1>9, <1>10 DEF LiveOf
<1> QED
  BY <1>8, <1>11

LEMMA LiveRebuilt ==
    ASSUME NEW d \in Seq(Records), NEW t \in Nat,
           NEW a, a = Accumulators(Rebuilt(d, t).tables, Rebuilt(d, t).runs, "none", "none")
    PROVE  /\ a \in Accums /\ LiveOf(d, a, t) /\ a.runs = RunsIn(d, {t})
           /\ Plain(a.tables) = Replay(d, t, {t}) /\ Honest(d, a.tables)
<1> DEFINE S == {t}
           r == Rebuilt(d, t)
<1>1. /\ r.runs = RunsIn(d, S) /\ r.tables \in Seq(Tables)
      /\ Plain(r.tables) = Replay(d, t, S)
      /\ Honest(d, r.tables)
  BY RebuiltIn DEF Honest
<1>2. RunsIn(d, S) \in RunMaps
  BY RunsInFacts
<1>3. a = Accumulators(r.tables, r.runs, "none", "none")
  OBVIOUS
<1>4. t \in S /\ \A u \in S : u = t
  OBVIOUS
<1> HIDE DEF r, S
<1>5. a \in Accums /\ a.tables = r.tables /\ a.runs = r.runs
  BY <1>1, <1>2, <1>3, EmptyFacts DEF Accumulators
<1>6. ASSUME NEW g \in Blueprints, a.runs[g] # NoRun
      PROVE  RanIn(d, t, g, a.runs[g].sql, a.runs[g].badge)
  <2>1. RunsOf(d, g, S) # {}
    BY <1>1, <1>5, <1>6, LatestRun
  <2>2. PICK i \in RunsOf(d, g, S) : Same(RunsIn(d, S)[g], d[i].run)
    BY <2>1, LatestRun
  <2>3. i \in DOMAIN d /\ d[i].kind = "run" /\ d[i].bp = g /\ d[i].turn = t
    BY <1>4 DEF RunsOf
  <2> QED
    BY <1>1, <1>5, <2>2, <2>3 DEF RanIn, Same
<1>7. \A g \in Blueprints : Same(a.runs[g], RunsIn(d, S)[g])
  BY <1>1, <1>5 DEF Same
<1> QED
  BY <1>1, <1>5, <1>6, <1>7 DEF LiveOf, S

LEMMA RanFacts ==
    ASSUME NEW a \in Accums, NEW g \in Blueprints, NEW run \in Runs
    PROVE  /\ Ran(a, g, run) \in Accums /\ Ran(a, g, run).tables = a.tables
           /\ Ran(a, g, run).runs[g] = run
           /\ \A c \in Blueprints : c # g => Ran(a, g, run).runs[c] = a.runs[c]
<1>1. /\ a.runs \in [Blueprints -> Runs \cup {NoRun}] /\ a.tables \in Seq(Tables)
      /\ a.use \in Blueprints \cup {"none"} /\ a.badge \in Badges
      /\ a = [tables |-> a.tables, runs |-> a.runs, use |-> a.use, badge |-> a.badge]
  BY DEF Accums, RunMaps
<1>2. run.badge \in Badges
  BY RunFacts DEF Badges
<1>3. Ran(a, g, run) =
        [tables |-> a.tables, runs |-> [a.runs EXCEPT ![g] = run], use |-> g, badge |-> run.badge]
  <2> DEFINE m == [a.runs EXCEPT ![g] = run]
  <2>1. Ran(a, g, run) = [a EXCEPT !.runs = m, !.use = g, !.badge = run.badge]
    BY DEF Ran
  <2> HIDE DEF m
  <2>2. Ran(a, g, run) = [tables |-> a.tables, runs |-> m, use |-> g, badge |-> run.badge]
    BY <2>1 DEF Accums
  <2> QED
    BY <2>2 DEF m
<1>4. [a.runs EXCEPT ![g] = run] \in RunMaps
  BY <1>1 DEF RunMaps
<1> QED
  BY <1>1, <1>2, <1>3, <1>4 DEF Accums

(* A run counts from the moment it is recorded.                            *)
LEMMA RanLive ==
    ASSUME NEW d \in Seq(Records), NEW e \in Records, NEW a \in Accums, NEW t \in Nat,
           e.kind = "run", e.turn = t, e.kept,
           \A g \in Blueprints : a.runs[g] # NoRun =>
               RanIn(Append(d, e), t, g, a.runs[g].sql, a.runs[g].badge),
           Honest(Append(d, e), a.tables),
           NEW S, S = {t},
           ReplayableIn(Append(d, e), S) =>
               /\ \A g \in Blueprints \ {e.bp} : Same(a.runs[g], RunsIn(Append(d, e), S)[g])
               /\ Replay(Append(d, e), t, S) = Plain(a.tables)
    PROVE  LiveOf(Append(d, e), Ran(a, e.bp, e.run), t) /\ Ran(a, e.bp, e.run) \in Accums
<1> DEFINE D == Append(d, e)
           g == e.bp
           run == e.run
           A == Ran(a, g, run)
<1>1. g \in Blueprints /\ run \in Runs
  BY RecordFacts
<1>2. /\ A \in Accums /\ A.tables = a.tables /\ A.runs[g] = run
      /\ \A c \in Blueprints : c # g => A.runs[c] = a.runs[c]
  BY <1>1, RanFacts
<1>3. Same(RunsIn(D, S)[g], run)
  BY GrownRuns
<1>4. RanIn(D, t, g, run.sql, run.badge)
  <2>1. Len(d) + 1 \in DOMAIN D /\ D[Len(d) + 1] = e
    BY Grown
  <2> QED
    BY <2>1 DEF RanIn
<1> HIDE DEF D, g, run, A
<1>5. \A c \in Blueprints : A.runs[c] # NoRun => RanIn(D, t, c, A.runs[c].sql, A.runs[c].badge)
  BY <1>2, <1>4 DEF D
<1>6. ReplayableIn(D, S) => /\ \A c \in Blueprints : Same(A.runs[c], RunsIn(D, S)[c])
                            /\ Replay(D, t, S) = Plain(A.tables)
  BY <1>2, <1>3 DEF D, g, Same
<1>7. Honest(D, A.tables)
  BY <1>2 DEF D
<1>8. LiveOf(D, A, t)
  BY <1>5, <1>6, <1>7 DEF LiveOf
<1> QED
  BY <1>2, <1>8 DEF D, A, g, run

LEMMA HonestGrows ==
    ASSUME NEW d \in Seq(Records), NEW e \in Records, NEW v, Honest(d, v)
    PROVE  Honest(Append(d, e), v)
BY StillHolds DEF Honest

LEMMA RanGrows ==
    ASSUME NEW d \in Seq(Records), NEW e \in Records, NEW t, NEW g, NEW sql, NEW badge,
           RanIn(d, t, g, sql, badge)
    PROVE  RanIn(Append(d, e), t, g, sql, badge)
<1>1. PICK i \in DOMAIN d : /\ d[i].kind = "run" /\ d[i].bp = g /\ d[i].turn = t
                            /\ d[i].run.sql = sql /\ d[i].run.badge = badge
  BY DEF RanIn
<1>2. i \in DOMAIN Append(d, e) /\ Append(d, e)[i] = d[i]
  BY Grown
<1> QED
  BY <1>1, <1>2 DEF RanIn

(* A run in the open turn.                                                 *)
LEMMA LiveRuns ==
    ASSUME NEW d \in Seq(Records), NEW e \in Records, NEW a \in Accums, NEW t, LiveOf(d, a, t),
           e.kind = "run", e.turn = t, e.kept
    PROVE  LiveOf(Append(d, e), Ran(a, e.bp, e.run), t) /\ Ran(a, e.bp, e.run) \in Accums
<1> DEFINE D == Append(d, e)
           S == {t}
<1>1. /\ t \in Nat /\ Honest(d, a.tables)
      /\ \A g \in Blueprints : a.runs[g] # NoRun => RanIn(d, t, g, a.runs[g].sql, a.runs[g].badge)
      /\ ReplayableIn(d, S) => /\ \A g \in Blueprints : Same(a.runs[g], RunsIn(d, S)[g])
                               /\ Replay(d, t, S) = Plain(a.tables)
  BY DEF LiveOf
<1>2. \A g \in Blueprints : a.runs[g] # NoRun => RanIn(D, t, g, a.runs[g].sql, a.runs[g].badge)
  BY <1>1, RanGrows
<1>3. Honest(D, a.tables)
  BY <1>1, HonestGrows
<1>4. D \in Seq(Records) /\ t \in S /\ S = {t}
  BY Grown
<1> HIDE DEF S
<1>5. ASSUME ReplayableIn(D, S)
      PROVE  /\ \A g \in Blueprints \ {e.bp} : Same(a.runs[g], RunsIn(D, S)[g])
             /\ Replay(D, t, S) = Plain(a.tables)
  <2>1. ReplayableIn(d, S) /\ \A u \in S : Taken(d, u) = {}
    BY <1>4, <1>5, GrownReplays
  <2>2. Taken(d, t) = {} /\ Taken(D, t) = {}
    BY <1>4, <2>1, GrownTaken
  <2>3. \A g \in Blueprints \ {e.bp} : RunsIn(D, S)[g] = RunsIn(d, S)[g]
    BY <1>4, GrownRuns
  <2> HIDE DEF D
  <2>4. Replay(d, t, S) = <<>> /\ Replay(D, t, S) = <<>>
    BY <1>4, <2>2, NoneTaken
  <2> QED
    BY <1>1, <2>1, <2>3, <2>4
<1> QED
  BY <1>1, <1>2, <1>3, <1>4, <1>5, RanLive

(* An approved run, over what the trail with the run tells.                *)
LEMMA LiveApproves ==
    ASSUME NEW d \in Seq(Records), NEW e \in Records, NEW t \in Nat,
           e.kind = "run", e.turn = t, e.kept, NEW D, D = Append(d, e),
           NEW a, a = Accumulators(Rebuilt(D, t).tables, Rebuilt(D, t).runs, "none", "none")
    PROVE  LiveOf(D, Ran(a, e.bp, e.run), t) /\ Ran(a, e.bp, e.run) \in Accums
<1> DEFINE S == {t}
<1>1. D \in Seq(Records)
  BY Grown
<1>2. /\ a \in Accums /\ LiveOf(D, a, t) /\ a.runs = RunsIn(D, S)
      /\ Plain(a.tables) = Replay(D, t, S) /\ Honest(D, a.tables)
  BY <1>1, LiveRebuilt
<1>3. \A g \in Blueprints : a.runs[g] # NoRun => RanIn(D, t, g, a.runs[g].sql, a.runs[g].badge)
  BY <1>2 DEF LiveOf
<1>4. \A g \in Blueprints : Same(a.runs[g], RunsIn(D, S)[g])
  BY <1>2 DEF Same
<1>5. S = {t}
  OBVIOUS
<1> HIDE DEF S
<1> QED
  BY <1>2, <1>3, <1>4, <1>5, RanLive

(* The last designation that designates counts.                            *)
LEMMA GrownLast ==
    ASSUME NEW d \in Seq(Records), NEW e \in Records, NEW t, NEW R,
           e.kind = "answer", e.ok, e.turn = t
    PROVE  /\ Final(Append(d, e), Len(d) + 1, R) # <<>> =>
                LastDesignation(Append(d, e), t, R) = Len(d) + 1
           /\ Final(Append(d, e), Len(d) + 1, R) = <<>> =>
                LastDesignation(Append(d, e), t, R) = LastDesignation(d, t, R)
<1> DEFINE D == Append(d, e)
           n == Len(d)
           p == LastDesignation(d, t, R)
           q == LastDesignation(D, t, R)
<1>1. D \in Seq(Records) /\ n \in Nat /\ DOMAIN d = 1..n
  BY Grown
<1>2. /\ Taken(D, t) = Taken(d, t) \cup {n + 1}
      /\ \A i \in Taken(d, t) : D[i] = d[i]
  BY GrownTaken
<1>3. \A i \in Taken(d, t) : i \in 1..n
  BY <1>1 DEF Taken
<1>4. \/ p = 0 /\ \A i \in Taken(d, t) : Final(d, i, R) = <<>>
      \/ /\ p \in Taken(d, t) /\ Final(d, p, R) # <<>>
         /\ \A i \in Taken(d, t) : Final(d, i, R) # <<>> => p >= i
  BY LastFacts
<1> HIDE DEF D
<1>5. \/ q = 0 /\ \A i \in Taken(D, t) : Final(D, i, R) = <<>>
      \/ /\ q \in Taken(D, t) /\ Final(D, q, R) # <<>>
         /\ \A i \in Taken(D, t) : Final(D, i, R) # <<>> => q >= i
  BY <1>1, LastFacts
<1>6. \A i \in Taken(d, t) : Final(D, i, R) = Final(d, i, R)
  BY <1>2 DEF Final
<1> HIDE DEF n, p, q
<1>7. ASSUME Final(D, n + 1, R) # <<>> PROVE q = n + 1
  <2>1. q >= n + 1 /\ q \in Taken(D, t)
    BY <1>1, <1>2, <1>5, <1>7
  <2> QED
    BY <1>1, <1>2, <1>3, <2>1
<1>8. ASSUME Final(D, n + 1, R) = <<>> PROVE q = p
  <2>1. CASE q = 0
    <3>1. \A i \in Taken(d, t) : i # 0
      BY <1>3
    <3>2. \A i \in Taken(d, t) : Final(d, i, R) = <<>>
      <4>1. \A i \in Taken(d, t) : Final(D, i, R) = <<>>
        BY <1>2, <1>3, <1>5, <2>1, <1>1
      <4> QED
        BY <1>6, <4>1
    <3> QED
      BY <1>4, <2>1, <3>2
  <2>2. CASE q # 0
    <3>1. /\ q \in Taken(D, t) /\ Final(D, q, R) # <<>>
          /\ \A i \in Taken(D, t) : Final(D, i, R) # <<>> => q >= i
      BY <1>5, <2>2
    <3>2. q \in Taken(d, t) /\ Final(d, q, R) # <<>>
      BY <1>2, <1>6, <1>8, <3>1
    <3>3. /\ p \in Taken(d, t) /\ Final(d, p, R) # <<>>
          /\ \A i \in Taken(d, t) : Final(d, i, R) # <<>> => p >= i
      BY <1>4, <3>2
    <3>4. p >= q /\ q >= p
      BY <1>2, <1>6, <3>1, <3>2, <3>3
    <3>5. p \in Int /\ q \in Int
      BY <1>3, <3>2, <3>3
    <3> QED
      BY <3>4, <3>5
  <2> QED
    BY <2>1, <2>2
<1> QED
  BY <1>7, <1>8 DEF D, n, p, q

(* A run agrees with the map on every item.                                *)
LEMMA SameAgree ==
    ASSUME NEW args \in Seq(Items), NEW top \in Items, NEW runs \in RunMaps, NEW others \in RunMaps,
           \A g \in Blueprints : Same(runs[g], others[g])
    PROVE  /\ ResolveAll(args, top, runs) = ResolveAll(args, top, others)
           /\ Marked(Finalize(ResolveAll(args, top, runs)), runs) =
                Marked(Finalize(ResolveAll(args, top, others)), others)
<1> DEFINE c == Candidates(args, top)
           f == Finalize(ResolveAll(args, top, runs))
<1>1. \A k \in DOMAIN c : Agrees(c[k], runs, others)
  <2>1. \A k \in DOMAIN c : c[k] \in Items
    BY CandidatesIn
  <2> HIDE DEF c
  <2> QED
    BY <2>1 DEF Agrees, Items
<1>2. /\ ResolveAll(args, top, runs) = ResolveAll(args, top, others)
      /\ \A k \in DOMAIN f : f[k].bp # "none" => Same(runs[f[k].bp], others[f[k].bp])
  BY <1>1, ResolvedAlike
<1>3. f = Finalize(ResolveAll(args, top, others))
  BY <1>2
<1>4. Marked(f, runs) = Marked(f, others)
  <2> HIDE DEF f
  <2> QED
    BY <1>2 DEF Marked, Same
<1> QED
  BY <1>2, <1>3, <1>4

(* A call that is refused leaves the answer alone.                         *)
LEMMA Refused ==
    ASSUME NEW d \in Seq(Records), NEW e \in Records, NEW a \in Accums, NEW t,
           LiveOf(d, a, t), TrailOf(d, t), e.kind = "answer", e.turn = t, ~e.ok
    PROVE  LiveOf(Append(d, e), a, t) /\ TrailOf(Append(d, e), t)
<1> DEFINE D == Append(d, e)
           S == {t}
<1>1. /\ t \in Nat /\ Honest(d, a.tables)
      /\ \A g \in Blueprints : a.runs[g] # NoRun => RanIn(d, t, g, a.runs[g].sql, a.runs[g].badge)
      /\ ReplayableIn(d, S) => /\ \A g \in Blueprints : Same(a.runs[g], RunsIn(d, S)[g])
                               /\ Replay(d, t, S) = Plain(a.tables)
  BY DEF LiveOf
<1>2. D \in Seq(Records)
  BY Grown
<1>3. \A g \in Blueprints : a.runs[g] # NoRun => RanIn(D, t, g, a.runs[g].sql, a.runs[g].badge)
  BY <1>1, RanGrows
<1>4. Honest(D, a.tables)
  BY <1>1, HonestGrows
<1>5. t \in S /\ S = {t}
  OBVIOUS
<1> HIDE DEF S
<1>6. ASSUME ReplayableIn(D, S)
      PROVE  /\ \A g \in Blueprints : Same(a.runs[g], RunsIn(D, S)[g])
             /\ Replay(D, t, S) = Plain(a.tables)
  <2>1. ReplayableIn(d, S)
    BY <1>6, GrownReplays
  <2>2. RunsIn(D, S) = RunsIn(d, S)
    BY GrownRuns
  <2>3. Taken(d, t) = Taken(D, t) /\ \A i \in Taken(d, t) : D[i].args = d[i].args /\ D[i].top = d[i].top
    BY GrownTaken
  <2> HIDE DEF D
  <2>4. Replay(d, t, S) = Replay(D, t, S)
    BY <1>2, <2>2, <2>3, SameReplay
  <2> QED
    BY <1>1, <2>1, <2>2, <2>4
<1>7. LiveOf(D, a, t)
  BY <1>1, <1>3, <1>4, <1>5, <1>6 DEF LiveOf
<1>8. TrailOf(D, t)
  <2>1. /\ Ordered(D) /\ Founded(D) /\ \A i \in DOMAIN D : D[i].turn \in 0..t
    BY GrownInOrder DEF TrailOf
  <2>2. \A i \in DOMAIN D : D[i] = e \/ (i \in DOMAIN d /\ D[i] = d[i])
    BY GrownEntries
  <2> HIDE DEF D
  <2> QED
    BY <1>2, <2>1, <2>2 DEF TrailOf
<1> QED
  BY <1>7, <1>8

(* An accepted call names what has run in the turn.                        *)
LEMMA CallFounded ==
    ASSUME NEW d, NEW a \in Accums, NEW t, LiveOf(d, a, t), NEW args \in Seq(Items), NEW top \in Items,
           ~Unresolved(args, top, a.runs), NEW k \in DOMAIN Candidates(args, top)
    PROVE  \/ Candidates(args, top)[k].sql # NoText
           \/ \E j \in DOMAIN d : /\ d[j].kind = "run" /\ d[j].turn = t
                                  /\ d[j].bp = Candidates(args, top)[k].bp
<1> DEFINE c == Candidates(args, top)
           items == ResolveAll(args, top, a.runs)
           R == a.runs
<1>1. R \in RunMaps
  BY DEF Accums
<1>2. c[k] \in Items
  BY CandidatesIn
<1>3. DOMAIN items = DOMAIN c /\ items[k] = Resolve(c[k], R)
  BY <1>1, ResolveAllIn
<1>4. items[k].sql # NoText
  BY <1>3 DEF Unresolved
<1> HIDE DEF items
<1>5. SUFFICES ASSUME c[k].sql = NoText
               PROVE  \E j \in DOMAIN d : d[j].kind = "run" /\ d[j].turn = t /\ d[j].bp = c[k].bp
  OBVIOUS
<1>6. c[k].bp # "none" /\ R[c[k].bp].sql # NoText
  BY <1>3, <1>4, <1>5, RunFacts DEF Resolve
<1>7. c[k].bp \in Blueprints
  BY <1>2, <1>6 DEF Items
<1>8. R[c[k].bp] # NoRun
  BY <1>6, RunFacts
<1>9. RanIn(d, t, c[k].bp, R[c[k].bp].sql, R[c[k].bp].badge)
  BY <1>7, <1>8 DEF LiveOf
<1> QED
  BY <1>9 DEF RanIn

(* A call that is accepted.                                                *)
LEMMA Accepted ==
    ASSUME NEW d \in Seq(Records), NEW a \in Accums, NEW t, LiveOf(d, a, t), TrailOf(d, t),
           NEW args \in Seq(Items), NEW top \in Items, ~Unresolved(args, top, a.runs),
           NEW v, v = LiveTables(args, top, a.runs),
           NEW e \in Records, e.kind = "answer", e.turn = t, e.ok, e.args = args, e.top = top,
           DOMAIN e.provs = DOMAIN v, \A k \in DOMAIN v : e.provs[k] = v[k].prov,
           NEW A \in Accums, A.runs = a.runs, A.tables = IF v # <<>> THEN v ELSE a.tables
    PROVE  LiveOf(Append(d, e), A, t) /\ TrailOf(Append(d, e), t)
<1> DEFINE D == Append(d, e)
           S == {t}
           f == Finalize(ResolveAll(args, top, a.runs))
           n == Len(d)
<1>1. /\ t \in Nat /\ Honest(d, a.tables)
      /\ \A g \in Blueprints : a.runs[g] # NoRun => RanIn(d, t, g, a.runs[g].sql, a.runs[g].badge)
      /\ ReplayableIn(d, S) => /\ \A g \in Blueprints : Same(a.runs[g], RunsIn(d, S)[g])
                               /\ Replay(d, t, S) = Plain(a.tables)
  BY DEF LiveOf
<1>2. D \in Seq(Records) /\ n + 1 \in DOMAIN D /\ D[n + 1] = e
  BY Grown
<1>3. a.runs \in RunMaps /\ Backs(d, a.runs)
  BY <1>1, RanHolds DEF Accums, Backs
<1>4. /\ \A k \in DOMAIN v : v[k].badge # "none" => Holds(d, v[k].bp, v[k].sql, v[k].badge)
      /\ Open(args, top) => /\ \A k \in DOMAIN v : v[k].prov = "open"
                            /\ Plain(v) = Marked(f, a.runs)
  BY <1>3, LiveIn
<1>5. Honest(D, A.tables)
  <2>1. Honest(d, v)
    BY <1>4 DEF Honest
  <2> QED
    BY <1>1, <2>1, HonestGrows
<1>6. \A g \in Blueprints : A.runs[g] # NoRun => RanIn(D, t, g, A.runs[g].sql, A.runs[g].badge)
  BY <1>1, RanGrows
<1>7. t \in S /\ S = {t}
  OBVIOUS
<1> HIDE DEF S
<1>8. ASSUME ReplayableIn(D, S)
      PROVE  /\ \A g \in Blueprints : Same(A.runs[g], RunsIn(D, S)[g])
             /\ Replay(D, t, S) = Plain(A.tables)
  <2> DEFINE R == RunsIn(D, S)
  <2>1. ReplayableIn(d, S)
    BY <1>8, GrownReplays
  <2>2. R = RunsIn(d, S) /\ R \in RunMaps
    BY <1>2, GrownRuns, RunsInFacts
  <2>3. \A g \in Blueprints : Same(a.runs[g], R[g])
    BY <1>1, <2>1, <2>2
  <2>4. Open(args, top)
    BY <1>2, <1>7, <1>8 DEF ReplayableIn
  <2>5. Plain(v) = Marked(f, a.runs)
    BY <1>4, <2>4
  <2>6. ResolveAll(args, top, a.runs) = ResolveAll(args, top, R)
        /\ Marked(f, a.runs) = Marked(Finalize(ResolveAll(args, top, R)), R)
    <3> HIDE DEF R
    <3> QED
      BY <1>3, <2>2, <2>3, SameAgree
  <2>7. Final(D, n + 1, R) = f
    BY <1>2, <2>6 DEF Final
  <2>8. Plain(v) = Marked(f, R)
    BY <2>5, <2>6
  <2>9. v = <<>> <=> f = <<>>
    <3>1. v \in Seq(Tables)
      BY <1>3, LiveIn
    <3>2. f \in Seq(Resolvable)
      BY <1>3, FinalIn
    <3>3. DOMAIN Plain(v) = DOMAIN v /\ DOMAIN Marked(f, R) = DOMAIN f
      BY DEF Plain, Marked
    <3>4. DOMAIN v = DOMAIN f
      BY <2>8, <3>3
    <3> HIDE DEF f
    <3> QED
      BY <3>1, <3>2, <3>4
  <2>10. /\ Final(D, n + 1, R) # <<>> => LastDesignation(D, t, R) = n + 1
         /\ Final(D, n + 1, R) = <<>> => LastDesignation(D, t, R) = LastDesignation(d, t, R)
    BY GrownLast
  <2>11. /\ Replay(D, t, S) = LET i == LastDesignation(D, t, R)
                              IN  IF i = 0 THEN <<>> ELSE Marked(Final(D, i, R), R)
         /\ Replay(d, t, S) = LET i == LastDesignation(d, t, R)
                              IN  IF i = 0 THEN <<>> ELSE Marked(Final(d, i, R), R)
    BY <2>2 DEF Replay
  <2>12. LastDesignation(d, t, R) = 0 \/ LastDesignation(d, t, R) \in Taken(d, t)
    BY LastFacts
  <2>13. \A i \in Taken(d, t) : Final(D, i, R) = Final(d, i, R)
    BY GrownTaken DEF Final
  <2>14. n \in Nat
    OBVIOUS
  <2>15. SUFFICES Replay(D, t, S) = Plain(A.tables)
    BY <2>3
  <2> HIDE DEF R, f, D, n
  <2>16. CASE v # <<>>
    <3>1. LastDesignation(D, t, R) = n + 1 /\ n + 1 # 0
      BY <2>7, <2>9, <2>10, <2>14, <2>16
    <3> QED
      BY <2>7, <2>8, <2>11, <2>16, <3>1
  <2>17. CASE v = <<>>
    <3>1. LastDesignation(D, t, R) = LastDesignation(d, t, R)
      BY <2>7, <2>9, <2>10, <2>17
    <3>2. Replay(D, t, S) = Replay(d, t, S)
      BY <2>11, <2>12, <2>13, <3>1
    <3> QED
      BY <1>1, <2>1, <2>17, <3>2
  <2> QED
    BY <2>16, <2>17
<1>9. LiveOf(D, A, t)
  BY <1>1, <1>5, <1>6, <1>7, <1>8 DEF LiveOf
<1>10. TrailOf(D, t)
  <2>1. \A k \in DOMAIN Candidates(e.args, e.top) :
           \/ Candidates(e.args, e.top)[k].sql # NoText
           \/ \E j \in DOMAIN d : /\ d[j].kind = "run" /\ d[j].turn = e.turn
                                  /\ d[j].bp = Candidates(e.args, e.top)[k].bp
    BY CallFounded
  <2>2. /\ Ordered(D) /\ Founded(D) /\ \A i \in DOMAIN D : D[i].turn \in 0..t
    BY <2>1, GrownInOrder DEF TrailOf
  <2>3. \A i \in DOMAIN D : D[i] = e \/ (i \in DOMAIN d /\ D[i] = d[i])
    BY GrownEntries
  <2>4. Open(e.args, e.top) => AllOpen(e)
    BY <1>4 DEF AllOpen
  <2> HIDE DEF D
  <2> QED
    BY <1>2, <2>2, <2>3, <2>4 DEF TrailOf
<1> QED
  BY <1>9, <1>10

LEMMA TrailRuns ==
    ASSUME NEW d, NEW t, TrailOf(d, t), NEW e \in Records, e.kind = "run", e.turn = t
    PROVE  TrailOf(Append(d, e), t)
<1> DEFINE D == Append(d, e)
<1>1. d \in Seq(Records)
  BY DEF TrailOf
<1>2. D \in Seq(Records)
  BY <1>1, Grown
<1>3. /\ Ordered(D) /\ Founded(D) /\ \A i \in DOMAIN D : D[i].turn \in 0..t
  BY <1>1, GrownInOrder DEF TrailOf
<1>4. \A i \in DOMAIN D : D[i] = e \/ (i \in DOMAIN d /\ D[i] = d[i])
  BY <1>1, GrownEntries
<1>5. /\ D[Len(d) + 1] = e
      /\ \A i \in DOMAIN d : d[i].kind = "answer" /\ d[i].ok /\ Open(d[i].args, d[i].top) => AllOpen(d[i])
  BY <1>1, Grown DEF TrailOf
<1> HIDE DEF D
<1>6. \A i \in DOMAIN D :
         D[i].kind = "answer" /\ D[i].ok /\ Open(D[i].args, D[i].top) => AllOpen(D[i])
  BY <1>4, <1>5
<1>7. TrailOf(D, t)
  BY <1>2, <1>3, <1>6, Zenon DEF TrailOf
<1> QED
  BY <1>7 DEF D

LEMMA NewRunIn ==
    ASSUME NEW g \in Blueprints, NEW s \in Slots, NEW badge \in {"passed", "empty"}
    PROVE  NewRun(g, s, badge) \in Runs
BY DEF NewRun, Terminal, Runs

LEMMA RunEntryIn ==
    ASSUME last \in Nat, NEW g \in Blueprints, NEW run \in Runs, NEW s \in Slots \cup {0}
    PROVE  /\ RunEntry(g, run, s) \in Records
           /\ RunEntry(g, run, s).kind = "run" /\ RunEntry(g, run, s).turn = last
           /\ RunEntry(g, run, s).kept /\ RunEntry(g, run, s).bp = g /\ RunEntry(g, run, s).run = run
BY DEF RunEntry, Records

---------------------------------------------------------------------------
(* The steps                                                               *)
LEMMA InvFacts ==
    ASSUME AnswersInv
    PROVE  /\ accum \in Accums /\ shown \in Seq(Answered) /\ rec \in Seq(Records)
           /\ TrailOf(rec, last) /\ last \in Int /\ last \in -1..(MaxQuestions - 1)
           /\ phase \in {"idle", "run", "question", "approval"} /\ narrow \in BOOLEAN
           /\ phase # "idle" => last \in Nat /\ LiveOf(rec, accum, last)
           /\ \A n \in DOMAIN shown : /\ shown[n] \in Answered /\ shown[n].turn \in 0..last
                                      /\ shown[n].turn = last => phase = "idle"
                                      /\ Said(rec, shown[n])
<1>1. accum \in Accums /\ shown \in Seq(Answered) /\ TrailOf(rec, last) /\ TablesTypeOK
      /\ (phase # "idle" => LiveOf(rec, accum, last))
  BY DEF AnswersInv
<1>2. rec \in Seq(Records) /\ last \in -1..(MaxQuestions - 1) /\ narrow \in BOOLEAN
      /\ phase \in {"idle", "run", "question", "approval"}
  BY <1>1 DEF TablesTypeOK
<1>3. last \in Int
  BY <1>2, TablesAssumption
<1>4. phase # "idle" => last \in Nat
  BY <1>1 DEF LiveOf
<1>5. \A n \in DOMAIN shown : shown[n] \in Answered
  BY <1>1
<1>6. \A n \in DOMAIN shown : /\ shown[n].turn \in 0..last
                              /\ shown[n].turn = last => phase = "idle"
                              /\ Said(rec, shown[n])
  BY DEF AnswersInv
<1>7. \A n \in DOMAIN shown : /\ shown[n] \in Answered /\ shown[n].turn \in 0..last
                              /\ shown[n].turn = last => phase = "idle"
                              /\ Said(rec, shown[n])
  BY <1>5, <1>6
<1>8. phase # "idle" => last \in Nat /\ LiveOf(rec, accum, last)
  BY <1>1, <1>4
<1> QED
  BY <1>1, <1>2, <1>3, <1>7, <1>8, Zenon

(* The answers of earlier turns do not see what the open turn records.     *)
LEMMA EarlierTold ==
    ASSUME AnswersInv, phase # "idle", NEW e \in Records, e.turn = last
    PROVE  \A n \in DOMAIN shown : Said(Append(rec, e), shown[n])
<1> SUFFICES ASSUME NEW n \in DOMAIN shown PROVE Said(Append(rec, e), shown[n])
  OBVIOUS
<1> DEFINE x == shown[n]
<1>1. rec \in Seq(Records) /\ x \in Answered /\ Said(rec, x) /\ x.turn # e.turn
  BY InvFacts
<1> HIDE DEF x
<1>2. Said(Append(rec, e), x)
  BY <1>1, ToldGrows
<1> QED
  BY <1>2 DEF x

LEMMA KeepsStutter == AnswersInv /\ UNCHANGED tablesVars => AnswersInv'
<1> SUFFICES ASSUME AnswersInv, UNCHANGED tablesVars PROVE AnswersInv'
  OBVIOUS
<1>1. /\ rec' = rec /\ accum' = accum /\ last' = last /\ phase' = phase /\ asked' = asked
      /\ narrow' = narrow /\ shown' = shown
  BY DEF tablesVars
<1> QED
  BY <1>1 DEF AnswersInv, TablesTypeOK

LEMMA KeepsAsk == AnswersInv /\ AskTurn => AnswersInv'
<1> SUFFICES ASSUME AnswersInv, AskTurn PROVE AnswersInv'
  OBVIOUS
<1>1. /\ phase = "idle" /\ last + 1 < MaxQuestions /\ last' = last + 1 /\ phase' = "run"
      /\ accum' = EmptyAccum /\ narrow' \in BOOLEAN /\ rec' = rec /\ asked' = asked /\ shown' = shown
  BY DEF AskTurn
<1>2. /\ TrailOf(rec, last) /\ last \in -1..(MaxQuestions - 1) /\ MaxQuestions \in Nat
      /\ shown \in Seq(Answered) /\ rec \in Seq(Records)
  BY InvFacts, TablesAssumption
<1>3. last + 1 \in Nat /\ last \in Int /\ last' \in -1..(MaxQuestions - 1)
  BY <1>1, <1>2
<1>4. LiveOf(rec, EmptyAccum, last + 1)
  BY <1>2, <1>3, LiveAsks
<1>5. TrailOf(rec, last + 1)
  <2>1. \A i \in DOMAIN rec : rec[i].turn \in 0..(last + 1)
    BY <1>2, <1>3 DEF TrailOf
  <2> QED
    BY <1>2, <2>1 DEF TrailOf
<1>6. \A n \in DOMAIN shown :
         shown[n].turn \in 0..(last + 1) /\ shown[n].turn # last + 1 /\ Said(rec, shown[n])
  BY <1>3, InvFacts
<1>7. TablesTypeOK' /\ accum' \in Accums
  BY <1>1, <1>2, <1>3, EmptyFacts DEF TablesTypeOK, Accums
<1> QED
  BY <1>1, <1>2, <1>4, <1>5, <1>6, <1>7 DEF AnswersInv

LEMMA KeepsRun == AnswersInv /\ RunBlueprint => AnswersInv'
<1> SUFFICES ASSUME AnswersInv, RunBlueprint PROVE AnswersInv'
  OBVIOUS
<1>1. PICK g \in Blueprints, s \in Slots, badge \in {"passed", "empty"} :
         /\ rec' = Append(rec, RunEntry(g, NewRun(g, s, badge), s))
         /\ accum' = Ran(accum, g, NewRun(g, s, badge))
  BY DEF RunBlueprint
<1>2. phase = "run" /\ phase' = phase /\ last' = last /\ asked' = asked /\ narrow' = narrow
      /\ shown' = shown
  BY DEF RunBlueprint
<1> DEFINE run == NewRun(g, s, badge)
           e == RunEntry(g, run, s)
<1>3. /\ accum \in Accums /\ shown \in Seq(Answered) /\ rec \in Seq(Records)
      /\ TrailOf(rec, last) /\ last \in -1..(MaxQuestions - 1) /\ last \in Nat /\ LiveOf(rec, accum, last)
      /\ narrow \in BOOLEAN /\ phase # "idle"
      /\ \A n \in DOMAIN shown : shown[n].turn \in 0..last /\ shown[n].turn # last
  BY <1>2, InvFacts
<1>4. run \in Runs
  BY NewRunIn
<1>5. e \in Records /\ e.kind = "run" /\ e.turn = last /\ e.kept /\ e.bp = g /\ e.run = run
  BY <1>3, <1>4, RunEntryIn
<1>6. rec' = Append(rec, e) /\ accum' = Ran(accum, e.bp, e.run)
  BY <1>1, <1>5
<1> HIDE DEF e, run
<1>7. LiveOf(rec', accum', last) /\ accum' \in Accums
  BY <1>3, <1>5, <1>6, LiveRuns
<1>8. TrailOf(rec', last)
  BY <1>3, <1>5, <1>6, TrailRuns
<1>9. \A n \in DOMAIN shown : Said(rec', shown[n])
  BY <1>3, <1>5, <1>6, EarlierTold
<1>10. TablesTypeOK'
  BY <1>2, <1>3, <1>7, <1>8 DEF TablesTypeOK, Accums, TrailOf
<1> QED
  BY <1>2, <1>3, <1>7, <1>8, <1>9, <1>10 DEF AnswersInv

LEMMA KeepsRefuse == AnswersInv /\ RefuseDesignation => AnswersInv'
<1> SUFFICES ASSUME AnswersInv, RefuseDesignation PROVE AnswersInv'
  OBVIOUS
<1>1. PICK d \in Designations : rec' = Append(rec, AnswerEntry(d, FALSE, <<>>))
  BY DEF RefuseDesignation
<1>2. phase = "run" /\ phase' = phase /\ last' = last /\ asked' = asked /\ narrow' = narrow
      /\ shown' = shown /\ accum' = accum
  BY DEF RefuseDesignation
<1> DEFINE e == AnswerEntry(d, FALSE, <<>>)
<1>3. /\ accum \in Accums /\ shown \in Seq(Answered) /\ rec \in Seq(Records)
      /\ TrailOf(rec, last) /\ last \in -1..(MaxQuestions - 1) /\ last \in Nat /\ LiveOf(rec, accum, last)
      /\ narrow \in BOOLEAN /\ phase # "idle"
      /\ \A n \in DOMAIN shown : shown[n].turn \in 0..last /\ shown[n].turn # last
  BY <1>2, InvFacts
<1>4. e \in Records /\ e.kind = "answer" /\ e.turn = last /\ ~e.ok
  <2>1. <<>> \in Seq({"open", "hidden"}) /\ d.args \in Seq(Items) /\ d.top \in Items
    BY TablesAssumption
  <2> QED
    BY <1>3, <2>1 DEF AnswerEntry, Records
<1>5. rec' = Append(rec, e)
  BY <1>1
<1> HIDE DEF e
<1>6. LiveOf(rec', accum, last) /\ TrailOf(rec', last)
  BY <1>3, <1>4, <1>5, Refused
<1>7. \A n \in DOMAIN shown : Said(rec', shown[n])
  BY <1>3, <1>4, <1>5, EarlierTold
<1>8. TablesTypeOK'
  BY <1>2, <1>3, <1>6 DEF TablesTypeOK, Accums, TrailOf
<1> QED
  BY <1>2, <1>3, <1>6, <1>7, <1>8 DEF AnswersInv

LEMMA KeepsDesignate == AnswersInv /\ Designate => AnswersInv'
<1> SUFFICES ASSUME AnswersInv, Designate PROVE AnswersInv'
  OBVIOUS
<1>1. PICK d \in Designations, ok \in BOOLEAN :
         /\ ~Unresolved(d.args, d.top, accum.runs)
         /\ LET tables == LiveTables(d.args, d.top, accum.runs)
                provs == [i \in DOMAIN tables |-> tables[i].prov]
            IN  /\ rec' = Append(rec, AnswerEntry(d, ok, provs))
                /\ accum' = IF ok /\ tables # <<>>
                            THEN [accum EXCEPT !.tables = tables] ELSE accum
  BY DEF Designate
<1>2. phase = "run" /\ phase' = phase /\ last' = last /\ asked' = asked /\ narrow' = narrow
      /\ shown' = shown
  BY DEF Designate
<1> DEFINE v == LiveTables(d.args, d.top, accum.runs)
           p == [i \in DOMAIN v |-> v[i].prov]
           e == AnswerEntry(d, ok, p)
           args == d.args
           top == d.top
<1>3. /\ accum \in Accums /\ shown \in Seq(Answered) /\ rec \in Seq(Records)
      /\ TrailOf(rec, last) /\ last \in -1..(MaxQuestions - 1) /\ last \in Nat /\ LiveOf(rec, accum, last)
      /\ narrow \in BOOLEAN /\ phase # "idle"
      /\ \A n \in DOMAIN shown : shown[n].turn \in 0..last /\ shown[n].turn # last
  BY <1>2, InvFacts
<1>4. args \in Seq(Items) /\ top \in Items
  BY TablesAssumption
<1>5. accum.runs \in RunMaps /\ Backs(rec, accum.runs)
  BY <1>3, RanHolds DEF Accums, Backs, LiveOf
<1>6. rec' = Append(rec, e) /\ accum' = IF ok /\ v # <<>> THEN [accum EXCEPT !.tables = v] ELSE accum
  BY <1>1
<1>7. ~Unresolved(args, top, accum.runs) /\ v = LiveTables(args, top, accum.runs)
  BY <1>1
<1> HIDE DEF v, args, top
<1>8. v \in Seq(Tables) /\ \A k \in DOMAIN v : v[k].prov \in {"open", "hidden"}
  BY <1>4, <1>5, <1>7, LiveIn
<1>9. p \in Seq({"open", "hidden"})
  <2> DEFINE n == Len(v)
  <2>1. n \in Nat /\ DOMAIN v = 1..n
    BY <1>8
  <2> HIDE DEF n
  <2> QED
    BY <1>8, <2>1
<1>10. /\ e \in Records /\ e.kind = "answer" /\ e.turn = last /\ e.ok = ok
       /\ e.args = args /\ e.top = top /\ e.provs = p
  BY <1>3, <1>4, <1>9 DEF AnswerEntry, Records, args, top
<1>11. DOMAIN p = DOMAIN v /\ \A k \in DOMAIN v : p[k] = v[k].prov
  OBVIOUS
<1> HIDE DEF e, p
<1>12. accum' \in Accums /\ accum'.runs = accum.runs
       /\ accum'.tables = IF ok /\ v # <<>> THEN v ELSE accum.tables
  BY <1>3, <1>6, <1>8 DEF Accums
<1>13. LiveOf(rec', accum', last) /\ TrailOf(rec', last)
  <2>1. CASE ok
    <3> DEFINE A == accum'
    <3>1. A \in Accums /\ A.runs = accum.runs /\ A.tables = IF v # <<>> THEN v ELSE accum.tables
      BY <1>12, <2>1
    <3>2. DOMAIN e.provs = DOMAIN v /\ \A k \in DOMAIN v : e.provs[k] = v[k].prov
      BY <1>10, <1>11
    <3>3. e.ok
      BY <1>10, <2>1
    <3> HIDE DEF A
    <3>4. LiveOf(Append(rec, e), A, last) /\ TrailOf(Append(rec, e), last)
      BY <1>3, <1>4, <1>7, <1>10, <3>1, <3>2, <3>3, Accepted
    <3> QED
      BY <1>6, <3>4 DEF A
  <2>2. CASE ~ok
    <3>1. accum' = accum /\ ~e.ok
      BY <1>6, <1>10, <2>2
    <3>2. LiveOf(Append(rec, e), accum, last) /\ TrailOf(Append(rec, e), last)
      BY <1>3, <1>10, <3>1, Refused
    <3> QED
      BY <1>6, <3>1, <3>2
  <2> QED
    BY <2>1, <2>2
<1>14. \A n \in DOMAIN shown : Said(rec', shown[n])
  BY <1>3, <1>6, <1>10, EarlierTold
<1>15. TablesTypeOK'
  BY <1>2, <1>3, <1>12, <1>13 DEF TablesTypeOK, Accums, TrailOf
<1> QED
  BY <1>2, <1>3, <1>12, <1>13, <1>14, <1>15 DEF AnswersInv

LEMMA KeepsPause == AnswersInv /\ (Pause \/ PauseForApproval) => AnswersInv'
<1> SUFFICES ASSUME AnswersInv, Pause \/ PauseForApproval PROVE AnswersInv'
  OBVIOUS
<1>1. /\ phase = "run" /\ phase' \in {"question", "approval"}
      /\ rec' = rec /\ accum' = accum /\ last' = last /\ narrow' = narrow /\ shown' = shown
      /\ phase' = "approval" => asked' \in Blueprints \X Slots
  BY DEF Pause, PauseForApproval
<1> QED
  BY <1>1 DEF AnswersInv, TablesTypeOK

LEMMA KeepsContinue == AnswersInv /\ Continue => AnswersInv'
<1> SUFFICES ASSUME AnswersInv, Continue PROVE AnswersInv'
  OBVIOUS
<1>1. /\ phase = "question" /\ phase' = "run" /\ narrow' \in BOOLEAN
      /\ accum' = Accumulators(Rebuilt(rec, last).tables, Rebuilt(rec, last).runs, "none", "none")
      /\ rec' = rec /\ last' = last /\ asked' = asked /\ shown' = shown
  BY DEF Continue
<1>2. /\ shown \in Seq(Answered) /\ rec \in Seq(Records) /\ TrailOf(rec, last)
      /\ last \in -1..(MaxQuestions - 1) /\ last \in Nat
      /\ \A n \in DOMAIN shown : /\ shown[n].turn \in 0..last /\ shown[n].turn # last
                                 /\ Said(rec, shown[n])
  BY <1>1, InvFacts
<1>3. accum' \in Accums /\ LiveOf(rec, accum', last)
  BY <1>1, <1>2, LiveRebuilt
<1>4. TablesTypeOK'
  BY <1>1, <1>2, <1>3 DEF TablesTypeOK, Accums
<1> QED
  BY <1>1, <1>2, <1>3, <1>4 DEF AnswersInv

LEMMA KeepsApprove == AnswersInv /\ Approve => AnswersInv'
<1> SUFFICES ASSUME AnswersInv, Approve PROVE AnswersInv'
  OBVIOUS
<1>1. PICK badge \in {"passed", "empty"} :
         LET run == NewRun(asked[1], asked[2], badge)
             d == Append(rec, RunEntry(asked[1], run, 0))
             r == Rebuilt(d, last)
         IN  /\ rec' = d
             /\ accum' = Ran(Accumulators(r.tables, r.runs, "none", "none"), asked[1], run)
  BY DEF Approve
<1>2. /\ phase = "approval" /\ phase' = "run" /\ narrow' \in BOOLEAN
      /\ last' = last /\ shown' = shown
  BY DEF Approve
<1> DEFINE g == asked[1]
           run == NewRun(g, asked[2], badge)
           e == RunEntry(g, run, 0)
<1>3. /\ shown \in Seq(Answered) /\ rec \in Seq(Records) /\ TrailOf(rec, last)
      /\ last \in -1..(MaxQuestions - 1) /\ last \in Nat /\ phase # "idle"
      /\ \A n \in DOMAIN shown : shown[n].turn \in 0..last /\ shown[n].turn # last
  BY <1>2, InvFacts
<1>4. g \in Blueprints /\ asked[2] \in Slots
  BY <1>2 DEF AnswersInv
<1>5. run \in Runs
  BY <1>4, NewRunIn
<1>6. e \in Records /\ e.kind = "run" /\ e.turn = last /\ e.kept /\ e.bp = g /\ e.run = run
  BY <1>3, <1>4, <1>5, RunEntryIn
<1> DEFINE D == Append(rec, e)
           a == Accumulators(Rebuilt(D, last).tables, Rebuilt(D, last).runs, "none", "none")
<1>7. rec' = D /\ accum' = Ran(a, e.bp, e.run)
  BY <1>1, <1>6
<1>8. D = Append(rec, e)
      /\ a = Accumulators(Rebuilt(D, last).tables, Rebuilt(D, last).runs, "none", "none")
  OBVIOUS
<1> HIDE DEF a, D, e, run, g
<1>9. LiveOf(D, Ran(a, e.bp, e.run), last) /\ Ran(a, e.bp, e.run) \in Accums
  BY <1>3, <1>6, <1>8, LiveApproves
<1>10. TrailOf(D, last)
  BY <1>3, <1>6, <1>8, TrailRuns
<1>11. \A n \in DOMAIN shown : Said(D, shown[n])
  BY <1>3, <1>6, <1>8, EarlierTold
<1>12. TablesTypeOK'
  BY <1>2, <1>3, <1>7, <1>9, <1>10 DEF TablesTypeOK, Accums, TrailOf
<1> QED
  BY <1>2, <1>3, <1>7, <1>9, <1>10, <1>11, <1>12 DEF AnswersInv

(* The answer is what the loop holds, or what the trail tells.             *)
LEMMA Ends ==
    ASSUME AnswersInv, phase # "idle", phase' = "idle",
           NEW a \in Accums, LiveOf(rec, a, last),
           shown' = Append(shown, AnswerOf(Envelope(a))),
           accum' = EmptyAccum, rec' = rec, last' = last, asked' = asked, narrow' = narrow
    PROVE  AnswersInv'
<1> DEFINE x == AnswerOf(Envelope(a))
           n == Len(shown)
<1>1. /\ shown \in Seq(Answered) /\ rec \in Seq(Records) /\ TrailOf(rec, last)
      /\ last \in -1..(MaxQuestions - 1) /\ last \in Nat /\ narrow \in BOOLEAN
      /\ \A k \in DOMAIN shown : shown[k].turn \in 0..last /\ Said(rec, shown[k])
  BY InvFacts
<1>2. Envelope(a) \in Envelopes
  BY EnvelopeIn
<1>3. x \in Answered /\ x.turn = last /\ x.env = Envelope(a)
  BY <1>1, <1>2 DEF AnswerOf, Answered
<1>4. shown' = Append(shown, x)
  OBVIOUS
<1> HIDE DEF x
<1>5. Said(rec, x)
  BY <1>3, ToldNow
<1>6. /\ shown' \in Seq(Answered)
      /\ \A k \in DOMAIN shown' : shown'[k] = x \/ (k \in DOMAIN shown /\ shown'[k] = shown[k])
  <2>1. n \in Nat /\ DOMAIN shown = 1..n /\ DOMAIN Append(shown, x) = 1..(n + 1)
        /\ \A k \in 1..(n + 1) : Append(shown, x)[k] = IF k = n + 1 THEN x ELSE shown[k]
    BY <1>1, <1>3
  <2>2. Append(shown, x) \in Seq(Answered)
    BY <1>1, <1>3
  <2> HIDE DEF n
  <2> QED
    BY <1>4, <2>1, <2>2
<1>7. \A k \in DOMAIN shown' : shown'[k].turn \in 0..last /\ Said(rec, shown'[k])
  BY <1>1, <1>3, <1>5, <1>6
<1>8. TablesTypeOK' /\ EmptyAccum \in Accums
  BY <1>1, EmptyFacts DEF TablesTypeOK, Accums
<1> QED
  BY <1>1, <1>6, <1>7, <1>8 DEF AnswersInv

LEMMA KeepsFinish == AnswersInv /\ Finish => AnswersInv'
<1> SUFFICES ASSUME AnswersInv, Finish PROVE AnswersInv'
  OBVIOUS
<1>1. /\ phase = "run" /\ phase' = "idle" /\ shown' = Append(shown, AnswerOf(Envelope(accum)))
      /\ accum' = EmptyAccum /\ rec' = rec /\ last' = last /\ asked' = asked /\ narrow' = narrow
  BY DEF Finish
<1>2. accum \in Accums /\ LiveOf(rec, accum, last)
  BY <1>1, InvFacts
<1> DEFINE a == accum
<1>3. a \in Accums /\ LiveOf(rec, a, last) /\ shown' = Append(shown, AnswerOf(Envelope(a)))
      /\ phase # "idle"
  BY <1>1, <1>2
<1> HIDE DEF a
<1> QED
  BY <1>1, <1>3, Ends

(* Without its runs, an accumulator shows the same.                        *)
LEMMA KeepsStop == AnswersInv /\ Stop => AnswersInv'
<1> SUFFICES ASSUME AnswersInv, Stop PROVE AnswersInv'
  OBVIOUS
<1> DEFINE a == Accumulators(Rebuilt(rec, last).tables, Rebuilt(rec, last).runs, "none", "none")
           c == Accumulators(Rebuilt(rec, last).tables, NoRuns, "none", "none")
<1>1. /\ phase = "question" /\ phase' = "idle" /\ shown' = Append(shown, AnswerOf(Envelope(c)))
      /\ accum' = EmptyAccum /\ rec' = rec /\ last' = last /\ asked' = asked /\ narrow' = narrow
  BY DEF Stop
<1>2. rec \in Seq(Records) /\ last \in Nat
  BY <1>1, InvFacts
<1>3. a \in Accums /\ LiveOf(rec, a, last)
  BY <1>2, LiveRebuilt
<1>4. Envelope(c) = Envelope(a)
  BY DEF Envelope, Accumulators
<1>5. shown' = Append(shown, AnswerOf(Envelope(a))) /\ phase # "idle"
  BY <1>1, <1>4
<1> HIDE DEF a, c
<1> QED
  BY <1>1, <1>3, <1>5, Ends

LEMMA KeepsExpire == AnswersInv /\ ExpireResult => AnswersInv'
<1> SUFFICES ASSUME AnswersInv, ExpireResult PROVE AnswersInv'
  OBVIOUS
<1>1. PICK i \in DOMAIN rec : rec[i].kind = "run" /\ rec' = [rec EXCEPT ![i].kept = FALSE]
  BY DEF ExpireResult
<1>2. /\ accum' = accum /\ last' = last /\ phase' = phase /\ asked' = asked /\ narrow' = narrow
      /\ shown' = shown
  BY DEF ExpireResult
<1>3. rec \in Seq(Records)
  BY InvFacts
<1>4. Forgets(rec, [rec EXCEPT ![i].kept = FALSE], i)
  BY <1>1, <1>3, ExpiryForgets
<1> DEFINE D == rec'
<1>5. Forgets(rec, D, i)
  BY <1>1, <1>4
<1> HIDE DEF D
<1>6. TrailOf(D, last)
  BY <1>5, InvFacts, ForgottenTrail
<1>7. phase # "idle" => LiveOf(D, accum, last)
  BY <1>5, InvFacts, LiveExpires
<1>8. \A n \in DOMAIN shown : Said(D, shown[n])
  BY <1>5, InvFacts, ToldExpires
<1>9. TablesTypeOK'
  BY <1>2, <1>6 DEF TablesTypeOK, AnswersInv, TrailOf, D
<1> QED
  BY <1>2, <1>6, <1>7, <1>8, <1>9 DEF AnswersInv, D

---------------------------------------------------------------------------
(* The theorems                                                            *)

(* The trail tells what the loop holds and what every answer showed, as    *)
(* far as it can still be replayed, and stands behind every badge.         *)
THEOREM AnswersInvariant == TablesSpec => []AnswersInv
<1>1. TablesInit => AnswersInv
  <2> SUFFICES ASSUME TablesInit PROVE AnswersInv
    OBVIOUS
  <2>1. /\ rec = <<>> /\ accum = EmptyAccum /\ last = -1 /\ phase = "idle"
        /\ narrow \in BOOLEAN /\ shown = <<>>
    BY DEF TablesInit
  <2>2. TrailOf(rec, last)
    BY <2>1 DEF TrailOf, Ordered, Founded
  <2>3. TablesTypeOK
    BY <2>1, EmptyFacts, TablesAssumption DEF TablesTypeOK, Accums
  <2> QED
    BY <2>1, <2>2, <2>3, EmptyFacts DEF AnswersInv
<1>2. AnswersInv /\ [TablesNext]_tablesVars => AnswersInv'
  BY KeepsStutter, KeepsAsk, KeepsRun, KeepsRefuse, KeepsDesignate, KeepsPause, KeepsContinue,
     KeepsApprove, KeepsFinish, KeepsStop, KeepsExpire DEF TablesNext
<1> QED
  BY <1>1, <1>2, PTL DEF TablesSpec

LEMMA HonestViews == AnswersInv => NoFalseBadge
<1> SUFFICES ASSUME AnswersInv, NEW v \in Views, NEW k \in DOMAIN v, v[k].badge # "none"
             PROVE  RanAs(v[k], v[k].badge)
  BY DEF NoFalseBadge
<1>1. rec \in Seq(Records)
  BY InvFacts
<1>2. CASE v = accum.tables
  <2>1. Honest(rec, v)
    <3>1. phase = "idle" => accum.tables = <<>>
      BY EmptyFacts DEF AnswersInv
    <3>2. phase # "idle" => Honest(rec, accum.tables)
      BY DEF AnswersInv, LiveOf
    <3> QED
      BY <1>2, <3>1, <3>2 DEF Honest
  <2> QED
    BY <2>1 DEF Honest, Holds, RanAs
<1>3. ASSUME NEW t \in 0..last, v = Rebuilt(rec, t).tables PROVE RanAs(v[k], v[k].badge)
  <2>1. Holds(rec, v[k].bp, v[k].sql, v[k].badge)
    BY <1>1, <1>3, RebuiltIn
  <2> QED
    BY <2>1 DEF Holds, RanAs
<1>4. ASSUME NEW t \in 0..last, v = History(rec, t) PROVE RanAs(v[k], v[k].badge)
  <2>1. Holds(rec, v[k].bp, v[k].sql, v[k].badge)
    BY <1>1, <1>4, HistoryIn
  <2> QED
    BY <2>1 DEF Holds, RanAs
<1> QED
  BY <1>2, <1>3, <1>4 DEF Views

LEMMA ReloadHonest == AnswersInv => ReloadKeepsTables
<1> SUFFICES ASSUME AnswersInv, Replayable(0..last), NEW n \in DOMAIN shown
             PROVE  Plain(History(rec, shown[n].turn)) = Plain(shown[n].env.tables)
  BY DEF ReloadKeepsTables
<1> DEFINE t == shown[n].turn
           S == {t}
<1>1. /\ rec \in Seq(Records) /\ TrailOf(rec, last) /\ last \in -1..(MaxQuestions - 1) /\ last \in Int
      /\ t \in 0..last /\ Said(rec, shown[n])
  BY InvFacts
<1>2. ReplayableIn(rec, 0..last)
  BY ReplayableIs
<1>3. ReplayableIn(rec, S)
  <2>1. \A u \in S : u \in 0..last
    BY <1>1
  <2> HIDE DEF S, t
  <2> QED
    BY <1>2, <2>1 DEF ReplayableIn
<1>4. Replay(rec, t, S) = Plain(shown[n].env.tables)
  BY <1>1, <1>3 DEF Said
<1> DEFINE N == last
<1>5. N \in Nat /\ N <= MaxQuestions /\ t \in 0..N /\ S = {t}
  BY <1>1, TablesAssumption
<1>6. /\ \A i \in DOMAIN rec : rec[i].turn \in 0..N
      /\ Ordered(rec) /\ Founded(rec) /\ ReplayableIn(rec, 0..N)
  BY <1>1, <1>2 DEF TrailOf
<1>7. \A i \in Taken(rec, t) : AllOpen(rec[i])
  <2> SUFFICES ASSUME NEW i \in Taken(rec, t) PROVE AllOpen(rec[i])
    OBVIOUS
  <2>1. i \in DOMAIN rec /\ rec[i].kind = "answer" /\ rec[i].ok /\ rec[i].turn = t
    BY DEF Taken
  <2>2. Open(rec[i].args, rec[i].top)
    BY <1>1, <1>2, <2>1 DEF ReplayableIn
  <2> QED
    BY <1>1, <2>1, <2>2 DEF TrailOf
<1> HIDE DEF N, t, S
<1>8. Replay(rec, t, {t}) = Replay(rec, t, 0..MaxQuestions)
  BY <1>1, <1>5, <1>6, OneStory
<1>9. Plain(History(rec, t)) = Replay(rec, t, 0..MaxQuestions)
  BY <1>1, <1>7, HistoryIn
<1> QED
  BY <1>4, <1>5, <1>8, <1>9 DEF t

(* No view of an answer verifies what was not verified, and a pause and a  *)
(* reload rebuild the tables that were shown.                              *)
THEOREM AnswersAreHonest == TablesSpec => []AnswersHonest
<1>1. AnswersInv => PassedMeansAll
  BY DEF AnswersInv, Said, PassedMeansAll, Holds, RanAs
<1>2. AnswersInv => PauseKeepsTables
  <2> SUFFICES ASSUME AnswersInv, phase \in {"run", "question", "approval"}, Replayable({last})
               PROVE  Plain(Rebuilt(rec, last).tables) = Plain(accum.tables)
    BY DEF PauseKeepsTables
  <2>1. rec \in Seq(Records) /\ LiveOf(rec, accum, last)
    BY InvFacts
  <2>2. ReplayableIn(rec, {last})
    BY ReplayableIs
  <2>3. Plain(Rebuilt(rec, last).tables) = Replay(rec, last, {last})
    BY <2>1, RebuiltIn
  <2> QED
    BY <2>1, <2>2, <2>3 DEF LiveOf
<1>3. AnswersInv => TablesTypeOK
  BY DEF AnswersInv
<1>4. AnswersInv => AnswersHonest
  BY <1>1, <1>2, <1>3, HonestViews, ReloadHonest DEF AnswersHonest
<1> QED
  BY <1>4, AnswersInvariant, PTL
=============================================================================
