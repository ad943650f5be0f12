---------------------------- MODULE ScopeProofs ----------------------------
(***************************************************************************)
(* What the semantic pass keeps true of its arrays for every program: the  *)
(* type invariant, the order of the depths, one slot for a name in a       *)
(* block, and that the arrays are blocks that nest.                        *)
(*                                                                         *)
(* The order of the depths does not carry itself over semantic_scope_pop,  *)
(* which cuts at the greatest slot of a smaller depth.  What does is that  *)
(* every depth splits the slots in use into those below it and the rest:   *)
(* the cut is then at one of the splits, and the others stay.              *)
(***************************************************************************)
EXTENDS SemanticScopeCorrect, SequenceTheorems, WellFoundedInduction, TLAPS

(* Searches.  Every finite set of numbers has a greatest one.              *)
LEMMA LeastOf ==
    ASSUME NEW S \in SUBSET Nat, S # {}
    PROVE  \E m \in S : \A n \in S : m <= n
<1>1. PICK m \in S : \A n \in S : <<n, m>> \notin OpToRel(<, Nat)
    BY NatLessThanWellFounded, WFMin
<1>2. \A n \in S : ~(n < m)
    BY <1>1 DEF OpToRel
<1> QED
    BY <1>2

LEMMA GreatestOf ==
    ASSUME NEW n \in Nat, NEW S \in SUBSET (0..n), S # {}
    PROVE  Max(S) \in S /\ \A y \in S : Max(S) >= y
<1> DEFINE T == {n - x : x \in S}
<1>1. T \in SUBSET Nat /\ T # {}
    OBVIOUS
<1> HIDE DEF T
<1>2. PICK m \in T : \A y \in T : m <= y
    BY <1>1, LeastOf
<1>3. PICK x \in S : m = n - x
    BY <1>2 DEF T
<1>4. \A y \in S : x >= y
    BY <1>2, <1>3 DEF T
<1> QED
    BY <1>3, <1>4 DEF Max
-----------------------------------------------------------------------------
InUse(s) == 1..s.active_len

Shallow(s) == \A i \in InUse(s) : s.entries[i].depth <= s.depth
SplitsAt(s, d, k) == \A i \in InUse(s) : i <= k <=> s.entries[i].depth < d
Split(s) == \A d \in 0..s.depth + 1 : \E k \in 0..s.active_len : SplitsAt(s, d, k)
Single(s) ==
    \A i, j \in InUse(s) :
        s.entries[i].name = s.entries[j].name /\ s.entries[i].depth = s.entries[j].depth => i = j
Placed(s) == \A i \in InUse(s) : s.entries[i].warn_unused => s.entries[i].at \in Positions

Good(s) ==
    /\ s \in Scope /\ s.active_len <= Len(s.entries)
    /\ Shallow(s) /\ Split(s) /\ Single(s) /\ Placed(s)

(* The inductive invariant.                                                *)
ScopeInv ==
    /\ Good(scope)
    /\ result \in Results(Names, Positions)
    /\ entering \in BOOLEAN /\ pending \in Seq(Names)

-----------------------------------------------------------------------------
(* The greatest number of an initial segment is its end.                   *)
LEMMA MaxOfSegment == ASSUME NEW k \in Nat PROVE Max(0..k) = k
<1> DEFINE Greatest(x) == x \in 0..k /\ \A y \in 0..k : x >= y
<1>1. Greatest(k)
    OBVIOUS
<1>2. ASSUME NEW x, Greatest(x) PROVE x = k
    BY <1>2
<1> QED
    BY <1>1, <1>2 DEF Max

LEMMA MinOfOne == ASSUME NEW k \in Nat PROVE Min({k}) = k
BY DEF Min

(* semantic_scope_pop cuts where the current depth splits the slots.       *)
LEMMA KeepSplits ==
    ASSUME NEW s, Good(s)
    PROVE  Keep(s) \in 0..s.active_len /\ SplitsAt(s, s.depth, Keep(s))
<1>1. s.depth \in Nat /\ s.active_len \in Nat
    BY DEF Good, Scope
<1>2. PICK k \in 0..s.active_len : SplitsAt(s, s.depth, k)
    BY <1>1 DEF Good, Split
<1>3. {0} \cup {i \in 1..s.active_len : s.entries[i].depth < s.depth} = 0..k
    BY <1>1, <1>2 DEF SplitsAt, InUse
<1>4. Max(0..k) = k
    BY MaxOfSegment
<1>5. Keep(s) = Max({0} \cup {i \in 1..s.active_len : s.entries[i].depth < s.depth})
    BY DEF Keep
<1>6. Keep(s) = k
    BY <1>3, <1>4, <1>5, Zenon
<1> QED
    BY <1>2, <1>6

(* A name that semantic_scope_find_current does not find has no slot.      *)
LEMMA NotFound ==
    ASSUME NEW s, Good(s), NEW x, find_current(s, x) = 0
    PROVE  Here(s, x) = {}
<1> SUFFICES ASSUME NEW j \in Here(s, x) PROVE FALSE
    OBVIOUS
<1>1. s.active_len \in Nat
    BY DEF Good, Scope
<1>2. Here(s, x) = {j}
    BY DEF Here, Good, Single, InUse
<1>3. j \in 1..s.active_len
    BY DEF Here
<1>4. Min({j}) = j
    BY <1>1, <1>3, MinOfOne
<1> QED
    BY <1>1, <1>2, <1>3, <1>4 DEF find_current

LEMMA EntryType ==
    ASSUME NEW s, s \in Scope, s.active_len <= Len(s.entries), NEW i \in InUse(s)
    PROVE  s.entries[i] \in Entry /\ s.entries[i].depth \in Nat
<1>1. s.entries \in Seq(Entry) /\ i \in 1..Len(s.entries)
    BY DEF Scope, InUse
<1>2. s.entries[i] \in Entry
    BY <1>1, ElementOfSeq
<1> QED
    BY <1>2 DEF Entry

LEMMA NewGood == Good(scope_new)
<1>1. scope_new \in Scope
    BY EmptySeq DEF scope_new, Scope
<1> QED
    BY <1>1, EmptySeq DEF scope_new, Good, Shallow, Split, SplitsAt, Single, Placed, InUse

LEMMA PushGood == ASSUME NEW s, Good(s) PROVE Good(scope_push(s))
<1> DEFINE t == scope_push(s)
<1>1. /\ s.depth \in Nat /\ s.active_len \in Nat /\ s.entries \in Seq(Entry)
      /\ t \in Scope /\ t.entries = s.entries
      /\ t.active_len = s.active_len /\ t.depth = s.depth + 1
    BY DEF Good, Scope, scope_push
<1>2. \A i \in InUse(s) : s.entries[i].depth \in Nat
    BY EntryType DEF Good
<1>3. InUse(t) = InUse(s)
    BY <1>1 DEF InUse
<1>4. Shallow(t)
    BY <1>1, <1>2, <1>3 DEF Good, Shallow
<1>5. Split(t)
  <2> SUFFICES ASSUME NEW d \in 0..t.depth + 1
               PROVE  \E k \in 0..t.active_len : SplitsAt(t, d, k)
      BY DEF Split
  <2>1. CASE d <= s.depth + 1
      BY <1>1, <1>3, <2>1 DEF Good, Split, SplitsAt
  <2>2. CASE d = s.depth + 2
    <3>1. SplitsAt(t, d, t.active_len)
        BY <1>1, <1>2, <1>3, <2>2 DEF SplitsAt, Good, Shallow, InUse
    <3> QED
        BY <1>1, <3>1
  <2> QED
      BY <1>1, <2>1, <2>2
<1> QED
    BY <1>1, <1>3, <1>4, <1>5 DEF Good, Single, Placed

LEMMA PopGood == ASSUME NEW s, Good(s) PROVE Good(scope_pop(s))
<1> DEFINE t == scope_pop(s)
<1> SUFFICES ASSUME s.depth > 0 PROVE Good(t)
    BY DEF scope_pop
<1>1. /\ s.depth \in Nat \ {0} /\ s.active_len \in Nat /\ s.entries \in Seq(Entry)
      /\ s.active_len <= Len(s.entries)
    BY DEF Good, Scope
<1>2. Keep(s) \in 0..s.active_len /\ SplitsAt(s, s.depth, Keep(s))
    BY KeepSplits
<1>3. /\ t \in Scope /\ t.entries = s.entries
      /\ t.active_len = Keep(s) /\ t.depth = s.depth - 1
  <2>1. t = [s EXCEPT !.active_len = Keep(s), !.depth = @ - 1]
      BY DEF scope_pop
  <2>2. Keep(s) \in Nat /\ s.depth - 1 \in Nat
      BY <1>1, <1>2
  <2> HIDE DEF t
  <2> QED
      BY <2>1, <2>2 DEF Good, Scope
<1>4. \A i \in InUse(s) : s.entries[i].depth \in Nat
    BY EntryType DEF Good
<1>5. InUse(t) \subseteq InUse(s)
    BY <1>1, <1>2, <1>3 DEF InUse
<1>6. Shallow(t)
    BY <1>1, <1>2, <1>3, <1>4, <1>5 DEF Shallow, SplitsAt, InUse
<1>7. Split(t)
  <2> SUFFICES ASSUME NEW d \in 0..t.depth + 1
               PROVE  \E k \in 0..t.active_len : SplitsAt(t, d, k)
      BY DEF Split
  <2>1. d \in 0..s.depth + 1
      BY <1>1, <1>3
  <2>2. PICK k \in 0..s.active_len : SplitsAt(s, d, k)
      BY <2>1 DEF Good, Split
  <2> DEFINE m == IF k <= Keep(s) THEN k ELSE Keep(s)
  <2>3. m \in 0..t.active_len
      BY <1>1, <1>2, <1>3, <2>2
  <2>4. SplitsAt(t, d, m)
      BY <1>1, <1>2, <1>3, <1>5, <2>2 DEF SplitsAt, InUse
  <2> QED
      BY <2>3, <2>4
<1>8. Single(t) /\ Placed(t)
    BY <1>3, <1>5 DEF Good, Single, Placed
<1> QED
    BY <1>1, <1>2, <1>3, <1>6, <1>7, <1>8 DEF Good

Resized(s, q, m) == [s EXCEPT !.entries = q, !.active_len = m]

LEMMA ResizedType ==
    \A s \in Scope, q \in Seq(Entry), m \in Nat :
        /\ Resized(s, q, m) \in Scope
        /\ Resized(s, q, m).entries = q
        /\ Resized(s, q, m).active_len = m
        /\ Resized(s, q, m).depth = s.depth
BY DEF Resized, Scope

(* The slot that is taken is the first one not in use.                     *)
LEMMA PlaceTakesNext ==
    ASSUME NEW s, Good(s), NEW e \in Entry, NEW t, t = Place(s, e)
    PROVE  /\ t \in Scope /\ t.depth = s.depth
           /\ t.active_len = s.active_len + 1 /\ t.active_len <= Len(t.entries)
           /\ t.entries[s.active_len + 1] = e
           /\ \A i \in 1..s.active_len : t.entries[i] = s.entries[i]
<1> DEFINE n == s.active_len
           q == IF n < Len(s.entries) THEN [s.entries EXCEPT ![n + 1] = e] ELSE Append(s.entries, e)
<1>1. /\ s.depth \in Nat /\ n \in Nat /\ s.entries \in Seq(Entry) /\ n <= Len(s.entries)
      /\ s \in Scope
    BY DEF Good, Scope
<1>2. /\ q \in Seq(Entry) /\ n + 1 <= Len(q)
      /\ q[n + 1] = e /\ \A i \in 1..n : q[i] = s.entries[i]
  <2>1. CASE n < Len(s.entries)
    <3>1. n + 1 \in 1..Len(s.entries)
        BY <1>1, <2>1
    <3> QED
        BY <1>1, <2>1, <3>1, ExceptSeq
  <2>2. CASE ~(n < Len(s.entries))
    <3>1. q = Append(s.entries, e) /\ n = Len(s.entries)
        BY <1>1, <2>2
    <3> QED
        BY <1>1, <3>1
  <2> QED
      BY <2>1, <2>2
<1>3. t = Resized(s, q, n + 1)
    BY DEF Place, Resized
<1>4. n + 1 \in Nat /\ q \in Seq(Entry) /\ s \in Scope
    BY <1>2, <1>1
<1> HIDE DEF q
<1>5. t \in Scope /\ t.entries = q
    BY <1>3, <1>4, ResizedType
<1>6. t.active_len = n + 1 /\ t.depth = s.depth
    BY <1>3, <1>4, ResizedType
<1> QED
    BY <1>2, <1>5, <1>6

(* A slot taken by a name that has none in the current block.              *)
LEMMA PlaceGood ==
    ASSUME NEW s, Good(s), NEW e \in Entry, e.depth = s.depth, Here(s, e.name) = {},
           e.warn_unused => e.at \in Positions
    PROVE  Good(Place(s, e))
<1> DEFINE t == Place(s, e)
           n == s.active_len
<1>1. /\ s.depth \in Nat /\ n \in Nat /\ s.entries \in Seq(Entry) /\ n <= Len(s.entries)
      /\ s \in Scope
    BY DEF Good, Scope
<1>2. t \in Scope /\ t.active_len = n + 1 /\ t.depth = s.depth /\ n + 1 <= Len(t.entries)
    BY PlaceTakesNext
<1>3. t.entries[n + 1] = e /\ \A i \in 1..n : t.entries[i] = s.entries[i]
    BY PlaceTakesNext
<1> HIDE DEF t
<1>4. InUse(t) = InUse(s) \cup {n + 1} /\ InUse(s) = 1..n
    BY <1>1, <1>2 DEF InUse
<1>5. Shallow(t)
  <2> SUFFICES ASSUME NEW i \in InUse(t) PROVE t.entries[i].depth <= t.depth
      BY DEF Shallow
  <2>1. CASE i \in InUse(s)
      BY <1>3, <1>2, <1>4, <2>1 DEF Good, Shallow
  <2>2. CASE i = n + 1
      BY <1>3, <1>1, <1>2, <2>2
  <2> QED
      BY <1>4, <2>1, <2>2
<1>6. Split(t)
  <2> SUFFICES ASSUME NEW d \in 0..s.depth + 1
               PROVE  \E k \in 0..n + 1 : SplitsAt(t, d, k)
      BY <1>2 DEF Split
  <2>1. PICK k \in 0..n : SplitsAt(s, d, k)
      BY DEF Good, Split
  <2>2. CASE d <= s.depth
    <3>1. SplitsAt(t, d, k)
      <4> SUFFICES ASSUME NEW i \in InUse(t) PROVE i <= k <=> t.entries[i].depth < d
          BY DEF SplitsAt
      <4>1. CASE i \in InUse(s)
          BY <1>3, <1>2, <1>4, <2>1, <4>1 DEF SplitsAt
      <4>2. CASE i = n + 1
          BY <1>3, <1>1, <1>2, <2>2, <4>2
      <4> QED
          BY <1>4, <4>1, <4>2
    <3> QED
        BY <1>1, <3>1
  <2>3. CASE d = s.depth + 1
    <3>1. \A i \in InUse(t) : t.entries[i].depth \in Nat /\ t.entries[i].depth <= s.depth
        BY <1>3, <1>1, <1>2, <1>5, EntryType DEF Shallow
    <3>2. SplitsAt(t, d, n + 1)
        BY <1>1, <1>4, <2>3, <3>1 DEF SplitsAt
    <3> QED
        BY <1>1, <3>2
  <2> QED
      BY <1>1, <2>2, <2>3
<1>7. Single(t)
  <2>1. \A i \in 1..n : ~(s.entries[i].name = e.name /\ s.entries[i].depth = s.depth)
      BY DEF Here
  <2>2. \A i \in 1..n : t.entries[i] = s.entries[i]
      BY <1>3, <1>2
  <2>3. t.entries[n + 1] = e
      BY <1>3, <1>2
  <2> SUFFICES ASSUME NEW i \in InUse(t), NEW j \in InUse(t),
                      t.entries[i].name = t.entries[j].name, t.entries[i].depth = t.entries[j].depth
               PROVE  i = j
      BY DEF Single
  <2>4. CASE i \in 1..n /\ j \in 1..n
      BY <1>4, <2>2, <2>4 DEF Good, Single
  <2>5. CASE i \in 1..n /\ j = n + 1
      BY <2>1, <2>2, <2>3, <2>5
  <2>6. CASE i = n + 1 /\ j \in 1..n
      BY <2>1, <2>2, <2>3, <2>6
  <2> QED
      BY <1>4, <2>4, <2>5, <2>6
<1>8. Placed(t)
    BY <1>3, <1>1, <1>2, <1>4 DEF Good, Placed
<1>9. Good(t)
    BY <1>3, <1>1, <1>2, <1>5, <1>6, <1>7, <1>8 DEF Good
<1> QED
    BY <1>9 DEF t

(* Flags may be set in any slot.                                           *)
SameSlots(s, t) ==
    /\ t \in Scope /\ t.active_len = s.active_len /\ t.depth = s.depth
    /\ Len(t.entries) = Len(s.entries)
    /\ \A i \in 1..Len(s.entries) :
          /\ t.entries[i].name = s.entries[i].name /\ t.entries[i].depth = s.entries[i].depth
          /\ t.entries[i].warn_unused = s.entries[i].warn_unused
          /\ t.entries[i].at = s.entries[i].at

LEMMA FlagsGood == ASSUME NEW s, NEW t, Good(s), SameSlots(s, t) PROVE Good(t)
<1>1. /\ s.active_len \in Nat /\ s.depth \in Nat /\ s.entries \in Seq(Entry)
      /\ s.active_len <= Len(s.entries)
    BY DEF Good, Scope
<1>2. InUse(t) = InUse(s) /\ \A i \in InUse(s) : i \in 1..Len(s.entries)
    BY <1>1 DEF SameSlots, InUse
<1>3. Shallow(t) /\ Single(t) /\ Placed(t)
    BY <1>1, <1>2 DEF Good, SameSlots, Shallow, Single, Placed
<1>4. Split(t)
    BY <1>1, <1>2 DEF Good, SameSlots, Split, SplitsAt
<1> QED
    BY <1>1, <1>3, <1>4 DEF Good, SameSlots

Replaced(s, i, e) == [s EXCEPT !.entries = [s.entries EXCEPT ![i] = e]]

LEMMA ReplacedSame ==
    ASSUME NEW s, Good(s), NEW i \in 1..Len(s.entries), NEW e \in Entry,
           e.name = s.entries[i].name, e.depth = s.entries[i].depth,
           e.warn_unused = s.entries[i].warn_unused, e.at = s.entries[i].at
    PROVE  SameSlots(s, Replaced(s, i, e))
<1> DEFINE q == [s.entries EXCEPT ![i] = e]
<1>1. s.entries \in Seq(Entry) /\ s \in Scope
    BY DEF Good, Scope
<1>2. /\ q \in Seq(Entry) /\ Len(q) = Len(s.entries)
      /\ \A j \in 1..Len(s.entries) : q[j] = IF j = i THEN e ELSE s.entries[j]
    BY <1>1, ExceptSeq
<1> HIDE DEF q
<1>3. /\ Replaced(s, i, e) \in Scope /\ Replaced(s, i, e).entries = q
      /\ Replaced(s, i, e).active_len = s.active_len /\ Replaced(s, i, e).depth = s.depth
  <2>1. Replaced(s, i, e) = [s EXCEPT !.entries = q]
      BY DEF Replaced, q
  <2> QED
      BY <1>1, <1>2, <2>1 DEF Scope
<1> QED
    BY <1>2, <1>3 DEF SameSlots

LEMMA MarkSame ==
    ASSUME NEW s, Good(s), NEW i
    PROVE  /\ SameSlots(s, [s EXCEPT !.entries[i].used = TRUE])
           /\ SameSlots(s, [s EXCEPT !.entries[i].mutable = TRUE])
<1>1. s.entries \in Seq(Entry) /\ s \in Scope
    BY DEF Good, Scope
<1>2. CASE i \in 1..Len(s.entries)
  <2> DEFINE u == [s.entries[i] EXCEPT !.used = TRUE]
             m == [s.entries[i] EXCEPT !.mutable = TRUE]
  <2>1. s.entries[i] \in Entry
      BY <1>1, <1>2, ElementOfSeq
  <2>2. /\ u \in Entry /\ u.name = s.entries[i].name /\ u.depth = s.entries[i].depth
        /\ u.warn_unused = s.entries[i].warn_unused /\ u.at = s.entries[i].at
      BY <2>1 DEF Entry
  <2>3. /\ m \in Entry /\ m.name = s.entries[i].name /\ m.depth = s.entries[i].depth
        /\ m.warn_unused = s.entries[i].warn_unused /\ m.at = s.entries[i].at
      BY <2>1 DEF Entry
  <2>4. /\ [s EXCEPT !.entries[i].used = TRUE] = Replaced(s, i, u)
        /\ [s EXCEPT !.entries[i].mutable = TRUE] = Replaced(s, i, m)
      BY DEF Replaced
  <2> HIDE DEF u, m
  <2>5. SameSlots(s, Replaced(s, i, u)) /\ SameSlots(s, Replaced(s, i, m))
      BY <1>2, <2>2, <2>3, ReplacedSame
  <2> QED
      BY <2>4, <2>5, Zenon
<1>3. CASE i \notin 1..Len(s.entries)
  <2>1. s.entries = [j \in 1..Len(s.entries) |-> s.entries[j]]
      BY <1>1
  <2>2. \A e : [s.entries EXCEPT ![i] = e] = s.entries
      BY <1>3, <2>1
  <2>3. \A e : Replaced(s, i, e) = s
      BY <1>1, <2>2 DEF Replaced, Scope
  <2>4. /\ [s EXCEPT !.entries[i].used = TRUE] = Replaced(s, i, [s.entries[i] EXCEPT !.used = TRUE])
        /\ [s EXCEPT !.entries[i].mutable = TRUE] = Replaced(s, i, [s.entries[i] EXCEPT !.mutable = TRUE])
      BY DEF Replaced
  <2>5. SameSlots(s, s)
      BY <1>1 DEF SameSlots
  <2> QED
      BY <2>3, <2>4, <2>5
<1> QED
    BY <1>2, <1>3

LEMMA MarkGood ==
    ASSUME NEW s, Good(s), NEW i
    PROVE  /\ Good([s EXCEPT !.entries[i].used = TRUE])
           /\ Good([s EXCEPT !.entries[i].mutable = TRUE])
BY MarkSame, FlagsGood

(* semantic_scope_declare and its relatives.                               *)
LEMMA NewEntryGood ==
    ASSUME NEW s, Good(s), NEW x \in Names, NEW warn \in BOOLEAN, NEW at \in Positions \cup {NoPosition},
           warn => at \in Positions, Here(s, x) = {}
    PROVE  Good(Place(s, NewEntry(s, x, warn, at)))
<1> DEFINE e == NewEntry(s, x, warn, at)
<1>1. s.depth \in Nat
    BY DEF Good, Scope
<1>2. e \in Entry /\ e.name = x /\ e.depth = s.depth /\ e.warn_unused = warn /\ e.at = at
    BY <1>1 DEF NewEntry, Entry
<1> HIDE DEF e
<1>3. Good(Place(s, e))
    BY <1>2, PlaceGood
<1> QED
    BY <1>3 DEF e

LEMMA DeclaredGood ==
    ASSUME NEW s, Good(s), NEW x \in Names, NEW at \in Positions
    PROVE  Good(Declared(s, x, at))
<1>1. CASE find_current(s, x) = 0
  <2>1. Here(s, x) = {}
      BY <1>1, NotFound
  <2>2. Good(Place(s, NewEntry(s, x, TRUE, at)))
      BY <2>1, NewEntryGood
  <2> QED
      BY <1>1, <2>2 DEF Declared
<1>2. CASE find_current(s, x) # 0
    BY <1>2 DEF Declared
<1> QED
    BY <1>1, <1>2

LEMMA ExistingGood == ASSUME NEW s, Good(s), NEW x \in Names PROVE Good(declare_existing(s, x))
<1>1. CASE find_current(s, x) = 0
  <2>1. Here(s, x) = {}
      BY <1>1, NotFound
  <2>2. Good(Place(s, NewEntry(s, x, FALSE, NoPosition)))
      BY <2>1, NewEntryGood
  <2> QED
      BY <1>1, <2>2 DEF declare_existing
<1>2. CASE find_current(s, x) # 0
    BY <1>2 DEF declare_existing
<1> QED
    BY <1>1, <1>2

LEMMA UsedGood == ASSUME NEW s, Good(s), NEW x PROVE Good(mark_used(s, x))
<1>1. Good([s EXCEPT !.entries[lookup(s, x)].used = TRUE])
    BY MarkGood
<1> QED
    BY <1>1 DEF mark_used

LEMMA MutableGood == ASSUME NEW s, Good(s), NEW x PROVE Good(mark_mutable(s, x))
<1>1. Good([s EXCEPT !.entries[find_current(s, x)].mutable = TRUE])
    BY MarkGood
<1> QED
    BY <1>1 DEF mark_mutable

-----------------------------------------------------------------------------
(* The diagnostics.                                                        *)
TheResults == Results(Names, Positions)

LEMMA ErrorType ==
    ASSUME NEW r \in TheResults, NEW kind \in ErrorKinds, NEW x \in Names, NEW at \in Positions
    PROVE  add_error(r, Problem(kind, x, at)) \in TheResults
<1> DEFINE d == Problem(kind, x, at)
<1>1. d \in Diagnostics(Names, Positions)
    BY DEF Problem, Diagnostics
<1>2. r.diagnostics \cup {d} \in SUBSET Diagnostics(Names, Positions)
    BY <1>1 DEF TheResults, Results
<1>3. r.error_count < Limit => r.error_count + 1 \in 0..Limit
    BY BagAssumption DEF TheResults, Results
<1>4. Limit \in Nat /\ r.error_count \in 0..Limit
    BY BagAssumption DEF TheResults, Results
<1> HIDE DEF d
<1>5. CASE d \in r.diagnostics
    BY <1>5 DEF add_error, d
<1>6. CASE d \notin r.diagnostics /\ r.error_count >= Limit
    BY <1>6 DEF add_error, d, TheResults, Results
<1>7. CASE d \notin r.diagnostics /\ ~(r.error_count >= Limit)
  <2> DEFINE D == r.diagnostics \cup {d}
             c == r.error_count + 1
  <2>1. D \in SUBSET Diagnostics(Names, Positions) /\ c \in 0..Limit
      BY <1>2, <1>3, <1>4, <1>7
  <2>2. add_error(r, d) = [r EXCEPT !.diagnostics = D, !.error_count = c]
      BY <1>7 DEF add_error
  <2> HIDE DEF D, c
  <2>3. [r EXCEPT !.diagnostics = D, !.error_count = c] \in TheResults
      BY <2>1 DEF TheResults, Results
  <2> QED
      BY <2>2, <2>3 DEF d
<1> QED
    BY <1>5, <1>6, <1>7

LEMMA RequireType ==
    ASSUME NEW r \in TheResults, NEW s, NEW x \in Names, NEW at \in Positions
    PROVE  require(s, r, x, at) \in TheResults /\ DeclareResult(s, r, x, at) \in TheResults
<1>1. /\ add_error(r, Problem("undefined", x, at)) \in TheResults
      /\ add_error(r, Problem("duplicate", x, at)) \in TheResults
    BY ErrorType DEF ErrorKinds
<1> QED
    BY <1>1 DEF require, DeclareResult

(* What semantic_scope_warn_unused_current adds are warnings about         *)
(* variables that were declared somewhere.                                 *)
LEMMA WarningsType ==
    ASSUME NEW r \in TheResults, NEW s, Good(s)
    PROVE  warn_unused_current(s, r) \in TheResults
<1> DEFINE J == {j \in Keep(s) + 1..s.active_len :
                    s.entries[j].depth = s.depth /\ s.entries[j].warn_unused /\ ~s.entries[j].used}
           D == {Unused(s.entries[i].name, s.entries[i].at) : i \in J}
<1>1. Keep(s) \in 0..s.active_len /\ s.active_len \in Nat
    BY KeepSplits DEF Good, Scope
<1>2. ASSUME NEW i \in J
      PROVE  Unused(s.entries[i].name, s.entries[i].at) \in Diagnostics(Names, Positions)
  <2>1. i \in InUse(s)
      BY <1>1 DEF InUse
  <2>2. s.entries[i] \in Entry
      BY <2>1, EntryType DEF Good
  <2>3. s.entries[i].name \in Names /\ s.entries[i].at \in Positions
      BY <2>1, <2>2 DEF Good, Placed, Entry
  <2> HIDE DEF J
  <2> QED
      BY <2>3 DEF Unused, Diagnostics
<1>3. D \in SUBSET Diagnostics(Names, Positions)
    BY <1>2
<1>4. warn_unused_current(s, r) = add_warnings(r, D)
    BY DEF warn_unused_current
<1> HIDE DEF D, J
<1>5. [r EXCEPT !.diagnostics = @ \cup D] \in TheResults
    BY <1>3 DEF TheResults, Results
<1> QED
    BY <1>4, <1>5 DEF add_warnings

-----------------------------------------------------------------------------
LEMMA Initially == Init => ScopeInv
<1>1. result_new \in TheResults
    BY BagAssumption DEF result_new, TheResults, Results
<1>2. <<>> \in Seq(Names)
    BY EmptySeq
<1> QED
    BY <1>1, <1>2, NewGood DEF Init, ScopeInv, TheResults

LEMMA EnterFunctionKeeps ==
    ASSUME ScopeInv, NEW p \in Params, EnterFunction(p)
    PROVE  ScopeInv'
<1>1. Globals \in Seq(Names) /\ p \in Seq(Names)
    BY NamesAssumption
<1>2. Globals \o p \in Seq(Names)
    BY <1>1, ConcatProperties
<1>3. Good(scope)'
  <2>1. scope' = scope_new
      BY DEF EnterFunction
  <2> QED
      BY <2>1, NewGood
<1> QED
    BY <1>2, <1>3 DEF EnterFunction, ScopeInv

LEMMA DeclareParamKeeps == ASSUME ScopeInv, DeclareParam PROVE ScopeInv'
<1>1. Head(pending) \in Names /\ Tail(pending) \in Seq(Names)
    BY HeadTailProperties DEF ScopeInv, DeclareParam
<1>2. Good(declare_existing(scope, Head(pending)))
    BY <1>1, ExistingGood DEF ScopeInv
<1>3. Good(scope)'
    BY <1>2 DEF DeclareParam
<1> QED
    BY <1>1, <1>3 DEF DeclareParam, ScopeInv

LEMMA EnterBodyKeeps == ASSUME ScopeInv, EnterBody PROVE ScopeInv'
<1>1. Good(scope_push(scope))
    BY PushGood DEF ScopeInv
<1>2. Good(scope)'
    BY <1>1 DEF EnterBody
<1> QED
    BY <1>2 DEF EnterBody, ScopeInv

(* A statement leaves alone what is being declared for the function.       *)
LEMMA StatementKeeps == ASSUME ScopeInv, Statement PROVE Good(scope') /\ result' \in TheResults
<1>1. Good(scope) /\ result \in TheResults
    BY DEF ScopeInv, TheResults
<1>2. CASE OpenBlock
    BY <1>1, <1>2, PushGood DEF OpenBlock
<1>3. CASE LeaveScope
    BY <1>1, <1>3, PopGood, WarningsType DEF LeaveScope
<1>4. ASSUME NEW x \in Names, NEW at \in Positions
      PROVE  (\/ Ident(x, at) \/ Addr(x, at) \/ Call(x, at) \/ Capture(x, at)
              \/ (\E mutable \in BOOLEAN : Let(x, mutable, at))
              \/ Assign(x, at) \/ ForRange(x, at) \/ MatchArm(x, at))
                  => Good(scope') /\ result' \in TheResults
  <2>1. Good(mark_used(scope, x)) /\ require(scope, result, x, at) \in TheResults
      BY <1>1, UsedGood, RequireType
  <2>2. \A kind \in ErrorKinds : add_error(result, Problem(kind, x, at)) \in TheResults
      BY <1>1, ErrorType
  <2>3. Good(scope_push(scope))
      BY <1>1, PushGood
  <2>4. CASE Ident(x, at)
      BY <1>1, <2>1, <2>4 DEF Ident
  <2>5. CASE Addr(x, at)
      BY <1>1, <2>1, <2>5 DEF Addr
  <2>6. CASE Call(x, at)
      BY <1>1, <2>2, <2>6 DEF Call, ErrorKinds
  <2>7. CASE Capture(x, at)
      BY <1>1, <2>1, <2>2, <2>7 DEF Capture, ErrorKinds
  <2>8. ASSUME NEW mutable \in BOOLEAN, Let(x, mutable, at)
        PROVE  Good(scope') /\ result' \in TheResults
    <3>1. Good(Declared(scope, x, at)) /\ DeclareResult(scope, result, x, at) \in TheResults
        BY <1>1, DeclaredGood, RequireType
    <3>2. Good(mark_mutable(Declared(scope, x, at), x))
        BY <3>1, MutableGood
    <3> QED
        BY <2>8, <3>1, <3>2 DEF Let
  <2>9. CASE Assign(x, at)
      BY <1>1, <2>1, <2>9 DEF Assign
  <2>10. CASE ForRange(x, at)
    <3> DEFINE s == scope_push(scope)
               r == IF contains(scope, x) THEN add_error(result, Problem("iterator", x, at)) ELSE result
    <3>1. r \in TheResults
        BY <1>1, <2>2 DEF ErrorKinds
    <3>2. scope' = Declared(s, x, at) /\ result' = DeclareResult(s, r, x, at)
        BY <2>10 DEF ForRange
    <3> HIDE DEF s, r
    <3>3. Good(s)
        BY <2>3 DEF s
    <3> QED
        BY <3>1, <3>2, <3>3, DeclaredGood, RequireType
  <2>11. CASE MatchArm(x, at)
    <3> DEFINE s == scope_push(scope)
    <3>1. scope' = Declared(s, x, at) /\ result' = DeclareResult(s, result, x, at)
        BY <2>11 DEF MatchArm
    <3> HIDE DEF s
    <3>2. Good(s)
        BY <2>3 DEF s
    <3> QED
        BY <1>1, <3>1, <3>2, DeclaredGood, RequireType
  <2> QED
      BY <2>4, <2>5, <2>6, <2>7, <2>8, <2>9, <2>10, <2>11
<1> QED
    BY <1>2, <1>3, <1>4 DEF Statement

LEMMA NextKeeps == ASSUME ScopeInv, [Next]_scopeVars PROVE ScopeInv'
<1>1. CASE \E p \in Params : EnterFunction(p)
    BY <1>1, EnterFunctionKeeps
<1>2. CASE DeclareParam
    BY <1>2, DeclareParamKeeps
<1>3. CASE EnterBody
    BY <1>3, EnterBodyKeeps
<1>4. CASE Statement /\ UNCHANGED <<entering, pending>>
  <2>1. Good(scope') /\ result' \in TheResults
      BY <1>4, StatementKeeps
  <2> QED
      BY <1>4, <2>1 DEF ScopeInv, TheResults
<1>5. CASE UNCHANGED scopeVars
    BY <1>5 DEF ScopeInv, scopeVars
<1> QED
    BY <1>1, <1>2, <1>3, <1>4, <1>5 DEF Next

THEOREM ScopeInvariant == Spec => []ScopeInv
<1>1. ScopeInv /\ [Next]_scopeVars => ScopeInv'
    BY NextKeeps
<1> QED
    BY Initially, <1>1, PTL DEF Spec

(* The arrays of the semantic pass hold what they are declared to hold, and *)
(* active_len never passes their end, for every program.                   *)
THEOREM ScopeTypeCorrect == Spec => []TypeOK
<1>1. ScopeInv => TypeOK
    BY DEF ScopeInv, Good, TypeOK
<1> QED
    BY ScopeInvariant, <1>1, PTL

(* Every depth splits the slots, so the depths ascend.                     *)
LEMMA DepthsAscend ==
    ASSUME NEW s, Good(s), NEW i \in InUse(s), NEW j \in InUse(s), i <= j
    PROVE  s.entries[i].depth <= s.entries[j].depth
<1>1. s.depth \in Nat /\ s.active_len \in Nat
    BY DEF Good, Scope
<1>2. PICK d \in Nat : d = s.entries[i].depth
    BY EntryType DEF Good
<1>3. s.entries[j].depth \in Nat
    BY EntryType DEF Good
<1>4. d \in 0..s.depth + 1
    BY <1>1, <1>2 DEF Good, Shallow
<1>5. PICK k \in 0..s.active_len : SplitsAt(s, d, k)
    BY <1>4 DEF Good, Split
<1> QED
    BY <1>1, <1>2, <1>3, <1>5 DEF SplitsAt, InUse

(* The depths of the slots in use never decrease, so that                  *)
(* semantic_scope_pop gives up the slots of the innermost block and no     *)
(* others.                                                                 *)
THEOREM ScopeDepthsInOrder == Spec => []DepthsInOrder
<1>1. ScopeInv => DepthsInOrder
  <2> SUFFICES ASSUME ScopeInv, NEW i \in InUse(scope), NEW j \in InUse(scope)
               PROVE  /\ scope.entries[i].depth <= scope.depth
                      /\ i <= j => scope.entries[i].depth <= scope.entries[j].depth
      BY DEF DepthsInOrder, InUse
  <2>1. scope.entries[i].depth <= scope.depth
      BY DEF ScopeInv, Good, Shallow
  <2> QED
      BY <2>1, DepthsAscend DEF ScopeInv
<1> QED
    BY ScopeInvariant, <1>1, PTL

(* A name never has two slots in a block, whatever slots were reused.      *)
THEOREM ScopeOneSlotEach == Spec => []OneSlotEach
<1>1. ScopeInv => OneSlotEach
    BY DEF ScopeInv, Good, Single, InUse, OneSlotEach
<1> QED
    BY ScopeInvariant, <1>1, PTL

-----------------------------------------------------------------------------
(***************************************************************************)
(* The arrays implement blocks that nest, however many scopes a program    *)
(* opens and names it declares.                                            *)
(*                                                                         *)
(* The blocks that the slots in use stand for are characterised first      *)
(* (Represents: every slot is a variable of its block and every variable   *)
(* has a slot), so that what an operation makes of the arrays can be       *)
(* compared with what it should make of the blocks.  There is one lemma of *)
(* this kind for each operation on the arrays, one for each on the bag of  *)
(* diagnostics, and one for each step of the walk, which maps it to a step *)
(* of LexicalScopes or to none.                                            *)
(***************************************************************************)
(* A sequence of blocks has a variable for each slot in use, and no other. *)
SlotsOf(s, d) == {i \in InUse(s) : s.entries[i].depth = d}
VariableOf(e) == [used |-> e.used, mutable |-> e.mutable, warn |-> e.warn_unused, at |-> e.at]

Shaped(s, B) ==
    /\ B = [b \in 1..s.depth + 1 |-> B[b]]
    /\ \A b \in 1..s.depth + 1 : B[b] = [x \in DOMAIN B[b] |-> B[b][x]]
Complete(s, B) ==
    \A i \in InUse(s) : /\ s.entries[i].depth + 1 \in 1..s.depth + 1
                        /\ s.entries[i].name \in DOMAIN B[s.entries[i].depth + 1]
                        /\ B[s.entries[i].depth + 1][s.entries[i].name] = VariableOf(s.entries[i])
Founded(s, B) ==
    \A b \in 1..s.depth + 1 : \A x \in DOMAIN B[b] :
        \E i \in InUse(s) : s.entries[i].depth + 1 = b /\ s.entries[i].name = x
Represents(s, B) == Shaped(s, B) /\ Complete(s, B) /\ Founded(s, B)

BlocksOf(s) ==
    [b \in 1..s.depth + 1 |-> [x \in {s.entries[i].name : i \in SlotsOf(s, b - 1)} |->
        VariableOf(s.entries[CHOOSE i \in SlotsOf(s, b - 1) : s.entries[i].name = x])]]

LEMMA BlocksRepresent ==
    ASSUME NEW s, Good(s)
    PROVE  Represents(s, BlocksOf(s))
<1>1. s.depth \in Nat
    BY DEF Good, Scope
<1> DEFINE B == BlocksOf(s)
           Called(d) == {s.entries[i].name : i \in SlotsOf(s, d)}
           f(x, d) == VariableOf(s.entries[CHOOSE i \in SlotsOf(s, d) : s.entries[i].name = x])
<1>2. B = [b \in 1..s.depth + 1 |-> [x \in Called(b - 1) |-> f(x, b - 1)]]
    BY DEF BlocksOf
<1>3. ASSUME NEW b \in 1..s.depth + 1
      PROVE  B[b] = [x \in Called(b - 1) |-> f(x, b - 1)]
    BY <1>2
<1>4. Shaped(s, B)
  <2> HIDE DEF B, Called, f
  <2> QED
      BY <1>2, <1>3 DEF Shaped
<1>5. Complete(s, B)
  <2> SUFFICES ASSUME NEW i \in InUse(s)
               PROVE  /\ s.entries[i].depth + 1 \in 1..s.depth + 1
                      /\ s.entries[i].name \in DOMAIN B[s.entries[i].depth + 1]
                      /\ B[s.entries[i].depth + 1][s.entries[i].name] = VariableOf(s.entries[i])
      BY DEF Complete
  <2>1. PICK d \in 0..s.depth : d = s.entries[i].depth
      BY <1>1, EntryType DEF Good, Shallow
  <2>2. PICK x : x = s.entries[i].name
      OBVIOUS
  <2>3. i \in SlotsOf(s, d)
      BY <2>1 DEF SlotsOf
  <2>4. \A j \in SlotsOf(s, d) : s.entries[j].name = x => j = i
      BY <2>1, <2>2 DEF SlotsOf, Good, Single
  <2>5. f(x, d) = VariableOf(s.entries[i])
    <3>1. i = CHOOSE j \in SlotsOf(s, d) : s.entries[j].name = x
        BY <2>2, <2>3, <2>4
    <3> QED
        BY <3>1
  <2>6. x \in Called(d)
      BY <2>2, <2>3
  <2>7. d + 1 \in 1..s.depth + 1 /\ (d + 1) - 1 = d
      BY <1>1, <2>1
  <2> HIDE DEF B, Called, f
  <2>8. B[d + 1] = [y \in Called(d) |-> f(y, d)]
      BY <1>3, <2>7
  <2>9. x \in DOMAIN B[d + 1] /\ B[d + 1][x] = VariableOf(s.entries[i])
      BY <2>5, <2>6, <2>8
  <2> QED
      BY <2>1, <2>2, <2>7, <2>9
<1>6. Founded(s, B)
  <2> SUFFICES ASSUME NEW b \in 1..s.depth + 1, NEW x \in DOMAIN B[b]
               PROVE  \E i \in InUse(s) : s.entries[i].depth + 1 = b /\ s.entries[i].name = x
      BY DEF Founded
  <2>1. DOMAIN B[b] = Called(b - 1)
      BY <1>3
  <2>2. PICK i \in SlotsOf(s, b - 1) : s.entries[i].name = x
      BY <2>1
  <2>3. i \in InUse(s) /\ s.entries[i].depth = b - 1
      BY <2>2 DEF SlotsOf
  <2> QED
      BY <1>1, <2>2, <2>3
<1> QED
    BY <1>4, <1>5, <1>6 DEF Represents

LEMMA BlocksAreThose ==
    ASSUME NEW s, Good(s), NEW B, Represents(s, B)
    PROVE  BlocksOf(s) = B
<1>1. PICK C : C = BlocksOf(s) /\ Represents(s, C)
    BY BlocksRepresent
<1>2. ASSUME NEW b \in 1..s.depth + 1 PROVE B[b] = C[b]
  <2>1. DOMAIN B[b] = DOMAIN C[b]
    <3>1. ASSUME NEW x \in DOMAIN B[b] PROVE x \in DOMAIN C[b]
      <4>1. PICK i \in InUse(s) : s.entries[i].depth + 1 = b /\ s.entries[i].name = x
          BY <3>1 DEF Represents, Founded
      <4> QED
          BY <1>1, <4>1 DEF Represents, Complete
    <3>2. ASSUME NEW x \in DOMAIN C[b] PROVE x \in DOMAIN B[b]
      <4>1. PICK i \in InUse(s) : s.entries[i].depth + 1 = b /\ s.entries[i].name = x
          BY <1>1, <3>2 DEF Represents, Founded
      <4> QED
          BY <1>1, <4>1 DEF Represents, Complete
    <3> QED
        BY <3>1, <3>2
  <2>2. ASSUME NEW x \in DOMAIN B[b] PROVE B[b][x] = C[b][x]
    <3>1. PICK i \in InUse(s) : s.entries[i].depth + 1 = b /\ s.entries[i].name = x
        BY <2>2 DEF Represents, Founded
    <3> QED
        BY <1>1, <3>1 DEF Represents, Complete
  <2> QED
      BY <1>1, <2>1, <2>2 DEF Represents, Shaped
<1> QED
    BY <1>1, <1>2 DEF Represents, Shaped

LEMMA MappedBlocks == Blocks = BlocksOf(scope) /\ Blocks' = BlocksOf(scope')
BY DEF Blocks, BlocksOf, BlockAt, SlotsAt, SlotsOf, VariableOf, InUse

(* Empty blocks.                                                           *)
NoNames == [x \in {} |-> 0]

LEMMA NewBlocks == BlocksOf(scope_new) = <<NoNames>>
<1>1. Good(scope_new) /\ scope_new.depth = 0 /\ InUse(scope_new) = {}
    BY NewGood DEF scope_new, InUse
<1>2. PICK B : B = <<NoNames>>
    OBVIOUS
<1>3. B = [b \in 1..1 |-> B[b]] /\ B[1] = NoNames
    BY <1>2
<1>4. DOMAIN NoNames = {} /\ NoNames = [x \in DOMAIN NoNames |-> NoNames[x]]
    BY DEF NoNames
<1>5. 1..scope_new.depth + 1 = 1..1 /\ \A b \in 1..1 : b = 1
    BY <1>1
<1>6. Represents(scope_new, B)
    BY <1>1, <1>3, <1>4, <1>5 DEF Represents, Shaped, Complete, Founded
<1> QED
    BY <1>1, <1>2, <1>6, BlocksAreThose

LEMMA PushBlocks ==
    ASSUME NEW s, Good(s)
    PROVE  BlocksOf(scope_push(s)) = Append(BlocksOf(s), NoNames)
<1>1. PICK B : B = BlocksOf(s) /\ Represents(s, B)
    BY BlocksRepresent
<1>2. PICK t : t = scope_push(s)
    OBVIOUS
<1>3. /\ Good(t) /\ t.depth = s.depth + 1 /\ t.entries = s.entries /\ InUse(t) = InUse(s)
      /\ s.depth \in Nat
    BY <1>2, PushGood DEF scope_push, InUse, Good, Scope
<1>4. PICK C : C = Append(B, NoNames)
    OBVIOUS
<1>5. DOMAIN B = 1..s.depth + 1 /\ Len(B) = s.depth + 1
  <2>1. B = [b \in 1..s.depth + 1 |-> B[b]]
      BY <1>1 DEF Represents, Shaped
  <2> QED
      BY <1>3, <2>1
<1>6. /\ C = [b \in 1..t.depth + 1 |-> C[b]] /\ C[t.depth + 1] = NoNames
      /\ \A b \in 1..s.depth + 1 : C[b] = B[b]
  <2>1. PICK n \in Nat : n = s.depth + 1
      BY <1>3
  <2>2. DOMAIN B = 1..n /\ Len(B) = n /\ t.depth + 1 = n + 1
      BY <1>3, <1>5, <2>1
  <2>3. C = [b \in 1..n + 1 |-> IF b \in 1..n THEN B[b] ELSE NoNames]
    <3> DEFINE S == {B[b] : b \in 1..n} \cup {NoNames}
    <3>0. B = [b \in 1..n |-> B[b]]
        BY <1>1, <2>1 DEF Represents, Shaped
    <3>a. B \in [1..n -> S] /\ NoNames \in S
        BY <3>0
    <3> HIDE DEF S
    <3>1. B \in Seq(S)
        BY <2>1, <3>a, SeqDef
    <3>2. /\ C \in Seq(S) /\ Len(C) = n + 1 /\ C[n + 1] = NoNames
          /\ \A b \in 1..n : C[b] = B[b]
        BY <1>4, <2>1, <2>2, <3>a, <3>1, AppendProperties
    <3> QED
        BY <2>1, <3>2
  <2>4. \A b \in 1..n : b \in 1..n + 1
      BY <2>1
  <2>5. n + 1 \in 1..n + 1 /\ n + 1 \notin 1..n
      BY <2>1
  <2> QED
      BY <2>1, <2>2, <2>3, <2>4, <2>5
<1>7. DOMAIN NoNames = {} /\ NoNames = [x \in DOMAIN NoNames |-> NoNames[x]]
    BY DEF NoNames
<1>8. \A b \in 1..t.depth + 1 : b \in 1..s.depth + 1 \/ b = t.depth + 1
    BY <1>3
<1>9. 1..s.depth + 1 \subseteq 1..t.depth + 1
    BY <1>3
<1>10. Shaped(t, C)
    BY <1>1, <1>6, <1>7, <1>8 DEF Represents, Shaped
<1>11. Complete(t, C)
    BY <1>1, <1>3, <1>6, <1>9 DEF Represents, Complete
<1>12. Founded(t, C)
  <2> SUFFICES ASSUME NEW b \in 1..t.depth + 1, NEW x \in DOMAIN C[b]
               PROVE  \E i \in InUse(t) : t.entries[i].depth + 1 = b /\ t.entries[i].name = x
      BY DEF Founded
  <2>1. b \in 1..s.depth + 1
      BY <1>6, <1>7, <1>8
  <2>2. x \in DOMAIN B[b]
      BY <1>6, <2>1
  <2> QED
      BY <1>1, <1>3, <2>1, <2>2 DEF Represents, Founded
<1>13. BlocksOf(t) = C
    BY <1>3, <1>10, <1>11, <1>12, BlocksAreThose DEF Represents
<1> QED
    BY <1>1, <1>2, <1>4, <1>13
LEMMA PopBlocks ==
    ASSUME NEW s, Good(s), s.depth > 0
    PROVE  BlocksOf(scope_pop(s)) = SubSeq(BlocksOf(s), 1, Len(BlocksOf(s)) - 1)
<1>1. PICK B : B = BlocksOf(s) /\ Represents(s, B)
    BY BlocksRepresent
<1>2. PICK t : t = scope_pop(s)
    OBVIOUS
<1>3. PICK n \in Nat \ {0} : n = s.depth
    BY DEF Good, Scope
<1>4. s.active_len \in Nat /\ Keep(s) \in 0..s.active_len /\ SplitsAt(s, n, Keep(s))
    BY <1>3, KeepSplits DEF Good, Scope
<1>5. /\ Good(t) /\ t.depth = n - 1 /\ t.entries = s.entries /\ t.active_len = Keep(s)
    BY <1>2, <1>3, <1>4, PopGood DEF scope_pop, Good, Scope
<1>6. /\ InUse(t) = {i \in InUse(s) : s.entries[i].depth < n}
      /\ 1..t.depth + 1 = 1..n /\ 1..n \subseteq 1..s.depth + 1
    BY <1>3, <1>4, <1>5 DEF InUse, SplitsAt
<1>7. DOMAIN B = 1..n + 1 /\ Len(B) = n + 1
  <2>1. B = [b \in 1..n + 1 |-> B[b]]
      BY <1>1, <1>3 DEF Represents, Shaped
  <2> QED
      BY <1>3, <2>1
<1>8. PICK C : C = SubSeq(B, 1, n)
    OBVIOUS
<1>9. C = [b \in 1..n |-> B[b]]
    BY <1>7, <1>8
<1>10. Shaped(t, C)
    BY <1>1, <1>6, <1>9 DEF Represents, Shaped
<1>11. Complete(t, C)
  <2> SUFFICES ASSUME NEW i \in InUse(t)
               PROVE  /\ t.entries[i].depth + 1 \in 1..n
                      /\ t.entries[i].name \in DOMAIN C[t.entries[i].depth + 1]
                      /\ C[t.entries[i].depth + 1][t.entries[i].name] = VariableOf(t.entries[i])
      BY <1>6 DEF Complete
  <2>1. i \in InUse(s) /\ s.entries[i].depth \in Nat /\ s.entries[i].depth < n
      BY <1>6, EntryType DEF Good
  <2>2. s.entries[i].depth + 1 \in 1..n
      BY <2>1
  <2> QED
      BY <1>1, <1>5, <1>9, <2>1, <2>2 DEF Represents, Complete
<1>12. Founded(t, C)
  <2> SUFFICES ASSUME NEW b \in 1..n, NEW x \in DOMAIN C[b]
               PROVE  \E i \in InUse(t) : t.entries[i].depth + 1 = b /\ t.entries[i].name = x
      BY <1>6 DEF Founded
  <2>1. x \in DOMAIN B[b] /\ b \in 1..s.depth + 1
      BY <1>6, <1>9
  <2>2. PICK i \in InUse(s) : s.entries[i].depth + 1 = b /\ s.entries[i].name = x
      BY <1>1, <2>1 DEF Represents, Founded
  <2>3. s.entries[i].depth < n
      BY <2>2, EntryType DEF Good
  <2> QED
      BY <1>5, <1>6, <2>2, <2>3
<1>13. BlocksOf(t) = C
    BY <1>5, <1>10, <1>11, <1>12, BlocksAreThose DEF Represents
<1> QED
    BY <1>1, <1>2, <1>3, <1>7, <1>8, <1>13

(* A variable more, and one that is changed.                               *)
WithIn(block, x, v) == [y \in DOMAIN block \cup {x} |-> IF y = x THEN v ELSE block[y]]

LEMMA PlaceBlocks ==
    ASSUME NEW s, Good(s), NEW e \in Entry, e.depth = s.depth, Here(s, e.name) = {},
           e.warn_unused => e.at \in Positions
    PROVE  BlocksOf(Place(s, e)) =
             [BlocksOf(s) EXCEPT ![s.depth + 1] = WithIn(@, e.name, VariableOf(e))]
<1>1. PICK B : B = BlocksOf(s) /\ Represents(s, B)
    BY BlocksRepresent
<1>2. PICK t : t = Place(s, e)
    OBVIOUS
<1>3. PICK d \in Nat : d = s.depth
    BY DEF Good, Scope
<1>4. PICK n \in Nat : n = s.active_len
    BY DEF Good, Scope
<1>5. /\ Good(t) /\ t.depth = d /\ t.active_len = n + 1 /\ t.entries[n + 1] = e
      /\ \A i \in 1..n : t.entries[i] = s.entries[i]
    BY <1>2, <1>3, <1>4, PlaceGood, PlaceTakesNext
<1>6. InUse(s) = 1..n /\ InUse(t) = InUse(s) \cup {n + 1}
    BY <1>4, <1>5 DEF InUse
<1>7. d + 1 \in 1..d + 1
    BY <1>3
<1>8. B = [b \in 1..d + 1 |-> B[b]]
    BY <1>1, <1>3 DEF Represents, Shaped
<1>9. PICK x : x = e.name
    OBVIOUS
<1>10. PICK C : C = [B EXCEPT ![d + 1] = WithIn(@, x, VariableOf(e))]
    OBVIOUS
<1>11. /\ C = [b \in 1..d + 1 |-> C[b]] /\ C[d + 1] = WithIn(B[d + 1], x, VariableOf(e))
       /\ \A b \in 1..d + 1 : b # d + 1 => C[b] = B[b]
    BY <1>7, <1>8, <1>10
<1>12. /\ DOMAIN C[d + 1] = DOMAIN B[d + 1] \cup {x} /\ C[d + 1][x] = VariableOf(e)
       /\ \A y \in DOMAIN B[d + 1] : y # x => C[d + 1][y] = B[d + 1][y]
       /\ C[d + 1] = [y \in DOMAIN C[d + 1] |-> C[d + 1][y]]
    BY <1>11 DEF WithIn
<1>13. \A i \in InUse(s) : ~(s.entries[i].name = x /\ s.entries[i].depth = d)
    BY <1>3, <1>9 DEF Here, InUse
<1>14. Shaped(t, C)
    BY <1>1, <1>3, <1>5, <1>11, <1>12 DEF Represents, Shaped
<1>15. Complete(t, C)
  <2>1. ASSUME NEW i \in InUse(s)
        PROVE  /\ t.entries[i].depth + 1 \in 1..d + 1
               /\ t.entries[i].name \in DOMAIN C[t.entries[i].depth + 1]
               /\ C[t.entries[i].depth + 1][t.entries[i].name] = VariableOf(t.entries[i])
    <3>1. PICK f : f = s.entries[i] /\ f = t.entries[i] /\ f.depth \in Nat
        BY <1>5, <1>6, EntryType DEF Good
    <3>2. f.depth + 1 \in 1..d + 1 /\ f.name \in DOMAIN B[f.depth + 1] /\ B[f.depth + 1][f.name] = VariableOf(f)
        BY <1>1, <1>3, <3>1 DEF Represents, Complete
    <3>3. f.depth + 1 = d + 1 => f.name # x
      <4>1. f.depth # d \/ f.name # x
          BY <1>13, <3>1
      <4> QED
          BY <3>1, <4>1
    <3>4. CASE f.depth + 1 = d + 1
      <4>1. f.name \in DOMAIN C[d + 1] /\ C[d + 1][f.name] = VariableOf(f)
          BY <1>12, <3>2, <3>3, <3>4
      <4> QED
          BY <1>7, <3>1, <3>4, <4>1
    <3>5. CASE f.depth + 1 # d + 1
      <4>1. C[f.depth + 1] = B[f.depth + 1]
          BY <1>11, <3>2, <3>5
      <4> QED
          BY <3>1, <3>2, <4>1
    <3> QED
        BY <3>4, <3>5
  <2>2. /\ t.entries[n + 1].depth + 1 = d + 1
        /\ t.entries[n + 1].name \in DOMAIN C[d + 1]
        /\ C[d + 1][t.entries[n + 1].name] = VariableOf(t.entries[n + 1])
      BY <1>3, <1>5, <1>9, <1>12
  <2> QED
      BY <1>5, <1>6, <1>7, <2>1, <2>2 DEF Complete
<1>16. Founded(t, C)
  <2> SUFFICES ASSUME NEW b \in 1..d + 1, NEW y \in DOMAIN C[b]
               PROVE  \E i \in InUse(t) : t.entries[i].depth + 1 = b /\ t.entries[i].name = y
      BY <1>5 DEF Founded
  <2>1. CASE y \in DOMAIN B[b]
    <3>1. PICK i \in InUse(s) : s.entries[i].depth + 1 = b /\ s.entries[i].name = y
        BY <1>1, <1>3, <2>1 DEF Represents, Founded
    <3> QED
        BY <1>5, <1>6, <3>1
  <2>2. CASE y \notin DOMAIN B[b]
    <3>1. b = d + 1 /\ y = x
        BY <1>11, <1>12, <2>2
    <3> QED
        BY <1>3, <1>5, <1>6, <1>9, <3>1
  <2> QED
      BY <2>1, <2>2
<1>17. BlocksOf(t) = C
    BY <1>5, <1>14, <1>15, <1>16, BlocksAreThose DEF Represents
<1> QED
    BY <1>1, <1>2, <1>3, <1>9, <1>10, <1>17

LEMMA FlagBlocks ==
    ASSUME NEW s, Good(s), NEW t, SameSlots(s, t), NEW i \in InUse(s),
           \A j \in InUse(s) : j # i => t.entries[j] = s.entries[j]
    PROVE  BlocksOf(t) =
             [BlocksOf(s) EXCEPT ![s.entries[i].depth + 1] =
                 [@ EXCEPT ![s.entries[i].name] = VariableOf(t.entries[i])]]
<1>1. PICK B : B = BlocksOf(s) /\ Represents(s, B)
    BY BlocksRepresent
<1>2. PICK x, m : x = s.entries[i].name /\ m = s.entries[i].depth + 1
    OBVIOUS
<1>3. /\ Good(t) /\ t.depth = s.depth /\ InUse(t) = InUse(s)
      /\ \A j \in InUse(s) : t.entries[j].name = s.entries[j].name /\ t.entries[j].depth = s.entries[j].depth
  <2>1. \A j \in InUse(s) : j \in 1..Len(s.entries)
      BY DEF InUse, Good, Scope
  <2> QED
      BY <2>1, FlagsGood DEF SameSlots, InUse
<1>4. m \in 1..s.depth + 1 /\ x \in DOMAIN B[m]
    BY <1>1, <1>2 DEF Represents, Complete
<1>5. B = [b \in 1..s.depth + 1 |-> B[b]] /\ B[m] = [y \in DOMAIN B[m] |-> B[m][y]]
    BY <1>1, <1>4 DEF Represents, Shaped
<1>6. PICK v : v = VariableOf(t.entries[i])
    OBVIOUS
<1>7. PICK C : C = [B EXCEPT ![m] = [@ EXCEPT ![x] = v]]
    OBVIOUS
<1>8. /\ C = [b \in 1..s.depth + 1 |-> C[b]] /\ C[m] = [B[m] EXCEPT ![x] = v]
      /\ \A b \in 1..s.depth + 1 : b # m => C[b] = B[b]
    BY <1>4, <1>5, <1>7
<1>9. /\ DOMAIN C[m] = DOMAIN B[m] /\ C[m][x] = v
      /\ \A y \in DOMAIN B[m] : y # x => C[m][y] = B[m][y]
      /\ C[m] = [y \in DOMAIN C[m] |-> C[m][y]]
    BY <1>4, <1>5, <1>8
<1>10. Shaped(t, C)
  <2>1. ASSUME NEW b \in 1..s.depth + 1 PROVE C[b] = [y \in DOMAIN C[b] |-> C[b][y]]
    <3>1. CASE b = m
        BY <1>9, <3>1
    <3>2. CASE b # m
        BY <1>1, <1>8, <3>2 DEF Represents, Shaped
    <3> QED
        BY <3>1, <3>2
  <2> QED
      BY <1>3, <1>8, <2>1 DEF Shaped
<1>11. Complete(t, C)
  <2> SUFFICES ASSUME NEW j \in InUse(s)
               PROVE  /\ t.entries[j].depth + 1 \in 1..s.depth + 1
                      /\ t.entries[j].name \in DOMAIN C[t.entries[j].depth + 1]
                      /\ C[t.entries[j].depth + 1][t.entries[j].name] = VariableOf(t.entries[j])
      BY <1>3 DEF Complete
  <2>1. PICK k, y : k = s.entries[j].depth + 1 /\ y = s.entries[j].name
      OBVIOUS
  <2>2. k \in 1..s.depth + 1 /\ y \in DOMAIN B[k] /\ B[k][y] = VariableOf(s.entries[j])
      BY <1>1, <2>1 DEF Represents, Complete
  <2>3. CASE j = i
      BY <1>2, <1>3, <1>4, <1>6, <1>9, <2>3
  <2>4. CASE j # i
    <3>1. ~(k = m /\ y = x)
      <4>1. s.entries[j].depth \in Nat /\ s.entries[i].depth \in Nat
          BY EntryType DEF Good
      <4> QED
          BY <1>2, <2>1, <2>4, <4>1 DEF Good, Single
    <3>2. y \in DOMAIN C[k] /\ C[k][y] = B[k][y]
        BY <1>8, <1>9, <2>2, <3>1
    <3> QED
        BY <2>1, <2>2, <2>4, <3>2
  <2> QED
      BY <2>3, <2>4
<1>12. Founded(t, C)
  <2> SUFFICES ASSUME NEW b \in 1..s.depth + 1, NEW y \in DOMAIN C[b]
               PROVE  \E j \in InUse(s) : t.entries[j].depth + 1 = b /\ t.entries[j].name = y
      BY <1>3 DEF Founded
  <2>1. y \in DOMAIN B[b]
      BY <1>8, <1>9
  <2>2. PICK j \in InUse(s) : s.entries[j].depth + 1 = b /\ s.entries[j].name = y
      BY <1>1, <2>1 DEF Represents, Founded
  <2> QED
      BY <1>3, <2>2
<1>13. BlocksOf(t) = C
    BY <1>3, <1>10, <1>11, <1>12, BlocksAreThose DEF Represents
<1> QED
    BY <1>1, <1>2, <1>6, <1>7, <1>13
-----------------------------------------------------------------------------
(* The innermost block that has a name is that of the greatest slot.       *)
LEMMA MaxIs ==
    ASSUME NEW S \in SUBSET Nat, NEW m \in S, \A y \in S : m >= y
    PROVE  Max(S) = m
<1>1. ASSUME NEW x \in S, \A y \in S : x >= y PROVE x = m
    BY <1>1
<1> QED
    BY <1>1 DEF Max

OwnersIn(B, x) == {b \in DOMAIN B : x \in DOMAIN B[b]}

(* semantic_scope_lookup finds the variable of the innermost block that    *)
(* has the name.                                                           *)
LEMMA LookupFinds ==
    ASSUME NEW s, Good(s), NEW x
    PROVE  /\ lookup(s, x) = 0 <=> OwnersIn(BlocksOf(s), x) = {}
           /\ lookup(s, x) # 0 =>
                 /\ lookup(s, x) \in InUse(s) /\ s.entries[lookup(s, x)].name = x
                 /\ Max(OwnersIn(BlocksOf(s), x)) = s.entries[lookup(s, x)].depth + 1
<1>1. PICK B : B = BlocksOf(s) /\ Represents(s, B)
    BY BlocksRepresent
<1>2. s.depth \in Nat /\ s.active_len \in Nat
    BY DEF Good, Scope
<1>3. DOMAIN B = 1..s.depth + 1
    BY <1>1 DEF Represents, Shaped
<1>4. PICK k \in 0..s.active_len : /\ k = lookup(s, x)
                                   /\ k # 0 => k \in Hits(s, x)
                                   /\ \A i \in Hits(s, x) : k >= i
  <2> DEFINE S == {0} \cup Hits(s, x)
  <2>1. S \in SUBSET (0..s.active_len) /\ S # {}
      BY <1>2 DEF Hits
  <2>2. Max(S) \in S /\ \A y \in S : Max(S) >= y
      BY <1>2, <2>1, GreatestOf
  <2>3. lookup(s, x) = Max(S)
      BY DEF lookup
  <2> QED
      BY <2>1, <2>2, <2>3
<1>5. \A i \in InUse(s) : s.entries[i].name = x => i \in Hits(s, x)
    BY DEF Hits, InUse, Good, Shallow
<1>6. \A i \in Hits(s, x) : i \in InUse(s) /\ s.entries[i].name = x /\ i # 0
    BY <1>2 DEF Hits, InUse
<1>7. \A b \in OwnersIn(B, x) : \E i \in Hits(s, x) : s.entries[i].depth + 1 = b
    BY <1>1, <1>3, <1>5 DEF OwnersIn, Represents, Founded
<1>8. \A i \in Hits(s, x) : s.entries[i].depth + 1 \in OwnersIn(B, x)
    BY <1>1, <1>3, <1>6 DEF OwnersIn, Represents, Complete
<1>9. CASE k = 0
  <2>1. Hits(s, x) = {}
      BY <1>2, <1>4, <1>6, <1>9 DEF InUse
  <2>2. OwnersIn(B, x) = {}
      BY <1>7, <2>1
  <2> QED
      BY <1>1, <1>4, <1>9, <2>2
<1>10. CASE k # 0
  <2>1. PICK m : m = s.entries[k].depth + 1
      OBVIOUS
  <2>2. k \in Hits(s, x) /\ m \in OwnersIn(B, x)
    <3>1. k \in Hits(s, x)
        BY <1>4, <1>10
    <3> QED
        BY <1>8, <2>1, <3>1
  <2>3. OwnersIn(B, x) \in SUBSET Nat
      BY <1>2, <1>3 DEF OwnersIn
  <2>4. ASSUME NEW b \in OwnersIn(B, x) PROVE m >= b
    <3>1. PICK i \in Hits(s, x) : s.entries[i].depth + 1 = b
        BY <1>7
    <3>2. i <= k /\ i \in InUse(s) /\ k \in InUse(s)
        BY <1>4, <1>6, <2>2
    <3>3. s.entries[i].depth <= s.entries[k].depth
        BY <3>2, DepthsAscend
    <3>4. s.entries[i].depth \in Nat /\ s.entries[k].depth \in Nat
        BY <3>2, EntryType DEF Good
    <3> QED
        BY <2>1, <3>1, <3>3, <3>4
  <2>5. Max(OwnersIn(B, x)) = m
      BY <2>2, <2>3, <2>4, MaxIs
  <2>6. k \in InUse(s) /\ s.entries[k].name = x
      BY <1>6, <2>2
  <2>7. lookup(s, x) # 0 /\ OwnersIn(B, x) # {}
      BY <1>4, <1>10, <2>2
  <2> QED
      BY <1>1, <1>4, <2>1, <2>5, <2>6, <2>7
<1> QED
    BY <1>9, <1>10

(* semantic_scope_find_current finds the variable of the innermost block.  *)
LEMMA CurrentFinds ==
    ASSUME NEW s, Good(s), NEW x
    PROVE  /\ find_current(s, x) = 0 <=> x \notin DOMAIN BlocksOf(s)[s.depth + 1]
           /\ find_current(s, x) # 0 =>
                 /\ find_current(s, x) \in InUse(s) /\ s.entries[find_current(s, x)].name = x
                 /\ s.entries[find_current(s, x)].depth = s.depth
<1>1. PICK B : B = BlocksOf(s) /\ Represents(s, B)
    BY BlocksRepresent
<1>2. s.depth \in Nat /\ s.active_len \in Nat /\ s.depth + 1 \in 1..s.depth + 1
    BY DEF Good, Scope
<1>3. ASSUME NEW i \in Here(s, x) PROVE x \in DOMAIN B[s.depth + 1]
    BY <1>1 DEF Here, InUse, Represents, Complete
<1>4. ASSUME x \in DOMAIN B[s.depth + 1] PROVE Here(s, x) # {}
  <2>1. PICK i \in InUse(s) : s.entries[i].depth + 1 = s.depth + 1 /\ s.entries[i].name = x
      BY <1>1, <1>2, <1>4 DEF Represents, Founded
  <2>2. s.entries[i].depth = s.depth
      BY <1>2, <2>1, EntryType DEF Good
  <2> QED
      BY <2>1, <2>2 DEF Here, InUse
<1>5. CASE find_current(s, x) = 0
    BY <1>1, <1>4, <1>5, NotFound
<1>6. CASE find_current(s, x) # 0
  <2>1. PICK i : i \in Here(s, x)
      BY <1>6 DEF find_current
  <2>2. Here(s, x) = {i} /\ i \in 1..s.active_len
      BY <2>1 DEF Here, Good, Single, InUse
  <2>3. find_current(s, x) = i
      BY <1>2, <2>2, MinOfOne DEF find_current
  <2> QED
      BY <1>1, <1>3, <1>6, <2>1, <2>3 DEF Here, InUse
<1> QED
    BY <1>5, <1>6
-----------------------------------------------------------------------------
(* A flag is set.                                                          *)
MarkUsed(s, i) == [s EXCEPT !.entries[i].used = TRUE]
MarkMutable(s, i) == [s EXCEPT !.entries[i].mutable = TRUE]
UsedIn(B, b, x) == [B EXCEPT ![b][x].used = TRUE]
MutableIn(B, b, x) == [B EXCEPT ![b][x].mutable = TRUE]

LEMMA FlagOfVariable ==
    ASSUME NEW e \in Entry
    PROVE  /\ VariableOf([e EXCEPT !.used = TRUE]) = [VariableOf(e) EXCEPT !.used = TRUE]
           /\ VariableOf([e EXCEPT !.mutable = TRUE]) = [VariableOf(e) EXCEPT !.mutable = TRUE]
<1>1. PICK f, g : f = [e EXCEPT !.used = TRUE] /\ g = [e EXCEPT !.mutable = TRUE]
    OBVIOUS
<1>2. PICK v, w : v = [VariableOf(e) EXCEPT !.used = TRUE] /\ w = [VariableOf(e) EXCEPT !.mutable = TRUE]
    OBVIOUS
<1>3. /\ f.used = TRUE /\ f.mutable = e.mutable /\ f.warn_unused = e.warn_unused /\ f.at = e.at
      /\ g.used = e.used /\ g.mutable = TRUE /\ g.warn_unused = e.warn_unused /\ g.at = e.at
    BY <1>1 DEF Entry
<1>4. VariableOf(f) = v
    BY <1>2, <1>3 DEF VariableOf
<1>5. VariableOf(g) = w
    BY <1>2, <1>3 DEF VariableOf
<1> QED
    BY <1>1, <1>2, <1>4, <1>5

LEMMA MarkBlocks ==
    ASSUME NEW s, Good(s), NEW i \in InUse(s)
    PROVE  /\ BlocksOf(MarkUsed(s, i)) = UsedIn(BlocksOf(s), s.entries[i].depth + 1, s.entries[i].name)
           /\ BlocksOf(MarkMutable(s, i)) = MutableIn(BlocksOf(s), s.entries[i].depth + 1, s.entries[i].name)
<1>1. PICK B : B = BlocksOf(s) /\ Represents(s, B)
    BY BlocksRepresent
<1>2. PICK e, x, m : e = s.entries[i] /\ x = e.name /\ m = e.depth + 1
    OBVIOUS
<1>3. e \in Entry /\ B[m][x] = VariableOf(e)
    BY <1>1, <1>2, EntryType DEF Good, Represents, Complete
<1>4. i \in DOMAIN s.entries /\ s.entries \in Seq(Entry) /\ s \in Scope
    BY DEF InUse, Good, Scope
<1>5. PICK t, u : t = MarkUsed(s, i) /\ u = MarkMutable(s, i)
    OBVIOUS
<1>6. SameSlots(s, t) /\ SameSlots(s, u)
    BY <1>5, MarkSame DEF MarkUsed, MarkMutable
<1>7. /\ t.entries = [s.entries EXCEPT ![i] = [e EXCEPT !.used = TRUE]]
      /\ u.entries = [s.entries EXCEPT ![i] = [e EXCEPT !.mutable = TRUE]]
    BY <1>2, <1>4, <1>5 DEF Scope, MarkUsed, MarkMutable
<1>8. /\ t.entries[i] = [e EXCEPT !.used = TRUE] /\ u.entries[i] = [e EXCEPT !.mutable = TRUE]
      /\ \A j \in InUse(s) : j # i => t.entries[j] = s.entries[j] /\ u.entries[j] = s.entries[j]
    BY <1>4, <1>7
<1>9. /\ VariableOf(t.entries[i]) = [B[m][x] EXCEPT !.used = TRUE]
      /\ VariableOf(u.entries[i]) = [B[m][x] EXCEPT !.mutable = TRUE]
    BY <1>3, <1>8, FlagOfVariable
<1>10. /\ BlocksOf(t) = [B EXCEPT ![m] = [@ EXCEPT ![x] = VariableOf(t.entries[i])]]
       /\ BlocksOf(u) = [B EXCEPT ![m] = [@ EXCEPT ![x] = VariableOf(u.entries[i])]]
    BY <1>1, <1>2, <1>6, <1>8, FlagBlocks
<1>11. BlocksOf(t) = UsedIn(B, m, x) /\ BlocksOf(u) = MutableIn(B, m, x)
    BY <1>9, <1>10 DEF UsedIn, MutableIn
<1> QED
    BY <1>1, <1>2, <1>5, <1>11

Touched(B, x) == IF OwnersIn(B, x) # {} THEN UsedIn(B, Max(OwnersIn(B, x)), x) ELSE B

LEMMA UseBlocks ==
    ASSUME NEW s, Good(s), NEW x
    PROVE  BlocksOf(mark_used(s, x)) = Touched(BlocksOf(s), x)
<1>1. CASE lookup(s, x) = 0
    BY <1>1, LookupFinds DEF mark_used, Touched
<1>2. CASE lookup(s, x) # 0
  <2>1. PICK i \in InUse(s) : i = lookup(s, x) /\ s.entries[i].name = x
      BY <1>2, LookupFinds
  <2>2. OwnersIn(BlocksOf(s), x) # {} /\ Max(OwnersIn(BlocksOf(s), x)) = s.entries[i].depth + 1
      BY <1>2, <2>1, LookupFinds
  <2>3. mark_used(s, x) = MarkUsed(s, i)
      BY <1>2, <2>1 DEF mark_used, MarkUsed
  <2> QED
      BY <2>1, <2>2, <2>3, MarkBlocks DEF Touched
<1> QED
    BY <1>1, <1>2

LEMMA MutableBlocks ==
    ASSUME NEW s, Good(s), NEW x, find_current(s, x) # 0
    PROVE  BlocksOf(mark_mutable(s, x)) = MutableIn(BlocksOf(s), s.depth + 1, x)
<1>1. PICK i \in InUse(s) : i = find_current(s, x) /\ s.entries[i].name = x /\ s.entries[i].depth = s.depth
    BY CurrentFinds
<1>2. mark_mutable(s, x) = MarkMutable(s, i)
    BY <1>1 DEF mark_mutable, MarkMutable
<1> QED
    BY <1>1, <1>2, MarkBlocks

(* A declaration, by semantic_scope_declare and semantic_scope_mark_mutable. *)
Bound(B, b, x, v) == [B EXCEPT ![b] = WithIn(@, x, v)]
Fresh(warn, at) == [used |-> FALSE, mutable |-> FALSE, warn |-> warn, at |-> at]
Announced(B, x, mutable, at) ==
    LET n == Len(B)
        v == IF x \in DOMAIN B[n] THEN B[n][x] ELSE Fresh(TRUE, at)
    IN  IF x = Blank /\ x \notin DOMAIN B[n] THEN B
        ELSE Bound(B, n, x, [v EXCEPT !.mutable = @ \/ mutable])
DeclaredAs(s, x, mutable, at) ==
    LET t == Declared(s, x, at) IN IF mutable THEN mark_mutable(t, x) ELSE t

LEMMA InnermostBlock ==
    ASSUME NEW s, Good(s), NEW B, B = BlocksOf(s)
    PROVE  /\ Represents(s, B) /\ s.depth \in Nat /\ DOMAIN B = 1..s.depth + 1 /\ Len(B) = s.depth + 1
           /\ s.depth + 1 \in 1..s.depth + 1
           /\ B = [b \in 1..s.depth + 1 |-> B[b]]
           /\ \A b \in 1..s.depth + 1 : B[b] = [x \in DOMAIN B[b] |-> B[b][x]]
<1>1. Represents(s, B) /\ s.depth \in Nat
    BY BlocksRepresent DEF Good, Scope
<1>2. B = [b \in 1..s.depth + 1 |-> B[b]]
    BY <1>1 DEF Represents, Shaped
<1>3. DOMAIN B = 1..s.depth + 1 /\ Len(B) = s.depth + 1
    BY <1>1, <1>2
<1>4. \A b \in 1..s.depth + 1 : B[b] = [x \in DOMAIN B[b] |-> B[b][x]]
    BY <1>1 DEF Represents, Shaped
<1>5. s.depth + 1 \in 1..s.depth + 1
    BY <1>1
<1> QED
    BY <1>1, <1>2, <1>3, <1>4, <1>5

LEMMA FreshBlocks ==
    ASSUME NEW s, Good(s), NEW x \in Names, NEW warn \in BOOLEAN, NEW at \in Positions \cup {NoPosition},
           warn => at \in Positions, find_current(s, x) = 0
    PROVE  BlocksOf(Place(s, NewEntry(s, x, warn, at))) =
             Bound(BlocksOf(s), s.depth + 1, x, Fresh(warn, at))
<1>1. PICK e : e = NewEntry(s, x, warn, at)
    OBVIOUS
<1>2. /\ e \in Entry /\ e.name = x /\ e.depth = s.depth /\ e.warn_unused = warn /\ e.at = at
      /\ VariableOf(e) = Fresh(warn, at)
    BY <1>1 DEF NewEntry, Entry, VariableOf, Fresh, Good, Scope
<1>3. Here(s, x) = {}
    BY NotFound
<1>4. BlocksOf(Place(s, e)) = Bound(BlocksOf(s), s.depth + 1, x, VariableOf(e))
    BY <1>2, <1>3, PlaceBlocks DEF Bound
<1> QED
    BY <1>1, <1>2, <1>4

LEMMA DeclareBlocks ==
    ASSUME NEW s, Good(s), NEW x \in Names, NEW mutable \in BOOLEAN, NEW at \in Positions
    PROVE  BlocksOf(DeclaredAs(s, x, mutable, at)) = Announced(BlocksOf(s), x, mutable, at)
<1>1. PICK B : B = BlocksOf(s)
    OBVIOUS
<1>2. PICK n : /\ n = s.depth + 1 /\ n = Len(B) /\ n \in 1..n /\ DOMAIN B = 1..n
               /\ B = [b \in 1..n |-> B[b]] /\ B[n] = [y \in DOMAIN B[n] |-> B[n][y]]
    BY <1>1, InnermostBlock
<1>3. find_current(s, x) = 0 <=> x \notin DOMAIN B[n]
    BY <1>1, <1>2, CurrentFinds
<1>4. CASE x \in DOMAIN B[n]
  <2>1. Declared(s, x, at) = s
      BY <1>3, <1>4 DEF Declared
  <2>2. PICK e \in Entry : B[n][x] = VariableOf(e)
    <3>1. PICK i \in InUse(s) : s.entries[i].name = x /\ s.entries[i].depth = s.depth
        BY <1>3, <1>4, CurrentFinds
    <3>2. s.entries[i] \in Entry
        BY EntryType DEF Good
    <3>3. B[n][x] = VariableOf(s.entries[i])
        BY <1>1, <1>2, <3>1, BlocksRepresent DEF Represents, Complete
    <3> QED
        BY <3>2, <3>3
  <2>3. PICK w : w = [B[n][x] EXCEPT !.mutable = @ \/ mutable]
      OBVIOUS
  <2>4. Announced(B, x, mutable, at) = Bound(B, n, x, w)
      BY <1>2, <1>4, <2>3 DEF Announced
  <2>5. Bound(B, n, x, w) = [B EXCEPT ![n] = [B[n] EXCEPT ![x] = w]]
    <3>1. WithIn(B[n], x, w) = [B[n] EXCEPT ![x] = w]
        BY <1>2, <1>4 DEF WithIn
    <3> QED
        BY <1>2, <3>1 DEF Bound
  <2>6. CASE mutable
    <3>1. BlocksOf(mark_mutable(s, x)) = MutableIn(B, n, x)
        BY <1>1, <1>2, <1>3, <1>4, MutableBlocks
    <3>2. w = [B[n][x] EXCEPT !.mutable = TRUE]
        BY <2>2, <2>3, <2>6 DEF VariableOf, Entry
    <3>3. MutableIn(B, n, x) = Bound(B, n, x, w)
        BY <1>2, <1>4, <2>5, <3>2 DEF MutableIn
    <3>4. DeclaredAs(s, x, mutable, at) = mark_mutable(s, x)
        BY <2>1, <2>6 DEF DeclaredAs
    <3> QED
        BY <1>1, <2>4, <3>1, <3>3, <3>4
  <2>7. CASE ~mutable
    <3>1. w = B[n][x]
        BY <2>2, <2>3, <2>7 DEF VariableOf, Entry
    <3>2. [B[n] EXCEPT ![x] = w] = B[n]
        BY <1>2, <1>4, <3>1
    <3>3. [B EXCEPT ![n] = B[n]] = B
        BY <1>2
    <3>4. DeclaredAs(s, x, mutable, at) = s
        BY <2>1, <2>7 DEF DeclaredAs
    <3> QED
        BY <1>1, <2>4, <2>5, <3>2, <3>3, <3>4
  <2> QED
      BY <2>6, <2>7
<1>5. CASE x \notin DOMAIN B[n] /\ x = Blank
    BY <1>1, <1>2, <1>3, <1>5 DEF DeclaredAs, Declared, mark_mutable, Announced
<1>6. CASE x \notin DOMAIN B[n] /\ x # Blank
  <2>1. PICK t : t = Declared(s, x, at) /\ t = Place(s, NewEntry(s, x, TRUE, at))
      BY <1>3, <1>6 DEF Declared
  <2>2. PICK C : C = BlocksOf(t)
      OBVIOUS
  <2>3. C = Bound(B, n, x, Fresh(TRUE, at))
    <3>1. BlocksOf(Place(s, NewEntry(s, x, TRUE, at))) = Bound(BlocksOf(s), s.depth + 1, x, Fresh(TRUE, at))
        BY <1>3, <1>6, FreshBlocks
    <3> QED
        BY <1>1, <1>2, <2>1, <2>2, <3>1
  <2>4. C[n] = WithIn(B[n], x, Fresh(TRUE, at)) /\ DOMAIN C = 1..n
      BY <1>2, <2>3 DEF Bound
  <2>5. PICK v : v = [Fresh(TRUE, at) EXCEPT !.mutable = @ \/ mutable]
      OBVIOUS
  <2>6. Announced(B, x, mutable, at) = Bound(B, n, x, v)
      BY <1>2, <1>6, <2>5 DEF Announced
  <2>7. CASE ~mutable
    <3>1. v = [Fresh(TRUE, at) EXCEPT !.mutable = FALSE]
        BY <2>5, <2>7 DEF Fresh
    <3>2. v = Fresh(TRUE, at)
        BY <3>1 DEF Fresh
    <3>3. DeclaredAs(s, x, mutable, at) = t
        BY <2>1, <2>7 DEF DeclaredAs
    <3> QED
        BY <1>1, <2>2, <2>3, <2>6, <3>2, <3>3
  <2>8. CASE mutable
    <3>1. Good(t)
        BY <2>1, DeclaredGood
    <3>2. t.depth = s.depth
        BY <2>1 DEF Place, Good, Scope
    <3>3. x \in DOMAIN C[n]
        BY <2>4 DEF WithIn
    <3>4. find_current(t, x) # 0
        BY <1>2, <2>2, <3>1, <3>2, <3>3, CurrentFinds
    <3>5. BlocksOf(mark_mutable(t, x)) = MutableIn(C, n, x)
        BY <1>2, <2>2, <3>1, <3>2, <3>4, MutableBlocks
    <3>6. v = [Fresh(TRUE, at) EXCEPT !.mutable = TRUE]
        BY <2>5, <2>8 DEF Fresh
    <3>7. [C[n] EXCEPT ![x] = [C[n][x] EXCEPT !.mutable = TRUE]] = WithIn(B[n], x, v)
        BY <2>4, <3>6 DEF WithIn
    <3>8. MutableIn(C, n, x) = [C EXCEPT ![n] = WithIn(B[n], x, v)]
        BY <2>4, <3>7 DEF MutableIn
    <3>9. [C EXCEPT ![n] = WithIn(B[n], x, v)] = Bound(B, n, x, v)
        BY <1>2, <2>3 DEF Bound
    <3>10. DeclaredAs(s, x, mutable, at) = mark_mutable(t, x)
        BY <2>1, <2>8 DEF DeclaredAs
    <3> QED
        BY <1>1, <2>6, <3>5, <3>8, <3>9, <3>10
  <2> QED
      BY <2>7, <2>8
<1> QED
    BY <1>4, <1>5, <1>6
-----------------------------------------------------------------------------
(* The diagnostics.  A bag that holds an error has counted one, so that an *)
(* error it refuses is not the first.                                      *)
Counted(r) == (\E d \in r.diagnostics : d.level = "error") => r.error_count > 0
WarnedIn(r) == {<<d.name, d.at>> : d \in {w \in r.diagnostics : w.level = "warning"}}
Judged(r, q, broken) ==
    /\ Counted(q) /\ WarnedIn(q) = WarnedIn(r)
    /\ q.error_count > 0 <=> r.error_count > 0 \/ broken

LEMMA Unjudged == ASSUME NEW r, Counted(r) PROVE Judged(r, r, FALSE)
BY DEF Judged

LEMMA ErrorJudged ==
    ASSUME NEW r \in TheResults, Counted(r), NEW kind \in ErrorKinds, NEW x \in Names, NEW at \in Positions
    PROVE  Judged(r, add_error(r, Problem(kind, x, at)), TRUE)
<1>1. PICK d : d = Problem(kind, x, at) /\ d.level = "error"
  <2>1. Problem(kind, x, at).level = "error"
      BY DEF Problem
  <2> QED
      BY <2>1
<1>2. r.error_count \in Nat /\ Limit \in Nat \ {0}
    BY BagAssumption DEF TheResults, Results
<1>3. CASE d \in r.diagnostics
    BY <1>1, <1>3 DEF add_error, Judged, Counted
<1>4. CASE d \notin r.diagnostics /\ r.error_count >= Limit
  <2>1. PICK q : q = [r EXCEPT !.stopped = TRUE] /\ q = add_error(r, d)
      BY <1>4 DEF add_error
  <2>2. q.diagnostics = r.diagnostics /\ q.error_count = r.error_count
      BY <2>1 DEF TheResults, Results
  <2> QED
      BY <1>1, <1>2, <1>4, <2>1, <2>2 DEF Judged, Counted, WarnedIn
<1>5. CASE d \notin r.diagnostics /\ ~(r.error_count >= Limit)
  <2>1. PICK q : q = [r EXCEPT !.diagnostics = @ \cup {d}, !.error_count = @ + 1] /\ q = add_error(r, d)
      BY <1>5 DEF add_error
  <2>2. q.diagnostics = r.diagnostics \cup {d} /\ q.error_count = r.error_count + 1
      BY <2>1 DEF TheResults, Results
  <2>3. {w \in q.diagnostics : w.level = "warning"} = {w \in r.diagnostics : w.level = "warning"}
      BY <1>1, <2>2
  <2>4. WarnedIn(q) = WarnedIn(r)
      BY <2>3 DEF WarnedIn
  <2> QED
      BY <1>1, <1>2, <2>1, <2>2, <2>4 DEF Judged, Counted
<1> QED
    BY <1>1, <1>3, <1>4, <1>5

LEMMA RequireJudged ==
    ASSUME NEW r \in TheResults, Counted(r), NEW s, Good(s), NEW x \in Names, NEW at \in Positions
    PROVE  /\ Judged(r, require(s, r, x, at), x # Blank /\ OwnersIn(BlocksOf(s), x) = {})
           /\ Judged(r, DeclareResult(s, r, x, at), x # Blank /\ x \in DOMAIN BlocksOf(s)[s.depth + 1])
<1>1. /\ Judged(r, r, FALSE)
      /\ Judged(r, add_error(r, Problem("undefined", x, at)), TRUE)
      /\ Judged(r, add_error(r, Problem("duplicate", x, at)), TRUE)
    BY Unjudged, ErrorJudged DEF ErrorKinds
<1>2. contains(s, x) <=> OwnersIn(BlocksOf(s), x) # {}
    BY LookupFinds DEF contains
<1>3. find_current(s, x) # 0 <=> x \in DOMAIN BlocksOf(s)[s.depth + 1]
    BY CurrentFinds
<1> QED
    BY <1>1, <1>2, <1>3 DEF require, DeclareResult, Judged

(* What is reported at the end of a block.                                 *)
Idle(block) == {<<x, block[x].at>> : x \in {y \in DOMAIN block : block[y].warn /\ ~block[y].used}}

LEMMA WarningsJudged ==
    ASSUME NEW r \in TheResults, Counted(r), NEW s, Good(s), NEW q, q = warn_unused_current(s, r)
    PROVE  /\ Counted(q) /\ q.error_count = r.error_count
           /\ WarnedIn(q) = IF EmitWarnings THEN WarnedIn(r) \cup Idle(BlocksOf(s)[s.depth + 1]) ELSE WarnedIn(r)
<1> DEFINE J == {j \in Keep(s) + 1..s.active_len :
                    s.entries[j].depth = s.depth /\ s.entries[j].warn_unused /\ ~s.entries[j].used}
           D == {Unused(s.entries[i].name, s.entries[i].at) : i \in J}
<1>1. PICK block, n : n = s.depth + 1 /\ block = BlocksOf(s)[n]
    OBVIOUS
<1>2. /\ s.active_len \in Nat /\ s.depth \in Nat
      /\ Keep(s) \in 0..s.active_len /\ SplitsAt(s, s.depth, Keep(s))
    BY KeepSplits DEF Good, Scope
<1>3. \A i \in InUse(s) : s.entries[i].depth = s.depth => i \in Keep(s) + 1..s.active_len
    BY <1>2 DEF SplitsAt, InUse
<1>4. J = {j \in InUse(s) : s.entries[j].depth = s.depth /\ s.entries[j].warn_unused /\ ~s.entries[j].used}
    BY <1>2, <1>3 DEF InUse
<1> HIDE DEF J
<1>5. \A i \in InUse(s) : s.entries[i].depth = s.depth =>
          /\ s.entries[i].name \in DOMAIN block /\ block[s.entries[i].name] = VariableOf(s.entries[i])
    BY <1>1, <1>2, BlocksRepresent DEF Represents, Complete
<1>6. \A x \in DOMAIN block : \E i \in InUse(s) : s.entries[i].depth = s.depth /\ s.entries[i].name = x
  <2> SUFFICES ASSUME NEW x \in DOMAIN block
               PROVE  \E i \in InUse(s) : s.entries[i].depth = s.depth /\ s.entries[i].name = x
      OBVIOUS
  <2>1. n \in 1..s.depth + 1
      BY <1>1, <1>2
  <2>2. PICK i \in InUse(s) : s.entries[i].depth + 1 = n /\ s.entries[i].name = x
      BY <1>1, <2>1, BlocksRepresent DEF Represents, Founded
  <2> QED
      BY <1>1, <1>2, <2>2, EntryType DEF Good
<1>7. Idle(block) = {<<s.entries[i].name, s.entries[i].at>> : i \in J}
  <2>1. ASSUME NEW i \in J
        PROVE  /\ s.entries[i].name \in DOMAIN block /\ block[s.entries[i].name].warn
               /\ ~block[s.entries[i].name].used /\ block[s.entries[i].name].at = s.entries[i].at
    <3>1. PICK e : e = s.entries[i] /\ e.warn_unused /\ ~e.used
        BY <1>4
    <3>2. e.name \in DOMAIN block /\ block[e.name] = VariableOf(e)
        BY <1>4, <1>5, <3>1
    <3>3. VariableOf(e).warn = e.warn_unused /\ VariableOf(e).used = e.used /\ VariableOf(e).at = e.at
        BY DEF VariableOf
    <3> QED
        BY <3>1, <3>2, <3>3
  <2>2. ASSUME NEW x \in DOMAIN block, block[x].warn, ~block[x].used
        PROVE  \E i \in J : s.entries[i].name = x /\ s.entries[i].at = block[x].at
    <3>1. PICK i \in InUse(s) : s.entries[i].depth = s.depth /\ s.entries[i].name = x
        BY <1>6
    <3>2. block[x] = VariableOf(s.entries[i])
        BY <1>5, <3>1
    <3> QED
        BY <1>4, <2>2, <3>1, <3>2 DEF VariableOf
  <2> QED
      BY <2>1, <2>2 DEF Idle
<1>8. q = add_warnings(r, D)
    BY DEF warn_unused_current, J
<1>9. \A d \in D : d.level = "warning"
    BY DEF Unused
<1>10. {<<d.name, d.at>> : d \in D} = {<<s.entries[i].name, s.entries[i].at>> : i \in J}
  <2>1. \A y, at : Unused(y, at).name = y /\ Unused(y, at).at = at
      BY DEF Unused
  <2> QED
      BY <2>1
<1> HIDE DEF D
<1>11. CASE EmitWarnings
  <2>1. q = [r EXCEPT !.diagnostics = @ \cup D]
      BY <1>8, <1>11 DEF add_warnings
  <2>2. q.diagnostics = r.diagnostics \cup D /\ q.error_count = r.error_count
      BY <2>1 DEF TheResults, Results
  <2>3. {w \in q.diagnostics : w.level = "warning"} = {w \in r.diagnostics : w.level = "warning"} \cup D
      BY <1>9, <2>2
  <2>4. WarnedIn(q) = WarnedIn(r) \cup {<<d.name, d.at>> : d \in D}
      BY <2>3 DEF WarnedIn
  <2>5. Counted(q)
      BY <1>9, <2>2 DEF Counted
  <2> QED
      BY <1>1, <1>7, <1>10, <1>11, <2>2, <2>4, <2>5
<1>12. CASE ~EmitWarnings
    BY <1>8, <1>12 DEF add_warnings
<1> QED
    BY <1>11, <1>12
-----------------------------------------------------------------------------
(* The refinement.  A bag that has an error has counted one, so that an    *)
(* error it has no room for is never the first; parameters are entered     *)
(* before any scope is open.                                               *)
BlocksInv == ScopeInv /\ Counted(result) /\ (entering => scope.depth = 0)

LEMMA MappedResult ==
    /\ Rejected <=> result.error_count > 0
    /\ Rejected' <=> result'.error_count > 0
    /\ Warned = WarnedIn(result) /\ Warned' = WarnedIn(result')
BY DEF Rejected, Warned, WarnedIn

LEMMA MappedWords ==
    ASSUME NEW x
    PROVE  /\ Lexical!Here = Blocks[Len(Blocks)]
           /\ Lexical!Visible(x) <=> OwnersIn(Blocks, x) # {}
           /\ Lexical!Meaning(x) = Blocks[Max(OwnersIn(Blocks, x))][x]
           /\ Lexical!Touch(x) = Touched(Blocks, x)
           /\ Lexical!Empty = NoNames
<1>1. Lexical!Owners(x) = OwnersIn(Blocks, x)
    BY DEF Lexical!Owners, OwnersIn
<1>2. \A S : Lexical!Max(S) = Max(S)
    BY DEF Lexical!Max, Max
<1>3. Lexical!Here = Blocks[Len(Blocks)] /\ Lexical!Empty = NoNames
    BY DEF Lexical!Here, Lexical!Empty, NoNames
<1>4. Lexical!Visible(x) <=> OwnersIn(Blocks, x) # {}
    BY <1>1 DEF Lexical!Visible
<1>5. Lexical!Meaning(x) = Blocks[Max(OwnersIn(Blocks, x))][x]
    BY <1>1, <1>2 DEF Lexical!Meaning
<1>6. Lexical!Touch(x) = Touched(Blocks, x)
    BY <1>1, <1>2, <1>4 DEF Lexical!Touch, Touched, UsedIn
<1> QED
    BY <1>3, <1>4, <1>5, <1>6

LEMMA MappedDepth ==
    ASSUME Good(scope)
    PROVE  /\ Lexical!InBody <=> Walking
           /\ Len(Blocks) = scope.depth + 1 /\ scope.depth \in Nat
<1>1. Len(Blocks) = scope.depth + 1 /\ scope.depth \in Nat
    BY MappedBlocks, InnermostBlock
<1> QED
    BY <1>1 DEF Lexical!InBody, Walking

LEMMA Judges ==
    ASSUME NEW broken \in BOOLEAN, Judged(result, result', broken)
    PROVE  Lexical!Rejecting(broken) /\ Warned' = Warned
<1>1. Rejected' <=> Rejected \/ broken
    BY MappedResult DEF Judged
<1>2. Rejected \in BOOLEAN /\ Rejected' \in BOOLEAN
    BY DEF Rejected
<1> QED
    BY <1>1, <1>2, MappedResult DEF Judged, Lexical!Rejecting

LEMMA Facts ==
    ASSUME BlocksInv
    PROVE  Good(scope) /\ result \in TheResults /\ Counted(result)
BY DEF BlocksInv, ScopeInv, TheResults

LEMMA UnboundRejects ==
    ASSUME BlocksInv, NEW x \in Names, NEW at \in Positions, result' = require(scope, result, x, at)
    PROVE  Lexical!Rejecting(x # Blank /\ ~Lexical!Visible(x)) /\ Warned' = Warned /\ Counted(result')
<1>1. Judged(result, result', x # Blank /\ OwnersIn(Blocks, x) = {})
    BY Facts, RequireJudged, MappedBlocks
<1>2. PICK broken \in BOOLEAN : broken <=> x # Blank /\ OwnersIn(Blocks, x) = {}
    OBVIOUS
<1>3. Judged(result, result', broken)
    BY <1>1, <1>2 DEF Judged
<1>4. broken = (x # Blank /\ ~Lexical!Visible(x))
    BY <1>2, MappedWords
<1> QED
    BY <1>3, <1>4, Judges DEF Judged

LEMMA ReadStep ==
    ASSUME BlocksInv, NEW x \in Names, NEW at \in Positions, Walking,
           result' = require(scope, result, x, at), scope' = mark_used(scope, x)
    PROVE  Lexical!Read(x) /\ Counted(result')
<1>1. Blocks' = Lexical!Touch(x)
    BY Facts, UseBlocks, MappedBlocks, MappedWords
<1> QED
    BY <1>1, Facts, UnboundRejects, MappedDepth DEF Lexical!Read

LEMMA WriteStep ==
    ASSUME BlocksInv, NEW x \in Names, NEW at \in Positions, Assign(x, at)
    PROVE  Lexical!Write(x) /\ Counted(result')
<1>1. Walking /\ result' = require(scope, result, x, at) /\ scope' = scope
    BY DEF Assign
<1>2. Blocks' = Blocks
    BY <1>1, MappedBlocks
<1> QED
    BY <1>1, <1>2, Facts, UnboundRejects, MappedDepth DEF Lexical!Write

LEMMA CallStep ==
    ASSUME BlocksInv, NEW x \in Names, NEW at \in Positions, Call(x, at)
    PROVE  Lexical!Invoke(x) /\ Counted(result')
<1>1. Walking /\ scope' = scope /\ Blocks' = Blocks
    BY MappedBlocks DEF Call
<1>2. PICK broken \in BOOLEAN : broken = (~Lexical!Visible(x) /\ x \notin Functions)
    OBVIOUS
<1>3. contains(scope, x) <=> Lexical!Visible(x)
    BY Facts, LookupFinds, MappedBlocks, MappedWords DEF contains
<1>4. Judged(result, result', broken)
  <2>1. CASE broken
    <3>1. result' = add_error(result, Problem("undefined function", x, at))
        BY <1>2, <1>3, <2>1 DEF Call
    <3>2. Judged(result, result', TRUE)
        BY <3>1, Facts, ErrorJudged DEF ErrorKinds
    <3> QED
        BY <2>1, <3>2
  <2>2. CASE ~broken
    <3>1. result' = result
        BY <1>2, <1>3, <2>2 DEF Call
    <3>2. Judged(result, result', FALSE)
        BY <3>1, Facts, Unjudged
    <3> QED
        BY <2>2, <3>2
  <2> QED
      BY <2>1, <2>2
<1>5. Lexical!Rejecting(broken) /\ Warned' = Warned /\ Counted(result')
    BY <1>4, Judges DEF Judged
<1> QED
    BY <1>1, <1>2, <1>5, Facts, MappedDepth DEF Lexical!Invoke

LEMMA CaptureStep ==
    ASSUME BlocksInv, NEW x \in Names, NEW at \in Positions, Capture(x, at)
    PROVE  Lexical!Capture(x) /\ Counted(result')
<1>1. PICK i : i = lookup(scope, x)
    OBVIOUS
<1>2. i # 0 <=> Lexical!Visible(x)
    BY <1>1, Facts, LookupFinds, MappedBlocks, MappedWords
<1>3. i # 0 => Lexical!Meaning(x).mutable = scope.entries[i].mutable
  <2> SUFFICES ASSUME i # 0 PROVE Lexical!Meaning(x).mutable = scope.entries[i].mutable
      OBVIOUS
  <2>1. PICK m : m = scope.entries[i].depth + 1
      OBVIOUS
  <2>2. i \in InUse(scope) /\ scope.entries[i].name = x /\ Max(OwnersIn(Blocks, x)) = m
      BY <1>1, <2>1, Facts, LookupFinds, MappedBlocks
  <2>3. Blocks[m][x] = VariableOf(scope.entries[i])
      BY <2>1, <2>2, Facts, BlocksRepresent, MappedBlocks DEF Represents, Complete
  <2>4. Lexical!Meaning(x) = VariableOf(scope.entries[i])
      BY <2>2, <2>3, MappedWords
  <2> QED
      BY <2>4 DEF VariableOf
<1>4. Walking
    BY DEF Capture
<1>5. PICK refused \in BOOLEAN : refused <=> (i # 0 /\ scope.entries[i].mutable) \/ (i = 0 /\ x \notin Functions)
    OBVIOUS
<1>6. CASE refused
  <2>1. /\ result' = add_error(result, Problem(IF i # 0 THEN "mutable capture" ELSE "undefined capture", x, at))
        /\ scope' = scope
      BY <1>1, <1>5, <1>6 DEF Capture
  <2>2. Judged(result, result', TRUE)
      BY <2>1, Facts, ErrorJudged DEF ErrorKinds
  <2>3. Lexical!Rejecting(TRUE) /\ Warned' = Warned /\ Counted(result')
      BY <2>2, Judges DEF Judged
  <2>4. Blocks' = Blocks
      BY <2>1, MappedBlocks
  <2>5. CASE i # 0
      BY <1>2, <1>3, <1>4, <1>5, <1>6, <2>3, <2>4, <2>5, Facts, MappedDepth DEF Lexical!Capture
  <2>6. CASE i = 0
    <3>1. Lexical!Touch(x) = Blocks
        BY <1>2, <2>6 DEF Lexical!Touch
    <3>2. (~Lexical!Visible(x) /\ x \notin Functions) = TRUE
        BY <1>2, <1>5, <1>6, <2>6
    <3> QED
        BY <1>2, <1>4, <2>3, <2>4, <2>6, <3>1, <3>2, Facts, MappedDepth DEF Lexical!Capture
  <2> QED
      BY <2>5, <2>6
<1>7. CASE ~refused
  <2>1. scope' = mark_used(scope, x) /\ result' = result
      BY <1>1, <1>5, <1>7 DEF Capture
  <2>2. Blocks' = Lexical!Touch(x)
      BY <2>1, Facts, UseBlocks, MappedBlocks, MappedWords
  <2>3. Judged(result, result', FALSE)
      BY <2>1, Facts, Unjudged
  <2>4. Lexical!Rejecting(FALSE) /\ Warned' = Warned /\ Counted(result')
      BY <2>3, Judges DEF Judged
  <2>5. ~(Lexical!Visible(x) /\ Lexical!Meaning(x).mutable)
      BY <1>2, <1>3, <1>5, <1>7
  <2>6. (~Lexical!Visible(x) /\ x \notin Functions) = FALSE
      BY <1>2, <1>5, <1>7
  <2> QED
      BY <1>4, <2>2, <2>4, <2>5, <2>6, Facts, MappedDepth DEF Lexical!Capture
<1> QED
    BY <1>6, <1>7

LEMMA LetWalkStep ==
    ASSUME BlocksInv, NEW x \in Names, NEW at \in Positions, NEW mutable \in BOOLEAN, Let(x, mutable, at)
    PROVE  Lexical!Declare(x, mutable, at) /\ Counted(result')
<1>1. Walking /\ result' = DeclareResult(scope, result, x, at) /\ scope' = DeclaredAs(scope, x, mutable, at)
    BY DEF Let, DeclaredAs
<1>2. Len(Blocks) = scope.depth + 1
    BY Facts, MappedDepth
<1>3. PICK again \in BOOLEAN : again <=> x \in DOMAIN Blocks[Len(Blocks)]
    OBVIOUS
<1>4. PICK broken \in BOOLEAN : broken = (x # Blank /\ again)
    OBVIOUS
<1>5. Judged(result, result', x # Blank /\ x \in DOMAIN Blocks[Len(Blocks)])
    BY <1>1, <1>2, Facts, RequireJudged, MappedBlocks
<1>6. Judged(result, result', broken)
    BY <1>3, <1>4, <1>5 DEF Judged
<1>7. Lexical!Rejecting(broken) /\ Warned' = Warned /\ Counted(result')
    BY <1>6, Judges DEF Judged
<1>8. Blocks' = Announced(Blocks, x, mutable, at)
    BY <1>1, Facts, DeclareBlocks, MappedBlocks
<1>9. Lexical!Here = Blocks[Len(Blocks)]
    BY MappedWords
<1>10. broken = (x # Blank /\ x \in DOMAIN Lexical!Here)
    BY <1>3, <1>4, <1>9
<1>11. Blocks' = LET v == IF x \in DOMAIN Lexical!Here THEN Lexical!Here[x] ELSE Lexical!Variable(TRUE, at)
                 IN  IF x = Blank /\ ~(x \in DOMAIN Lexical!Here) THEN Blocks
                     ELSE [Blocks EXCEPT ![Len(Blocks)] = Lexical!With(@, x, [v EXCEPT !.mutable = @ \/ mutable])]
    BY <1>8, <1>9 DEF Announced, Bound, WithIn, Fresh, Lexical!Variable, Lexical!With
<1> QED
    BY <1>1, <1>7, <1>10, <1>11, Facts, MappedDepth DEF Lexical!Declare
(* A block that begins with a variable.                                    *)
LEMMA OpenedBlocks ==
    ASSUME NEW s, Good(s), NEW x \in Names, NEW at \in Positions
    PROVE  /\ find_current(scope_push(s), x) = 0
           /\ BlocksOf(Declared(scope_push(s), x, at)) =
                Append(BlocksOf(s), IF x = Blank THEN NoNames ELSE WithIn(NoNames, x, Fresh(TRUE, at)))
<1>1. PICK B, n : B = BlocksOf(s) /\ n = s.depth + 1
    OBVIOUS
<1>2. /\ n \in Nat /\ Len(B) = n /\ DOMAIN B = 1..n /\ B = [b \in 1..n |-> B[b]]
    BY <1>1, InnermostBlock
<1>3. PICK t : t = scope_push(s)
    OBVIOUS
<1>4. Good(t) /\ t.depth + 1 = n + 1
    BY <1>1, <1>2, <1>3, PushGood DEF scope_push, Good, Scope
<1>5. PICK C : C = Append(B, NoNames)
    OBVIOUS
<1>6. BlocksOf(t) = C
    BY <1>1, <1>3, <1>5, PushBlocks
<1>7. \A block : /\ DOMAIN Append(B, block) = 1..n + 1 /\ Append(B, block)[n + 1] = block
                 /\ \A b \in 1..n : Append(B, block)[b] = B[b]
                 /\ Append(B, block) = [b \in 1..n + 1 |-> Append(B, block)[b]]
  <2> SUFFICES ASSUME NEW block
               PROVE  /\ DOMAIN Append(B, block) = 1..n + 1 /\ Append(B, block)[n + 1] = block
                      /\ \A b \in 1..n : Append(B, block)[b] = B[b]
                      /\ Append(B, block) = [b \in 1..n + 1 |-> Append(B, block)[b]]
      OBVIOUS
  <2> DEFINE S == {B[b] : b \in 1..n} \cup {block}
             D == Append(B, block)
  <2>1. B \in [1..n -> S] /\ block \in S
      BY <1>2
  <2> HIDE DEF S
  <2>2. B \in Seq(S)
      BY <1>2, <2>1, SeqDef
  <2>3. D \in Seq(S) /\ Len(D) = n + 1 /\ D[n + 1] = block /\ \A b \in 1..n : D[b] = B[b]
      BY <1>2, <2>1, <2>2, AppendProperties
  <2> HIDE DEF D
  <2>4. DOMAIN D = 1..n + 1 /\ D = [b \in 1..n + 1 |-> D[b]]
      BY <1>2, <2>3
  <2> QED
      BY <2>3, <2>4 DEF D
<1>8. x \notin DOMAIN C[n + 1]
    BY <1>5, <1>7 DEF NoNames
<1>9. find_current(t, x) = 0
    BY <1>4, <1>6, <1>8, CurrentFinds
<1>10. CASE x = Blank
    BY <1>1, <1>3, <1>5, <1>6, <1>9, <1>10 DEF Declared
<1>11. CASE x # Blank
  <2>1. PICK v : v = WithIn(NoNames, x, Fresh(TRUE, at))
      OBVIOUS
  <2>2. Declared(t, x, at) = Place(t, NewEntry(t, x, TRUE, at))
      BY <1>9, <1>11 DEF Declared
  <2>3. BlocksOf(Place(t, NewEntry(t, x, TRUE, at))) = Bound(BlocksOf(t), t.depth + 1, x, Fresh(TRUE, at))
      BY <1>4, <1>9, FreshBlocks
  <2>4. BlocksOf(Declared(t, x, at)) = [C EXCEPT ![n + 1] = v]
      BY <1>4, <1>5, <1>6, <1>7, <2>1, <2>2, <2>3 DEF Bound
  <2>5. [C EXCEPT ![n + 1] = v] = Append(B, v)
    <3>1. PICK D : D = Append(B, v)
        OBVIOUS
    <3>2. /\ D = [b \in 1..n + 1 |-> D[b]] /\ D[n + 1] = v /\ \A b \in 1..n : D[b] = B[b]
          /\ C = [b \in 1..n + 1 |-> C[b]] /\ \A b \in 1..n : C[b] = B[b]
        BY <1>5, <1>7, <3>1
    <3>3. \A b \in 1..n + 1 : b \in 1..n \/ b = n + 1
        BY <1>2
    <3>4. \A b \in 1..n + 1 : [C EXCEPT ![n + 1] = v][b] = D[b]
        BY <1>2, <3>2, <3>3
    <3> QED
        BY <3>1, <3>2, <3>4
  <2> QED
      BY <1>1, <1>3, <1>9, <1>11, <2>1, <2>4, <2>5
<1> QED
    BY <1>3, <1>9, <1>10, <1>11

LEMMA OpenWithStep ==
    ASSUME BlocksInv, NEW x \in Names, NEW at \in Positions, NEW fresh \in BOOLEAN, Walking,
           scope' = Declared(scope_push(scope), x, at),
           Judged(result, result', fresh /\ contains(scope, x))
    PROVE  Lexical!OpenWith(x, fresh, at) /\ Counted(result')
<1>1. PICK broken \in BOOLEAN : broken = (fresh /\ Lexical!Visible(x))
    OBVIOUS
<1>2. contains(scope, x) <=> Lexical!Visible(x)
    BY Facts, LookupFinds, MappedBlocks, MappedWords DEF contains
<1>3. Judged(result, result', broken)
    BY <1>1, <1>2 DEF Judged
<1>4. Lexical!Rejecting(broken) /\ Warned' = Warned /\ Counted(result')
    BY <1>3, Judges DEF Judged
<1>5. Blocks' = Append(Blocks, IF x = Blank THEN NoNames ELSE WithIn(NoNames, x, Fresh(TRUE, at)))
    BY Facts, OpenedBlocks, MappedBlocks
<1>6. Blocks' = Append(Blocks, IF x = Blank THEN Lexical!Empty
                               ELSE Lexical!With(Lexical!Empty, x, Lexical!Variable(TRUE, at)))
    BY <1>5, MappedWords DEF WithIn, Fresh, Lexical!Variable, Lexical!With
<1> QED
    BY <1>1, <1>4, <1>6, Facts, MappedDepth DEF Lexical!OpenWith

LEMMA ForStep ==
    ASSUME BlocksInv, NEW x \in Names, NEW at \in Positions, ForRange(x, at)
    PROVE  Lexical!OpenWith(x, TRUE, at) /\ Counted(result')
<1>1. PICK r : r = IF contains(scope, x) THEN add_error(result, Problem("iterator", x, at)) ELSE result
    OBVIOUS
<1>2. PICK s : s = scope_push(scope) /\ find_current(s, x) = 0
    BY Facts, OpenedBlocks
<1>3. Walking /\ scope' = Declared(s, x, at) /\ result' = DeclareResult(s, r, x, at)
    BY <1>1, <1>2 DEF ForRange, CanOpen
<1>4. result' = r
    BY <1>2, <1>3 DEF DeclareResult
<1>5. Judged(result, result', contains(scope, x))
  <2>1. Judged(result, add_error(result, Problem("iterator", x, at)), TRUE) /\ Judged(result, result, FALSE)
      BY Facts, ErrorJudged, Unjudged DEF ErrorKinds
  <2> QED
      BY <1>1, <1>4, <2>1 DEF Judged
<1>6. Judged(result, result', TRUE /\ contains(scope, x))
    BY <1>5 DEF Judged
<1> QED
    BY <1>2, <1>3, <1>6, OpenWithStep

LEMMA ArmStep ==
    ASSUME BlocksInv, NEW x \in Names, NEW at \in Positions, MatchArm(x, at)
    PROVE  Lexical!OpenWith(x, FALSE, at) /\ Counted(result')
<1>1. PICK s : s = scope_push(scope) /\ find_current(s, x) = 0
    BY Facts, OpenedBlocks
<1>2. Walking /\ scope' = Declared(s, x, at) /\ result' = DeclareResult(s, result, x, at)
    BY <1>1 DEF MatchArm, CanOpen
<1>3. result' = result
    BY <1>1, <1>2 DEF DeclareResult
<1>4. Judged(result, result', FALSE /\ contains(scope, x))
    BY <1>3, Facts, Unjudged DEF Judged
<1> QED
    BY <1>1, <1>2, <1>4, OpenWithStep

LEMMA OpenStep ==
    ASSUME BlocksInv, scope' = scope_push(scope), result' = result
    PROVE  Lexical!Open /\ Counted(result')
<1>1. Blocks' = Append(Blocks, Lexical!Empty)
    BY Facts, PushBlocks, MappedBlocks, MappedWords
<1>2. Warned' = Warned /\ Rejected' = Rejected
    BY DEF Warned, Rejected
<1> QED
    BY <1>1, <1>2, Facts DEF Lexical!Open

LEMMA CloseStep ==
    ASSUME BlocksInv, LeaveScope
    PROVE  Lexical!Close /\ Counted(result')
<1>1. /\ Walking /\ scope' = scope_pop(scope)
      /\ result' = IF result.error_count = 0 THEN warn_unused_current(scope, result) ELSE result
    BY DEF LeaveScope
<1>2. Len(Blocks) = scope.depth + 1 /\ scope.depth \in Nat /\ (Lexical!InBody <=> Walking)
    BY Facts, MappedDepth
<1>3. Blocks' = SubSeq(Blocks, 1, Len(Blocks) - 1)
    BY <1>1, Facts, PopBlocks, MappedBlocks DEF Walking
<1>4. Idle(Blocks[Len(Blocks)]) = {<<x, Lexical!Here[x].at>> :
            x \in {y \in DOMAIN Lexical!Here : Lexical!Here[y].warn /\ ~Lexical!Here[y].used}}
  <2>1. Lexical!Here = Blocks[Len(Blocks)]
      BY DEF Lexical!Here
  <2> QED
      BY <2>1 DEF Idle
<1>5. Rejected <=> ~(result.error_count = 0)
    BY Facts DEF Rejected, TheResults, Results
<1>6. CASE Rejected
  <2>1. result' = result
      BY <1>1, <1>5, <1>6
  <2>2. Rejected' = Rejected /\ Warned' = Warned
      BY <2>1 DEF Rejected, Warned
  <2> QED
      BY <1>1, <1>2, <1>3, <1>6, <2>1, <2>2, Facts DEF Lexical!Close
<1>7. CASE ~Rejected
  <2>1. result' = warn_unused_current(scope, result)
      BY <1>1, <1>5, <1>7
  <2>2. /\ Counted(result') /\ result'.error_count = result.error_count
        /\ WarnedIn(result') = IF EmitWarnings THEN WarnedIn(result) \cup Idle(BlocksOf(scope)[scope.depth + 1])
                               ELSE WarnedIn(result)
      BY <2>1, Facts, WarningsJudged
  <2>3. Rejected' = Rejected
      BY <2>2 DEF Rejected
  <2>4. Warned' = IF EmitWarnings THEN Warned \cup Idle(Blocks[Len(Blocks)]) ELSE Warned
      BY <1>2, <2>2, MappedBlocks, MappedResult
  <2> QED
      BY <1>1, <1>2, <1>3, <1>4, <1>7, <2>2, <2>3, <2>4 DEF Lexical!Close
<1> QED
    BY <1>6, <1>7

LEMMA EnterStep ==
    ASSUME BlocksInv, NEW p \in Params, EnterFunction(p)
    PROVE  Lexical!Enter /\ BlocksInv'
<1>1. ~Walking /\ scope' = scope_new /\ result' = result
    BY DEF EnterFunction
<1>2. Blocks' = <<NoNames>>
    BY <1>1, NewBlocks, MappedBlocks
<1>3. Rejected' = Rejected /\ Warned' = Warned
    BY <1>1 DEF Rejected, Warned
<1>4. ScopeInv' /\ scope'.depth = 0
    BY <1>1, EnterFunctionKeeps DEF BlocksInv, scope_new
<1> QED
    BY <1>1, <1>2, <1>3, <1>4, Facts, MappedDepth, MappedWords DEF BlocksInv, Lexical!Enter

LEMMA ParamWalkStep ==
    ASSUME BlocksInv, DeclareParam
    PROVE  (\E x \in Names : Lexical!Bind(x)) /\ BlocksInv'
<1>1. PICK x \in Names : scope' = declare_existing(scope, x) /\ result' = result /\ entering
    BY HeadTailProperties DEF BlocksInv, ScopeInv, DeclareParam
<1>2. scope.depth = 0 /\ Len(Blocks) = 1 /\ ~Lexical!InBody
  <2>1. scope.depth = 0
      BY <1>1 DEF BlocksInv
  <2>2. (Lexical!InBody <=> Walking) /\ Len(Blocks) = scope.depth + 1
      BY Facts, MappedDepth
  <2>3. Len(Blocks) = 1
      BY <2>1, <2>2
  <2>4. ~Walking
      BY <2>1 DEF Walking
  <2> QED
      BY <2>1, <2>2, <2>3, <2>4
<1>3. PICK B : B = Blocks /\ B = BlocksOf(scope) /\ DOMAIN B = 1..1 /\ B = [b \in 1..1 |-> B[b]]
    BY <1>2, Facts, InnermostBlock, MappedBlocks
<1>4. find_current(scope, x) = 0 <=> x \notin DOMAIN B[1]
    BY <1>2, <1>3, Facts, CurrentFinds
<1>5. Blocks' = IF x \in DOMAIN B[1] THEN B ELSE <<WithIn(B[1], x, Fresh(FALSE, 0))>>
  <2>1. CASE x \in DOMAIN B[1]
      BY <1>1, <1>3, <1>4, <2>1, MappedBlocks DEF declare_existing
  <2>2. CASE x \notin DOMAIN B[1]
    <3>1. scope' = Place(scope, NewEntry(scope, x, FALSE, NoPosition))
        BY <1>1, <1>4, <2>2 DEF declare_existing
    <3>2. BlocksOf(Place(scope, NewEntry(scope, x, FALSE, NoPosition)))
              = Bound(BlocksOf(scope), scope.depth + 1, x, Fresh(FALSE, NoPosition))
        BY <1>4, <2>2, Facts, FreshBlocks
    <3>3. Blocks' = Bound(B, 1, x, Fresh(FALSE, 0))
      <4>1. BlocksOf(scope') = Bound(B, scope.depth + 1, x, Fresh(FALSE, NoPosition))
          BY <1>3, <3>1, <3>2
      <4>2. scope.depth + 1 = 1 /\ NoPosition = 0
          BY <1>2 DEF NoPosition
      <4> QED
          BY <4>1, <4>2, MappedBlocks
    <3>4. PICK v : v = WithIn(B[1], x, Fresh(FALSE, 0))
        OBVIOUS
    <3>5. [B EXCEPT ![1] = v] = <<v>>
        BY <1>3
    <3> QED
        BY <2>2, <3>3, <3>4, <3>5 DEF Bound
  <2> QED
      BY <2>1, <2>2
<1>6. Lexical!Here = B[1]
    BY <1>2, <1>3 DEF Lexical!Here
<1>7. Rejected' = Rejected /\ Warned' = Warned
    BY <1>1 DEF Rejected, Warned
<1>8. Lexical!Bind(x)
    BY <1>2, <1>3, <1>5, <1>6, <1>7 DEF Lexical!Bind, Lexical!With, Lexical!Variable, WithIn, Fresh
<1>9. scope'.depth = scope.depth
    BY <1>1, Facts DEF declare_existing, Place, Good, Scope
<1>10. ScopeInv'
    BY DeclareParamKeeps DEF BlocksInv
<1> QED
    BY <1>1, <1>2, <1>8, <1>9, <1>10 DEF BlocksInv

LEMMA BodyWalkStep ==
    ASSUME BlocksInv, EnterBody
    PROVE  Lexical!Open /\ BlocksInv'
<1>1. scope' = scope_push(scope) /\ result' = result /\ ~entering'
    BY DEF EnterBody
<1>2. ScopeInv'
    BY EnterBodyKeeps DEF BlocksInv
<1> QED
    BY <1>1, <1>2, OpenStep DEF BlocksInv

lexicalVars == <<Blocks, Rejected, Warned>>

LEMMA StatementStep ==
    ASSUME BlocksInv, Statement
    PROVE  (Lexical!Next \/ UNCHANGED lexicalVars) /\ Counted(result')
<1>1. CASE OpenBlock
    BY <1>1, OpenStep DEF OpenBlock, Lexical!Next
<1>2. CASE LeaveScope
    BY <1>2, CloseStep DEF Lexical!Next
<1>3. ASSUME NEW x \in Names, NEW at \in Positions,
             \/ Ident(x, at) \/ Addr(x, at) \/ Call(x, at) \/ Capture(x, at)
             \/ (\E mutable \in BOOLEAN : Let(x, mutable, at))
             \/ Assign(x, at) \/ ForRange(x, at) \/ MatchArm(x, at)
      PROVE  (Lexical!Next \/ UNCHANGED lexicalVars) /\ Counted(result')
  <2>1. CASE Ident(x, at)
    <3>1. CASE x \in Functions
      <4>1. scope' = scope /\ result' = result
          BY <2>1, <3>1 DEF Ident
      <4>2. UNCHANGED lexicalVars
          BY <4>1, MappedBlocks, MappedResult DEF lexicalVars, Rejected
      <4> QED
          BY <4>1, <4>2, Facts
    <3>2. CASE x \notin Functions
        BY <2>1, <3>2, ReadStep DEF Ident, Lexical!Next
    <3> QED
        BY <3>1, <3>2
  <2>2. CASE Addr(x, at)
      BY <2>2, ReadStep DEF Addr, Lexical!Next
  <2>3. CASE Call(x, at)
      BY <2>3, CallStep DEF Lexical!Next
  <2>4. CASE Capture(x, at)
      BY <2>4, CaptureStep DEF Lexical!Next
  <2>5. ASSUME NEW mutable \in BOOLEAN, Let(x, mutable, at)
        PROVE  Lexical!Next /\ Counted(result')
      BY <2>5, LetWalkStep DEF Lexical!Next
  <2>6. CASE Assign(x, at)
      BY <2>6, WriteStep DEF Lexical!Next
  <2>7. CASE ForRange(x, at)
      BY <2>7, ForStep DEF Lexical!Next
  <2>8. CASE MatchArm(x, at)
      BY <2>8, ArmStep DEF Lexical!Next
  <2> QED
      BY <1>3, <2>1, <2>2, <2>3, <2>4, <2>5, <2>6, <2>7, <2>8
<1> QED
    BY <1>1, <1>2, <1>3 DEF Statement

LEMMA BlocksStep ==
    ASSUME BlocksInv, [Next]_scopeVars
    PROVE  [Lexical!Next]_lexicalVars /\ BlocksInv'
<1>1. ASSUME NEW p \in Params, EnterFunction(p) PROVE Lexical!Next /\ BlocksInv'
    BY <1>1, EnterStep DEF Lexical!Next
<1>2. CASE DeclareParam
    BY <1>2, ParamWalkStep DEF Lexical!Next
<1>3. CASE EnterBody
    BY <1>3, BodyWalkStep DEF Lexical!Next
<1>4. CASE Statement /\ UNCHANGED <<entering, pending>>
  <2>1. Walking
      BY <1>4 DEF Statement, OpenBlock, CanOpen, LeaveScope, Ident, Addr, Call, Capture, Let, Assign, ForRange, MatchArm
  <2>2. ~entering'
      BY <1>4, <2>1, Facts DEF BlocksInv, Walking, Good, Scope
  <2>3. ScopeInv'
      BY <1>4, NextKeeps DEF Next, BlocksInv
  <2> QED
      BY <1>4, <2>2, <2>3, StatementStep DEF BlocksInv
<1>5. CASE UNCHANGED scopeVars
  <2>1. UNCHANGED lexicalVars
      BY <1>5, MappedBlocks, MappedResult DEF lexicalVars, scopeVars, Rejected
  <2>2. ScopeInv'
      BY <1>5, NextKeeps DEF BlocksInv
  <2> QED
      BY <1>5, <2>1, <2>2 DEF BlocksInv, scopeVars
<1> QED
    BY <1>1, <1>2, <1>3, <1>4, <1>5 DEF Next

LEMMA BlocksStart == Init => BlocksInv /\ Lexical!Init
<1> SUFFICES ASSUME Init PROVE BlocksInv /\ Lexical!Init
    OBVIOUS
<1>1. scope = scope_new /\ result = result_new /\ ~entering
    BY DEF Init
<1>2. result.diagnostics = {} /\ result.error_count = 0
    BY <1>1 DEF result_new
<1>3. Blocks = <<Lexical!Empty>>
    BY <1>1, NewBlocks, MappedBlocks, MappedWords
<1>4. Rejected = FALSE /\ Warned = {}
    BY <1>2 DEF Rejected, Warned
<1> QED
    BY <1>1, <1>2, <1>3, <1>4, Initially DEF BlocksInv, Counted, Lexical!Init

(* The arrays implement blocks that nest: for every program and limit of   *)
(* the bag, a name means the variable of the innermost block that has it,  *)
(* the program is rejected if it breaks a rule, and what is reported as    *)
(* unused left its block unused (src/src/semantic.vix, semantic_scope_push *)
(* to semantic_scope_warn_unused_current).                                 *)
THEOREM ArraysAreBlocks == Spec => ImplementsBlocks
<1>1. Init => BlocksInv /\ Lexical!Init
    BY BlocksStart
<1>2. BlocksInv /\ [Next]_scopeVars => [Lexical!Next]_lexicalVars /\ BlocksInv'
    BY BlocksStep
<1> QED
    BY <1>1, <1>2, PTL DEF Spec, ImplementsBlocks, Lexical!Spec, lexicalVars
=============================================================================
