---------------------------- MODULE DedupProofs ----------------------------
(***************************************************************************)
(* Proofs about Dedup, for any set of findings and any window, retention,  *)
(* capacity and skew.                                                      *)
(*                                                                         *)
(* What an admit decides depends on the table only, what the properties    *)
(* say of it on the emissions and folds since.  The two are tied by        *)
(* EntriesFaithful, for the keys in the table, and by GoneForAReason, for  *)
(* the keys that are not: a key leaves the table when its window is over,  *)
(* with its folds only when its retention is, or else with the table.      *)
(***************************************************************************)
EXTENDS Dedup, FiniteSetTheorems, WellFoundedInduction, TLAPS

\* An entry records the last emission of its key and the folds since.
EntriesFaithful ==
    \A k \in seen : /\ lastEmit[k] # 0
                    /\ firstTS[k] = lastEmit[k]
                    /\ suppressed[k] = folded[k]

\* Why a key that was emitted has no entry.
GoneForAReason ==
    \A k \in Keys \ seen :
        lastEmit[k] = 0 \/ k \in dropped
            \/ /\ now - lastEmit[k] >= Window
               /\ folded[k] = 0 \/ now - lastEmit[k] >= Retain * Window

IInv ==
    /\ Bounded
    /\ EntriesFaithful
    /\ GoneForAReason
    /\ ExactlyOncePerWindow
    /\ CarriesFolds

-----------------------------------------------------------------------------
\* The keys are finitely many.
LEMMA KeysFinite == IsFiniteSet(Keys)
  <1> DEFINE key == [a \in Alerts |-> dedupKey(a)]
  <1>1. key \in Surjection(Alerts, Keys)
    BY DEF Surjection, Keys
  <1> HIDE DEF key
  <1> QED BY <1>1, FS_Surjection, DedupAssumption

\* Retention is at least one window.
LEMMA RetentionCoversWindow == Retain * Window \in Nat /\ Retain * Window >= Window
  <1>1. \A r, w \in Nat \ {0} : r * w \in Nat /\ r * w >= w
    OBVIOUS
  <1> QED BY <1>1, DedupAssumption

\* What survives maybeSweep was in the table and leaves room for one more.
LEMMA SurvivorsFit ==
    ASSUME seen \subseteq Keys, NEW t
    PROVE  /\ Survivors(t) \subseteq seen
           /\ IsFiniteSet(Survivors(t))
           /\ Cardinality(Survivors(t)) \in Nat
           /\ Cardinality(Survivors(t)) < MaxKeys
<1>1. /\ Survivors(t) \subseteq seen
      /\ IsFiniteSet(seen) /\ IsFiniteSet(Survivors(t))
  BY KeysFinite, FS_Subset DEF Survivors, Unexpired
<1>2. Cardinality(Survivors(t)) \in Nat
  BY <1>1, FS_CardinalityType
<1>3. Survivors(t) = {} \/ ~Full(Survivors(t))
  BY DEF Survivors, SweepDue, Full
<1>4. Cardinality({}) = 0
  BY FS_EmptySet
<1> QED BY <1>1, <1>2, <1>3, <1>4, DedupAssumption DEF Full

\* A key that maybeSweep removes was expired, or went with the table.
LEMMA SweptForAReason ==
    ASSUME NEW t, NEW k \in seen, k \notin Survivors(t)
    PROVE  Expired(k, t) \/ (Cleared(t) /\ k \in Unexpired(t))
  BY DEF Survivors, Cleared, Unexpired

-----------------------------------------------------------------------------
\* What an admit finds in the table for its key: the last emission, or a
\* reason for finding nothing.
LEMMA LookupFaithful ==
    ASSUME IInv, NEW t \in Times, t + Skew >= now,
           NEW gone, gone = IF Cleared(t) THEN dropped \cup Unexpired(t) ELSE dropped,
           NEW n \in Int, n >= now, n >= t,
           NEW k \in Keys, k \notin Survivors(t)
    PROVE  \/ lastEmit[k] = 0
           \/ k \in gone
           \/ /\ n - lastEmit[k] >= Window
              /\ t - lastEmit[k] >= Window - Skew
              /\ \/ folded[k] = 0
                 \/ /\ n - lastEmit[k] >= Retain * Window
                    /\ t - lastEmit[k] >= Retain * Window - Skew
<1> DEFINE RW == Retain * Window
<1>1. /\ t \in Nat /\ now \in Nat /\ lastEmit[k] \in Nat /\ firstTS[k] \in Nat
      /\ Window \in Nat /\ Skew \in Nat
  BY DedupAssumption DEF IInv, Bounded, TypeOK, Times
<1>2. RW \in Nat /\ RW >= Window
  BY RetentionCoversWindow
<1>3. CASE k \in seen
  <2>1. lastEmit[k] = firstTS[k] /\ folded[k] = suppressed[k]
    BY <1>3 DEF IInv, EntriesFaithful
  <2>2. CASE Expired(k, t)
    <3>1. /\ t > firstTS[k]
          /\ \/ suppressed[k] = 0 /\ t - firstTS[k] >= Window
             \/ t - firstTS[k] >= RW
      BY <2>2 DEF Expired
    <3> HIDE DEF RW
    <3>2. /\ n - lastEmit[k] >= Window
          /\ t - lastEmit[k] >= Window - Skew
          /\ \/ folded[k] = 0
             \/ n - lastEmit[k] >= RW /\ t - lastEmit[k] >= RW - Skew
      BY <1>1, <1>2, <2>1, <3>1
    <3> QED BY <3>2 DEF RW
  <2>3. CASE Cleared(t) /\ k \in Unexpired(t)
    BY <2>3
  <2> QED BY <1>3, <2>2, <2>3, SweptForAReason
<1>4. CASE k \notin seen
  <2>1. \/ lastEmit[k] = 0 \/ k \in dropped
        \/ /\ now - lastEmit[k] >= Window
           /\ folded[k] = 0 \/ now - lastEmit[k] >= RW
    BY <1>4 DEF IInv, GoneForAReason
  <2>2. dropped \subseteq gone
    OBVIOUS
  <2> HIDE DEF RW
  <2>3. \/ lastEmit[k] = 0 \/ k \in gone
        \/ /\ n - lastEmit[k] >= Window
           /\ t - lastEmit[k] >= Window - Skew
           /\ \/ folded[k] = 0
              \/ n - lastEmit[k] >= RW /\ t - lastEmit[k] >= RW - Skew
    BY <1>1, <1>2, <2>1, <2>2
  <2> QED BY <2>3 DEF RW
<1> QED BY <1>3, <1>4

\* newDeduper: an empty table has all the properties of the invariant.
THEOREM InitIInv == Init => IInv
<1> SUFFICES ASSUME Init PROVE IInv
  OBVIOUS
<1>1. TypeOK
  BY DedupAssumption DEF Init, TypeOK
<1>2. Cardinality(seen) = 0
  BY FS_EmptySet DEF Init
<1>3. Bounded /\ EntriesFaithful /\ GoneForAReason
  BY <1>1, <1>2, DedupAssumption DEF Init, Bounded, EntriesFaithful, GoneForAReason
<1>4. outcome.made = FALSE
  BY DEF Init, NoOutcome
<1> QED
  BY <1>3, <1>4 DEF IInv, ExactlyOncePerWindow, OncePerWindow, FoldsOnlyInWindow, CarriesFolds

\* What every admit does, whatever it decides.
LEMMA AdmitKeepsTable ==
    ASSUME IInv, NEW k \in Keys, NEW t \in Times, t + Skew >= now,
           now' = IF t > now THEN t ELSE now,
           lastSweep' = SweepStamp(t),
           NEW gone, gone = IF Cleared(t) THEN dropped \cup Unexpired(t) ELSE dropped,
           Fold(k, t, Survivors(t), gone) \/ Emit(k, t, Survivors(t), gone)
    PROVE  IInv'
<1> DEFINE kept == Survivors(t)
<1> SUFFICES ASSUME NEW K, K = kept PROVE IInv'
  OBVIOUS
<1>1. /\ TypeOK /\ EntriesFaithful /\ GoneForAReason
      /\ Fold(k, t, K, gone) \/ Emit(k, t, K, gone)
  BY DEF IInv, Bounded
<1>2. /\ K \subseteq seen /\ K \subseteq Keys /\ seen \subseteq Keys
      /\ IsFiniteSet(K) /\ Cardinality(K) \in Nat /\ Cardinality(K) < MaxKeys
  BY <1>1, SurvivorsFit DEF TypeOK
<1>3. gone \subseteq Keys /\ dropped \subseteq gone
  BY <1>1, <1>2 DEF TypeOK, Unexpired
<1>4. /\ t \in Nat /\ t # 0 /\ t \in 0..MaxTime /\ 0 \in 0..MaxTime
      /\ now \in Nat /\ now' \in 0..MaxTime /\ now' \in Int /\ now' >= now /\ now' >= t
      /\ Window \in Nat /\ Skew \in Nat /\ MaxKeys \in Nat /\ MaxTime \in Nat
  BY <1>1, DedupAssumption DEF TypeOK, Times
<1>5. \A q \in Keys \ K :
        \/ lastEmit[q] = 0
        \/ q \in gone
        \/ /\ now' - lastEmit[q] >= Window
           /\ t - lastEmit[q] >= Window - Skew
           /\ \/ folded[q] = 0
              \/ /\ now' - lastEmit[q] >= Retain * Window
                 /\ t - lastEmit[q] >= Retain * Window - Skew
  BY <1>4, LookupFaithful
<1>6. \A q \in K : /\ lastEmit[q] # 0 /\ firstTS[q] = lastEmit[q] /\ suppressed[q] = folded[q]
  BY <1>1, <1>2 DEF EntriesFaithful
<1>7. CASE Fold(k, t, K, gone)
  <2>1. /\ k \in K /\ InWindow(k, t)
        /\ seen' = K /\ total' = total + 1
        /\ firstTS' = AfterSweep(firstTS, K)
        /\ suppressed' = [AfterSweep(suppressed, K) EXCEPT ![k] = @ + 1]
        /\ folded' = [folded EXCEPT ![k] = @ + 1]
        /\ outcome' = Outcome(k, t, FALSE, 0, gone)
        /\ dropped' = gone /\ lastEmit' = lastEmit /\ reported' = reported
    BY <1>7 DEF Fold
  <2>2. TypeOK'
    BY <1>1, <1>2, <1>3, <1>4, <2>1 DEF TypeOK, AfterSweep, SweepStamp
  <2>3. Bounded'
    BY <1>2, <1>4, <2>1, <2>2 DEF Bounded
  <2>4. EntriesFaithful'
    BY <1>1, <1>2, <1>6, <2>1 DEF EntriesFaithful, TypeOK, AfterSweep
  <2>5. GoneForAReason'
    <3> SUFFICES ASSUME NEW q \in Keys \ K
                 PROVE  lastEmit[q] = 0 \/ q \in gone
                          \/ /\ now' - lastEmit[q] >= Window
                             /\ folded'[q] = 0 \/ now' - lastEmit[q] >= Retain * Window
      BY <2>1 DEF GoneForAReason
    <3>1. folded'[q] = folded[q]
      BY <1>1, <2>1 DEF TypeOK
    <3> QED BY <1>5, <3>1
  <2>6. /\ outcome'.admitted = FALSE /\ outcome'.at = t /\ outcome'.since = lastEmit[k]
    BY <2>1 DEF Outcome
  <2>7. lastEmit[k] # 0 /\ t - lastEmit[k] < Window
    BY <1>6, <2>1 DEF InWindow
  <2>8. (ExactlyOncePerWindow /\ CarriesFolds)'
    BY <2>6, <2>7 DEF ExactlyOncePerWindow, OncePerWindow, FoldsOnlyInWindow, CarriesFolds
  <2> QED BY <2>3, <2>4, <2>5, <2>8 DEF IInv
<1>8. CASE Emit(k, t, K, gone)
  <2> DEFINE carried == IF k \in K THEN suppressed[k] ELSE 0
  <2>1. /\ ~(k \in K /\ InWindow(k, t))
        /\ seen' = K \cup {k} /\ total' = total
        /\ firstTS' = [AfterSweep(firstTS, K) EXCEPT ![k] = t]
        /\ suppressed' = [AfterSweep(suppressed, K) EXCEPT ![k] = 0]
        /\ folded' = [folded EXCEPT ![k] = 0]
        /\ outcome' = Outcome(k, t, TRUE, carried, gone)
        /\ dropped' = gone \ {k} /\ lastEmit' = [lastEmit EXCEPT ![k] = t]
        /\ reported' = reported + carried
    BY <1>8 DEF Emit, CountRestarted
  <2>2. TypeOK'
    <3>1. carried \in Nat
      BY <1>1 DEF TypeOK
    <3> HIDE DEF carried
    <3> QED BY <1>1, <1>2, <1>3, <1>4, <2>1, <3>1 DEF TypeOK, AfterSweep, SweepStamp
  <2>3. Bounded'
    <3>1. Cardinality(K \cup {k}) = IF k \in K THEN Cardinality(K) ELSE Cardinality(K) + 1
      BY <1>2, FS_AddElement, Zenon
    <3>2. Cardinality(K \cup {k}) <= MaxKeys
      BY <1>2, <1>4, <3>1
    <3> QED BY <2>1, <2>2, <3>2 DEF Bounded
  <2>4. EntriesFaithful'
    BY <1>1, <1>2, <1>4, <1>6, <2>1 DEF EntriesFaithful, TypeOK, AfterSweep
  <2>5. GoneForAReason'
    <3> SUFFICES ASSUME NEW q \in Keys \ (K \cup {k})
                 PROVE  lastEmit'[q] = 0 \/ q \in gone \ {k}
                          \/ /\ now' - lastEmit'[q] >= Window
                             /\ folded'[q] = 0 \/ now' - lastEmit'[q] >= Retain * Window
      BY <2>1 DEF GoneForAReason
    <3>1. folded'[q] = folded[q] /\ lastEmit'[q] = lastEmit[q] /\ q # k
      BY <1>1, <2>1 DEF TypeOK
    <3> QED BY <1>5, <3>1
  <2>6. /\ outcome'.admitted = TRUE /\ outcome'.at = t /\ outcome'.since = lastEmit[k]
        /\ outcome'.carried = carried /\ outcome'.owed = folded[k]
        /\ outcome'.dropped = (k \in gone)
    BY <2>1 DEF Outcome
  <2>7. CASE k \in K
    <3>1. carried = folded[k] /\ ~(t >= lastEmit[k] /\ t - lastEmit[k] < Window)
      BY <1>6, <2>1, <2>7 DEF InWindow
    <3>2. lastEmit[k] \in Nat
      BY <1>1 DEF TypeOK
    <3>3. t < lastEmit[k] \/ t - lastEmit[k] >= Window - Skew
      BY <1>4, <3>1, <3>2
    <3>4. (ExactlyOncePerWindow /\ CarriesFolds)'
      BY <2>6, <3>1, <3>3
      DEF ExactlyOncePerWindow, OncePerWindow, FoldsOnlyInWindow, CarriesFolds
    <3> QED BY <2>3, <2>4, <2>5, <3>4 DEF IInv
  <2>8. CASE k \notin K
    <3>1. \/ lastEmit[k] = 0 \/ k \in gone
          \/ /\ t - lastEmit[k] >= Window - Skew
             /\ folded[k] = 0 \/ t - lastEmit[k] >= Retain * Window - Skew
      BY <1>5, <2>8
    <3>2. carried = 0
      BY <2>8
    <3>3. (ExactlyOncePerWindow)'
      BY <2>6, <3>1 DEF ExactlyOncePerWindow, OncePerWindow, FoldsOnlyInWindow
    <3>4. CarriesFolds'
      <4>1. lastEmit[k] \in Nat /\ Retain * Window \in Nat
        BY <1>1, RetentionCoversWindow DEF TypeOK
      <4>2. lastEmit[k] = 0 \/ k \in gone \/ folded[k] = 0
              \/ ~(t - lastEmit[k] < Retain * Window - Skew)
        <5> DEFINE RW == Retain * Window
        <5>1. RW \in Nat
          BY <4>1
        <5>2. \/ lastEmit[k] = 0 \/ k \in gone \/ folded[k] = 0
              \/ t - lastEmit[k] >= RW - Skew
          BY <3>1
        <5> HIDE DEF RW
        <5>3. \/ lastEmit[k] = 0 \/ k \in gone \/ folded[k] = 0
              \/ ~(t - lastEmit[k] < RW - Skew)
          BY <1>4, <4>1, <5>1, <5>2
        <5> QED BY <5>3 DEF RW
      <4> QED BY <2>6, <3>2, <4>2 DEF CarriesFolds
    <3> QED BY <2>3, <2>4, <2>5, <3>3, <3>4 DEF IInv
  <2> QED BY <2>7, <2>8
<1> QED BY <1>1, <1>7, <1>8

LEMMA NextIInv == IInv /\ [Next]_vars => IInv'
<1> SUFFICES ASSUME IInv, [Next]_vars PROVE IInv'
  OBVIOUS
<1>1. ASSUME NEW a \in Alerts, NEW t \in Times, admit(a, t) PROVE IInv'
  <2> DEFINE gone == IF Cleared(t) THEN dropped \cup Unexpired(t) ELSE dropped
  <2>1. dedupKey(a) \in Keys
    BY DEF Keys
  <2>2. /\ t + Skew >= now
        /\ now' = IF t > now THEN t ELSE now
        /\ lastSweep' = SweepStamp(t)
        /\ \/ Fold(dedupKey(a), t, Survivors(t), gone)
           \/ Emit(dedupKey(a), t, Survivors(t), gone)
    BY <1>1 DEF admit
  <2> HIDE DEF gone
  <2>3. gone = IF Cleared(t) THEN dropped \cup Unexpired(t) ELSE dropped
    BY DEF gone
  <2> QED BY <2>1, <2>2, <2>3, AdmitKeepsTable
<1>2. CASE UNCHANGED vars
  BY <1>2 DEF vars, dedupVars, IInv, Bounded, TypeOK, EntriesFaithful, GoneForAReason,
     ExactlyOncePerWindow, OncePerWindow, FoldsOnlyInWindow, CarriesFolds
<1> QED BY <1>1, <1>2 DEF Next

\* The inductive invariant of Dedup holds after any sequence of Admit calls.
THEOREM IInvHolds == Spec => []IInv
  BY InitIInv, NextIInv, PTL DEF Spec

\* maybeSweep and the insertion that follows it: the table never holds more
\* than maxDedupKeys keys, however many findings are told apart.
THEOREM TableBounded == Spec => []Bounded
<1>1. IInv => Bounded
  BY DEF IInv
<1> QED BY <1>1, IInvHolds, PTL

\* admit: a key is emitted at most once per window and folded only into an
\* emission of that window, through every sweep and with stamps out of order.
THEOREM OneEmissionPerWindow == Spec => []ExactlyOncePerWindow
<1>1. IInv => ExactlyOncePerWindow
  BY DEF IInv
<1> QED BY <1>1, IInvHolds, PTL

-----------------------------------------------------------------------------
(* Sums over finite sets.  SumOver is defined by recursion over the        *)
(* subsets of a set; what it computes is proved by induction over them.    *)

\* Induction over the natural numbers, for a set of them.
LEMMA NatInductionSet ==
    ASSUME NEW G, 0 \in G, \A n \in Nat : n \in G => n + 1 \in G
    PROVE  Nat \subseteq G
<1> SUFFICES ASSUME Nat \ G # {} PROVE FALSE
  OBVIOUS
<1>1. PICK m \in Nat \ G : \A y \in Nat \ G : ~(<<y, m>> \in OpToRel(<, Nat))
  BY NatLessThanWellFounded, WFMin
<1>2. \A y \in Nat \ G : ~(y < m)
  BY <1>1 DEF OpToRel
<1>3. m # 0 /\ m - 1 \in Nat /\ m - 1 < m /\ (m - 1) + 1 = m
  OBVIOUS
<1> QED BY <1>2, <1>3

\* Induction over the subsets of a finite set: a set of subsets that has
\* each subset T if it has all T without an element, has them all.
LEMMA SubsetInduction ==
    ASSUME NEW S, IsFiniteSet(S), NEW G,
           \A T \in SUBSET S : (\A x \in T : T \ {x} \in G) => T \in G
    PROVE  \A T \in SUBSET S : T \in G
<1> DEFINE B == (SUBSET S) \ G
<1> SUFFICES ASSUME B # {} PROVE FALSE
  OBVIOUS
<1>1. B \subseteq FiniteSubsetsOf(S)
  BY FS_Subset DEF FiniteSubsetsOf
<1>2. PICK T \in B : \A U \in B : ~(<<U, T>> \in StrictSubsetOrdering(S))
  <2> HIDE DEF B
  <2> QED BY <1>1, FS_StrictSubsetOrderingWellFounded, WFMin
<1>3. \A x \in T : <<T \ {x}, T>> \in StrictSubsetOrdering(S)
  BY DEF StrictSubsetOrdering
<1>4. \A x \in T : T \ {x} \in G
  BY <1>2, <1>3
<1> QED BY <1>2, <1>4

SumBody(f, s, U) ==
    IF U = {} THEN 0
    ELSE LET k == CHOOSE x \in U : TRUE IN f[k] + s[U \ {k}]

IsSum(f, S, s) == s = [U \in SUBSET S |-> SumBody(f, s, U)]

\* The recursion has a solution.
LEMMA SumExists ==
    ASSUME NEW f, NEW S, IsFiniteSet(S)
    PROVE  \E s : IsSum(f, S, s)
<1> DEFINE Upto(n, s) == \A U \in SUBSET S : Cardinality(U) <= n => s[U] = SumBody(f, s, U)
           G == {n \in Nat : \E s : Upto(n, s)}
<1>1. \A U \in SUBSET S : IsFiniteSet(U) /\ Cardinality(U) \in Nat /\ Cardinality(U) <= Cardinality(S)
  BY FS_Subset, FS_CardinalityType
<1>2. \A U \in SUBSET S : U # {} =>
        LET k == CHOOSE x \in U : TRUE
        IN  k \in U /\ Cardinality(U) = Cardinality(U \ {k}) + 1 /\ U \ {k} \in SUBSET S
  <2> TAKE U \in SUBSET S
  <2> HAVE U # {}
  <2> DEFINE k == CHOOSE x \in U : TRUE
  <2>1. k \in U
    OBVIOUS
  <2> HIDE DEF k
  <2>2. Cardinality(U \ {k}) = Cardinality(U) - 1
    BY <1>1, <2>1, FS_RemoveElement
  <2>3. k \in U /\ Cardinality(U) = Cardinality(U \ {k}) + 1 /\ U \ {k} \in SUBSET S
    BY <1>1, <2>1, <2>2
  <2> QED BY <2>3 DEF k
<1>3. 0 \in G
  <2> DEFINE s == [U \in SUBSET S |-> 0]
  <2>1. \A U \in SUBSET S : Cardinality(U) <= 0 => U = {}
    BY <1>1, FS_EmptySet
  <2>2. Upto(0, s)
    BY <2>1 DEF SumBody
  <2> QED BY <2>2
<1>4. ASSUME NEW n \in Nat, n \in G PROVE n + 1 \in G
  <2>1. PICK s : Upto(n, s)
    BY <1>4
  <2> DEFINE h == [U \in SUBSET S |-> SumBody(f, s, U)]
  <2>2. \A U \in SUBSET S : Cardinality(U) <= n => h[U] = s[U]
    BY <2>1
  <2>3. \A U \in SUBSET S : Cardinality(U) <= n + 1 => SumBody(f, h, U) = SumBody(f, s, U)
    <3> TAKE U \in SUBSET S
    <3> HAVE Cardinality(U) <= n + 1
    <3>1. CASE U = {}
      BY <3>1 DEF SumBody
    <3>2. CASE U # {}
      <4> DEFINE k == CHOOSE x \in U : TRUE
      <4>1. Cardinality(U) = Cardinality(U \ {k}) + 1 /\ U \ {k} \in SUBSET S
        BY <1>2, <3>2
      <4>2. Cardinality(U \ {k}) <= n
        BY <1>1, <4>1
      <4>3. h[U \ {k}] = s[U \ {k}]
        BY <2>2, <4>1, <4>2
      <4> HIDE DEF h
      <4> QED BY <3>2, <4>3 DEF SumBody
    <3> QED BY <3>1, <3>2
  <2>4. Upto(n + 1, h)
    BY <2>3
  <2> HIDE DEF h, Upto
  <2>5. n + 1 \in Nat
    OBVIOUS
  <2> QED BY <2>4, <2>5
<1>5. Cardinality(S) \in Nat /\ Cardinality(S) \in G
  <2> HIDE DEF G
  <2>1. Nat \subseteq G
    BY <1>3, <1>4, NatInductionSet
  <2> QED BY <1>1, <2>1, FS_CardinalityType
<1>6. PICK s : Upto(Cardinality(S), s)
  BY <1>5
<1>7. \A U \in SUBSET S : s[U] = SumBody(f, s, U)
  BY <1>1, <1>6
<1> DEFINE h == [U \in SUBSET S |-> s[U]]
<1>8. \A U \in SUBSET S : SumBody(f, h, U) = SumBody(f, s, U)
  <2> TAKE U \in SUBSET S
  <2>1. CASE U = {}
    BY <2>1 DEF SumBody
  <2>2. CASE U # {}
    <3> DEFINE k == CHOOSE x \in U : TRUE
    <3>1. h[U \ {k}] = s[U \ {k}]
      BY <1>2, <2>2
    <3> HIDE DEF h
    <3> QED BY <2>2, <3>1 DEF SumBody
  <2> QED BY <2>1, <2>2
<1>9. h = [U \in SUBSET S |-> SumBody(f, h, U)]
  BY <1>7, <1>8
<1> QED BY <1>9 DEF IsSum

\* SumOver is the value of a solution at its whole set.
LEMMA SumOverIsSum ==
    ASSUME NEW f, NEW S, IsFiniteSet(S)
    PROVE  \E s : IsSum(f, S, s) /\ SumOver(f, S) = s[S]
<1> DEFINE s == CHOOSE z : IsSum(f, S, z)
<1>1. IsSum(f, S, s)
  BY SumExists, Zenon
<1>2. SumOver(f, S) = s[S]
  BY DEF SumOver, IsSum, SumBody
<1> QED BY <1>1, <1>2

\* Two sums of functions that agree on a set agree on it, whatever the sets
\* they are solutions for.
LEMMA SumsAgree ==
    ASSUME NEW f, NEW S, NEW s, IsSum(f, S, s), IsFiniteSet(S),
           NEW g, NEW R, NEW r, IsSum(g, R, r),
           NEW T, T \subseteq S, T \subseteq R, \A x \in T : f[x] = g[x]
    PROVE  s[T] = r[T]
<1> DEFINE G == {U \in SUBSET T : s[U] = r[U]}
<1>1. \A U \in SUBSET T : s[U] = SumBody(f, s, U) /\ r[U] = SumBody(g, r, U)
  <2>1. \A U \in SUBSET S : s[U] = SumBody(f, s, U)
    BY DEF IsSum
  <2>2. \A U \in SUBSET R : r[U] = SumBody(g, r, U)
    BY DEF IsSum
  <2> QED BY <2>1, <2>2
<1>2. ASSUME NEW U \in SUBSET T, \A x \in U : U \ {x} \in G PROVE U \in G
  <2>1. CASE U = {}
    BY <1>1, <2>1 DEF SumBody
  <2>2. CASE U # {}
    <3> DEFINE k == CHOOSE x \in U : TRUE
    <3>1. k \in U
      BY <2>2
    <3>2. s[U] = f[k] + s[U \ {k}] /\ r[U] = g[k] + r[U \ {k}]
      BY <1>1, <2>2 DEF SumBody
    <3> HIDE DEF k
    <3>3. s[U \ {k}] = r[U \ {k}] /\ f[k] = g[k]
      BY <1>2, <3>1
    <3> QED BY <3>2, <3>3
  <2> QED BY <2>1, <2>2
<1>3. IsFiniteSet(T)
  BY FS_Subset
<1>4. T \in G
  <2> HIDE DEF G
  <2>1. \A U \in SUBSET T : U \in G
    BY <1>2, <1>3, SubsetInduction
  <2> QED BY <2>1
<1> QED BY <1>4

\* The sum of natural numbers is one.
LEMMA SumIsNat ==
    ASSUME NEW f, NEW S, NEW s, IsSum(f, S, s), IsFiniteSet(S),
           \A x \in S : f[x] \in Nat
    PROVE  \A T \in SUBSET S : s[T] \in Nat
<1> DEFINE G == {U \in SUBSET S : s[U] \in Nat}
<1>1. \A U \in SUBSET S : s[U] = SumBody(f, s, U)
  BY DEF IsSum
<1>2. ASSUME NEW U \in SUBSET S, \A x \in U : U \ {x} \in G PROVE U \in G
  <2>1. CASE U = {}
    <3>1. s[U] = 0
      BY <1>1, <2>1 DEF SumBody
    <3> QED BY <3>1
  <2>2. CASE U # {}
    <3> DEFINE k == CHOOSE x \in U : TRUE
    <3>1. k \in U
      BY <2>2
    <3>2. s[U] = f[k] + s[U \ {k}]
      BY <1>1, <2>2 DEF SumBody
    <3> HIDE DEF k
    <3>3. f[k] \in Nat /\ s[U \ {k}] \in Nat
      BY <1>2, <3>1
    <3>4. s[U] \in Nat
      BY <3>2, <3>3
    <3> QED BY <3>4
  <2> QED BY <2>1, <2>2
<1> HIDE DEF G
<1>3. \A T \in SUBSET S : T \in G
  BY <1>2, SubsetInduction
<1> QED BY <1>3 DEF G

\* Any element can be taken out of a sum, not only the one the recursion
\* chooses.
LEMMA SumTakesOut ==
    ASSUME NEW f, NEW S, NEW s, IsSum(f, S, s), IsFiniteSet(S),
           \A x \in S : f[x] \in Nat
    PROVE  \A T \in SUBSET S : \A x \in T : s[T] = f[x] + s[T \ {x}]
<1> DEFINE G == {U \in SUBSET S : \A x \in U : s[U] = f[x] + s[U \ {x}]}
<1>1. \A U \in SUBSET S : s[U] = SumBody(f, s, U) /\ s[U] \in Nat
  BY SumIsNat DEF IsSum
<1>2. ASSUME NEW U \in SUBSET S, \A x \in U : U \ {x} \in G PROVE U \in G
  <2> SUFFICES ASSUME NEW x \in U PROVE s[U] = f[x] + s[U \ {x}]
    OBVIOUS
  <2> DEFINE k == CHOOSE y \in U : TRUE
  <2>1. k \in U /\ s[U] = f[k] + s[U \ {k}]
    BY <1>1 DEF SumBody
  <2> HIDE DEF k
  <2>2. CASE x = k
    BY <2>1, <2>2
  <2>3. CASE x # k
    <3> DEFINE V == (U \ {k}) \ {x}
    <3>1. V = (U \ {x}) \ {k} /\ V \in SUBSET S /\ x \in U \ {k} /\ k \in U \ {x}
      BY <2>1, <2>3
    <3>2. s[U \ {k}] = f[x] + s[V] /\ s[U \ {x}] = f[k] + s[V]
      BY <1>2, <2>1, <3>1
    <3>3. f[x] \in Nat /\ f[k] \in Nat /\ s[V] \in Nat
      BY <1>1, <2>1, <3>1
    <3> HIDE DEF V
    <3>4. s[U] = f[k] + (f[x] + s[V]) /\ f[x] + s[U \ {x}] = f[x] + (f[k] + s[V])
      BY <2>1, <3>2
    <3> QED BY <3>3, <3>4
  <2> QED BY <2>2, <2>3
<1> HIDE DEF G
<1>3. \A T \in SUBSET S : T \in G
  BY <1>2, SubsetInduction
<1> QED BY <1>3 DEF G

\* The facts about SumOver that the accounts need.
LEMMA SumOverFacts ==
    ASSUME NEW f, NEW S, IsFiniteSet(S), \A x \in S : f[x] \in Nat
    PROVE  /\ SumOver(f, S) \in Nat
           /\ S = {} => SumOver(f, S) = 0
           /\ \A x \in S : SumOver(f, S) = f[x] + SumOver(f, S \ {x})
<1>1. PICK s : IsSum(f, S, s) /\ SumOver(f, S) = s[S]
  BY SumOverIsSum
<1>2. s[S] \in Nat /\ \A x \in S : s[S] = f[x] + s[S \ {x}]
  BY <1>1, SumIsNat, SumTakesOut
<1>3. S = {} => s[S] = 0
  BY <1>1 DEF IsSum, SumBody
<1>4. ASSUME NEW x \in S PROVE SumOver(f, S \ {x}) = s[S \ {x}]
  <2>1. IsFiniteSet(S \ {x})
    BY FS_Subset
  <2>2. PICK r : IsSum(f, S \ {x}, r) /\ SumOver(f, S \ {x}) = r[S \ {x}]
    BY <2>1, SumOverIsSum
  <2>3. s[S \ {x}] = r[S \ {x}]
    BY <1>1, <2>2, SumsAgree
  <2> QED BY <2>2, <2>3
<1> QED BY <1>1, <1>2, <1>3, <1>4

LEMMA SumOverAgrees ==
    ASSUME NEW f, NEW g, NEW S, IsFiniteSet(S), \A x \in S : f[x] = g[x]
    PROVE  SumOver(f, S) = SumOver(g, S)
<1>1. PICK s : IsSum(f, S, s) /\ SumOver(f, S) = s[S]
  BY SumOverIsSum
<1>2. PICK r : IsSum(g, S, r) /\ SumOver(g, S) = r[S]
  BY SumOverIsSum
<1> QED BY <1>1, <1>2, SumsAgree

\* A sum is the sum of its two parts.
LEMMA SumOverSplits ==
    ASSUME NEW f, NEW S, IsFiniteSet(S), \A x \in S : f[x] \in Nat
    PROVE  \A T \in SUBSET S : SumOver(f, S) = SumOver(f, T) + SumOver(f, S \ T)
<1> DEFINE G == {T \in SUBSET S : SumOver(f, S) = SumOver(f, T) + SumOver(f, S \ T)}
<1>1. \A T \in SUBSET S : IsFiniteSet(T) /\ \A x \in T : f[x] \in Nat
  BY FS_Subset
<1>2. ASSUME NEW T \in SUBSET S, \A x \in T : T \ {x} \in G PROVE T \in G
  <2>1. CASE T = {}
    <3>1. SumOver(f, T) = 0
      BY <1>1, <2>1, SumOverFacts
    <3>2. S \ T = S /\ SumOver(f, S) \in Nat
      BY <2>1, SumOverFacts
    <3> QED BY <3>1, <3>2
  <2>2. CASE T # {}
    <3>1. PICK x \in T : TRUE
      BY <2>2
    <3> DEFINE A == T \ {x}
               C == S \ A
               D == S \ T
    <3>2. SumOver(f, S) = SumOver(f, A) + SumOver(f, C)
      BY <1>2
    <3>3. C \ {x} = D /\ x \in C /\ A \in SUBSET S /\ C \in SUBSET S /\ D \in SUBSET S
      OBVIOUS
    <3> HIDE DEF A, C, D
    <3>4. SumOver(f, C) = f[x] + SumOver(f, D)
      <4>1. IsFiniteSet(C) /\ \A y \in C : f[y] \in Nat
        BY <1>1, <3>3
      <4>2. SumOver(f, C) = f[x] + SumOver(f, C \ {x})
        BY <3>3, <4>1, SumOverFacts, Zenon
      <4> QED BY <3>3, <4>2
    <3>5. SumOver(f, T) = f[x] + SumOver(f, A)
      <4>1. IsFiniteSet(T) /\ \A y \in T : f[y] \in Nat
        BY <1>1
      <4>2. SumOver(f, T) = f[x] + SumOver(f, T \ {x})
        BY <4>1, SumOverFacts, Zenon
      <4> QED BY <4>2 DEF A
    <3>6. SumOver(f, D) \in Nat /\ SumOver(f, A) \in Nat /\ f[x] \in Nat
      <4>1. IsFiniteSet(D) /\ \A y \in D : f[y] \in Nat
        BY <1>1, <3>3
      <4>2. IsFiniteSet(A) /\ \A y \in A : f[y] \in Nat
        BY <1>1, <3>3
      <4>3. SumOver(f, D) \in Nat
        BY <4>1, SumOverFacts
      <4>4. SumOver(f, A) \in Nat
        BY <4>2, SumOverFacts
      <4> QED BY <1>1, <4>3, <4>4
    <3>7. SumOver(f, S) = SumOver(f, T) + SumOver(f, D)
      BY <3>2, <3>4, <3>5, <3>6
    <3> QED BY <3>7 DEF D
  <2> QED BY <2>1, <2>2
<1> HIDE DEF G
<1>3. \A T \in SUBSET S : T \in G
  BY <1>2, SubsetInduction
<1> QED BY <1>3 DEF G

-----------------------------------------------------------------------------
(* The accounts of the folds. *)

Accounts == FoldsAccounted /\ lost \in Nat

\* A sweep that keeps a set of keys divides the folds that wait.
LEMMA SweepDivides ==
    ASSUME TypeOK, NEW K, K \subseteq seen
    PROVE  /\ SumOver(suppressed, seen) = SumOver(suppressed, K) + SumOver(suppressed, seen \ K)
           /\ SumOver(suppressed, K) \in Nat /\ SumOver(suppressed, seen \ K) \in Nat
<1>1. IsFiniteSet(seen) /\ \A x \in seen : suppressed[x] \in Nat
  BY KeysFinite, FS_Subset DEF TypeOK
<1>2. SumOver(suppressed, seen) = SumOver(suppressed, K) + SumOver(suppressed, seen \ K)
  BY <1>1, SumOverSplits
<1>3. \A T : T \subseteq seen => IsFiniteSet(T) /\ \A x \in T : suppressed[x] \in Nat
  BY <1>1, FS_Subset
<1>4. SumOver(suppressed, K) \in Nat
  BY <1>3, SumOverFacts
<1>5. IsFiniteSet(seen \ K) /\ \A x \in seen \ K : suppressed[x] \in Nat
  BY <1>3
<1>6. SumOver(suppressed, seen \ K) \in Nat
  BY <1>5, SumOverFacts
<1> QED BY <1>2, <1>4, <1>6

\* Changing the count of one key changes the sum by as much.
LEMMA SumOverChanges ==
    ASSUME NEW f, NEW g, NEW S, IsFiniteSet(S), NEW k \in S,
           \A x \in S : f[x] \in Nat /\ g[x] \in Nat,
           \A x \in S \ {k} : f[x] = g[x]
    PROVE  SumOver(g, S) + f[k] = SumOver(f, S) + g[k]
<1> DEFINE T == S \ {k}
<1>1. SumOver(f, S) = f[k] + SumOver(f, T) /\ SumOver(g, S) = g[k] + SumOver(g, T)
  BY SumOverFacts, Zenon
<1>2. IsFiniteSet(T) /\ \A x \in T : f[x] = g[x] /\ f[x] \in Nat
  BY FS_Subset
<1> HIDE DEF T
<1>3. SumOver(f, T) = SumOver(g, T)
  BY <1>2, SumOverAgrees
<1>4. SumOver(f, T) \in Nat
  BY <1>2, SumOverFacts
<1>5. f[k] \in Nat /\ g[k] \in Nat
  OBVIOUS
<1> QED BY <1>1, <1>3, <1>4, <1>5

LEMMA AdmitKeepsAccounts ==
    ASSUME TypeOK, TypeOK', Accounts, NEW k \in Keys, NEW t, NEW gone,
           lost' = lost + SumOver(suppressed, seen \ Survivors(t)),
           Fold(k, t, Survivors(t), gone) \/ Emit(k, t, Survivors(t), gone)
    PROVE  Accounts'
<1> SUFFICES ASSUME NEW K, K = Survivors(t) PROVE Accounts'
  OBVIOUS
<1>1. K \subseteq seen /\ K \subseteq Keys /\ seen \subseteq Keys
  BY SurvivorsFit DEF TypeOK
<1>2. /\ lost' = lost + SumOver(suppressed, seen \ K)
      /\ Fold(k, t, K, gone) \/ Emit(k, t, K, gone)
  OBVIOUS
<1>3. /\ SumOver(suppressed, seen) = SumOver(suppressed, K) + SumOver(suppressed, seen \ K)
      /\ SumOver(suppressed, K) \in Nat /\ SumOver(suppressed, seen \ K) \in Nat
  BY <1>1, SweepDivides
<1>4. /\ IsFiniteSet(K) /\ IsFiniteSet(K \ {k})
      /\ IsFiniteSet(K \cup {k}) /\ K \cup {k} \subseteq Keys
  BY <1>1, KeysFinite, FS_Subset
<1>5. /\ total \in Nat /\ reported \in Nat /\ lost \in Nat
      /\ total = reported + lost + SumOver(suppressed, seen)
  BY DEF TypeOK, Accounts, FoldsAccounted
<1>6. /\ \A x \in Keys : suppressed[x] \in Nat /\ suppressed'[x] \in Nat
      /\ suppressed \in [Keys -> Nat]
  BY DEF TypeOK
<1>7. CASE Fold(k, t, K, gone)
  <2>1. /\ k \in K /\ seen' = K /\ total' = total + 1 /\ reported' = reported
        /\ suppressed' = [AfterSweep(suppressed, K) EXCEPT ![k] = @ + 1]
    BY <1>7 DEF Fold
  <2>2. /\ suppressed'[k] = suppressed[k] + 1
        /\ \A x \in K \ {k} : suppressed[x] = suppressed'[x]
    BY <1>1, <1>6, <2>1 DEF AfterSweep
  <2>3. SumOver(suppressed', K) + suppressed[k] = SumOver(suppressed, K) + suppressed'[k]
    <3>1. /\ IsFiniteSet(K) /\ k \in K
          /\ \A x \in K : suppressed[x] \in Nat /\ suppressed'[x] \in Nat
      BY <1>1, <1>4, <1>6, <2>1
    <3>2. \A x \in K \ {k} : suppressed[x] = suppressed'[x]
      BY <2>2
    <3> QED BY <3>1, <3>2, SumOverChanges
  <2>4. SumOver(suppressed', K) \in Nat
    BY <1>1, <1>4, <1>6, SumOverFacts
  <2>5. suppressed[k] \in Nat /\ lost' \in Nat
    BY <1>2, <1>3, <1>5, <1>6
  <2>6. total' = reported' + lost' + SumOver(suppressed', seen')
    BY <1>2, <1>3, <1>5, <2>1, <2>2, <2>3, <2>4, <2>5
  <2> QED BY <2>5, <2>6 DEF Accounts, FoldsAccounted
<1>8. CASE Emit(k, t, K, gone)
  <2> DEFINE carried == IF k \in K THEN suppressed[k] ELSE 0
             swept == [q \in Keys |-> IF q \in K THEN suppressed[q] ELSE 0]
             L == K \cup {k}
  <2>1. /\ seen' = L /\ total' = total /\ reported' = reported + carried
        /\ suppressed' = [swept EXCEPT ![k] = 0]
    BY <1>8 DEF Emit, CountRestarted, AfterSweep
  <2>2. /\ suppressed'[k] = 0 /\ swept[k] = carried
        /\ \A x \in L \ {k} : swept[x] = suppressed'[x]
        /\ \A x \in L : swept[x] \in Nat /\ suppressed'[x] \in Nat
        /\ \A x \in K : suppressed[x] = swept[x]
    BY <1>1, <1>6, <2>1
  <2>3. k \in L /\ IsFiniteSet(L)
    BY <1>4
  <2>4. SumOver(swept, L) = SumOver(suppressed, K)
    <3>1. SumOver(suppressed, K) = SumOver(swept, K)
      <4> HIDE DEF swept, L
      <4> QED BY <1>4, <2>2, SumOverAgrees
    <3>2. CASE k \in K
      <4>1. L = K
        BY <3>2
      <4> QED BY <3>1, <4>1
    <3>3. CASE k \notin K
      <4>1. L \ {k} = K /\ swept[k] = 0
        BY <2>2, <3>3
      <4> HIDE DEF swept, L
      <4>2. \A x \in L : swept[x] \in Nat
        BY <2>2
      <4>3. SumOver(swept, L) = swept[k] + SumOver(swept, L \ {k})
        BY <2>3, <4>2, SumOverFacts, Zenon
      <4>4. SumOver(swept, L) = 0 + SumOver(swept, K)
        BY <4>1, <4>3, Zenon
      <4>5. SumOver(swept, K) \in Nat
        BY <1>3, <3>1
      <4> QED BY <3>1, <4>4, <4>5
    <3> QED BY <3>2, <3>3
  <2> HIDE DEF swept, L
  <2>5. SumOver(suppressed', L) + swept[k] = SumOver(swept, L) + suppressed'[k]
    BY <2>2, <2>3, SumOverChanges
  <2>6. SumOver(suppressed', L) \in Nat
    BY <2>2, <2>3, SumOverFacts
  <2>7. carried \in Nat /\ lost' \in Nat
    BY <1>2, <1>3, <1>5, <1>6
  <2> HIDE DEF carried
  <2>8. total' = reported' + lost' + SumOver(suppressed', seen')
    BY <1>2, <1>3, <1>5, <2>1, <2>2, <2>4, <2>5, <2>6, <2>7
  <2> QED BY <2>7, <2>8 DEF Accounts, FoldsAccounted
<1> QED BY <1>2, <1>7, <1>8

LEMMA NextAccounts == IInv /\ IInv' /\ Accounts /\ [Next]_vars => Accounts'
<1> SUFFICES ASSUME IInv, IInv', Accounts, [Next]_vars PROVE Accounts'
  OBVIOUS
<1>1. TypeOK /\ TypeOK'
  BY DEF IInv, Bounded
<1>2. ASSUME NEW a \in Alerts, NEW t \in Times, admit(a, t) PROVE Accounts'
  <2> DEFINE gone == IF Cleared(t) THEN dropped \cup Unexpired(t) ELSE dropped
  <2>1. dedupKey(a) \in Keys
    BY DEF Keys
  <2>2. /\ lost' = lost + SumOver(suppressed, seen \ Survivors(t))
        /\ \/ Fold(dedupKey(a), t, Survivors(t), gone)
           \/ Emit(dedupKey(a), t, Survivors(t), gone)
    BY <1>2 DEF admit
  <2> HIDE DEF gone
  <2> QED BY <1>1, <2>1, <2>2, AdmitKeepsAccounts
<1>3. CASE UNCHANGED vars
  BY <1>3 DEF vars, dedupVars, Accounts, FoldsAccounted
<1> QED BY <1>2, <1>3 DEF Next

\* admit and maybeSweep: an alert that resurfaces carries every repeat folded
\* since its last emission, and each fold of the summary's total was
\* reported, waits in the table, or went with a deleted key.
THEOREM FoldsReachTheReader == Spec => []NoFoldIsLost
<1>1. Init => Accounts
  <2> SUFFICES ASSUME Init PROVE Accounts
    OBVIOUS
  <2>1. /\ seen = {} /\ total = 0 /\ reported = 0 /\ lost = 0
    BY DEF Init
  <2>2. SumOver(suppressed, {}) = 0
    BY FS_EmptySet, SumOverFacts
  <2> QED BY <2>1, <2>2 DEF Accounts, FoldsAccounted
<1>2. IInv /\ Accounts => NoFoldIsLost
  BY DEF IInv, Accounts, NoFoldIsLost
<1> QED BY <1>1, <1>2, IInvHolds, NextAccounts, PTL DEF Spec
=============================================================================
