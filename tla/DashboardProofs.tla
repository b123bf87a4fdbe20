-------------------------- MODULE DashboardProofs --------------------------
(***************************************************************************)
(* Proofs about Dashboard, for any stream of alerts, any terminal and any  *)
(* interleaving of the painter's rounds with the alerts that arrive.       *)
(*                                                                         *)
(* The alerts of a stream are numbered.  What Write builds up alert by     *)
(* alert is shown to be what After says of the first k of them, counted    *)
(* all at once; frames, and the rounds of Render that gave something up,   *)
(* are then about After(k) for some k, which no later alert changes.       *)
(***************************************************************************)
EXTENDS Dashboard, FiniteSetTheorems, SequenceTheorems, WellFoundedInduction, TLAPS

StreamOK ==
    /\ Len(stream) \in Nat
    /\ \A i \in 1..Len(stream) : stream[i] # Quiet =>
          /\ stream[i].rule # "none" /\ stream[i].sev \in Severities
          /\ stream[i].proc \in Procs /\ stream[i].steps \in Nat

LEMMA StreamsOK ==
    ASSUME stream \in Streams
    PROVE  StreamOK
BY DashboardAssumption DEF StreamOK

LEMMA InductionOnNat ==
    ASSUME NEW G, 0 \in G, \A n \in Nat : n \in G => n + 1 \in G
    PROVE  Nat \subseteq G
<1> SUFFICES ASSUME Nat \ G # {} PROVE FALSE
  OBVIOUS
<1>1. PICK m \in Nat \ G : \A y \in Nat \ G : ~(<<y, m>> \in OpToRel(<, Nat))
  BY NatLessThanWellFounded, WFMin
<1>2. \A y \in Nat \ G : ~(y < m)
  BY <1>1 DEF OpToRel
<1>3. m # 0 /\ m - 1 \in Nat /\ m - 1 < m /\ (m - 1) + 1 = m
  OBVIOUS
<1> QED BY <1>2, <1>3

-----------------------------------------------------------------------------
(* Numbering the alerts of a stream. *)

Rank(i) == Cardinality(AlertsUpTo(i))

LEMMA RankType ==
    ASSUME NEW i \in Nat
    PROVE  IsFiniteSet(AlertsUpTo(i)) /\ Rank(i) \in Nat
<1>1. AlertsUpTo(i) \subseteq 1..i /\ IsFiniteSet(1..i)
  BY FS_Interval DEF AlertsUpTo
<1>2. IsFiniteSet(AlertsUpTo(i))
  BY <1>1, FS_Subset
<1> QED BY <1>2, FS_CardinalityType DEF Rank

LEMMA RankZero ==
    AlertsUpTo(0) = {} /\ Rank(0) = 0
<1>1. AlertsUpTo(0) = {}
  BY DEF AlertsUpTo
<1> QED BY <1>1, FS_EmptySet DEF Rank

LEMMA RankNext ==
    ASSUME NEW i \in Nat
    PROVE  /\ stream[i + 1] # Quiet =>
                  /\ AlertsUpTo(i + 1) = AlertsUpTo(i) \cup {i + 1}
                  /\ Rank(i + 1) = Rank(i) + 1
           /\ stream[i + 1] = Quiet => AlertsUpTo(i + 1) = AlertsUpTo(i) /\ Rank(i + 1) = Rank(i)
<1>1. IsFiniteSet(AlertsUpTo(i))
  BY RankType
<1>2. i + 1 \notin AlertsUpTo(i)
  BY DEF AlertsUpTo
<1>3. CASE stream[i + 1] # Quiet
  <2>1. AlertsUpTo(i + 1) = AlertsUpTo(i) \cup {i + 1}
    BY <1>3 DEF AlertsUpTo
  <2>2. Cardinality(AlertsUpTo(i) \cup {i + 1}) = Cardinality(AlertsUpTo(i)) + 1
    BY <1>1, <1>2, FS_AddElement
  <2> QED BY <1>3, <2>1, <2>2 DEF Rank
<1>4. CASE stream[i + 1] = Quiet
  <2>1. AlertsUpTo(i + 1) = AlertsUpTo(i)
    BY <1>4 DEF AlertsUpTo
  <2> QED BY <1>4, <2>1 DEF Rank
<1> QED BY <1>3, <1>4

LEMMA RankMonotone ==
    ASSUME NEW i \in Nat, NEW j \in Nat
    PROVE  /\ i <= j => Rank(i) <= Rank(j)
           /\ i < j /\ stream[j] # Quiet => Rank(i) < Rank(j)
<1>1. ASSUME NEW k \in Nat, i <= k PROVE Rank(i) <= Rank(k)
  <2>1. AlertsUpTo(i) \subseteq AlertsUpTo(k)
    BY <1>1 DEF AlertsUpTo
  <2> QED BY <2>1, RankType, FS_Subset DEF Rank
<1>2. ASSUME i < j, stream[j] # Quiet PROVE Rank(i) < Rank(j)
  <2>1. j - 1 \in Nat /\ i <= j - 1 /\ (j - 1) + 1 = j
    BY <1>2
  <2>2. Rank(i) <= Rank(j - 1)
    BY <1>1, <2>1
  <2>3. Rank(j) = Rank(j - 1) + 1
    BY <1>2, <2>1, RankNext
  <2>4. Rank(i) \in Nat /\ Rank(j - 1) \in Nat
    BY <2>1, RankType
  <2> QED BY <2>2, <2>3, <2>4
<1> QED BY <1>1, <1>2

LEMMA SameRank ==
    ASSUME NEW i \in Nat, NEW j \in Nat, stream[i] # Quiet, stream[j] # Quiet, Rank(i) = Rank(j)
    PROVE  i = j
<1>1. Rank(i) \in Nat /\ Rank(j) \in Nat
  BY RankType
<1>2. ~(i < j) /\ ~(j < i)
  BY <1>1, RankMonotone
<1> QED BY <1>2

LEMMA NumberIs ==
    ASSUME NEW i \in 1..Len(stream), Len(stream) \in Nat, stream[i] # Quiet
    PROVE  AlertNumber(Rank(i)) = i
<1> DEFINE n == AlertNumber(Rank(i))
<1>1. \E x \in 1..Len(stream) : stream[x] # Quiet /\ Cardinality(AlertsUpTo(x)) = Rank(i)
  BY DEF Rank
<1>2. n \in 1..Len(stream) /\ stream[n] # Quiet /\ Rank(n) = Rank(i)
  BY <1>1 DEF AlertNumber, Rank
<1> HIDE DEF n
<1> QED BY <1>2, SameRank DEF n

LEMMA NumberedAlert ==
    ASSUME Len(stream) \in Nat, NEW w \in 0..Len(stream), NEW k \in 1..Rank(w)
    PROVE  /\ AlertNumber(k) \in AlertsUpTo(w) /\ AlertNumber(k) \in 1..w
           /\ stream[AlertNumber(k)] # Quiet /\ Rank(AlertNumber(k)) = k
<1> DEFINE G == {n \in Nat : n <= Len(stream) =>
                    \A x \in 1..Rank(n) : \E i \in AlertsUpTo(n) : Rank(i) = x}
<1>1. 0 \in G
  BY RankZero
<1>2. ASSUME NEW n \in Nat, n \in G PROVE n + 1 \in G
  <2> SUFFICES ASSUME n + 1 <= Len(stream), NEW x \in 1..Rank(n + 1)
               PROVE  \E i \in AlertsUpTo(n + 1) : Rank(i) = x
    OBVIOUS
  <2>1. \A y \in 1..Rank(n) : \E i \in AlertsUpTo(n) : Rank(i) = y
    BY <1>2
  <2>2. AlertsUpTo(n) \subseteq AlertsUpTo(n + 1)
    BY DEF AlertsUpTo
  <2>3. Rank(n) \in Nat
    BY RankType
  <2>4. CASE stream[n + 1] = Quiet
    BY <2>1, <2>2, <2>4, RankNext
  <2>5. CASE stream[n + 1] # Quiet
    <3>1. Rank(n + 1) = Rank(n) + 1 /\ n + 1 \in AlertsUpTo(n + 1)
      BY <2>5, RankNext
    <3>2. x \in 1..Rank(n) \/ x = Rank(n + 1)
      BY <2>3, <3>1
    <3> QED BY <2>1, <2>2, <3>1, <3>2
  <2> QED BY <2>4, <2>5
<1>3. Nat \subseteq G
  <2> HIDE DEF G
  <2> QED BY <1>1, <1>2, InductionOnNat
<1>4. PICK i \in AlertsUpTo(w) : Rank(i) = k
  BY <1>3
<1>5. i \in 1..w /\ i \in 1..Len(stream) /\ stream[i] # Quiet
  BY DEF AlertsUpTo
<1>6. AlertNumber(k) = i
  BY <1>4, <1>5, NumberIs
<1> QED BY <1>4, <1>5, <1>6

LEMMA FirstIs ==
    ASSUME Len(stream) \in Nat, NEW w \in 0..Len(stream)
    PROVE  FirstAlerts(Rank(w)) = AlertsUpTo(w)
<1>1. ASSUME NEW i \in FirstAlerts(Rank(w)) PROVE i \in AlertsUpTo(w)
  <2>1. i \in 1..Len(stream) /\ stream[i] # Quiet /\ Rank(i) <= Rank(w)
    BY DEF FirstAlerts, Rank
  <2>2. Rank(i) \in Nat /\ Rank(w) \in Nat
    BY <2>1, RankType
  <2>3. ~(w < i)
    BY <2>1, <2>2, RankMonotone
  <2> QED BY <2>1, <2>3 DEF AlertsUpTo
<1>2. ASSUME NEW i \in AlertsUpTo(w) PROVE i \in FirstAlerts(Rank(w))
  <2>1. i \in 1..w /\ stream[i] # Quiet
    BY DEF AlertsUpTo
  <2>2. Rank(i) <= Rank(w)
    BY <2>1, RankMonotone
  <2> QED BY <2>1, <2>2 DEF FirstAlerts, Rank
<1> QED BY <1>1, <1>2

-----------------------------------------------------------------------------
(* The greatest of a set of numbers. *)

LEMMA MaxIs ==
    ASSUME NEW S \in SUBSET Int, NEW m \in S, \A x \in S : x <= m
    PROVE  Max(S) = m
<1>1. \E x \in S : \A y \in S : x >= y
  OBVIOUS
<1>2. Max(S) \in S /\ \A y \in S : Max(S) >= y
  BY <1>1 DEF Max
<1> DEFINE x == Max(S)
<1>3. x \in S /\ \A y \in S : x >= y
  BY <1>2
<1> HIDE DEF x
<1>4. x \in Int /\ m \in Int /\ x >= m /\ x <= m
  BY <1>3
<1>5. x = m
  BY <1>4
<1> QED BY <1>5 DEF x

LEMMA MaxOfTwo ==
    ASSUME NEW a \in Int, NEW b \in Int
    PROVE  Max({a, b}) \in {a, b} /\ Max({a, b}) >= a /\ Max({a, b}) >= b
<1>1. CASE a <= b
  BY <1>1, MaxIs
<1>2. CASE b <= a
  BY <1>2, MaxIs
<1> QED BY <1>1, <1>2

LEMMA MaxBounded ==
    ASSUME NEW n \in Nat, NEW S \in SUBSET (0..n), S # {}
    PROVE  Max(S) \in S /\ \A x \in S : x <= Max(S)
<1> DEFINE T == {k \in Nat : n - k \in S}
<1>1. T \in SUBSET Nat /\ T # {}
  <2>1. PICK x \in S : TRUE
    OBVIOUS
  <2>2. n - x \in Nat /\ n - (n - x) = x
    BY <2>1
  <2> QED BY <2>1, <2>2
<1>2. PICK k \in T : \A y \in T : ~(<<y, k>> \in OpToRel(<, Nat))
  <2> HIDE DEF T
  <2> QED BY <1>1, NatLessThanWellFounded, WFMin
<1>3. n - k \in S /\ k \in Nat
  OBVIOUS
<1>4. ASSUME NEW x \in S PROVE x <= n - k
  <2>1. n - x \in Nat /\ n - (n - x) = x
    OBVIOUS
  <2>2. n - x \in T
    BY <2>1
  <2>3. ~(n - x < k)
    BY <1>2, <1>3, <2>1, <2>2 DEF OpToRel
  <2> QED BY <1>3, <2>1, <2>3
<1>5. Max(S) = n - k
  <2> DEFINE m == n - k
  <2>1. m \in S /\ S \in SUBSET Int /\ \A x \in S : x <= m
    BY <1>3, <1>4
  <2> HIDE DEF m
  <2>2. Max(S) = m
    BY <2>1, MaxIs
  <2> QED BY <2>2 DEF m
<1> QED BY <1>3, <1>4, <1>5

-----------------------------------------------------------------------------
(* What Write builds up is what After says. *)

Kept(k) == IF k > recentCap THEN recentCap ELSE k
Latest(k) == [n \in 1..Kept(k) |-> AlertNumber(k - Kept(k) + n)]
LastChain(k) == Max({0} \cup {i \in FirstAlerts(k) : stream[i].steps > 0})

LEMMA AfterIs ==
    ASSUME NEW k
    PROVE  After(k) =
        [total      |-> k,
         bySeverity |-> [s \in Severities |-> Cardinality({i \in FirstAlerts(k) : stream[i].sev = s})],
         byRule     |-> [r \in RuleNames |-> Cardinality({i \in FirstAlerts(k) : stream[i].rule = r})],
         byTactic   |-> [t \in 1..5 |-> Cardinality({i \in FirstAlerts(k) : t \in stream[i].tactics})],
         byProcess  |-> [p \in Procs |-> Cardinality({i \in FirstAlerts(k) : stream[i].proc = p})],
         lastChain  |-> LastChain(k),
         recent     |-> Latest(k)]
BY Zenon DEF After, LastChain, Latest, Kept

LEMMA NothingYet ==
    ASSUME StreamOK
    PROVE  After(0) = NewDashboard
<1>1. FirstAlerts(0) = {}
  BY RankZero, FirstIs DEF StreamOK
<1>2. Cardinality({}) = 0
  BY FS_EmptySet
<1>3. LastChain(0) = 0
  <2>1. {0} \cup {i \in FirstAlerts(0) : stream[i].steps > 0} = {0}
    BY <1>1
  <2>2. Max({0}) = 0
    BY MaxIs
  <2> QED BY <2>1, <2>2 DEF LastChain
<1>4. Latest(0) = <<>>
  <2>1. Kept(0) = 0 /\ 1..0 = {}
    BY DashboardAssumption DEF Kept
  <2>2. Latest(0) \in Seq({}) /\ Len(Latest(0)) = 0
    BY <2>1 DEF Latest
  <2> QED BY <2>2
<1>5. /\ \A s \in Severities : {i \in FirstAlerts(0) : stream[i].sev = s} = {}
      /\ \A r \in RuleNames : {i \in FirstAlerts(0) : stream[i].rule = r} = {}
      /\ \A t \in 1..5 : {i \in FirstAlerts(0) : t \in stream[i].tactics} = {}
      /\ \A p \in Procs : {i \in FirstAlerts(0) : stream[i].proc = p} = {}
  BY <1>1
<1>6. /\ [s \in Severities |-> Cardinality({i \in FirstAlerts(0) : stream[i].sev = s})] = [s \in Severities |-> 0]
      /\ [r \in RuleNames |-> Cardinality({i \in FirstAlerts(0) : stream[i].rule = r})] = [r \in RuleNames |-> 0]
      /\ [t \in 1..5 |-> Cardinality({i \in FirstAlerts(0) : t \in stream[i].tactics})] = [t \in 1..5 |-> 0]
      /\ [p \in Procs |-> Cardinality({i \in FirstAlerts(0) : stream[i].proc = p})] = [p \in Procs |-> 0]
  BY <1>2, <1>5
<1> QED BY <1>3, <1>4, <1>6, AfterIs, Zenon DEF NewDashboard

LEMMA OneMore ==
    ASSUME NEW A, IsFiniteSet(A), NEW S \in SUBSET A, NEW i, i \notin A
    PROVE  Cardinality(S) \in Nat /\ Cardinality(S \cup {i}) = Cardinality(S) + 1
<1>1. IsFiniteSet(S) /\ i \notin S
  BY FS_Subset
<1> QED BY <1>1, FS_AddElement, FS_CardinalityType

LEMMA Incremented ==
    ASSUME NEW D, NEW f, NEW g, f = [x \in D |-> f[x]], g = [x \in D |-> g[x]], NEW y \in D,
           g[y] = f[y] + 1, \A x \in D : x # y => g[x] = f[x]
    PROVE  [f EXCEPT ![y] = @ + 1] = g
OBVIOUS

\* Keeping the latest, one alert later.
LEMMA LatestNext ==
    ASSUME NEW k \in Nat, NEW i, AlertNumber(k + 1) = i
    PROVE  Recent(Append(Latest(k), i)) = Latest(k + 1)
<1> DEFINE S == {AlertNumber(j) : j \in Int}
           m == Kept(k)
           a == Latest(k)
           b == Append(a, i)
<1>1. m \in Nat /\ m <= k /\ m <= recentCap /\ recentCap \in Nat
      /\ (k <= recentCap => m = k) /\ (k > recentCap => m = recentCap)
  BY DashboardAssumption DEF Kept
<1> HIDE DEF m
<1>2. a = [n \in 1..m |-> AlertNumber(k - m + n)]
  BY DEF Latest, m
<1>3. a \in Seq(S) /\ Len(a) = m /\ \A n \in 1..m : a[n] = AlertNumber(k - m + n)
  BY <1>1, <1>2
<1> HIDE DEF a
<1>4. i \in S
  OBVIOUS
<1> HIDE DEF S
<1>5. /\ b \in Seq(S) /\ Len(b) = m + 1 /\ b[m + 1] = i
      /\ \A n \in 1..m : b[n] = AlertNumber(k - m + n)
  BY <1>1, <1>3, <1>4
<1> HIDE DEF b
<1>6. \A n \in 1..(m + 1) : b[n] = AlertNumber(k - m + n)
  <2> TAKE n \in 1..(m + 1)
  <2>1. CASE n \in 1..m
    BY <1>5, <2>1
  <2>2. CASE n = m + 1
    <3>1. k - m + (m + 1) = k + 1
      BY <1>1
    <3> QED BY <1>5, <2>2, <3>1
  <2> QED BY <1>1, <2>1, <2>2
<1>7. CASE k < recentCap
  <2>1. m = k /\ Kept(k + 1) = k + 1 /\ ~(Len(b) > recentCap)
    BY <1>1, <1>5, <1>7 DEF Kept
  <2>2. Recent(b) = b
    BY <2>1 DEF Recent
  <2>3. Latest(k + 1) = [n \in 1..(k + 1) |-> AlertNumber((k + 1) - (k + 1) + n)]
    BY <2>1 DEF Latest
  <2>4. b = [n \in 1..(k + 1) |-> b[n]]
    BY <1>5, <2>1
  <2>5. \A n \in 1..(k + 1) : (k + 1) - (k + 1) + n = k - m + n
    BY <2>1
  <2>6. \A n \in 1..(k + 1) : b[n] = AlertNumber((k + 1) - (k + 1) + n)
    BY <1>6, <2>1, <2>5
  <2>7. b = [n \in 1..(k + 1) |-> AlertNumber((k + 1) - (k + 1) + n)]
    BY <2>4, <2>6
  <2> QED BY <2>2, <2>3, <2>7 DEF a, b
<1>8. CASE k >= recentCap
  <2>1. m = recentCap /\ Kept(k + 1) = m /\ Len(b) > recentCap /\ b # <<>>
    BY <1>1, <1>5, <1>8 DEF Kept
  <2>2. Recent(b) = Tail(b)
    BY <2>1 DEF Recent
  <2>3. Tail(b) \in Seq(S) /\ Len(Tail(b)) = m /\ \A n \in 1..m : Tail(b)[n] = b[n + 1]
    BY <1>1, <1>5, <2>1
  <2>4. Latest(k + 1) = [n \in 1..m |-> AlertNumber((k + 1) - m + n)]
    BY <2>1 DEF Latest
  <2>5. Tail(b) = [n \in 1..m |-> Tail(b)[n]]
    <3> DEFINE c == Tail(b)
    <3>1. c \in Seq(S) /\ Len(c) = m
      BY <2>3
    <3> HIDE DEF c
    <3>2. c = [n \in 1..m |-> c[n]]
      BY <3>1
    <3> QED BY <3>2 DEF c
  <2>6. \A n \in 1..m : n + 1 \in 1..(m + 1) /\ k - m + (n + 1) = (k + 1) - m + n
    BY <1>1
  <2>7. \A n \in 1..m : Tail(b)[n] = AlertNumber((k + 1) - m + n)
    BY <1>6, <2>3, <2>6
  <2>8. Tail(b) = [n \in 1..m |-> AlertNumber((k + 1) - m + n)]
    BY <2>5, <2>7
  <2> QED BY <2>2, <2>4, <2>8 DEF a, b
<1> QED BY <1>1, <1>7, <1>8

LEMMA WrittenIs ==
    ASSUME StreamOK, NEW i \in 1..Len(stream), stream[i] # Quiet
    PROVE  Written(After(Rank(i - 1)), i) = After(Rank(i)) /\ Rank(i) = Rank(i - 1) + 1
<1> DEFINE k == Rank(i - 1)
           A == AlertsUpTo(i - 1)
           a == stream[i]
           d == After(k)
<1>1. i - 1 \in Nat /\ (i - 1) + 1 = i /\ i - 1 \in 0..Len(stream) /\ i \in 0..Len(stream)
      /\ i \in Nat /\ Len(stream) \in Nat
  BY DEF StreamOK
<1>2. k \in Nat /\ Rank(i) = k + 1 /\ AlertsUpTo(i) = A \cup {i} /\ IsFiniteSet(A)
  BY <1>1, RankNext, RankType
<1>3. FirstAlerts(k) = A /\ FirstAlerts(Rank(i)) = A \cup {i}
  BY <1>1, <1>2, FirstIs
<1>4. i \notin A /\ \A j \in A : j \in 1..(i - 1)
  BY <1>1 DEF AlertsUpTo
<1>5. /\ a.rule \in RuleNames /\ a.sev \in Severities /\ a.proc \in Procs /\ a.steps \in Nat
  BY DEF StreamOK, RuleNames
<1>6. AlertNumber(k + 1) = i
  BY <1>1, <1>2, NumberIs
<1> HIDE DEF A, k
<1>7. \A s \in Severities :
         Cardinality({j \in A \cup {i} : stream[j].sev = s})
           = Cardinality({j \in A : stream[j].sev = s}) + (IF s = a.sev THEN 1 ELSE 0)
      /\ Cardinality({j \in A : stream[j].sev = s}) \in Nat
  <2> TAKE s \in Severities
  <2> DEFINE X == {j \in A : stream[j].sev = s}
             Y == {j \in A \cup {i} : stream[j].sev = s}
             c == s = a.sev
  <2>1. X \in SUBSET A /\ (c => Y = X \cup {i}) /\ (~c => Y = X)
    OBVIOUS
  <2> HIDE DEF X
  <2>2. Cardinality(X) \in Nat /\ Cardinality(X \cup {i}) = Cardinality(X) + 1
    BY <1>2, <1>4, <2>1, OneMore
  <2> HIDE DEF Y
  <2>3. Cardinality(Y) = Cardinality(X) + (IF c THEN 1 ELSE 0)
    <3>1. CASE c
      BY <2>1, <2>2, <3>1
    <3>2. CASE ~c
      <4>1. Cardinality(X) + 0 = Cardinality(X)
        BY <2>2
      <4> QED BY <2>1, <3>2, <4>1
    <3> QED BY <3>1, <3>2
  <2> QED BY <2>2, <2>3 DEF X, Y
<1>8. \A r \in RuleNames :
         Cardinality({j \in A \cup {i} : stream[j].rule = r})
           = Cardinality({j \in A : stream[j].rule = r}) + (IF r = a.rule THEN 1 ELSE 0)
      /\ Cardinality({j \in A : stream[j].rule = r}) \in Nat
  <2> TAKE r \in RuleNames
  <2> DEFINE X == {j \in A : stream[j].rule = r}
             Y == {j \in A \cup {i} : stream[j].rule = r}
             c == r = a.rule
  <2>1. X \in SUBSET A /\ (c => Y = X \cup {i}) /\ (~c => Y = X)
    OBVIOUS
  <2> HIDE DEF X
  <2>2. Cardinality(X) \in Nat /\ Cardinality(X \cup {i}) = Cardinality(X) + 1
    BY <1>2, <1>4, <2>1, OneMore
  <2> HIDE DEF Y
  <2>3. Cardinality(Y) = Cardinality(X) + (IF c THEN 1 ELSE 0)
    <3>1. CASE c
      BY <2>1, <2>2, <3>1
    <3>2. CASE ~c
      <4>1. Cardinality(X) + 0 = Cardinality(X)
        BY <2>2
      <4> QED BY <2>1, <3>2, <4>1
    <3> QED BY <3>1, <3>2
  <2> QED BY <2>2, <2>3 DEF X, Y
<1>9. \A t \in 1..5 :
         Cardinality({j \in A \cup {i} : t \in stream[j].tactics})
           = Cardinality({j \in A : t \in stream[j].tactics}) + (IF t \in a.tactics THEN 1 ELSE 0)
      /\ Cardinality({j \in A : t \in stream[j].tactics}) \in Nat
  <2> TAKE t \in 1..5
  <2> DEFINE X == {j \in A : t \in stream[j].tactics}
             Y == {j \in A \cup {i} : t \in stream[j].tactics}
             c == t \in a.tactics
  <2>1. X \in SUBSET A /\ (c => Y = X \cup {i}) /\ (~c => Y = X)
    OBVIOUS
  <2> HIDE DEF X
  <2>2. Cardinality(X) \in Nat /\ Cardinality(X \cup {i}) = Cardinality(X) + 1
    BY <1>2, <1>4, <2>1, OneMore
  <2> HIDE DEF Y
  <2>3. Cardinality(Y) = Cardinality(X) + (IF c THEN 1 ELSE 0)
    <3>1. CASE c
      BY <2>1, <2>2, <3>1
    <3>2. CASE ~c
      <4>1. Cardinality(X) + 0 = Cardinality(X)
        BY <2>2
      <4> QED BY <2>1, <3>2, <4>1
    <3> QED BY <3>1, <3>2
  <2> QED BY <2>2, <2>3 DEF X, Y
<1>10. \A p \in Procs :
         Cardinality({j \in A \cup {i} : stream[j].proc = p})
           = Cardinality({j \in A : stream[j].proc = p}) + (IF p = a.proc THEN 1 ELSE 0)
      /\ Cardinality({j \in A : stream[j].proc = p}) \in Nat
  <2> TAKE p \in Procs
  <2> DEFINE X == {j \in A : stream[j].proc = p}
             Y == {j \in A \cup {i} : stream[j].proc = p}
             c == p = a.proc
  <2>1. X \in SUBSET A /\ (c => Y = X \cup {i}) /\ (~c => Y = X)
    OBVIOUS
  <2> HIDE DEF X
  <2>2. Cardinality(X) \in Nat /\ Cardinality(X \cup {i}) = Cardinality(X) + 1
    BY <1>2, <1>4, <2>1, OneMore
  <2> HIDE DEF Y
  <2>3. Cardinality(Y) = Cardinality(X) + (IF c THEN 1 ELSE 0)
    <3>1. CASE c
      BY <2>1, <2>2, <3>1
    <3>2. CASE ~c
      <4>1. Cardinality(X) + 0 = Cardinality(X)
        BY <2>2
      <4> QED BY <2>1, <3>2, <4>1
    <3> QED BY <3>1, <3>2
  <2> QED BY <2>2, <2>3 DEF X, Y
<1>11. LastChain(Rank(i)) = IF a.steps > 0 THEN i ELSE LastChain(k)
  <2>1. CASE a.steps > 0
    <3> DEFINE X == {0} \cup {j \in A \cup {i} : stream[j].steps > 0}
    <3>1. i \in X /\ X \in SUBSET Int /\ \A x \in X : x <= i
      BY <1>1, <1>4, <2>1
    <3> HIDE DEF X
    <3>2. Max(X) = i
      BY <3>1, MaxIs
    <3> QED BY <1>3, <2>1, <3>2 DEF LastChain, X
  <2>2. CASE ~(a.steps > 0)
    <3>1. {j \in A \cup {i} : stream[j].steps > 0} = {j \in A : stream[j].steps > 0}
      BY <2>2
    <3> QED BY <1>3, <2>2, <3>1 DEF LastChain
  <2> QED BY <2>1, <2>2
<1>12. Recent(Append(Latest(k), i)) = Latest(k + 1)
  BY <1>2, <1>6, LatestNext
<1>13. /\ d.total = k /\ d.lastChain = LastChain(k) /\ d.recent = Latest(k)
       /\ d.bySeverity = [s \in Severities |-> Cardinality({j \in A : stream[j].sev = s})]
       /\ d.byRule = [r \in RuleNames |-> Cardinality({j \in A : stream[j].rule = r})]
       /\ d.byTactic = [t \in 1..5 |-> Cardinality({j \in A : t \in stream[j].tactics})]
       /\ d.byProcess = [p \in Procs |-> Cardinality({j \in A : stream[j].proc = p})]
  BY <1>3, AfterIs
<1> HIDE DEF d
<1>14. [d.bySeverity EXCEPT ![a.sev] = @ + 1]
         = [s \in Severities |-> Cardinality({j \in A \cup {i} : stream[j].sev = s})]
  <2> DEFINE f == d.bySeverity
             g == [s \in Severities |-> Cardinality({j \in A \cup {i} : stream[j].sev = s})]
  <2>1. f = [s \in Severities |-> f[s]] /\ g = [s \in Severities |-> g[s]]
    BY <1>13
  <2>2. \A s \in Severities : f[s] \in Nat /\ g[s] = f[s] + (IF s = a.sev THEN 1 ELSE 0)
    BY <1>7, <1>13
  <2> HIDE DEF f, g
  <2>3. [f EXCEPT ![a.sev] = @ + 1] = g
    <3> DEFINE y == a.sev
    <3>1. y \in Severities /\ g[y] = f[y] + 1 /\ \A s \in Severities : s # y => g[s] = f[s]
      BY <1>5, <2>2
    <3> HIDE DEF y
    <3>2. [f EXCEPT ![y] = @ + 1] = g
      BY <2>1, <3>1, Incremented
    <3> QED BY <3>2 DEF y
  <2> QED BY <2>3 DEF f, g
<1>15. [d.byRule EXCEPT ![a.rule] = @ + 1]
         = [r \in RuleNames |-> Cardinality({j \in A \cup {i} : stream[j].rule = r})]
  <2> DEFINE f == d.byRule
             g == [r \in RuleNames |-> Cardinality({j \in A \cup {i} : stream[j].rule = r})]
  <2>1. f = [r \in RuleNames |-> f[r]] /\ g = [r \in RuleNames |-> g[r]]
    BY <1>13
  <2>2. \A r \in RuleNames : f[r] \in Nat /\ g[r] = f[r] + (IF r = a.rule THEN 1 ELSE 0)
    BY <1>8, <1>13
  <2> HIDE DEF f, g
  <2>3. [f EXCEPT ![a.rule] = @ + 1] = g
    <3> DEFINE y == a.rule
    <3>1. y \in RuleNames /\ g[y] = f[y] + 1 /\ \A r \in RuleNames : r # y => g[r] = f[r]
      BY <1>5, <2>2
    <3> HIDE DEF y
    <3>2. [f EXCEPT ![y] = @ + 1] = g
      BY <2>1, <3>1, Incremented
    <3> QED BY <3>2 DEF y
  <2> QED BY <2>3 DEF f, g
<1>16. [t \in 1..5 |-> d.byTactic[t] + (IF t \in a.tactics THEN 1 ELSE 0)]
         = [t \in 1..5 |-> Cardinality({j \in A \cup {i} : t \in stream[j].tactics})]
  BY <1>9, <1>13, SMTT(40)
<1>17. [d.byProcess EXCEPT ![a.proc] = @ + 1]
         = [p \in Procs |-> Cardinality({j \in A \cup {i} : stream[j].proc = p})]
  <2> DEFINE f == d.byProcess
             g == [p \in Procs |-> Cardinality({j \in A \cup {i} : stream[j].proc = p})]
  <2>1. f = [p \in Procs |-> f[p]] /\ g = [p \in Procs |-> g[p]]
    BY <1>13
  <2>2. \A p \in Procs : f[p] \in Nat /\ g[p] = f[p] + (IF p = a.proc THEN 1 ELSE 0)
    BY <1>10, <1>13
  <2> HIDE DEF f, g
  <2>3. [f EXCEPT ![a.proc] = @ + 1] = g
    <3> DEFINE y == a.proc
    <3>1. y \in Procs /\ g[y] = f[y] + 1 /\ \A p \in Procs : p # y => g[p] = f[p]
      BY <1>5, <2>2
    <3> HIDE DEF y
    <3>2. [f EXCEPT ![y] = @ + 1] = g
      BY <2>1, <3>1, Incremented
    <3> QED BY <3>2 DEF y
  <2> QED BY <2>3 DEF f, g
<1>18. d.total + Counted(a) = k + 1
  BY <1>13 DEF Counted
<1>19. (IF a.steps > 0 THEN i ELSE d.lastChain) = LastChain(k + 1)
  BY <1>2, <1>11, <1>13
<1>20. Recent(Append(d.recent, i)) = Latest(k + 1)
  BY <1>12, <1>13
<1>21. Written(d, i) =
         [total |-> k + 1,
          bySeverity |-> [s \in Severities |-> Cardinality({j \in A \cup {i} : stream[j].sev = s})],
          byRule |-> [r \in RuleNames |-> Cardinality({j \in A \cup {i} : stream[j].rule = r})],
          byTactic |-> [t \in 1..5 |-> Cardinality({j \in A \cup {i} : t \in stream[j].tactics})],
          byProcess |-> [p \in Procs |-> Cardinality({j \in A \cup {i} : stream[j].proc = p})],
          lastChain |-> LastChain(k + 1),
          recent |-> Latest(k + 1)]
  BY <1>14, <1>15, <1>16, <1>17, <1>18, <1>19, <1>20, Zenon DEF Written
<1>22. FirstAlerts(k + 1) = A \cup {i}
  BY <1>2, <1>3
<1>23. Written(d, i) = After(k + 1)
  BY <1>21, <1>22, AfterIs, Zenon
<1> QED BY <1>2, <1>23 DEF d, k

-----------------------------------------------------------------------------
(* The loops: the feed, and the rows of chips. *)

FeedBody(r, rows, g, k) ==
    IF k = 0 THEN <<>> ELSE FedWith(g[k - 1], r[Len(r) + 1 - k], rows)

LEMMA FeedsExist ==
    ASSUME NEW r, Len(r) \in Nat, NEW rows
    PROVE  \E g : g = [k \in 0..Len(r) |-> FeedBody(r, rows, g, k)]
<1> DEFINE N == Len(r)
           Upto(m, g) == \A i \in 0..N : i <= m => g[i] = FeedBody(r, rows, g, i)
           G == {m \in Nat : \E g : Upto(m, g)}
<1>1. 0 \in G
  <2> DEFINE g == [i \in 0..N |-> <<>>]
  <2>1. Upto(0, g)
    BY DEF FeedBody
  <2> QED BY <2>1
<1>2. ASSUME NEW m \in Nat, m \in G PROVE m + 1 \in G
  <2>1. PICK g : Upto(m, g)
    BY <1>2
  <2> DEFINE h == [i \in 0..N |-> FeedBody(r, rows, g, i)]
  <2>2. \A i \in 0..N : i <= m => h[i] = g[i]
    BY <2>1
  <2>3. \A i \in 0..N : i <= m + 1 => FeedBody(r, rows, h, i) = FeedBody(r, rows, g, i)
    <3> TAKE i \in 0..N
    <3> HAVE i <= m + 1
    <3>1. CASE i = 0
      BY <3>1 DEF FeedBody
    <3>2. CASE i # 0
      <4>1. i - 1 \in 0..N /\ i - 1 <= m
        BY <3>2
      <4>2. h[i - 1] = g[i - 1]
        BY <2>2, <4>1
      <4> HIDE DEF h
      <4> QED BY <3>2, <4>2 DEF FeedBody
    <3> QED BY <3>1, <3>2
  <2>4. Upto(m + 1, h)
    BY <2>3
  <2> HIDE DEF h, Upto
  <2>5. m + 1 \in Nat
    OBVIOUS
  <2> QED BY <2>4, <2>5
<1>3. N \in G
  <2> HIDE DEF G
  <2>1. Nat \subseteq G
    BY <1>1, <1>2, InductionOnNat
  <2> QED BY <2>1
<1>4. PICK g : Upto(N, g)
  BY <1>3
<1> DEFINE h == [i \in 0..N |-> g[i]]
<1>5. \A i \in 0..N : g[i] = FeedBody(r, rows, g, i)
  BY <1>4
<1>6. \A i \in 0..N : FeedBody(r, rows, h, i) = FeedBody(r, rows, g, i)
  <2> TAKE i \in 0..N
  <2>1. CASE i = 0
    BY <2>1 DEF FeedBody
  <2>2. CASE i # 0
    <3>1. i - 1 \in 0..N
      BY <2>2
    <3>2. h[i - 1] = g[i - 1]
      BY <3>1
    <3> HIDE DEF h
    <3> QED BY <2>2, <3>2 DEF FeedBody
  <2> QED BY <2>1, <2>2
<1>7. h = [i \in 0..N |-> FeedBody(r, rows, h, i)]
  BY <1>5, <1>6
<1> QED BY <1>7

\* The visible alerts of a history from position c on.
ShownFrom(r, c) == {r[x] : x \in {y \in c..Len(r) : stream[r[y]].sev >= MinSeverity}}

\* What the feed is after k positions from the end: all that is visible from
\* some position on, and from the k-th unless the rows have run out.
FedOK(f, r, k, rows) ==
    /\ f \in Seq({r[x] : x \in 1..Len(r)}) /\ Len(f) <= rows
    /\ \E c \in (Len(r) - k + 1)..(Len(r) + 1) :
          /\ {f[x] : x \in 1..Len(f)} = ShownFrom(r, c)
          /\ c = Len(r) - k + 1 \/ Len(f) = rows

LEMMA FeedIs ==
    ASSUME NEW d, Len(d.recent) \in Nat, NEW rows \in Nat
    PROVE  FedOK(Feed(d, rows), d.recent, Len(d.recent), rows)
<1> DEFINE r == d.recent
           n == Len(r)
           g == CHOOSE z : z = [k \in 0..n |-> FeedBody(r, rows, z, k)]
<1>1. g = [k \in 0..n |-> FeedBody(r, rows, g, k)]
  BY FeedsExist, Zenon
<1>2. Feed(d, rows) = g[n]
  BY DEF Feed, FeedBody
<1> HIDE DEF g
<1>3. \A k \in 0..n : g[k] = FeedBody(r, rows, g, k)
  BY <1>1
<1>0. n \in Nat
  OBVIOUS
<1> HIDE DEF r, n
<1> DEFINE G == {k \in Nat : k \in 0..n => FedOK(g[k], r, k, rows)}
<1>4. 0 \in G
  <2>1. g[0] = <<>>
    BY <1>0, <1>3 DEF FeedBody
  <2>2. ShownFrom(r, n + 1) = {}
    BY <1>0 DEF ShownFrom, n
  <2>3. n + 1 \in (n - 0 + 1)..(n + 1) /\ n + 1 = n - 0 + 1
    BY <1>0
  <2> DEFINE f == g[0]
  <2> HIDE DEF f
  <2>4. f \in Seq({r[x] : x \in 1..Len(r)}) /\ Len(f) = 0
    BY <2>1 DEF f
  <2>5. {f[x] : x \in 1..Len(f)} = {}
    BY <2>4
  <2>6. FedOK(f, r, 0, rows)
    BY <2>2, <2>3, <2>4, <2>5 DEF FedOK, n
  <2> QED BY <2>6 DEF f
<1>5. ASSUME NEW k \in Nat, k \in G PROVE k + 1 \in G
  <2> SUFFICES ASSUME k + 1 \in 0..n PROVE FedOK(g[k + 1], r, k + 1, rows)
    OBVIOUS
  <2> DEFINE old == g[k]
             new == g[k + 1]
             p == n - k
             V == {r[x] : x \in 1..Len(r)}
  <2>1. /\ k \in 0..n /\ k + 1 # 0 /\ (k + 1) - 1 = k
        /\ n + 1 - (k + 1) = p /\ p \in 1..n /\ n - (k + 1) + 1 = p /\ n - k + 1 = p + 1
    BY <1>0
  <2>2. new = FedWith(old, r[p], rows) /\ FedOK(old, r, k, rows)
    <3>1. g[k + 1] = FeedBody(r, rows, g, k + 1)
      BY <1>3
    <3>2. FeedBody(r, rows, g, k + 1) = FedWith(old, r[p], rows)
      BY <2>1 DEF FeedBody, n
    <3> QED BY <1>5, <2>1, <3>1, <3>2
  <2>3. r[p] \in V
    BY <2>1 DEF n
  <2> HIDE DEF old, new, V, p
  <2>4. PICK c \in (p + 1)..(n + 1) :
           {old[x] : x \in 1..Len(old)} = ShownFrom(r, c) /\ (c = p + 1 \/ Len(old) = rows)
    BY <2>1, <2>2 DEF FedOK, n
  <2>5. old \in Seq(V) /\ Len(old) \in Nat /\ Len(old) <= rows
    BY <2>2 DEF FedOK, V
  <2>6. SUFFICES FedOK(new, r, k + 1, rows)
    BY DEF new
  <2>7. CASE Len(old) = rows
    <3>1. new = old
      BY <2>2, <2>7 DEF FedWith
    <3>2. c \in p..(n + 1)
      BY <1>0, <2>1
    <3> QED BY <2>1, <2>4, <2>5, <2>7, <3>1, <3>2 DEF FedOK, V, n
  <2>8. CASE Len(old) < rows /\ stream[r[p]].sev >= MinSeverity
    <3>1. new = Append(old, r[p])
      BY <2>2, <2>8 DEF FedWith
    <3>2. /\ new \in Seq(V) /\ Len(new) = Len(old) + 1 /\ Len(new) <= rows
          /\ (\A x \in 1..Len(old) : new[x] = old[x]) /\ new[Len(old) + 1] = r[p]
      BY <2>3, <2>5, <2>8, <3>1
    <3>3. {new[x] : x \in 1..Len(new)} = {old[x] : x \in 1..Len(old)} \cup {r[p]}
      <4>1. \A x \in 1..Len(new) : x \in 1..Len(old) \/ x = Len(old) + 1
        BY <2>5, <3>2
      <4>2. 1..Len(old) \subseteq 1..Len(new) /\ Len(old) + 1 \in 1..Len(new)
        BY <2>5, <3>2
      <4> QED BY <3>2, <4>1, <4>2
    <3>4. c = p + 1
      BY <2>4, <2>5, <2>8
    <3>5. ShownFrom(r, p) = ShownFrom(r, p + 1) \cup {r[p]}
      <4>1. p \in Int /\ Len(r) \in Int /\ p <= Len(r)
        BY <1>0, <2>1 DEF n
      <4>2. p..Len(r) = ((p + 1)..Len(r)) \cup {p}
        BY <4>1
      <4> QED BY <2>8, <4>2 DEF ShownFrom
    <3>6. p \in p..(n + 1)
      BY <1>0, <2>1
    <3>7. {new[x] : x \in 1..Len(new)} = ShownFrom(r, p)
      BY <2>4, <3>3, <3>4, <3>5
    <3> QED BY <2>1, <3>2, <3>6, <3>7 DEF FedOK, V, n
  <2>9. CASE Len(old) < rows /\ ~(stream[r[p]].sev >= MinSeverity)
    <3>1. new = old
      BY <2>2, <2>9 DEF FedWith
    <3>4. c = p + 1
      BY <2>4, <2>5, <2>9
    <3>5. ShownFrom(r, p) = ShownFrom(r, p + 1)
      <4>1. p \in Int /\ Len(r) \in Int /\ p <= Len(r)
        BY <1>0, <2>1 DEF n
      <4>2. p..Len(r) = ((p + 1)..Len(r)) \cup {p}
        BY <4>1
      <4> QED BY <2>9, <4>2 DEF ShownFrom
    <3>6. p \in p..(n + 1)
      BY <1>0, <2>1
    <3>7. {new[x] : x \in 1..Len(new)} = ShownFrom(r, p)
      BY <2>4, <3>1, <3>4, <3>5
    <3> QED BY <2>1, <2>5, <3>1, <3>6, <3>7 DEF FedOK, V, n
  <2> QED BY <2>5, <2>7, <2>8, <2>9
<1> HIDE DEF G
<1>6. n \in G
  BY <1>0, <1>4, <1>5, InductionOnNat
<1> QED BY <1>0, <1>2, <1>6 DEF G, r, n

PlaceBody(widths, w, g, i) ==
    IF i = 0 THEN [rows |-> 0, used |-> 0] ELSE Placed(g[i - 1], widths[i], w)

LEMMA PlacesExist ==
    ASSUME NEW widths, Len(widths) \in Nat, NEW w
    PROVE  \E g : g = [i \in 0..Len(widths) |-> PlaceBody(widths, w, g, i)]
<1> DEFINE N == Len(widths)
           Upto(m, g) == \A i \in 0..N : i <= m => g[i] = PlaceBody(widths, w, g, i)
           G == {m \in Nat : \E g : Upto(m, g)}
<1>1. 0 \in G
  <2> DEFINE g == [i \in 0..N |-> [rows |-> 0, used |-> 0]]
  <2>1. Upto(0, g)
    BY DEF PlaceBody
  <2> QED BY <2>1
<1>2. ASSUME NEW m \in Nat, m \in G PROVE m + 1 \in G
  <2>1. PICK g : Upto(m, g)
    BY <1>2
  <2> DEFINE h == [i \in 0..N |-> PlaceBody(widths, w, g, i)]
  <2>2. \A i \in 0..N : i <= m => h[i] = g[i]
    BY <2>1
  <2>3. \A i \in 0..N : i <= m + 1 => PlaceBody(widths, w, h, i) = PlaceBody(widths, w, g, i)
    <3> TAKE i \in 0..N
    <3> HAVE i <= m + 1
    <3>1. CASE i = 0
      BY <3>1 DEF PlaceBody
    <3>2. CASE i # 0
      <4>1. i - 1 \in 0..N /\ i - 1 <= m
        BY <3>2
      <4>2. h[i - 1] = g[i - 1]
        BY <2>2, <4>1
      <4> HIDE DEF h
      <4> QED BY <3>2, <4>2 DEF PlaceBody
    <3> QED BY <3>1, <3>2
  <2>4. Upto(m + 1, h)
    BY <2>3
  <2> HIDE DEF h, Upto
  <2>5. m + 1 \in Nat
    OBVIOUS
  <2> QED BY <2>4, <2>5
<1>3. N \in G
  <2> HIDE DEF G
  <2>1. Nat \subseteq G
    BY <1>1, <1>2, InductionOnNat
  <2> QED BY <2>1
<1>4. PICK g : Upto(N, g)
  BY <1>3
<1> DEFINE h == [i \in 0..N |-> g[i]]
<1>5. \A i \in 0..N : g[i] = PlaceBody(widths, w, g, i)
  BY <1>4
<1>6. \A i \in 0..N : PlaceBody(widths, w, h, i) = PlaceBody(widths, w, g, i)
  <2> TAKE i \in 0..N
  <2>1. CASE i = 0
    BY <2>1 DEF PlaceBody
  <2>2. CASE i # 0
    <3>1. i - 1 \in 0..N
      BY <2>2
    <3>2. h[i - 1] = g[i - 1]
      BY <3>1
    <3> HIDE DEF h
    <3> QED BY <2>2, <3>2 DEF PlaceBody
  <2> QED BY <2>1, <2>2
<1>7. h = [i \in 0..N |-> PlaceBody(widths, w, h, i)]
  BY <1>5, <1>6
<1> QED BY <1>7

LEMMA WrapType ==
    ASSUME NEW widths, Len(widths) \in Nat, NEW w
    PROVE  wrapChips(widths, w) \in Nat
<1> DEFINE n == Len(widths)
           g == CHOOSE z : z = [i \in 0..n |-> PlaceBody(widths, w, z, i)]
<1>1. g = [i \in 0..n |-> PlaceBody(widths, w, g, i)]
  BY PlacesExist, Zenon
<1>2. wrapChips(widths, w) = IF n = 0 THEN 1 ELSE g[n].rows
  BY DEF wrapChips, PlaceBody
<1> HIDE DEF g
<1>3. \A i \in 0..n : g[i] = PlaceBody(widths, w, g, i)
  BY <1>1
<1>0. n \in Nat
  OBVIOUS
<1> HIDE DEF n
<1> DEFINE G == {i \in Nat : i \in 0..n => g[i].rows \in Nat}
<1>4. 0 \in G
  BY <1>0, <1>3 DEF PlaceBody
<1>5. ASSUME NEW i \in Nat, i \in G PROVE i + 1 \in G
  <2> SUFFICES ASSUME i + 1 \in 0..n PROVE g[i + 1].rows \in Nat
    OBVIOUS
  <2>1. i \in 0..n /\ i + 1 # 0 /\ (i + 1) - 1 = i
    BY <1>0
  <2>2. g[i].rows \in Nat
    BY <1>5, <2>1
  <2>3. g[i + 1] = Placed(g[i], widths[i + 1], w)
    <3>1. g[i + 1] = PlaceBody(widths, w, g, i + 1)
      BY <1>3
    <3> QED BY <2>1, <3>1 DEF PlaceBody
  <2>4. Placed(g[i], widths[i + 1], w).rows \in Nat
    BY <2>2 DEF Placed
  <2> QED BY <2>3, <2>4
<1> HIDE DEF G
<1>6. n \in G
  BY <1>0, <1>4, <1>5, InductionOnNat
<1> QED BY <1>0, <1>2, <1>6 DEF G

TooTall(lay, lo, hi, progress) ==
    \E k \in lo..hi :
        \E l \in Wider(lay), procs \in TopProcesses(After(k)) :
            Lines(After(k), l, procs, progress) > Budget

LEMMA SameAfter ==
    ASSUME stream' = stream
    PROVE  /\ RuleNames' = RuleNames
           /\ \A k : After(k)' = After(k)
           /\ \A i : Rank(i)' = Rank(i)
<1>1. RuleNames' = RuleNames
  BY DEF RuleNames
<1>2. \A k : FirstAlerts(k)' = FirstAlerts(k)
  BY DEF FirstAlerts, AlertsUpTo
<1>3. \A k : AlertNumber(k)' = AlertNumber(k)
  BY DEF AlertNumber, AlertsUpTo
<1>4. \A k : After(k)' = After(k)
  BY <1>1, <1>2, <1>3 DEF After
<1> QED BY <1>1, <1>4 DEF Rank, AlertsUpTo

\* What a frame shows depends on nothing that moves but the dashboard.
LEMMA SameView ==
    ASSUME stream' = stream, term' = term
    PROVE  /\ RuleNames' = RuleNames /\ Budget' = Budget
           /\ \A k : After(k)' = After(k)
           /\ \A d : RuleRows(d)' = RuleRows(d)
           /\ \A d, rows : Feed(d, rows)' = Feed(d, rows)
           /\ \A d, l, procs, progress : Lines(d, l, procs, progress)' = Lines(d, l, procs, progress)
<1>1. RuleNames' = RuleNames /\ \A k : After(k)' = After(k)
  BY SameAfter
<1>2. LaidOutWidth' = LaidOutWidth /\ Budget' = Budget
  BY DEF LaidOutWidth, Budget
<1>3. \A d : RuleRows(d)' = RuleRows(d)
  BY <1>1 DEF RuleRows
<1>4. \A d, rows : Feed(d, rows)' = Feed(d, rows)
  BY DEF Feed, FedWith
<1>5. \A d, l, procs, progress : Lines(d, l, procs, progress)' = Lines(d, l, procs, progress)
  <2> TAKE d, l, procs, progress
  <2>1. RuleRows(d)' = RuleRows(d) /\ Feed(d, l.recentRows)' = Feed(d, l.recentRows)
    BY <1>3, <1>4
  <2>2. stream[d.lastChain]' = stream[d.lastChain]
    OBVIOUS
  <2> QED BY <1>2, <2>1, <2>2, ZenonT(40) DEF Lines
<1> QED BY <1>1, <1>2, <1>3, <1>4, <1>5

LEMMA SameTooTall ==
    ASSUME stream' = stream, term' = term
    PROVE  \A lay, lo, hi, p : TooTall(lay, lo, hi, p)' <=> TooTall(lay, lo, hi, p)
<1>1. /\ Budget' = Budget /\ \A k : After(k)' = After(k)
      /\ \A d, l, procs, progress : Lines(d, l, procs, progress)' = Lines(d, l, procs, progress)
  BY SameView
<1> QED BY <1>1 DEF TooTall

-----------------------------------------------------------------------------
(* The lines of a frame. *)

LEMMA RuleRowsFinite ==
    ASSUME StreamOK, NEW d
    PROVE  /\ IsFiniteSet(RuleRows(d)) /\ Cardinality(RuleRows(d)) \in Nat
           /\ IsFiniteSet(Rules \cup RuleNames) /\ RuleRows(d) \subseteq Rules \cup RuleNames
<1> DEFINE f == [i \in 1..Len(stream) |-> stream[i].rule]
<1>1. IsFiniteSet(1..Len(stream))
  BY FS_Interval DEF StreamOK
<1>2. f \in Surjection(1..Len(stream), {stream[i].rule : i \in 1..Len(stream)})
  BY DEF Surjection
<1>3. IsFiniteSet({stream[i].rule : i \in 1..Len(stream)})
  <2> HIDE DEF f
  <2> QED BY <1>1, <1>2, FS_Surjection
<1>4. RuleNames \subseteq {stream[i].rule : i \in 1..Len(stream)}
  BY DEF RuleNames
<1>5. IsFiniteSet(RuleNames)
  BY <1>3, <1>4, FS_Subset
<1>6. IsFiniteSet(Rules \cup RuleNames)
  BY <1>5, FS_Union, DashboardAssumption
<1>7. RuleRows(d) \subseteq Rules \cup RuleNames
  BY DEF RuleRows
<1>8. IsFiniteSet(RuleRows(d))
  BY <1>6, <1>7, FS_Subset
<1> QED BY <1>6, <1>7, <1>8, FS_CardinalityType

Layouts ==
    [recentRows : minRecentRows..maxRecentRows, storyRows : minStoryRows..maxStoryRows,
     showProcesses : BOOLEAN, showTactics : BOOLEAN]

\* A dashboard whose frame has a number of lines.
Drawable(d) ==
    /\ Len(d.recent) \in Nat
    /\ d.lastChain # 0 => d.lastChain \in 1..Len(stream) /\ stream[d.lastChain] # Quiet

\* The panels and the heading take room of their own, whether the frame shows
\* progress or not; with nothing left to give up, they take the least.
LEMMA LinesAre ==
    ASSUME StreamOK, NEW d, Drawable(d), NEW lay \in Layouts, NEW procs, Len(procs) \in Nat
    PROVE  /\ Lines(d, lay, procs, FALSE) \in Int
           /\ Lines(d, lay, procs, TRUE) = Lines(d, lay, procs, FALSE) + 1
           /\ ~lay.showTactics /\ ~lay.showProcesses =>
                 Lines(d, lay, procs, FALSE)
                   <= 12 + Max({4, Cardinality(RuleRows(d))}) + lay.storyRows + lay.recentRows
<1> DEFINE w == LaidOutWidth
           rl == Max({4, Cardinality(RuleRows(d))})
           tactics == IF lay.showTactics THEN 1 + wrapChips(TacticChips(d), w - 4) ELSE 0
           between == IF lay.showTactics /\ lay.showProcesses THEN 1 ELSE 0
           processes == IF lay.showProcesses /\ procs # <<>>
                        THEN 1 + wrapChips(ProcChips(d, procs), w - 4) ELSE 0
           after == IF lay.showTactics \/ lay.showProcesses THEN 1 ELSE 0
           steps == stream[d.lastChain].steps
           story == IF d.lastChain = 0 THEN 2
                    ELSE 2 + StepsShown(steps, lay.storyRows)
                           + (IF steps > lay.storyRows THEN 1 ELSE 0)
           recent == 1 + (IF d.recent = <<>> THEN 1 ELSE Len(Feed(d, lay.recentRows)))
<1>1. /\ Lines(d, lay, procs, FALSE) =
           3 + 1 + (1 + rl) + 1 + tactics + between + processes + after + story + 1 + recent + 1 + 1
      /\ Lines(d, lay, procs, TRUE) =
           4 + 1 + (1 + rl) + 1 + tactics + between + processes + after + story + 1 + recent + 1 + 1
  BY Zenon DEF Lines
<1>2. /\ lay.recentRows \in Nat /\ lay.recentRows >= 1 /\ lay.storyRows \in Nat
      /\ lay.showTactics \in BOOLEAN /\ lay.showProcesses \in BOOLEAN
  BY DashboardAssumption DEF Layouts
<1>3. rl \in Int
  <2> DEFINE c == Cardinality(RuleRows(d))
  <2>1. c \in Int /\ 4 \in Int
    BY RuleRowsFinite
  <2> HIDE DEF c
  <2>2. Max({4, c}) \in {4, c}
    BY <2>1, MaxOfTwo
  <2>3. Max({4, c}) \in Int
    BY <2>1, <2>2
  <2> QED BY <2>3 DEF c
<1>4. tactics \in Int /\ (~lay.showTactics => tactics = 0)
  <2>1. Len(TacticChips(d)) = 5
    BY DEF TacticChips
  <2>2. wrapChips(TacticChips(d), w - 4) \in Nat
    BY <2>1, WrapType
  <2> QED BY <1>2, <2>2
<1>5. processes \in Int /\ (~lay.showProcesses => processes = 0)
  <2>1. Len(ProcChips(d, procs)) = Len(procs)
    BY DEF ProcChips
  <2>2. wrapChips(ProcChips(d, procs), w - 4) \in Nat
    BY <2>1, WrapType
  <2> QED BY <1>2, <2>2
<1>6. /\ between \in Int /\ after \in Int
      /\ ~lay.showTactics /\ ~lay.showProcesses => between = 0 /\ after = 0
  BY <1>2
<1>7. story \in Int /\ story <= 2 + lay.storyRows
  <2>1. CASE d.lastChain = 0
    BY <1>2, <2>1
  <2>2. CASE d.lastChain # 0
    <3>1. steps \in Nat
      BY <2>2 DEF StreamOK, Drawable
    <3> HIDE DEF steps
    <3>2. /\ StepsShown(steps, lay.storyRows) + (IF steps > lay.storyRows THEN 1 ELSE 0) <= lay.storyRows
          /\ StepsShown(steps, lay.storyRows) \in Int
      BY <1>2, <3>1 DEF StepsShown
    <3> QED BY <1>2, <2>2, <3>2
  <2> QED BY <2>1, <2>2
<1>8. recent \in Int /\ recent <= 1 + lay.recentRows
  <2>1. FedOK(Feed(d, lay.recentRows), d.recent, Len(d.recent), lay.recentRows)
    BY <1>2, FeedIs DEF Drawable
  <2> DEFINE f == Feed(d, lay.recentRows)
  <2>2. Len(f) \in Nat /\ Len(f) <= lay.recentRows
    <3> HIDE DEF f
    <3>1. FedOK(f, d.recent, Len(d.recent), lay.recentRows)
      BY <2>1 DEF f
    <3> QED BY <3>1 DEF FedOK
  <2> HIDE DEF f
  <2>3. recent = 1 + (IF d.recent = <<>> THEN 1 ELSE Len(f))
    BY DEF f
  <2> QED BY <1>2, <2>2, <2>3
<1> DEFINE sr == lay.storyRows
           rr == lay.recentRows
           a == Lines(d, lay, procs, FALSE)
           b == Lines(d, lay, procs, TRUE)
<1>9. sr \in Nat /\ rr \in Nat /\ story <= 2 + sr /\ recent <= 1 + rr
  BY <1>2, <1>7, <1>8
<1>10. /\ a = 3 + 1 + (1 + rl) + 1 + tactics + between + processes + after + story + 1 + recent + 1 + 1
       /\ b = 4 + 1 + (1 + rl) + 1 + tactics + between + processes + after + story + 1 + recent + 1 + 1
  BY <1>1
<1> HIDE DEF rl, tactics, between, processes, after, story, recent, sr, rr, a, b
<1>11. a \in Int /\ b = a + 1
  BY <1>3, <1>4, <1>5, <1>6, <1>7, <1>8, <1>10
<1>12. ASSUME ~lay.showTactics, ~lay.showProcesses PROVE a <= 12 + rl + sr + rr
  <2>1. tactics = 0 /\ between = 0 /\ processes = 0 /\ after = 0
    BY <1>4, <1>5, <1>6, <1>12
  <2> QED BY <1>3, <1>7, <1>8, <1>9, <1>10, <2>1
<1> QED BY <1>11, <1>12 DEF a, b, rl, sr, rr

\* The processes of a frame are listed.
LEMMA ProcessesListed ==
    ASSUME NEW d, NEW procs \in TopProcesses(d)
    PROVE  Len(procs) \in Nat
<1> DEFINE seen == {p \in Procs : d.byProcess[p] > 0}
           n == IF Cardinality(seen) > maxProcRows THEN maxProcRows ELSE Cardinality(seen)
<1>1. IsFiniteSet(seen)
  BY FS_Subset, DashboardAssumption
<1>2. Cardinality(seen) \in Nat /\ maxProcRows \in Nat
  BY <1>1, FS_CardinalityType, DashboardAssumption
<1>3. PICK s \in SetToSeqs(seen) : procs = SubSeq(s, 1, n)
  BY DEF TopProcesses
<1> DEFINE c == Cardinality(seen)
<1>4. s \in [1..c -> seen]
  BY DEF SetToSeqs
<1>5. n \in Nat /\ n <= c
  BY <1>2
<1>6. c \in Nat
  BY <1>2
<1> HIDE DEF seen, n, c
<1>7. s \in Seq(seen) /\ Len(s) = c
  BY <1>4, <1>6
<1>8. SubSeq(s, 1, n) \in Seq(seen)
  BY <1>5, <1>6, <1>7
<1> QED BY <1>3, <1>8

\* Every row fits the width the panels are laid out for.
LEMMA RowsAlwaysFit ==
    ASSUME term.w \in Nat
    PROVE  RowsFit
<1> DEFINE w == LaidOutWidth
           c == alertColumns(w)
           avail(rule, proc, mitre) ==
               w - rowOverhead - rule - proc - (IF mitre > 0 THEN mitre + 1 ELSE 0)
           mitre == IF avail(21, 18, 10) < minDescCols THEN 0 ELSE 10
           R == {minNameCols} \cup {r \in minNameCols..21 : avail(r, 18, mitre) >= minDescCols}
           rule == Max(R)
           P == {minNameCols} \cup {p \in minNameCols..18 : avail(rule, p, mitre) >= minDescCols}
           proc == Max(P)
           more == IF mitre > 0 THEN mitre + 1 ELSE 0
           left == avail(rule, proc, mitre)
<1>1. w \in Nat /\ w >= 76
  BY DEF LaidOutWidth
<1>2. c.rule = rule /\ c.proc = proc /\ c.mitre = mitre /\ c.desc = Max({0, left})
  BY DEF alertColumns
<1> HIDE DEF w, c
<1>3. mitre \in {0, 10} /\ (mitre = 10 => w - 79 >= 12)
  BY <1>1 DEF rowOverhead, minDescCols
<1>4. more \in {0, 11} /\ (more = 11 => w - 79 >= 12)
  BY <1>3
<1>5. minNameCols = 10 /\ minDescCols = 12 /\ rowOverhead = 29
  BY DEF minNameCols, minDescCols, rowOverhead
<1>6. \A r, p : avail(r, p, mitre) = w - 29 - r - p - more
  BY <1>5
<1> HIDE DEF mitre, more, avail
<1>7. rule \in 10..21 /\ w - 29 - rule - 18 - more >= 12
  <2>1. R \in SUBSET (0..21) /\ R # {}
    BY <1>5
  <2> HIDE DEF R
  <2>2. rule \in R
    BY <2>1, MaxBounded
  <2>3. rule = 10 \/ (rule \in 10..21 /\ avail(rule, 18, mitre) >= 12)
    BY <1>5, <2>2 DEF R
  <2> HIDE DEF rule
  <2>4. CASE rule = 10
    <3>1. w - 57 - more >= 12
      BY <1>1, <1>4
    <3> QED BY <1>1, <1>4, <2>4, <3>1
  <2>5. CASE rule \in 10..21 /\ avail(rule, 18, mitre) >= 12
    BY <1>6, <2>5
  <2> QED BY <2>3, <2>4, <2>5
<1> HIDE DEF R, rule
<1>8. proc \in 10..18 /\ left >= 12 /\ left = w - 29 - rule - proc - more
  <2>1. P \in SUBSET (0..18) /\ P # {}
    BY <1>5
  <2> HIDE DEF P
  <2>2. proc \in P
    BY <2>1, MaxBounded
  <2>3. proc = 10 \/ (proc \in 10..18 /\ avail(rule, proc, mitre) >= 12)
    BY <1>5, <2>2 DEF P
  <2> HIDE DEF proc
  <2>4. avail(rule, proc, mitre) = w - 29 - rule - proc - more
    BY <1>6
  <2> QED BY <1>1, <1>4, <1>7, <2>3, <2>4
<1> HIDE DEF P, proc, left
<1>9. left \in Int
  BY <1>1, <1>4, <1>7, <1>8
<1>10. Max({0, left}) = left
  <2>1. {0, left} \in SUBSET Int /\ left \in {0, left} /\ \A x \in {0, left} : x <= left
    BY <1>8, <1>9
  <2> QED BY <2>1, MaxIs
<1>11. (IF c.mitre > 0 THEN c.mitre + 1 ELSE 0) = more
  BY <1>2 DEF more
<1>12. 3 + 12 + 1 + 10 + 1 + rule + 1 + proc + 1 + more + left <= w
  BY <1>1, <1>4, <1>7, <1>8, <1>9
<1>13. Max({10, w - 66}) = w - 66
  <2> DEFINE x == w - 66
  <2>1. x \in Int /\ x >= 10
    BY <1>1
  <2> HIDE DEF x
  <2>2. {10, x} \in SUBSET Int /\ x \in {10, x} /\ \A y \in {10, x} : y <= x
    BY <2>1
  <2>3. Max({10, x}) = x
    BY <2>2, MaxIs
  <2> QED BY <2>3 DEF x
<1>14. 3 + 2 + 1 + 9 + 1 + 16 + 1 + 30 + 1 + (w - 66) <= w
  BY <1>1
<1>15. /\ 3 + 12 + 1 + 10 + 1 + c.rule + 1 + c.proc + 1
            + (IF c.mitre > 0 THEN c.mitre + 1 ELSE 0) + c.desc <= w
       /\ 3 + 2 + 1 + 9 + 1 + 16 + 1 + 30 + 1 + Max({10, w - 66}) <= w
  BY <1>2, <1>10, <1>11, <1>12, <1>13, <1>14
<1> QED BY <1>15 DEF RowsFit, w, c

-----------------------------------------------------------------------------
(* Layouts, and what was given up for them. *)

\* A layout reached from FullLayout: the feed first, then the story, then the
\* processes, then the tactics.
LayOK(lay) ==
    /\ lay \in Layouts
    /\ lay.storyRows < maxStoryRows => lay.recentRows = minRecentRows
    /\ ~lay.showProcesses => lay.storyRows = minStoryRows /\ lay.recentRows = minRecentRows
    /\ ~lay.showTactics => ~lay.showProcesses

LEMMA FullIsOK ==
    LayOK(FullLayout)
<1>1. FullLayout \in Layouts
  BY DashboardAssumption DEF FullLayout, Layouts
<1> QED BY <1>1, DashboardAssumption DEF LayOK, FullLayout

\* Giving one thing up leaves a layout reached in that order, and the layout
\* it was given up from is the wider one.
LEMMA ShedIsOK ==
    ASSUME NEW lay, LayOK(lay), ~NothingLeft(lay)
    PROVE  LayOK(Shed(lay)) /\ lay \in Wider(Shed(lay))
<1> DEFINE rr == lay.recentRows
           sr == lay.storyRows
           sp == lay.showProcesses
           st == lay.showTactics
           new == Shed(lay)
<1>1. /\ lay = [recentRows |-> rr, storyRows |-> sr, showProcesses |-> sp, showTactics |-> st]
      /\ rr \in minRecentRows..maxRecentRows /\ sr \in minStoryRows..maxStoryRows
      /\ sp \in BOOLEAN /\ st \in BOOLEAN
  BY DEF LayOK, Layouts
<1>2. /\ (sr < maxStoryRows => rr = minRecentRows) /\ st = TRUE
      /\ (~sp => sr = minStoryRows /\ rr = minRecentRows)
  BY <1>1 DEF LayOK, NothingLeft
<1>3. /\ minRecentRows \in Nat /\ maxRecentRows \in Nat /\ minStoryRows \in Nat /\ maxStoryRows \in Nat
      /\ rr \in Nat /\ sr \in Nat
  BY <1>1, DashboardAssumption
<1>4. lay \in Wider(new) <=>
         /\ rr \in {new.recentRows, new.recentRows + 1} /\ sr \in {new.storyRows, new.storyRows + 1}
         /\ lay # new
  BY <1>1, <1>3 DEF Wider
<1>5. CASE rr > minRecentRows
  <2>1. new = [recentRows |-> rr - 1, storyRows |-> sr, showProcesses |-> sp, showTactics |-> st]
    BY <1>1, <1>5 DEF Shed
  <2>2. new.recentRows = rr - 1 /\ new.storyRows = sr /\ new.showProcesses = sp /\ new.showTactics = st
    BY <2>1
  <2>3. LayOK(new)
    BY <1>1, <1>2, <1>3, <1>5, <2>1, <2>2 DEF LayOK, Layouts
  <2>4. lay # new /\ rr = new.recentRows + 1
    BY <1>3, <2>2
  <2> HIDE DEF new
  <2> QED BY <1>4, <2>2, <2>3, <2>4 DEF new
<1>6. CASE rr = minRecentRows /\ sr > minStoryRows
  <2>1. new = [recentRows |-> rr, storyRows |-> sr - 1, showProcesses |-> sp, showTactics |-> st]
    BY <1>1, <1>3, <1>6 DEF Shed
  <2>2. new.recentRows = rr /\ new.storyRows = sr - 1 /\ new.showProcesses = sp /\ new.showTactics = st
    BY <2>1
  <2>3. LayOK(new)
    BY <1>1, <1>2, <1>3, <1>6, <2>1, <2>2 DEF LayOK, Layouts
  <2>4. lay # new /\ sr = new.storyRows + 1
    BY <1>3, <2>2
  <2> HIDE DEF new
  <2> QED BY <1>4, <2>2, <2>3, <2>4 DEF new
<1>7. CASE rr = minRecentRows /\ sr = minStoryRows /\ sp
  <2>1. new = [lay EXCEPT !.showProcesses = FALSE]
    <3>1. ~(rr > minRecentRows) /\ ~(sr > minStoryRows)
      BY <1>3, <1>7
    <3> QED BY <1>7, <3>1, Zenon DEF Shed
  <2>2. /\ new.recentRows = rr /\ new.storyRows = sr /\ ~new.showProcesses /\ new.showTactics = st
        /\ new \in Layouts
    <3>1. lay \in Layouts
      BY DEF LayOK
    <3> HIDE DEF new
    <3> QED BY <2>1, <3>1 DEF Layouts
  <2>3. LayOK(new)
    <3> HIDE DEF new
    <3> QED BY <1>2, <1>3, <1>7, <2>2 DEF LayOK
  <2>4. lay # new
    BY <1>7, <2>2
  <2> HIDE DEF new
  <2> QED BY <1>4, <2>2, <2>3, <2>4 DEF new
<1>8. CASE rr = minRecentRows /\ sr = minStoryRows /\ ~sp
  <2>1. new = [lay EXCEPT !.showTactics = FALSE]
    <3>1. ~(rr > minRecentRows) /\ ~(sr > minStoryRows)
      BY <1>3, <1>8
    <3> QED BY <1>8, <3>1, Zenon DEF Shed
  <2>2. /\ new.recentRows = rr /\ new.storyRows = sr /\ new.showProcesses = sp /\ ~new.showTactics
        /\ new \in Layouts
    <3>1. lay \in Layouts
      BY DEF LayOK
    <3> HIDE DEF new
    <3> QED BY <2>1, <3>1 DEF Layouts
  <2>3. LayOK(new)
    <3> HIDE DEF new
    <3> QED BY <1>2, <1>3, <1>8, <2>2 DEF LayOK
  <2>4. lay # new
    BY <1>2, <2>2
  <2> HIDE DEF new
  <2> QED BY <1>4, <2>2, <2>3, <2>4 DEF new
<1> QED BY <1>1, <1>3, <1>5, <1>6, <1>7, <1>8

LEMMA WiderIsLayout ==
    ASSUME NEW lay \in Layouts, NEW l \in Wider(lay)
    PROVE  l \in Layouts
<1>1. /\ l \in [recentRows : {lay.recentRows, lay.recentRows + 1},
                storyRows : {lay.storyRows, lay.storyRows + 1},
                showProcesses : BOOLEAN, showTactics : BOOLEAN]
      /\ l.recentRows <= maxRecentRows /\ l.storyRows <= maxStoryRows
  BY DEF Wider
<1>2. /\ lay.recentRows \in minRecentRows..maxRecentRows /\ lay.storyRows \in minStoryRows..maxStoryRows
      /\ minRecentRows \in Nat /\ maxRecentRows \in Nat /\ minStoryRows \in Nat /\ maxStoryRows \in Nat
  BY DashboardAssumption DEF Layouts
<1>3. l.recentRows \in minRecentRows..maxRecentRows /\ l.storyRows \in minStoryRows..maxStoryRows
  BY <1>1, <1>2
<1> QED BY <1>1, <1>3 DEF Layouts

LEMMA AfterDrawable ==
    ASSUME StreamOK, NEW k \in Nat
    PROVE  /\ Drawable(After(k)) /\ After(k).total = k /\ After(k).recent = Latest(k)
           /\ Len(Latest(k)) = Kept(k) /\ Kept(k) \in Nat /\ Kept(k) <= k
           /\ After(k).lastChain = LastChain(k)
           /\ LastChain(k) \in {0} \cup {i \in FirstAlerts(k) : stream[i].steps > 0}
           /\ FirstAlerts(k) \subseteq 1..Len(stream)
<1> DEFINE S == {0} \cup {i \in FirstAlerts(k) : stream[i].steps > 0}
<1>1. After(k).total = k /\ After(k).recent = Latest(k) /\ After(k).lastChain = LastChain(k)
  BY AfterIs
<1>2. Kept(k) \in Nat /\ Kept(k) <= k
  BY DashboardAssumption DEF Kept
<1>3. Len(Latest(k)) = Kept(k)
  BY <1>2 DEF Latest
<1>4. FirstAlerts(k) \subseteq 1..Len(stream) /\ \A i \in FirstAlerts(k) : stream[i] # Quiet
  BY DEF FirstAlerts
<1>5. S \in SUBSET (0..Len(stream)) /\ S # {} /\ Len(stream) \in Nat
  BY <1>4 DEF StreamOK
<1>6. LastChain(k) \in S
  <2> HIDE DEF S
  <2>1. Max(S) \in S
    BY <1>5, MaxBounded
  <2> QED BY <2>1 DEF S, LastChain
<1> QED BY <1>1, <1>2, <1>3, <1>4, <1>6 DEF Drawable

\* A frame that was too tall is too tall when more alerts have come, or with
\* the line that shows progress.
LEMMA StillTall ==
    ASSUME StreamOK, term.h \in Nat, NEW lay \in Layouts, NEW lo \in Nat, NEW hi \in Nat, NEW more \in Nat,
           hi <= more
    PROVE  /\ TooTall(lay, lo, hi, FALSE) => TooTall(lay, lo, more, FALSE)
           /\ TooTall(lay, lo, hi, TRUE) => TooTall(lay, lo, more, TRUE)
           /\ TooTall(lay, lo, hi, FALSE) => TooTall(lay, lo, more, TRUE)
<1>1. lo..hi \subseteq lo..more
  OBVIOUS
<1>2. ASSUME TooTall(lay, lo, hi, FALSE) PROVE TooTall(lay, lo, more, TRUE)
  <2>1. PICK k \in lo..hi : \E l \in Wider(lay), procs \in TopProcesses(After(k)) :
                               Lines(After(k), l, procs, FALSE) > Budget
    BY <1>2 DEF TooTall
  <2>2. PICK l \in Wider(lay), procs \in TopProcesses(After(k)) :
           Lines(After(k), l, procs, FALSE) > Budget
    BY <2>1
  <2>3. k \in Nat /\ k \in lo..more
    OBVIOUS
  <2>4. Drawable(After(k))
    BY <2>3, AfterDrawable
  <2>5. l \in Layouts
    BY WiderIsLayout
  <2>6. Len(procs) \in Nat
    BY ProcessesListed
  <2> DEFINE a == Lines(After(k), l, procs, FALSE)
             b == Lines(After(k), l, procs, TRUE)
  <2>7. a \in Int /\ b = a + 1
    BY <2>4, <2>5, <2>6, LinesAre
  <2>8. a > Budget /\ Budget \in Int
    <3>1. Budget \in Int
      BY DEF Budget
    <3> QED BY <2>2, <3>1
  <2> HIDE DEF a, b
  <2>9. b > Budget
    BY <2>7, <2>8
  <2> QED BY <2>3, <2>9 DEF b, TooTall
<1> QED BY <1>1, <1>2 DEF TooTall

-----------------------------------------------------------------------------
(* The invariant. *)

\* How many events of the stream have been dealt with by the dashboard: an
\* alert that main is about to write is not one of them.
Dealt == IF main = "alerting" THEN read - 1 ELSE read

Places ==
    /\ stream \in Streams /\ read \in 0..Len(stream) /\ replaying \in BOOLEAN
    /\ main \in {"next", "alerting", "refreshing", "closing", "closed"}
    /\ term \in [h : Heights, w : Widths]
    /\ main = "alerting" => read \in 1..Len(stream) /\ stream[read] # Quiet

\* The dashboard is what the alerts before this moment make of it.
Counts == dash = After(Rank(Dealt))

\* The metrics are those of the summary when the last refresh is behind.
Metrics ==
    /\ observed \in 0..read
    /\ snap.progress \in BOOLEAN /\ (snap.progress => replaying)
    /\ replaying /\ main = "next" => snap.observed = observed
    /\ main \in {"closing", "closed"} => snap.observed = observed

\* A frame in the making has shed only what was too tall at some moment.
Painting ==
    /\ paint \in [at : {"idle", "painter", "main"}, lay : Layouts, since : Nat]
    /\ paint.at = "main" => main = "closing"
    /\ paint.at # "idle" =>
          /\ frame = NoFrame /\ LayOK(paint.lay) /\ paint.since \in 0..dash.total
          /\ paint.lay # FullLayout =>
                TooTall(paint.lay, paint.since, dash.total, snap.progress)

\* What render makes of this moment with layout lay.
Picture(lay, since, procs) ==
    LET steps == IF dash.lastChain = 0 THEN 0 ELSE stream[dash.lastChain].steps
        rows == lay.storyRows
    IN  [total      |-> dash.total,
         bySeverity |-> dash.bySeverity,
         byRule     |-> [r \in RuleRows(dash) |-> IF r \in RuleNames THEN dash.byRule[r] ELSE 0],
         chain      |-> dash.lastChain,
         shown      |-> StepsShown(steps, rows),
         dropped    |-> StepsDropped(steps, rows),
         feed       |-> Feed(dash, lay.recentRows),
         observed   |-> snap.observed,
         lay        |-> lay,
         since      |-> since,
         progress   |-> snap.progress,
         lines      |-> Lines(dash, lay, procs, snap.progress)]

\* A frame that has been painted is a picture of this moment that fits, or
\* with nothing left to shed.
Painted ==
    /\ main = "closed" => frame # NoFrame /\ paint.at = "idle"
    /\ frame # NoFrame =>
          \E lay \in Layouts, since \in 0..dash.total, procs \in TopProcesses(dash) :
             /\ frame = Picture(lay, since, procs) /\ LayOK(lay)
             /\ frame.lines <= Budget \/ NothingLeft(lay)
             /\ lay # FullLayout => TooTall(lay, since, dash.total, snap.progress)

Inv == Places /\ Counts /\ Metrics /\ Painting /\ Painted

LEMMA SamePicture ==
    ASSUME stream' = stream, term' = term, dash' = dash, snap' = snap
    PROVE  /\ \A lay, since, procs : Picture(lay, since, procs)' = Picture(lay, since, procs)
           /\ TopProcesses(dash)' = TopProcesses(dash) /\ Budget' = Budget /\ Layouts' = Layouts
<1>1. ASSUME NEW lay, NEW since, NEW procs
      PROVE  Picture(lay, since, procs)' = Picture(lay, since, procs)
  <2>1. RuleNames' = RuleNames /\ stream[dash.lastChain]' = stream[dash.lastChain]
    BY SameView
  <2>2. RuleRows(dash)' = RuleRows(dash) /\ Feed(dash, lay.recentRows)' = Feed(dash, lay.recentRows)
    BY SameView
  <2>3. Lines(dash, lay, procs, snap.progress)' = Lines(dash, lay, procs, snap.progress)
    BY SameView
  <2> QED BY <2>1, <2>2, <2>3, Zenon DEF Picture
<1>2. TopProcesses(dash)' = TopProcesses(dash) /\ Budget' = Budget /\ Layouts' = Layouts
  BY DEF TopProcesses, Budget, Layouts
<1> QED BY <1>1, <1>2

LEMMA TypesOfInv ==
    ASSUME Places, Counts
    PROVE  /\ StreamOK /\ Dealt \in 0..Len(stream) /\ Len(stream) \in Nat
           /\ Rank(Dealt) \in Nat /\ dash.total = Rank(Dealt) /\ term.h \in Nat /\ term.w \in Nat
<1>1. StreamOK
  BY StreamsOK DEF Places
<1>2. Len(stream) \in Nat
  BY <1>1 DEF StreamOK
<1>3. Dealt \in 0..Len(stream)
  BY <1>2 DEF Places, Dealt
<1>4. Rank(Dealt) \in Nat
  BY <1>2, <1>3, RankType
<1>5. dash.total = Rank(Dealt)
  BY <1>1, <1>4, AfterDrawable DEF Counts
<1>6. term.h \in Nat /\ term.w \in Nat
  BY DashboardAssumption DEF Places
<1> QED BY <1>1, <1>2, <1>3, <1>4, <1>5, <1>6

\* What main does between two rounds of Render leaves the frame in the making
\* with what it has shed.
LEMMA KeepsPainting ==
    ASSUME Inv, stream' = stream, term' = term, paint' = paint, frame' = NoFrame, main # "closing",
           dash'.total \in Nat, dash.total <= dash'.total,
           snap'.progress \in BOOLEAN, snap.progress => snap'.progress
    PROVE  Painting'
<1>1. StreamOK /\ term.h \in Nat /\ dash.total \in Nat
  BY TypesOfInv DEF Inv
<1>2. snap.progress \in BOOLEAN
  BY DEF Inv, Metrics
<1>3. paint.at \in {"idle", "painter"}
  BY DEF Inv, Painting
<1>4. ASSUME paint.at # "idle"
      PROVE  /\ LayOK(paint.lay) /\ paint.since \in 0..dash'.total
             /\ paint.lay # FullLayout => TooTall(paint.lay, paint.since, dash'.total, snap'.progress)
  <2>1. /\ LayOK(paint.lay) /\ paint.since \in 0..dash.total
        /\ paint.lay # FullLayout => TooTall(paint.lay, paint.since, dash.total, snap.progress)
    BY <1>4 DEF Inv, Painting
  <2> DEFINE lay == paint.lay
             lo == paint.since
             hi == dash.total
             more == dash'.total
             p == snap.progress
             q == snap'.progress
  <2>2. lay \in Layouts /\ lo \in Nat /\ hi \in Nat /\ more \in Nat /\ hi <= more /\ lo \in 0..hi
    BY <1>1, <2>1 DEF LayOK
  <2>3. (p = FALSE /\ q = FALSE) \/ (p = TRUE /\ q = TRUE) \/ (p = FALSE /\ q = TRUE)
    BY <1>2
  <2>4. TooTall(lay, lo, hi, p) => TooTall(lay, lo, more, q)
    <3> HIDE DEF lay, lo, hi, more, p, q
    <3>1. /\ TooTall(lay, lo, hi, FALSE) => TooTall(lay, lo, more, FALSE)
          /\ TooTall(lay, lo, hi, TRUE) => TooTall(lay, lo, more, TRUE)
          /\ TooTall(lay, lo, hi, FALSE) => TooTall(lay, lo, more, TRUE)
      BY <1>1, <2>2, StillTall
    <3> QED BY <2>3, <3>1, Zenon
  <2>5. lo \in 0..more
    <3> HIDE DEF lo, hi, more
    <3> QED BY <2>2
  <2> QED BY <2>1, <2>4, <2>5
<1>5. ASSUME paint.at # "idle", paint.lay # FullLayout
      PROVE  TooTall(paint.lay, paint.since, dash.total, snap.progress)'
  <2>1. TooTall(paint.lay, paint.since, dash'.total, snap'.progress)
    BY <1>4, <1>5
  <2> QED BY <2>1, SameTooTall
<1>6. paint \in [at : {"idle", "painter", "main"}, lay : Layouts, since : Nat]
  BY DEF Inv, Painting
<1> QED BY <1>3, <1>4, <1>5, <1>6 DEF Painting, FullLayout, NoFrame, LayOK, Layouts

LEMMA InitInv ==
    Init => Inv
<1> SUFFICES ASSUME Init PROVE Inv
  OBVIOUS
<1>1. StreamOK
  BY StreamsOK DEF Init
<1>2. Places
  BY <1>1 DEF Init, Places, StreamOK
<1>3. Counts
  <2>1. Rank(Dealt) = 0
    BY RankZero DEF Init, Dealt
  <2> QED BY <1>1, <2>1, NothingYet DEF Init, Counts
<1>4. Metrics
  BY DEF Init, Metrics
<1>5. Painting /\ Painted
  BY FullIsOK DEF Init, Painting, Painted, NotPainting, LayOK
<1> QED BY <1>2, <1>3, <1>4, <1>5 DEF Inv

LEMMA StartsPaint ==
    ASSUME Inv, StartPaint \/ FinalPaint
    PROVE  Inv'
<1>1. /\ UNCHANGED <<stream, read, replaying, main, observed, snap, dash, term>> /\ frame' = NoFrame
      /\ \E at \in {"painter", "main"} :
            /\ paint' = [at |-> at, lay |-> FullLayout, since |-> dash.total]
            /\ at = "main" => main = "closing"
      /\ main # "closed"
  BY DEF StartPaint, FinalPaint, BeginPaint, mainVars
<1>2. Places'
  BY <1>1 DEF Inv, Places
<1>3. Counts'
  <2>1. Dealt' = Dealt /\ dash' = dash
    BY <1>1 DEF Dealt
  <2> QED BY <1>1, <2>1, SameAfter DEF Inv, Counts
<1>4. Metrics'
  BY <1>1 DEF Inv, Metrics
<1>5. Painting'
  <2>1. LayOK(paint'.lay)
    BY <1>1, FullIsOK
  <2>2. LayOK(paint.lay)'
    BY <2>1 DEF LayOK, Layouts
  <2>3. dash'.total \in Nat /\ paint'.since = dash'.total
    BY <1>1, TypesOfInv DEF Inv
  <2>4. paint'.lay = FullLayout /\ FullLayout' = FullLayout /\ NoFrame' = NoFrame
    BY <1>1 DEF FullLayout, NoFrame
  <2>5. paint'.since \in 0..dash'.total
    BY <2>3
  <2>6. (paint \in [at : {"idle", "painter", "main"}, lay : Layouts, since : Nat])'
    BY <1>1, <2>3, FullIsOK DEF LayOK, Layouts
  <2> QED BY <1>1, <2>2, <2>4, <2>5, <2>6 DEF Painting
<1>6. Painted'
  BY <1>1 DEF Painted, NoFrame
<1> QED BY <1>2, <1>3, <1>4, <1>5, <1>6 DEF Inv

LEMMA RendersAgain ==
    ASSUME Inv, RenderAgain
    PROVE  Inv'
<1>1. /\ UNCHANGED <<stream, read, replaying, main, observed, snap, dash, term, frame>>
      /\ paint.at # "idle" /\ ~NothingLeft(paint.lay)
      /\ paint' = [paint EXCEPT !.lay = Shed(@)]
  BY DEF RenderAgain, mainVars
<1>2. PICK procs \in TopProcesses(dash) : Lines(dash, paint.lay, procs, snap.progress) > Budget
  BY DEF RenderAgain
<1>3. /\ frame = NoFrame /\ LayOK(paint.lay) /\ paint.since \in 0..dash.total
      /\ paint.at \in {"painter", "main"} /\ (paint.at = "main" => main = "closing")
  BY <1>1 DEF Inv, Painting
<1>4. Places'
  BY <1>1 DEF Inv, Places
<1>5. Counts'
  <2>1. Dealt' = Dealt /\ dash' = dash
    BY <1>1 DEF Dealt
  <2> QED BY <1>1, <2>1, SameAfter DEF Inv, Counts
<1>6. Metrics'
  BY <1>1 DEF Inv, Metrics
<1>7. Painting'
  <2> DEFINE new == Shed(paint.lay)
  <2>1. LayOK(new) /\ paint.lay \in Wider(new)
    BY <1>1, <1>3, ShedIsOK
  <2>2. paint'.at = paint.at /\ paint'.lay = new /\ paint'.since = paint.since
    BY <1>1 DEF Inv, Painting
  <2>3. TooTall(new, paint.since, dash.total, snap.progress)
    <3>1. dash.total \in Nat /\ dash.total = Rank(Dealt)
      BY TypesOfInv DEF Inv
    <3>2. dash = After(dash.total)
      BY <3>1 DEF Inv, Counts
    <3> DEFINE k == dash.total
    <3>3. k \in paint.since..k
      BY <1>3, <3>1
    <3>4. /\ procs \in TopProcesses(After(k)) /\ paint.lay \in Wider(new)
          /\ Lines(After(k), paint.lay, procs, snap.progress) > Budget
      BY <1>2, <2>1, <3>2
    <3> HIDE DEF new, k
    <3>5. TooTall(new, paint.since, k, snap.progress)
      BY <3>3, <3>4 DEF TooTall
    <3> QED BY <3>5 DEF k
  <2> HIDE DEF new
  <2>4. TooTall(paint.lay, paint.since, dash.total, snap.progress)'
    BY <1>1, <2>2, <2>3, SameTooTall
  <2>5. LayOK(paint.lay)'
    BY <2>1, <2>2 DEF LayOK, Layouts
  <2>6. frame' = NoFrame' /\ paint'.since \in 0..dash'.total
    BY <1>1, <1>3, <2>2 DEF NoFrame
  <2>7. (paint \in [at : {"idle", "painter", "main"}, lay : Layouts, since : Nat])'
    <3>1. paint \in [at : {"idle", "painter", "main"}, lay : Layouts, since : Nat] /\ new \in Layouts
      BY <2>1 DEF Inv, Painting, LayOK
    <3>2. paint' \in [at : {"idle", "painter", "main"}, lay : Layouts, since : Nat]
      BY <1>1, <2>2, <3>1
    <3> QED BY <3>2 DEF Layouts
  <2> QED BY <1>1, <1>3, <2>2, <2>4, <2>5, <2>6, <2>7 DEF Painting
<1>8. Painted'
  <2>1. main # "closed"
    BY <1>3 DEF Inv, Painted
  <2> QED BY <1>1, <1>3, <2>1 DEF Painted, NoFrame
<1> QED BY <1>4, <1>5, <1>6, <1>7, <1>8 DEF Inv

\* The round that fits, or has nothing left to shed, is what is painted.
LEMMA RendersLast ==
    ASSUME Inv, RenderReturns
    PROVE  Inv'
<1>1. /\ UNCHANGED <<stream, read, replaying, observed, snap, dash, term>>
      /\ paint.at # "idle" /\ paint' = NotPainting
      /\ main' = IF paint.at = "main" THEN "closed" ELSE main
  BY DEF RenderReturns
<1>2. PICK procs \in TopProcesses(dash) :
         /\ Rendered(procs).lines <= Budget \/ NothingLeft(paint.lay)
         /\ frame' = Rendered(procs)
  BY DEF RenderReturns
<1>3. /\ LayOK(paint.lay) /\ paint.since \in 0..dash.total /\ paint.lay \in Layouts
      /\ paint.lay # FullLayout => TooTall(paint.lay, paint.since, dash.total, snap.progress)
      /\ paint.at \in {"painter", "main"} /\ (paint.at = "main" => main = "closing")
  BY <1>1 DEF Inv, Painting, LayOK
<1>4. main # "closed"
  BY <1>1 DEF Inv, Painted
<1>5. Places'
  BY <1>1, <1>3, <1>4 DEF Inv, Places
<1>6. Counts'
  <2>1. Dealt' = Dealt /\ dash' = dash
    BY <1>1, <1>3 DEF Dealt
  <2> QED BY <1>1, <2>1, SameAfter DEF Inv, Counts
<1>7. Metrics'
  BY <1>1, <1>3, <1>4 DEF Inv, Metrics
<1>8. Painting'
  <2>1. NotPainting \in [at : {"idle", "painter", "main"}, lay : Layouts, since : Nat]
    BY FullIsOK DEF NotPainting, LayOK
  <2> QED BY <1>1, <2>1 DEF Painting, NotPainting, Layouts, FullLayout
<1>9. Rendered(procs) = Picture(paint.lay, paint.since, procs)
  BY DEF Rendered, Picture
<1>10. frame' # NoFrame
  <2>1. dash.total \in Nat
    BY TypesOfInv DEF Inv
  <2>2. frame'.total = dash.total
    BY <1>2 DEF Rendered
  <2> QED BY <2>1, <2>2 DEF NoFrame
<1>11. \A lay, since : Picture(lay, since, procs)' = Picture(lay, since, procs)
  BY <1>1, SamePicture
<1>12. TopProcesses(dash)' = TopProcesses(dash) /\ Budget' = Budget /\ Layouts' = Layouts
  BY <1>1, SamePicture
<1>13. Painted'
  <2>1. PICK lay \in Layouts, since \in 0..dash.total : lay = paint.lay /\ since = paint.since
    BY <1>3
  <2>2. frame' = Picture(lay, since, procs)'
    BY <1>2, <1>9, <1>11, <2>1
  <2>3. LayOK(lay)' /\ (NothingLeft(lay)' <=> NothingLeft(lay))
    BY <1>3, <2>1 DEF LayOK, Layouts, NothingLeft
  <2>4. (frame.lines <= Budget)' \/ NothingLeft(lay)'
    BY <1>2, <1>12, <2>1, <2>3
  <2>5. lay # FullLayout' => TooTall(lay, since, dash.total, snap.progress)'
    <3>1. lay # FullLayout' => TooTall(lay, since, dash.total, snap.progress)
      BY <1>3, <2>1 DEF FullLayout
    <3> QED BY <1>1, <3>1, SameTooTall
  <2>6. lay \in Layouts' /\ since \in (0..dash.total)' /\ procs \in TopProcesses(dash)'
    BY <1>1, <1>12
  <2>7. main' = "closed" => frame' # NoFrame' /\ paint'.at = "idle"
    BY <1>1, <1>10 DEF NoFrame, NotPainting
  <2> QED BY <2>2, <2>3, <2>4, <2>5, <2>6, <2>7 DEF Painted
<1> QED BY <1>5, <1>6, <1>7, <1>8, <1>13 DEF Inv

\* The event at hand is counted; when it raises an alert, that is not yet
\* written.
LEMMA TakesEvent ==
    ASSUME Inv, TakeEvent
    PROVE  Inv'
<1>1. /\ UNCHANGED <<stream, replaying, snap, dash, term, paint>> /\ frame' = NoFrame
      /\ main = "next" /\ read < Len(stream) /\ read' = read + 1 /\ observed' = observed + 1
      /\ main' = IF stream[read + 1] = Quiet THEN AfterEvent ELSE "alerting"
  BY DEF TakeEvent
<1>2. StreamOK /\ Len(stream) \in Nat /\ read \in Nat /\ replaying \in BOOLEAN
  BY TypesOfInv DEF Inv, Places
<1>3. Places'
  <2>1. read' \in 1..Len(stream) /\ read' \in 0..Len(stream)
    BY <1>1, <1>2
  <2>2. main' \in {"next", "alerting", "refreshing"} /\ (main' = "alerting" => stream[read'] # Quiet)
    BY <1>1 DEF AfterEvent
  <2> QED BY <1>1, <2>1, <2>2 DEF Inv, Places, Quiet
<1>4. Counts'
  <2>1. Dealt = read /\ dash = After(Rank(read))
    BY <1>1 DEF Inv, Counts, Dealt
  <2>2. Rank(Dealt') = Rank(read)
    <3>1. CASE stream[read + 1] = Quiet
      <4>1. Dealt' = read + 1
        BY <1>1, <3>1 DEF Dealt, AfterEvent
      <4>2. Rank(read + 1) = Rank(read)
        BY <1>2, <3>1, RankNext
      <4> QED BY <4>1, <4>2
    <3>2. CASE stream[read + 1] # Quiet
      <4>1. Dealt' = read
        BY <1>1, <1>2, <3>2 DEF Dealt
      <4> QED BY <4>1
    <3> QED BY <3>1, <3>2
  <2>3. Rank(Dealt)' = Rank(read)
    BY <1>1, <2>2, SameAfter
  <2> QED BY <1>1, <2>1, <2>3, SameAfter DEF Counts
<1>5. Metrics'
  BY <1>1, <1>2 DEF Inv, Metrics, AfterEvent
<1>6. Painting'
  <2>1. dash'.total \in Nat /\ dash.total <= dash'.total
    BY <1>1, TypesOfInv DEF Inv
  <2>2. snap'.progress \in BOOLEAN /\ (snap.progress => snap'.progress)
    BY <1>1 DEF Inv, Metrics
  <2> QED BY <1>1, <2>1, <2>2, KeepsPainting
<1>7. Painted'
  BY <1>1 DEF Painted, NoFrame, AfterEvent
<1> QED BY <1>3, <1>4, <1>5, <1>6, <1>7 DEF Inv

LEMMA WritesAlert ==
    ASSUME Inv, WriteAlert
    PROVE  Inv'
<1>1. /\ UNCHANGED <<stream, replaying, observed, snap, term, paint>> /\ frame' = NoFrame
      /\ main = "alerting" /\ dash' = Written(dash, read)
      /\ \/ read < Len(stream) /\ ~stream[read + 1].event /\ main' = main /\ read' = read + 1
         \/ main' = AfterEvent /\ read' = read
  BY DEF WriteAlert
<1>2. /\ StreamOK /\ Len(stream) \in Nat /\ read \in 1..Len(stream) /\ stream[read] # Quiet
      /\ replaying \in BOOLEAN
  BY <1>1, TypesOfInv DEF Inv, Places
<1>3. Places'
  <2>1. CASE read < Len(stream) /\ ~stream[read + 1].event /\ main' = main /\ read' = read + 1
    <3>1. stream[read + 1] # Quiet
      BY <2>1 DEF Quiet
    <3>2. read + 1 \in 1..Len(stream) /\ read + 1 \in 0..Len(stream)
      BY <1>2, <2>1
    <3> QED BY <1>1, <2>1, <3>1, <3>2 DEF Inv, Places, Quiet
  <2>2. CASE main' = AfterEvent /\ read' = read
    BY <1>1, <2>2 DEF Inv, Places, AfterEvent
  <2> QED BY <1>1, <2>1, <2>2
<1>4. Dealt = read - 1 /\ Dealt' = read /\ dash = After(Rank(read - 1))
  <2>1. Dealt = read - 1
    BY <1>1 DEF Dealt
  <2>2. Dealt' = read
    BY <1>1, <1>2 DEF Dealt, AfterEvent
  <2> QED BY <2>1, <2>2 DEF Inv, Counts
<1>5. dash' = After(Rank(read)) /\ Rank(read) = Rank(read - 1) + 1
  BY <1>1, <1>2, <1>4, WrittenIs
<1>6. Counts'
  <2>1. Rank(Dealt)' = Rank(read)
    BY <1>1, <1>4, SameAfter
  <2> QED BY <1>1, <1>5, <2>1, SameAfter DEF Counts
<1>7. Metrics'
  BY <1>1, <1>2 DEF Inv, Metrics, AfterEvent
<1>8. Painting'
  <2>1. dash'.total \in Nat /\ dash.total <= dash'.total
    <3> DEFINE a == Rank(read - 1)
               b == Rank(read)
    <3>1. a \in Nat /\ b \in Nat /\ b = a + 1
      <4>1. read - 1 \in Nat /\ read \in Nat
        BY <1>2
      <4> QED BY <1>5, <4>1, RankType
    <3> HIDE DEF a, b
    <3>2. After(a).total = a /\ After(b).total = b
      BY <3>1, <1>2, AfterDrawable
    <3>3. dash.total = a /\ dash'.total = b
      BY <1>4, <1>5, <3>2 DEF a, b
    <3> QED BY <3>1, <3>3
  <2>2. snap'.progress \in BOOLEAN /\ (snap.progress => snap'.progress)
    BY <1>1 DEF Inv, Metrics
  <2> QED BY <1>1, <2>1, <2>2, KeepsPainting
<1>9. Painted'
  BY <1>1 DEF Painted, NoFrame, AfterEvent
<1> QED BY <1>3, <1>6, <1>7, <1>8, <1>9 DEF Inv

LEMMA RefreshesOrFinishes ==
    ASSUME Inv, RefreshAfterEvent \/ RefreshOnTick \/ Finish
    PROVE  Inv'
<1>1. /\ UNCHANGED <<stream, read, replaying, observed, dash, term, paint>> /\ frame' = NoFrame
      /\ main \in {"next", "refreshing"} /\ main' \in {"next", "closing"}
      /\ \/ snap' = [observed |-> observed, progress |-> replaying]
         \/ main = "next" /\ replaying /\ snap' = snap
  BY DEF RefreshAfterEvent, RefreshOnTick, Finish, FinalSnap, refresh
<1>2. Places'
  BY <1>1 DEF Inv, Places
<1>3. Counts'
  <2>1. Dealt' = Dealt
    BY <1>1 DEF Dealt
  <2> QED BY <1>1, <2>1, SameAfter DEF Inv, Counts
<1>4. replaying \in BOOLEAN
  BY DEF Inv, Places
<1>5. snap'.observed = observed' /\ snap'.progress \in BOOLEAN
      /\ (snap'.progress => replaying) /\ (snap.progress => snap'.progress)
  BY <1>1, <1>4 DEF Inv, Metrics
<1>6. Metrics'
  BY <1>1, <1>5 DEF Inv, Metrics
<1>7. Painting'
  <2>1. dash'.total \in Nat /\ dash.total <= dash'.total
    BY <1>1, TypesOfInv DEF Inv
  <2> QED BY <1>1, <1>5, <2>1, KeepsPainting
<1>8. Painted'
  BY <1>1 DEF Painted, NoFrame
<1> QED BY <1>2, <1>3, <1>6, <1>7, <1>8 DEF Inv

\* A step that changes nothing.
LEMMA Stutters ==
    ASSUME Inv, UNCHANGED vars
    PROVE  Inv'
<1>1. UNCHANGED <<stream, read, replaying, main, observed, snap, dash, term, paint, frame>>
  BY DEF vars, mainVars
<1>2. Places' /\ Metrics'
  BY <1>1 DEF Inv, Places, Metrics
<1>3. Counts'
  <2>1. Dealt' = Dealt
    BY <1>1 DEF Dealt
  <2> QED BY <1>1, <2>1, SameAfter DEF Inv, Counts
<1>4. Painting'
  <2>1. \A lay, lo, hi, p : TooTall(lay, lo, hi, p)' <=> TooTall(lay, lo, hi, p)
    BY <1>1, SameTooTall
  <2> QED BY <1>1, <2>1 DEF Inv, Painting, FullLayout, NoFrame, LayOK, Layouts
<1>5. Painted'
  <2>1. /\ \A lay, since, procs : Picture(lay, since, procs)' = Picture(lay, since, procs)
        /\ TopProcesses(dash)' = TopProcesses(dash) /\ Budget' = Budget /\ Layouts' = Layouts
    BY <1>1, SamePicture
  <2>2. \A lay, lo, hi, p : TooTall(lay, lo, hi, p)' <=> TooTall(lay, lo, hi, p)
    BY <1>1, SameTooTall
  <2>3. \A lay : (LayOK(lay)' <=> LayOK(lay)) /\ (NothingLeft(lay)' <=> NothingLeft(lay))
    BY DEF LayOK, Layouts, NothingLeft
  <2> QED BY <1>1, <2>1, <2>2, <2>3 DEF Inv, Painted, FullLayout, NoFrame
<1> QED BY <1>2, <1>3, <1>4, <1>5 DEF Inv

\* The invariant holds of every reachable state, whatever main and the
\* painter do in between each other's steps.
THEOREM DashboardInvHolds ==
    Spec => []Inv
<1>1. Init => Inv
  BY InitInv
<1>2. Inv /\ [Next]_vars => Inv'
  <2> SUFFICES ASSUME Inv, [Next]_vars PROVE Inv'
    OBVIOUS
  <2>1. CASE StartPaint \/ FinalPaint
    BY <2>1, StartsPaint
  <2>2. CASE RenderAgain
    BY <2>2, RendersAgain
  <2>3. CASE RenderReturns
    BY <2>3, RendersLast
  <2>4. CASE TakeEvent
    BY <2>4, TakesEvent
  <2>5. CASE WriteAlert
    BY <2>5, WritesAlert
  <2>6. CASE RefreshAfterEvent \/ RefreshOnTick \/ Finish
    BY <2>6, RefreshesOrFinishes
  <2>7. CASE UNCHANGED vars
    BY <2>7, Stutters
  <2> QED BY <2>1, <2>2, <2>3, <2>4, <2>5, <2>6, <2>7 DEF Next, Render, Main
<1> QED BY <1>1, <1>2, PTL DEF Spec

-----------------------------------------------------------------------------
(* What the invariant says of a frame. *)

\* The dashboard's state has its types, and its history its bound.
THEOREM DashboardTypes ==
    Spec => []TypeOK
<1>1. Inv => TypeOK
  <2> SUFFICES ASSUME Inv PROVE TypeOK
    OBVIOUS
  <2> DEFINE w == Dealt
             k == Rank(w)
  <2>1. StreamOK /\ w \in Nat /\ w <= read /\ read \in Nat /\ k \in Nat /\ dash.total = k /\ dash = After(k)
    <3>1. /\ StreamOK /\ w \in 0..Len(stream) /\ Len(stream) \in Nat /\ k \in Nat /\ dash.total = k
          /\ dash = After(k)
      BY TypesOfInv DEF Inv, Counts
    <3> QED BY <3>1 DEF Inv, Places, Dealt
  <2> HIDE DEF w
  <2>2. k <= w
    <3>1. AlertsUpTo(w) \subseteq 1..w
      BY DEF AlertsUpTo
    <3>2. IsFiniteSet(1..w) /\ Cardinality(1..w) = IF 1 > w THEN 0 ELSE w - 1 + 1
      <4>1. 1 \in Int /\ w \in Int
        BY <2>1
      <4> QED BY <4>1, FS_Interval
    <3>3. Cardinality(1..w) = w
      BY <2>1, <3>2
    <3>4. Cardinality(AlertsUpTo(w)) <= Cardinality(1..w)
      BY <3>1, <3>2, FS_Subset
    <3> QED BY <3>3, <3>4 DEF Rank
  <2> HIDE DEF k
  <2>3. dash.total \in 0..read
    BY <2>1, <2>2
  <2>4. Len(dash.recent) <= recentCap
    <3>1. dash.recent = Latest(k) /\ Len(Latest(k)) = Kept(k)
      BY <2>1, AfterDrawable
    <3> QED BY <2>1, <3>1, DashboardAssumption DEF Kept
  <2>5. /\ paint.at \in {"idle", "painter", "main"}
        /\ paint.lay.recentRows \in minRecentRows..maxRecentRows
        /\ paint.lay.storyRows \in minStoryRows..maxStoryRows
    BY DEF Inv, Painting, Layouts
  <2> QED BY <2>3, <2>4, <2>5 DEF TypeOK, Inv, Places, Metrics
<1> QED BY <1>1, DashboardInvHolds, PTL

\* The frame that stays on the screen after Close shows as many events and as
\* many alerts as the summary below it.
THEOREM LastFrameIsCurrent ==
    Spec => []FinalFrameCurrent
<1>1. Inv => FinalFrameCurrent
  <2> SUFFICES ASSUME Inv, main = "closed"
               PROVE  frame.observed = observed /\ frame.total = Cardinality(AlertsUpTo(read))
    BY DEF FinalFrameCurrent
  <2>1. frame # NoFrame /\ snap.observed = observed
    BY DEF Inv, Painted, Metrics
  <2>2. PICK lay \in Layouts, since \in 0..dash.total, procs \in TopProcesses(dash) :
           frame = Picture(lay, since, procs)
    BY <2>1 DEF Inv, Painted
  <2>3. frame.observed = snap.observed /\ frame.total = dash.total
    BY <2>2 DEF Picture
  <2>4. dash.total = Rank(read)
    BY TypesOfInv DEF Inv, Dealt
  <2> QED BY <2>1, <2>3, <2>4 DEF Rank
<1> QED BY <1>1, DashboardInvHolds, PTL

\* The panels that are never given up fit the height the dashboard asks for,
\* with a row for each rule it is told of or hears of.
Roomy ==
    13 + Max({4, Cardinality(Rules \cup RuleNames)}) + minStoryRows + minRecentRows < MinUsableHeight

\* Rows are given up in the order of Render, and only what was too tall at
\* some moment since the frame was begun.
THEOREM ShedsOnlyForRoom ==
    Spec => []ShedsInOrderForRoom
<1>1. Inv => ShedsInOrderForRoom
  <2> SUFFICES ASSUME Inv, frame # NoFrame, frame.lay # FullLayout
               PROVE  /\ frame.lay.storyRows < maxStoryRows => frame.lay.recentRows = minRecentRows
                      /\ ~frame.lay.showProcesses => frame.lay.storyRows = minStoryRows
                      /\ ~frame.lay.showTactics => ~frame.lay.showProcesses
                      /\ TooTall(frame.lay, frame.since, frame.total, frame.progress)
    BY DEF ShedsInOrderForRoom, TooTall
  <2>1. PICK lay \in Layouts, since \in 0..dash.total, procs \in TopProcesses(dash) :
           /\ frame = Picture(lay, since, procs) /\ LayOK(lay)
           /\ lay # FullLayout => TooTall(lay, since, dash.total, snap.progress)
    BY DEF Inv, Painted
  <2>2. /\ frame.lay = lay /\ frame.since = since /\ frame.total = dash.total
        /\ frame.progress = snap.progress
    BY <2>1 DEF Picture
  <2>3. TooTall(frame.lay, frame.since, frame.total, frame.progress)
    BY <2>1, <2>2
  <2> QED BY <2>1, <2>2, <2>3 DEF LayOK
<1> QED BY <1>1, DashboardInvHolds, PTL

LEMMA FrameFits ==
    ASSUME Inv, Roomy
    PROVE  FitsTerminal
<1> SUFFICES ASSUME frame # NoFrame, term.h >= MinUsableHeight
             PROVE  frame.lines <= term.h - 1 /\ RowsFit
  BY DEF FitsTerminal
<1>1. StreamOK /\ term.h \in Nat /\ term.w \in Nat /\ Rank(Dealt) \in Nat
  BY TypesOfInv DEF Inv
<1>2. RowsFit
  BY <1>1, RowsAlwaysFit
<1>3. PICK lay \in Layouts, since \in 0..dash.total, procs \in TopProcesses(dash) :
         /\ frame = Picture(lay, since, procs) /\ LayOK(lay)
         /\ frame.lines <= Budget \/ NothingLeft(lay)
  BY DEF Inv, Painted
<1>4. frame.lines = Lines(dash, lay, procs, snap.progress)
  BY <1>3 DEF Picture
<1>5. CASE frame.lines <= Budget
  BY <1>2, <1>5 DEF Budget
<1>6. CASE NothingLeft(lay)
  <2>1. /\ ~lay.showTactics /\ ~lay.showProcesses
        /\ lay.storyRows = minStoryRows /\ lay.recentRows = minRecentRows
    BY <1>3, <1>6 DEF LayOK, NothingLeft
  <2>2. Drawable(dash) /\ Len(procs) \in Nat
    BY <1>1, AfterDrawable, ProcessesListed DEF Inv, Counts
  <2> DEFINE a == Lines(dash, lay, procs, FALSE)
             b == Lines(dash, lay, procs, TRUE)
             n == Cardinality(RuleRows(dash))
             N == Cardinality(Rules \cup RuleNames)
             m == Max({4, n})
             M == Max({4, N})
  <2>3. a \in Int /\ b = a + 1 /\ a <= 12 + m + minStoryRows + minRecentRows
    BY <1>1, <2>1, <2>2, LinesAre
  <2>4. n \in Nat /\ N \in Nat /\ n <= N
    <3>1. /\ IsFiniteSet(Rules \cup RuleNames) /\ RuleRows(dash) \subseteq Rules \cup RuleNames
          /\ n \in Nat
      BY <1>1, RuleRowsFinite
    <3> QED BY <3>1, FS_CardinalityType, FS_Subset
  <2>5. m \in Int /\ M \in Int /\ m <= M
    <3> HIDE DEF n, N
    <3>0. 4 \in Int /\ n \in Int /\ N \in Int
      BY <2>4
    <3>1. m \in {4, n} /\ M \in {4, N} /\ M >= 4 /\ M >= N
      BY <3>0, MaxOfTwo
    <3> HIDE DEF m, M
    <3> QED BY <2>4, <3>1
  <2>6. 13 + M + minStoryRows + minRecentRows < MinUsableHeight
    BY DEF Roomy
  <2>7. minStoryRows \in Int /\ minRecentRows \in Int /\ MinUsableHeight \in Int
    BY DashboardAssumption
  <2>8. frame.lines = a \/ frame.lines = b
    <3>1. snap.progress = TRUE \/ snap.progress = FALSE
      BY DEF Inv, Metrics
    <3> HIDE DEF a, b
    <3> QED BY <1>4, <3>1 DEF a, b
  <2> HIDE DEF a, b, m, M
  <2>9. frame.lines <= term.h - 1
    BY <1>1, <2>3, <2>5, <2>6, <2>7, <2>8
  <2> QED BY <1>2, <2>9
<1> QED BY <1>3, <1>5, <1>6

\* Where the panels that are never given up have room, every frame fits a
\* terminal of the height the dashboard asks for, its rows fit the width, and
\* nothing is given up that did not have to be.
THEOREM FramesFit ==
    Spec => [](Roomy => FitsByGivingUpLeast)
<1>1. Inv /\ ShedsInOrderForRoom => (Roomy => FitsByGivingUpLeast)
  BY FrameFits DEF FitsByGivingUpLeast
<1> QED BY <1>1, DashboardInvHolds, ShedsOnlyForRoom, PTL

\* The latest recentCap alerts are those that fewer than recentCap followed.
LEMMA LatestAre ==
    ASSUME StreamOK, NEW w \in 0..Len(stream)
    PROVE  LET k == Rank(w)
               r == Latest(k)
           IN  /\ {i \in AlertsUpTo(w) : Cardinality({j \in AlertsUpTo(w) : j >= i}) <= recentCap}
                    = {r[x] : x \in 1..Kept(k)}
               /\ \A x \in 1..Kept(k) : r[x] \in Nat /\ Rank(r[x]) = k - Kept(k) + x
<1> DEFINE k == Rank(w)
           m == Kept(k)
           r == Latest(k)
           A == AlertsUpTo(w)
           Onward(i) == {j \in A : j >= i}
<1>1. Len(stream) \in Nat /\ w \in Nat
  BY DEF StreamOK
<1>2. k \in Nat /\ IsFiniteSet(A) /\ Cardinality(A) = k
  BY <1>1, RankType DEF Rank
<1>3. m \in Nat /\ m <= k /\ recentCap \in Nat /\ (k > recentCap => m = recentCap) /\ (k <= recentCap => m = k)
  <2> HIDE DEF k
  <2> QED BY <1>2, DashboardAssumption DEF Kept
<1>4. ASSUME NEW x \in 1..m
      PROVE  r[x] = AlertNumber(k - m + x) /\ r[x] \in A /\ r[x] \in Nat /\ Rank(r[x]) = k - m + x
  <2>1. r[x] = AlertNumber(k - m + x)
    BY DEF Latest
  <2>2. k - m + x \in 1..k
    <3> HIDE DEF k, m
    <3> QED BY <1>2, <1>3
  <2> DEFINE y == k - m + x
  <2> HIDE DEF y
  <2>3. AlertNumber(y) \in A /\ AlertNumber(y) \in 1..w /\ Rank(AlertNumber(y)) = y
    BY <1>1, <2>2, NumberedAlert DEF y
  <2> QED BY <2>1, <2>3 DEF y
<1>5. ASSUME NEW i \in A
      PROVE  /\ i \in 1..w /\ Rank(i) \in 1..k /\ AlertNumber(Rank(i)) = i
             /\ Cardinality(Onward(i)) = k - Rank(i) + 1
  <2>1. i \in 1..w /\ stream[i] # Quiet /\ i \in 1..Len(stream) /\ i - 1 \in Nat /\ (i - 1) + 1 = i
    BY <1>1 DEF AlertsUpTo
  <2> DEFINE B == AlertsUpTo(i - 1)
  <2>2. IsFiniteSet(B) /\ Rank(i - 1) \in Nat /\ Rank(i - 1) = Cardinality(B)
    BY <2>1, RankType DEF Rank
  <2>3. Rank(i) = Rank(i - 1) + 1
    BY <2>1, RankNext
  <2>4. Onward(i) = A \ B /\ A \cap B = B
    BY <2>1 DEF AlertsUpTo
  <2>5. Rank(i) <= k
    BY <1>1, <2>1, RankMonotone
  <2>6. Cardinality(A \ B) = Cardinality(A) - Cardinality(A \cap B)
    BY <1>2, FS_Difference
  <2>7. AlertNumber(Rank(i)) = i
    BY <1>1, <2>1, NumberIs
  <2> DEFINE a == Rank(i)
             b == Rank(i - 1)
  <2>8. a = b + 1 /\ b \in Nat /\ a <= k /\ Cardinality(Onward(i)) = k - b
    BY <1>2, <2>2, <2>3, <2>4, <2>5, <2>6
  <2> HIDE DEF a, b, k
  <2>9. a \in 1..k /\ k - b = k - a + 1
    BY <1>2, <2>8
  <2> QED BY <2>1, <2>7, <2>8, <2>9 DEF a
<1>6. ASSUME NEW i \in A, Cardinality(Onward(i)) <= recentCap
      PROVE  \E x \in 1..m : i = r[x]
  <2> DEFINE a == Rank(i)
             x == a - (k - m)
  <2>1. a \in 1..k /\ k - a + 1 <= recentCap /\ AlertNumber(a) = i
    BY <1>5, <1>6
  <2> HIDE DEF a
  <2>2. x \in 1..m /\ k - m + x = a
    <3> HIDE DEF k, m
    <3> QED BY <1>2, <1>3, <2>1
  <2> HIDE DEF x
  <2>3. r[x] = AlertNumber(k - m + x)
    BY <1>4, <2>2
  <2> QED BY <2>1, <2>2, <2>3
<1>7. ASSUME NEW x \in 1..m
      PROVE  r[x] \in A /\ Cardinality(Onward(r[x])) <= recentCap
  <2>1. r[x] \in A /\ Rank(r[x]) = k - m + x
    BY <1>4
  <2>2. Cardinality(Onward(r[x])) = k - Rank(r[x]) + 1
    BY <1>5, <2>1
  <2> DEFINE c == Cardinality(Onward(r[x]))
  <2>3. c = k - (k - m + x) + 1
    BY <2>1, <2>2
  <2> HIDE DEF c, k, m
  <2>4. c <= recentCap
    BY <1>2, <1>3, <2>3
  <2> QED BY <2>1, <2>4 DEF c
<1>8. {i \in A : Cardinality(Onward(i)) <= recentCap} = {r[x] : x \in 1..m}
  <2> HIDE DEF A, r, m, Onward
  <2> QED BY <1>6, <1>7
<1> QED BY <1>4, <1>8

\* The feed is the newest visible of the latest alerts, without a gap.
LEMMA FeedIsNewest ==
    ASSUME StreamOK, NEW w \in 0..Len(stream), NEW rows \in Nat
    PROVE  LET A == AlertsUpTo(w)
               feed == Feed(After(Rank(w)), rows)
               kept == {i \in A : Cardinality({j \in A : j >= i}) <= recentCap}
               visible == {i \in kept : stream[i].sev >= MinSeverity}
           IN  /\ ToSet(feed) \subseteq visible
               /\ \A i \in ToSet(feed), j \in visible \ ToSet(feed) : i > j
               /\ visible \subseteq ToSet(feed) \/ Len(feed) = rows
<1> DEFINE k == Rank(w)
           d == After(k)
           r == Latest(k)
           n == Kept(k)
           A == AlertsUpTo(w)
           feed == Feed(d, rows)
           kept == {i \in A : Cardinality({j \in A : j >= i}) <= recentCap}
           visible == {i \in kept : stream[i].sev >= MinSeverity}
<1>1. k \in Nat
  BY RankType DEF StreamOK
<1>2. d.recent = r /\ Len(r) = n /\ n \in Nat
  <2> HIDE DEF k
  <2> QED BY <1>1, AfterDrawable
<1>3. kept = {r[x] : x \in 1..n} /\ \A x \in 1..n : r[x] \in Nat /\ Rank(r[x]) = k - n + x
  BY LatestAre
<1>4. FedOK(feed, r, n, rows)
  <2> HIDE DEF r, n, d
  <2> QED BY <1>2, FeedIs
<1> HIDE DEF k, d, r, n, A, feed, kept
<1>5. PICK c \in 1..(n + 1) :
         {feed[x] : x \in 1..Len(feed)} = ShownFrom(r, c) /\ (c = 1 \/ Len(feed) = rows)
  <2>1. n - n + 1 = 1
    BY <1>2
  <2> QED BY <1>2, <1>4, <2>1 DEF FedOK
<1>6. ToSet(feed) = ShownFrom(r, c)
  <2>1. feed \in Seq({r[x] : x \in 1..Len(r)})
    BY <1>4 DEF FedOK
  <2>2. DOMAIN feed = 1..Len(feed)
    BY <2>1
  <2> QED BY <1>5, <2>2 DEF ToSet
<1>7. ASSUME NEW i \in ShownFrom(r, c)
      PROVE  \E x \in c..n : i = r[x] /\ x \in 1..n /\ i \in visible
  BY <1>2, <1>3 DEF ShownFrom
<1>8. ASSUME NEW j \in visible
      PROVE  \E y \in 1..n : j = r[y] /\ (y >= c => j \in ShownFrom(r, c))
  <2>1. PICK y \in 1..n : j = r[y] /\ stream[j].sev >= MinSeverity
    BY <1>3
  <2>2. y >= c => y \in c..Len(r)
    BY <1>2
  <2> QED BY <2>1, <2>2 DEF ShownFrom
<1>9. ASSUME NEW i \in ShownFrom(r, c), NEW j \in visible, j \notin ShownFrom(r, c)
      PROVE  i > j
  <2>1. PICK x \in c..n : i = r[x] /\ x \in 1..n
    BY <1>7
  <2>2. PICK y \in 1..n : j = r[y] /\ ~(y >= c)
    BY <1>8, <1>9
  <2>3. i \in Nat /\ j \in Nat /\ Rank(i) = k - n + x /\ Rank(j) = k - n + y
    BY <1>3, <2>1, <2>2
  <2>4. ~(Rank(i) <= Rank(j))
    BY <1>1, <1>2, <2>2, <2>3
  <2>5. ~(i <= j)
    BY <2>3, <2>4, RankMonotone
  <2> QED BY <2>3, <2>5
<1>10. visible \subseteq ShownFrom(r, c) \/ Len(feed) = rows
  <2>1. ASSUME c = 1, NEW j \in visible PROVE j \in ShownFrom(r, c)
    BY <1>8, <2>1
  <2> QED BY <1>5, <2>1
<1>11. ShownFrom(r, c) \subseteq visible
  BY <1>7
<1>12. /\ ToSet(feed) \subseteq visible
       /\ \A i \in ToSet(feed), j \in visible \ ToSet(feed) : i > j
       /\ visible \subseteq ToSet(feed) \/ Len(feed) = rows
  <2> HIDE DEF visible
  <2> QED BY <1>6, <1>9, <1>10, <1>11
<1> QED BY <1>12 DEF k, d, A, feed, kept

\* Every frame, whatever was written while it was being fitted, is a picture
\* of one moment of the stream.
THEOREM FramesAreSnapshots ==
    Spec => []FrameIsSnapshot
<1>1. Inv => FrameIsSnapshot
  <2> SUFFICES ASSUME Inv, frame # NoFrame PROVE FrameIsSnapshot
    BY DEF FrameIsSnapshot
  <2> DEFINE w == Dealt
             k == Rank(w)
             A == AlertsUpTo(w)
             alerts == FirstAlerts(frame.total) \cap (1..read)
             kept == {i \in alerts : Cardinality({j \in alerts : j >= i}) <= recentCap}
             visible == {i \in kept : stream[i].sev >= MinSeverity}
             chains == {i \in alerts : stream[i].steps > 0}
             fed == ToSet(frame.feed)
  <2>1. StreamOK /\ w \in 0..Len(stream) /\ Len(stream) \in Nat /\ k \in Nat /\ dash.total = k /\ dash = After(k)
    BY TypesOfInv DEF Inv, Counts
  <2>2. w <= read /\ read \in Nat /\ w \in Nat
    BY <2>1 DEF Inv, Places, Dealt
  <2>3. PICK lay \in Layouts, since \in 0..dash.total, procs \in TopProcesses(dash) :
           frame = Picture(lay, since, procs)
    BY DEF Inv, Painted
  <2> DEFINE steps == IF dash.lastChain = 0 THEN 0 ELSE stream[dash.lastChain].steps
             byRule == [r \in RuleRows(dash) |-> IF r \in RuleNames THEN dash.byRule[r] ELSE 0]
  <2>4. /\ frame.total = k /\ frame.bySeverity = dash.bySeverity /\ frame.chain = dash.lastChain
        /\ frame.shown = StepsShown(steps, lay.storyRows)
        /\ frame.dropped = StepsDropped(steps, lay.storyRows)
        /\ frame.feed = Feed(After(k), lay.recentRows) /\ frame.lay = lay
        /\ frame.byRule = byRule
    BY <2>1, <2>3 DEF Picture
  <2>5. FirstAlerts(k) = A /\ alerts = A /\ IsFiniteSet(A) /\ Cardinality(A) = k
    <3>1. FirstAlerts(k) = A
      BY <2>1, FirstIs
    <3>2. A \subseteq 1..read
      BY <2>2 DEF AlertsUpTo
    <3>3. IsFiniteSet(A) /\ Cardinality(A) = k
      BY <2>2, RankType DEF Rank
    <3> QED BY <2>4, <3>1, <3>2, <3>3
  <2>6. /\ dash.bySeverity = [s \in Severities |-> Cardinality({i \in A : stream[i].sev = s})]
        /\ dash.byRule = [r \in RuleNames |-> Cardinality({i \in A : stream[i].rule = r})]
        /\ dash.lastChain = Max({0} \cup {i \in A : stream[i].steps > 0})
        /\ dash.lastChain \in {0} \cup {i \in A : stream[i].steps > 0}
    <3> HIDE DEF k
    <3>1. LastChain(k) \in {0} \cup {i \in FirstAlerts(k) : stream[i].steps > 0}
      BY <2>1, AfterDrawable
    <3> DEFINE bs == [s \in Severities |-> Cardinality({i \in FirstAlerts(k) : stream[i].sev = s})]
               br == [r \in RuleNames |-> Cardinality({i \in FirstAlerts(k) : stream[i].rule = r})]
               bt == [t \in 1..5 |-> Cardinality({i \in FirstAlerts(k) : t \in stream[i].tactics})]
               bp == [p \in Procs |-> Cardinality({i \in FirstAlerts(k) : stream[i].proc = p})]
               lc == LastChain(k)
               rc == Latest(k)
    <3>2. After(k) = [total |-> k, bySeverity |-> bs, byRule |-> br, byTactic |-> bt,
                      byProcess |-> bp, lastChain |-> lc, recent |-> rc]
      BY AfterIs
    <3> HIDE DEF bs, br, bt, bp, lc, rc
    <3>3. dash.bySeverity = bs /\ dash.byRule = br /\ dash.lastChain = lc
      BY <2>1, <3>2
    <3>4. lc = Max({0} \cup {i \in A : stream[i].steps > 0})
      BY <2>5, Zenon DEF lc, LastChain
    <3>5. lc \in {0} \cup {i \in A : stream[i].steps > 0}
      BY <2>5, <3>1, Zenon DEF lc
    <3>6. /\ bs = [s \in Severities |-> Cardinality({i \in A : stream[i].sev = s})]
          /\ br = [r \in RuleNames |-> Cardinality({i \in A : stream[i].rule = r})]
      BY <2>5, Zenon DEF bs, br
    <3> QED BY <3>3, <3>4, <3>5, <3>6
  <2>7. \A i \in A : /\ i \in 1..Len(stream) /\ stream[i] # Quiet /\ stream[i].rule \in RuleNames
                     /\ stream[i].steps \in Nat
    BY <2>1 DEF AlertsUpTo, RuleNames, StreamOK
  <2> HIDE DEF w, k, A, byRule
  <2>8. Cardinality(alerts) = frame.total
    BY <2>4, <2>5
  <2>9. \A s \in Severities : frame.bySeverity[s] = Cardinality({i \in alerts : stream[i].sev = s})
    BY <2>4, <2>5, <2>6
  <2>10. \A i \in alerts : stream[i].rule \in DOMAIN frame.byRule
    <3> SUFFICES ASSUME NEW i \in A PROVE stream[i].rule \in RuleRows(dash)
      BY <2>4, <2>5 DEF byRule
    <3> DEFINE X == {j \in A : stream[j].rule = stream[i].rule}
    <3>1. IsFiniteSet(X) /\ X # {}
      BY <2>5, FS_Subset
    <3>2. Cardinality(X) \in Nat /\ Cardinality(X) # 0
      <4> HIDE DEF X
      <4> QED BY <3>1, FS_CardinalityType, FS_EmptySet
    <3>3. dash.byRule[stream[i].rule] = Cardinality(X)
      BY <2>6, <2>7
    <3> HIDE DEF X
    <3>4. dash.byRule[stream[i].rule] > 0
      BY <3>2, <3>3
    <3> QED BY <2>7, <3>4 DEF RuleRows
  <2>11. \A r \in DOMAIN frame.byRule : frame.byRule[r] = Cardinality({i \in alerts : stream[i].rule = r})
    <3> SUFFICES ASSUME NEW r \in RuleRows(dash)
                 PROVE  byRule[r] = Cardinality({i \in A : stream[i].rule = r})
      BY <2>4, <2>5 DEF byRule
    <3>1. CASE r \in RuleNames
      <4>1. byRule[r] = dash.byRule[r]
        BY <3>1 DEF byRule
      <4> QED BY <2>6, <3>1, <4>1
    <3>2. CASE r \notin RuleNames
      <4>1. byRule[r] = 0
        BY <3>2 DEF byRule
      <4>2. {i \in A : stream[i].rule = r} = {}
        BY <2>7, <3>2
      <4> QED BY <4>1, <4>2, FS_EmptySet
    <3> QED BY <3>1, <3>2
  <2>12. frame.chain = Max({0} \cup chains)
    BY <2>4, <2>5, <2>6
  <2>13. ASSUME chains # {} PROVE frame.shown + frame.dropped = stream[frame.chain].steps
    <3> DEFINE S == {0} \cup {i \in A : stream[i].steps > 0}
               c == dash.lastChain
               rows == lay.storyRows
    <3>1. S \in SUBSET (0..Len(stream)) /\ S # {}
      BY <2>1, <2>7
    <3>2. c \in S /\ \A x \in S : x <= c
      <4>1. c = Max(S)
        BY <2>6
      <4> HIDE DEF S
      <4> QED BY <2>1, <3>1, <4>1, MaxBounded
    <3>3. c # 0
      <4>1. PICK i \in A : stream[i].steps > 0
        BY <2>5, <2>13
      <4>2. i \in S /\ i \in 1..Len(stream)
        BY <2>7, <4>1
      <4> HIDE DEF S, c
      <4> QED BY <2>1, <3>2, <4>2
    <3>4. steps = stream[c].steps /\ steps \in Nat
      BY <2>7, <3>2, <3>3
    <3>5. rows \in Nat
      BY DashboardAssumption DEF Layouts
    <3> HIDE DEF steps, rows
    <3>6. StepsShown(steps, rows) + StepsDropped(steps, rows) = steps
      BY <3>4, <3>5 DEF StepsShown, StepsDropped
    <3> QED BY <2>4, <3>4, <3>6 DEF rows
  <2>14. /\ fed \subseteq visible
         /\ \A i \in fed, j \in visible \ fed : i > j
         /\ visible \subseteq fed \/ Len(frame.feed) = frame.lay.recentRows
    <3> DEFINE rows == lay.recentRows
               feed == Feed(After(k), rows)
               K == {i \in A : Cardinality({j \in A : j >= i}) <= recentCap}
               V == {i \in K : stream[i].sev >= MinSeverity}
    <3>1. rows \in Nat
      BY DashboardAssumption DEF Layouts
    <3>2. /\ ToSet(feed) \subseteq V
          /\ \A i \in ToSet(feed), j \in V \ ToSet(feed) : i > j
          /\ V \subseteq ToSet(feed) \/ Len(feed) = rows
      <4> HIDE DEF rows
      <4> QED BY <2>1, <3>1, FeedIsNewest DEF k, A
    <3>3. visible = V /\ fed = ToSet(feed) /\ Len(frame.feed) = Len(feed) /\ frame.lay.recentRows = rows
      BY <2>4, <2>5
    <3> HIDE DEF visible, V, fed, feed, rows
    <3> QED BY <3>2, <3>3
  <2> HIDE DEF alerts, kept, visible, chains, fed
  <2>15. /\ Cardinality(alerts) = frame.total
         /\ \A s \in Severities :
               frame.bySeverity[s] = Cardinality({i \in alerts : stream[i].sev = s})
         /\ \A i \in alerts : stream[i].rule \in DOMAIN frame.byRule
         /\ \A r \in DOMAIN frame.byRule :
               frame.byRule[r] = Cardinality({i \in alerts : stream[i].rule = r})
         /\ frame.chain = Max({0} \cup chains)
         /\ chains # {} => frame.shown + frame.dropped = stream[frame.chain].steps
         /\ fed \subseteq visible
         /\ \A i \in fed, j \in visible \ fed : i > j
         /\ visible \subseteq fed \/ Len(frame.feed) = frame.lay.recentRows
    BY <2>8, <2>9, <2>10, <2>11, <2>12, <2>13, <2>14
  <2> QED BY <2>15, Zenon DEF FrameIsSnapshot, alerts, kept, visible, chains, fed
<1> QED BY <1>1, DashboardInvHolds, PTL

=============================================================================
