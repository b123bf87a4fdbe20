---------------------------- MODULE EngineProofs ----------------------------
(***************************************************************************)
(* Proofs about the storyline correlator (Storyline) and about the engine  *)
(* that runs the rules, correlates what they find, folds what repeats and  *)
(* returns the rest (Engine): for any process tree, any number of          *)
(* storylines and any order of events, merges, sweeps and exits.           *)
(***************************************************************************)
EXTENDS Engine, FiniteSetTheorems, SequenceTheorems, FunctionTheorems,
        WellFoundedInduction, TLAPS

-----------------------------------------------------------------------------
(* Storyline.                                                              *)
(*                                                                         *)
(* A merge rewrites two storylines and every pointer to one of them, and   *)
(* one alert may merge any number of them.  The proofs say what one merge  *)
(* does to a store (Merged) and to the chains of absorptions (Survivor),   *)
(* carry that through the merges of one alert, and only then turn to the   *)
(* steps of the specification.  The operators that loop (Survivor, Refit,  *)
(* Found, Joined, ancestry, SessionRoot) are recursive functions: each has *)
(* a lemma that says it exists, round by round, and one that says what it  *)
(* computes, both by induction on the rounds.                              *)

\* f is a sequence, of whatever.
IsSeq(f) == Len(f) \in Nat /\ f = [i \in 1..Len(f) |-> f[i]]

Fields == {"members", "root", "tactics", "steps", "alerts", "firstTS", "lastTS",
           "reportedN", "absorbedBy"}

Step == [off : Int, pid : PIDs, pivotal : BOOLEAN, ts : Nat, moved : Nat]

\* What an offset tells, in stamps since the story began, and what truncation
\* may have lost of it.
Told(st) == Milli * st.off
Loss(st) == Milli * (1 + st.moved)
Slack == Milli + Skew

\* The steps of a story that began at lo: they fit in it and are in order up
\* to the slack; their offsets tell when they happened, none beyond h.
Sorted(q) == \A i, j \in 1..Len(q) : i < j => Told(q[i]) - Told(q[j]) < Slack
Tell(st, lo) == lo + Told(st) <= st.ts + Skew /\ st.ts < lo + Told(st) + Loss(st)
Span(q, lo, h) == \A i \in 1..Len(q) : Tell(q[i], lo) /\ Told(q[i]) <= h
Fits(q, lo, h) == q \in Seq(Step) /\ Len(q) <= MaxStorySteps /\ Sorted(q) /\ Span(q, lo, h)

StepsOK(s, t) == s.firstTS <= t /\ Fits(s.steps, s.firstTS, t - s.firstTS)

StoryOK(s) ==
    /\ DOMAIN s = Fields
    /\ s.members \subseteq PIDs /\ IsFiniteSet(s.tactics)
    /\ s.alerts \in Nat /\ s.firstTS \in Nat /\ s.lastTS \in Nat /\ s.reportedN \in Nat
    /\ s.absorbedBy \in Nat

\* Absorption goes down in a rank, so it has no cycle, and no rank exceeds
\* the number of stories absorbed.
Dead(ss) == {n \in 1..Len(ss) : ~Live(ss[n])}

Ranked(ss, r) ==
    \A n \in 1..Len(ss) :
        /\ r[n] \in Nat /\ r[n] <= Cardinality(Dead(ss))
        /\ ~Live(ss[n]) => /\ ss[n].absorbedBy \in 1..Len(ss)
                           /\ r[ss[n].absorbedBy] < r[n]

Acyclic(ss) == \E r \in [1..Len(ss) -> 0..Len(ss)] : Ranked(ss, r)

\* A store at the time t: byPID leads to a story that was not absorbed and has
\* the process as a member, and every timeline is in order.
StoreOK(ss, b, t) ==
    /\ IsSeq(ss) /\ \A n \in 1..Len(ss) : StoryOK(ss[n])
    /\ \A n \in 1..Len(ss) : StepsOK(ss[n], t) /\ ss[n].lastTS <= t
    /\ Acyclic(ss)
    /\ b \in [PIDs -> 0..Len(ss)]
    /\ \A p \in PIDs : b[p] # 0 => Live(ss[b[p]]) /\ p \in ss[b[p]].members

\* A story that has not lapsed at u has its members to itself.
OwnOK(ss, b, u) ==
    \A n \in 1..Len(ss) : Live(ss[n]) /\ ~Lapsed(ss[n], u) =>
        \A p \in ss[n].members : b[p] = n

\* The alerts filed in the story n and in the stories it absorbed.
Mine(ss, f, n) == {i \in 1..Len(f) : Survivor(ss, f[i].story) = n}

Tactics(f, S) == UNION {TacticsFor(f[i].alert) : i \in S}

\* What the story n says of the alerts S.
Tells(story, f, S) ==
    /\ story.alerts = Cardinality(S)
    /\ story.tactics = Tactics(f, S)
    /\ \A i \in S : f[i].chain <= story.reportedN
    /\ story.reportedN <= Cardinality(story.tactics)

\* The books: every story that was not absorbed tells of its own alerts, has
\* the processes that raised them, and is the oldest of what it absorbed.
TallyOK(ss, f) ==
    /\ IsSeq(f)
    /\ \A i \in 1..Len(f) : f[i].story \in 1..Len(ss) /\ f[i].chain \in Nat
    /\ \A n \in 1..Len(ss) : Live(ss[n]) => Tells(ss[n], f, Mine(ss, f, n))
    /\ \A n \in 1..Len(ss) : ss[Survivor(ss, n)].firstTS <= ss[n].firstTS
    /\ \A i \in 1..Len(f) : f[i].pid \in ss[Survivor(ss, f[i].story)].members

-----------------------------------------------------------------------------
(* Sequences, and induction for a set. *)

LEMMA InductionOnNat ==
    ASSUME NEW G, 0 \in G, \A n \in Nat : n \in G => n + 1 \in G
    PROVE  Nat \subseteq G
<1> SUFFICES ASSUME Nat \ G # {} PROVE FALSE
  OBVIOUS
<1>1. PICK m \in Nat \ G : \A y \in Nat \ G : ~(<<y, m>> \in OpToRel(<, Nat))
  BY NatLessThanWellFounded, WFMin
<1>2. \A y \in Nat \ G : ~(y < m)
  BY <1>1 DEF OpToRel
<1>3. m # 0 /\ m - 1 \in Nat /\ m - 1 < m /\ (m - 1) + 1 = m
  OBVIOUS
<1> QED BY <1>2, <1>3

LEMMA SeqOfLen ==
    ASSUME NEW n \in Nat, NEW f, f = [i \in 1..n |-> f[i]]
    PROVE  IsSeq(f) /\ Len(f) = n
<1> DEFINE S == {f[i] : i \in 1..n}
<1>1. f \in [1..n -> S]
  OBVIOUS
<1> HIDE DEF S
<1>2. f \in Seq(S) /\ Len(f) = n
  BY <1>1
<1> QED BY <1>2 DEF IsSeq

LEMMA SeqIsSeq ==
    ASSUME NEW S, NEW q \in Seq(S)
    PROVE  IsSeq(q)
BY DEF IsSeq

LEMMA AppendSeq ==
    ASSUME NEW f, IsSeq(f), NEW x
    PROVE  /\ IsSeq(Append(f, x)) /\ Len(Append(f, x)) = Len(f) + 1
           /\ \A i \in 1..Len(f) : Append(f, x)[i] = f[i]
           /\ Append(f, x)[Len(f) + 1] = x
<1> DEFINE S == {f[i] : i \in 1..Len(f)} \cup {x}
<1>1. Len(f) \in Nat /\ f \in [1..Len(f) -> S] /\ x \in S
  BY DEF IsSeq
<1> HIDE DEF S
<1>2. f \in Seq(S)
  BY <1>1
<1>3. /\ Append(f, x) \in Seq(S) /\ Len(Append(f, x)) = Len(f) + 1
      /\ \A i \in 1..Len(f) : Append(f, x)[i] = f[i]
      /\ Append(f, x)[Len(f) + 1] = x
  BY <1>1, <1>2, AppendProperties
<1>4. IsSeq(Append(f, x))
  BY <1>3, SeqIsSeq
<1> QED BY <1>3, <1>4

-----------------------------------------------------------------------------
(* Survivor. *)

\* One step along the chain of absorptions.
Onward(ss, m) == IF Live(ss[m]) THEN m ELSE ss[m].absorbedBy

PathBody(ss, n, g, k) == IF k = 0 THEN n ELSE Onward(ss, g[k - 1])

IsPath(ss, n, g) == g = [k \in 0..Len(ss) |-> PathBody(ss, n, g, k)]

LEMMA PathExists ==
    ASSUME NEW ss, Len(ss) \in Nat, NEW n
    PROVE  \E g : IsPath(ss, n, g)
<1> DEFINE Upto(m, g) == \A k \in 0..Len(ss) : k <= m => g[k] = PathBody(ss, n, g, k)
           G == {m \in Nat : \E g : Upto(m, g)}
<1>2. 0 \in G
  <2> DEFINE g == [k \in 0..Len(ss) |-> n]
  <2>1. Upto(0, g)
    BY DEF PathBody
  <2> QED BY <2>1
<1>3. ASSUME NEW m \in Nat, m \in G PROVE m + 1 \in G
  <2>1. PICK g : Upto(m, g)
    BY <1>3
  <2> DEFINE h == [k \in 0..Len(ss) |-> PathBody(ss, n, g, k)]
  <2>2. \A k \in 0..Len(ss) : k <= m => h[k] = g[k]
    BY <2>1
  <2>3. \A k \in 0..Len(ss) : k <= m + 1 => PathBody(ss, n, h, k) = PathBody(ss, n, g, k)
    <3> TAKE k \in 0..Len(ss)
    <3> HAVE k <= m + 1
    <3>1. CASE k = 0
      BY <3>1 DEF PathBody
    <3>2. CASE k # 0
      <4>1. k - 1 \in 0..Len(ss) /\ k - 1 <= m
        BY <3>2
      <4>2. h[k - 1] = g[k - 1]
        BY <2>2, <4>1
      <4> HIDE DEF h
      <4> QED BY <3>2, <4>2 DEF PathBody
    <3> QED BY <3>1, <3>2
  <2>4. Upto(m + 1, h)
    BY <2>3
  <2> HIDE DEF h, Upto
  <2>5. m + 1 \in Nat
    OBVIOUS
  <2> QED BY <2>4, <2>5
<1>4. Len(ss) \in G
  <2> HIDE DEF G
  <2>1. Nat \subseteq G
    BY <1>2, <1>3, InductionOnNat
  <2> QED BY <2>1
<1>5. PICK g : Upto(Len(ss), g)
  BY <1>4
<1> DEFINE h == [k \in 0..Len(ss) |-> g[k]]
<1>6. \A k \in 0..Len(ss) : g[k] = PathBody(ss, n, g, k)
  BY <1>5
<1>7. \A k \in 0..Len(ss) : PathBody(ss, n, h, k) = PathBody(ss, n, g, k)
  <2> TAKE k \in 0..Len(ss)
  <2>1. CASE k = 0
    BY <2>1 DEF PathBody
  <2>2. CASE k # 0
    <3>1. k - 1 \in 0..Len(ss)
      BY <2>2
    <3>2. h[k - 1] = g[k - 1]
      BY <3>1
    <3> HIDE DEF h
    <3> QED BY <2>2, <3>2 DEF PathBody
  <2> QED BY <2>1, <2>2
<1>8. h = [k \in 0..Len(ss) |-> PathBody(ss, n, h, k)]
  BY <1>6, <1>7
<1> QED BY <1>8 DEF IsPath

LEMMA PathIs ==
    ASSUME NEW ss, Len(ss) \in Nat, NEW n
    PROVE  \E g : /\ Survivor(ss, n) = g[Len(ss)] /\ g[0] = n
                  /\ \A k \in Nat : k + 1 \in 0..Len(ss) => g[k + 1] = Onward(ss, g[k])
<1> DEFINE g == CHOOSE z : IsPath(ss, n, z)
<1>1. IsPath(ss, n, g)
  BY PathExists, Zenon
<1>2. Survivor(ss, n) = g[Len(ss)]
  BY DEF Survivor, IsPath, PathBody, Onward
<1> HIDE DEF g
<1>3. \A k \in 0..Len(ss) : g[k] = PathBody(ss, n, g, k)
  BY <1>1 DEF IsPath
<1>4. g[0] = n
  BY <1>3 DEF PathBody
<1>5. ASSUME NEW k \in Nat, k + 1 \in 0..Len(ss) PROVE g[k + 1] = Onward(ss, g[k])
  <2>1. k + 1 # 0 /\ (k + 1) - 1 = k /\ k + 1 \in 0..Len(ss)
    BY <1>5
  <2>2. g[k + 1] = PathBody(ss, n, g, k + 1)
    BY <1>3, <2>1
  <2> QED BY <2>1, <2>2 DEF PathBody
<1> QED BY <1>2, <1>4, <1>5

\* After k steps along it a chain has ended, or is k lower in rank.
LEMMA PathDescends ==
    ASSUME NEW ss, Len(ss) \in Nat, NEW r, Ranked(ss, r), NEW n \in 1..Len(ss), NEW g,
           g[0] = n, \A k \in Nat : k + 1 \in 0..Len(ss) => g[k + 1] = Onward(ss, g[k])
    PROVE  \A k \in 0..Len(ss) : /\ g[k] \in 1..Len(ss)
                                 /\ Live(ss[g[k]]) \/ r[g[k]] + k <= r[n]
<1> DEFINE P(k) == g[k] \in 1..Len(ss) /\ (Live(ss[g[k]]) \/ r[g[k]] + k <= r[n])
           G == {k \in Nat : k \in 0..Len(ss) => P(k)}
<1>1. 0 \in G
  <2>1. r[n] \in Nat
    BY DEF Ranked
  <2> QED BY <2>1
<1>2. ASSUME NEW k \in Nat, k \in G PROVE k + 1 \in G
  <2> SUFFICES ASSUME k + 1 \in 0..Len(ss) PROVE P(k + 1)
    OBVIOUS
  <2>1. P(k) /\ g[k + 1] = Onward(ss, g[k])
    BY <1>2
  <2> DEFINE m == g[k]
  <2>2. m \in 1..Len(ss) /\ (Live(ss[m]) \/ r[m] + k <= r[n]) /\ g[k + 1] = Onward(ss, m)
    BY <2>1
  <2> HIDE DEF m
  <2>3. CASE Live(ss[m])
    BY <2>2, <2>3 DEF Onward
  <2>4. CASE ~Live(ss[m])
    <3> DEFINE a == ss[m].absorbedBy
    <3>1. g[k + 1] = a /\ a \in 1..Len(ss) /\ r[a] < r[m] /\ r[a] \in Nat /\ r[m] \in Nat /\ r[n] \in Nat
      BY <2>2, <2>4 DEF Onward, Ranked
    <3> HIDE DEF a
    <3>2. r[a] + (k + 1) <= r[n]
      BY <2>2, <2>4, <3>1
    <3> QED BY <3>1, <3>2
  <2> QED BY <2>3, <2>4
<1> HIDE DEF G
<1>3. Nat \subseteq G
  BY <1>1, <1>2, InductionOnNat
<1> QED BY <1>3 DEF G

LEMMA DeadCount ==
    ASSUME NEW ss, Len(ss) \in Nat
    PROVE  /\ IsFiniteSet(Dead(ss)) /\ Cardinality(Dead(ss)) \in Nat
           /\ Cardinality(Dead(ss)) <= Len(ss)
<1>1. IsFiniteSet(1..Len(ss)) /\ Cardinality(1..Len(ss)) = Len(ss)
  <2> DEFINE k == Len(ss)
  <2>1. k \in Nat
    OBVIOUS
  <2> HIDE DEF k
  <2>2. IsFiniteSet(1..k) /\ Cardinality(1..k) = IF 1 > k THEN 0 ELSE k - 1 + 1
    BY <2>1, FS_Interval
  <2>3. Cardinality(1..k) = k
    BY <2>1, <2>2
  <2> QED BY <2>2, <2>3 DEF k
<1>2. Dead(ss) \subseteq 1..Len(ss)
  BY DEF Dead
<1> QED BY <1>1, <1>2, FS_Subset, FS_CardinalityType

\* The path from n to its survivor.
SurvivorPath(ss, n) ==
    \E g : /\ Survivor(ss, n) = g[Len(ss)] /\ g[0] = n
           /\ \A k \in Nat : k + 1 \in 0..Len(ss) => g[k + 1] = Onward(ss, g[k])

LEMMA PathsAre ==
    ASSUME NEW ss, Len(ss) \in Nat
    PROVE  \A n : SurvivorPath(ss, n)
BY PathIs DEF SurvivorPath

\* Survivor is the end of the chain of absorptions.
LEMMA SurvivorUnfolds ==
    ASSUME NEW ss, Len(ss) \in Nat, NEW r, Ranked(ss, r), NEW n \in 1..Len(ss)
    PROVE  /\ Survivor(ss, n) \in 1..Len(ss) /\ Live(ss[Survivor(ss, n)])
           /\ Live(ss[n]) => Survivor(ss, n) = n
           /\ ~Live(ss[n]) => Survivor(ss, n) = Survivor(ss, ss[n].absorbedBy)
<1> DEFINE N == Len(ss)
<1>0. Cardinality(Dead(ss)) \in Nat /\ Cardinality(Dead(ss)) <= N
  BY DeadCount
<1>1. \A m \in 1..N : r[m] \in Nat /\ r[m] <= N
  BY <1>0 DEF Ranked
<1>2. PICK g : /\ Survivor(ss, n) = g[N] /\ g[0] = n
               /\ \A k \in Nat : k + 1 \in 0..N => g[k + 1] = Onward(ss, g[k])
  BY PathIs
<1>3. \A k \in 0..N : g[k] \in 1..N /\ (Live(ss[g[k]]) \/ r[g[k]] + k <= r[n])
  BY <1>2, PathDescends
<1>4. \A m \in 1..N : ~Live(ss[m]) => r[m] > 0
  <2> SUFFICES ASSUME NEW m \in 1..N, ~Live(ss[m]) PROVE r[m] > 0
    OBVIOUS
  <2> DEFINE a == ss[m].absorbedBy
  <2>1. a \in 1..N /\ r[a] < r[m] /\ r[a] \in Nat /\ r[m] \in Nat
    BY DEF Ranked
  <2> HIDE DEF a
  <2> QED BY <2>1
<1>5. g[N] \in 1..N /\ Live(ss[g[N]])
  <2>1. N \in 0..N
    OBVIOUS
  <2>2. g[N] \in 1..N /\ (Live(ss[g[N]]) \/ r[g[N]] + N <= r[n])
    BY <1>3, <2>1
  <2> SUFFICES ASSUME ~Live(ss[g[N]]) PROVE FALSE
    BY <2>2
  <2>3. r[g[N]] > 0 /\ r[g[N]] \in Nat /\ r[n] \in Nat /\ r[n] <= N /\ r[g[N]] + N <= r[n]
    BY <1>1, <1>4, <2>2
  <2> QED BY <2>3
<1>6. ASSUME Live(ss[n]) PROVE g[N] = n
  <2> DEFINE G == {k \in Nat : k \in 0..N => g[k] = n}
  <2>1. 0 \in G
    BY <1>2
  <2>2. ASSUME NEW k \in Nat, k \in G PROVE k + 1 \in G
    BY <1>2, <1>6, <2>2 DEF Onward
  <2> HIDE DEF G
  <2>3. N \in G
    BY <2>1, <2>2, InductionOnNat
  <2> QED BY <2>3 DEF G
<1>8. \A m : SurvivorPath(ss, m)
  BY PathsAre
<1>7. ASSUME ~Live(ss[n]) PROVE Survivor(ss, n) = Survivor(ss, ss[n].absorbedBy)
  <2> DEFINE a == ss[n].absorbedBy
  <2>1. a \in 1..N /\ r[a] < r[n]
    BY <1>7 DEF Ranked
  <2> HIDE DEF a
  <2>2. PICK h : /\ Survivor(ss, a) = h[N] /\ h[0] = a
                 /\ \A k \in Nat : k + 1 \in 0..N => h[k + 1] = Onward(ss, h[k])
    <3>1. SurvivorPath(ss, a)
      BY <1>8
    <3> QED BY <3>1 DEF SurvivorPath
  <2>3. \A k \in 0..N : h[k] \in 1..N /\ (Live(ss[h[k]]) \/ r[h[k]] + k <= r[a])
    BY <2>1, <2>2, PathDescends
  <2> DEFINE G == {k \in Nat : k + 1 \in 0..N => g[k + 1] = h[k]}
  <2>4. 0 \in G
    BY <1>2, <1>7, <2>2 DEF Onward, a
  <2>5. ASSUME NEW k \in Nat, k \in G PROVE k + 1 \in G
    <3> SUFFICES ASSUME (k + 1) + 1 \in 0..N PROVE g[(k + 1) + 1] = h[k + 1]
      OBVIOUS
    <3>1. k + 1 \in 0..N /\ k + 1 \in Nat
      OBVIOUS
    <3>2. g[k + 1] = h[k]
      BY <2>5, <3>1
    <3>3. g[(k + 1) + 1] = Onward(ss, g[k + 1]) /\ h[k + 1] = Onward(ss, h[k])
      BY <1>2, <2>2, <3>1
    <3> QED BY <3>2, <3>3
  <2>6. N > 0 /\ N - 1 \in Nat /\ (N - 1) + 1 = N /\ N \in 0..N /\ N - 1 \in 0..N
    BY <2>1
  <2>7. g[N] = h[N - 1]
    <3> HIDE DEF G
    <3>1. N - 1 \in G
      BY <2>4, <2>5, <2>6, InductionOnNat
    <3>2. (N - 1) + 1 \in 0..N => g[(N - 1) + 1] = h[N - 1]
      BY <3>1 DEF G
    <3> QED BY <2>6, <3>2
  <2>8. h[N] = Onward(ss, h[N - 1])
    <3>1. (N - 1) + 1 \in 0..N => h[(N - 1) + 1] = Onward(ss, h[N - 1])
      BY <2>2, <2>6
    <3> QED BY <2>6, <3>1
  <2>9. Live(ss[h[N - 1]])
    BY <1>5, <2>7
  <2> QED BY <1>2, <2>2, <2>7, <2>8, <2>9 DEF Onward, a
<1> QED BY <1>2, <1>5, <1>6, <1>7

\* ... and the only function that is.
LEMMA SurvivorUnique ==
    ASSUME NEW ss, Len(ss) \in Nat, NEW r, Ranked(ss, r), NEW c,
           \A n \in 1..Len(ss) : c[n] = IF Live(ss[n]) THEN n ELSE c[ss[n].absorbedBy]
    PROVE  \A n \in 1..Len(ss) : Survivor(ss, n) = c[n]
<1> DEFINE G == {k \in Nat : \A n \in 1..Len(ss) : r[n] <= k => Survivor(ss, n) = c[n]}
<1>1. \A n \in 1..Len(ss) : r[n] \in Nat
  BY DEF Ranked
<1>2. ASSUME NEW n \in 1..Len(ss), Live(ss[n]) PROVE Survivor(ss, n) = c[n]
  BY <1>2, SurvivorUnfolds
<1>3. ASSUME NEW n \in 1..Len(ss), ~Live(ss[n])
      PROVE  /\ ss[n].absorbedBy \in 1..Len(ss) /\ r[ss[n].absorbedBy] < r[n]
             /\ c[n] = c[ss[n].absorbedBy]
             /\ Survivor(ss, n) = Survivor(ss, ss[n].absorbedBy)
  BY <1>3, SurvivorUnfolds DEF Ranked
<1>4. 0 \in G
  <2> SUFFICES ASSUME NEW n \in 1..Len(ss), r[n] <= 0 PROVE Survivor(ss, n) = c[n]
    OBVIOUS
  <2>1. CASE Live(ss[n])
    BY <1>2, <2>1
  <2>2. CASE ~Live(ss[n])
    <3> DEFINE a == ss[n].absorbedBy
    <3>1. r[a] < r[n] /\ r[a] \in Nat /\ r[n] \in Nat
      BY <1>1, <1>3, <2>2
    <3> HIDE DEF a
    <3> QED BY <3>1
  <2> QED BY <2>1, <2>2
<1>5. ASSUME NEW k \in Nat, k \in G PROVE k + 1 \in G
  <2> SUFFICES ASSUME NEW n \in 1..Len(ss), r[n] <= k + 1 PROVE Survivor(ss, n) = c[n]
    OBVIOUS
  <2>1. CASE Live(ss[n])
    BY <1>2, <2>1
  <2>2. CASE ~Live(ss[n])
    <3> DEFINE a == ss[n].absorbedBy
    <3>1. /\ a \in 1..Len(ss) /\ r[a] < r[n] /\ r[a] \in Nat /\ r[n] \in Nat
          /\ c[n] = c[a] /\ Survivor(ss, n) = Survivor(ss, a)
      BY <1>1, <1>3, <2>2
    <3> HIDE DEF a
    <3>2. r[a] <= k
      BY <3>1
    <3>3. Survivor(ss, a) = c[a]
      BY <1>5, <3>1, <3>2
    <3> QED BY <3>1, <3>3
  <2> QED BY <2>1, <2>2
<1> HIDE DEF G
<1>6. Nat \subseteq G
  BY <1>4, <1>5, InductionOnNat
<1>7. ASSUME NEW n \in 1..Len(ss) PROVE Survivor(ss, n) = c[n]
  <2>1. r[n] \in G /\ r[n] <= r[n]
    BY <1>1, <1>6
  <2> QED BY <2>1 DEF G
<1> QED BY <1>7
-----------------------------------------------------------------------------
(* Steps. *)

LEMMA RemoveStep ==
    ASSUME NEW q \in Seq(Step), NEW x \in 1..Len(q), NEW lo, NEW hi, Sorted(q), Span(q, lo, hi)
    PROVE  LET u == RemoveAt(q, x)
           IN  u \in Seq(Step) /\ Len(u) = Len(q) - 1 /\ Sorted(u) /\ Span(u, lo, hi)
<1> DEFINE A == SubSeq(q, 1, x - 1)
           B == SubSeq(q, x + 1, Len(q))
           u == A \o B
           N == Len(q)
<1>1. N \in Nat /\ x \in 1..N /\ \A i \in 1..N : q[i] \in Step
  OBVIOUS
<1>2. A \in Seq(Step) /\ Len(A) = x - 1 /\ \A i \in 1..(x - 1) : A[i] = q[i]
  BY <1>1
<1>3. B \in Seq(Step) /\ Len(B) = N - x /\ \A i \in 1..(N - x) : B[i] = q[x + i]
  BY <1>1
<1> HIDE DEF A, B, N
<1>0. /\ u \in Seq(Step) /\ Len(u) = Len(A) + Len(B)
      /\ \A i \in 1..(Len(A) + Len(B)) : u[i] = IF i <= Len(A) THEN A[i] ELSE B[i - Len(A)]
  BY <1>2, <1>3, ConcatProperties
<1> HIDE DEF u
<1>a. Len(A) + Len(B) = N - 1
  BY <1>1, <1>2, <1>3
<1>4. u \in Seq(Step) /\ Len(u) = N - 1
  BY <1>0, <1>a
<1>5. \A i \in 1..(N - 1) : u[i] = IF i <= x - 1 THEN A[i] ELSE B[i - (x - 1)]
  BY <1>0, <1>2, <1>a
<1>6. \A i \in 1..(N - 1) : u[i] = q[IF i < x THEN i ELSE i + 1]
  <2> TAKE i \in 1..(N - 1)
  <2>1. CASE i < x
    BY <1>1, <1>2, <1>5, <2>1
  <2>2. CASE i >= x
    <3>1. i - (x - 1) \in 1..(N - x) /\ x + (i - (x - 1)) = i + 1 /\ ~(i <= x - 1) /\ ~(i < x)
      BY <1>1, <2>2
    <3> QED BY <1>3, <1>5, <3>1
  <2> QED BY <1>1, <2>1, <2>2
<1> DEFINE at(i) == IF i < x THEN i ELSE i + 1
<1>7. \A i \in 1..(N - 1) : at(i) \in 1..N
  BY <1>1
<1>8. \A i, j \in 1..(N - 1) : i < j => at(i) < at(j)
  BY <1>1
<1>9. \A i \in 1..(N - 1) : u[i] = q[at(i)]
  BY <1>6
<1> HIDE DEF at
<1>10. Sorted(u)
  BY <1>4, <1>7, <1>8, <1>9 DEF Sorted, N
<1>11. Span(u, lo, hi)
  BY <1>4, <1>7, <1>9 DEF Span, N
<1> QED BY <1>4, <1>10, <1>11 DEF RemoveAt, u, A, B, N

LEMMA StepType ==
    ASSUME NEW st \in Step
    PROVE  /\ Told(st) \in Int /\ Loss(st) \in Nat
           /\ st.off \in Int /\ st.ts \in Nat /\ st.moved \in Nat /\ st.pid \in PIDs
<1>1. st.off \in Int /\ st.ts \in Nat /\ st.moved \in Nat /\ st.pid \in PIDs
  BY DEF Step
<1>2. Milli \in Nat /\ 1 + st.moved \in Nat
  BY <1>1, StorylineAssumption
<1> QED BY <1>1, <1>2 DEF Told, Loss

LEMMA AppendStep ==
    ASSUME NEW q \in Seq(Step), NEW lo \in Nat, NEW h \in Int, Sorted(q), Span(q, lo, h),
           NEW st \in Step, Tell(st, lo), h - Told(st) < Slack,
           NEW k \in Int, h <= k, Told(st) <= k
    PROVE  LET u == Append(q, st)
           IN  u \in Seq(Step) /\ Len(u) = Len(q) + 1 /\ Sorted(u) /\ Span(u, lo, k)
<1> DEFINE u == Append(q, st)
           N == Len(q)
           e == Told(st)
<1>1. /\ u \in Seq(Step) /\ Len(u) = N + 1 /\ u[N + 1] = st /\ N \in Nat
      /\ \A i \in 1..N : u[i] = q[i]
  BY AppendProperties
<1>2. /\ e \in Int /\ Slack \in Int
      /\ \A i \in 1..N : Told(q[i]) \in Int /\ Told(q[i]) <= h /\ Tell(q[i], lo)
  <2>1. \A i \in 1..N : q[i] \in Step
    OBVIOUS
  <2>2. \A x \in Step : Told(x) \in Int
    BY StepType
  <2> QED BY <2>1, <2>2, StorylineAssumption DEF Span, Slack
<1>3. h - e < Slack /\ e <= k /\ Tell(st, lo)
  OBVIOUS
<1> HIDE DEF u, N, e
<1>4. \A i \in 1..(N + 1) : i = N + 1 \/ i \in 1..N
  BY <1>1
<1>5. \A i \in 1..N : Tell(u[i], lo) /\ Told(u[i]) <= k /\ Told(u[i]) - e < Slack
  <2> TAKE i \in 1..N
  <2> DEFINE x == Told(q[i])
  <2>1. x \in Int /\ x <= h /\ Tell(q[i], lo)
    BY <1>2
  <2> HIDE DEF x
  <2>2. x <= k /\ x - e < Slack
    BY <1>2, <1>3, <2>1
  <2> QED BY <1>1, <2>1, <2>2 DEF x
<1>6. Told(u[N + 1]) = e
  BY <1>1 DEF e
<1>7. Span(u, lo, k)
  BY <1>1, <1>2, <1>3, <1>4, <1>5, <1>6 DEF Span
<1>8. Sorted(u)
  <2> SUFFICES ASSUME NEW i \in 1..(N + 1), NEW j \in 1..(N + 1), i < j
               PROVE  Told(u[i]) - Told(u[j]) < Slack
    BY <1>1 DEF Sorted
  <2>1. i \in 1..N
    BY <1>1
  <2>2. CASE j = N + 1
    BY <1>5, <1>6, <2>1, <2>2
  <2>3. CASE j \in 1..N
    BY <1>1, <2>1, <2>3 DEF Sorted, N
  <2> QED BY <1>4, <2>2, <2>3
<1> QED BY <1>1, <1>7, <1>8 DEF u, N, e

LEMMA SpanGrows ==
    ASSUME NEW q \in Seq(Step), NEW lo, NEW h \in Int, Span(q, lo, h), NEW k \in Int, h <= k
    PROVE  Span(q, lo, k)
<1> SUFFICES ASSUME NEW i \in 1..Len(q) PROVE Tell(q[i], lo) /\ Told(q[i]) <= k
  BY DEF Span
<1> DEFINE x == Told(q[i])
<1>1. x \in Int /\ x <= h /\ Tell(q[i], lo)
  <2>1. q[i] \in Step
    OBVIOUS
  <2> QED BY <2>1, StepType DEF Span
<1> HIDE DEF x
<1>2. x <= k
  BY <1>1
<1> QED BY <1>1, <1>2 DEF x

\* addStep makes room, and keeps the order: what it adds is told to be later
\* than all there is, or earlier by less than the slack.
LEMMA AddStepKeeps ==
    ASSUME NEW lo \in Nat, NEW h \in Int, NEW q, Fits(q, lo, h),
           NEW st \in Step, Tell(st, lo), h - Told(st) < Slack,
           NEW k \in Int, h <= k, Told(st) <= k
    PROVE  Fits(addStep(q, st), lo, k)
<1> DEFINE plain == {i \in 1..Len(q) : ~q[i].pivotal}
           evict == IF plain = {} THEN 1 ELSE CHOOSE i \in plain : \A j \in plain : i <= j
           M == MaxStorySteps
           u == RemoveAt(q, evict)
<1>1. q \in Seq(Step) /\ Len(q) <= M /\ Sorted(q) /\ Span(q, lo, h) /\ Len(q) \in Nat
  BY DEF Fits
<1>2. M \in Nat /\ M >= 1
  BY StorylineAssumption
<1> HIDE DEF M
<1>3. CASE Len(q) < M
  <2>1. addStep(q, st) = Append(q, st)
    BY <1>3 DEF addStep, M
  <2>2. LET w == Append(q, st)
        IN  w \in Seq(Step) /\ Len(w) = Len(q) + 1 /\ Sorted(w) /\ Span(w, lo, k)
    BY <1>1, AppendStep
  <2>3. Len(q) + 1 <= M
    BY <1>1, <1>2, <1>3
  <2> QED BY <2>1, <2>2, <2>3 DEF Fits, M
<1>4. CASE Len(q) >= M /\ plain = {} /\ ~st.pivotal
  <2>1. addStep(q, st) = q
    BY <1>1, <1>2, <1>4 DEF addStep, M
  <2>2. Span(q, lo, k)
    BY <1>1, SpanGrows
  <2> QED BY <1>1, <2>1, <2>2 DEF Fits, M
<1>5. CASE Len(q) >= M /\ ~(plain = {} /\ ~st.pivotal)
  <2>1. addStep(q, st) = Append(u, st)
    <3>1. ~(Len(q) < MaxStorySteps)
      BY <1>1, <1>2, <1>5 DEF M
    <3> QED BY <1>5, <3>1, Zenon DEF addStep
  <2>2. evict \in 1..Len(q)
    <3>1. CASE plain = {}
      BY <1>1, <1>2, <1>5, <3>1
    <3>2. CASE plain # {}
      <4>1. plain \subseteq Nat
        BY <1>1
      <4> HIDE DEF plain
      <4>2. PICK m \in plain : \A j \in plain : ~(<<j, m>> \in OpToRel(<, Nat))
        BY <3>2, <4>1, NatLessThanWellFounded, WFMin
      <4>3. \A j \in plain : m <= j
        <5> TAKE j \in plain
        <5>1. ~(j < m) /\ j \in Nat /\ m \in Nat
          BY <4>1, <4>2 DEF OpToRel
        <5> QED BY <5>1
      <4>4. evict \in plain
        BY <3>2, <4>3
      <4> QED BY <4>4 DEF plain
    <3> QED BY <3>1, <3>2
  <2> HIDE DEF evict
  <2>3. u \in Seq(Step) /\ Len(u) = Len(q) - 1 /\ Sorted(u) /\ Span(u, lo, h)
    BY <1>1, <2>2, RemoveStep
  <2> HIDE DEF u
  <2>4. LET w == Append(u, st)
        IN  w \in Seq(Step) /\ Len(w) = Len(u) + 1 /\ Sorted(w) /\ Span(w, lo, k)
    BY <2>3, AppendStep
  <2>5. Len(u) + 1 = Len(q)
    BY <1>1, <2>3
  <2> QED BY <1>1, <2>1, <2>4, <2>5 DEF Fits, M
<1>6. Len(q) < M \/ Len(q) >= M
  BY <1>1, <1>2
<1> HIDE DEF plain
<1> QED BY <1>3, <1>4, <1>5, <1>6

\* Before and the rank of a step, as SortSteps has them.
Earlier(q, i, j) == q[i].off < q[j].off \/ (q[i].off = q[j].off /\ i < j)
Rank(q, i) == Cardinality({j \in 1..Len(q) : Earlier(q, j, i)})

Ordered(q) == \A i, j \in 1..Len(q) : i < j => q[i].off <= q[j].off

\* The ranks of the steps are 0 to one less than their number, each once, and
\* order them: SortSteps is a sort.
LEMMA SortIs ==
    ASSUME NEW q \in Seq(Step)
    PROVE  /\ SortSteps(q) \in Seq(Step) /\ Len(SortSteps(q)) = Len(q) /\ Ordered(SortSteps(q))
           /\ \A k \in 1..Len(q) : \E i \in 1..Len(q) : SortSteps(q)[k] = q[i]
<1> DEFINE N == Len(q)
           I == 1..N
           R(i) == {j \in I : Earlier(q, j, i)}
           f == [i \in I |-> Rank(q, i)]
<1>1. N \in Nat /\ \A i \in I : q[i] \in Step /\ q[i].off \in Int
  <2>1. \A y \in Step : y.off \in Int
    BY DEF Step
  <2> QED BY <2>1
<1>2. IsFiniteSet(I) /\ Cardinality(I) = N
  <2>1. IsFiniteSet(1..N) /\ Cardinality(1..N) = IF 1 > N THEN 0 ELSE N - 1 + 1
    BY <1>1, FS_Interval
  <2> HIDE DEF N
  <2>2. (IF 1 > N THEN 0 ELSE N - 1 + 1) = N
    BY <1>1
  <2> QED BY <2>1, <2>2
<1>3. \A i, j \in I : Earlier(q, i, j) => ~Earlier(q, j, i) /\ i # j
  <2> SUFFICES ASSUME NEW i \in I, NEW j \in I, Earlier(q, i, j) PROVE ~Earlier(q, j, i) /\ i # j
    OBVIOUS
  <2> DEFINE x == q[i].off
             y == q[j].off
  <2>1. x \in Int /\ y \in Int /\ i \in Nat /\ j \in Nat /\ (x < y \/ (x = y /\ i < j))
    BY <1>1 DEF Earlier
  <2>2. Earlier(q, j, i) <=> (y < x \/ (y = x /\ j < i))
    BY DEF Earlier
  <2>3. i = j => x = y
    OBVIOUS
  <2> HIDE DEF x, y
  <2> QED BY <2>1, <2>2, <2>3
<1>4. \A i, j \in I : i # j => Earlier(q, i, j) \/ Earlier(q, j, i)
  <2> SUFFICES ASSUME NEW i \in I, NEW j \in I, i # j PROVE Earlier(q, i, j) \/ Earlier(q, j, i)
    OBVIOUS
  <2> DEFINE x == q[i].off
             y == q[j].off
  <2>1. x \in Int /\ y \in Int /\ i \in Nat /\ j \in Nat
    BY <1>1
  <2>2. /\ Earlier(q, j, i) <=> (y < x \/ (y = x /\ j < i))
        /\ Earlier(q, i, j) <=> (x < y \/ (x = y /\ i < j))
    BY DEF Earlier
  <2> HIDE DEF x, y
  <2> QED BY <2>1, <2>2
<1>5. \A i, j, k \in I : Earlier(q, i, j) /\ Earlier(q, j, k) => Earlier(q, i, k)
  <2> SUFFICES ASSUME NEW i \in I, NEW j \in I, NEW k \in I, Earlier(q, i, j), Earlier(q, j, k)
               PROVE  Earlier(q, i, k)
    OBVIOUS
  <2> DEFINE x == q[i].off
             y == q[j].off
             z == q[k].off
  <2>1. /\ x \in Int /\ y \in Int /\ z \in Int /\ i \in Nat /\ j \in Nat /\ k \in Nat
        /\ (x < y \/ (x = y /\ i < j)) /\ (y < z \/ (y = z /\ j < k))
    BY <1>1 DEF Earlier
  <2>2. Earlier(q, i, k) <=> (x < z \/ (x = z /\ i < k))
    BY DEF Earlier
  <2> HIDE DEF x, y, z
  <2> QED BY <2>1, <2>2
<1>6. \A i \in I : IsFiniteSet(R(i)) /\ f[i] = Cardinality(R(i)) /\ f[i] \in 0..(N - 1)
  <2> TAKE i \in I
  <2> DEFINE TT == R(i)
             W == I \ {i}
  <2>1. f[i] = Cardinality(TT)
    BY DEF Rank
  <2>2. TT \in SUBSET W
    BY <1>3
  <2> HIDE DEF TT
  <2>3. IsFiniteSet(W) /\ Cardinality(W) = N - 1
    BY <1>2, FS_RemoveElement
  <2> HIDE DEF W, f
  <2>4. IsFiniteSet(TT) /\ Cardinality(TT) <= N - 1 /\ Cardinality(TT) \in Nat
    BY <2>2, <2>3, FS_Subset, FS_CardinalityType
  <2> QED BY <1>1, <2>1, <2>4 DEF TT
<1>7. ASSUME NEW i \in I, NEW j \in I, Earlier(q, i, j) PROVE f[i] < f[j]
  <2> DEFINE A == R(i)
             B == R(j)
  <2>1. A \in SUBSET B /\ i \in B /\ i \notin A
    BY <1>3, <1>5, <1>7
  <2>2. IsFiniteSet(A) /\ IsFiniteSet(B) /\ f[i] = Cardinality(A) /\ f[j] = Cardinality(B)
    BY <1>6
  <2>3. f[i] \in 0..(N - 1) /\ f[j] \in 0..(N - 1)
    BY <1>6
  <2> HIDE DEF A, B, f
  <2>4. Cardinality(A) <= Cardinality(B) /\ (Cardinality(B) = Cardinality(A) => B = A)
    BY <2>1, <2>2, FS_Subset
  <2>5. f[i] # f[j]
    BY <2>1, <2>2, <2>4
  <2> QED BY <2>2, <2>3, <2>4, <2>5
<1>8. f \in Surjection(I, 0..(N - 1))
  <2> DEFINE TT == 0..(N - 1)
  <2>1. f \in [I -> TT] /\ f = [i \in I |-> f[i]]
    BY <1>6
  <2>2. \A i \in I : f[i] \in TT
    BY <1>6
  <2>3. \A i, j \in I : f[i] = f[j] => i = j
    <3> HIDE DEF f, I
    <3> SUFFICES ASSUME NEW i \in I, NEW j \in I, f[i] = f[j], i # j PROVE FALSE
      OBVIOUS
    <3>1. f[i] < f[j] \/ f[j] < f[i]
      BY <1>4, <1>7
    <3>2. f[i] \in TT /\ f[j] \in TT
      BY <2>2
    <3> DEFINE x == f[i]
    <3>3. (x < x) /\ x \in Int
      BY <3>1, <3>2
    <3> HIDE DEF x
    <3> QED BY <3>3
  <2>4. IsFiniteSet(TT) /\ Cardinality(TT) = N
    <3>1. N - 1 \in Int
      BY <1>1
    <3>2. IsFiniteSet(0..(N - 1)) /\ Cardinality(0..(N - 1)) = IF 0 > N - 1 THEN 0 ELSE (N - 1) - 0 + 1
      BY <3>1, FS_Interval, SMTT(40)
    <3> HIDE DEF N
    <3>3. (IF 0 > N - 1 THEN 0 ELSE (N - 1) - 0 + 1) = N
      BY <1>1
    <3> QED BY <3>2, <3>3
  <2> HIDE DEF f, I, TT
  <2>5. f \in Injection(I, TT)
    BY <2>1, <2>3 DEF Injection, IsInjective
  <2>6. f \in Surjection(I, TT)
    BY <1>2, <2>4, <2>5, FS_Injection
  <2> QED BY <2>6 DEF TT
<1> DEFINE pos(k) == CHOOSE i \in I : Cardinality({j \in I : Earlier(q, j, i)}) = k - 1
           srt == [k \in I |-> q[pos(k)]]
<1>9. SortSteps(q) = srt
  BY DEF SortSteps, Earlier
<1>10. \A k \in I : pos(k) \in I /\ f[pos(k)] = k - 1
  <2> TAKE k \in I
  <2>1. k - 1 \in 0..(N - 1)
    BY <1>1
  <2>2. PICK i \in I : f[i] = k - 1
    BY <1>8, <2>1 DEF Surjection
  <2>3. \A i2 \in I : f[i2] = Cardinality({j \in I : Earlier(q, j, i2)})
    BY DEF Rank
  <2> HIDE DEF f, I
  <2>4. pos(k) \in I /\ Cardinality({j \in I : Earlier(q, j, pos(k))}) = k - 1
    BY <2>2, <2>3, Zenon
  <2> QED BY <2>3, <2>4
<1> HIDE DEF pos, f
<1>11. srt \in [I -> Step] /\ \A k \in I : srt[k] = q[pos(k)]
  BY <1>1, <1>10
<1>12. srt \in Seq(Step) /\ Len(srt) = N
  BY <1>1, <1>11
<1> HIDE DEF srt
<1>13. \A k, l \in I : k < l => srt[k].off <= srt[l].off
  <2> SUFFICES ASSUME NEW k \in I, NEW l \in I, k < l PROVE q[pos(k)].off <= q[pos(l)].off
    BY <1>11
  <2> DEFINE a == pos(k)
             b == pos(l)
  <2>1. a \in I /\ b \in I /\ f[a] = k - 1 /\ f[b] = l - 1
    BY <1>10
  <2> HIDE DEF a, b
  <2>2. f[a] # f[b] /\ ~(f[b] < f[a])
    BY <1>1, <2>1
  <2>3. a # b
    BY <2>2
  <2>4. Earlier(q, a, b)
    BY <1>4, <1>7, <2>1, <2>2, <2>3
  <2> DEFINE x == q[a].off
             y == q[b].off
  <2>5. x \in Int /\ y \in Int /\ (x < y \/ x = y)
    BY <1>1, <2>1, <2>4 DEF Earlier
  <2> HIDE DEF x, y
  <2>6. x <= y
    BY <2>5
  <2> QED BY <2>6 DEF x, y, a, b
<1>14. Ordered(srt)
  BY <1>12, <1>13 DEF Ordered
<1> QED BY <1>9, <1>10, <1>11, <1>12, <1>14

LEMMA EmptyFits ==
    ASSUME NEW lo, NEW hi
    PROVE  Fits(<<>>, lo, hi)
<1>1. <<>> \in Seq(Step) /\ Len(<<>>) = 0
  OBVIOUS
<1>2. 0 <= MaxStorySteps
  BY StorylineAssumption
<1> QED BY <1>1, <1>2 DEF Fits, Sorted, Span

RefitBody(m, g, i) == IF i = 0 THEN <<>> ELSE addStep(g[i - 1], m[i])

LEMMA RefitsExist ==
    ASSUME NEW m, Len(m) \in Nat
    PROVE  \E g : g = [i \in 0..Len(m) |-> RefitBody(m, g, i)]
<1> DEFINE N == Len(m)
           Upto(n, g) == \A i \in 0..N : i <= n => g[i] = RefitBody(m, g, i)
           G == {n \in Nat : \E g : Upto(n, g)}
<1>1. 0 \in G
  <2> DEFINE g == [i \in 0..N |-> <<>>]
  <2>1. Upto(0, g)
    BY DEF RefitBody
  <2> QED BY <2>1
<1>2. ASSUME NEW n \in Nat, n \in G PROVE n + 1 \in G
  <2>1. PICK g : Upto(n, g)
    BY <1>2
  <2> DEFINE h == [i \in 0..N |-> RefitBody(m, g, i)]
  <2>2. \A i \in 0..N : i <= n => h[i] = g[i]
    BY <2>1
  <2>3. \A i \in 0..N : i <= n + 1 => RefitBody(m, h, i) = RefitBody(m, g, i)
    <3> TAKE i \in 0..N
    <3> HAVE i <= n + 1
    <3>1. CASE i = 0
      BY <3>1 DEF RefitBody
    <3>2. CASE i # 0
      <4>1. i - 1 \in 0..N /\ i - 1 <= n
        BY <3>2
      <4>2. h[i - 1] = g[i - 1]
        BY <2>2, <4>1
      <4> HIDE DEF h
      <4> QED BY <3>2, <4>2 DEF RefitBody
    <3> QED BY <3>1, <3>2
  <2>4. Upto(n + 1, h)
    BY <2>3
  <2> HIDE DEF h, Upto
  <2>5. n + 1 \in Nat
    OBVIOUS
  <2> QED BY <2>4, <2>5
<1>3. N \in G
  <2> HIDE DEF G
  <2>1. Nat \subseteq G
    BY <1>1, <1>2, InductionOnNat
  <2> QED BY <2>1
<1>4. PICK g : Upto(N, g)
  BY <1>3
<1> DEFINE h == [i \in 0..N |-> g[i]]
<1>5. \A i \in 0..N : g[i] = RefitBody(m, g, i)
  BY <1>4
<1>6. \A i \in 0..N : RefitBody(m, h, i) = RefitBody(m, g, i)
  <2> TAKE i \in 0..N
  <2>1. CASE i = 0
    BY <2>1 DEF RefitBody
  <2>2. CASE i # 0
    <3>1. i - 1 \in 0..N
      BY <2>2
    <3>2. h[i - 1] = g[i - 1]
      BY <3>1
    <3> HIDE DEF h
    <3> QED BY <2>2, <3>2 DEF RefitBody
  <2> QED BY <2>1, <2>2
<1>7. h = [i \in 0..N |-> RefitBody(m, h, i)]
  BY <1>5, <1>6
<1> QED BY <1>7

\* Whole milliseconds.
LEMMA DivIs ==
    ASSUME NEW x \in Nat
    PROVE  /\ x \div Milli \in Nat
           /\ Milli * (x \div Milli) <= x /\ x < Milli * (x \div Milli) + Milli
<1>1. Milli \in Nat \ {0}
  BY StorylineAssumption
<1> QED BY <1>1

\* Truncation loses less than a millisecond, towards zero.
LEMMA MillisIs ==
    ASSUME NEW d \in Int
    PROVE  /\ Millis(d) \in Int /\ Milli * Millis(d) \in Int
           /\ d < Milli * Millis(d) + Milli
           /\ d >= 0 => Milli * Millis(d) <= d
           /\ d < 0 => d <= Milli * Millis(d) /\ Milli * Millis(d) <= 0
<1>0. Milli \in Nat \ {0}
  BY StorylineAssumption
<1>1. CASE d >= 0
  <2> DEFINE k == d \div Milli
  <2>1. d \in Nat
    BY <1>1
  <2>2. k \in Nat /\ Milli * k <= d /\ d < Milli * k + Milli
    BY <2>1, DivIs
  <2>3. Millis(d) = k
    BY <1>1 DEF Millis
  <2> HIDE DEF k
  <2> QED BY <1>0, <1>1, <2>2, <2>3
<1>2. CASE d < 0
  <2> DEFINE k == (-d) \div Milli
             x == Milli * k
  <2>1. -d \in Nat
    BY <1>2
  <2>2. k \in Nat /\ x <= -d /\ -d < x + Milli
    BY <2>1, DivIs
  <2>3. Millis(d) = -k
    BY <1>2 DEF Millis
  <2> HIDE DEF k
  <2>4. Milli * (-k) = -x /\ x \in Nat
    BY <1>0, <2>2
  <2> HIDE DEF x
  <2> QED BY <1>0, <1>2, <2>2, <2>3, <2>4
<1> QED BY <1>1, <1>2

LEMMA ToldMonotone ==
    ASSUME NEW x \in Step, NEW y \in Step, x.off <= y.off
    PROVE  Told(x) <= Told(y)
<1> DEFINE a == x.off
           b == y.off
<1>1. a \in Int /\ b \in Int /\ a <= b /\ Milli \in Nat
  BY StepType, StorylineAssumption
<1> HIDE DEF a, b
<1>2. Milli * a <= Milli * b
  BY <1>1
<1> QED BY <1>2 DEF Told, a, b

\* The steps of a merge, added one by one in their order, fit.
LEMMA RefitKeeps ==
    ASSUME NEW m \in Seq(Step), Ordered(m), NEW lo \in Nat, NEW hi \in Int, Span(m, lo, hi)
    PROVE  Fits(Refit(m), lo, hi)
<1> DEFINE N == Len(m)
           g == CHOOSE z : z = [i \in 0..N |-> RefitBody(m, z, i)]
           top(i) == Told(m[IF i = 0 THEN 1 ELSE i])
           G == {i \in Nat : i \in 0..N => Fits(g[i], lo, top(i))}
<1>0. /\ N \in Nat /\ Slack \in Int /\ Slack > 0
      /\ \A i \in 1..N : m[i] \in Step /\ Told(m[i]) \in Int /\ Told(m[i]) <= hi /\ Tell(m[i], lo)
  <2>1. \A y \in Step : Told(y) \in Int
    BY StepType
  <2> QED BY <2>1, StorylineAssumption DEF Span, Slack
<1>1. g = [i \in 0..N |-> RefitBody(m, g, i)]
  BY <1>0, RefitsExist, Zenon
<1>2. Refit(m) = g[N]
  BY DEF Refit, RefitBody
<1> HIDE DEF g
<1>3. \A i \in 0..N : g[i] = RefitBody(m, g, i)
  BY <1>1
<1>9. g[0] = <<>>
  BY <1>0, <1>3 DEF RefitBody
<1>10. CASE N = 0
  <2>1. Fits(<<>>, lo, hi)
    BY EmptyFits
  <2> QED BY <1>2, <1>9, <1>10, <2>1
<1>11. CASE N # 0
  <2>1. 0 \in G
    <3>1. Fits(<<>>, lo, top(0))
      BY EmptyFits
    <3> QED BY <1>9, <3>1
  <2>2. ASSUME NEW i \in Nat, i \in G PROVE i + 1 \in G
    <3> SUFFICES ASSUME i + 1 \in 0..N PROVE Fits(g[i + 1], lo, top(i + 1))
      OBVIOUS
    <3>1. i \in 0..N /\ i + 1 # 0 /\ (i + 1) - 1 = i /\ i + 1 \in 1..N /\ 1 \in 1..N
      BY <1>0
    <3>2. Fits(g[i], lo, top(i))
      BY <2>2, <3>1
    <3>3. g[i + 1] = addStep(g[i], m[i + 1])
      <4>1. g[i + 1] = RefitBody(m, g, i + 1)
        BY <1>3
      <4> QED BY <3>1, <4>1 DEF RefitBody
    <3> DEFINE st == m[i + 1]
               e == top(i + 1)
               h == top(i)
    <3>4. e = Told(st) /\ st \in Step /\ Tell(st, lo) /\ e \in Int
      BY <1>0, <3>1
    <3>5. h \in Int /\ h <= e
      <4>1. CASE i = 0
        BY <3>4, <4>1
      <4>2. CASE i # 0
        <5>1. i \in 1..N /\ i < i + 1
          BY <3>1, <4>2
        <5>2. m[i].off <= st.off /\ m[i] \in Step
          BY <1>0, <3>1, <5>1 DEF Ordered
        <5> QED BY <1>0, <3>4, <4>2, <5>1, <5>2, ToldMonotone
      <4> QED BY <4>1, <4>2
    <3> HIDE DEF st, e, h, top
    <3>6. h - e < Slack /\ e <= e
      BY <1>0, <3>4, <3>5
    <3>7. Fits(addStep(g[i], st), lo, e)
      <4>1. Fits(g[i], lo, h)
        BY <3>2 DEF h
      <4> QED BY <3>4, <3>5, <3>6, <4>1, AddStepKeeps
    <3> QED BY <3>3, <3>7 DEF st, e
  <2>3. Fits(g[N], lo, top(N))
    <3> HIDE DEF G
    <3>1. N \in G
      BY <1>0, <2>1, <2>2, InductionOnNat
    <3> QED BY <1>0, <3>1 DEF G
  <2>4. top(N) <= hi /\ top(N) \in Int
    BY <1>0, <1>11
  <2> DEFINE u == g[N]
             h == top(N)
  <2> HIDE DEF u, h, top
  <2>5. u \in Seq(Step) /\ Len(u) <= MaxStorySteps /\ Sorted(u) /\ Span(u, lo, h)
    BY <2>3 DEF Fits, u, h
  <2>6. h \in Int /\ h <= hi
    BY <2>4 DEF h
  <2>7. Fits(u, lo, hi)
    BY <2>5, <2>6, SpanGrows DEF Fits
  <2> QED BY <1>2, <2>7 DEF u
<1> QED BY <1>10, <1>11

\* A step whose offset is shifted by x stamps, truncated, tells the same in a
\* story that began x earlier.
LEMMA ShiftTells ==
    ASSUME NEW st \in Step, NEW l2 \in Nat, Tell(st, l2), NEW lo \in Nat, lo <= l2,
           NEW t \in Int, Told(st) <= t - l2,
           NEW st2, st2 = [st EXCEPT !.off = @ + Millis(l2 - lo), !.moved = @ + 1]
    PROVE  st2 \in Step /\ Tell(st2, lo) /\ Told(st2) <= t - lo
<1> DEFINE x == Millis(l2 - lo)
           y == Milli * x
           a == st.off
           c == st.moved
           e == st.ts
<1>0. Milli \in Nat \ {0} /\ Skew \in Nat
  BY StorylineAssumption
<1>1. x \in Int /\ y \in Int /\ y <= l2 - lo /\ l2 - lo < y + Milli
  <2>1. l2 - lo \in Int /\ l2 - lo >= 0
    OBVIOUS
  <2> QED BY <2>1, MillisIs
<1>2. a \in Int /\ c \in Nat /\ e \in Nat
  BY StepType
<1> HIDE DEF x
<1>3. st2 \in Step /\ st2.off = a + x /\ st2.moved = c + 1 /\ st2.ts = e
  <2>1. DOMAIN st = {"off", "pid", "pivotal", "ts", "moved"} /\ st.pid \in PIDs /\ st.pivotal \in BOOLEAN
    BY DEF Step
  <2>2. /\ st2 = [z \in DOMAIN st |-> st2[z]]
        /\ st2.off = a + x /\ st2.moved = c + 1
        /\ st2.ts = e /\ st2.pid = st.pid /\ st2.pivotal = st.pivotal
    BY <2>1 DEF x
  <2> HIDE DEF a, c, e
  <2>3. a + x \in Int /\ c + 1 \in Nat
    BY <1>1, <1>2
  <2>4. st2 = [off |-> st2.off, pid |-> st2.pid, pivotal |-> st2.pivotal, ts |-> st2.ts, moved |-> st2.moved]
    BY <2>1, <2>2
  <2> QED BY <1>2, <2>1, <2>2, <2>3, <2>4 DEF Step
<1> DEFINE T1 == Told(st)
           L1 == Loss(st)
<1>4. Told(st2) = T1 + y
  <2>1. Told(st2) = Milli * (a + x) /\ T1 = Milli * a
    BY <1>3 DEF Told
  <2> HIDE DEF a, T1
  <2>2. Milli * (a + x) = Milli * a + Milli * x
    BY <1>0, <1>1, <1>2
  <2> QED BY <2>1, <2>2
<1>5. Loss(st2) = L1 + Milli
  <2>1. Loss(st2) = Milli * (1 + (c + 1)) /\ L1 = Milli * (1 + c)
    BY <1>3 DEF Loss
  <2> HIDE DEF c, L1
  <2>2. Milli * (1 + (c + 1)) = Milli * (1 + c) + Milli
    BY <1>0, <1>2
  <2> QED BY <2>1, <2>2
<1>6. T1 \in Int /\ L1 \in Nat
  BY StepType
<1>7. l2 + T1 <= e + Skew /\ e < l2 + T1 + L1 /\ T1 <= t - l2
  BY DEF Tell
<1> HIDE DEF y, T1, L1, e
<1>8. lo + (T1 + y) <= e + Skew /\ e < lo + (T1 + y) + (L1 + Milli) /\ T1 + y <= t - lo
  BY <1>0, <1>1, <1>2, <1>6, <1>7
<1>9. st2.ts = e
  BY <1>3
<1>10. Tell(st2, lo) /\ Told(st2) <= t - lo
  BY <1>4, <1>5, <1>8, <1>9 DEF Tell
<1> QED BY <1>3, <1>10

\* Two stories, the second no older: their steps fit in the first.
LEMMA MergedSteps ==
    ASSUME NEW t \in Int, NEW dst, NEW src, dst.firstTS \in Nat, src.firstTS \in Nat,
           StepsOK(dst, t), StepsOK(src, t), dst.firstTS <= src.firstTS,
           NEW new, new.firstTS = dst.firstTS,
           new.steps = Refit(SortSteps(dst.steps \o Shifted(src.steps, src.firstTS, dst.firstTS)))
    PROVE  StepsOK(new, t)
<1> DEFINE p == dst.steps
           w == src.steps
           lo == dst.firstTS
           l2 == src.firstTS
           r == Shifted(w, l2, lo)
           m == p \o r
           q == SortSteps(m)
           hi == t - lo
<1>1. /\ p \in Seq(Step) /\ w \in Seq(Step) /\ Span(p, lo, hi) /\ Span(w, l2, t - l2)
      /\ lo \in Nat /\ l2 \in Nat /\ lo <= l2 /\ lo <= t
  BY DEF StepsOK, Fits
<1>2. new.firstTS = lo /\ new.steps = Refit(q)
  OBVIOUS
<1> HIDE DEF p, w, lo, l2
<1>3. Len(p) \in Nat /\ Len(w) \in Nat /\ hi \in Int
  BY <1>1
<1>4. ASSUME NEW i \in 1..Len(w) PROVE r[i] \in Step /\ Tell(r[i], lo) /\ Told(r[i]) <= hi
  <2> DEFINE st == w[i]
  <2>1. st \in Step /\ Tell(st, l2) /\ Told(st) <= t - l2
    BY <1>1 DEF Span
  <2>2. r[i] = [st EXCEPT !.off = @ + Millis(l2 - lo), !.moved = @ + 1]
    BY DEF Shifted
  <2> HIDE DEF st, r
  <2> QED BY <1>1, <2>1, <2>2, ShiftTells
<1>5. r \in Seq(Step) /\ Len(r) = Len(w)
  <2>1. r = [i \in 1..Len(w) |-> r[i]]
    BY DEF Shifted
  <2> HIDE DEF r
  <2>2. r \in [1..Len(w) -> Step]
    BY <1>4, <2>1
  <2> QED BY <1>3, <2>2
<1> HIDE DEF r, hi
<1>6. /\ m \in Seq(Step) /\ Len(m) = Len(p) + Len(r)
      /\ \A i \in 1..(Len(p) + Len(r)) : m[i] = IF i <= Len(p) THEN p[i] ELSE r[i - Len(p)]
  BY <1>1, <1>5, ConcatProperties
<1> HIDE DEF m
<1>7. \A i \in 1..Len(m) : Tell(m[i], lo) /\ Told(m[i]) <= hi
  <2> TAKE i \in 1..Len(m)
  <2>1. CASE i <= Len(p)
    <3>1. i \in 1..Len(p) /\ m[i] = p[i]
      BY <1>3, <1>6, <2>1
    <3> QED BY <1>1, <3>1 DEF Span
  <2>2. CASE ~(i <= Len(p))
    <3> DEFINE j == i - Len(p)
    <3>1. j \in 1..Len(w) /\ m[i] = r[j]
      BY <1>3, <1>5, <1>6, <2>2
    <3> HIDE DEF j
    <3> QED BY <1>4, <3>1
  <2> QED BY <2>1, <2>2
<1>8. /\ q \in Seq(Step) /\ Len(q) = Len(m) /\ Ordered(q)
      /\ \A k \in 1..Len(m) : \E i \in 1..Len(m) : q[k] = m[i]
  BY <1>6, SortIs
<1> HIDE DEF q
<1>9. Span(q, lo, hi)
  BY <1>7, <1>8 DEF Span
<1>10. Fits(Refit(q), lo, hi)
  BY <1>1, <1>3, <1>8, <1>9, RefitKeeps
<1> QED BY <1>1, <1>2, <1>10 DEF StepsOK, hi

LEMMA SameSteps ==
    ASSUME NEW t, NEW s, StepsOK(s, t), NEW s2, s2.steps = s.steps, s2.firstTS = s.firstTS
    PROVE  StepsOK(s2, t)
BY DEF StepsOK

-----------------------------------------------------------------------------
(* merge. *)

\* What merging s into d does to the stories.
Merged(ss, d, s, ss2) ==
    /\ IsSeq(ss2) /\ Len(ss2) = Len(ss)
    /\ \A n \in 1..Len(ss) \ {d, s} : ss2[n] = ss[n]
    /\ DOMAIN ss2[d] = Fields
    /\ ss2[d].members = ss[d].members \cup ss[s].members
    /\ ss2[d].tactics = ss[d].tactics \cup ss[s].tactics
    /\ ss2[d].steps =
             Refit(SortSteps(ss[d].steps \o Shifted(ss[s].steps, ss[s].firstTS, ss[d].firstTS)))
    /\ ss2[d].alerts = ss[d].alerts + ss[s].alerts
    /\ ss2[d].firstTS = ss[d].firstTS
    /\ ss2[d].lastTS = IF ss[s].lastTS > ss[d].lastTS THEN ss[s].lastTS ELSE ss[d].lastTS
    /\ ss2[d].reportedN =
          IF ss[s].reportedN > ss[d].reportedN THEN ss[s].reportedN ELSE ss[d].reportedN
    /\ ss2[d].absorbedBy = ss[d].absorbedBy
    /\ ss2[s] = [ss[s] EXCEPT !.absorbedBy = d]

LEMMA MergeIs ==
    ASSUME NEW st, IsSeq(st.stories), \A n \in 1..Len(st.stories) : StoryOK(st.stories[n]),
           NEW d \in 1..Len(st.stories), NEW s \in 1..Len(st.stories), d # s
    PROVE  /\ Merged(st.stories, d, s, merge(st, d, s).stories)
           /\ merge(st, d, s).byPID =
                 [p \in PIDs |-> IF p \in st.stories[s].members THEN d ELSE st.byPID[p]]
<1> DEFINE ss == st.stories
           ss2 == merge(st, d, s).stories
           upd == [ss[d] EXCEPT
                     !.members = ss[d].members \cup ss[s].members,
                     !.tactics = ss[d].tactics \cup ss[s].tactics,
                     !.steps =
             Refit(SortSteps(ss[d].steps \o Shifted(ss[s].steps, ss[s].firstTS, ss[d].firstTS))),
                     !.alerts = ss[d].alerts + ss[s].alerts,
                     !.lastTS = IF ss[s].lastTS > ss[d].lastTS THEN ss[s].lastTS ELSE ss[d].lastTS,
                     !.reportedN = IF ss[s].reportedN > ss[d].reportedN
                                   THEN ss[s].reportedN ELSE ss[d].reportedN]
           gone == [ss[s] EXCEPT !.absorbedBy = d]
<1>1. merge(st, d, s).byPID =
                 [p \in PIDs |-> IF p \in st.stories[s].members THEN d ELSE st.byPID[p]]
  BY DEF merge, MergedByPID
<1>2. ss = [i \in 1..Len(ss) |-> ss[i]] /\ Len(ss) \in Nat
  BY DEF IsSeq
<1>5. DOMAIN ss[d] = Fields
  BY DEF StoryOK
<1>3. /\ ss2 = [i \in 1..Len(ss) |-> ss2[i]]
      /\ \A i \in 1..Len(ss) \ {d, s} : ss2[i] = ss[i]
      /\ ss2[s] = gone
  <2>1. DOMAIN ss2 = 1..Len(ss) /\ ss2 = [i \in 1..Len(ss) |-> ss2[i]]
    BY <1>2 DEF merge
  <2>2. \A i \in 1..Len(ss) \ {d, s} : ss2[i] = ss[i]
    BY <1>2 DEF merge
  <2>3. ss2[s] = gone
    BY <1>2 DEF merge
  <2> HIDE DEF ss2
  <2> QED BY <2>1, <2>2, <2>3
<1>4. ss2[d] = upd
  BY <1>2, <1>5 DEF merge, MergedAlerts, Fields
<1> HIDE DEF ss2
<1>6. /\ DOMAIN upd = Fields
      /\ upd.members = ss[d].members \cup ss[s].members
      /\ upd.tactics = ss[d].tactics \cup ss[s].tactics
      /\ upd.steps =
             Refit(SortSteps(ss[d].steps \o Shifted(ss[s].steps, ss[s].firstTS, ss[d].firstTS)))
      /\ upd.alerts = ss[d].alerts + ss[s].alerts
      /\ upd.firstTS = ss[d].firstTS
      /\ upd.lastTS = IF ss[s].lastTS > ss[d].lastTS THEN ss[s].lastTS ELSE ss[d].lastTS
      /\ upd.reportedN =
            IF ss[s].reportedN > ss[d].reportedN THEN ss[s].reportedN ELSE ss[d].reportedN
      /\ upd.absorbedBy = ss[d].absorbedBy
  BY <1>5 DEF Fields
<1> HIDE DEF upd, gone
<1>7. IsSeq(ss2) /\ Len(ss2) = Len(ss)
  BY <1>2, <1>3, SeqOfLen
<1>9. Merged(ss, d, s, ss2)
  BY <1>3, <1>4, <1>6, <1>7 DEF Merged, gone
<1> QED BY <1>1, <1>9 DEF ss2
\* Merging lengthens no chain of absorptions beyond the number absorbed, and
\* what ended in s ends in d.
LEMMA MergeSurvivors ==
    ASSUME NEW ss, IsSeq(ss), \A n \in 1..Len(ss) : StoryOK(ss[n]), Acyclic(ss),
           NEW d \in 1..Len(ss), NEW s \in 1..Len(ss), d # s, Live(ss[d]), Live(ss[s]),
           NEW ss2, Merged(ss, d, s, ss2)
    PROVE  /\ Acyclic(ss2)
           /\ \A n \in 1..Len(ss) :
                 Survivor(ss2, n) = IF Survivor(ss, n) = s THEN d ELSE Survivor(ss, n)
<1>1. Len(ss) \in Nat /\ Len(ss2) = Len(ss)
  BY DEF IsSeq, Merged
<1>2. PICK r \in [1..Len(ss) -> 0..Len(ss)] : Ranked(ss, r)
  BY DEF Acyclic
<1>3. /\ ~Live(ss2[s]) /\ ss2[s].absorbedBy = d /\ Live(ss2[d])
      /\ \A n \in 1..Len(ss) \ {s} : ss2[n].absorbedBy = ss[n].absorbedBy
  <2>1. DOMAIN ss[s] = Fields /\ ss2[s] = [ss[s] EXCEPT !.absorbedBy = d]
    BY DEF Merged, StoryOK
  <2>2. ss2[s].absorbedBy = d
    BY <2>1 DEF Fields
  <2>3. \A n \in 1..Len(ss) \ {s} : ss2[n].absorbedBy = ss[n].absorbedBy
    BY DEF Merged
  <2> QED BY <2>2, <2>3 DEF Live
<1>4. \A n \in 1..Len(ss) \ {s} : Live(ss2[n]) <=> Live(ss[n])
  BY <1>3 DEF Live
<1>5. Dead(ss2) = Dead(ss) \cup {s} /\ s \notin Dead(ss)
  BY <1>1, <1>3, <1>4 DEF Dead
<1>6. Cardinality(Dead(ss2)) = Cardinality(Dead(ss)) + 1 /\ Cardinality(Dead(ss)) \in Nat
  <2>1. IsFiniteSet(Dead(ss)) /\ Cardinality(Dead(ss)) \in Nat
    BY <1>1, DeadCount
  <2> QED BY <1>5, <2>1, FS_AddElement
<1>7. Cardinality(Dead(ss2)) <= Len(ss)
  BY <1>1, DeadCount
<1> DEFINE q == [n \in 1..Len(ss) |-> IF n = s THEN 1 ELSE IF Live(ss[n]) THEN 0 ELSE r[n] + 1]
<1>8. ASSUME NEW n \in 1..Len(ss) PROVE q[n] \in Nat /\ q[n] <= Cardinality(Dead(ss2))
  <2>1. r[n] \in Nat /\ r[n] <= Cardinality(Dead(ss))
    BY <1>2 DEF Ranked
  <2> QED BY <1>6, <2>1
<1>9. ASSUME NEW n \in 1..Len(ss), ~Live(ss2[n])
      PROVE  ss2[n].absorbedBy \in 1..Len(ss) /\ q[ss2[n].absorbedBy] < q[n]
  <2>1. CASE n = s
    BY <1>3, <2>1
  <2>2. CASE n # s
    <3> DEFINE a == ss[n].absorbedBy
    <3>1. ~Live(ss[n]) /\ ss2[n].absorbedBy = a
      BY <1>3, <1>4, <1>9, <2>2
    <3>2. a \in 1..Len(ss) /\ r[a] < r[n] /\ r[a] \in Nat /\ r[n] \in Nat
      BY <1>2, <3>1 DEF Ranked
    <3> HIDE DEF a
    <3>3. q[n] = r[n] + 1 /\ (q[a] = 1 \/ q[a] = 0 \/ q[a] = r[a] + 1)
      BY <2>2, <3>1, <3>2
    <3> HIDE DEF q
    <3>4. q[a] < q[n]
      BY <3>2, <3>3
    <3> QED BY <3>1, <3>2, <3>4
  <2> QED BY <2>1, <2>2
<1> HIDE DEF q
<1>10. Ranked(ss2, q)
  BY <1>1, <1>8, <1>9 DEF Ranked
<1>11. q \in [1..Len(ss) -> 0..Len(ss)]
  <2>1. \A n \in 1..Len(ss) : q[n] \in 0..Len(ss)
    BY <1>1, <1>6, <1>7, <1>8
  <2> QED BY <2>1 DEF q
<1>12. Acyclic(ss2)
  BY <1>1, <1>10, <1>11 DEF Acyclic
<1> DEFINE c == [n \in 1..Len(ss) |-> IF Survivor(ss, n) = s THEN d ELSE Survivor(ss, n)]
<1>13. ASSUME NEW n \in 1..Len(ss2)
       PROVE  c[n] = IF Live(ss2[n]) THEN n ELSE c[ss2[n].absorbedBy]
  <2>0. n \in 1..Len(ss)
    BY <1>1
  <2>1. /\ Live(ss[n]) => Survivor(ss, n) = n
        /\ ~Live(ss[n]) => Survivor(ss, n) = Survivor(ss, ss[n].absorbedBy)
    BY <1>1, <1>2, <2>0, SurvivorUnfolds
  <2>2. CASE n = s
    <3>1. Survivor(ss, d) = d
      BY <1>1, <1>2, SurvivorUnfolds
    <3> QED BY <1>3, <2>1, <2>2, <3>1
  <2>3. CASE n # s /\ Live(ss2[n])
    BY <1>4, <2>0, <2>1, <2>3
  <2>4. CASE n # s /\ ~Live(ss2[n])
    <3>1. ~Live(ss[n]) /\ ss2[n].absorbedBy = ss[n].absorbedBy /\ ss[n].absorbedBy \in 1..Len(ss)
      BY <1>2, <1>3, <1>4, <2>0, <2>4 DEF Ranked
    <3> QED BY <2>0, <2>1, <2>4, <3>1
  <2> QED BY <2>2, <2>3, <2>4
<1> HIDE DEF c
<1>14. \A n \in 1..Len(ss2) : Survivor(ss2, n) = c[n]
  BY <1>1, <1>10, <1>13, SurvivorUnique, SMTT(40)
<1> QED BY <1>1, <1>12, <1>14 DEF c

\* byPID after a merge, when s has its members to itself.
Moved(b, d, s) == [p \in PIDs |-> IF b[p] = s THEN d ELSE b[p]]

\* Merging a story into one no younger keeps the store; when the two, and
\* every other open story, have their members to themselves, it moves the
\* processes of the one to the other, and no other.
LEMMA MergeKeepsStore ==
    ASSUME NEW st, NEW t \in Nat, StoreOK(st.stories, st.byPID, t), NEW u \in Nat,
           NEW d \in 1..Len(st.stories), NEW s \in 1..Len(st.stories), d # s,
           Live(st.stories[d]), ~Lapsed(st.stories[d], u),
           Live(st.stories[s]), ~Lapsed(st.stories[s], u),
           st.stories[d].firstTS <= st.stories[s].firstTS
    PROVE  /\ Merged(st.stories, d, s, merge(st, d, s).stories)
           /\ StoreOK(merge(st, d, s).stories, merge(st, d, s).byPID, t)
           /\ Live(merge(st, d, s).stories[d]) /\ ~Lapsed(merge(st, d, s).stories[d], u)
           /\ OwnOK(st.stories, st.byPID, u) =>
                 /\ merge(st, d, s).byPID = Moved(st.byPID, d, s)
                 /\ OwnOK(merge(st, d, s).stories, merge(st, d, s).byPID, u)
<1> DEFINE ss == st.stories
           b == st.byPID
           ss2 == merge(st, d, s).stories
           b2 == merge(st, d, s).byPID
<1>1. /\ IsSeq(ss) /\ (\A n \in 1..Len(ss) : StoryOK(ss[n])) /\ Acyclic(ss)
      /\ (\A n \in 1..Len(ss) : StepsOK(ss[n], t) /\ ss[n].lastTS <= t)
      /\ b \in [PIDs -> 0..Len(ss)] /\ Len(ss) \in Nat
      /\ \A p \in PIDs : b[p] # 0 => Live(ss[b[p]]) /\ p \in ss[b[p]].members
  BY DEF StoreOK, IsSeq
<1>2. Merged(ss, d, s, ss2) /\ b2 = [p \in PIDs |-> IF p \in ss[s].members THEN d ELSE b[p]]
  BY <1>1, MergeIs
<1>3. d \in 1..Len(ss) /\ s \in 1..Len(ss) /\ Live(ss[d]) /\ Live(ss[s])
      /\ ~Lapsed(ss[d], u) /\ ~Lapsed(ss[s], u) /\ ss[d].firstTS <= ss[s].firstTS
  OBVIOUS
<1> HIDE DEF ss, b, ss2, b2
<1>4. Acyclic(ss2)
  BY <1>1, <1>2, <1>3, MergeSurvivors
<1>7. StoryOK(ss[d]) /\ StoryOK(ss[s])
  BY <1>1, <1>3
<1>8. StoryOK(ss2[d])
  <2>1. IsFiniteSet(ss[d].tactics \cup ss[s].tactics)
    BY <1>7, FS_Union DEF StoryOK
  <2>2. DOMAIN ss2[d] = Fields /\ ss2[d].members \subseteq PIDs /\ IsFiniteSet(ss2[d].tactics)
    BY <1>2, <1>7, <2>1 DEF StoryOK, Merged
  <2>3. ss2[d].alerts \in Nat /\ ss2[d].firstTS \in Nat /\ ss2[d].absorbedBy \in Nat
    <3>1. ss2[d].firstTS \in Nat /\ ss2[d].absorbedBy \in Nat
      BY <1>2, <1>7 DEF StoryOK, Merged
    <3>2. ss2[d].alerts = ss[d].alerts + ss[s].alerts /\ ss[d].alerts \in Nat /\ ss[s].alerts \in Nat
      BY <1>2, <1>7 DEF StoryOK, Merged
    <3> QED BY <3>1, <3>2
  <2>4. ss2[d].lastTS \in Nat /\ ss2[d].reportedN \in Nat
    BY <1>2, <1>7 DEF StoryOK, Merged
  <2> QED BY <2>2, <2>3, <2>4 DEF StoryOK
<1>9. /\ StoryOK(ss2[s]) /\ ~Live(ss2[s]) /\ Live(ss2[d]) /\ ss2[s].lastTS = ss[s].lastTS
      /\ ss2[s].steps = ss[s].steps /\ ss2[s].firstTS = ss[s].firstTS
  <2>1. DOMAIN ss[s] = Fields /\ ss2[s] = [ss[s] EXCEPT !.absorbedBy = d] /\ d \in Nat \ {0}
    <3>1. DOMAIN ss[s] = Fields
      BY <1>7, Zenon DEF StoryOK
    <3>2. ss2[s] = [ss[s] EXCEPT !.absorbedBy = d]
      BY <1>2, Zenon DEF Merged
    <3>3. d \in Nat \ {0}
      BY <1>1, <1>3
    <3> QED BY <3>1, <3>2, <3>3
  <2>2. /\ DOMAIN ss2[s] = Fields /\ ss2[s].absorbedBy = d
        /\ \A x \in Fields \ {"absorbedBy"} : ss2[s][x] = ss[s][x]
    BY <2>1 DEF Fields
  <2>3. /\ ss2[s].members = ss[s].members /\ ss2[s].tactics = ss[s].tactics
        /\ ss2[s].alerts = ss[s].alerts /\ ss2[s].firstTS = ss[s].firstTS
        /\ ss2[s].lastTS = ss[s].lastTS /\ ss2[s].reportedN = ss[s].reportedN
        /\ ss2[s].steps = ss[s].steps
    BY <2>1 DEF Fields
  <2>4. StoryOK(ss2[s])
    BY <1>7, <2>1, <2>2, <2>3 DEF StoryOK
  <2> QED BY <1>2, <1>3, <2>1, <2>2, <2>3, <2>4 DEF Merged, Live
<1>10. \A n \in 1..Len(ss2) : StoryOK(ss2[n])
  BY <1>1, <1>2, <1>8, <1>9 DEF Merged
<1>16. \A n \in 1..Len(ss2) : StepsOK(ss2[n], t) /\ ss2[n].lastTS <= t
  <2>1. ss2[d].lastTS <= t
    BY <1>1, <1>2, <1>3 DEF Merged
  <2>2. StepsOK(ss[d], t) /\ StepsOK(ss[s], t)
    BY <1>1, <1>3
  <2>3. StepsOK(ss2[d], t)
    <3>1. /\ ss2[d].firstTS = ss[d].firstTS
          /\ ss2[d].steps =
             Refit(SortSteps(ss[d].steps \o Shifted(ss[s].steps, ss[s].firstTS, ss[d].firstTS)))
      BY <1>2 DEF Merged
    <3>2. ss[d].firstTS \in Nat /\ ss[s].firstTS \in Nat /\ t \in Int
      BY <1>7 DEF StoryOK
    <3> DEFINE x == ss[d]
               y == ss[s]
               z == ss2[d]
    <3>3. /\ x.firstTS \in Nat /\ y.firstTS \in Nat /\ StepsOK(x, t) /\ StepsOK(y, t)
          /\ x.firstTS <= y.firstTS /\ z.firstTS = x.firstTS
          /\ z.steps = Refit(SortSteps(x.steps \o Shifted(y.steps, y.firstTS, x.firstTS)))
      BY <1>3, <2>2, <3>1, <3>2
    <3> HIDE DEF x, y, z
    <3>4. StepsOK(z, t)
      BY <3>2, <3>3, MergedSteps
    <3> QED BY <3>4 DEF z
  <2>4. StepsOK(ss2[s], t)
    BY <1>9, <2>2, SameSteps
  <2> QED BY <1>1, <1>2, <1>3, <1>9, <2>1, <2>3, <2>4 DEF Merged
<1>11. ~Lapsed(ss2[d], u)
  <2> DEFINE x == ss[d].lastTS
             y == ss[s].lastTS
             z == ss2[d].lastTS
  <2>1. x \in Nat /\ y \in Nat /\ z = (IF y > x THEN y ELSE x) /\ ~(u > x /\ u - x > Window)
    BY <1>2, <1>3, <1>7 DEF StoryOK, Merged, Lapsed
  <2> HIDE DEF x, y, z
  <2>2. ~(u > z /\ u - z > Window)
    BY <2>1, StorylineAssumption
  <2> QED BY <2>2 DEF Lapsed, z
<1>12. b2 \in [PIDs -> 0..Len(ss2)]
  BY <1>1, <1>2, <1>3 DEF Merged
<1>13. ASSUME NEW p \in PIDs, b2[p] # 0 PROVE Live(ss2[b2[p]]) /\ p \in ss2[b2[p]].members
  <2>1. CASE p \in ss[s].members
    <3>1. b2[p] = d
      BY <1>2, <2>1
    <3> QED BY <1>2, <1>9, <2>1, <3>1 DEF Merged
  <2>2. CASE p \notin ss[s].members /\ b[p] = d
    <3>1. b2[p] = d /\ p \in ss[d].members
      BY <1>1, <1>2, <1>3, <2>2
    <3> QED BY <1>2, <1>9, <3>1 DEF Merged
  <2>3. CASE p \notin ss[s].members /\ b[p] # d
    <3>1. b2[p] = b[p] /\ b[p] # s
      BY <1>1, <1>2, <1>13, <2>3
    <3>2. b[p] \in 1..Len(ss) \ {d, s}
      BY <1>1, <1>13, <2>3, <3>1
    <3> QED BY <1>1, <1>2, <1>13, <3>1, <3>2 DEF Merged
  <2> QED BY <2>1, <2>2, <2>3
<1>15. StoreOK(ss2, b2, t)
  BY <1>2, <1>4, <1>10, <1>12, <1>13, <1>16 DEF StoreOK, Merged
<1>14. ASSUME OwnOK(ss, b, u) PROVE b2 = Moved(b, d, s) /\ OwnOK(ss2, b2, u)
  <2>1. \A p \in PIDs : p \in ss[s].members <=> b[p] = s
    BY <1>1, <1>3, <1>14 DEF OwnOK
  <2>2. b2 = Moved(b, d, s)
    BY <1>2, <2>1 DEF Moved
  <2>3. ASSUME NEW n \in 1..Len(ss2), Live(ss2[n]), ~Lapsed(ss2[n], u), NEW p \in ss2[n].members
        PROVE  b2[p] = n
    <3>0. n \in 1..Len(ss) /\ n # s /\ p \in PIDs
      BY <1>2, <1>9, <1>10, <2>3 DEF Merged, StoryOK
    <3>1. CASE n = d
      <4>1. p \in ss[d].members \/ p \in ss[s].members
        BY <1>2, <2>3, <3>1 DEF Merged
      <4>2. b[p] = d \/ b[p] = s
        BY <1>3, <1>14, <4>1 DEF OwnOK
      <4> QED BY <2>2, <3>0, <3>1, <4>2 DEF Moved
    <3>2. CASE n # d
      <4>1. ss2[n] = ss[n]
        BY <1>2, <3>0, <3>2 DEF Merged
      <4>2. b[p] = n
        BY <1>14, <2>3, <3>0, <4>1 DEF OwnOK
      <4> QED BY <2>2, <3>0, <4>2 DEF Moved
    <3> QED BY <3>1, <3>2
  <2>4. OwnOK(ss2, b2, u)
    BY <2>3 DEF OwnOK
  <2> QED BY <2>2, <2>4
<1> QED BY <1>2, <1>9, <1>11, <1>14, <1>15 DEF ss, b, ss2, b2

\* The books are kept: the absorbing story tells of the alerts of both.
LEMMA MergeKeepsTally ==
    ASSUME NEW ss, IsSeq(ss), \A n \in 1..Len(ss) : StoryOK(ss[n]), Acyclic(ss),
           NEW f, TallyOK(ss, f),
           NEW d \in 1..Len(ss), NEW s \in 1..Len(ss), d # s, Live(ss[d]), Live(ss[s]),
           ss[d].firstTS <= ss[s].firstTS,
           NEW ss2, Merged(ss, d, s, ss2)
    PROVE  TallyOK(ss2, f)
<1>1. /\ Len(ss) \in Nat /\ Len(ss2) = Len(ss) /\ IsSeq(f) /\ Len(f) \in Nat
      /\ \A i \in 1..Len(f) : f[i].story \in 1..Len(ss) /\ f[i].chain \in Nat
      /\ \A n \in 1..Len(ss) : Live(ss[n]) => Tells(ss[n], f, Mine(ss, f, n))
      /\ \A n \in 1..Len(ss) : ss[Survivor(ss, n)].firstTS <= ss[n].firstTS
  BY DEF IsSeq, Merged, TallyOK
<1>2. \A n \in 1..Len(ss) :
          Survivor(ss2, n) = IF Survivor(ss, n) = s THEN d ELSE Survivor(ss, n)
  BY MergeSurvivors
<1>3. PICK r : Ranked(ss, r)
  BY DEF Acyclic
<1>4. \A n \in 1..Len(ss) : Survivor(ss, n) \in 1..Len(ss)
  BY <1>1, <1>3, SurvivorUnfolds
<1>5. ~Live(ss2[s])
  <2>1. DOMAIN ss[s] = Fields /\ ss2[s] = [ss[s] EXCEPT !.absorbedBy = d]
    BY DEF Merged, StoryOK
  <2>2. ss2[s].absorbedBy = d
    BY <2>1 DEF Fields
  <2> QED BY <2>2 DEF Live
<1> DEFINE A == Mine(ss, f, d)
           B == Mine(ss, f, s)
<1>6. Mine(ss2, f, d) = A \cup B /\ A \cap B = {}
  BY <1>1, <1>2 DEF Mine
<1>7. \A n \in 1..Len(ss) \ {d, s} : Mine(ss2, f, n) = Mine(ss, f, n)
  BY <1>1, <1>2 DEF Mine
<1>8. Tells(ss[d], f, A) /\ Tells(ss[s], f, B) /\ StoryOK(ss[d]) /\ StoryOK(ss[s])
  BY <1>1
<1>9. IsFiniteSet(A) /\ IsFiniteSet(B)
  <2>1. IsFiniteSet(1..Len(f))
    BY <1>1, FS_Interval
  <2> QED BY <2>1, FS_Subset DEF Mine
<1>10. \A i \in A \cup B : i \in 1..Len(f)
  BY DEF Mine
<1> HIDE DEF A, B
<1>11. Cardinality(A \cup B) = Cardinality(A) + Cardinality(B)
  <2>1. Cardinality(A) \in Nat /\ Cardinality(B) \in Nat /\ Cardinality(A \cap B) = 0
    BY <1>6, <1>9, FS_CardinalityType, FS_EmptySet
  <2>2. Cardinality(A \cup B) = Cardinality(A) + Cardinality(B) - Cardinality(A \cap B)
    BY <1>9, FS_Union
  <2> QED BY <2>1, <2>2
<1>12. Tells(ss2[d], f, A \cup B)
  <2>1. ss2[d].alerts = Cardinality(A \cup B)
    BY <1>8, <1>11 DEF Merged, Tells
  <2>2. ss2[d].tactics = Tactics(f, A \cup B)
    <3>1. Tactics(f, A \cup B) = Tactics(f, A) \cup Tactics(f, B)
      BY DEF Tactics
    <3> QED BY <1>8, <3>1 DEF Merged, Tells
  <2> DEFINE x == ss[d].reportedN
             y == ss[s].reportedN
             z == ss2[d].reportedN
  <2>3. x \in Nat /\ y \in Nat /\ z = IF y > x THEN y ELSE x
    BY <1>8 DEF StoryOK, Merged
  <2>4. (\A i \in A : f[i].chain <= x) /\ (\A i \in B : f[i].chain <= y)
    BY <1>8 DEF Tells
  <2>5. x <= Cardinality(ss[d].tactics) /\ y <= Cardinality(ss[s].tactics)
    BY <1>8 DEF Tells
  <2>6. /\ IsFiniteSet(ss2[d].tactics)
        /\ ss[d].tactics \in SUBSET ss2[d].tactics /\ ss[s].tactics \in SUBSET ss2[d].tactics
    <3>1. IsFiniteSet(ss[d].tactics \cup ss[s].tactics)
      BY <1>8, FS_Union DEF StoryOK
    <3> QED BY <3>1 DEF Merged
  <2> HIDE DEF x, y, z
  <2>7. \A i \in A \cup B : f[i].chain <= z
    <3> TAKE i \in A \cup B
    <3>1. f[i].chain \in Nat /\ (f[i].chain <= x \/ f[i].chain <= y)
      BY <1>1, <1>10, <2>4
    <3> QED BY <2>3, <3>1
  <2>8. z <= Cardinality(ss2[d].tactics)
    <3> DEFINE cd == Cardinality(ss[d].tactics)
               cs == Cardinality(ss[s].tactics)
               cm == Cardinality(ss2[d].tactics)
    <3>1. cd <= cm /\ cs <= cm
      BY <2>6, FS_Subset
    <3>2. cd \in Nat /\ cs \in Nat /\ cm \in Nat
      BY <2>6, FS_Subset, FS_CardinalityType
    <3>3. x <= cd /\ y <= cs
      BY <2>5
    <3> HIDE DEF cd, cs, cm
    <3>4. z <= cm
      BY <2>3, <3>1, <3>2, <3>3
    <3> QED BY <3>4 DEF cm
  <2> QED BY <2>1, <2>2, <2>7, <2>8 DEF Tells, z
<1>13. ASSUME NEW n \in 1..Len(ss2), Live(ss2[n]) PROVE Tells(ss2[n], f, Mine(ss2, f, n))
  <2>1. CASE n = d
    BY <1>6, <1>12, <2>1
  <2>2. CASE n # d
    <3>1. n \in 1..Len(ss) \ {d, s}
      BY <1>1, <1>5, <1>13, <2>2
    <3>2. ss2[n] = ss[n] /\ Mine(ss2, f, n) = Mine(ss, f, n)
      BY <1>7, <3>1 DEF Merged
    <3> QED BY <1>1, <1>13, <3>1, <3>2
  <2> QED BY <2>1, <2>2
<1>14. \A n \in 1..Len(ss) : ss2[n].firstTS = ss[n].firstTS /\ ss[n].firstTS \in Nat
  <2>1. DOMAIN ss[s] = Fields /\ ss2[s] = [ss[s] EXCEPT !.absorbedBy = d]
    BY DEF Merged, StoryOK
  <2>2. ss2[s].firstTS = ss[s].firstTS
    BY <2>1 DEF Fields
  <2> QED BY <2>2 DEF Merged, StoryOK
<1>15. ASSUME NEW n \in 1..Len(ss2) PROVE ss2[Survivor(ss2, n)].firstTS <= ss2[n].firstTS
  <2>1. n \in 1..Len(ss) /\ ss[Survivor(ss, n)].firstTS <= ss[n].firstTS
    BY <1>1
  <2>2. CASE Survivor(ss, n) = s
    <3> DEFINE x == ss[d].firstTS
               y == ss[s].firstTS
               z == ss[n].firstTS
    <3>1. x \in Nat /\ y \in Nat /\ z \in Nat /\ x <= y /\ y <= z
      BY <1>14, <2>1, <2>2
    <3>2. ss2[Survivor(ss2, n)].firstTS = x /\ ss2[n].firstTS = z
      BY <1>2, <1>14, <2>1, <2>2
    <3> HIDE DEF x, y, z
    <3>3. x <= z
      BY <3>1
    <3> QED BY <3>2, <3>3
  <2>3. CASE Survivor(ss, n) # s
    BY <1>2, <1>4, <1>14, <2>1, <2>3
  <2> QED BY <2>2, <2>3
<1>16. ASSUME NEW i \in 1..Len(f) PROVE f[i].pid \in ss2[Survivor(ss2, f[i].story)].members
  <2> DEFINE m == f[i].story
             e == Survivor(ss, m)
  <2>1. m \in 1..Len(ss) /\ f[i].pid \in ss[e].members
    BY <1>1 DEF TallyOK
  <2>2. e \in 1..Len(ss) /\ Survivor(ss2, m) = IF e = s THEN d ELSE e
    BY <1>2, <1>4, <2>1
  <2> HIDE DEF e, m
  <2>3. /\ ss2[d].members = ss[d].members \cup ss[s].members
        /\ \A n \in 1..Len(ss) \ {d, s} : ss2[n] = ss[n]
    BY DEF Merged
  <2>4. f[i].pid \in ss2[Survivor(ss2, m)].members
    <3>1. CASE e = s \/ e = d
      BY <2>1, <2>2, <2>3, <3>1
    <3>2. CASE e # s /\ e # d
      <4>1. ss2[e] = ss[e]
        BY <2>2, <2>3, <3>2
      <4> QED BY <2>1, <2>2, <3>2, <4>1
    <3> QED BY <3>1, <3>2
  <2> QED BY <2>4 DEF m
<1> QED BY <1>1, <1>13, <1>15, <1>16 DEF TallyOK

-----------------------------------------------------------------------------
(* Found: the stories one alert joins. *)

HitBody(chain, t, g, i) == IF i = 0 THEN <<>> ELSE Hit(g[i - 1], byPID[chain[i]], t)

LEMMA HitsExist ==
    ASSUME NEW chain, Len(chain) \in Nat, NEW t
    PROVE  \E g : g = [i \in 0..Len(chain) |-> HitBody(chain, t, g, i)]
<1> DEFINE N == Len(chain)
           Upto(m, g) == \A i \in 0..N : i <= m => g[i] = HitBody(chain, t, g, i)
           G == {m \in Nat : \E g : Upto(m, g)}
<1>1. 0 \in G
  <2> DEFINE g == [i \in 0..N |-> <<>>]
  <2>1. Upto(0, g)
    BY DEF HitBody
  <2> QED BY <2>1
<1>2. ASSUME NEW m \in Nat, m \in G PROVE m + 1 \in G
  <2>1. PICK g : Upto(m, g)
    BY <1>2
  <2> DEFINE h == [i \in 0..N |-> HitBody(chain, t, g, i)]
  <2>2. \A i \in 0..N : i <= m => h[i] = g[i]
    BY <2>1
  <2>3. \A i \in 0..N : i <= m + 1 => HitBody(chain, t, h, i) = HitBody(chain, t, g, i)
    <3> TAKE i \in 0..N
    <3> HAVE i <= m + 1
    <3>1. CASE i = 0
      BY <3>1 DEF HitBody
    <3>2. CASE i # 0
      <4>1. i - 1 \in 0..N /\ i - 1 <= m
        BY <3>2
      <4>2. h[i - 1] = g[i - 1]
        BY <2>2, <4>1
      <4> HIDE DEF h
      <4> QED BY <3>2, <4>2 DEF HitBody
    <3> QED BY <3>1, <3>2
  <2>4. Upto(m + 1, h)
    BY <2>3
  <2> HIDE DEF h, Upto
  <2>5. m + 1 \in Nat
    OBVIOUS
  <2> QED BY <2>4, <2>5
<1>3. N \in G
  <2> HIDE DEF G
  <2>1. Nat \subseteq G
    BY <1>1, <1>2, InductionOnNat
  <2> QED BY <2>1
<1>4. PICK g : Upto(N, g)
  BY <1>3
<1> DEFINE h == [i \in 0..N |-> g[i]]
<1>5. \A i \in 0..N : g[i] = HitBody(chain, t, g, i)
  BY <1>4
<1>6. \A i \in 0..N : HitBody(chain, t, h, i) = HitBody(chain, t, g, i)
  <2> TAKE i \in 0..N
  <2>1. CASE i = 0
    BY <2>1 DEF HitBody
  <2>2. CASE i # 0
    <3>1. i - 1 \in 0..N
      BY <2>2
    <3>2. h[i - 1] = g[i - 1]
      BY <3>1
    <3> HIDE DEF h
    <3> QED BY <2>2, <3>2 DEF HitBody
  <2> QED BY <2>1, <2>2
<1>7. h = [i \in 0..N |-> HitBody(chain, t, h, i)]
  BY <1>5, <1>6
<1> QED BY <1>7

\* What has been found among the first i of the chain: open stories, each
\* once, and every open story of those processes.
FoundOK(found, chain, i, t) ==
    /\ IsSeq(found)
    /\ \A k \in 1..Len(found) : /\ \E j \in 1..i : byPID[chain[j]] = found[k] /\ found[k] # 0
                                /\ ~Lapsed(stories[found[k]], t)
    /\ \A j, k \in 1..Len(found) : found[j] = found[k] => j = k
    /\ \A j \in 1..i : byPID[chain[j]] # 0 /\ ~Lapsed(stories[byPID[chain[j]]], t) =>
          \E k \in 1..Len(found) : found[k] = byPID[chain[j]]

LEMMA FoundIs ==
    ASSUME NEW chain, IsSeq(chain), \A i \in 1..Len(chain) : chain[i] \in PIDs, NEW t
    PROVE  FoundOK(Found(chain, t), chain, Len(chain), t)
<1> DEFINE g == CHOOSE z : z = [i \in 0..Len(chain) |-> HitBody(chain, t, z, i)]
<1>0. Len(chain) \in Nat
  BY DEF IsSeq
<1>1. g = [i \in 0..Len(chain) |-> HitBody(chain, t, g, i)]
  BY <1>0, HitsExist, Zenon
<1>2. Found(chain, t) = g[Len(chain)]
  BY DEF Found, HitBody
<1> HIDE DEF g
<1>3. \A i \in 0..Len(chain) : g[i] = HitBody(chain, t, g, i)
  BY <1>1
<1> DEFINE G == {i \in Nat : i \in 0..Len(chain) => FoundOK(g[i], chain, i, t)}
<1>4. 0 \in G
  <2>1. g[0] = <<>>
    BY <1>0, <1>3 DEF HitBody
  <2>2. FoundOK(<<>>, chain, 0, t)
    BY DEF FoundOK, IsSeq
  <2> QED BY <2>1, <2>2
<1>5. ASSUME NEW i \in Nat, i \in G PROVE i + 1 \in G
  <2> SUFFICES ASSUME i + 1 \in 0..Len(chain) PROVE FoundOK(g[i + 1], chain, i + 1, t)
    OBVIOUS
  <2> DEFINE old == g[i]
             n == byPID[chain[i + 1]]
             new == g[i + 1]
  <2>1. i \in 0..Len(chain) /\ i + 1 # 0 /\ (i + 1) - 1 = i /\ i + 1 \in 1..Len(chain)
    BY <1>0
  <2>2. new = Hit(old, n, t) /\ FoundOK(old, chain, i, t)
    <3>1. g[i + 1] = HitBody(chain, t, g, i + 1)
      BY <1>3
    <3>2. HitBody(chain, t, g, i + 1) = Hit(old, n, t)
      BY <2>1 DEF HitBody
    <3> QED BY <1>5, <2>1, <3>1, <3>2
  <2>3. chain[i + 1] \in PIDs
    BY <2>1
  <2>4. \A j \in 1..(i + 1) : j = i + 1 \/ j \in 1..i
    OBVIOUS
  <2>5. IsSeq(old) /\ Len(old) \in Nat
    BY <2>2 DEF FoundOK, IsSeq
  <2>6. CASE n # 0 /\ ~Lapsed(stories[n], t) /\ ~Contains(old, n)
    <3>1. new = Append(old, n)
      BY <2>2, <2>6 DEF Hit
    <3> HIDE DEF old, new
    <3>2. /\ IsSeq(new) /\ Len(new) = Len(old) + 1 /\ new[Len(old) + 1] = n
          /\ \A k \in 1..Len(old) : new[k] = old[k]
      BY <2>5, <3>1, AppendSeq
    <3>3. \A k \in 1..Len(old) : old[k] # n
      BY <2>6 DEF Contains
    <3>4. \A k \in 1..Len(new) : k = Len(old) + 1 \/ k \in 1..Len(old)
      BY <2>5, <3>2
    <3>5. \A k \in 1..Len(new) : /\ \E j \in 1..(i + 1) : byPID[chain[j]] = new[k] /\ new[k] # 0
                                 /\ ~Lapsed(stories[new[k]], t)
      <4> TAKE k \in 1..Len(new)
      <4>0. i + 1 \in 1..(i + 1) /\ 1..i \subseteq 1..(i + 1)
        OBVIOUS
      <4>1. CASE k = Len(old) + 1
        BY <2>6, <3>2, <4>0, <4>1
      <4>2. CASE k \in 1..Len(old)
        <5>1. PICK j \in 1..i : byPID[chain[j]] = old[k] /\ old[k] # 0
          BY <2>2, <4>2 DEF FoundOK
        <5>2. ~Lapsed(stories[old[k]], t)
          BY <2>2, <4>2 DEF FoundOK
        <5> QED BY <3>2, <4>0, <4>2, <5>1, <5>2
      <4> QED BY <3>4, <4>1, <4>2
    <3>6. \A j, k \in 1..Len(new) : new[j] = new[k] => j = k
      <4> TAKE j, k \in 1..Len(new)
      <4> HAVE new[j] = new[k]
      <4>1. (j = Len(old) + 1 \/ j \in 1..Len(old)) /\ (k = Len(old) + 1 \/ k \in 1..Len(old))
        BY <3>4
      <4>2. CASE j = Len(old) + 1 /\ k = Len(old) + 1
        BY <4>2
      <4>3. CASE j \in 1..Len(old) /\ k \in 1..Len(old)
        BY <2>2, <3>2, <4>3 DEF FoundOK
      <4>4. CASE j = Len(old) + 1 /\ k \in 1..Len(old)
        BY <3>2, <3>3, <4>4
      <4>5. CASE j \in 1..Len(old) /\ k = Len(old) + 1
        BY <3>2, <3>3, <4>5
      <4> QED BY <4>1, <4>2, <4>3, <4>4, <4>5
    <3>7. 1..Len(old) \subseteq 1..Len(new) /\ Len(old) + 1 \in 1..Len(new)
      BY <2>5, <3>2
    <3>8. ASSUME NEW j \in 1..(i + 1), byPID[chain[j]] # 0, ~Lapsed(stories[byPID[chain[j]]], t)
          PROVE  \E k \in 1..Len(new) : new[k] = byPID[chain[j]]
      <4>1. CASE j = i + 1
        BY <3>2, <3>7, <4>1
      <4>2. CASE j \in 1..i
        <5>1. PICK k \in 1..Len(old) : old[k] = byPID[chain[j]]
          BY <2>2, <3>8, <4>2 DEF FoundOK
        <5> QED BY <3>2, <3>7, <5>1
      <4> QED BY <2>4, <4>1, <4>2
    <3>9. FoundOK(new, chain, i + 1, t)
      BY <3>2, <3>5, <3>6, <3>8 DEF FoundOK
    <3> QED BY <3>9 DEF new
  <2>7. CASE ~(n # 0 /\ ~Lapsed(stories[n], t) /\ ~Contains(old, n))
    <3>1. new = old
      BY <2>2, <2>7 DEF Hit
    <3> HIDE DEF old, new
    <3>2. ASSUME NEW j \in 1..(i + 1), byPID[chain[j]] # 0, ~Lapsed(stories[byPID[chain[j]]], t)
          PROVE  \E k \in 1..Len(old) : old[k] = byPID[chain[j]]
      <4>1. CASE j = i + 1
        <5>1. Contains(old, n)
          BY <2>7, <3>2, <4>1
        <5> QED BY <4>1, <5>1 DEF Contains
      <4>2. CASE j \in 1..i
        BY <2>2, <3>2, <4>2 DEF FoundOK
      <4> QED BY <2>4, <4>1, <4>2
    <3>3. FoundOK(old, chain, i + 1, t)
      <4>1. 1..i \subseteq 1..(i + 1)
        OBVIOUS
      <4>2. \A k \in 1..Len(old) : /\ \E j \in 1..(i + 1) : byPID[chain[j]] = old[k] /\ old[k] # 0
                                   /\ ~Lapsed(stories[old[k]], t)
        BY <2>2, <4>1 DEF FoundOK
      <4> QED BY <2>2, <3>2, <4>2 DEF FoundOK
    <3> QED BY <3>1, <3>3 DEF new
  <2> QED BY <2>6, <2>7
<1> HIDE DEF G
<1>6. Len(chain) \in G
  BY <1>0, <1>4, <1>5, InductionOnNat
<1> QED BY <1>0, <1>2, <1>6 DEF G
-----------------------------------------------------------------------------
(* Joined: the merges of one alert. *)

Firsts(found, k) == {found[j] : j \in 1..k}

\* Their processes.
Gathered(found, k) == UNION {stories[m].members : m \in Firsts(found, k)}

\* After the first k: one of them is open, none of the first has any process
\* but theirs, and the rest is as it was.  When every open story had its
\* members to itself, theirs all lead to the one.
JoinOK(r, found, k, u) ==
    /\ StoreOK(r.store.stories, r.store.byPID, now)
    /\ TallyOK(r.store.stories, filed)
    /\ Len(r.store.stories) = Len(stories)
    /\ r.id \in Firsts(found, k)
    /\ Live(r.store.stories[r.id]) /\ ~Lapsed(r.store.stories[r.id], u)
    /\ \A m \in 1..Len(stories) \ Firsts(found, k) : r.store.stories[m] = stories[m]
    /\ \A m \in Firsts(found, k) : r.store.stories[m].members \subseteq Gathered(found, k)
    /\ OwnOK(stories, byPID, u) =>
          /\ OwnOK(r.store.stories, r.store.byPID, u)
          /\ r.store.byPID =
                [p \in PIDs |-> IF byPID[p] \in Firsts(found, k) THEN r.id ELSE byPID[p]]

OpenOnce(found, u) ==
    /\ \A k \in 1..Len(found) : /\ found[k] \in 1..Len(stories)
                                /\ Live(stories[found[k]]) /\ ~Lapsed(stories[found[k]], u)
    /\ \A j, k \in 1..Len(found) : found[j] = found[k] => j = k

LEMMA JoinKeeps ==
    ASSUME now \in Nat, NEW u \in Nat, StoreOK(stories, byPID, now),
           NEW found, Len(found) \in Nat, OpenOnce(found, u),
           NEW k \in Nat, k >= 1, k + 1 <= Len(found), NEW r, JoinOK(r, found, k, u)
    PROVE  JoinOK(Join(r, found[k + 1]), found, k + 1, u)
<1> DEFINE other == found[k + 1]
           ss == r.store.stories
           b == r.store.byPID
           F == Firsts(found, k)
           q == Join(r, other)
<1>1. /\ StoreOK(ss, b, now) /\ TallyOK(ss, filed) /\ Len(ss) = Len(stories)
      /\ r.id \in F /\ Live(ss[r.id]) /\ ~Lapsed(ss[r.id], u)
      /\ \A m \in 1..Len(stories) \ F : ss[m] = stories[m]
      /\ OwnOK(stories, byPID, u) =>
            /\ OwnOK(ss, b, u)
            /\ b = [p \in PIDs |-> IF byPID[p] \in F THEN r.id ELSE byPID[p]]
  BY DEF JoinOK
<1>2. other \in 1..Len(stories) /\ other \notin F /\ Firsts(found, k + 1) = F \cup {other}
  <2>1. k + 1 \in 1..Len(found) /\ 1..k \subseteq 1..Len(found) /\ k + 1 \notin 1..k
    OBVIOUS
  <2>2. 1..(k + 1) = 1..k \cup {k + 1}
    OBVIOUS
  <2>3. other \in 1..Len(stories)
    BY <2>1 DEF OpenOnce
  <2>4. other \notin F
    <3> SUFFICES ASSUME NEW j \in 1..k, found[j] = found[k + 1] PROVE FALSE
      BY DEF Firsts
    <3>1. j \in 1..Len(found) /\ k + 1 \in 1..Len(found) /\ j # k + 1
      BY <2>1
    <3> QED BY <3>1 DEF OpenOnce
  <2>5. Firsts(found, k + 1) = F \cup {other}
    BY <2>2 DEF Firsts
  <2> QED BY <2>3, <2>4, <2>5
<1>3. ss[other] = stories[other] /\ Live(ss[other]) /\ ~Lapsed(ss[other], u)
  <2>1. k + 1 \in 1..Len(found)
    OBVIOUS
  <2>2. Live(stories[other]) /\ ~Lapsed(stories[other], u)
    BY <2>1 DEF OpenOnce
  <2> QED BY <1>1, <1>2, <2>2
<1>4. r.id \in 1..Len(stories) /\ r.id # other /\ F \subseteq 1..Len(stories)
  BY <1>1, <1>2 DEF OpenOnce, Firsts
<1>5. /\ IsSeq(ss) /\ (\A n \in 1..Len(ss) : StoryOK(ss[n])) /\ Acyclic(ss)
      /\ ss[other].firstTS \in Nat /\ ss[r.id].firstTS \in Nat
  BY <1>1, <1>2, <1>4 DEF StoreOK, StoryOK
<1>6. PICK d, s : /\ {d, s} = {r.id, other} /\ d # s
                  /\ ss[d].firstTS <= ss[s].firstTS
                  /\ q = [store |-> merge(r.store, d, s), id |-> d]
  <2>1. CASE IsOlder(ss[other], ss[r.id])
    <3>1. q = [store |-> merge(r.store, other, r.id), id |-> other]
      BY <2>1 DEF Join
    <3>2. ss[other].firstTS <= ss[r.id].firstTS
      BY <1>5, <2>1 DEF IsOlder
    <3> HIDE DEF q, ss, other
    <3> QED BY <1>4, <3>1, <3>2
  <2>2. CASE ~IsOlder(ss[other], ss[r.id])
    <3>1. q = [store |-> merge(r.store, r.id, other), id |-> r.id]
      BY <2>2 DEF Join
    <3>2. ss[r.id].firstTS <= ss[other].firstTS
      BY <1>5, <2>2 DEF IsOlder
    <3> HIDE DEF q, ss, other
    <3> QED BY <1>4, <3>1, <3>2
  <2> QED BY <2>1, <2>2
<1>7. /\ d \in 1..Len(ss) /\ s \in 1..Len(ss)
      /\ Live(ss[d]) /\ ~Lapsed(ss[d], u) /\ Live(ss[s]) /\ ~Lapsed(ss[s], u)
  BY <1>1, <1>2, <1>3, <1>4, <1>6
<1> DEFINE ss2 == q.store.stories
           b2 == q.store.byPID
<1>8. q.id = d /\ q.store = merge(r.store, d, s)
  BY <1>6
<1>9. /\ Merged(ss, d, s, ss2) /\ StoreOK(ss2, b2, now)
      /\ Live(ss2[d]) /\ ~Lapsed(ss2[d], u)
      /\ OwnOK(ss, b, u) => b2 = Moved(b, d, s) /\ OwnOK(ss2, b2, u)
  <2>1. /\ Merged(r.store.stories, d, s, merge(r.store, d, s).stories)
        /\ StoreOK(merge(r.store, d, s).stories, merge(r.store, d, s).byPID, now)
        /\ Live(merge(r.store, d, s).stories[d]) /\ ~Lapsed(merge(r.store, d, s).stories[d], u)
        /\ OwnOK(r.store.stories, r.store.byPID, u) =>
              /\ merge(r.store, d, s).byPID = Moved(r.store.byPID, d, s)
              /\ OwnOK(merge(r.store, d, s).stories, merge(r.store, d, s).byPID, u)
    BY <1>1, <1>6, <1>7, MergeKeepsStore
  <2> QED BY <1>8, <2>1
<1> HIDE DEF q, ss, b, other, F
<1> HIDE DEF ss2, b2
<1>10. TallyOK(ss2, filed)
  BY <1>1, <1>5, <1>6, <1>7, <1>9, MergeKeepsTally
<1>11. Len(ss2) = Len(stories) /\ d \in F \cup {other}
  BY <1>1, <1>6, <1>9 DEF Merged
<1>12. \A m \in 1..Len(stories) \ (F \cup {other}) : ss2[m] = stories[m]
  BY <1>1, <1>6, <1>9 DEF Merged
<1>13. ASSUME OwnOK(stories, byPID, u), NEW p \in PIDs
       PROVE  b2[p] = IF byPID[p] \in F \cup {other} THEN d ELSE byPID[p]
  <2>1. b2[p] = (IF b[p] = s THEN d ELSE b[p]) /\ b[p] = IF byPID[p] \in F THEN r.id ELSE byPID[p]
    BY <1>1, <1>9, <1>13 DEF Moved
  <2>2. CASE byPID[p] \in F
    BY <1>6, <2>1, <2>2
  <2>3. CASE byPID[p] = other
    BY <1>2, <1>6, <2>1, <2>3
  <2>4. CASE byPID[p] \notin F \cup {other}
    BY <1>1, <1>6, <2>1, <2>4
  <2> QED BY <2>2, <2>3, <2>4
<1>14. OwnOK(stories, byPID, u) =>
          /\ OwnOK(ss2, b2, u)
          /\ b2 = [p \in PIDs |-> IF byPID[p] \in F \cup {other} THEN d ELSE byPID[p]]
  BY <1>1, <1>9, <1>13 DEF Moved
<1>16. \A m \in F \cup {other} : ss2[m].members \subseteq Gathered(found, k + 1)
  <2> DEFINE A == Gathered(found, k)
             Z == Gathered(found, k + 1)
  <2>1. A \subseteq Z /\ stories[other].members \subseteq Z
    BY <1>2 DEF Gathered, F
  <2>2. \A m \in F : ss[m].members \subseteq A
    BY DEF JoinOK, F, ss
  <2> HIDE DEF A, Z
  <2>3. \A m \in F \cup {other} : ss[m].members \subseteq Z
    BY <1>3, <2>1, <2>2
  <2>4. d \in F \cup {other} /\ s \in F \cup {other} /\ F \cup {other} \subseteq 1..Len(ss)
    BY <1>1, <1>2, <1>4, <1>6
  <2>5. ss2[d].members = ss[d].members \cup ss[s].members
        /\ \A m \in 1..Len(ss) \ {d, s} : ss2[m] = ss[m]
    BY <1>9 DEF Merged
  <2>6. ss2[s].members = ss[s].members
    <3>1. DOMAIN ss[s] = Fields /\ ss2[s] = [ss[s] EXCEPT !.absorbedBy = d]
      BY <1>5, <1>7, <1>9 DEF Merged, StoryOK
    <3> QED BY <3>1 DEF Fields
  <2> QED BY <2>3, <2>4, <2>5, <2>6 DEF Z
<1>15. JoinOK(q, found, k + 1, u)
  BY <1>2, <1>8, <1>9, <1>10, <1>11, <1>12, <1>14, <1>16 DEF JoinOK, ss2, b2, F
<1> QED BY <1>15 DEF q, other

JoinBody(found, g, k) ==
    IF k = 1 THEN [store |-> [stories |-> stories, byPID |-> byPID], id |-> found[1]]
    ELSE Join(g[k - 1], found[k])

LEMMA JoinsExist ==
    ASSUME NEW found, Len(found) \in Nat
    PROVE  \E g : g = [k \in 1..Len(found) |-> JoinBody(found, g, k)]
<1> DEFINE N == Len(found)
           Upto(m, g) == \A k \in 1..N : k <= m => g[k] = JoinBody(found, g, k)
           G == {m \in Nat : \E g : Upto(m, g)}
<1>1. 0 \in G
  OBVIOUS
<1>2. ASSUME NEW m \in Nat, m \in G PROVE m + 1 \in G
  <2>1. PICK g : Upto(m, g)
    BY <1>2
  <2> DEFINE h == [k \in 1..N |-> JoinBody(found, g, k)]
  <2>2. \A k \in 1..N : k <= m => h[k] = g[k]
    BY <2>1
  <2>3. \A k \in 1..N : k <= m + 1 => JoinBody(found, h, k) = JoinBody(found, g, k)
    <3> TAKE k \in 1..N
    <3> HAVE k <= m + 1
    <3>1. CASE k = 1
      BY <3>1 DEF JoinBody
    <3>2. CASE k # 1
      <4>1. k - 1 \in 1..N /\ k - 1 <= m
        BY <3>2
      <4>2. h[k - 1] = g[k - 1]
        BY <2>2, <4>1
      <4> HIDE DEF h
      <4> QED BY <3>2, <4>2 DEF JoinBody
    <3> QED BY <3>1, <3>2
  <2>4. Upto(m + 1, h)
    BY <2>3
  <2> HIDE DEF h, Upto
  <2>5. m + 1 \in Nat
    OBVIOUS
  <2> QED BY <2>4, <2>5
<1>3. N \in G
  <2> HIDE DEF G
  <2>1. Nat \subseteq G
    BY <1>1, <1>2, InductionOnNat
  <2> QED BY <2>1
<1>4. PICK g : Upto(N, g)
  BY <1>3
<1> DEFINE h == [k \in 1..N |-> g[k]]
<1>5. \A k \in 1..N : g[k] = JoinBody(found, g, k)
  BY <1>4
<1>6. \A k \in 1..N : JoinBody(found, h, k) = JoinBody(found, g, k)
  <2> TAKE k \in 1..N
  <2>1. CASE k = 1
    BY <2>1 DEF JoinBody
  <2>2. CASE k # 1
    <3>1. k - 1 \in 1..N
      BY <2>2
    <3>2. h[k - 1] = g[k - 1]
      BY <3>1
    <3> HIDE DEF h
    <3> QED BY <2>2, <3>2 DEF JoinBody
  <2> QED BY <2>1, <2>2
<1>7. h = [k \in 1..N |-> JoinBody(found, h, k)]
  BY <1>5, <1>6
<1> QED BY <1>7

\* All of them joined.
LEMMA JoinedIs ==
    ASSUME now \in Nat, NEW u \in Nat, StoreOK(stories, byPID, now), TallyOK(stories, filed),
           NEW found, Len(found) \in Nat, Len(found) >= 1, OpenOnce(found, u)
    PROVE  JoinOK(Joined(found), found, Len(found), u)
<1> DEFINE g == CHOOSE z : z = [k \in 1..Len(found) |-> JoinBody(found, z, k)]
<1>1. g = [k \in 1..Len(found) |-> JoinBody(found, g, k)]
  BY JoinsExist, Zenon
<1>2. Joined(found) = g[Len(found)]
  BY DEF Joined, JoinBody
<1> HIDE DEF g
<1>3. \A k \in 1..Len(found) : g[k] = JoinBody(found, g, k)
  BY <1>1
<1> DEFINE G == {k \in Nat : k \in 1..Len(found) => JoinOK(g[k], found, k, u)}
<1>4. 0 \in G
  OBVIOUS
<1>5. ASSUME NEW k \in Nat, k \in G PROVE k + 1 \in G
  <2> SUFFICES ASSUME k + 1 \in 1..Len(found) PROVE JoinOK(g[k + 1], found, k + 1, u)
    OBVIOUS
  <2>1. CASE k = 0
    <3> DEFINE r == [store |-> [stories |-> stories, byPID |-> byPID], id |-> found[1]]
    <3>1. g[1] = r
      BY <1>3 DEF JoinBody
    <3>2. Firsts(found, 1) = {found[1]}
      BY DEF Firsts
    <3>3. found[1] \in 1..Len(stories) /\ Live(stories[found[1]]) /\ ~Lapsed(stories[found[1]], u)
      BY DEF OpenOnce
    <3>4. /\ r.store.stories = stories /\ r.store.byPID = byPID /\ r.id = found[1]
      OBVIOUS
    <3>5. byPID = [p \in PIDs |-> IF byPID[p] \in {found[1]} THEN found[1] ELSE byPID[p]]
      BY DEF StoreOK
    <3> HIDE DEF r
    <3>7. Gathered(found, 1) = stories[found[1]].members
      BY <3>2 DEF Gathered
    <3>6. JoinOK(r, found, 1, u)
      BY <3>2, <3>3, <3>4, <3>5, <3>7 DEF JoinOK
    <3> QED BY <2>1, <3>1, <3>6
  <2>2. CASE k # 0
    <3>1. k \in 1..Len(found) /\ k >= 1 /\ k + 1 <= Len(found) /\ k + 1 # 1 /\ (k + 1) - 1 = k
      BY <2>2
    <3>2. JoinOK(g[k], found, k, u)
      BY <1>5, <3>1
    <3>3. g[k + 1] = Join(g[k], found[k + 1])
      <4>1. g[k + 1] = JoinBody(found, g, k + 1)
        BY <1>3
      <4> QED BY <3>1, <4>1 DEF JoinBody
    <3>4. JoinOK(Join(g[k], found[k + 1]), found, k + 1, u)
      BY <3>1, <3>2, JoinKeeps
    <3> QED BY <3>3, <3>4
  <2> QED BY <2>1, <2>2
<1> HIDE DEF G
<1>6. Len(found) \in G
  BY <1>4, <1>5, InductionOnNat
<1> QED BY <1>2, <1>6 DEF G
-----------------------------------------------------------------------------
(* storyFor. *)

ChainOK(chain) == IsSeq(chain) /\ Len(chain) >= 1 /\ \A i \in 1..Len(chain) : chain[i] \in PIDs

\* x is a process of the chain or of a story the chain touches.
Touches(chain, x) ==
    \/ Contains(chain, x)
    \/ \E n \in 1..Len(stories) : /\ x \in stories[n].members
                                  /\ \E i \in 1..Len(chain) : chain[i] \in stories[n].members

\* A story has the processes it had, or no process but such as these.
Akin(ss, chain) ==
    \A n \in 1..Len(ss) :
        \/ n \in 1..Len(stories) /\ ss[n].members = stories[n].members
        \/ \A x \in ss[n].members : Touches(chain, x)

\* A store with a story the chain may be enrolled in: it has no process the
\* chain does not lead to.  When every open story had its members to itself,
\* so has every open story and the one found, and no other open story has a
\* process of the chain.
ReadyOK(r, chain, u) ==
    LET ss == r.store.stories
        b == r.store.byPID
    IN  /\ Akin(ss, chain) /\ \A x \in ss[r.id].members : Touches(chain, x)
        /\ StoreOK(ss, b, now) /\ TallyOK(ss, filed)
        /\ r.id \in 1..Len(ss) /\ Live(ss[r.id])
        /\ OwnOK(stories, byPID, u) =>
              /\ OwnOK(ss, b, u) /\ \A x \in ss[r.id].members : b[x] = r.id
              /\ \A i \in 1..Len(chain) :
                    b[chain[i]] = 0 \/ b[chain[i]] = r.id \/ Lapsed(ss[b[chain[i]]], u)

\* The time as of which storyFor finds every open story of the chain, and no
\* other: the latest, unless the event is late and revives one.
AsOf(chain, t) == IF Revives(chain, t) THEN t ELSE now

LEMMA FoundAsOf ==
    ASSUME now \in Nat, NEW t \in Nat, t <= now, StoreOK(stories, byPID, now),
           NEW chain, ChainOK(chain)
    PROVE  AsOf(chain, t) \in Nat /\ FoundOK(Found(chain, t), chain, Len(chain), AsOf(chain, t))
<1>1. FoundOK(Found(chain, t), chain, Len(chain), t)
  BY FoundIs DEF ChainOK
<1>2. CASE Revives(chain, t)
  BY <1>1, <1>2 DEF AsOf
<1>3. CASE ~Revives(chain, t)
  <2> DEFINE found == Found(chain, t)
  <2>1. ASSUME NEW i \in 1..Len(chain), byPID[chain[i]] # 0
        PROVE  Lapsed(stories[byPID[chain[i]]], now) <=> Lapsed(stories[byPID[chain[i]]], t)
    <3> DEFINE m == byPID[chain[i]]
               l == stories[m].lastTS
    <3>1. m \in 1..Len(stories)
      BY <2>1 DEF StoreOK, IsSeq, ChainOK
    <3>2. l \in Nat /\ Window \in Nat
      BY <3>1, StorylineAssumption DEF StoreOK, StoryOK
    <3>3. Lapsed(stories[m], now) => Lapsed(stories[m], t)
      BY <1>3, <2>1 DEF Revives
    <3> HIDE DEF l
    <3>4. (t > l /\ t - l > Window) => (now > l /\ now - l > Window)
      BY <3>2
    <3> QED BY <3>3, <3>4 DEF Lapsed, l
  <2>2. FoundOK(found, chain, Len(chain), t)
    BY <1>1
  <2> HIDE DEF found
  <2>3. \A k \in 1..Len(found) : ~Lapsed(stories[found[k]], now)
    <3> TAKE k \in 1..Len(found)
    <3>1. PICK j \in 1..Len(chain) : byPID[chain[j]] = found[k] /\ found[k] # 0
      BY <2>2 DEF FoundOK
    <3> QED BY <2>1, <2>2, <3>1 DEF FoundOK
  <2>4. FoundOK(found, chain, Len(chain), now)
    BY <2>1, <2>2, <2>3 DEF FoundOK
  <2> QED BY <1>3, <2>4 DEF AsOf, found
<1> QED BY <1>2, <1>3

LEMMA JoinedReady ==
    ASSUME now \in Nat, NEW t \in Nat, t <= now,
           StoreOK(stories, byPID, now), TallyOK(stories, filed),
           NEW chain, ChainOK(chain), Found(chain, t) # <<>>
    PROVE  ReadyOK(Joined(Found(chain, t)), chain, AsOf(chain, t))
<1> DEFINE found == Found(chain, t)
           r == Joined(found)
           u == AsOf(chain, t)
<1>1. FoundOK(found, chain, Len(chain), u) /\ u \in Nat
  BY FoundAsOf
<1>2. found # <<>>
  OBVIOUS
<1> HIDE DEF found, u
<1>3. Len(found) \in Nat /\ Len(found) >= 1
  <2>1. IsSeq(found)
    BY <1>1 DEF FoundOK
  <2>2. Len(found) \in Nat /\ found = [i \in 1..Len(found) |-> found[i]]
    BY <2>1 DEF IsSeq
  <2>3. Len(found) # 0
    <3> SUFFICES ASSUME Len(found) = 0 PROVE found = <<>>
      BY <1>2
    <3>1. found = [i \in 1..0 |-> found[i]]
      BY <2>2
    <3> QED BY <3>1
  <2> QED BY <2>2, <2>3
<1>4. OpenOnce(found, u)
  <2>1. ASSUME NEW k \in 1..Len(found)
        PROVE  /\ found[k] \in 1..Len(stories)
               /\ Live(stories[found[k]]) /\ ~Lapsed(stories[found[k]], u)
    <3>0. PICK j \in 1..Len(chain) : byPID[chain[j]] = found[k] /\ found[k] # 0
      BY <1>1 DEF FoundOK
    <3> DEFINE p == chain[j]
    <3>1. p \in PIDs /\ byPID[p] = found[k] /\ found[k] # 0
      BY <3>0 DEF ChainOK
    <3> HIDE DEF p
    <3>2. byPID[p] \in 0..Len(stories) /\ Live(stories[byPID[p]]) /\ Len(stories) \in Nat
      BY <3>1 DEF StoreOK, IsSeq
    <3> QED BY <1>1, <3>1, <3>2 DEF FoundOK
  <2> QED BY <1>1, <2>1 DEF FoundOK, OpenOnce
<1>5. JoinOK(r, found, Len(found), u)
  BY <1>1, <1>3, <1>4, JoinedIs
<1> HIDE DEF r
<1> DEFINE F == Firsts(found, Len(found))
<1>6. F \subseteq 1..Len(stories)
  BY <1>4 DEF OpenOnce, Firsts
<1>7. ASSUME OwnOK(stories, byPID, u), NEW i \in 1..Len(chain)
      PROVE  LET n == r.store.byPID[chain[i]] IN
             n = 0 \/ n = r.id \/ Lapsed(r.store.stories[n], u)
  <2> DEFINE m == byPID[chain[i]]
  <2>0. chain[i] \in PIDs
    BY DEF ChainOK
  <2>1. r.store.byPID[chain[i]] = IF m \in F THEN r.id ELSE m
    BY <1>5, <1>7, <2>0 DEF JoinOK
  <2>2. m \in 0..Len(stories) /\ Len(stories) \in Nat
    BY <2>0 DEF StoreOK, IsSeq
  <2>3. m = 0 \/ m \in F \/ Lapsed(stories[m], u)
    BY <1>1 DEF FoundOK, Firsts
  <2> HIDE DEF m, F
  <2>4. CASE m = 0 \/ m \in F
    BY <2>1, <2>4
  <2>5. CASE m # 0 /\ m \notin F
    <3>1. m \in 1..Len(stories) \ F
      BY <2>2, <2>5
    <3>2. r.store.stories[m] = stories[m]
      BY <1>5, <3>1 DEF JoinOK, F
    <3> QED BY <2>1, <2>3, <2>5, <3>2
  <2> QED BY <2>4, <2>5
<1>9. ASSUME NEW m \in F, NEW x \in r.store.stories[m].members PROVE Touches(chain, x)
  <2>1. PICK n \in F : x \in stories[n].members
    BY <1>5, <1>9 DEF JoinOK, Gathered, F
  <2>2. PICK k \in 1..Len(found) : found[k] = n
    BY DEF F, Firsts
  <2>3. PICK i \in 1..Len(chain) : byPID[chain[i]] = n /\ n # 0
    BY <1>1, <2>2 DEF FoundOK
  <2>4. chain[i] \in PIDs
    BY DEF ChainOK
  <2>5. chain[i] \in stories[n].members
    BY <2>3, <2>4 DEF StoreOK
  <2>6. n \in 1..Len(stories)
    BY <1>6
  <2> HIDE DEF F
  <2> QED BY <2>1, <2>5, <2>6 DEF Touches
<1>10. Akin(r.store.stories, chain) /\ \A x \in r.store.stories[r.id].members : Touches(chain, x)
  <2>1. Len(r.store.stories) = Len(stories) /\ r.id \in F
        /\ \A m \in 1..Len(stories) \ F : r.store.stories[m] = stories[m]
    BY <1>5 DEF JoinOK
  <2> HIDE DEF F
  <2> QED BY <1>9, <2>1 DEF Akin
<1>11. r.id \in F /\ Live(r.store.stories[r.id]) /\ ~Lapsed(r.store.stories[r.id], u)
       /\ StoreOK(r.store.stories, r.store.byPID, now) /\ TallyOK(r.store.stories, filed)
       /\ Len(r.store.stories) = Len(stories)
  BY <1>5 DEF JoinOK
<1> HIDE DEF F
<1>12. ASSUME OwnOK(stories, byPID, u)
       PROVE  /\ OwnOK(r.store.stories, r.store.byPID, u)
              /\ \A x \in r.store.stories[r.id].members : r.store.byPID[x] = r.id
  <2>1. OwnOK(r.store.stories, r.store.byPID, u)
    BY <1>5, <1>12 DEF JoinOK
  <2> QED BY <1>6, <1>11, <2>1 DEF OwnOK
<1>8. ReadyOK(r, chain, u)
  BY <1>6, <1>7, <1>10, <1>11, <1>12 DEF ReadyOK
<1> QED BY <1>8 DEF r, found, u

\* The chains of absorptions depend on absorbedBy alone.
LEMMA SameSurvivors ==
    ASSUME NEW ss, Len(ss) \in Nat, Acyclic(ss), NEW ss2, Len(ss2) = Len(ss),
           \A n \in 1..Len(ss) : ss2[n].absorbedBy = ss[n].absorbedBy
    PROVE  /\ Acyclic(ss2)
           /\ \A n \in 1..Len(ss) : Survivor(ss2, n) = Survivor(ss, n)
<1>1. PICK r \in [1..Len(ss) -> 0..Len(ss)] : Ranked(ss, r)
  BY DEF Acyclic
<1>2. \A n \in 1..Len(ss) : Live(ss2[n]) <=> Live(ss[n])
  BY DEF Live
<1>3. Dead(ss2) = Dead(ss)
  BY <1>2 DEF Dead
<1>4. Ranked(ss2, r)
  BY <1>1, <1>2, <1>3 DEF Ranked
<1>5. Acyclic(ss2)
  BY <1>1, <1>4 DEF Acyclic
<1> DEFINE c == [n \in 1..Len(ss) |-> Survivor(ss, n)]
<1>6. ASSUME NEW n \in 1..Len(ss2) PROVE c[n] = IF Live(ss2[n]) THEN n ELSE c[ss2[n].absorbedBy]
  <2>1. n \in 1..Len(ss)
    OBVIOUS
  <2>2. /\ Live(ss[n]) => Survivor(ss, n) = n
        /\ ~Live(ss[n]) => Survivor(ss, n) = Survivor(ss, ss[n].absorbedBy)
    BY <1>1, <2>1, SurvivorUnfolds
  <2>3. ~Live(ss[n]) => ss[n].absorbedBy \in 1..Len(ss)
    BY <1>1, <2>1 DEF Ranked
  <2> QED BY <1>2, <2>1, <2>2, <2>3
<1> HIDE DEF c
<1>7. \A n \in 1..Len(ss2) : Survivor(ss2, n) = c[n]
  BY <1>4, <1>6, SurvivorUnique
<1> QED BY <1>5, <1>7 DEF c

\* A new story is nobody's, and tells of nothing.
LEMMA OpenedReady ==
    ASSUME now \in Nat, NEW t \in Nat, t <= now,
           StoreOK(stories, byPID, now), TallyOK(stories, filed),
           NEW chain, ChainOK(chain), Found(chain, t) = <<>>, NEW top
    PROVE  ReadyOK(Opened(top, t), chain, AsOf(chain, t))
<1> DEFINE new == NewStory(top, t)
           ss == Append(stories, new)
           N == Len(stories)
           r == Opened(top, t)
           u == AsOf(chain, t)
<1>1. /\ IsSeq(stories) /\ N \in Nat /\ (\A n \in 1..N : StoryOK(stories[n])) /\ Acyclic(stories)
      /\ (\A n \in 1..N : StepsOK(stories[n], now) /\ stories[n].lastTS <= now)
      /\ byPID \in [PIDs -> 0..N]
      /\ \A p \in PIDs : byPID[p] # 0 => Live(stories[byPID[p]]) /\ p \in stories[byPID[p]].members
  BY DEF StoreOK, IsSeq
<1>2. r.store.stories = ss /\ r.store.byPID = byPID /\ r.id = N + 1
  BY DEF Opened
<1>3. /\ DOMAIN new = Fields /\ new.members = {} /\ new.tactics = {} /\ new.alerts = 0
      /\ new.firstTS = t /\ new.lastTS = t /\ new.reportedN = 0 /\ new.absorbedBy = 0
      /\ new.steps = <<>>
  BY DEF NewStory, Fields
<1>4. StoryOK(new) /\ Live(new) /\ StepsOK(new, now)
  <2>1. IsFiniteSet({})
    BY FS_EmptySet
  <2>2. StepsOK(new, now)
    <3>1. Fits(<<>>, t, now - t)
      BY EmptyFits
    <3> QED BY <1>3, <3>1 DEF StepsOK
  <2> QED BY <1>3, <2>1, <2>2 DEF StoryOK, Live
<1> HIDE DEF new
<1>5. /\ IsSeq(ss) /\ Len(ss) = N + 1 /\ ss[N + 1] = new
      /\ \A n \in 1..N : ss[n] = stories[n]
  BY <1>1, AppendSeq
<1> HIDE DEF ss, r
<1>6. \A n \in 1..Len(ss) : n = N + 1 \/ n \in 1..N
  BY <1>1, <1>5
<1>7. 1..N \subseteq 1..Len(ss) /\ N + 1 \in 1..Len(ss)
  BY <1>1, <1>5
<1>8. PICK q \in [1..N -> 0..N] : Ranked(stories, q)
  BY <1>1 DEF Acyclic
<1>9. Dead(ss) = Dead(stories)
  BY <1>4, <1>5, <1>6, <1>7 DEF Dead
<1> DEFINE rank == [n \in 1..Len(ss) |-> IF n = N + 1 THEN 0 ELSE q[n]]
<1>10. Ranked(ss, rank) /\ rank \in [1..Len(ss) -> 0..Len(ss)]
  <2>1. Cardinality(Dead(ss)) \in Nat
    BY <1>1, <1>9, DeadCount
  <2>2. \A n \in 1..N : n # N + 1
    BY <1>1
  <2>3. ASSUME NEW n \in 1..Len(ss)
        PROVE  /\ rank[n] \in Nat /\ rank[n] <= Cardinality(Dead(ss))
               /\ ~Live(ss[n]) => /\ ss[n].absorbedBy \in 1..Len(ss)
                                  /\ rank[ss[n].absorbedBy] < rank[n]
    <3>1. CASE n = N + 1
      BY <1>4, <1>5, <2>1, <3>1
    <3>2. CASE n \in 1..N
      <4>1. /\ q[n] \in Nat /\ q[n] <= Cardinality(Dead(ss))
            /\ ~Live(stories[n]) => /\ stories[n].absorbedBy \in 1..N
                                    /\ q[stories[n].absorbedBy] < q[n]
        BY <1>8, <1>9, <3>2 DEF Ranked
      <4> QED BY <1>5, <1>7, <2>2, <3>2, <4>1
    <3> QED BY <1>6, <3>1, <3>2
  <2>4. Ranked(ss, rank)
    BY <2>3 DEF Ranked
  <2>5. ASSUME NEW n \in 1..Len(ss) PROVE rank[n] \in 0..Len(ss)
    <3>1. CASE n = N + 1
      BY <1>1, <1>5, <3>1
    <3>2. CASE n \in 1..N
      <4>1. rank[n] = q[n] /\ q[n] \in 0..N
        BY <1>7, <1>8, <2>2, <3>2
      <4> QED BY <1>1, <1>5, <4>1
    <3> QED BY <1>6, <3>1, <3>2
  <2> QED BY <2>4, <2>5
<1> HIDE DEF rank
<1>11. Acyclic(ss)
  BY <1>10 DEF Acyclic
<1> DEFINE c == [n \in 1..Len(ss) |-> IF n = N + 1 THEN n ELSE Survivor(stories, n)]
<1>12. \A n \in 1..N : Survivor(stories, n) \in 1..N
  BY <1>1, <1>8, SurvivorUnfolds
<1>13. ASSUME NEW n \in 1..Len(ss) PROVE c[n] = IF Live(ss[n]) THEN n ELSE c[ss[n].absorbedBy]
  <2>0. \A m \in 1..N : m # N + 1
    BY <1>1
  <2>1. CASE n = N + 1
    BY <1>4, <1>5, <2>1
  <2>2. CASE n \in 1..N
    <3>1. /\ Live(stories[n]) => Survivor(stories, n) = n
          /\ ~Live(stories[n]) => Survivor(stories, n) = Survivor(stories, stories[n].absorbedBy)
      BY <1>1, <1>8, <2>2, SurvivorUnfolds
    <3>2. ~Live(stories[n]) => stories[n].absorbedBy \in 1..N
      BY <1>8, <2>2 DEF Ranked
    <3> QED BY <1>5, <1>7, <2>0, <2>2, <3>1, <3>2
  <2> QED BY <1>6, <2>1, <2>2
<1> HIDE DEF c
<1>14. \A n \in 1..Len(ss) : Survivor(ss, n) = c[n]
  <2>1. Len(ss) \in Nat
    BY <1>1, <1>5
  <2> QED BY <1>10, <1>13, <2>1, SurvivorUnique
<1>15. Survivor(ss, N + 1) = N + 1 /\ \A n \in 1..N : Survivor(ss, n) = Survivor(stories, n)
  <2>1. \A m \in 1..N : m # N + 1
    BY <1>1
  <2> QED BY <1>7, <1>14, <2>1 DEF c
<1>16. StoreOK(ss, byPID, now)
  <2>1. \A n \in 1..Len(ss) : StoryOK(ss[n])
    BY <1>1, <1>4, <1>5, <1>6
  <2>2. byPID \in [PIDs -> 0..Len(ss)]
    BY <1>1, <1>5
  <2>3. ASSUME NEW p \in PIDs, byPID[p] # 0 PROVE Live(ss[byPID[p]]) /\ p \in ss[byPID[p]].members
    <3>1. byPID[p] \in 1..N
      BY <1>1, <2>3
    <3> QED BY <1>1, <1>5, <2>3, <3>1
  <2>4. \A n \in 1..Len(ss) : StepsOK(ss[n], now) /\ ss[n].lastTS <= now
    BY <1>1, <1>3, <1>4, <1>5, <1>6
  <2> QED BY <1>5, <1>11, <2>1, <2>2, <2>3, <2>4 DEF StoreOK
<1>17. TallyOK(ss, filed)
  <2>1. /\ IsSeq(filed)
        /\ \A i \in 1..Len(filed) : filed[i].story \in 1..N /\ filed[i].chain \in Nat
        /\ \A n \in 1..N : Live(stories[n]) => Tells(stories[n], filed, Mine(stories, filed, n))
        /\ \A n \in 1..N : stories[Survivor(stories, n)].firstTS <= stories[n].firstTS
    BY DEF TallyOK
  <2>2. \A n \in 1..N : Mine(ss, filed, n) = Mine(stories, filed, n)
    BY <1>15, <2>1 DEF Mine
  <2>3. Mine(ss, filed, N + 1) = {}
    <3>1. \A m \in 1..N : m # N + 1
      BY <1>1
    <3> QED BY <1>12, <1>15, <2>1, <3>1 DEF Mine
  <2>4. Tells(new, filed, {})
    <3>1. Cardinality({}) = 0 /\ Tactics(filed, {}) = {}
      BY FS_EmptySet DEF Tactics
    <3> QED BY <1>3, <3>1 DEF Tells
  <2>5. \A n \in 1..Len(ss) : Live(ss[n]) => Tells(ss[n], filed, Mine(ss, filed, n))
    BY <1>5, <1>6, <2>1, <2>2, <2>3, <2>4
  <2>6. \A n \in 1..Len(ss) : ss[Survivor(ss, n)].firstTS <= ss[n].firstTS
    <3> TAKE n \in 1..Len(ss)
    <3>1. CASE n = N + 1
      BY <1>3, <1>5, <1>15, <3>1
    <3>2. CASE n \in 1..N
      BY <1>5, <1>12, <1>15, <2>1, <3>2
    <3> QED BY <1>6, <3>1, <3>2
  <2>7. \A i \in 1..Len(filed) : filed[i].story \in 1..Len(ss) /\ filed[i].chain \in Nat
    BY <1>7, <2>1
  <2>8. ASSUME NEW i \in 1..Len(filed) PROVE filed[i].pid \in ss[Survivor(ss, filed[i].story)].members
    <3> DEFINE m == filed[i].story
    <3>1. m \in 1..N /\ filed[i].pid \in stories[Survivor(stories, m)].members
      BY DEF TallyOK
    <3> HIDE DEF m
    <3>2. Survivor(ss, m) = Survivor(stories, m) /\ Survivor(stories, m) \in 1..N
      BY <1>12, <1>15, <3>1
    <3>3. ss[Survivor(ss, m)] = stories[Survivor(stories, m)]
      BY <1>5, <3>2
    <3> QED BY <3>1, <3>3 DEF m
  <2> QED BY <2>1, <2>5, <2>6, <2>7, <2>8 DEF TallyOK
<1>18. ASSUME OwnOK(stories, byPID, u), NEW i \in 1..Len(chain)
       PROVE  byPID[chain[i]] = 0 \/ Lapsed(ss[byPID[chain[i]]], u)
  <2>1. FoundOK(<<>>, chain, Len(chain), u)
    <3> DEFINE found == Found(chain, t)
    <3>1. found = <<>> /\ FoundOK(found, chain, Len(chain), u)
      BY FoundAsOf
    <3> HIDE DEF found, u
    <3> QED BY <3>1
  <2>2. byPID[chain[i]] = 0 \/ Lapsed(stories[byPID[chain[i]]], u)
    BY <2>1 DEF FoundOK
  <2>3. byPID[chain[i]] = 0 \/ byPID[chain[i]] \in 1..N
    BY <1>1 DEF ChainOK
  <2> QED BY <1>5, <2>2, <2>3
<1>20. Akin(ss, chain) /\ \A x \in ss[N + 1].members : Touches(chain, x)
  BY <1>3, <1>5, <1>6 DEF Akin
<1>21. OwnOK(stories, byPID, u) => OwnOK(ss, byPID, u)
  BY <1>3, <1>5, <1>6 DEF OwnOK
<1>22. \A x \in ss[N + 1].members : byPID[x] = N + 1
  BY <1>3, <1>5
<1> HIDE DEF u
<1>23. Live(ss[N + 1])
  BY <1>4, <1>5
<1>19. ReadyOK(r, chain, u)
  <2> DEFINE k == N + 1
  <2>1. r.id = k /\ k \in 1..Len(ss) /\ Live(ss[k])
        /\ (\A x \in ss[k].members : Touches(chain, x)) /\ (\A x \in ss[k].members : byPID[x] = k)
    BY <1>2, <1>7, <1>20, <1>22, <1>23
  <2> HIDE DEF k
  <2> QED BY <1>2, <1>16, <1>17, <1>18, <1>20, <1>21, <2>1 DEF ReadyOK
<1> QED BY <1>19 DEF r, u

LEMMA ChainSet ==
    ASSUME NEW chain, ChainOK(chain)
    PROVE  /\ ToSet(chain) \subseteq PIDs
           /\ \A p : p \in ToSet(chain) <=> Contains(chain, p)
           /\ \A p : Contains(chain, p) <=> \E i \in 1..Len(chain) : chain[i] = p
<1>1. DOMAIN chain = 1..Len(chain)
  BY DEF ChainOK, IsSeq
<1> QED BY <1>1 DEF ToSet, Contains, ChainOK

\* A store where the chain has been enrolled in an open story.
StoredOK(q, chain, u) ==
    LET ss == q.store.stories
        b == q.store.byPID
    IN  /\ Akin(ss, chain)
        /\ \A i \in 1..Len(chain) : chain[i] \in ss[q.id].members
        /\ StoreOK(ss, b, now) /\ TallyOK(ss, filed)
        /\ q.id \in 1..Len(ss) /\ Live(ss[q.id])
        /\ OwnOK(stories, byPID, u) =>
              OwnOK(ss, b, u) /\ \A x \in ss[q.id].members : b[x] = q.id

\* Enrolling the chain keeps the store and the books: a process of the chain
\* leaves no open story for it.
LEMMA EnrolKeeps ==
    ASSUME NEW u \in Nat, NEW chain, ChainOK(chain), NEW r, ReadyOK(r, chain, u)
    PROVE  StoredOK(Enrolled(r, chain), chain, u)
<1> DEFINE ss == r.store.stories
           b == r.store.byPID
           n == r.id
           old == ss[n]
           new == [old EXCEPT !.members = @ \cup ToSet(chain),
                              !.root = IF Contains(chain, @) THEN chain[Len(chain)] ELSE @]
           ss2 == [ss EXCEPT ![n] = new]
           b2 == [p \in PIDs |-> IF Contains(chain, p) THEN n ELSE b[p]]
           q == Enrolled(r, chain)
           N == Len(ss)
<1>1. /\ IsSeq(ss) /\ N \in Nat /\ (\A m \in 1..N : StoryOK(ss[m])) /\ Acyclic(ss)
      /\ (\A m \in 1..N : StepsOK(ss[m], now) /\ ss[m].lastTS <= now)
      /\ b \in [PIDs -> 0..N]
      /\ \A p \in PIDs : b[p] # 0 => Live(ss[b[p]]) /\ p \in ss[b[p]].members
  BY DEF ReadyOK, StoreOK, IsSeq
<1>2. /\ n \in 1..N /\ Live(old) /\ TallyOK(ss, filed)
      /\ OwnOK(stories, byPID, u) =>
            /\ OwnOK(ss, b, u) /\ \A x \in old.members : b[x] = n
            /\ \A i \in 1..Len(chain) :
                  b[chain[i]] = 0 \/ b[chain[i]] = n \/ Lapsed(ss[b[chain[i]]], u)
  BY DEF ReadyOK
<1>3. q.id = n /\ q.store.stories = ss2 /\ q.store.byPID = b2
  <2>1. q = [id |-> n, store |-> [stories |-> ss2, byPID |-> b2]]
    BY Zenon DEF Enrolled
  <2> HIDE DEF q, n, ss2, b2
  <2> QED BY <2>1
<1> HIDE DEF q, ss, b, n
<1>4. /\ ToSet(chain) \subseteq PIDs
      /\ \A p : p \in ToSet(chain) <=> Contains(chain, p)
      /\ \A p : Contains(chain, p) <=> \E i \in 1..Len(chain) : chain[i] = p
  BY ChainSet
<1>5. StoryOK(old) /\ DOMAIN old = Fields
  BY <1>1, <1>2 DEF StoryOK
<1> HIDE DEF old
<1>6. /\ DOMAIN new = Fields /\ new.members = old.members \cup ToSet(chain)
      /\ new.tactics = old.tactics /\ new.alerts = old.alerts /\ new.firstTS = old.firstTS
      /\ new.lastTS = old.lastTS /\ new.reportedN = old.reportedN
      /\ new.absorbedBy = old.absorbedBy /\ new.steps = old.steps
  BY <1>5 DEF Fields
<1> HIDE DEF new
<1>7. StoryOK(new) /\ Live(new) /\ StepsOK(new, now) /\ new.lastTS <= now
  <2>1. StepsOK(old, now) /\ old.lastTS <= now
    BY <1>1, <1>2 DEF old
  <2>2. StepsOK(new, now)
    BY <1>6, <2>1, SameSteps
  <2> QED BY <1>2, <1>4, <1>5, <1>6, <2>1, <2>2 DEF StoryOK, Live
<1>8. ss2 = [m \in 1..N |-> IF m = n THEN new ELSE ss[m]]
  BY <1>1, <1>2 DEF IsSeq
<1> HIDE DEF ss2
<1>9. IsSeq(ss2) /\ Len(ss2) = N
  <2>1. ss2 = [m \in 1..N |-> ss2[m]]
    BY <1>8
  <2> HIDE DEF N
  <2> QED BY <1>1, <2>1, SeqOfLen
<1>10. ss2[n] = new /\ \A m \in 1..N : m # n => ss2[m] = ss[m]
  BY <1>2, <1>8
<1> HIDE DEF N
<1>11. \A m \in 1..N : ss2[m].absorbedBy = ss[m].absorbedBy
  BY <1>2, <1>6, <1>10 DEF old
<1>12. Acyclic(ss2) /\ \A m \in 1..N : Survivor(ss2, m) = Survivor(ss, m)
  BY <1>1, <1>9, <1>11, SameSurvivors DEF N
<1>13. StoreOK(ss2, b2, now)
  <2>1. \A m \in 1..Len(ss2) : StoryOK(ss2[m])
    BY <1>1, <1>7, <1>9, <1>10
  <2>2. b2 \in [PIDs -> 0..Len(ss2)]
    BY <1>1, <1>2, <1>9
  <2>3. ASSUME NEW p \in PIDs, b2[p] # 0 PROVE Live(ss2[b2[p]]) /\ p \in ss2[b2[p]].members
    <3>1. CASE Contains(chain, p)
      BY <1>4, <1>6, <1>7, <1>10, <3>1
    <3>2. CASE ~Contains(chain, p)
      <4>1. b2[p] = b[p] /\ b[p] \in 1..N /\ Live(ss[b[p]]) /\ p \in ss[b[p]].members
        BY <1>1, <2>3, <3>2
      <4> QED BY <1>6, <1>7, <1>10, <4>1 DEF old
    <3> QED BY <3>1, <3>2
  <2>4. \A m \in 1..Len(ss2) : StepsOK(ss2[m], now) /\ ss2[m].lastTS <= now
    BY <1>1, <1>7, <1>9, <1>10
  <2> HIDE DEF b2
  <2> QED BY <1>9, <1>12, <2>1, <2>2, <2>3, <2>4 DEF StoreOK
<1>18. ASSUME OwnOK(stories, byPID, u)
       PROVE  OwnOK(ss2, b2, u) /\ \A x \in ss2[n].members : b2[x] = n
  <2>1. ASSUME NEW p \in ss2[n].members PROVE b2[p] = n
    <3>0. p \in PIDs
      BY <1>7, <1>10, <2>1 DEF StoryOK
    <3>1. CASE Contains(chain, p)
      BY <3>0, <3>1
    <3>2. CASE ~Contains(chain, p)
      <4>1. p \in old.members
        BY <1>4, <1>6, <1>10, <2>1, <3>2
      <4>2. b[p] = n
        BY <1>2, <1>18, <4>1
      <4> QED BY <3>0, <3>2, <4>2
    <3> QED BY <3>1, <3>2
  <2>2. ASSUME NEW m \in 1..Len(ss2), Live(ss2[m]), ~Lapsed(ss2[m], u), NEW p \in ss2[m].members
        PROVE  b2[p] = m
    <3>1. CASE m = n
      BY <2>1, <2>2, <3>1
    <3>2. CASE m # n
      <4>1. m \in 1..N /\ ss2[m] = ss[m]
        BY <1>9, <1>10, <3>2
      <4>2. b[p] = m /\ p \in PIDs
        BY <1>1, <1>2, <1>18, <2>2, <4>1 DEF OwnOK, StoryOK, N
      <4>3. ~Contains(chain, p)
        <5> SUFFICES ASSUME Contains(chain, p) PROVE FALSE
          OBVIOUS
        <5>1. m = 0 \/ m = n \/ Lapsed(ss[m], u)
          BY <1>2, <1>4, <1>18, <4>2
        <5>2. m # 0
          BY <1>1, <4>1
        <5> QED BY <2>2, <3>2, <4>1, <5>1, <5>2
      <4> QED BY <4>2, <4>3
    <3> QED BY <3>1, <3>2
  <2> HIDE DEF b2
  <2> QED BY <2>1, <2>2 DEF OwnOK
<1>14. TallyOK(ss2, filed)
  <2>1. /\ IsSeq(filed)
        /\ \A i \in 1..Len(filed) : filed[i].story \in 1..N /\ filed[i].chain \in Nat
        /\ \A m \in 1..N : Live(ss[m]) => Tells(ss[m], filed, Mine(ss, filed, m))
        /\ \A m \in 1..N : ss[Survivor(ss, m)].firstTS <= ss[m].firstTS
    BY <1>2 DEF TallyOK, N
  <2>2. \A m \in 1..N : Mine(ss2, filed, m) = Mine(ss, filed, m)
    BY <1>12, <2>1 DEF Mine
  <2>3. \A m \in 1..N : /\ ss2[m].tactics = ss[m].tactics /\ ss2[m].alerts = ss[m].alerts
                        /\ ss2[m].reportedN = ss[m].reportedN /\ ss2[m].firstTS = ss[m].firstTS
    BY <1>2, <1>6, <1>10 DEF old
  <2>4. \A m \in 1..N : Live(ss2[m]) <=> Live(ss[m])
    BY <1>11 DEF Live
  <2>5. \A m \in 1..N : Live(ss2[m]) => Tells(ss2[m], filed, Mine(ss2, filed, m))
    BY <2>1, <2>2, <2>3, <2>4 DEF Tells
  <2>6. \A m \in 1..N : Survivor(ss, m) \in 1..N
    <3>1. PICK k : Ranked(ss, k)
      BY <1>1 DEF Acyclic
    <3> QED BY <1>1, <3>1, SurvivorUnfolds DEF N
  <2>7. \A m \in 1..N : ss2[Survivor(ss2, m)].firstTS <= ss2[m].firstTS
    BY <1>12, <2>1, <2>3, <2>6
  <2>8. ASSUME NEW i \in 1..Len(filed)
        PROVE  filed[i].pid \in ss2[Survivor(ss2, filed[i].story)].members
    <3> DEFINE m == filed[i].story
    <3>1. m \in 1..N /\ filed[i].pid \in ss[Survivor(ss, m)].members
      BY <1>2 DEF TallyOK, N
    <3>2. \A k \in 1..N : ss[k].members \subseteq ss2[k].members
      BY <1>6, <1>10 DEF old
    <3> HIDE DEF m
    <3>3. Survivor(ss2, m) = Survivor(ss, m) /\ Survivor(ss, m) \in 1..N
      BY <1>12, <2>6, <3>1
    <3>4. filed[i].pid \in ss2[Survivor(ss2, m)].members
      BY <3>1, <3>2, <3>3
    <3> QED BY <3>4 DEF m
  <2> QED BY <1>9, <2>1, <2>5, <2>7, <2>8 DEF TallyOK
<1> HIDE DEF b2
<1>15. q.id \in 1..Len(ss2) /\ Live(ss2[q.id])
  BY <1>2, <1>3, <1>7, <1>9, <1>10
<1>16. Akin(ss2, chain)
  <2>1. Akin(ss, chain) /\ \A x \in old.members : Touches(chain, x)
    BY DEF ReadyOK, ss, old, n
  <2>2. \A x \in new.members : Touches(chain, x)
    BY <1>4, <1>6, <2>1 DEF Touches
  <2>3. ASSUME NEW m \in 1..Len(ss2)
        PROVE  \/ m \in 1..Len(stories) /\ ss2[m].members = stories[m].members
               \/ \A x \in ss2[m].members : Touches(chain, x)
    <3>1. CASE m = n
      BY <1>10, <2>2, <3>1
    <3>2. CASE m # n
      <4>1. ss2[m] = ss[m] /\ m \in 1..Len(ss)
        BY <1>9, <1>10, <3>2 DEF N
      <4> QED BY <2>1, <4>1 DEF Akin
    <3> QED BY <3>1, <3>2
  <2> QED BY <2>3 DEF Akin
<1>17. \A i \in 1..Len(chain) : chain[i] \in ss2[q.id].members
  BY <1>3, <1>4, <1>6, <1>10
<1> QED BY <1>3, <1>13, <1>14, <1>15, <1>16, <1>17, <1>18 DEF q, StoredOK

\* Filing an alert's chain: an open story for it, in good order.
LEMMA StoryForKeeps ==
    ASSUME now \in Nat, NEW t \in Nat, t <= now,
           StoreOK(stories, byPID, now), TallyOK(stories, filed),
           NEW chain, ChainOK(chain)
    PROVE  StoredOK(storyFor(chain, t), chain, AsOf(chain, t))
<1> DEFINE found == Found(chain, t)
           r == IF found = <<>> THEN Opened(chain[Len(chain)], t) ELSE Joined(found)
           u == AsOf(chain, t)
<1>1. ReadyOK(r, chain, u)
  <2>1. CASE found = <<>>
    BY <2>1, OpenedReady
  <2>2. CASE found # <<>>
    BY <2>2, JoinedReady
  <2> QED BY <2>1, <2>2
<1>4. u \in Nat
  BY FoundAsOf
<1>2. storyFor(chain, t) = Enrolled(r, chain)
  BY DEF storyFor
<1> HIDE DEF r, u
<1>3. StoredOK(Enrolled(r, chain), chain, u)
  BY <1>1, <1>4, EnrolKeeps
<1> QED BY <1>2, <1>3 DEF u

-----------------------------------------------------------------------------
(* ancestry.  Its walk is also stated of any lineage, tree and set of live *)
(* processes, to compare the walks of two states.                          *)

ResolvesIn(lin, liv, p) == lin[p] # Unknown \/ (UseLookup /\ p \in liv)
PPIDIn(lin, par, p) == IF lin[p] # Unknown THEN lin[p].ppid ELSE par[p]

ClimbIn(lin, par, liv, w) ==
    IF w.done \/ w.cur <= 2 \/ Contains(w.chain, w.cur) THEN [w EXCEPT !.done = TRUE]
    ELSE IF ResolvesIn(lin, liv, w.cur) /\ w.cur \in Boundaries
         THEN [w EXCEPT !.done = TRUE, !.asked = @ \cup {w.cur}]
    ELSE [chain |-> Append(w.chain, w.cur),
          cur   |-> IF ResolvesIn(lin, liv, w.cur) THEN PPIDIn(lin, par, w.cur) ELSE 0,
          done  |-> ~ResolvesIn(lin, liv, w.cur),
          asked |-> w.asked \cup {w.cur}]

WalkBody(p, pp, lin, par, liv, g, k) ==
    IF k = 1 THEN [chain |-> <<p>>, cur |-> pp, done |-> FALSE, asked |-> {}]
    ELSE ClimbIn(lin, par, liv, g[k - 1])

WalkIn(p, pp, lin, par, liv) ==
    CHOOSE g : g = [k \in 1..MaxAncestry |-> WalkBody(p, pp, lin, par, liv, g, k)]

AncestryIn(p, pp, lin, par, liv) == WalkIn(p, pp, lin, par, liv)[MaxAncestry]

LEMMA AncestryIsIn ==
    ASSUME NEW p, NEW pp
    PROVE  ancestry(p, pp) = AncestryIn(p, pp, lineage, parent, alive)
BY DEF ancestry, AncestryIn, WalkIn, WalkBody, Climb, ClimbIn, Resolves, ResolvesIn, Lookup,
       PPIDOf, PPIDIn

\* The walk exists: the equation that defines it, round by round, has a solution.
LEMMA WalkUnfolds ==
    ASSUME NEW p, NEW pp, NEW lin, NEW par, NEW liv
    PROVE  LET g == WalkIn(p, pp, lin, par, liv)
           IN  \A k \in 1..MaxAncestry :
                  g[k] = IF k = 1 THEN [chain |-> <<p>>, cur |-> pp, done |-> FALSE, asked |-> {}]
                         ELSE ClimbIn(lin, par, liv, g[k - 1])
<1> DEFINE N == MaxAncestry
           Upto(m, g) == \A k \in 1..N : k <= m => g[k] = WalkBody(p, pp, lin, par, liv, g, k)
           G == {m \in Nat : \E g : Upto(m, g)}
<1>0. N \in Nat
  BY StorylineAssumption
<1>1. 0 \in G
  BY <1>0
<1>2. ASSUME NEW m \in Nat, m \in G PROVE m + 1 \in G
  <2>1. PICK g : Upto(m, g)
    BY <1>2
  <2> DEFINE h == [k \in 1..N |-> WalkBody(p, pp, lin, par, liv, g, k)]
  <2>2. \A k \in 1..N : k <= m => h[k] = g[k]
    BY <2>1
  <2>3. \A k \in 1..N : k <= m + 1 => WalkBody(p, pp, lin, par, liv, h, k) = WalkBody(p, pp, lin, par, liv, g, k)
    <3> TAKE k \in 1..N
    <3> HAVE k <= m + 1
    <3>1. CASE k = 1
      BY <3>1 DEF WalkBody
    <3>2. CASE k # 1
      <4>1. k - 1 \in 1..N /\ k - 1 <= m
        BY <1>0, <3>2
      <4>2. h[k - 1] = g[k - 1]
        BY <2>2, <4>1
      <4> HIDE DEF h
      <4> QED BY <3>2, <4>2 DEF WalkBody
    <3> QED BY <3>1, <3>2
  <2>4. Upto(m + 1, h)
    BY <2>3
  <2> HIDE DEF h, Upto
  <2>5. m + 1 \in Nat
    OBVIOUS
  <2> QED BY <2>4, <2>5
<1>3. N \in G
  <2> HIDE DEF G
  <2>1. Nat \subseteq G
    BY <1>1, <1>2, InductionOnNat
  <2> QED BY <1>0, <2>1
<1>4. PICK g : Upto(N, g)
  BY <1>3
<1> DEFINE h == [k \in 1..N |-> g[k]]
<1>5. \A k \in 1..N : g[k] = WalkBody(p, pp, lin, par, liv, g, k)
  BY <1>4
<1>6. \A k \in 1..N : WalkBody(p, pp, lin, par, liv, h, k) = WalkBody(p, pp, lin, par, liv, g, k)
  <2> TAKE k \in 1..N
  <2>1. CASE k = 1
    BY <2>1 DEF WalkBody
  <2>2. CASE k # 1
    <3>1. k - 1 \in 1..N
      BY <1>0, <2>2
    <3>2. h[k - 1] = g[k - 1]
      BY <3>1
    <3> HIDE DEF h
    <3> QED BY <2>2, <3>2 DEF WalkBody
  <2> QED BY <2>1, <2>2
<1>7. h = [k \in 1..N |-> WalkBody(p, pp, lin, par, liv, h, k)]
  BY <1>5, <1>6
<1> DEFINE c == CHOOSE z : z = [k \in 1..MaxAncestry |-> WalkBody(p, pp, lin, par, liv, z, k)]
<1> HIDE DEF h
<1>8. c = [k \in 1..MaxAncestry |-> WalkBody(p, pp, lin, par, liv, c, k)]
  BY <1>7, Zenon
<1>9. WalkIn(p, pp, lin, par, liv) = c
  BY DEF WalkIn
<1> HIDE DEF c
<1>10. \A k \in 1..MaxAncestry : c[k] = WalkBody(p, pp, lin, par, liv, c, k)
  BY <1>8
<1> QED BY <1>9, <1>10 DEF WalkBody

\* What the correlator knows of the process tree names processes, and the
\* event being evaluated is at most Skew older than the latest.
Row == [ppid : PIDs \cup {0, 1}, lastSeen : Nat]

KnownOK ==
    /\ parent \in [PIDs -> PIDs \cup {1}]
    /\ lineage \in [PIDs -> Row]
    /\ event \in [pid : PIDs \cup {0}, ppid : PIDs \cup {0, 1}, ts : Nat, raised : SUBSET AlertKinds]
    /\ now \in Nat /\ event.ts <= now /\ (event.pid # 0 => now <= event.ts + Skew)

\* A walk from p after k rounds: a chain of processes, p the first, and fewer
\* than k asked for.
WalkOK(w, k, p) ==
    /\ DOMAIN w = {"chain", "cur", "done", "asked"}
    /\ ChainOK(w.chain) /\ w.chain[1] = p /\ w.cur \in PIDs \cup {0, 1}
    /\ IsFiniteSet(w.asked) /\ Cardinality(w.asked) < k

LEMMA ClimbKeeps ==
    ASSUME NEW lin \in [PIDs -> Row], NEW par \in [PIDs -> PIDs \cup {1}], NEW liv,
           NEW k \in Nat, NEW w, NEW p, WalkOK(w, k, p)
    PROVE  WalkOK(ClimbIn(lin, par, liv, w), k + 1, p)
<1> DEFINE c == w.cur
           asked == w.asked \cup {c}
           ch == Append(w.chain, c)
           nx == IF ResolvesIn(lin, liv, c) THEN PPIDIn(lin, par, c) ELSE 0
           v == ClimbIn(lin, par, liv, w)
<1>1. /\ DOMAIN w = {"chain", "cur", "done", "asked"} /\ ChainOK(w.chain) /\ w.chain[1] = p
      /\ c \in PIDs \cup {0, 1}
      /\ IsFiniteSet(w.asked) /\ Cardinality(w.asked) < k
  BY DEF WalkOK
<1>2. IsFiniteSet(asked) /\ Cardinality(asked) < k + 1 /\ Cardinality(w.asked) < k + 1
  <2> DEFINE A == w.asked
  <2>1. IsFiniteSet(A) /\ Cardinality(A) < k
    BY <1>1
  <2> HIDE DEF A, c
  <2>2. /\ IsFiniteSet(A \cup {c}) /\ Cardinality(A) \in Nat
        /\ Cardinality(A \cup {c}) = IF c \in A THEN Cardinality(A) ELSE Cardinality(A) + 1
    BY <2>1, FS_AddElement, FS_CardinalityType
  <2>3. Cardinality(A \cup {c}) < k + 1 /\ Cardinality(A) < k + 1
    BY <2>1, <2>2
  <2> QED BY <2>2, <2>3 DEF A
<1> HIDE DEF asked
<1>3. CASE v = [w EXCEPT !.done = TRUE]
  <2>1. DOMAIN v = DOMAIN w /\ v.chain = w.chain /\ v.cur = c /\ v.asked = w.asked
    BY <1>1, <1>3
  <2> HIDE DEF v, c
  <2> QED BY <1>1, <1>2, <2>1 DEF WalkOK, v
<1>4. CASE v = [w EXCEPT !.done = TRUE, !.asked = asked]
  <2>1. DOMAIN v = DOMAIN w /\ v.chain = w.chain /\ v.cur = c /\ v.asked = asked
    BY <1>1, <1>4
  <2> HIDE DEF v, c
  <2> QED BY <1>1, <1>2, <2>1 DEF WalkOK, v
<1>5. CASE /\ c > 2
           /\ v = [chain |-> ch, cur |-> nx, done |-> ~ResolvesIn(lin, liv, c), asked |-> asked]
  <2>1. c \in PIDs
    BY <1>1, <1>5
  <2>2. IsSeq(ch) /\ Len(ch) = Len(w.chain) + 1 /\ ch[Len(w.chain) + 1] = c
        /\ \A i \in 1..Len(w.chain) : ch[i] = w.chain[i]
    BY <1>1, AppendSeq DEF ChainOK
  <2>3. Len(w.chain) \in Nat /\ \A i \in 1..Len(w.chain) : w.chain[i] \in PIDs
    BY <1>1 DEF ChainOK, IsSeq
  <2>7. ch[1] = p
    <3>1. 1 \in 1..Len(w.chain)
      BY <1>1, <2>3 DEF ChainOK
    <3> QED BY <1>1, <2>2, <3>1
  <2>4. ChainOK(ch)
    <3> DEFINE M == Len(w.chain)
    <3> HIDE DEF ch, M, c
    <3>1. \A i \in 1..Len(ch) : i = M + 1 \/ i \in 1..M
      BY <2>2, <2>3 DEF M
    <3>2. Len(ch) >= 1
      BY <2>2, <2>3
    <3> QED BY <2>1, <2>2, <2>3, <3>1, <3>2 DEF ChainOK, M
  <2>5. nx \in PIDs \cup {0, 1}
    <3>1. lin[c].ppid \in PIDs \cup {0, 1} /\ par[c] \in PIDs \cup {1}
      BY <2>1 DEF Row
    <3> QED BY <3>1 DEF PPIDIn
  <2> HIDE DEF ch, nx, c, v
  <2>6. /\ DOMAIN v = {"chain", "cur", "done", "asked"} /\ v.chain = ch /\ v.cur = nx
        /\ v.asked = asked
    BY <1>5
  <2> QED BY <1>2, <2>4, <2>5, <2>6, <2>7 DEF WalkOK, v
<1>6. c <= 2 \/ c > 2
  <2>0. c \in PIDs \cup {0, 1}
    BY <1>1
  <2>1. PIDs \subseteq Nat
    BY StorylineAssumption
  <2> HIDE DEF c
  <2>2. c \in Nat
    BY <2>0, <2>1
  <2> QED BY <2>2
<1>7. \/ v = [w EXCEPT !.done = TRUE]
      \/ v = [w EXCEPT !.done = TRUE, !.asked = asked]
      \/ /\ c > 2
         /\ v = [chain |-> ch, cur |-> nx, done |-> ~ResolvesIn(lin, liv, c), asked |-> asked]
  BY <1>6 DEF ClimbIn, asked
<1> QED BY <1>3, <1>4, <1>5, <1>7

LEMMA WalkKeeps ==
    ASSUME NEW lin \in [PIDs -> Row], NEW par \in [PIDs -> PIDs \cup {1}], NEW liv,
           NEW p \in PIDs, NEW pp \in PIDs \cup {0, 1}
    PROVE  \A k \in 1..MaxAncestry : WalkOK(WalkIn(p, pp, lin, par, liv)[k], k, p)
<1> DEFINE N == MaxAncestry
           g == WalkIn(p, pp, lin, par, liv)
           G == {k \in Nat : k \in 1..N => WalkOK(g[k], k, p)}
<1>0. N \in Nat /\ N >= 1
  BY StorylineAssumption
<1>1. \A k \in 1..N : g[k] = IF k = 1 THEN [chain |-> <<p>>, cur |-> pp, done |-> FALSE, asked |-> {}]
                             ELSE ClimbIn(lin, par, liv, g[k - 1])
  BY WalkUnfolds
<1> HIDE DEF g
<1>4. 0 \in G
  OBVIOUS
<1>5. ASSUME NEW k \in Nat, k \in G PROVE k + 1 \in G
  <2> SUFFICES ASSUME k + 1 \in 1..N PROVE WalkOK(g[k + 1], k + 1, p)
    OBVIOUS
  <2>1. CASE k = 0
    <3>0. 1 \in 1..N
      BY <1>0
    <3>1. g[1] = [chain |-> <<p>>, cur |-> pp, done |-> FALSE, asked |-> {}]
      BY <1>1, <3>0, Zenon
    <3>2. <<p>> \in Seq(PIDs) /\ Len(<<p>>) = 1 /\ <<p>>[1] = p
      OBVIOUS
    <3>3. ChainOK(<<p>>)
      <4>1. IsSeq(<<p>>)
        BY <3>2, SeqIsSeq
      <4>2. Len(<<p>>) >= 1 /\ \A i \in 1..Len(<<p>>) : <<p>>[i] \in PIDs
        BY <3>2
      <4> QED BY <4>1, <4>2 DEF ChainOK
    <3>4. IsFiniteSet({}) /\ Cardinality({}) < 1
      BY FS_EmptySet
    <3>5. WalkOK(g[1], 1, p)
      BY <3>1, <3>2, <3>3, <3>4 DEF WalkOK
    <3> QED BY <2>1, <3>5
  <2>2. CASE k # 0
    <3>1. k \in 1..N /\ k + 1 # 1 /\ (k + 1) - 1 = k
      BY <1>0, <2>2
    <3>2. WalkOK(g[k], k, p)
      BY <1>5, <3>1
    <3>3. g[k + 1] = ClimbIn(lin, par, liv, g[k])
      BY <1>1, <3>1
    <3>4. WalkOK(ClimbIn(lin, par, liv, g[k]), k + 1, p)
      BY <3>2, ClimbKeeps
    <3> QED BY <3>3, <3>4
  <2> QED BY <2>1, <2>2
<1>6. Nat \subseteq G
  <2> HIDE DEF G
  <2> QED BY <1>4, <1>5, InductionOnNat
<1> QED BY <1>6 DEF g

\* The chain of an event is one of processes, from its own, however the tree
\* was learnt, and fewer than maxAncestry of them are asked for.
LEMMA AncestryIs ==
    ASSUME KnownOK, NEW p \in PIDs, NEW pp \in PIDs \cup {0, 1}
    PROVE  /\ ChainOK(ancestry(p, pp).chain) /\ ancestry(p, pp).chain[1] = p
           /\ IsFiniteSet(ancestry(p, pp).asked) /\ Cardinality(ancestry(p, pp).asked) < MaxAncestry
<1>1. MaxAncestry \in 1..MaxAncestry
  BY StorylineAssumption
<1>2. WalkOK(WalkIn(p, pp, lineage, parent, alive)[MaxAncestry], MaxAncestry, p)
  BY <1>1, WalkKeeps DEF KnownOK
<1>3. WalkOK(ancestry(p, pp), MaxAncestry, p)
  BY <1>2, AncestryIsIn DEF AncestryIn
<1> QED BY <1>3 DEF WalkOK

\* Two lineages that answer alike are walked alike.
LEMMA SameWalk ==
    ASSUME NEW lin \in [PIDs -> Row], NEW lin2, NEW par \in [PIDs -> PIDs \cup {1}], NEW liv,
           \A x \in PIDs : /\ ResolvesIn(lin2, liv, x) = ResolvesIn(lin, liv, x)
                           /\ PPIDIn(lin2, par, x) = PPIDIn(lin, par, x),
           NEW p \in PIDs, NEW pp \in PIDs \cup {0, 1}
    PROVE  AncestryIn(p, pp, lin2, par, liv) = AncestryIn(p, pp, lin, par, liv)
<1> DEFINE N == MaxAncestry
           g == WalkIn(p, pp, lin, par, liv)
           h == WalkIn(p, pp, lin2, par, liv)
           G == {k \in Nat : k \in 1..N => h[k] = g[k]}
<1>0. N \in Nat /\ N >= 1
  BY StorylineAssumption
<1>1. \A k \in 1..N : g[k] = IF k = 1 THEN [chain |-> <<p>>, cur |-> pp, done |-> FALSE, asked |-> {}]
                             ELSE ClimbIn(lin, par, liv, g[k - 1])
  BY WalkUnfolds
<1>2. \A k \in 1..N : h[k] = IF k = 1 THEN [chain |-> <<p>>, cur |-> pp, done |-> FALSE, asked |-> {}]
                             ELSE ClimbIn(lin2, par, liv, h[k - 1])
  BY WalkUnfolds
<1>3. \A k \in 1..N : g[k].cur \in PIDs \cup {0, 1}
  BY WalkKeeps DEF WalkOK
<1> HIDE DEF g, h
<1>4. 0 \in G
  OBVIOUS
<1>5. ASSUME NEW k \in Nat, k \in G PROVE k + 1 \in G
  <2> SUFFICES ASSUME k + 1 \in 1..N PROVE h[k + 1] = g[k + 1]
    OBVIOUS
  <2>1. CASE k = 0
    <3>1. 1 \in 1..N
      BY <1>0
    <3>2. h[1] = g[1]
      BY <1>1, <1>2, <3>1, Zenon
    <3> QED BY <2>1, <3>2
  <2>2. CASE k # 0
    <3>1. k \in 1..N /\ k + 1 # 1 /\ (k + 1) - 1 = k
      BY <1>0, <2>2
    <3> DEFINE w == g[k]
               c == w.cur
    <3>2. /\ g[k + 1] = ClimbIn(lin, par, liv, w) /\ h[k + 1] = ClimbIn(lin2, par, liv, w)
          /\ c \in PIDs \cup {0, 1}
      BY <1>1, <1>2, <1>3, <1>5, <3>1
    <3> HIDE DEF w
    <3>3. CASE c <= 2
      BY <3>2, <3>3 DEF ClimbIn
    <3>4. CASE ~(c <= 2)
      <4>1. c \in PIDs
        BY <3>2, <3>4
      <4>2. ResolvesIn(lin2, liv, c) = ResolvesIn(lin, liv, c) /\ PPIDIn(lin2, par, c) = PPIDIn(lin, par, c)
        BY <4>1
      <4>3. ClimbIn(lin2, par, liv, w) = ClimbIn(lin, par, liv, w)
        BY <4>2, Zenon DEF ClimbIn
      <4> QED BY <3>2, <4>3
    <3> QED BY <3>3, <3>4
  <2> QED BY <2>1, <2>2
<1>6. N \in G
  <2> HIDE DEF G
  <2> QED BY <1>0, <1>4, <1>5, InductionOnNat
<1>7. h[N] = g[N]
  BY <1>0, <1>6
<1> QED BY <1>7 DEF AncestryIn, g, h

-----------------------------------------------------------------------------
(* Correlate: the alert is filed in the story found for it. *)

LEMMA TacticsForFinite ==
    ASSUME NEW a
    PROVE  IsFiniteSet(TacticsFor(a))
<1>1. \A x : IsFiniteSet({x})
  BY FS_Singleton
<1>2. IsFiniteSet({})
  BY FS_EmptySet
<1>3. IsFiniteSet(tacticsByTechnique(a.mitre))
  BY <1>1, <1>2 DEF tacticsByTechnique
<1>4. IsFiniteSet(IF a.rule = "reverse-shell" THEN {"CommandControl"} ELSE {})
  BY <1>1, <1>2
<1> QED BY <1>3, <1>4, FS_Union DEF TacticsFor

\* ReportsEachTacticOnce, of any store and any alerts filed.
ReportsOK(ss, f) ==
    LET j == Len(f)
        n == Survivor(ss, f[j].story)
        before == Tactics(f, {k \in 1..(j - 1) : Survivor(ss, f[k].story) = n})
        span == before \cup TacticsFor(f[j].alert)
    IN  j > 0 =>
          /\ f[j].chain > 0 =>
                \A i \in 1..(j - 1) : Survivor(ss, f[i].story) = n => f[i].chain < f[j].chain
          /\ span # before /\ Cardinality(span) >= Threshold => f[j].chain = Cardinality(span)

\* The story s once the alert a is filed in it, and what is filed.
Filing(s, a, t, steps) ==
    LET tacs == s.tactics \cup TacticsFor(a)
    IN  [s EXCEPT !.alerts = @ + 1, !.lastTS = t, !.tactics = tacs, !.steps = steps,
                  !.reportedN = IF Raises(s.tactics, tacs, s.reportedN)
                                THEN Cardinality(tacs) ELSE @]

Filed(s, a, p, n, late) ==
    LET tacs == s.tactics \cup TacticsFor(a)
    IN  [alert |-> a, pid |-> p, story |-> n,
         chain |-> IF Raises(s.tactics, tacs, s.reportedN) THEN Cardinality(tacs) ELSE 0,
         late  |-> late]

\* What a report claims: never less than before, never more than the story
\* spans, and all of it when the alert brought a tactic.
LEMMA ReportedGrows ==
    ASSUME NEW s, StoryOK(s), s.reportedN <= Cardinality(s.tactics),
           NEW a, NEW t, NEW steps, NEW p, NEW n, NEW late
    PROVE  LET new == Filing(s, a, t, steps)
               e == Filed(s, a, p, n, late)
               tacs == s.tactics \cup TacticsFor(a)
           IN  /\ IsFiniteSet(tacs) /\ Cardinality(tacs) \in Nat
               /\ new.reportedN \in Nat /\ e.chain \in Nat
               /\ s.reportedN <= new.reportedN /\ new.reportedN <= Cardinality(tacs)
               /\ e.chain <= new.reportedN
               /\ e.chain > 0 => e.chain > s.reportedN
               /\ tacs # s.tactics /\ Cardinality(tacs) >= Threshold => e.chain = Cardinality(tacs)
<1> DEFINE tacs == s.tactics \cup TacticsFor(a)
           new == Filing(s, a, t, steps)
           e == Filed(s, a, p, n, late)
           C == Cardinality(tacs)
           DD == Cardinality(s.tactics)
           R == s.reportedN
           raise == Raises(s.tactics, tacs, s.reportedN)
<1>1. DOMAIN s = Fields /\ R \in Nat /\ IsFiniteSet(s.tactics)
  BY DEF StoryOK
<1>2. IsFiniteSet(tacs)
  BY <1>1, TacticsForFinite, FS_Union
<1>3. s.tactics \subseteq tacs
  OBVIOUS
<1>4. new.reportedN = IF raise THEN C ELSE R
  BY <1>1 DEF Filing, Fields
<1>5. e.chain = IF raise THEN C ELSE 0
  BY DEF Filed
<1> HIDE DEF tacs, new, e
<1>6. C \in Nat /\ DD \in Nat /\ DD <= C /\ (C = DD => tacs = s.tactics)
  BY <1>1, <1>2, <1>3, FS_CardinalityType, FS_Subset
<1>7. raise <=> tacs # s.tactics /\ C >= Threshold /\ C > R
  BY DEF Raises
<1>8. R <= DD
  OBVIOUS
<1> DEFINE nr == new.reportedN
           ch == e.chain
<1> HIDE DEF C, DD, R, raise, nr, ch
<1>9. nr = (IF raise THEN C ELSE R) /\ ch = IF raise THEN C ELSE 0
  BY <1>4, <1>5 DEF nr, ch
<1>10. Threshold \in Nat
  BY StorylineAssumption
<1>11. /\ nr \in Nat /\ ch \in Nat /\ R <= nr /\ nr <= C /\ ch <= nr /\ (ch > 0 => ch > R)
       /\ (tacs # s.tactics /\ C >= Threshold => ch = C)
  <2>1. CASE raise
    BY <1>1, <1>6, <1>7, <1>8, <1>9, <2>1
  <2>2. CASE ~raise
    <3>1. tacs # s.tactics => C > R
      BY <1>1, <1>6, <1>8
    <3>2. ~(tacs # s.tactics /\ C >= Threshold)
      BY <1>7, <2>2, <3>1
    <3>3. nr = R /\ ch = 0
      BY <1>9, <2>2
    <3> QED BY <1>1, <1>6, <1>8, <3>2, <3>3
  <2> QED BY <2>1, <2>2
<1> QED BY <1>2, <1>6, <1>11 DEF tacs, new, e, C, R, nr, ch

\* The step of an alert fits: its offset, truncated, still tells when.
LEMMA FiledStep ==
    ASSUME NEW t \in Nat, NEW h \in Nat, t <= h, h <= t + Skew, NEW s, StoryOK(s), StepsOK(s, h),
           NEW p \in PIDs, NEW new \in BOOLEAN
    PROVE  LET st == [off |-> Millis(t - s.firstTS), pid |-> p, pivotal |-> new, ts |-> t, moved |-> 0]
           IN  Fits(addStep(s.steps, st), s.firstTS, h - s.firstTS)
<1> DEFINE lo == s.firstTS
           d == t - lo
           st == [off |-> Millis(d), pid |-> p, pivotal |-> new, ts |-> t, moved |-> 0]
           k == h - lo
           w == Milli * Millis(d)
<1>1. lo \in Nat /\ lo <= h /\ Fits(s.steps, lo, k) /\ Skew \in Nat /\ Milli \in Nat \ {0}
  BY StorylineAssumption DEF StoryOK, StepsOK
<1> HIDE DEF lo
<1>2. d \in Int /\ k \in Int
  BY <1>1
<1>3. /\ Millis(d) \in Int /\ w \in Int /\ d < w + Milli
      /\ d >= 0 => w <= d
      /\ d < 0 => d <= w /\ w <= 0
  BY <1>2, MillisIs
<1>4. st \in Step /\ Told(st) = w /\ Loss(st) = Milli /\ st.ts = t
  <2>1. st \in Step /\ st.ts = t /\ st.moved = 0 /\ st.off = Millis(d)
    BY <1>3 DEF Step
  <2> HIDE DEF st
  <2>2. Milli * (1 + 0) = Milli
    BY <1>1
  <2> QED BY <2>1, <2>2 DEF Told, Loss
<1> HIDE DEF st, w
<1>5. /\ lo + w <= t + Skew /\ t < lo + w + Milli /\ w <= k /\ k - w < Milli + Skew
  <2>1. CASE d >= 0
    BY <1>1, <1>3, <2>1
  <2>2. CASE d < 0
    BY <1>1, <1>3, <2>2
  <2> QED BY <1>2, <2>1, <2>2
<1>6. Tell(st, lo) /\ k - Told(st) < Slack /\ Told(st) <= k
  BY <1>4, <1>5 DEF Tell, Slack
<1> HIDE DEF k
<1>7. Fits(addStep(s.steps, st), lo, k)
  <2>1. k <= k
    BY <1>2
  <2> QED BY <1>1, <1>2, <1>4, <1>6, <2>1, AddStepKeeps
<1> QED BY <1>7 DEF st, lo, k

LEMMA FilingKeeps ==
    ASSUME now \in Nat, NEW t \in Nat, t <= now, NEW u \in Nat,
           NEW ss, NEW b, StoreOK(ss, b, now), TallyOK(ss, filed),
           NEW n \in 1..Len(ss), Live(ss[n]), NEW a, NEW p \in ss[n].members, NEW late,
           NEW steps, Fits(steps, ss[n].firstTS, now - ss[n].firstTS)
    PROVE  LET ss2 == [ss EXCEPT ![n] = Filing(ss[n], a, t, steps)]
               f2 == Append(filed, Filed(ss[n], a, p, n, late))
           IN  /\ StoreOK(ss2, b, now) /\ TallyOK(ss2, f2) /\ ReportsOK(ss2, f2)
               /\ OwnOK(ss, b, u) /\ (\A x \in ss[n].members : b[x] = n) => OwnOK(ss2, b, u)
<1> DEFINE s == ss[n]
           new == Filing(s, a, t, steps)
           e == Filed(s, a, p, n, late)
           tacs == s.tactics \cup TacticsFor(a)
           ss2 == [ss EXCEPT ![n] = new]
           f2 == Append(filed, e)
           N == Len(ss)
           M == Len(filed)
<1>1. /\ IsSeq(ss) /\ N \in Nat /\ (\A m \in 1..N : StoryOK(ss[m])) /\ Acyclic(ss)
      /\ (\A m \in 1..N : StepsOK(ss[m], now) /\ ss[m].lastTS <= now)
      /\ b \in [PIDs -> 0..N]
      /\ \A x \in PIDs : b[x] # 0 => Live(ss[b[x]]) /\ x \in ss[b[x]].members
  BY DEF StoreOK, IsSeq
<1>2. /\ IsSeq(filed) /\ M \in Nat
      /\ \A i \in 1..M : filed[i].story \in 1..N /\ filed[i].chain \in Nat
      /\ \A m \in 1..N : Live(ss[m]) => Tells(ss[m], filed, Mine(ss, filed, m))
      /\ \A m \in 1..N : ss[Survivor(ss, m)].firstTS <= ss[m].firstTS
  BY DEF TallyOK, IsSeq
<1>3. StoryOK(s) /\ DOMAIN s = Fields /\ Live(s) /\ StepsOK(s, now)
      /\ Fits(steps, s.firstTS, now - s.firstTS)
  BY <1>1 DEF StoryOK
<1> DEFINE S == Mine(ss, filed, n)
<1>4. Tells(s, filed, S)
  BY <1>2
<1>5. /\ s.alerts = Cardinality(S) /\ s.tactics = Tactics(filed, S)
      /\ (\A i \in S : filed[i].chain <= s.reportedN) /\ s.reportedN <= Cardinality(s.tactics)
  BY <1>4 DEF Tells
<1>6. /\ IsFiniteSet(tacs) /\ Cardinality(tacs) \in Nat
      /\ new.reportedN \in Nat /\ e.chain \in Nat
      /\ s.reportedN <= new.reportedN /\ new.reportedN <= Cardinality(tacs)
      /\ e.chain <= new.reportedN
      /\ e.chain > 0 => e.chain > s.reportedN
      /\ tacs # s.tactics /\ Cardinality(tacs) >= Threshold => e.chain = Cardinality(tacs)
  <2>1. StoryOK(s) /\ s.reportedN <= Cardinality(s.tactics)
    BY <1>3, <1>5
  <2> HIDE DEF s
  <2> QED BY <2>1, ReportedGrows, Zenon
<1>7. /\ DOMAIN new = Fields /\ new.members = s.members /\ new.tactics = tacs
      /\ new.alerts = s.alerts + 1 /\ new.firstTS = s.firstTS /\ new.lastTS = t
      /\ new.absorbedBy = s.absorbedBy /\ new.steps = steps
  BY <1>3 DEF Filing, Fields
<1>8. e.alert = a /\ e.story = n /\ e.pid = p /\ p \in s.members
  BY DEF Filed
<1> HIDE DEF s, new, e, tacs
<1>9. StoryOK(new) /\ Live(new) /\ StepsOK(new, now)
  <2>1. StepsOK(new, now)
    BY <1>3, <1>7 DEF StepsOK
  <2> QED BY <1>3, <1>6, <1>7, <2>1 DEF StoryOK, Live
<1>10. ss2 = [m \in 1..N |-> IF m = n THEN new ELSE ss[m]]
  BY <1>1 DEF IsSeq
<1> HIDE DEF ss2
<1>11. IsSeq(ss2) /\ Len(ss2) = N
  <2>1. ss2 = [m \in 1..N |-> ss2[m]]
    BY <1>10
  <2> HIDE DEF N
  <2> QED BY <1>1, <2>1, SeqOfLen
<1>12. n \in 1..N /\ ss2[n] = new /\ \A m \in 1..N : m # n => ss2[m] = ss[m]
  BY <1>10
<1> HIDE DEF N
<1>13. \A m \in 1..N : ss2[m].absorbedBy = ss[m].absorbedBy /\ ss2[m].members = ss[m].members
                       /\ ss2[m].firstTS = ss[m].firstTS
  BY <1>7, <1>12 DEF s
<1>14. Acyclic(ss2) /\ \A m \in 1..N : Survivor(ss2, m) = Survivor(ss, m)
  BY <1>1, <1>11, <1>13, SameSurvivors DEF N
<1>15. \A m \in 1..N : Live(ss2[m]) <=> Live(ss[m])
  BY <1>13 DEF Live
<1>16. \A m \in 1..N : Survivor(ss, m) \in 1..N /\ (Live(ss[m]) => Survivor(ss, m) = m)
  <2>1. PICK k : Ranked(ss, k)
    BY <1>1 DEF Acyclic
  <2> QED BY <1>1, <2>1, SurvivorUnfolds DEF N
<1>17. StoreOK(ss2, b, now)
  <2>1. \A m \in 1..Len(ss2) : StoryOK(ss2[m])
    BY <1>1, <1>9, <1>11, <1>12
  <2>2. b \in [PIDs -> 0..Len(ss2)]
    BY <1>1, <1>11
  <2>3. ASSUME NEW x \in PIDs, b[x] # 0 PROVE Live(ss2[b[x]]) /\ x \in ss2[b[x]].members
    <3>1. b[x] \in 1..N
      BY <1>1, <2>3
    <3> QED BY <1>1, <1>13, <1>15, <2>3, <3>1
  <2>4. \A m \in 1..Len(ss2) : StepsOK(ss2[m], now) /\ ss2[m].lastTS <= now
    BY <1>1, <1>7, <1>9, <1>11, <1>12
  <2> QED BY <1>11, <1>14, <2>1, <2>2, <2>3, <2>4 DEF StoreOK
<1>28. ASSUME OwnOK(ss, b, u), \A x \in s.members : b[x] = n PROVE OwnOK(ss2, b, u)
  <2> SUFFICES ASSUME NEW m \in 1..Len(ss2), Live(ss2[m]), ~Lapsed(ss2[m], u),
                      NEW x \in ss2[m].members
               PROVE  b[x] = m
    BY DEF OwnOK
  <2>1. CASE m = n
    BY <1>7, <1>12, <1>28, <2>1
  <2>2. CASE m # n
    <3>1. m \in 1..N /\ ss2[m] = ss[m]
      BY <1>11, <1>12, <2>2
    <3> QED BY <1>28, <3>1 DEF OwnOK, N
  <2> QED BY <2>1, <2>2
<1>18. /\ IsSeq(f2) /\ Len(f2) = M + 1 /\ f2[M + 1] = e
       /\ \A i \in 1..M : f2[i] = filed[i]
  BY <1>2, AppendSeq
<1> HIDE DEF f2, M
<1>19. /\ \A i \in 1..Len(f2) : i = M + 1 \/ i \in 1..M
       /\ 1..M \subseteq 1..Len(f2) /\ M + 1 \in 1..Len(f2) /\ M + 1 \notin 1..M
       /\ (M + 1) - 1 = M /\ M + 1 > 0
  BY <1>2, <1>18
<1>20. Survivor(ss2, e.story) = n /\ \A i \in 1..M : Survivor(ss2, f2[i].story) = Survivor(ss, filed[i].story)
  BY <1>2, <1>3, <1>8, <1>12, <1>14, <1>16, <1>18 DEF s
<1>21. S \subseteq 1..M /\ IsFiniteSet(S) /\ Cardinality(S) \in Nat
  <2>1. S \subseteq 1..M
    BY DEF Mine, M
  <2>2. IsFiniteSet(1..M)
    BY <1>2, FS_Interval
  <2> HIDE DEF S
  <2> QED BY <2>1, <2>2, FS_Subset, FS_CardinalityType
<1>22. Mine(ss2, f2, n) = S \cup {M + 1}
  BY <1>18, <1>19, <1>20 DEF Mine, M
<1>23. \A m \in 1..N : m # n => Mine(ss2, f2, m) = Mine(ss, filed, m)
  BY <1>18, <1>19, <1>20 DEF Mine, M
<1>24. Tactics(f2, S) = Tactics(filed, S) /\ Tactics(f2, S \cup {M + 1}) = tacs
  <2>1. \A i \in S : f2[i] = filed[i]
    BY <1>18, <1>21
  <2> HIDE DEF S
  <2>2. Tactics(f2, S) = Tactics(filed, S)
    BY <2>1 DEF Tactics
  <2>3. Tactics(f2, S \cup {M + 1}) = Tactics(f2, S) \cup TacticsFor(f2[M + 1].alert)
    BY DEF Tactics
  <2> QED BY <1>5, <1>8, <1>18, <2>2, <2>3 DEF tacs
<1>25. Tells(new, f2, S \cup {M + 1})
  <2>1. Cardinality(S \cup {M + 1}) = Cardinality(S) + 1
    <3>1. M + 1 \notin S
      BY <1>19, <1>21
    <3> HIDE DEF S
    <3> QED BY <1>21, <3>1, FS_AddElement
  <2> DEFINE nr == new.reportedN
             R == s.reportedN
  <2>2. \A i \in S \cup {M + 1} : f2[i].chain <= nr
    <3>0. R \in Nat /\ nr \in Nat /\ R <= nr
      BY <1>3, <1>6 DEF StoryOK
    <3>1. ASSUME NEW i \in S PROVE f2[i].chain <= nr
      <4>1. f2[i] = filed[i] /\ filed[i].chain <= R
        BY <1>5, <1>18, <1>21
      <4>2. filed[i].chain \in Nat
        BY <1>2, <1>21
      <4> DEFINE ch == filed[i].chain
      <4> HIDE DEF ch, nr, R
      <4>3. ch <= nr
        BY <3>0, <4>1, <4>2 DEF ch
      <4> QED BY <4>1, <4>3 DEF ch
    <3> QED BY <1>6, <1>18, <3>1
  <2> HIDE DEF S, nr
  <2> QED BY <1>5, <1>6, <1>7, <1>24, <2>1, <2>2 DEF Tells, nr
<1>26. TallyOK(ss2, f2)
  <2>1. \A i \in 1..Len(f2) : f2[i].story \in 1..Len(ss2) /\ f2[i].chain \in Nat
    BY <1>2, <1>6, <1>8, <1>11, <1>12, <1>18, <1>19
  <2>2. ASSUME NEW m \in 1..Len(ss2), Live(ss2[m]) PROVE Tells(ss2[m], f2, Mine(ss2, f2, m))
    <3>1. CASE m = n
      BY <1>12, <1>22, <1>25, <3>1
    <3>2. CASE m # n
      <4> DEFINE TT == Mine(ss, filed, m)
      <4>1. m \in 1..N /\ ss2[m] = ss[m] /\ Tells(ss[m], filed, TT) /\ Mine(ss2, f2, m) = TT
        BY <1>2, <1>11, <1>12, <1>15, <1>23, <2>2, <3>2
      <4>2. TT \subseteq 1..M
        BY DEF Mine, M
      <4> HIDE DEF TT
      <4>3. \A i \in TT : f2[i] = filed[i]
        BY <1>18, <4>2
      <4>4. Tactics(f2, TT) = Tactics(filed, TT)
        BY <4>3 DEF Tactics
      <4>5. Tells(ss[m], f2, TT)
        BY <4>1, <4>3, <4>4 DEF Tells
      <4> QED BY <4>1, <4>5
    <3> QED BY <3>1, <3>2
  <2>3. \A m \in 1..Len(ss2) : ss2[Survivor(ss2, m)].firstTS <= ss2[m].firstTS
    BY <1>2, <1>11, <1>13, <1>14, <1>16, SMTT(40)
  <2>4. ASSUME NEW i \in 1..Len(f2) PROVE f2[i].pid \in ss2[Survivor(ss2, f2[i].story)].members
    <3>1. CASE i = M + 1
      <4>1. f2[i] = e /\ Survivor(ss2, f2[i].story) = n /\ ss2[n].members = s.members
        BY <1>7, <1>12, <1>18, <1>20, <3>1
      <4> QED BY <1>8, <4>1
    <3>2. CASE i \in 1..M
      <4> DEFINE m == filed[i].story
      <4>1. f2[i] = filed[i] /\ m \in 1..N /\ filed[i].pid \in ss[Survivor(ss, m)].members
        BY <1>18, <3>2 DEF TallyOK, M, N
      <4> HIDE DEF m
      <4>2. Survivor(ss2, m) = Survivor(ss, m) /\ Survivor(ss, m) \in 1..N
        BY <1>14, <1>16, <4>1
      <4>3. filed[i].pid \in ss2[Survivor(ss2, m)].members
        BY <1>13, <4>1, <4>2
      <4> QED BY <4>1, <4>3 DEF m
    <3> QED BY <1>19, <3>1, <3>2
  <2> QED BY <1>18, <2>1, <2>2, <2>3, <2>4 DEF TallyOK
<1>27. ReportsOK(ss2, f2)
  <2> DEFINE j == Len(f2)
             before == Tactics(f2, {k \in 1..(j - 1) : Survivor(ss2, f2[k].story) = Survivor(ss2, f2[j].story)})
             span == before \cup TacticsFor(f2[j].alert)
  <2>1. j = M + 1 /\ j - 1 = M /\ f2[j] = e /\ Survivor(ss2, f2[j].story) = n
    BY <1>18, <1>19, <1>20
  <2>2. {k \in 1..(j - 1) : Survivor(ss2, f2[k].story) = Survivor(ss2, f2[j].story)} = S
    BY <1>20, <2>1 DEF Mine, M
  <2>3. before = s.tactics /\ span = tacs
    <3>1. before = Tactics(f2, S)
      BY <2>2
    <3> HIDE DEF S, before
    <3> QED BY <1>5, <1>8, <1>24, <2>1, <3>1 DEF tacs
  <2>4. ASSUME f2[j].chain > 0, NEW i \in 1..(j - 1),
               Survivor(ss2, f2[i].story) = Survivor(ss2, f2[j].story)
        PROVE  f2[i].chain < f2[j].chain
    <3>1. i \in S /\ f2[i] = filed[i]
      BY <1>18, <2>1, <2>2, <2>4
    <3> DEFINE ch == filed[i].chain
               R == s.reportedN
               ec == e.chain
    <3>2. ch <= R /\ ec > R /\ ch \in Nat /\ ec \in Nat /\ R \in Nat
      BY <1>2, <1>3, <1>5, <1>6, <1>21, <2>1, <2>4, <3>1 DEF StoryOK
    <3> HIDE DEF ch, R, ec
    <3>3. ch < ec
      BY <3>2
    <3> QED BY <2>1, <3>1, <3>3 DEF ch, ec
  <2>5. span # before /\ Cardinality(span) >= Threshold => f2[j].chain = Cardinality(span)
    BY <1>6, <2>1, <2>3
  <2> HIDE DEF S
  <2> QED BY <2>4, <2>5 DEF ReportsOK
<1> HIDE DEF S
<1> QED BY <1>17, <1>26, <1>27, <1>28 DEF ss2, f2, new, e, s

-----------------------------------------------------------------------------
(* The specification. *)

\* Until a late alert revives a story, every open story has its members to
\* itself.
OwnUnlessLate ==
    (\A i \in 1..Len(filed) : ~filed[i].late) => OwnOK(stories, byPID, now)

\* The inductive invariant: what is known of the tree names processes, the
\* store and the books are in order, and the last report was due.
IInv ==
    /\ KnownOK
    /\ StoreOK(stories, byPID, now)
    /\ TallyOK(stories, filed)
    /\ ReportsOK(stories, filed)
    /\ OwnUnlessLate

LEMMA InitEstablishes ==
    Init => IInv
<1> SUFFICES ASSUME Init PROVE IInv
  OBVIOUS
<1>1. KnownOK
  BY StorylineAssumption DEF Init, KnownOK, Row, NoEvent, Unknown
<1>2. /\ stories = <<>> /\ filed = <<>> /\ Len(<<>>) = 0 /\ 1..0 = {}
      /\ byPID = [p \in PIDs |-> 0]
  BY DEF Init
<1>3. IsSeq(stories) /\ Len(stories) = 0 /\ IsSeq(filed) /\ Len(filed) = 0
  <2>1. stories \in Seq({}) /\ filed \in Seq({})
    BY <1>2
  <2> QED BY <1>2, <2>1, SeqIsSeq
<1>4. Acyclic(stories)
  <2>1. [n \in 1..0 |-> 0] \in [1..0 -> 0..0] /\ Ranked(stories, [n \in 1..0 |-> 0])
    BY <1>3 DEF Ranked
  <2> QED BY <1>3, <2>1 DEF Acyclic
<1>5. StoreOK(stories, byPID, now)
  BY <1>2, <1>3, <1>4 DEF StoreOK
<1>6. TallyOK(stories, filed)
  BY <1>3 DEF TallyOK
<1>7. ReportsOK(stories, filed)
  BY <1>3 DEF ReportsOK
<1>8. OwnUnlessLate
  BY <1>3 DEF OwnUnlessLate, OwnOK
<1> QED BY <1>1, <1>5, <1>6, <1>7, <1>8 DEF IInv

LEMMA StepsGrow ==
    ASSUME NEW s, StoryOK(s), NEW t \in Nat, StepsOK(s, t), NEW h \in Nat, t <= h
    PROVE  StepsOK(s, h)
<1> DEFINE lo == s.firstTS
           q == s.steps
<1>1. lo \in Nat /\ lo <= t /\ Fits(q, lo, t - lo)
  BY DEF StoryOK, StepsOK
<1> HIDE DEF lo, q
<1>2. t - lo \in Int /\ h - lo \in Int /\ t - lo <= h - lo /\ lo <= h
  BY <1>1
<1>3. Fits(q, lo, h - lo)
  BY <1>1, <1>2, SpanGrows DEF Fits
<1> QED BY <1>2, <1>3 DEF StepsOK, lo, q

\* Time passes, and an event sweeps as of its own stamp t: a story that has
\* not lapsed had not before, and the sweep forgets no process of it.
LEMMA SweepKeeps ==
    ASSUME StoreOK(stories, byPID, now), now \in Nat, NEW t \in Nat,
           NEW h \in Nat, now <= h, t <= h,
           NEW b, b = SweptByPID(t) \/ b = byPID
    PROVE  StoreOK(stories, b, h) /\ (OwnOK(stories, byPID, now) => OwnOK(stories, b, h))
<1> DEFINE N == Len(stories)
<1>1. /\ IsSeq(stories) /\ N \in Nat /\ (\A m \in 1..N : StoryOK(stories[m])) /\ Acyclic(stories)
      /\ (\A m \in 1..N : StepsOK(stories[m], now) /\ stories[m].lastTS <= now)
      /\ byPID \in [PIDs -> 0..N]
      /\ \A x \in PIDs : byPID[x] # 0 => Live(stories[byPID[x]]) /\ x \in stories[byPID[x]].members
  BY DEF StoreOK, IsSeq
<1>2. \A m \in 1..N : ~Lapsed(stories[m], h) => ~Lapsed(stories[m], now) /\ ~Lapsed(stories[m], t)
  <2> TAKE m \in 1..N
  <2> DEFINE l == stories[m].lastTS
  <2>1. l \in Nat /\ Window \in Nat
    BY <1>1, StorylineAssumption DEF StoryOK
  <2> HIDE DEF l
  <2>2. /\ (now > l /\ now - l > Window) => (h > l /\ h - l > Window)
        /\ (t > l /\ t - l > Window) => (h > l /\ h - l > Window)
    BY <2>1
  <2> QED BY <2>2 DEF Lapsed, l
<1> HIDE DEF N
<1>3. b \in [PIDs -> 0..N] /\ \A x \in PIDs : b[x] # 0 => b[x] = byPID[x]
  <2>1. CASE b = byPID
    BY <1>1, <2>1
  <2>2. CASE b = SweptByPID(t)
    BY <1>1, <2>2 DEF SweptByPID
  <2> QED BY <2>1, <2>2
<1>4. \A x \in PIDs : byPID[x] # 0 /\ ~Lapsed(stories[byPID[x]], t) => b[x] = byPID[x]
  <2>1. CASE b = byPID
    BY <2>1
  <2>2. CASE b = SweptByPID(t)
    BY <2>2 DEF SweptByPID
  <2> QED BY <2>1, <2>2
<1>5. ASSUME OwnOK(stories, byPID, now), NEW m \in 1..N,
             Live(stories[m]), ~Lapsed(stories[m], h), NEW x \in stories[m].members
      PROVE  b[x] = m
  <2>1. x \in PIDs /\ byPID[x] = m /\ m # 0
    BY <1>1, <1>2, <1>5 DEF StoryOK, OwnOK, N
  <2> QED BY <1>2, <1>4, <1>5, <2>1
<1>6. \A m \in 1..N : StepsOK(stories[m], h) /\ stories[m].lastTS <= h
  <2> TAKE m \in 1..N
  <2> DEFINE s == stories[m]
             l == s.lastTS
  <2>1. StoryOK(s) /\ StepsOK(s, now) /\ l \in Nat /\ l <= now
    BY <1>1 DEF StoryOK
  <2> HIDE DEF s, l
  <2>2. l <= h /\ StepsOK(s, h)
    BY <2>1, StepsGrow
  <2> QED BY <2>2 DEF s, l
<1>7. StoreOK(stories, b, h)
  BY <1>1, <1>3, <1>6 DEF StoreOK, N
<1> QED BY <1>5, <1>7 DEF OwnOK, N

LEMMA ObserveKeeps ==
    ASSUME IInv, NEW p \in PIDs, NEW t \in Stamps, Observe(p, t)
    PROVE  IInv'
<1> DEFINE h == IF t > now THEN t ELSE now
<1>1. /\ KnownOK /\ StoreOK(stories, byPID, now) /\ TallyOK(stories, filed)
      /\ ReportsOK(stories, filed) /\ OwnUnlessLate /\ now \in Nat
  BY DEF IInv, KnownOK
<1>2. /\ t + Skew >= now /\ now' = h /\ stories' = stories /\ filed' = filed /\ parent' = parent
      /\ event' = [pid |-> p, ppid |-> parent[p], ts |-> t, raised |-> {}]
      /\ byPID' = SweptByPID(t) \/ byPID' = byPID
  BY DEF Observe
<1>3. t \in Nat /\ Skew \in Nat
  BY StorylineAssumption
<1>7. h \in Nat /\ now <= h /\ t <= h /\ h <= t + Skew
  BY <1>1, <1>2, <1>3
<1> HIDE DEF h
<1>4. StoreOK(stories, byPID', h) /\ (OwnOK(stories, byPID, now) => OwnOK(stories, byPID', h))
  BY <1>1, <1>2, <1>3, <1>7, SweepKeeps
<1>8. OwnUnlessLate'
  BY <1>1, <1>2, <1>4 DEF OwnUnlessLate
<1>5. lineage' \in [PIDs -> Row]
  <2> DEFINE base == IF SweepDue(t) THEN SweptLineage(t) ELSE lineage
  <2>1. lineage \in [PIDs -> Row] /\ parent[p] \in PIDs \cup {0, 1}
    BY <1>1 DEF KnownOK
  <2>2. Unknown \in Row /\ [ppid |-> parent[p], lastSeen |-> t] \in Row
    BY <1>3, <2>1 DEF Unknown, Row
  <2>3. lineage' = [base EXCEPT ![p] = [ppid |-> parent[p], lastSeen |-> t]]
    BY DEF Observe
  <2>4. SweptLineage(t) \in [PIDs -> Row]
    BY <2>1, <2>2 DEF SweptLineage
  <2>5. base \in [PIDs -> Row]
    BY <2>1, <2>4
  <2> HIDE DEF base
  <2> QED BY <2>2, <2>3, <2>5
<1>6. KnownOK'
  BY <1>1, <1>2, <1>3, <1>5, <1>7 DEF KnownOK
<1> QED BY <1>1, <1>2, <1>4, <1>6, <1>8 DEF IInv

LEMMA CorrelateKeeps ==
    ASSUME IInv, NEW a \in AlertKinds, Correlate(a)
    PROVE  IInv'
<1> DEFINE walk  == ancestry(event.pid, event.ppid)
           t     == event.ts
           u     == AsOf(walk.chain, t)
           late  == Revives(walk.chain, t)
           r     == storyFor(walk.chain, t)
           n     == r.id
           ss    == r.store.stories
           s     == ss[n]
           tacs  == s.tactics \cup TacticsFor(a)
           step  == [off |-> Millis(t - s.firstTS), pid |-> event.pid,
                     pivotal |-> tacs # s.tactics, ts |-> t, moved |-> 0]
           steps == addStep(s.steps, step)
<1>1. /\ KnownOK /\ StoreOK(stories, byPID, now) /\ TallyOK(stories, filed) /\ OwnUnlessLate
      /\ now \in Nat
  BY DEF IInv, KnownOK
<1>2. event.pid \in PIDs /\ event.ppid \in PIDs \cup {0, 1}
  BY <1>1 DEF Correlate, KnownOK
<1>13. t \in Nat /\ t <= now /\ now <= t + Skew
  BY <1>1 DEF Correlate, KnownOK
<1>3. ChainOK(walk.chain) /\ walk.chain[1] = event.pid
  BY <1>1, <1>2, AncestryIs
<1>4. StoredOK(r, walk.chain, u) /\ u \in Nat /\ (~late => u = now)
  <2>1. ~late => u = now
    BY DEF AsOf
  <2> HIDE DEF walk, t
  <2> QED BY <1>1, <1>3, <1>13, <2>1, StoryForKeeps, FoundAsOf
<1>5. /\ event' = [event EXCEPT !.raised = @ \cup {a}]
      /\ lineage' = Cached(walk.asked, t)
      /\ byPID' = r.store.byPID
      /\ parent' = parent /\ now' = now
  BY Zenon DEF Correlate
<1>6. stories' = [ss EXCEPT ![n] = Filing(s, a, t, steps)]
  BY ZenonT(60) DEF Correlate, Filing
<1>7. filed' = Append(filed, Filed(s, a, event.pid, n, late))
  BY Zenon DEF Correlate, Filed
<1> HIDE DEF walk, r, t, u, late
<1>8. /\ StoreOK(ss, r.store.byPID, now) /\ TallyOK(ss, filed) /\ n \in 1..Len(ss) /\ Live(ss[n])
      /\ OwnOK(stories, byPID, u) =>
            OwnOK(ss, r.store.byPID, u) /\ \A x \in ss[n].members : r.store.byPID[x] = n
  BY <1>4 DEF StoredOK
<1>12. event.pid \in ss[n].members
  <2>1. 1 \in 1..Len(walk.chain)
    BY <1>3 DEF ChainOK, IsSeq
  <2>2. walk.chain[1] \in ss[n].members
    BY <1>4, <2>1 DEF StoredOK
  <2> QED BY <1>3, <2>2
<1>11. Fits(steps, s.firstTS, now - s.firstTS)
  <2>1. StoryOK(s) /\ StepsOK(s, now)
    BY <1>8 DEF StoreOK
  <2> DEFINE q == event.pid
             new == tacs # s.tactics
  <2>2. q \in PIDs /\ new \in BOOLEAN /\ step = [off |-> Millis(t - s.firstTS), pid |-> q,
                                                pivotal |-> new, ts |-> t, moved |-> 0]
    BY <1>2
  <2> HIDE DEF s, q, new, step
  <2> QED BY <1>1, <1>13, <2>1, <2>2, FiledStep
<1>9. /\ StoreOK(stories', byPID', now) /\ TallyOK(stories', filed') /\ ReportsOK(stories', filed')
      /\ OwnOK(stories, byPID, u) => OwnOK(stories', byPID', u)
  <2> HIDE DEF ss, n, steps
  <2>1. LET ss2 == [ss EXCEPT ![n] = Filing(ss[n], a, t, steps)]
            f2 == Append(filed, Filed(ss[n], a, event.pid, n, late))
        IN  /\ StoreOK(ss2, r.store.byPID, now) /\ TallyOK(ss2, f2) /\ ReportsOK(ss2, f2)
            /\ OwnOK(ss, r.store.byPID, u) /\ (\A x \in ss[n].members : r.store.byPID[x] = n)
                  => OwnOK(ss2, r.store.byPID, u)
    BY <1>1, <1>4, <1>8, <1>11, <1>12, <1>13, FilingKeeps
  <2> QED BY <1>5, <1>6, <1>7, <1>8, <2>1
<1>14. OwnUnlessLate'
  <2> SUFFICES ASSUME \A i \in 1..Len(filed') : ~filed'[i].late PROVE OwnOK(stories', byPID', now)
    BY <1>5 DEF OwnUnlessLate
  <2> DEFINE e == Filed(s, a, event.pid, n, late)
             M == Len(filed)
  <2>1. IsSeq(filed) /\ M \in Nat
    BY <1>1 DEF TallyOK, IsSeq
  <2>2. e.late = late
    BY DEF Filed
  <2> HIDE DEF e, s
  <2>3. /\ Len(filed') = M + 1 /\ filed'[M + 1] = e
        /\ \A i \in 1..M : filed'[i] = filed[i]
    BY <1>7, <2>1, AppendSeq DEF e, s
  <2>4. M + 1 \in 1..Len(filed') /\ \A i \in 1..M : i \in 1..Len(filed')
    BY <2>1, <2>3
  <2>5. ~late /\ \A i \in 1..Len(filed) : ~filed[i].late
    BY <2>2, <2>3, <2>4
  <2>6. OwnOK(stories, byPID, u) /\ u = now
    BY <1>1, <1>4, <2>5 DEF OwnUnlessLate
  <2> QED BY <1>9, <2>6
<1>10. KnownOK'
  <2>1. lineage' \in [PIDs -> Row]
    BY <1>1, <1>5, <1>13 DEF KnownOK, Cached, Row
  <2>2. /\ event' \in [pid : PIDs \cup {0}, ppid : PIDs \cup {0, 1}, ts : Nat, raised : SUBSET AlertKinds]
        /\ event'.ts = t /\ event'.pid = event.pid
    BY <1>1, <1>5 DEF KnownOK, t
  <2> QED BY <1>1, <1>5, <1>13, <2>1, <2>2 DEF KnownOK
<1> QED BY <1>5, <1>9, <1>10, <1>14 DEF IInv

LEMMA ExitKeeps ==
    ASSUME IInv, NEW p \in PIDs, Exit(p)
    PROVE  IInv'
<1>1. /\ lineage' = lineage /\ byPID' = byPID /\ stories' = stories /\ now' = now /\ filed' = filed
      /\ event' = NoEvent
      /\ parent' = [q \in PIDs |-> IF parent[q] = p THEN 1 ELSE parent[q]]
  BY DEF Exit, corVars
<1>2. KnownOK'
  BY <1>1 DEF IInv, KnownOK, NoEvent
<1> QED BY <1>1, <1>2 DEF IInv, OwnUnlessLate

LEMMA StutterKeeps ==
    ASSUME IInv, UNCHANGED vars
    PROVE  IInv'
<1>1. /\ lineage' = lineage /\ byPID' = byPID /\ stories' = stories /\ now' = now /\ filed' = filed
      /\ event' = event /\ parent' = parent
  BY DEF vars, corVars
<1>2. KnownOK'
  BY <1>1 DEF IInv, KnownOK
<1> QED BY <1>1, <1>2 DEF IInv, OwnUnlessLate

\* The inductive invariant holds: through any interleaving of events, alerts,
\* sweeps and exits the store and the books of the Correlator stay in order.
THEOREM IInvHolds ==
    Spec => []IInv
<1>1. Init => IInv
  BY InitEstablishes
<1>2. IInv /\ [Next]_vars => IInv'
  <2> SUFFICES ASSUME IInv, [Next]_vars PROVE IInv'
    OBVIOUS
  <2>1. CASE \E p \in PIDs, t \in Stamps : Observe(p, t)
    BY <2>1, ObserveKeeps
  <2>2. CASE \E a \in AlertKinds : Correlate(a)
    BY <2>2, CorrelateKeeps
  <2>3. CASE \E p \in PIDs : Exit(p)
    BY <2>3, ExitKeeps
  <2>4. CASE UNCHANGED vars
    BY <2>4, StutterKeeps
  <2> QED BY <2>1, <2>2, <2>3, <2>4 DEF Next
<1> QED BY <1>1, <1>2, PTL DEF Spec

\* byPID leads into the member sets, and the member set of an open story and
\* byPID agree, whatever merges and sweeps came before, until a late alert
\* revives a lapsed story: a merge, which walks the one, takes no process of
\* another story, and storyFor, which walks the other, finds every story the
\* chain touches.
THEOREM MembersAgree ==
    Spec => []MembershipExact
<1>1. IInv => MembershipExact
  <2> SUFFICES ASSUME IInv PROVE MembershipExact
    OBVIOUS
  <2>1. StoreOK(stories, byPID, now) /\ OwnUnlessLate
    BY DEF IInv
  <2>2. \A p \in PIDs : byPID[p] # 0 => Live(stories[byPID[p]]) /\ p \in stories[byPID[p]].members
    BY <2>1 DEF StoreOK
  <2>3. ASSUME \A i \in 1..Len(filed) : ~filed[i].late,
               NEW n \in 1..Len(stories), Live(stories[n]), ~Lapsed(stories[n], now)
        PROVE  stories[n].members = {p \in PIDs : byPID[p] = n}
    <3>1. OwnOK(stories, byPID, now)
      BY <2>1, <2>3 DEF OwnUnlessLate
    <3>2. stories[n].members \subseteq PIDs /\ \A p \in stories[n].members : byPID[p] = n
      BY <2>1, <2>3, <3>1 DEF StoreOK, StoryOK, OwnOK
    <3>3. n # 0
      BY <2>1, <2>3 DEF StoreOK, IsSeq
    <3> QED BY <2>2, <3>2, <3>3
  <2> QED BY <2>2, <2>3 DEF MembershipExact, ExpiredIsCollected, StoryIds
<1> QED BY <1>1, IInvHolds, PTL

\* Merging loses no alert and no tactic and counts none twice: a story that
\* was not absorbed has the tactics and the number of the alerts filed in it
\* and in all it absorbed, through any number of merges.
THEOREM MergesAddUp ==
    Spec => []StoriesAddUp
<1>1. IInv => StoriesAddUp
  <2> SUFFICES ASSUME IInv, NEW n \in 1..Len(stories), Live(stories[n])
               PROVE  LET mine == {i \in 1..Len(filed) : Canonical(filed[i].story) = n}
                      IN  /\ stories[n].alerts = Cardinality(mine)
                          /\ stories[n].tactics = UNION {TacticsFor(filed[i].alert) : i \in mine}
    BY DEF StoriesAddUp, StoryIds
  <2>1. Tells(stories[n], filed, Mine(stories, filed, n))
    BY DEF IInv, TallyOK
  <2> QED BY <2>1 DEF Tells, Tactics, Mine, Canonical
<1> QED BY <1>1, IInvHolds, PTL

\* Correlate raises an attack chain exactly when there is more to report than
\* any chain raised before, in the story or in one it absorbed: no tactic is
\* reported again for nothing, and none that reaches the threshold is held
\* back by what an absorbed story had reported.
THEOREM ReportsWhatIsNew ==
    Spec => []ReportsEachTacticOnce
<1>1. IInv => ReportsEachTacticOnce
  <2> SUFFICES ASSUME IInv PROVE ReportsEachTacticOnce
    OBVIOUS
  <2>1. ReportsOK(stories, filed)
    BY DEF IInv
  <2>2. RaisedOnlyForMore
    BY <2>1 DEF ReportsOK, RaisedOnlyForMore, Canonical
  <2>3. NewTacticReported
    BY <2>1 DEF ReportsOK, Tactics, NewTacticReported, Canonical
  <2> QED BY <2>2, <2>3 DEF ReportsEachTacticOnce
<1> QED BY <1>1, IInvHolds, PTL


\* The timeline of a storyline holds through any merges and evictions: the
\* oldest story absorbs the others; the steps, shifted, sorted and refitted,
\* are listed in the order of their offsets, but for the skew and a
\* millisecond; and an offset, truncated when the step is added and at every
\* merge that shifts it, tells when the step happened up to as many
\* milliseconds.
THEOREM TimelineHolds ==
    Spec => []TimelineTells
<1>1. IInv => TimelineTells
  <2> SUFFICES ASSUME IInv PROVE TimelineTells
    OBVIOUS
  <2>1. OldestStorySurvives
    BY DEF IInv, TallyOK, OldestStorySurvives, StoryIds, Canonical
  <2>2. ASSUME NEW n \in 1..Len(stories), NEW steps, steps = stories[n].steps
        PROVE  /\ steps \in Seq(Step) /\ Sorted(steps)
               /\ \A i \in 1..Len(steps) : Tell(steps[i], stories[n].firstTS)
    BY <2>2 DEF IInv, StoreOK, StepsOK, Fits, Span
  <2>3. ASSUME NEW n \in 1..Len(stories), NEW i \in 1..Len(stories[n].steps),
               NEW j \in 1..Len(stories[n].steps), i < j
        PROVE  Milli * (stories[n].steps[i].off - stories[n].steps[j].off) < Milli + Skew
    <3> DEFINE steps == stories[n].steps
               a == steps[i].off
               b == steps[j].off
    <3>1. steps \in Seq(Step) /\ Sorted(steps)
      BY <2>2
    <3>2. Told(steps[i]) - Told(steps[j]) < Slack
      BY <2>3, <3>1 DEF Sorted
    <3>3. steps[i] \in Step /\ steps[j] \in Step
      BY <3>1
    <3>4. a \in Int /\ b \in Int /\ Milli \in Nat
      BY <3>3, StepType, StorylineAssumption
    <3>5. Milli * a - Milli * b < Milli + Skew
      BY <3>2 DEF Told, Slack
    <3> HIDE DEF a, b
    <3>6. Milli * (a - b) = Milli * a - Milli * b
      BY <3>4
    <3>7. Milli * (a - b) < Milli + Skew
      BY <3>5, <3>6
    <3> QED BY <3>7 DEF a, b
  <2>4. StepsInOrder
    BY <2>3 DEF StepsInOrder, StoryIds
  <2>5. ASSUME NEW n \in 1..Len(stories), NEW i \in 1..Len(stories[n].steps)
        PROVE  LET st == stories[n].steps[i]
                   told == stories[n].firstTS + Milli * st.off
               IN  told <= st.ts + Skew /\ st.ts < told + Milli * (1 + st.moved)
    <3>1. Tell(stories[n].steps[i], stories[n].firstTS)
      BY <2>2
    <3> QED BY <3>1 DEF Tell, Told, Loss
  <2>6. OffsetsTell
    BY <2>5 DEF OffsetsTell, StoryIds
  <2> QED BY <2>1, <2>4, <2>6 DEF TimelineTells
<1> QED BY <1>1, IInvHolds, PTL

-----------------------------------------------------------------------------
(* The bounds.  One event may be walked many times, once for each alert it *)
(* raises, and every walk asks for the same processes: what is known of    *)
(* the others does not grow between two events.                            *)

Asked == ancestry(event.pid, event.ppid).asked

BoundInv ==
    /\ alive \subseteq PIDs /\ now \in 0..MaxTime /\ lastSweep \in 0..MaxTime
    /\ \A p \in PIDs : lineage[p].lastSeen <= MaxTime
    /\ LineageBounded
    /\ event.pid # 0 => Cardinality(Known(lineage) \ Asked) <= MaxLineage

LEMMA KnownFinite ==
    ASSUME NEW l, NEW A
    PROVE  /\ IsFiniteSet(Known(l)) /\ Cardinality(Known(l)) \in Nat
           /\ IsFiniteSet(Known(l) \ A) /\ Cardinality(Known(l) \ A) \in Nat
           /\ Cardinality(Known(l) \ A) <= Cardinality(Known(l))
<1>1. IsFiniteSet(PIDs) /\ Known(l) \subseteq PIDs
  BY StorylineAssumption DEF Known
<1> DEFINE K == Known(l)
<1> HIDE DEF K
<1>2. IsFiniteSet(K)
  BY <1>1, FS_Subset DEF K
<1>3. K \ A \subseteq K
  OBVIOUS
<1>4. IsFiniteSet(K \ A) /\ Cardinality(K \ A) <= Cardinality(K)
  BY <1>2, <1>3, FS_Subset
<1> QED BY <1>2, <1>4, FS_CardinalityType DEF K

LEMMA InitBounded ==
    ASSUME Init
    PROVE  BoundInv
<1>1. Known(lineage) = {}
  BY DEF Init, Known
<1>2. Cardinality({}) = 0
  BY FS_EmptySet
<1>3. LineageBounded
  BY <1>1, <1>2, StorylineAssumption DEF LineageBounded
<1>4. event.pid = 0
  BY DEF Init, NoEvent
<1>5. \A p \in PIDs : lineage[p].lastSeen = 0
  BY DEF Init, Unknown
<1> QED BY <1>3, <1>4, <1>5, StorylineAssumption DEF Init, BoundInv

\* The sweep leaves room for one.
LEMMA SweepMakesRoom ==
    ASSUME NEW t
    PROVE  Cardinality(Known(IF SweepDue(t) THEN SweptLineage(t) ELSE lineage)) < MaxLineage
<1> DEFINE none == [p \in PIDs |-> Unknown]
           kept == [p \in PIDs |->
                    IF /\ SweptByPID(t)[p] = 0
                       /\ t > lineage[p].lastSeen /\ t - lineage[p].lastSeen > Window
                    THEN Unknown ELSE lineage[p]]
<1>0. MaxLineage \in Nat /\ MaxLineage > 0
  BY StorylineAssumption
<1>1. Cardinality(Known(none)) < MaxLineage
  <2>1. Known(none) = {}
    BY DEF Known
  <2>2. Cardinality({}) = 0
    BY FS_EmptySet
  <2> QED BY <1>0, <2>1, <2>2
<1>2. SweptLineage(t) = IF Cardinality(Known(kept)) >= MaxLineage THEN none ELSE kept
  BY DEF SweptLineage
<1> HIDE DEF kept, none
<1>3. Cardinality(Known(kept)) \in Nat /\ Cardinality(Known(lineage)) \in Nat
  BY KnownFinite
<1>4. CASE SweepDue(t)
  <2>1. Cardinality(Known(SweptLineage(t))) < MaxLineage
    <3>1. CASE Cardinality(Known(kept)) >= MaxLineage
      BY <1>1, <1>2, <3>1
    <3>2. CASE ~(Cardinality(Known(kept)) >= MaxLineage)
      <4>1. SweptLineage(t) = kept
        BY <1>2, <3>2
      <4> QED BY <1>0, <1>3, <3>2, <4>1
    <3> QED BY <3>1, <3>2
  <2> QED BY <1>4, <2>1
<1>5. CASE ~SweepDue(t)
  <2>1. ~(Cardinality(Known(lineage)) >= MaxLineage)
    BY <1>5 DEF SweepDue
  <2>2. Cardinality(Known(lineage)) < MaxLineage
    BY <1>0, <1>3, <2>1
  <2> QED BY <1>5, <2>2
<1> QED BY <1>4, <1>5

LEMMA ObserveBounded ==
    ASSUME IInv, BoundInv, NEW p \in PIDs, NEW t \in Stamps, Observe(p, t)
    PROVE  BoundInv'
<1> DEFINE base == IF SweepDue(t) THEN SweptLineage(t) ELSE lineage
           row == [ppid |-> parent[p], lastSeen |-> t]
           K == Known(lineage')
           B == Known(base)
<1>1. t \in Nat /\ t <= MaxTime /\ MaxTime \in Nat
  BY StorylineAssumption
<1>2. lineage \in [PIDs -> Row] /\ \A q \in PIDs : lineage[q].lastSeen <= MaxTime
  BY DEF IInv, KnownOK, BoundInv
<1>3. lineage' = [base EXCEPT ![p] = row]
  BY DEF Observe
<1>4. base \in [PIDs -> Row] /\ \A q \in PIDs : base[q] = lineage[q] \/ base[q] = Unknown
  <2>1. Unknown \in Row
    BY DEF Unknown, Row
  <2> QED BY <1>2, <2>1 DEF SweptLineage
<1>5. Cardinality(B) < MaxLineage
  BY SweepMakesRoom
<1> HIDE DEF base
<1>6. \A q \in PIDs : lineage'[q] = IF q = p THEN row ELSE base[q]
  BY <1>3, <1>4
<1>7. \A q \in PIDs : lineage'[q].lastSeen <= MaxTime
  <2>1. Unknown.lastSeen = 0 /\ row.lastSeen = t
    BY DEF Unknown
  <2> QED BY <1>1, <1>2, <1>4, <1>6, <2>1
<1>8. K \subseteq B \cup {p}
  BY <1>6 DEF Known
<1>9. IsFiniteSet(B) /\ Cardinality(B) \in Nat /\ IsFiniteSet(K) /\ Cardinality(K) \in Nat
      /\ Cardinality(K \ Asked') \in Nat /\ Cardinality(K \ Asked') <= Cardinality(K)
  BY KnownFinite
<1>10. Cardinality(K) <= MaxLineage
  <2> HIDE DEF K, B
  <2>0. /\ IsFiniteSet(B \cup {p})
        /\ Cardinality(B \cup {p}) = IF p \in B THEN Cardinality(B) ELSE Cardinality(B) + 1
    BY <1>9, FS_AddElement
  <2>1. IsFiniteSet(B \cup {p}) /\ Cardinality(B \cup {p}) <= Cardinality(B) + 1
        /\ Cardinality(B \cup {p}) \in Nat
    BY <1>9, <2>0
  <2>2. Cardinality(K) <= Cardinality(B \cup {p})
    BY <1>8, <2>1, FS_Subset
  <2>3. MaxLineage \in Nat
    BY StorylineAssumption
  <2> QED BY <1>5, <1>9, <2>1, <2>2, <2>3
<1>11. LineageBounded' /\ Cardinality(K \ Asked') <= MaxLineage
  <2>1. MaxLineage \in Nat /\ MaxAncestry \in Nat /\ MaxAncestry >= 1
    BY StorylineAssumption
  <2> DEFINE cK == Cardinality(K)
             cA == Cardinality(K \ Asked')
  <2>2. cK \in Nat /\ cA \in Nat /\ cA <= cK /\ cK <= MaxLineage
    BY <1>9, <1>10
  <2> HIDE DEF cK, cA
  <2>3. cK <= MaxLineage + MaxAncestry - 1 /\ cA <= MaxLineage
    BY <2>1, <2>2
  <2>4. LineageBounded' = (cK <= MaxLineage + MaxAncestry - 1)
    BY DEF LineageBounded, cK, Known
  <2> QED BY <2>3, <2>4 DEF cA
<1>12. alive' = alive /\ (now' = t \/ now' = now) /\ (lastSweep' = t \/ lastSweep' = lastSweep)
  BY DEF Observe
<1>13. alive \subseteq PIDs /\ now \in 0..MaxTime /\ lastSweep \in 0..MaxTime
  BY DEF BoundInv
<1>14. Known(lineage)' = K
  BY DEF Known
<1> HIDE DEF K
<1>15. now' \in 0..MaxTime /\ lastSweep' \in 0..MaxTime /\ alive' \subseteq PIDs
  BY <1>1, <1>12, <1>13
<1>16. Cardinality(Known(lineage)' \ Asked') <= MaxLineage
  BY <1>11, <1>14
<1> QED BY <1>7, <1>11, <1>15, <1>16 DEF BoundInv

LEMMA CorrelateBounded ==
    ASSUME IInv, BoundInv, NEW a \in AlertKinds, Correlate(a)
    PROVE  BoundInv'
<1> DEFINE asked == Asked
           ts == event.ts
           K == Known(lineage)
           L == Known(lineage')
<1>1. KnownOK /\ event.pid # 0 /\ ts \in Nat /\ ts <= now
  BY DEF IInv, Correlate, KnownOK
<1>2. event.pid \in PIDs /\ event.ppid \in PIDs \cup {0, 1}
  BY <1>1 DEF KnownOK
<1>3. IsFiniteSet(asked) /\ Cardinality(asked) < MaxAncestry
  BY <1>1, <1>2, AncestryIs DEF Asked
<1>4. /\ lineage' = Cached(asked, ts)
      /\ event' = [event EXCEPT !.raised = @ \cup {a}]
      /\ parent' = parent /\ now' = now /\ alive' = alive /\ lastSweep' = lastSweep
  BY Zenon DEF Correlate, Asked
<1>5. event'.pid = event.pid /\ event'.ppid = event.ppid
  BY <1>1, <1>4 DEF KnownOK
<1>6. lineage \in [PIDs -> Row] /\ parent \in [PIDs -> PIDs \cup {1}] /\ now \in Nat
      /\ PIDs \subseteq Nat \ {0}
  BY <1>1, StorylineAssumption DEF KnownOK
<1> HIDE DEF asked, ts
<1>7. \A x \in PIDs :
         lineage'[x] = IF x \in asked /\ lineage[x] = Unknown /\ Lookup(x)
                       THEN [ppid |-> parent[x], lastSeen |-> ts] ELSE lineage[x]
  BY <1>4 DEF Cached
<1>8. \A x \in PIDs : [ppid |-> parent[x], lastSeen |-> ts] # Unknown
  <2> TAKE x \in PIDs
  <2>1. parent[x] # 0
    BY <1>6
  <2> QED BY <2>1 DEF Unknown
<1>9. \A x \in PIDs : /\ ResolvesIn(lineage', alive, x) = ResolvesIn(lineage, alive, x)
                      /\ PPIDIn(lineage', parent, x) = PPIDIn(lineage, parent, x)
  <2> TAKE x \in PIDs
  <2>1. CASE x \in asked /\ lineage[x] = Unknown /\ Lookup(x)
    <3>1. lineage'[x] = [ppid |-> parent[x], lastSeen |-> ts] /\ lineage'[x] # Unknown
      BY <1>7, <1>8, <2>1
    <3>2. lineage'[x].ppid = parent[x]
      BY <3>1
    <3> QED BY <2>1, <3>1, <3>2 DEF ResolvesIn, PPIDIn, Lookup
  <2>2. CASE ~(x \in asked /\ lineage[x] = Unknown /\ Lookup(x))
    <3>1. lineage'[x] = lineage[x]
      BY <1>7, <2>2
    <3> QED BY <3>1 DEF ResolvesIn, PPIDIn
  <2> QED BY <2>1, <2>2
<1>10. Asked' = asked
  <2>1. ancestry(event.pid, event.ppid) = AncestryIn(event.pid, event.ppid, lineage, parent, alive)
    BY AncestryIsIn
  <2>2. ancestry(event.pid, event.ppid)'
          = AncestryIn(event'.pid, event'.ppid, lineage', parent', alive')
    BY DEF ancestry, AncestryIn, WalkIn, WalkBody, Climb, ClimbIn, Resolves, ResolvesIn, Lookup,
           PPIDOf, PPIDIn
  <2>3. AncestryIn(event.pid, event.ppid, lineage', parent, alive)
          = AncestryIn(event.pid, event.ppid, lineage, parent, alive)
    <3> DEFINE l2 == lineage'
               p == event.pid
               pp == event.ppid
    <3>0. /\ lineage \in [PIDs -> Row] /\ parent \in [PIDs -> PIDs \cup {1}]
          /\ p \in PIDs /\ pp \in PIDs \cup {0, 1}
      BY <1>2, <1>6
    <3>1. \A x \in PIDs : /\ ResolvesIn(l2, alive, x) = ResolvesIn(lineage, alive, x)
                          /\ PPIDIn(l2, parent, x) = PPIDIn(lineage, parent, x)
      BY <1>9
    <3> HIDE DEF l2, p, pp
    <3>2. AncestryIn(p, pp, l2, parent, alive) = AncestryIn(p, pp, lineage, parent, alive)
      BY <3>0, <3>1, SameWalk
    <3> QED BY <3>2 DEF l2, p, pp
  <2>4. ancestry(event.pid, event.ppid)' = ancestry(event.pid, event.ppid)
    BY <1>4, <1>5, <2>1, <2>2, <2>3
  <2>5. Asked' = ancestry(event.pid, event.ppid)'.asked
    BY Zenon DEF Asked
  <2> QED BY <2>4, <2>5 DEF asked, Asked
<1>11. L \subseteq K \cup asked
  BY <1>7 DEF Known
<1>12. IsFiniteSet(K \ asked) /\ Cardinality(K \ asked) \in Nat
       /\ IsFiniteSet(L) /\ Cardinality(L) \in Nat /\ Cardinality(L \ asked) \in Nat
  BY KnownFinite
<1>13. Cardinality(K \ asked) <= MaxLineage
  BY <1>1 DEF BoundInv, asked
<1>14. Known(lineage)' = L
  BY DEF Known
<1> HIDE DEF K, L
<1>15. Cardinality(L \ asked) <= MaxLineage
  <2>1. L \ asked \subseteq K \ asked
    BY <1>11
  <2>2. Cardinality(L \ asked) <= Cardinality(K \ asked)
    BY <1>12, <2>1, FS_Subset
  <2>3. MaxLineage \in Nat
    BY StorylineAssumption
  <2> QED BY <1>12, <1>13, <2>2, <2>3
<1>16. Cardinality(L) <= MaxLineage + MaxAncestry - 1
  <2> DEFINE U == (K \ asked) \cup asked
             M == (K \ asked) \cap asked
  <2>1. L \subseteq U
    BY <1>11
  <2>2. IsFiniteSet(U) /\ Cardinality(U) = Cardinality(K \ asked) + Cardinality(asked) - Cardinality(M)
    BY <1>3, <1>12, FS_Union
  <2>3. M = {}
    OBVIOUS
  <2>4. Cardinality(M) = 0
    BY <2>3, FS_EmptySet
  <2> HIDE DEF U, M
  <2>5. Cardinality(L) <= Cardinality(U)
    BY <2>1, <2>2, FS_Subset
  <2>6. Cardinality(asked) \in Nat /\ MaxLineage \in Nat /\ MaxAncestry \in Nat
    BY <1>3, FS_CardinalityType, StorylineAssumption
  <2> DEFINE u == Cardinality(U)
             x == Cardinality(K \ asked)
             y == Cardinality(asked)
             z == Cardinality(L)
  <2>7. u = x + y - 0 /\ x \in Nat /\ y \in Nat /\ z \in Nat /\ z <= u /\ y < MaxAncestry
        /\ x <= MaxLineage
    BY <1>3, <1>12, <1>13, <2>2, <2>4, <2>5, <2>6
  <2> HIDE DEF u, x, y, z
  <2>8. z <= MaxLineage + MaxAncestry - 1
    BY <2>6, <2>7
  <2> QED BY <2>8 DEF z
<1>17. LineageBounded'
  <2>1. LineageBounded' = (Cardinality(Known(lineage)') <= MaxLineage + MaxAncestry - 1)
    BY DEF LineageBounded
  <2> QED BY <1>14, <1>16, <2>1
<1>18. \A x \in PIDs : lineage'[x].lastSeen <= MaxTime
  <2>1. now \in 0..MaxTime /\ \A x \in PIDs : lineage[x].lastSeen <= MaxTime
    BY DEF BoundInv
  <2>2. ts <= MaxTime
    BY <1>1, <1>6, <2>1, StorylineAssumption
  <2> TAKE x \in PIDs
  <2>3. lineage'[x] = [ppid |-> parent[x], lastSeen |-> ts] \/ lineage'[x] = lineage[x]
    BY <1>7
  <2> QED BY <2>1, <2>2, <2>3
<1>19. alive \subseteq PIDs /\ now \in 0..MaxTime /\ lastSweep \in 0..MaxTime
  BY DEF BoundInv
<1>20. Cardinality(Known(lineage)' \ Asked') <= MaxLineage
  BY <1>10, <1>14, <1>15
<1> QED BY <1>4, <1>17, <1>18, <1>19, <1>20 DEF BoundInv

LEMMA ExitBounded ==
    ASSUME BoundInv, NEW p \in PIDs, Exit(p)
    PROVE  BoundInv'
<1>1. /\ lineage' = lineage /\ lastSweep' = lastSweep /\ now' = now /\ event'.pid = 0
      /\ alive' \subseteq alive
  BY DEF Exit, corVars, NoEvent
<1>2. LineageBounded'
  BY <1>1 DEF BoundInv, LineageBounded, Known
<1> QED BY <1>1, <1>2 DEF BoundInv

LEMMA StutterBounded ==
    ASSUME BoundInv, UNCHANGED vars
    PROVE  BoundInv'
<1>1. /\ lineage' = lineage /\ lastSweep' = lastSweep /\ now' = now /\ event' = event
      /\ alive' = alive /\ parent' = parent
  BY DEF vars, corVars
<1>2. ancestry(event.pid, event.ppid)' = ancestry(event.pid, event.ppid)
  BY <1>1 DEF ancestry, Climb, Resolves, Lookup, PPIDOf
<1>3. LineageBounded' = LineageBounded /\ Known(lineage)' = Known(lineage)
  BY <1>1 DEF LineageBounded, Known
<1>4. Asked' = Asked
  BY <1>2, Zenon DEF Asked
<1> QED BY <1>1, <1>3, <1>4 DEF BoundInv

\* The types hold and every table stays bounded: a story has at most
\* maxStorySteps steps, when two full ones are merged too, and the lineage,
\* which node adds to without looking, at most what the sweep leaves and one
\* walk can ask for, however many alerts one event raises.
THEOREM TablesBounded ==
    Spec => []Bounded
<1>1. Init => BoundInv
  BY InitBounded
<1>2. IInv /\ BoundInv /\ [Next]_vars => BoundInv'
  <2> SUFFICES ASSUME IInv, BoundInv, [Next]_vars PROVE BoundInv'
    OBVIOUS
  <2>1. CASE \E p \in PIDs, t \in Stamps : Observe(p, t)
    BY <2>1, ObserveBounded
  <2>2. CASE \E a \in AlertKinds : Correlate(a)
    BY <2>2, CorrelateBounded
  <2>3. CASE \E p \in PIDs : Exit(p)
    BY <2>3, ExitBounded
  <2>4. CASE UNCHANGED vars
    BY <2>4, StutterBounded
  <2> QED BY <2>1, <2>2, <2>3, <2>4 DEF Next
<1>3. IInv /\ BoundInv => Bounded
  <2> SUFFICES ASSUME IInv, BoundInv PROVE Bounded
    OBVIOUS
  <2>1. KnownOK /\ StoreOK(stories, byPID, now)
    BY DEF IInv
  <2>2. lineage \in [PIDs -> [ppid : PIDs \cup {0, 1}, lastSeen : 0..MaxTime]]
    <3>1. lineage \in [PIDs -> Row] /\ \A p \in PIDs : lineage[p].lastSeen <= MaxTime
      BY <2>1 DEF KnownOK, BoundInv
    <3>2. \A p \in PIDs : lineage[p] \in [ppid : PIDs \cup {0, 1}, lastSeen : 0..MaxTime]
      BY <3>1, StorylineAssumption DEF Row
    <3> QED BY <3>1, <3>2
  <2>3. \A n \in StoryIds : /\ stories[n].members \subseteq PIDs
                            /\ Len(stories[n].steps) <= MaxStorySteps
                            /\ stories[n].firstTS \in 0..now /\ stories[n].lastTS \in 0..now
    <3>1. now \in Nat
      BY <2>1 DEF KnownOK
    <3> TAKE n \in StoryIds
    <3>2. StoryOK(stories[n]) /\ StepsOK(stories[n], now) /\ stories[n].lastTS <= now
      BY <2>1 DEF StoreOK, StoryIds
    <3>3. stories[n].firstTS \in Nat /\ stories[n].firstTS <= now /\ stories[n].lastTS \in Nat
      BY <3>2 DEF StoryOK, StepsOK
    <3>4. stories[n].members \subseteq PIDs /\ Len(stories[n].steps) <= MaxStorySteps
      BY <3>2 DEF StoryOK, StepsOK, Fits
    <3> QED BY <3>1, <3>2, <3>3, <3>4
  <2>4. TypeOK
    BY <2>1, <2>2, <2>3 DEF TypeOK, KnownOK, StoreOK, BoundInv
  <2> QED BY <2>4 DEF Bounded, BoundInv
<1> QED BY <1>1, <1>2, <1>3, IInvHolds, PTL DEF Spec

-----------------------------------------------------------------------------
(* Sessions.  The kernel's tree has no cycle, the correlator can look a    *)
(* process up, and the owners of sessions outlive them: then no walk gets  *)
(* past the owner of a session, so no story has processes of two.  Without *)
(* a lookup, or for an owner that has exited and that the sweep has made   *)
(* the Correlator forget, the walk takes the owner for one more ancestor.  *)

Forest ==
    \E d \in [PIDs -> 0..Cardinality(PIDs)] :
        \A p \in PIDs : Tree[p] > 2 => d[Tree[p]] < d[p]

OwnersKnown == UseLookup /\ Boundaries \cap Mortal = {} /\ Forest

\* One step up within a session.
Rise(q) == IF Tree[q] <= 2 \/ Tree[q] \in Boundaries THEN q ELSE Tree[q]

RiseBody(p, g, k) == IF k = 0 THEN p ELSE Rise(g[k - 1])

LEMMA RootUnfolds ==
    ASSUME NEW p
    PROVE  \E g : /\ SessionRoot(p) = g[Cardinality(PIDs)]
                  /\ \A k \in 0..Cardinality(PIDs) : g[k] = RiseBody(p, g, k)
<1> DEFINE N == Cardinality(PIDs)
           Upto(m, g) == \A k \in 0..N : k <= m => g[k] = RiseBody(p, g, k)
           G == {m \in Nat : \E g : Upto(m, g)}
<1>0. N \in Nat
  BY StorylineAssumption, FS_CardinalityType
<1> HIDE DEF N
<1>1. 0 \in G
  <2> DEFINE g == [k \in 0..N |-> p]
  <2>1. Upto(0, g)
    BY <1>0 DEF RiseBody
  <2> HIDE DEF Upto
  <2> QED BY <2>1
<1>2. ASSUME NEW m \in Nat, m \in G PROVE m + 1 \in G
  <2>1. PICK g : Upto(m, g)
    BY <1>2
  <2> DEFINE h == [k \in 0..N |-> RiseBody(p, g, k)]
  <2>2. \A k \in 0..N : k <= m => h[k] = g[k]
    BY <2>1
  <2>3. \A k \in 0..N : k <= m + 1 => RiseBody(p, h, k) = RiseBody(p, g, k)
    <3> TAKE k \in 0..N
    <3> HAVE k <= m + 1
    <3>1. CASE k = 0
      BY <3>1 DEF RiseBody
    <3>2. CASE k # 0
      <4>1. k - 1 \in 0..N /\ k - 1 <= m
        BY <1>0, <3>2
      <4>2. h[k - 1] = g[k - 1]
        BY <2>2, <4>1
      <4> HIDE DEF h
      <4> QED BY <3>2, <4>2 DEF RiseBody
    <3> QED BY <3>1, <3>2
  <2>4. Upto(m + 1, h)
    BY <2>3
  <2> HIDE DEF h, Upto
  <2>5. m + 1 \in Nat
    OBVIOUS
  <2> QED BY <2>4, <2>5
<1>3. N \in G
  <2> HIDE DEF G
  <2>1. Nat \subseteq G
    BY <1>1, <1>2, InductionOnNat
  <2> QED BY <1>0, <2>1
<1>4. PICK g : Upto(N, g)
  BY <1>3
<1> DEFINE h == [k \in 0..N |-> g[k]]
<1>5. \A k \in 0..N : g[k] = RiseBody(p, g, k)
  BY <1>0, <1>4
<1>6. \A k \in 0..N : RiseBody(p, h, k) = RiseBody(p, g, k)
  <2> TAKE k \in 0..N
  <2>1. CASE k = 0
    BY <2>1 DEF RiseBody
  <2>2. CASE k # 0
    <3>1. k - 1 \in 0..N
      BY <1>0, <2>2
    <3>2. h[k - 1] = g[k - 1]
      BY <3>1
    <3> HIDE DEF h
    <3> QED BY <2>2, <3>2 DEF RiseBody
  <2> QED BY <2>1, <2>2
<1>7. h = [k \in 0..N |-> RiseBody(p, h, k)]
  BY <1>5, <1>6
<1> DEFINE c == CHOOSE z : z = [k \in 0..N |-> RiseBody(p, z, k)]
<1> HIDE DEF h
<1>8. c = [k \in 0..N |-> RiseBody(p, c, k)]
  BY <1>7, Zenon
<1>9. SessionRoot(p) = c[N]
  BY DEF SessionRoot, RiseBody, Rise, N
<1> HIDE DEF c
<1>10. \A k \in 0..N : c[k] = RiseBody(p, c, k)
  BY <1>8
<1> QED BY <1>9, <1>10 DEF N

\* A process is of the session of its parent, unless that owns the session.
LEMMA SameSession ==
    ASSUME Forest, NEW q \in PIDs, Tree[q] > 2, Tree[q] \notin Boundaries
    PROVE  SessionRoot(Tree[q]) = SessionRoot(q)
<1> DEFINE N == Cardinality(PIDs)
           f == Tree[q]
<1>0. N \in Nat /\ PIDs \subseteq Nat /\ \A x \in PIDs : Tree[x] \in PIDs \cup {1}
  BY StorylineAssumption, FS_CardinalityType
<1>a. \A x \in PIDs : (Tree[x] > 2 <=> ~(Tree[x] <= 2)) /\ (Tree[x] > 2 => Tree[x] \in PIDs)
  <2> TAKE x \in PIDs
  <2> DEFINE y == Tree[x]
  <2>1. y \in PIDs \cup {1}
    BY <1>0
  <2> HIDE DEF y
  <2>3. PIDs \subseteq Nat
    BY <1>0
  <2>4. y \in Nat
    BY <2>1, <2>3
  <2>2. (y > 2 <=> ~(y <= 2)) /\ (y > 2 => y \in PIDs)
    BY <2>1, <2>4
  <2> QED BY <2>2 DEF y
<1>1. f \in PIDs /\ Rise(q) = f
  <2>1. f \in PIDs /\ ~(f <= 2)
    BY <1>a
  <2> QED BY <2>1 DEF Rise
<1>2. PICK g : SessionRoot(q) = g[N] /\ \A k \in 0..N : g[k] = RiseBody(q, g, k)
  BY RootUnfolds
<1>3. PICK h : SessionRoot(f) = h[N] /\ \A k \in 0..N : h[k] = RiseBody(f, h, k)
  BY RootUnfolds
<1>4. PICK d \in [PIDs -> 0..N] : \A x \in PIDs : Tree[x] > 2 => d[Tree[x]] < d[x]
  BY DEF Forest
<1>b. \A x \in PIDs : d[x] \in Nat
  <2>1. \A x \in PIDs : d[x] \in 0..N
    BY <1>4
  <2> HIDE DEF N
  <2> QED BY <1>0, <2>1
<1>5. N >= 1
  <2>1. d[q] \in 0..N /\ d[f] \in 0..N /\ d[f] < d[q]
    BY <1>1, <1>4
  <2> HIDE DEF N
  <2> QED BY <1>0, <2>1
<1> HIDE DEF N, f
<1>6. /\ g[0] = q /\ h[0] = f
      /\ \A k \in 1..N : g[k] = Rise(g[k - 1]) /\ h[k] = Rise(h[k - 1])
  BY <1>0, <1>2, <1>3 DEF RiseBody
\* Rising ends within N steps, since the depth falls.
<1> DEFINE DD == {k \in Nat : k <= N => g[k] \in PIDs /\ (Rise(g[k]) = g[k] \/ d[g[k]] + k <= N)}
<1>7. 0 \in DD
  BY <1>0, <1>4, <1>6
<1>8. ASSUME NEW k \in Nat, k \in DD PROVE k + 1 \in DD
  <2> SUFFICES ASSUME k + 1 <= N
               PROVE  g[k + 1] \in PIDs /\ (Rise(g[k + 1]) = g[k + 1] \/ d[g[k + 1]] + (k + 1) <= N)
    OBVIOUS
  <2> DEFINE x == g[k]
             y == g[k + 1]
  <2>0. k <= N /\ k + 1 \in 1..N /\ (k + 1) - 1 = k
    BY <1>0
  <2>1. y = Rise(x) /\ x \in PIDs /\ (Rise(x) = x \/ d[x] + k <= N)
    BY <1>6, <1>8, <2>0
  <2> HIDE DEF x, y
  <2>2. CASE Rise(x) = x
    BY <2>1, <2>2 DEF y
  <2>3. CASE Rise(x) # x
    <3>1. y = Tree[x] /\ ~(Tree[x] <= 2)
      BY <2>1, <2>3 DEF Rise
    <3>2. Tree[x] \in PIDs /\ Tree[x] > 2
      BY <1>a, <2>1, <3>1
    <3>3. d[y] < d[x] /\ d[x] \in Nat /\ d[y] \in Nat /\ y \in PIDs
      BY <1>4, <1>b, <2>1, <3>1, <3>2
    <3>4. d[y] + (k + 1) <= N
      BY <1>0, <2>1, <2>3, <3>3
    <3> QED BY <3>3, <3>4 DEF y
  <2> QED BY <2>2, <2>3
<1>9. N \in DD
  <2> HIDE DEF DD
  <2> QED BY <1>0, <1>7, <1>8, InductionOnNat
<1>10. Rise(g[N]) = g[N]
  <2> DEFINE x == g[N]
  <2>1. x \in PIDs /\ (Rise(x) = x \/ d[x] + N <= N)
    BY <1>0, <1>9
  <2> HIDE DEF x
  <2>2. d[x] \in Nat
    BY <1>0, <1>4, <2>1
  <2>3. CASE d[x] = 0
    <3> SUFFICES ASSUME Rise(x) # x PROVE FALSE
      BY DEF x
    <3>1. ~(Tree[x] <= 2)
      BY DEF Rise
    <3>2. Tree[x] \in PIDs /\ Tree[x] > 2
      BY <1>a, <2>1, <3>1
    <3>3. d[Tree[x]] < d[x] /\ d[Tree[x]] \in Nat
      BY <1>4, <1>b, <2>1, <3>2
    <3> QED BY <2>3, <3>3
  <2>4. CASE d[x] # 0
    BY <1>0, <2>1, <2>2, <2>4 DEF x
  <2> QED BY <2>3, <2>4
\* From the parent it is the same way, one step shorter.
<1> DEFINE E == {k \in Nat : k + 1 <= N => h[k] = g[k + 1]}
<1>11. 0 \in E
  <2>1. 1 \in 1..N /\ 1 - 1 = 0
    BY <1>0, <1>5
  <2>2. g[1] = Rise(g[0])
    BY <1>6, <2>1
  <2> QED BY <1>1, <1>6, <2>2 DEF f
<1>12. ASSUME NEW k \in Nat, k \in E PROVE k + 1 \in E
  <2> SUFFICES ASSUME (k + 1) + 1 <= N PROVE h[k + 1] = g[(k + 1) + 1]
    OBVIOUS
  <2>1. /\ k + 1 <= N /\ k + 1 \in 1..N /\ (k + 1) + 1 \in 1..N /\ (k + 1) - 1 = k
        /\ ((k + 1) + 1) - 1 = k + 1
    BY <1>0
  <2>2. h[k] = g[k + 1]
    BY <1>12, <2>1
  <2>3. h[k + 1] = Rise(h[k]) /\ g[(k + 1) + 1] = Rise(g[k + 1])
    BY <1>6, <2>1
  <2> QED BY <2>2, <2>3
<1>13. h[N - 1] = g[N]
  <2>1. N - 1 \in Nat /\ (N - 1) + 1 = N
    BY <1>0, <1>5
  <2>2. N - 1 \in E
    <3> HIDE DEF E
    <3> QED BY <1>11, <1>12, <2>1, InductionOnNat
  <2> QED BY <1>0, <2>1, <2>2
<1>14. h[N] = Rise(h[N - 1])
  <2>1. N \in 1..N
    BY <1>0, <1>5
  <2> QED BY <1>6, <2>1
<1> QED BY <1>2, <1>3, <1>10, <1>13, <1>14 DEF f

\* What is known of the tree is the kernel's tree, or its orphans'.
Truthful(lin, par) ==
    \A x \in PIDs : /\ par[x] \in {Tree[x], 1}
                    /\ lin[x] # Unknown => lin[x].ppid \in {Tree[x], 1}

\* A walk from p within its session: whoever it turns to next is the parent
\* of one of the session.
Within(w, p) ==
    /\ \A i \in 1..Len(w.chain) : SessionRoot(w.chain[i]) = SessionRoot(p)
    /\ w.cur > 2 => \E x \in PIDs : SessionRoot(x) = SessionRoot(p) /\ w.cur = Tree[x]

LEMMA ClimbWithin ==
    ASSUME NEW lin, NEW par, NEW liv, OwnersKnown, Boundaries \subseteq liv, Truthful(lin, par),
           NEW k, NEW p, NEW w, WalkOK(w, k, p), Within(w, p)
    PROVE  Within(ClimbIn(lin, par, liv, w), p)
<1> DEFINE c == w.cur
           ch == Append(w.chain, c)
           nx == IF ResolvesIn(lin, liv, c) THEN PPIDIn(lin, par, c) ELSE 0
           v == ClimbIn(lin, par, liv, w)
<1>1. /\ DOMAIN w = {"chain", "cur", "done", "asked"} /\ ChainOK(w.chain) /\ c \in PIDs \cup {0, 1}
  BY DEF WalkOK
<1>2. CASE v.chain = w.chain /\ v.cur = c
  BY <1>2 DEF Within
<1>3. CASE /\ c > 2 /\ ~(ResolvesIn(lin, liv, c) /\ c \in Boundaries)
           /\ v.chain = ch /\ v.cur = nx
  <2>1. c \in PIDs
    BY <1>1, <1>3
  <2>2. c \notin Boundaries
    BY <1>3 DEF ResolvesIn, OwnersKnown
  <2>3. PICK x \in PIDs : SessionRoot(x) = SessionRoot(p) /\ c = Tree[x]
    BY <1>3 DEF Within
  <2>4. SessionRoot(c) = SessionRoot(p)
    BY <1>3, <2>2, <2>3, SameSession DEF OwnersKnown
  <2>5. /\ IsSeq(ch) /\ Len(ch) = Len(w.chain) + 1 /\ ch[Len(w.chain) + 1] = c
        /\ \A i \in 1..Len(w.chain) : ch[i] = w.chain[i]
    BY <1>1, AppendSeq DEF ChainOK
  <2>6. Len(w.chain) \in Nat
    BY <1>1 DEF ChainOK, IsSeq
  <2>7. nx > 2 => nx = Tree[c]
    <3>1. par[c] \in {Tree[c], 1} /\ (lin[c] # Unknown => lin[c].ppid \in {Tree[c], 1})
      BY <2>1 DEF Truthful
    <3>2. nx \in {Tree[c], 1, 0}
      BY <3>1 DEF PPIDIn
    <3> HIDE DEF nx
    <3> QED BY <3>2
  <2> DEFINE M == Len(w.chain)
  <2>8. \A i \in 1..M : SessionRoot(w.chain[i]) = SessionRoot(p)
    BY DEF Within
  <2> HIDE DEF ch, nx, c, v, M
  <2>9. \A i \in 1..Len(ch) : i = M + 1 \/ i \in 1..M
    BY <2>5, <2>6 DEF M
  <2>10. \A i \in 1..Len(ch) : SessionRoot(ch[i]) = SessionRoot(p)
    BY <2>4, <2>5, <2>8, <2>9 DEF M
  <2> QED BY <1>3, <2>1, <2>4, <2>7, <2>10 DEF Within, v
<1>4. c <= 2 \/ c > 2
  <2>0. c \in PIDs \cup {0, 1}
    BY <1>1
  <2>1. PIDs \subseteq Nat
    BY StorylineAssumption
  <2> HIDE DEF c
  <2>2. c \in Nat
    BY <2>0, <2>1
  <2> QED BY <2>2
<1>5. \/ v = [w EXCEPT !.done = TRUE]
      \/ v = [w EXCEPT !.done = TRUE, !.asked = @ \cup {c}]
      \/ /\ c > 2 /\ ~(ResolvesIn(lin, liv, c) /\ c \in Boundaries)
         /\ v.chain = ch /\ v.cur = nx
  BY <1>4 DEF ClimbIn
<1>6. \/ v.chain = w.chain /\ v.cur = c
      \/ /\ c > 2 /\ ~(ResolvesIn(lin, liv, c) /\ c \in Boundaries)
         /\ v.chain = ch /\ v.cur = nx
  <2> HIDE DEF v, ch, nx
  <2> QED BY <1>1, <1>5
<1> QED BY <1>2, <1>3, <1>6

\* The chain of an event is of one session.
LEMMA ChainWithin ==
    ASSUME KnownOK, OwnersKnown, Boundaries \subseteq alive, Truthful(lineage, parent),
           NEW p \in PIDs, NEW pp \in {Tree[p], 1}
    PROVE  LET ch == ancestry(p, pp).chain
           IN  \A i \in 1..Len(ch) : SessionRoot(ch[i]) = SessionRoot(p)
<1> DEFINE N == MaxAncestry
           g == WalkIn(p, pp, lineage, parent, alive)
           G == {k \in Nat : k \in 1..N => Within(g[k], p)}
<1>0. N \in Nat /\ N >= 1 /\ pp \in PIDs \cup {0, 1}
  BY StorylineAssumption
<1>1. \A k \in 1..N : g[k] = IF k = 1 THEN [chain |-> <<p>>, cur |-> pp, done |-> FALSE, asked |-> {}]
                             ELSE ClimbIn(lineage, parent, alive, g[k - 1])
  BY WalkUnfolds
<1>2. \A k \in 1..N : WalkOK(g[k], k, p)
  BY <1>0, WalkKeeps DEF KnownOK
<1> HIDE DEF g
<1>3. 0 \in G
  OBVIOUS
<1>4. ASSUME NEW k \in Nat, k \in G PROVE k + 1 \in G
  <2> SUFFICES ASSUME k + 1 \in 1..N PROVE Within(g[k + 1], p)
    OBVIOUS
  <2>1. CASE k = 0
    <3>0. 1 \in 1..N
      BY <1>0
    <3>1. g[1] = [chain |-> <<p>>, cur |-> pp, done |-> FALSE, asked |-> {}]
      BY <1>1, <3>0, Zenon
    <3>2. Len(<<p>>) = 1 /\ <<p>>[1] = p
      OBVIOUS
    <3>3. pp > 2 => pp = Tree[p]
      OBVIOUS
    <3>4. Within(g[1], p)
      BY <3>1, <3>2, <3>3 DEF Within
    <3> QED BY <2>1, <3>4
  <2>2. CASE k # 0
    <3>1. k \in 1..N /\ k + 1 # 1 /\ (k + 1) - 1 = k
      BY <1>0, <2>2
    <3>2. WalkOK(g[k], k, p) /\ Within(g[k], p)
      BY <1>2, <1>4, <3>1
    <3>3. g[k + 1] = ClimbIn(lineage, parent, alive, g[k])
      BY <1>1, <3>1
    <3>4. Within(ClimbIn(lineage, parent, alive, g[k]), p)
      BY <3>2, ClimbWithin
    <3> QED BY <3>3, <3>4
  <2> QED BY <2>1, <2>2
<1>5. N \in G
  <2> HIDE DEF G
  <2> QED BY <1>0, <1>3, <1>4, InductionOnNat
<1>6. Within(g[N], p)
  BY <1>0, <1>5
<1>7. ancestry(p, pp) = g[N]
  BY AncestryIsIn DEF AncestryIn, g
<1> QED BY <1>6, <1>7 DEF Within

\* The owners of sessions are there to be found, the tree is known as it is,
\* and a story has processes of one session only.
SessionInv ==
    /\ Boundaries \subseteq alive
    /\ Truthful(lineage, parent)
    /\ event.pid # 0 => event.ppid \in {Tree[event.pid], 1}
    /\ \A n \in StoryIds : \A x, y \in stories[n].members : SessionRoot(x) = SessionRoot(y)

LEMMA InitOneSession ==
    ASSUME Init
    PROVE  SessionInv
<1>1. Boundaries \subseteq alive /\ event.pid = 0 /\ Len(stories) = 0 /\ 1..0 = {}
  BY StorylineAssumption DEF Init, NoEvent
<1>2. Truthful(lineage, parent)
  BY DEF Init, Truthful
<1> QED BY <1>1, <1>2 DEF SessionInv, StoryIds

LEMMA ObserveOneSession ==
    ASSUME IInv, SessionInv, NEW p \in PIDs, NEW t \in Stamps, Observe(p, t)
    PROVE  SessionInv'
<1> DEFINE base == IF SweepDue(t) THEN SweptLineage(t) ELSE lineage
           row == [ppid |-> parent[p], lastSeen |-> t]
<1>1. alive' = alive /\ parent' = parent /\ stories' = stories
      /\ event' = [pid |-> p, ppid |-> parent[p], ts |-> t, raised |-> {}]
  BY DEF Observe
<1>2. lineage' = [base EXCEPT ![p] = row]
  BY DEF Observe
<1>3. lineage \in [PIDs -> Row] /\ Truthful(lineage, parent)
  BY DEF IInv, KnownOK, SessionInv
<1>4. base \in [PIDs -> Row] /\ \A q \in PIDs : base[q] = lineage[q] \/ base[q] = Unknown
  <2>1. Unknown \in Row
    BY DEF Unknown, Row
  <2> QED BY <1>3, <2>1 DEF SweptLineage
<1> HIDE DEF base
<1>5. \A q \in PIDs : lineage'[q] = row \/ lineage'[q] = lineage[q] \/ lineage'[q] = Unknown
  BY <1>2, <1>4
<1>6. \A q \in PIDs : q # p => lineage'[q] = lineage[q] \/ lineage'[q] = Unknown
  BY <1>2, <1>4
<1>7. parent[p] \in {Tree[p], 1} /\ row.ppid = parent[p]
  BY <1>3 DEF Truthful
<1>8. Truthful(lineage', parent)
  <2> SUFFICES ASSUME NEW q \in PIDs, lineage'[q] # Unknown
               PROVE  lineage'[q].ppid \in {Tree[q], 1}
    BY <1>3 DEF Truthful
  <2>1. CASE lineage'[q] = lineage[q]
    BY <1>3, <2>1 DEF Truthful
  <2>2. CASE lineage'[q] # lineage[q]
    <3>1. q = p /\ lineage'[q] = row
      BY <1>5, <1>6, <2>2
    <3> HIDE DEF row
    <3> QED BY <1>7, <3>1
  <2> QED BY <2>1, <2>2
<1>9. Truthful(lineage, parent)'
  BY <1>1, <1>8 DEF Truthful
<1>10. event'.ppid \in {Tree[event'.pid], 1}
  BY <1>1, <1>7
<1> QED BY <1>1, <1>9, <1>10 DEF SessionInv, StoryIds

\* Correlate gives a story no process but those of its chain and of the
\* stories the chain touches.
LEMMA CorrelateAkin ==
    ASSUME IInv, NEW a \in AlertKinds, Correlate(a)
    PROVE  Akin(stories', ancestry(event.pid, event.ppid).chain)
<1> DEFINE walk  == ancestry(event.pid, event.ppid)
           t     == event.ts
           u     == AsOf(walk.chain, t)
           r     == storyFor(walk.chain, t)
           n     == r.id
           ss    == r.store.stories
           s     == ss[n]
           tacs  == s.tactics \cup TacticsFor(a)
           step  == [off |-> Millis(t - s.firstTS), pid |-> event.pid,
                     pivotal |-> tacs # s.tactics, ts |-> t, moved |-> 0]
           steps == addStep(s.steps, step)
           new   == Filing(s, a, t, steps)
<1>1. /\ KnownOK /\ StoreOK(stories, byPID, now) /\ TallyOK(stories, filed) /\ now \in Nat
  BY DEF IInv, KnownOK
<1>2. event.pid \in PIDs /\ event.ppid \in PIDs \cup {0, 1}
  BY <1>1 DEF Correlate, KnownOK
<1>11. t \in Nat /\ t <= now
  BY <1>1 DEF Correlate, KnownOK
<1>3. ChainOK(walk.chain)
  BY <1>1, <1>2, AncestryIs
<1>4. StoredOK(r, walk.chain, u)
  <2> HIDE DEF walk, t
  <2> QED BY <1>1, <1>3, <1>11, StoryForKeeps
<1>5. stories' = [ss EXCEPT ![n] = new]
  BY ZenonT(60) DEF Correlate, Filing
<1> HIDE DEF walk, r, t, u
<1>6. /\ IsSeq(ss) /\ n \in 1..Len(ss) /\ StoryOK(s) /\ Akin(ss, walk.chain)
  BY <1>4 DEF StoredOK, StoreOK
<1>7. new.members = s.members
  BY <1>6 DEF Filing, StoryOK, Fields
<1> DEFINE N == Len(ss)
<1>8. stories' = [m \in 1..N |-> IF m = n THEN new ELSE ss[m]] /\ N \in Nat
  BY <1>5, <1>6 DEF IsSeq
<1> HIDE DEF new, ss, N
<1>9. Len(stories') = N
  <2> DEFINE z == stories'
  <2>1. z = [m \in 1..N |-> z[m]]
    BY <1>8
  <2> HIDE DEF z
  <2>2. Len(z) = N
    BY <1>8, <2>1, SeqOfLen
  <2> QED BY <2>2 DEF z
<1>10. \A m \in 1..N : stories'[m].members = ss[m].members
  BY <1>7, <1>8
<1> QED BY <1>6, <1>9, <1>10 DEF Akin, N, walk

LEMMA CorrelateOneSession ==
    ASSUME IInv, SessionInv, OwnersKnown, NEW a \in AlertKinds, Correlate(a)
    PROVE  SessionInv'
<1> DEFINE walk == ancestry(event.pid, event.ppid)
           chain == walk.chain
           p == event.pid
<1>1. KnownOK /\ event.pid # 0 /\ Truthful(lineage, parent) /\ Boundaries \subseteq alive
      /\ event.ppid \in {Tree[event.pid], 1}
      /\ \A n \in 1..Len(stories) : \A x, y \in stories[n].members : SessionRoot(x) = SessionRoot(y)
  BY DEF IInv, Correlate, SessionInv, StoryIds
<1>2. p \in PIDs
  BY <1>1 DEF KnownOK
<1>3. \A i \in 1..Len(chain) : SessionRoot(chain[i]) = SessionRoot(p)
  BY <1>1, <1>2, ChainWithin
<1>4. Akin(stories', chain)
  BY CorrelateAkin
<1>5. ChainOK(chain)
  <2>1. event.ppid \in PIDs \cup {0, 1}
    BY <1>1 DEF KnownOK
  <2> QED BY <1>1, <1>2, <2>1, AncestryIs
<1>6. /\ lineage' = Cached(walk.asked, event.ts)
      /\ event' = [event EXCEPT !.raised = @ \cup {a}]
      /\ parent' = parent /\ alive' = alive
  BY Zenon DEF Correlate
<1>7. event'.pid = event.pid /\ event'.ppid = event.ppid
  BY <1>1, <1>6 DEF KnownOK
<1> HIDE DEF walk, chain
<1>8. \A x : Touches(chain, x) => SessionRoot(x) = SessionRoot(p)
  <2> TAKE x
  <2> HAVE Touches(chain, x)
  <2>1. CASE Contains(chain, x)
    <3>1. PICK i \in 1..Len(chain) : chain[i] = x
      BY <1>5, <2>1, ChainSet
    <3> QED BY <1>3, <3>1
  <2>2. CASE ~Contains(chain, x)
    <3>1. PICK n \in 1..Len(stories), i \in 1..Len(chain) :
             x \in stories[n].members /\ chain[i] \in stories[n].members
      BY <2>2 DEF Touches
    <3>2. SessionRoot(x) = SessionRoot(chain[i])
      BY <1>1, <3>1
    <3> QED BY <1>3, <3>2
  <2> QED BY <2>1, <2>2
<1>9. \A n \in 1..Len(stories') : \A x, y \in stories'[n].members : SessionRoot(x) = SessionRoot(y)
  BY <1>1, <1>4, <1>8 DEF Akin
<1>10. Truthful(lineage', parent)
  <2>1. \A x \in PIDs : lineage'[x] = lineage[x] \/ lineage'[x] = [ppid |-> parent[x], lastSeen |-> event.ts]
    BY <1>6 DEF Cached
  <2> SUFFICES ASSUME NEW x \in PIDs, lineage'[x] # Unknown
               PROVE  lineage'[x].ppid \in {Tree[x], 1}
    BY <1>1 DEF Truthful
  <2>2. parent[x] \in {Tree[x], 1} /\ (lineage[x] # Unknown => lineage[x].ppid \in {Tree[x], 1})
    BY <1>1 DEF Truthful
  <2>3. CASE lineage'[x] = lineage[x]
    BY <2>2, <2>3
  <2>4. CASE lineage'[x] = [ppid |-> parent[x], lastSeen |-> event.ts]
    <3>1. lineage'[x].ppid = parent[x]
      BY <2>4
    <3> QED BY <2>2, <3>1
  <2> QED BY <2>1, <2>3, <2>4
<1>11. Truthful(lineage, parent)'
  BY <1>6, <1>10 DEF Truthful
<1>12. (\A n \in StoryIds : \A x, y \in stories[n].members : SessionRoot(x) = SessionRoot(y))'
  BY <1>9 DEF StoryIds, SessionRoot
<1> QED BY <1>1, <1>6, <1>7, <1>11, <1>12 DEF SessionInv

LEMMA ExitOneSession ==
    ASSUME SessionInv, OwnersKnown, NEW p \in PIDs, Exit(p)
    PROVE  SessionInv'
<1>1. /\ lineage' = lineage /\ stories' = stories /\ event'.pid = 0 /\ alive' = alive \ {p}
      /\ parent' = [q \in PIDs |-> IF parent[q] = p THEN 1 ELSE parent[q]]
      /\ p \notin Boundaries
  BY DEF Exit, corVars, NoEvent, OwnersKnown
<1>2. Truthful(lineage, parent)'
  BY <1>1 DEF SessionInv, Truthful
<1>3. Boundaries \subseteq alive'
  BY <1>1 DEF SessionInv
<1>4. (\A n \in StoryIds : \A x, y \in stories[n].members : SessionRoot(x) = SessionRoot(y))'
  BY <1>1 DEF SessionInv, StoryIds
<1> QED BY <1>1, <1>2, <1>3, <1>4 DEF SessionInv

\* Alerts that end up in one story, after any number of merges, were raised
\* by processes of one session, as long as the Correlator can look up every
\* process it walks past and the owners of the sessions do not exit: ancestry
\* then stops below the owner, whatever of the lineage was swept.
THEOREM LoginsStayApart ==
    OwnersKnown /\ Spec => []SessionsApart
<1>1. Init => SessionInv
  BY InitOneSession
<1>2. OwnersKnown /\ IInv /\ SessionInv /\ [Next]_vars => SessionInv'
  <2> SUFFICES ASSUME OwnersKnown, IInv, SessionInv, [Next]_vars PROVE SessionInv'
    OBVIOUS
  <2>1. CASE \E p \in PIDs, t \in Stamps : Observe(p, t)
    BY <2>1, ObserveOneSession
  <2>2. CASE \E a \in AlertKinds : Correlate(a)
    BY <2>2, CorrelateOneSession
  <2>3. CASE \E p \in PIDs : Exit(p)
    BY <2>3, ExitOneSession
  <2>4. CASE UNCHANGED vars
    BY <2>4 DEF vars, corVars, SessionInv, Truthful, StoryIds
  <2> QED BY <2>1, <2>2, <2>3, <2>4 DEF Next
<1>3. IInv /\ SessionInv => SessionsApart
  <2> SUFFICES ASSUME IInv, SessionInv, NEW j \in 1..Len(filed), NEW i \in 1..(j - 1),
                      Survivor(stories, filed[i].story) = Survivor(stories, filed[j].story)
               PROVE  Roots[filed[i].pid] = Roots[filed[j].pid]
    BY DEF SessionsApart, Canonical
  <2> DEFINE n == Survivor(stories, filed[i].story)
  <2>1. TallyOK(stories, filed) /\ StoreOK(stories, byPID, now)
    BY DEF IInv
  <2>4. i \in 1..Len(filed)
    BY <2>1 DEF TallyOK, IsSeq
  <2>2. filed[i].pid \in stories[n].members /\ filed[j].pid \in stories[n].members
        /\ filed[i].story \in 1..Len(stories)
    BY <2>1, <2>4 DEF TallyOK
  <2>3. n \in 1..Len(stories)
    <3>1. PICK k : Ranked(stories, k)
      BY <2>1 DEF StoreOK, Acyclic
    <3>2. Len(stories) \in Nat
      BY <2>1 DEF StoreOK, IsSeq
    <3> QED BY <2>2, <3>1, <3>2, SurvivorUnfolds
  <2> HIDE DEF n
  <2>5. filed[i].pid \in PIDs /\ filed[j].pid \in PIDs
    BY <2>1, <2>2, <2>3 DEF StoreOK, StoryOK
  <2>6. SessionRoot(filed[i].pid) = SessionRoot(filed[j].pid)
    BY <2>2, <2>3 DEF SessionInv, StoryIds
  <2> QED BY <2>5, <2>6, Zenon DEF Roots
<1>4. CASE OwnersKnown
  <2>1. IInv /\ SessionInv /\ [Next]_vars => SessionInv'
    BY <1>2, <1>4
  <2>2. Spec => []SessionsApart
    BY <1>1, <1>3, <2>1, IInvHolds, PTL DEF Spec
  <2> QED BY <2>2
<1>5. CASE ~OwnersKnown
  BY <1>5
<1> QED BY <1>4, <1>5

-----------------------------------------------------------------------------
(* Evaluate: counting what it files, folds and returns.                    *)

\* Sequences put together, of whatever.
LEMMA ConcatSeq ==
    ASSUME NEW f, NEW g, IsSeq(f), IsSeq(g)
    PROVE  /\ IsSeq(f \o g) /\ Len(f \o g) = Len(f) + Len(g)
           /\ \A i \in 1..Len(f) : (f \o g)[i] = f[i]
           /\ \A i \in 1..Len(g) : (f \o g)[Len(f) + i] = g[i]
<1> DEFINE S == {f[i] : i \in 1..Len(f)} \cup {g[i] : i \in 1..Len(g)}
<1>1. /\ Len(f) \in Nat /\ f \in [1..Len(f) -> S]
      /\ Len(g) \in Nat /\ g \in [1..Len(g) -> S]
  BY DEF IsSeq
<1> HIDE DEF S
<1>2. f \in Seq(S) /\ g \in Seq(S)
  BY <1>1
<1>3. /\ f \o g \in Seq(S) /\ Len(f \o g) = Len(f) + Len(g)
      /\ \A i \in 1..Len(f) : (f \o g)[i] = f[i]
      /\ \A i \in 1..Len(g) : (f \o g)[Len(f) + i] = g[i]
  BY <1>1, <1>2
<1> QED BY <1>3, SeqIsSeq

\* Positions in the second of two sequences move up.
LEMMA CountMoved ==
    ASSUME NEW m \in Nat, NEW k \in Nat, NEW A \in SUBSET (1..m), NEW B \in SUBSET (1..k)
    PROVE  /\ Cardinality(A \cup {m + j : j \in B}) = Cardinality(A) + Cardinality(B)
           /\ Cardinality(A) \in Nat /\ Cardinality(B) \in Nat
<1> DEFINE C == {m + j : j \in B}
           f == [j \in B |-> m + j]
<1>1. IsFiniteSet(A) /\ IsFiniteSet(B) /\ Cardinality(A) \in Nat /\ Cardinality(B) \in Nat
  <2>1. IsFiniteSet(1..m) /\ IsFiniteSet(1..k)
    BY FS_Interval
  <2>2. IsFiniteSet(A) /\ IsFiniteSet(B)
    BY <2>1, FS_Subset
  <2> QED BY <2>2, FS_CardinalityType
<1>2. f \in Bijection(B, C)
  <2>1. f \in [B -> C]
    OBVIOUS
  <2>2. \A x, y \in B : f[x] = f[y] => x = y
    OBVIOUS
  <2>3. \A z \in C : \E x \in B : f[x] = z
    OBVIOUS
  <2> HIDE DEF f, C
  <2> QED BY <2>1, <2>2, <2>3 DEF Bijection, Injection, Surjection, IsInjective
<1>3. IsFiniteSet(C) /\ Cardinality(C) = Cardinality(B)
  BY <1>1, <1>2, FS_Bijection DEF ExistsBijection
<1>4. A \cap C = {}
  OBVIOUS
<1> HIDE DEF C
<1>5. Cardinality(A \cup C) = Cardinality(A) + Cardinality(C)
  <2>1. Cardinality(A \cup C) = Cardinality(A) + Cardinality(C) - Cardinality(A \cap C)
    BY <1>1, <1>3, FS_Union
  <2>2. Cardinality(A \cap C) = 0
    BY <1>4, FS_EmptySet
  <2> DEFINE x == Cardinality(A)
             y == Cardinality(C)
             z == Cardinality(A \cup C)
             w == Cardinality(A \cap C)
  <2>3. x \in Nat /\ y \in Nat /\ w = 0 /\ z = x + y - w
    BY <1>1, <1>3, <2>1, <2>2
  <2> HIDE DEF x, y, z, w
  <2>4. z = x + y
    BY <2>3
  <2> QED BY <2>4 DEF x, y, z
<1> QED BY <1>1, <1>3, <1>5 DEF C

LEMMA CountConcat ==
    ASSUME NEW f, NEW g, IsSeq(f), IsSeq(g)
    PROVE  /\ Cardinality(FindingsIn(f \o g)) = Cardinality(FindingsIn(f)) + Cardinality(FindingsIn(g))
           /\ Cardinality(ChainsIn(f \o g)) = Cardinality(ChainsIn(f)) + Cardinality(ChainsIn(g))
           /\ Cardinality(FindingsIn(f)) \in Nat /\ Cardinality(FindingsIn(g)) \in Nat
           /\ Cardinality(ChainsIn(f)) \in Nat /\ Cardinality(ChainsIn(g)) \in Nat
<1> DEFINE h == f \o g
           m == Len(f)
           k == Len(g)
<1>1. /\ m \in Nat /\ k \in Nat /\ Len(h) = m + k
      /\ (\A i \in 1..m : h[i] = f[i]) /\ (\A i \in 1..k : h[m + i] = g[i])
  BY ConcatSeq DEF IsSeq
<1> HIDE DEF h
<1>2. FindingsIn(h) = FindingsIn(f) \cup {m + j : j \in FindingsIn(g)}
  <2>1. ASSUME NEW i \in FindingsIn(h) PROVE i \in FindingsIn(f) \cup {m + j : j \in FindingsIn(g)}
    <3>1. i \in 1..(m + k) /\ ~IsChain(h[i])
      BY <1>1 DEF FindingsIn
    <3>2. CASE i \in 1..m
      BY <1>1, <3>1, <3>2 DEF FindingsIn
    <3>3. CASE i \notin 1..m
      <4>1. i - m \in 1..k /\ m + (i - m) = i
        BY <1>1, <3>1, <3>3
      <4>2. i - m \in FindingsIn(g)
        BY <1>1, <3>1, <4>1 DEF FindingsIn
      <4> QED BY <4>1, <4>2
    <3> QED BY <3>2, <3>3
  <2>2. ASSUME NEW i \in FindingsIn(f) PROVE i \in FindingsIn(h)
    BY <1>1 DEF FindingsIn
  <2>3. ASSUME NEW j \in FindingsIn(g) PROVE m + j \in FindingsIn(h)
    <3>1. j \in 1..k /\ ~IsChain(g[j])
      BY DEF FindingsIn
    <3>2. m + j \in 1..Len(h) /\ h[m + j] = g[j]
      BY <1>1, <3>1
    <3> QED BY <3>1, <3>2 DEF FindingsIn
  <2> QED BY <2>1, <2>2, <2>3
<1>3. ChainsIn(h) = ChainsIn(f) \cup {m + j : j \in ChainsIn(g)}
  <2>1. ASSUME NEW i \in ChainsIn(h) PROVE i \in ChainsIn(f) \cup {m + j : j \in ChainsIn(g)}
    <3>1. i \in 1..(m + k) /\ IsChain(h[i])
      BY <1>1 DEF ChainsIn
    <3>2. CASE i \in 1..m
      BY <1>1, <3>1, <3>2 DEF ChainsIn
    <3>3. CASE i \notin 1..m
      <4>1. i - m \in 1..k /\ m + (i - m) = i
        BY <1>1, <3>1, <3>3
      <4>2. i - m \in ChainsIn(g)
        BY <1>1, <3>1, <4>1 DEF ChainsIn
      <4> QED BY <4>1, <4>2
    <3> QED BY <3>2, <3>3
  <2>2. ASSUME NEW i \in ChainsIn(f) PROVE i \in ChainsIn(h)
    BY <1>1 DEF ChainsIn
  <2>3. ASSUME NEW j \in ChainsIn(g) PROVE m + j \in ChainsIn(h)
    <3>1. j \in 1..k /\ IsChain(g[j])
      BY DEF ChainsIn
    <3>2. m + j \in 1..Len(h) /\ h[m + j] = g[j]
      BY <1>1, <3>1
    <3> QED BY <3>1, <3>2 DEF ChainsIn
  <2> QED BY <2>1, <2>2, <2>3
<1>4. /\ FindingsIn(f) \in SUBSET (1..m) /\ FindingsIn(g) \in SUBSET (1..k)
      /\ ChainsIn(f) \in SUBSET (1..m) /\ ChainsIn(g) \in SUBSET (1..k)
  BY DEF FindingsIn, ChainsIn
<1> HIDE DEF m, k
<1>5. /\ Cardinality(FindingsIn(f) \cup {m + j : j \in FindingsIn(g)})
             = Cardinality(FindingsIn(f)) + Cardinality(FindingsIn(g))
      /\ Cardinality(FindingsIn(f)) \in Nat /\ Cardinality(FindingsIn(g)) \in Nat
  BY <1>1, <1>4, CountMoved
<1>6. /\ Cardinality(ChainsIn(f) \cup {m + j : j \in ChainsIn(g)})
             = Cardinality(ChainsIn(f)) + Cardinality(ChainsIn(g))
      /\ Cardinality(ChainsIn(f)) \in Nat /\ Cardinality(ChainsIn(g)) \in Nat
  <2>1. m \in Nat /\ k \in Nat
    BY <1>1
  <2>2. ChainsIn(f) \in SUBSET (1..m) /\ ChainsIn(g) \in SUBSET (1..k)
    BY <1>4
  <2> QED BY <2>1, <2>2, CountMoved, Zenon
<1> QED BY <1>2, <1>3, <1>5, <1>6 DEF h

\* One alert, or none.
LEMMA CountOne ==
    ASSUME NEW a
    PROVE  /\ IsSeq(<<a>>) /\ IsSeq(<<>>)
           /\ FindingsIn(<<>>) = {} /\ ChainsIn(<<>>) = {} /\ Cardinality({}) = 0
           /\ IsChain(a) => FindingsIn(<<a>>) = {} /\ Cardinality(ChainsIn(<<a>>)) = 1
           /\ ~IsChain(a) => ChainsIn(<<a>>) = {} /\ Cardinality(FindingsIn(<<a>>)) = 1
<1>1. IsSeq(<<a>>) /\ Len(<<a>>) = 1 /\ <<a>>[1] = a
  BY DEF IsSeq
<1>2. IsSeq(<<>>) /\ Len(<<>>) = 0
  BY DEF IsSeq
<1>3. Cardinality({1}) = 1 /\ Cardinality({}) = 0
  BY FS_Singleton, FS_EmptySet
<1>4. FindingsIn(<<>>) = {} /\ ChainsIn(<<>>) = {}
  BY <1>2 DEF FindingsIn, ChainsIn
<1> DEFINE q == <<a>>
<1> HIDE DEF q
<1>5. Len(q) = 1 /\ q[1] = a
  BY <1>1 DEF q
<1>6. IsChain(a) => FindingsIn(q) = {} /\ ChainsIn(q) = {1}
  BY <1>5 DEF FindingsIn, ChainsIn
<1>7. ~IsChain(a) => FindingsIn(q) = {1} /\ ChainsIn(q) = {}
  BY <1>5 DEF FindingsIn, ChainsIn
<1> QED BY <1>1, <1>2, <1>3, <1>4, <1>6, <1>7 DEF q

\* What one alert adds to the slice.
LEMMA CollectedCounts ==
    ASSUME NEW a, ~IsChain(a), NEW admitted \in BOOLEAN, NEW chain
    PROVE  LET c == Collected(a, admitted, chain) IN
           /\ IsSeq(c)
           /\ Cardinality(FindingsIn(c)) = IF admitted THEN 1 ELSE 0
           /\ Cardinality(ChainsIn(c)) = IF chain = 0 THEN 0 ELSE 1
<1> DEFINE x == newAlert("attack-chain", ev, "", NoNotes)
           f == IF admitted THEN <<a>> ELSE <<>>
           g == IF chain = 0 THEN <<>> ELSE <<x>>
<1>1. IsChain(x)
  BY DEF IsChain, newAlert
<1> HIDE DEF x
<1>2. /\ IsSeq(f) /\ Cardinality(FindingsIn(f)) = (IF admitted THEN 1 ELSE 0)
      /\ Cardinality(ChainsIn(f)) = 0
  BY CountOne
<1>3. /\ IsSeq(g) /\ Cardinality(ChainsIn(g)) = (IF chain = 0 THEN 0 ELSE 1)
      /\ Cardinality(FindingsIn(g)) = 0
  BY <1>1, CountOne
<1> HIDE DEF f, g
<1>4. /\ Cardinality(FindingsIn(f \o g)) = Cardinality(FindingsIn(f)) + Cardinality(FindingsIn(g))
      /\ Cardinality(ChainsIn(f \o g)) = Cardinality(ChainsIn(f)) + Cardinality(ChainsIn(g))
      /\ IsSeq(f \o g)
  BY <1>2, <1>3, CountConcat, ConcatSeq
<1>5. Collected(a, admitted, chain) = f \o g
  BY DEF Collected, f, g, x
<1> QED BY <1>2, <1>3, <1>4, <1>5

-----------------------------------------------------------------------------
(* The rules, and what they write into the map of the event.               *)

Stateless == {"privilege-escalation", "sensitive-file-access", "process-injection"}

\* The registry runs the reverse-shell rule last, whatever --rules leaves.
LEMMA RulesInOrder ==
    /\ IsSeq(EnabledRules) /\ Len(EnabledRules) \in Nat
    /\ \A i \in 1..Len(EnabledRules) :
          /\ EnabledRules[i] \in Stateless \cup {"reverse-shell"}
          /\ EnabledRules[i] \notin Stateless => i = Len(EnabledRules)
<1> DEFINE a == Kept(Registry[1])
           b == Kept(Registry[2])
           c == Kept(Registry[3])
           d == Kept(Registry[4])
           front == a \o b \o c
<1>1. /\ Registry[1] \in Stateless /\ Registry[2] \in Stateless /\ Registry[3] \in Stateless
      /\ Registry[4] = "reverse-shell"
  BY DEF Registry, Stateless
<1>2. a \in Seq(Stateless) /\ b \in Seq(Stateless) /\ c \in Seq(Stateless)
  BY <1>1 DEF Kept
<1>3. d \in Seq({"reverse-shell"}) /\ (Len(d) = 0 \/ Len(d) = 1)
  <2>1. d = <<>> \/ d = <<"reverse-shell">>
    BY <1>1 DEF Kept
  <2> HIDE DEF d
  <2>2. CASE d = <<>>
    BY <2>2
  <2>3. CASE d = <<"reverse-shell">>
    BY <2>3
  <2> QED BY <2>1, <2>2, <2>3
<1> HIDE DEF a, b, c, d
<1>4. front \in Seq(Stateless)
  BY <1>2
<1> HIDE DEF front
<1>5. EnabledRules = front \o d
  BY DEF EnabledRules, front, a, b, c, d
<1>6. IsSeq(front) /\ IsSeq(d) /\ Len(front) \in Nat /\ (Len(d) = 0 \/ Len(d) = 1)
  BY <1>3, <1>4, SeqIsSeq DEF IsSeq
<1>7. /\ IsSeq(front \o d) /\ Len(front \o d) = Len(front) + Len(d)
      /\ \A i \in 1..Len(front) : (front \o d)[i] = front[i]
      /\ \A i \in 1..Len(d) : (front \o d)[Len(front) + i] = d[i]
  BY <1>6, ConcatSeq
<1>8. ASSUME NEW i \in 1..Len(EnabledRules)
      PROVE  /\ EnabledRules[i] \in Stateless \cup {"reverse-shell"}
             /\ EnabledRules[i] \notin Stateless => i = Len(EnabledRules)
  <2>1. CASE i <= Len(front)
    <3>1. i \in 1..Len(front)
      BY <1>5, <1>6, <1>7, <2>1
    <3> QED BY <1>4, <1>5, <1>7, <3>1
  <2>2. CASE ~(i <= Len(front))
    <3>1. Len(d) = 1 /\ i = Len(front) + 1 /\ i = Len(EnabledRules)
      BY <1>5, <1>6, <1>7, <2>2
    <3>2. EnabledRules[i] = d[1] /\ d[1] = "reverse-shell"
      BY <1>3, <1>5, <1>7, <3>1
    <3> QED BY <3>1, <3>2
  <2> QED BY <2>1, <2>2
<1> QED BY <1>5, <1>6, <1>7, <1>8

Clean(m) == "chain_dest" \notin DOMAIN m

LEMMA WrittenClean ==
    ASSUME NEW m, NEW n, Clean(m), Clean(n)
    PROVE  Clean(Written(m, n))
BY DEF Clean, Written

LEMMA DecodedClean ==
    ASSUME NEW e
    PROVE  Clean(decodeArgs(e))
<1>1. Clean(NoNotes)
  BY DEF Clean, NoNotes
<1>2. /\ Clean([path |-> e.path.name]) /\ Clean([target_uid |-> e.arg0])
      /\ Clean([target_gid |-> e.arg0]) /\ Clean([euid |-> e.arg1]) /\ Clean([egid |-> e.arg1])
      /\ Clean([request |-> e.arg0, target_pid |-> e.arg1])
  BY DEF Clean
<1> QED BY <1>1, <1>2 DEF decodeArgs

\* Only the reverse-shell rule writes the destination of a chain.
LEMMA NotesClean ==
    ASSUME NEW r \in Stateless, NEW e, NEW stat, NEW hist, NEW f \in Findings(r, e, stat, hist)
    PROVE  Clean(f.notes)
<1>1. Clean(NoNotes)
  BY DEF Clean, NoNotes
<1>2. CASE r = "privilege-escalation"
  <2>1. f \in evalPrivilegeEscalation(e, stat)
    BY <1>2 DEF Findings
  <2>2. Clean([suid_bits |-> stat])
    BY DEF Clean
  <2> QED BY <1>1, <2>1, <2>2 DEF evalPrivilegeEscalation, evalSuidExec, Finding
<1>3. CASE r = "sensitive-file-access"
  <2>1. f \in evalSensitiveFileAccess(e)
    BY <1>3 DEF Findings
  <2> DEFINE m == [matched_pattern |-> e.path.watch]
  <2>2. Clean(m)
    BY DEF Clean
  <2>3. Clean(ProcNotes(e))
    <3>1. /\ Clean([target_pid |-> e.path.target, target_self |-> TRUE])
          /\ Clean([target_pid |-> e.path.target])
      BY DEF Clean
    <3> QED BY <1>1, <3>1 DEF ProcNotes
  <2>4. f.notes = Written(m, ProcNotes(e))
    BY <2>1 DEF evalSensitiveFileAccess, Finding
  <2> HIDE DEF m
  <2> QED BY <2>2, <2>3, <2>4, WrittenClean
<1>4. CASE r = "process-injection"
  <2>1. f \in evalPtraceInjection(e)
    BY <1>4 DEF Findings
  <2>2. Clean([action |-> e.arg0])
    BY DEF Clean
  <2> QED BY <2>1, <2>2 DEF evalPtraceInjection, Finding
<1> QED BY <1>2, <1>3, <1>4 DEF Stateless

-----------------------------------------------------------------------------
(* One alert: what the deduplicator and the correlator do with it.         *)

LEMMA AdmitDoes ==
    ASSUME NEW a, NEW t, D!admit(a, t), total \in Nat
    PROVE  /\ outcome'.admitted \in BOOLEAN
           /\ total' = total + (IF outcome'.admitted THEN 0 ELSE 1)
           /\ seen' \subseteq seen \cup {D!dedupKey(a)}
<1> DEFINE k == D!dedupKey(a)
           kept == D!Survivors(t)
           gone == IF D!Cleared(t) THEN dropped \cup D!Unexpired(t) ELSE dropped
<1>1. D!Fold(k, t, kept, gone) \/ D!Emit(k, t, kept, gone)
  BY DEF D!admit
<1>2. kept \subseteq seen
  BY DEF D!Survivors, D!Unexpired
<1> HIDE DEF k, kept, gone
<1>3. CASE D!Fold(k, t, kept, gone)
  <2>1. total' = total + 1 /\ seen' = kept /\ outcome'.admitted = FALSE
    BY <1>3 DEF D!Fold, D!Outcome
  <2> QED BY <1>2, <2>1
<1>4. CASE D!Emit(k, t, kept, gone)
  <2>1. total' = total /\ seen' = kept \cup {k} /\ outcome'.admitted = TRUE
    BY <1>4 DEF D!Emit, D!Outcome
  <2>2. total + 0 = total
    OBVIOUS
  <2> QED BY <1>2, <2>1, <2>2 DEF k
<1> QED BY <1>1, <1>3, <1>4

\* The alerts a chain was raised for.
Raised(f) == {i \in 1..Len(f) : f[i].chain > 0}

LEMMA RaisedCounts ==
    ASSUME NEW f, IsSeq(f), NEW e, e.chain \in Nat
    PROVE  /\ Cardinality(Raised(f)) \in Nat
           /\ Cardinality(Raised(Append(f, e)))
                = Cardinality(Raised(f)) + (IF e.chain = 0 THEN 0 ELSE 1)
<1> DEFINE g == Append(f, e)
           m == Len(f)
<1>1. /\ m \in Nat /\ Len(g) = m + 1 /\ (\A i \in 1..m : g[i] = f[i]) /\ g[m + 1] = e
  BY AppendSeq DEF IsSeq
<1> HIDE DEF g, m
<1>2. IsFiniteSet(Raised(f)) /\ Cardinality(Raised(f)) \in Nat
  <2>1. Raised(f) \subseteq 1..m /\ IsFiniteSet(1..m)
    BY <1>1, FS_Interval DEF Raised, m
  <2> QED BY <2>1, FS_Subset, FS_CardinalityType
<1>3. m + 1 \notin Raised(f)
  BY <1>1 DEF Raised, m
<1>4. CASE e.chain = 0
  <2>1. Raised(g) = Raised(f)
    BY <1>1, <1>4 DEF Raised, m
  <2> QED BY <1>2, <1>4, <2>1 DEF g
<1>5. CASE e.chain # 0
  <2>1. Raised(g) = Raised(f) \cup {m + 1}
    BY <1>1, <1>5 DEF Raised, m
  <2>2. Cardinality(Raised(f) \cup {m + 1}) = Cardinality(Raised(f)) + 1
    BY <1>2, <1>3, FS_AddElement
  <2> QED BY <1>2, <1>5, <2>1, <2>2 DEF g
<1> QED BY <1>4, <1>5

LEMMA CorrelateFiles ==
    ASSUME NEW k, Correlate(k), IsSeq(filed)
    PROVE  \E e : /\ filed' = Append(filed, e) /\ Len(filed') = Len(filed) + 1
                  /\ filed'[Len(filed')] = e /\ ChainRaised = e.chain
<1>1. PICK e : filed' = Append(filed, e)
  BY Zenon DEF Correlate
<1>2. /\ Len(filed) \in Nat /\ Len(Append(filed, e)) = Len(filed) + 1
      /\ Append(filed, e)[Len(filed) + 1] = e
  BY AppendSeq DEF IsSeq
<1>3. Len(filed') # Len(filed) /\ filed'[Len(filed')] = e
  BY <1>1, <1>2
<1> QED BY <1>1, <1>2, <1>3 DEF ChainRaised

-----------------------------------------------------------------------------
(* The specification. *)

\* The engine drives the correlator as Storyline's steps: an Observe for each
\* event, then one Correlate for each alert.
LEMMA StepIsStoryStep ==
    [EngineNext]_engineVars => [Next]_vars
<1> SUFFICES ASSUME [EngineNext]_engineVars PROVE [Next]_vars
  OBVIOUS
<1>1. CASE \E e \in Events : EvaluateSelf(e)
  BY <1>1 DEF EvaluateSelf, storyVars, vars, corVars
<1>2. CASE \E e \in Events, t \in Stamps : EvaluateBegin(e, t)
  <2>1. PICK e \in Events, t \in Stamps : Observe(e.pid, t)
    BY <1>2 DEF EvaluateBegin
  <2>2. e.pid \in PIDs
    BY <2>1, StorylineAssumption DEF Observe
  <2> QED BY <2>1, <2>2 DEF Next
<1>3. CASE \E stat \in StatResults : RuleSilent(stat)
  BY <1>3 DEF RuleSilent, storyVars, vars, corVars
<1>4. CASE \E stat \in StatResults : RuleAlerts(stat)
  <2>1. PICK k : Correlate(k)
    BY <1>4 DEF RuleAlerts, CorrelateAndAdmit
  <2>2. k \in AlertKinds
    BY <2>1 DEF Correlate
  <2> QED BY <2>1, <2>2 DEF Next
<1>5. CASE EvaluateReturns
  BY <1>5 DEF EvaluateReturns, storyVars, vars, corVars
<1>6. CASE UNCHANGED engineVars
  BY <1>6 DEF engineVars, storyVars, vars, corVars
<1> QED BY <1>1, <1>2, <1>3, <1>4, <1>5, <1>6 DEF EngineNext

\* Evaluate keeps the Correlator's calling convention, so all that is proved
\* of the Correlator by itself holds of the one inside the engine.
THEOREM EngineCorrelates ==
    EngineSpec => Spec
<1>1. EngineInit => Init
  BY DEF EngineInit
<1> QED BY <1>1, StepIsStoryStep, PTL DEF EngineSpec, Spec

LEMMA StepIsTrackerStep ==
    [EngineNext]_engineVars => [T!Next]_T!vars
<1> SUFFICES ASSUME [EngineNext]_engineVars PROVE [T!Next]_T!vars
  OBVIOUS
<1>1. CASE \E e \in Events : EvaluateSelf(e)
  BY <1>1 DEF EvaluateSelf, trackVars, T!vars
<1>2. CASE \E e \in Events, t \in Stamps : EvaluateBegin(e, t)
  <2>1. PICK e \in Events, t \in Stamps : Observe(e.pid, t) /\ T!Record(e.pid, e, t)
    BY <1>2 DEF EvaluateBegin
  <2>2. t \in T!Times /\ e.pid \in PIDs
    BY <2>1, StorylineAssumption DEF Observe, T!Times
  <2> QED BY <2>1, <2>2 DEF T!Next
<1>3. CASE \E stat \in StatResults : RuleSilent(stat)
  BY <1>3 DEF RuleSilent, trackVars, T!vars
<1>4. CASE \E stat \in StatResults : RuleAlerts(stat)
  <2>1. PICK k : Correlate(k)
    BY <1>4 DEF RuleAlerts, CorrelateAndAdmit
  <2>2. now' = now
    BY <2>1, Zenon DEF Correlate
  <2> QED BY <1>4, <2>2 DEF RuleAlerts, trackVars, T!vars
<1>5. CASE EvaluateReturns
  BY <1>5 DEF EvaluateReturns, trackVars, T!vars
<1>6. CASE UNCHANGED engineVars
  BY <1>6 DEF engineVars, trackVars, T!vars
<1> QED BY <1>1, <1>2, <1>3, <1>4, <1>5, <1>6 DEF EngineNext

\* ... and the Tracker's: one Record for each event, with its own stamp, and
\* none on behalf of a rule.
THEOREM EngineRecords ==
    EngineSpec => T!Spec
<1>1. EngineInit => T!Init
  BY DEF EngineInit
<1> QED BY <1>1, StepIsTrackerStep, PTL DEF EngineSpec, T!Spec

\* What Evaluate has done with the alerts it filed so far: each was folded or
\* collected, and so was each chain; the map is clean until the last rule.
EngineInv ==
    /\ EngineTypeOK
    /\ IsSeq(alerts) /\ IsSeq(returned) /\ total \in Nat
    /\ Len(filed) = total + Cardinality(FindingsIn(returned)) + Cardinality(FindingsIn(alerts))
    /\ Cardinality(Raised(filed)) = Cardinality(ChainsIn(returned)) + Cardinality(ChainsIn(alerts))
    /\ Running => Clean(args)
    /\ KeysOwnRule

LEMMA InitEngine ==
    EngineInit => EngineInv
<1> SUFFICES ASSUME EngineInit PROVE EngineInv
  OBVIOUS
<1>1. /\ filed = <<>> /\ alerts = <<>> /\ returned = <<>> /\ rule = 0 /\ ev = NoCall
      /\ total = 0 /\ seen = {}
  BY DEF EngineInit, Init, D!Init
<1>2. Len(EnabledRules) \in Nat
  BY RulesInOrder
<1>3. EngineTypeOK
  BY <1>1, <1>2 DEF EngineTypeOK
<1>4. /\ IsSeq(<<>>) /\ FindingsIn(<<>>) = {} /\ ChainsIn(<<>>) = {} /\ Cardinality({}) = 0
  BY CountOne
<1>5. Len(filed) = 0 /\ Raised(filed) = {}
  BY <1>1 DEF Raised
<1>6. ~Running
  BY <1>1 DEF Running
<1>7. KeysOwnRule
  BY <1>1 DEF KeysOwnRule
<1>8. /\ IsSeq(alerts) /\ IsSeq(returned)
      /\ Cardinality(FindingsIn(alerts)) = 0 /\ Cardinality(FindingsIn(returned)) = 0
      /\ Cardinality(ChainsIn(alerts)) = 0 /\ Cardinality(ChainsIn(returned)) = 0
      /\ Cardinality(Raised(filed)) = 0
  BY <1>1, <1>4, <1>5
<1>9. total \in Nat /\ Len(filed) = 0 /\ total = 0 /\ 0 = 0 + 0 + 0 /\ 0 = 0 + 0
  BY <1>1, <1>5
<1> QED BY <1>3, <1>6, <1>7, <1>8, <1>9 DEF EngineInv

\* What EngineInv says about depends on nothing else.
LEMMA SameEngine ==
    ASSUME EngineInv, UNCHANGED <<filed, alerts, returned, total, seen, args>>,
           EngineTypeOK', (Running => Clean(args))'
    PROVE  EngineInv'
BY DEF EngineInv, KeysOwnRule

LEMMA BeginKeeps ==
    ASSUME EngineInv, NEW e, NEW t, EvaluateBegin(e, t)
    PROVE  EngineInv'
<1>1. /\ filed' = filed /\ returned' = returned /\ total' = total /\ seen' = seen
      /\ alerts' = <<>> /\ rule' = 1 /\ args' = decodeArgs(e) /\ rule = 0
  BY DEF EvaluateBegin, Arrives, Observe, foldVars
<1>2. alerts = <<>>
  BY <1>1 DEF EngineInv, EngineTypeOK, AtRest
<1>3. EngineTypeOK'
  BY <1>1, RulesInOrder DEF EngineTypeOK, AtRest
<1>4. Clean(args')
  BY <1>1, DecodedClean
<1> QED BY <1>1, <1>2, <1>3, <1>4 DEF EngineInv, KeysOwnRule

LEMMA SilentKeeps ==
    ASSUME EngineInv, NEW stat, RuleSilent(stat)
    PROVE  EngineInv'
<1>1. /\ UNCHANGED <<filed, alerts, returned, total, seen, args, ev>>
      /\ rule' = rule + 1 /\ Running
  BY DEF RuleSilent, foldVars, storyVars
<1>2. EngineTypeOK'
  BY <1>1, RulesInOrder DEF EngineTypeOK, AtRest, Running
<1>3. Clean(args)
  BY <1>1 DEF EngineInv
<1> QED BY <1>1, <1>2, <1>3, SameEngine

LEMMA ReturnsKeeps ==
    ASSUME EngineInv, EvaluateReturns
    PROVE  EngineInv'
<1> DEFINE rf == Cardinality(FindingsIn(returned))
           af == Cardinality(FindingsIn(alerts))
           rc == Cardinality(ChainsIn(returned))
           ac == Cardinality(ChainsIn(alerts))
           rf2 == Cardinality(FindingsIn(returned'))
           af2 == Cardinality(FindingsIn(alerts'))
           rc2 == Cardinality(ChainsIn(returned'))
           ac2 == Cardinality(ChainsIn(alerts'))
<1>1. /\ filed' = filed /\ returned' = returned \o alerts /\ total' = total /\ seen' = seen
      /\ alerts' = <<>> /\ rule' = 0 /\ ev' = NoCall
  BY DEF EvaluateReturns, foldVars, storyVars
<1>2. EngineTypeOK'
  BY <1>1, RulesInOrder DEF EngineTypeOK, AtRest
<1>3. IsSeq(alerts) /\ IsSeq(returned)
  BY DEF EngineInv
<1>4. IsSeq(returned')
  BY <1>1, <1>3, ConcatSeq
<1>5. rf2 = rf + af /\ rc2 = rc + ac /\ rf \in Nat /\ af \in Nat /\ rc \in Nat /\ ac \in Nat
  BY <1>1, <1>3, CountConcat
<1>6. af2 = 0 /\ ac2 = 0 /\ IsSeq(alerts')
  BY <1>1, CountOne
<1>7. Len(filed) = total + rf + af /\ Cardinality(Raised(filed)) = rc + ac /\ total \in Nat
  BY DEF EngineInv
<1>8. ~Running'
  BY <1>1 DEF Running
<1>9. KeysOwnRule'
  BY <1>1 DEF EngineInv, KeysOwnRule
<1> HIDE DEF rf, af, rc, ac, rf2, af2, rc2, ac2
<1>10. Len(filed) = total + rf2 + af2 /\ Cardinality(Raised(filed)) = rc2 + ac2
  BY <1>5, <1>6, <1>7
<1> QED BY <1>1, <1>2, <1>4, <1>6, <1>7, <1>8, <1>9, <1>10 DEF EngineInv, rf2, af2, rc2, ac2

LEMMA AlertsKeeps ==
    ASSUME EngineInv, IInv, IInv', NEW stat, RuleAlerts(stat)
    PROVE  EngineInv'
<1> DEFINE r == EnabledRules[rule]
<1>1. PICK f \in Findings(r, ev, stat, Shown) :
         LET a == newAlert(r, ev, f.mitre, Written(f.notes, args)) IN
         /\ args' = a.args
         /\ CorrelateAndAdmit(a)
         /\ alerts' = alerts \o Collected(a, outcome'.admitted, ChainRaised)
  BY DEF RuleAlerts
<1> DEFINE a == newAlert(r, ev, f.mitre, Written(f.notes, args))
<1>2. /\ Running /\ rule' = rule + 1 /\ returned' = returned /\ ev' = ev
      /\ args' = Written(f.notes, args)
      /\ Correlate(KindOf(a)) /\ D!admit(a, event.ts)
      /\ alerts' = alerts \o Collected(a, outcome'.admitted, ChainRaised)
  BY <1>1 DEF RuleAlerts, CorrelateAndAdmit, newAlert
<1>3. rule \in 1..Len(EnabledRules) /\ r \in Stateless \cup {"reverse-shell"}
  BY <1>2, RulesInOrder DEF Running
<1>4. ~IsChain(a) /\ a.rule = r /\ a.args = Written(f.notes, args)
  BY <1>3 DEF IsChain, newAlert, Stateless
<1> HIDE DEF a
<1>5. IsSeq(filed) /\ IsSeq(filed') /\ total \in Nat /\ IsSeq(alerts) /\ IsSeq(returned)
  BY DEF EngineInv, IInv, TallyOK
<1>6. PICK e : /\ filed' = Append(filed, e) /\ Len(filed') = Len(filed) + 1
               /\ filed'[Len(filed')] = e /\ ChainRaised = e.chain
  BY <1>2, <1>5, CorrelateFiles
<1>7. e.chain \in Nat
  <2>1. Len(filed') \in 1..Len(filed')
    BY <1>5, <1>6 DEF IsSeq
  <2> QED BY <1>6, <2>1 DEF IInv, TallyOK
<1>8. /\ Cardinality(Raised(filed)) \in Nat
      /\ Cardinality(Raised(filed')) = Cardinality(Raised(filed)) + (IF e.chain = 0 THEN 0 ELSE 1)
  BY <1>5, <1>6, <1>7, RaisedCounts
<1>9. /\ outcome'.admitted \in BOOLEAN
      /\ total' = total + (IF outcome'.admitted THEN 0 ELSE 1)
      /\ seen' \subseteq seen \cup {D!dedupKey(a)}
  BY <1>2, <1>5, AdmitDoes
<1> DEFINE c == Collected(a, outcome'.admitted, ChainRaised)
<1>10. /\ IsSeq(c)
       /\ Cardinality(FindingsIn(c)) = (IF outcome'.admitted THEN 1 ELSE 0)
       /\ Cardinality(ChainsIn(c)) = (IF e.chain = 0 THEN 0 ELSE 1)
  BY <1>4, <1>6, <1>9, CollectedCounts
<1> HIDE DEF c
<1>11. alerts' = alerts \o c
  BY <1>2 DEF c
<1>12. /\ Cardinality(FindingsIn(alerts')) = Cardinality(FindingsIn(alerts)) + Cardinality(FindingsIn(c))
       /\ Cardinality(ChainsIn(alerts')) = Cardinality(ChainsIn(alerts)) + Cardinality(ChainsIn(c))
       /\ Cardinality(FindingsIn(alerts)) \in Nat /\ Cardinality(ChainsIn(alerts)) \in Nat
  BY <1>5, <1>10, <1>11, CountConcat
<1>13. Cardinality(FindingsIn(returned)) \in Nat /\ Cardinality(ChainsIn(returned)) \in Nat
  BY <1>5, CountConcat
<1>14. IsSeq(alerts')
  BY <1>5, <1>10, <1>11, ConcatSeq
<1>15. EngineTypeOK'
  BY <1>2, <1>3, RulesInOrder DEF EngineTypeOK, AtRest
<1>16. (Running => Clean(args))'
  <2>1. CASE r \in Stateless
    <3>1. Clean(f.notes) /\ Clean(args)
      BY <1>2, <2>1, NotesClean DEF EngineInv
    <3> QED BY <1>2, <3>1, WrittenClean
  <2>2. CASE r \notin Stateless
    <3>1. rule' = Len(EnabledRules) + 1 /\ Len(EnabledRules) \in Nat
      BY <1>2, <1>3, <2>2, RulesInOrder
    <3> QED BY <3>1 DEF Running
  <2> QED BY <2>1, <2>2
<1>17. KeysOwnRule'
  <2>1. \A k \in seen : "chain_dest" \in DOMAIN k[5] => k[1] = "reverse-shell"
    BY DEF EngineInv, KeysOwnRule
  <2> DEFINE k == D!dedupKey(a)
  <2>2. k[1] = r /\ DOMAIN k[5] \subseteq DOMAIN a.args
    BY <1>4 DEF D!dedupKey
  <2>3. "chain_dest" \in DOMAIN k[5] => k[1] = "reverse-shell"
    <3>1. CASE r \in Stateless
      <4>1. Clean(f.notes) /\ Clean(args)
        BY <1>2, <3>1, NotesClean DEF EngineInv
      <4>2. Clean(a.args)
        BY <1>4, <4>1, WrittenClean
      <4> QED BY <2>2, <4>2 DEF Clean
    <3>2. CASE r \notin Stateless
      BY <1>3, <2>2, <3>2
    <3> QED BY <3>1, <3>2
  <2> HIDE DEF k
  <2> QED BY <1>9, <2>1, <2>3 DEF KeysOwnRule, k
<1> DEFINE rf == Cardinality(FindingsIn(returned))
           af == Cardinality(FindingsIn(alerts))
           rc == Cardinality(ChainsIn(returned))
           ac == Cardinality(ChainsIn(alerts))
           cf == Cardinality(FindingsIn(c))
           cc == Cardinality(ChainsIn(c))
           af2 == Cardinality(FindingsIn(alerts'))
           ac2 == Cardinality(ChainsIn(alerts'))
           n == Len(filed)
           n2 == Len(filed')
           x == Cardinality(Raised(filed))
           x2 == Cardinality(Raised(filed'))
           adm == outcome'.admitted
           t2 == total'
           one == IF e.chain = 0 THEN 0 ELSE 1
<1>18. /\ n = total + rf + af /\ x = rc + ac /\ n2 = n + 1
       /\ x2 = x + one /\ cc = one /\ one \in Nat
       /\ adm \in BOOLEAN /\ t2 = total + (IF adm THEN 0 ELSE 1) /\ cf = IF adm THEN 1 ELSE 0
       /\ af2 = af + cf /\ ac2 = ac + cc
       /\ af \in Nat /\ ac \in Nat /\ rf \in Nat /\ rc \in Nat /\ total \in Nat /\ n \in Nat
  BY <1>5, <1>6, <1>8, <1>9, <1>10, <1>12, <1>13 DEF EngineInv, IsSeq
<1> HIDE DEF rf, af, rc, ac, cf, cc, af2, ac2, n, n2, x, x2, adm, t2, one
<1>19. n2 = t2 + rf + af2 /\ x2 = rc + ac2 /\ t2 \in Nat
  <2>1. CASE adm
    BY <1>18, <2>1
  <2>2. CASE ~adm
    BY <1>18, <2>2
  <2> QED BY <2>1, <2>2
<1>20. /\ Len(filed') = total' + Cardinality(FindingsIn(returned')) + Cardinality(FindingsIn(alerts'))
       /\ Cardinality(Raised(filed')) = Cardinality(ChainsIn(returned')) + Cardinality(ChainsIn(alerts'))
       /\ total' \in Nat
  BY <1>2, <1>19 DEF n2, t2, rf, af2, x2, rc, ac2
<1> QED BY <1>2, <1>5, <1>14, <1>15, <1>16, <1>17, <1>20 DEF EngineInv

\* The inductive invariant holds, given the Correlator's: between two rules
\* every alert filed was folded, returned, or waits in the slice.
THEOREM EngineInvHolds ==
    EngineSpec => []EngineInv
<1>1. EngineInv /\ IInv /\ IInv' /\ [EngineNext]_engineVars => EngineInv'
  <2> SUFFICES ASSUME EngineInv, IInv, IInv', [EngineNext]_engineVars PROVE EngineInv'
    OBVIOUS
  <2>1. CASE \E e \in Events : EvaluateSelf(e)
    <3>1. UNCHANGED <<filed, alerts, returned, total, seen, args, ev, rule>>
      BY <2>1 DEF EvaluateSelf, foldVars, storyVars
    <3>2. EngineTypeOK' /\ (Running => Clean(args))'
      BY <3>1 DEF EngineInv, EngineTypeOK, AtRest, Running
    <3> QED BY <3>1, <3>2, SameEngine
  <2>2. CASE \E e \in Events, t \in Stamps : EvaluateBegin(e, t)
    BY <2>2, BeginKeeps
  <2>3. CASE \E stat \in StatResults : RuleSilent(stat)
    BY <2>3, SilentKeeps
  <2>4. CASE \E stat \in StatResults : RuleAlerts(stat)
    BY <2>4, AlertsKeeps
  <2>5. CASE EvaluateReturns
    BY <2>5, ReturnsKeeps
  <2>6. CASE UNCHANGED engineVars
    <3>1. UNCHANGED <<filed, alerts, returned, total, seen, args, ev, rule>>
      BY <2>6 DEF engineVars, foldVars, storyVars, runVars
    <3>2. EngineTypeOK' /\ (Running => Clean(args))'
      BY <3>1 DEF EngineInv, EngineTypeOK, AtRest, Running
    <3> QED BY <3>1, <3>2, SameEngine
  <2> QED BY <2>1, <2>2, <2>3, <2>4, <2>5, <2>6 DEF EngineNext
<1> QED BY <1>1, InitEngine, EngineCorrelates, IInvHolds, PTL DEF EngineSpec

-----------------------------------------------------------------------------
(* What Evaluate promises. *)

\* The storylines that were not absorbed share out the alerts filed: each is
\* counted by one of them, once.
LEMMA TalliedAll ==
    ASSUME IInv
    PROVE  Cardinality(Tallied) = Len(filed)
<1> DEFINE L == {m \in StoryIds : Live(stories[m])}
           My(n) == Mine(stories, filed, n)
           N == Len(filed)
<1>1. TallyOK(stories, filed) /\ StoreOK(stories, byPID, now)
  BY DEF IInv
<1>2. /\ N \in Nat /\ Len(stories) \in Nat
      /\ \A i \in 1..N : filed[i].story \in 1..Len(stories)
      /\ \A n \in L : stories[n].alerts = Cardinality(My(n))
  BY <1>1 DEF TallyOK, StoreOK, IsSeq, Tells, StoryIds
<1>3. \A i \in 1..N : Survivor(stories, filed[i].story) \in L
  <2>1. PICK r : Ranked(stories, r)
    BY <1>1 DEF StoreOK, Acyclic
  <2> QED BY <1>2, <2>1, SurvivorUnfolds DEF StoryIds
<1>4. \A n \in L : \E g : g \in Bijection(1..stories[n].alerts, My(n))
  <2> TAKE n \in L
  <2>1. My(n) \subseteq 1..N /\ IsFiniteSet(1..N)
    BY <1>2, FS_Interval DEF Mine
  <2>2. IsFiniteSet(My(n))
    BY <2>1, FS_Subset
  <2>3. ExistsBijection(1..Cardinality(My(n)), My(n))
    BY <2>2, FS_CardinalityType
  <2> QED BY <1>2, <2>3 DEF ExistsBijection
<1> DEFINE b == [n \in L |-> CHOOSE g : g \in Bijection(1..stories[n].alerts, My(n))]
<1>5. \A n \in L : b[n] \in Bijection(1..stories[n].alerts, My(n))
  BY <1>4
<1>6. \A n \in L : \A i \in My(n) : i \in 1..N /\ Survivor(stories, filed[i].story) = n
  BY DEF Mine
<1>7. \A i \in 1..N : i \in My(Survivor(stories, filed[i].story))
  BY DEF Mine
<1> HIDE DEF b, My
<1>8. \A n \in L :
         /\ \A j \in 1..stories[n].alerts : b[n][j] \in My(n)
         /\ \A j, k \in 1..stories[n].alerts : b[n][j] = b[n][k] => j = k
         /\ \A i \in My(n) : \E j \in 1..stories[n].alerts : b[n][j] = i
  BY <1>5 DEF Bijection, Injection, Surjection, IsInjective
<1>9. Tallied = UNION {{n} \X (1..stories[n].alerts) : n \in L}
  BY DEF Tallied
<1> DEFINE F == [x \in Tallied |-> b[x[1]][x[2]]]
<1>10. ASSUME NEW x \in Tallied PROVE x[1] \in L /\ x[2] \in 1..stories[x[1]].alerts /\ x = <<x[1], x[2]>>
  BY <1>9
<1>11. ASSUME NEW n \in L, NEW j \in 1..stories[n].alerts PROVE <<n, j>> \in Tallied
  BY <1>9
<1> HIDE DEF L
<1>12. F \in [Tallied -> 1..N]
  BY <1>6, <1>8, <1>10
<1>13. ASSUME NEW x \in Tallied, NEW y \in Tallied, F[x] = F[y] PROVE x = y
  <2>1. b[x[1]][x[2]] = b[y[1]][y[2]]
    BY <1>13
  <2>2. b[x[1]][x[2]] \in My(x[1]) /\ b[y[1]][y[2]] \in My(y[1])
    BY <1>8, <1>10
  <2>3. x[1] = y[1]
    BY <1>6, <1>10, <2>1, <2>2
  <2>4. x[2] = y[2]
    BY <1>8, <1>10, <2>1, <2>3
  <2> QED BY <1>10, <2>3, <2>4
<1>14. ASSUME NEW i \in 1..N PROVE \E x \in Tallied : F[x] = i
  <2> DEFINE n == Survivor(stories, filed[i].story)
  <2>1. n \in L /\ i \in My(n)
    BY <1>3, <1>7
  <2> HIDE DEF n
  <2>2. PICK j \in 1..stories[n].alerts : b[n][j] = i
    BY <1>8, <2>1
  <2>3. <<n, j>> \in Tallied /\ F[<<n, j>>] = i
    BY <1>11, <2>1, <2>2
  <2> QED BY <2>3
<1> HIDE DEF F
<1>15. F \in Bijection(Tallied, 1..N)
  BY <1>12, <1>13, <1>14 DEF Bijection, Injection, Surjection, IsInjective
<1>16. ExistsBijection(Tallied, 1..N)
  BY <1>15 DEF ExistsBijection
<1>17. IsFiniteSet(1..N) /\ Cardinality(1..N) = N
  <2> HIDE DEF N
  <2>1. N \in Nat
    BY <1>2
  <2>2. 1 \in Int /\ N \in Int /\ (IF 1 > N THEN 0 ELSE N - 1 + 1) = N
    BY <2>1
  <2>3. IsFiniteSet(1..N) /\ Cardinality(1..N) = (IF 1 > N THEN 0 ELSE N - 1 + 1)
    BY <2>2, FS_Interval
  <2> QED BY <2>2, <2>3
<1>18. ExistsBijection(1..N, Tallied)
  BY <1>16, Fun_ExistsBijSymmetric
<1> HIDE DEF N
<1>19. Cardinality(Tallied) = Cardinality(1..N)
  BY <1>17, <1>18, FS_Bijection
<1> QED BY <1>17, <1>19 DEF N

\* A folded repeat is still evidence: between two events the storylines that
\* were not absorbed count exactly the alerts returned and the alerts folded,
\* through any number of merges, lapses and sweeps.
THEOREM FoldingHidesNothing ==
    EngineSpec => []FoldedIsEvidence
<1>1. EngineInv /\ IInv => FoldedIsEvidence
  <2> SUFFICES ASSUME EngineInv, IInv, AtRest
               PROVE  Cardinality(Tallied) = total + Cardinality(FindingsIn(returned))
    BY DEF FoldedIsEvidence
  <2>1. alerts = <<>> /\ IsSeq(returned) /\ total \in Nat
    BY DEF EngineInv, EngineTypeOK
  <2>2. Cardinality(FindingsIn(alerts)) = 0
    BY <2>1, CountOne
  <2>3. Cardinality(FindingsIn(returned)) \in Nat
    BY <2>1, CountConcat
  <2>4. Len(filed) = total + Cardinality(FindingsIn(returned)) + Cardinality(FindingsIn(alerts))
    BY DEF EngineInv
  <2>5. Cardinality(Tallied) = Len(filed)
    BY TalliedAll
  <2> DEFINE x == Cardinality(FindingsIn(returned))
             y == Cardinality(FindingsIn(alerts))
             n == Len(filed)
  <2>6. x \in Nat /\ y = 0 /\ n = total + x + y /\ total \in Nat
    BY <2>1, <2>2, <2>3, <2>4
  <2> HIDE DEF x, y, n
  <2>7. n = total + x
    BY <2>6
  <2> QED BY <2>5, <2>7 DEF n, x
<1> QED BY <1>1, EngineInvHolds, EngineCorrelates, IInvHolds, PTL

\* Every attack chain the Correlator raised is among the alerts returned, the
\* chain of an alert that was itself folded included.
THEOREM NoChainIsFolded ==
    EngineSpec => []ChainsReachTheLog
<1>1. EngineInv => ChainsReachTheLog
  <2> SUFFICES ASSUME EngineInv, AtRest
               PROVE  Cardinality(ChainsIn(returned)) = Cardinality(Raised(filed))
    BY DEF ChainsReachTheLog, Raised
  <2>1. alerts = <<>> /\ IsSeq(returned)
    BY DEF EngineInv, EngineTypeOK
  <2>2. Cardinality(ChainsIn(alerts)) = 0
    BY <2>1, CountOne
  <2>3. Cardinality(ChainsIn(returned)) \in Nat
    BY <2>1, CountConcat
  <2> QED BY <2>2, <2>3 DEF EngineInv
<1> QED BY <1>1, EngineInvHolds, PTL

\* Although the rules of one event share a map, the destination the
\* reverse-shell rule leaves in it is part of no other rule's dedup key: the
\* registry runs that rule last.
THEOREM MapIsShared ==
    EngineSpec => []KeysOwnRule
<1>1. EngineInv => KeysOwnRule
  BY DEF EngineInv
<1> QED BY <1>1, EngineInvHolds, PTL
=============================================================================
