-------------------------- MODULE PidFilterProofs --------------------------
(***************************************************************************)
(* Proofs about PidFilter, for any process tree, any number of processes   *)
(* and any interleaving of the walk of /proc with forks and exits.         *)
(*                                                                         *)
(* The sweeps over a parent map, repeated until nothing is added, compute  *)
(* the least set that has its seeds and the children of its members; that  *)
(* is proved first and is all the rest uses of Descendants.                *)
(***************************************************************************)
EXTENDS PidFilter, FiniteSetTheorems, WellFoundedInduction, TLAPS

\* G has the children of its members.
Closed(G, par) == \A p \in PIDs : par[p] \in G => p \in G

Used(par) == {p \in PIDs : p = 1 \/ par[p] # 0}

\* The process tree: init has no parent and is not of the family, a pid
\* that was never used has no children, and the family is closed.
TreeInv ==
    /\ parent \in [PIDs -> PIDs \cup {0}] /\ family \subseteq PIDs
    /\ parent[1] = 0 /\ 1 \notin family /\ Root \in family
    /\ alive \subseteq Used(parent)
    /\ \A p \in PIDs : parent[p] \in Used(parent) \cup {0}
    /\ Closed(family, parent)

\* The pairs of a process and a parent it had that the filter works with are
\* pairs of the family, or not.
PairsInv ==
    /\ parents \in [PIDs -> PIDs \cup {0}]
    /\ \A p \in PIDs : parents[p] \in Used(parent) \cup {0}
    /\ Closed(family, parents)
    /\ queue \in Seq([pid : PIDs, ppid : PIDs \cup {0}])
    /\ \A i \in 1..Len(queue) : /\ queue[i].ppid \in Used(parent) \cup {0}
                                /\ queue[i].ppid \in family => queue[i].pid \in family

\* Where the walk is.
WalkInv ==
    /\ phase \in {"list", "read", "run"}
    /\ listed \subseteq Used(parent)
    /\ phase = "run" => unread = {}
    /\ \A p \in (listed \ unread) \cap alive : parent[p] \in {parents[p], 1}

\* What the filter tracks.
ScopeInv ==
    /\ tracked \subseteq family /\ Root \in tracked
    /\ phase # "run" => tracked = {Root}
    /\ phase = "list" => listed = {}
    /\ phase = "run" /\ listed # {} => Descendants({Root}, parents) \subseteq tracked

IInv == TreeInv /\ PairsInv /\ WalkInv /\ ScopeInv

-----------------------------------------------------------------------------
(* Descendants. *)

N == Cardinality(PIDs)

LEMMA NFacts == N \in Nat /\ IsFiniteSet(PIDs) /\ 0 \notin PIDs /\ 1 \in PIDs
  BY PidFilterAssumption, FS_CardinalityType DEF N

\* Induction on the natural numbers, for a set.
LEMMA InductionOnNat ==
    ASSUME NEW G, 0 \in G, \A n \in Nat : n \in G => n + 1 \in G
    PROVE  Nat \subseteq G
  <1> SUFFICES ASSUME Nat \ G # {} PROVE FALSE
    OBVIOUS
  <1>1. PICK m \in Nat \ G : \A y \in Nat \ G : ~(<<y, m>> \in OpToRel(<, Nat))
    BY NatLessThanWellFounded, WFMin
  <1>2. \A y \in Nat \ G : ~(y < m)
    BY <1>1 DEF OpToRel
  <1>3. m # 0 /\ m - 1 \in Nat /\ m - 1 < m /\ (m - 1) + 1 = m
    OBVIOUS
  <1> QED BY <1>2, <1>3

\* One sweep over the map.
Sweep(par, G) == G \cup {p \in PIDs : par[p] \in G}

GrowBody(S, par, g, n) == IF n = 0 THEN S ELSE Sweep(par, g[n - 1])

IsGrow(S, par, g) == g = [n \in 0..N |-> GrowBody(S, par, g, n)]

\* The recursion of Descendants has a solution ...
LEMMA GrowExists ==
    ASSUME NEW S, NEW par
    PROVE  \E g : IsGrow(S, par, g)
  <1> DEFINE Upto(m, g) == \A n \in 0..N : n <= m => g[n] = GrowBody(S, par, g, n)
             G == {m \in Nat : \E g : Upto(m, g)}
  <1>1. N \in Nat
    BY NFacts
  <1>2. 0 \in G
    <2> DEFINE g == [n \in 0..N |-> S]
    <2>1. Upto(0, g)
      BY <1>1 DEF GrowBody
    <2> QED BY <2>1
  <1>3. ASSUME NEW m \in Nat, m \in G PROVE m + 1 \in G
    <2>1. PICK g : Upto(m, g)
      BY <1>3
    <2> DEFINE h == [n \in 0..N |-> GrowBody(S, par, g, n)]
    <2>2. \A n \in 0..N : n <= m => h[n] = g[n]
      BY <2>1
    <2>3. \A n \in 0..N : n <= m + 1 => GrowBody(S, par, h, n) = GrowBody(S, par, g, n)
      <3> TAKE n \in 0..N
      <3> HAVE n <= m + 1
      <3>1. CASE n = 0
        BY <3>1 DEF GrowBody
      <3>2. CASE n # 0
        <4>1. n - 1 \in 0..N /\ n - 1 <= m
          BY <1>1, <3>2
        <4>2. h[n - 1] = g[n - 1]
          BY <2>2, <4>1
        <4> HIDE DEF h
        <4> QED BY <3>2, <4>2 DEF GrowBody
      <3> QED BY <3>1, <3>2
    <2>4. Upto(m + 1, h)
      BY <2>3
    <2> HIDE DEF h, Upto
    <2>5. m + 1 \in Nat
      OBVIOUS
    <2> QED BY <2>4, <2>5
  <1>4. N \in G
    <2> HIDE DEF G
    <2>1. Nat \subseteq G
      BY <1>2, <1>3, InductionOnNat
    <2> QED BY <1>1, <2>1
  <1>5. PICK g : Upto(N, g)
    BY <1>4
  <1> DEFINE h == [n \in 0..N |-> g[n]]
  <1>6. \A n \in 0..N : g[n] = GrowBody(S, par, g, n)
    BY <1>1, <1>5
  <1>7. \A n \in 0..N : GrowBody(S, par, h, n) = GrowBody(S, par, g, n)
    <2> TAKE n \in 0..N
    <2>1. CASE n = 0
      BY <2>1 DEF GrowBody
    <2>2. CASE n # 0
      <3>1. n - 1 \in 0..N
        BY <1>1, <2>2
      <3>2. h[n - 1] = g[n - 1]
        BY <3>1
      <3> HIDE DEF h
      <3> QED BY <2>2, <3>2 DEF GrowBody
    <2> QED BY <2>1, <2>2
  <1>8. h = [n \in 0..N |-> GrowBody(S, par, h, n)]
    BY <1>6, <1>7
  <1> QED BY <1>8 DEF IsGrow

\* ... and Descendants is its last value.
LEMMA DescendantsIs ==
    ASSUME NEW S, NEW par
    PROVE  \E g : IsGrow(S, par, g) /\ Descendants(S, par) = g[N]
  <1> DEFINE g == CHOOSE z : IsGrow(S, par, z)
  <1>1. IsGrow(S, par, g)
    BY GrowExists, Zenon
  <1>2. Descendants(S, par) = g[N]
    BY DEF Descendants, IsGrow, GrowBody, Sweep, N
  <1> QED BY <1>1, <1>2

\* Sweeping as often as there are processes reaches the end: each sweep that
\* is not the last adds a process.
LEMMA DescendantsLeast ==
    ASSUME NEW S \in SUBSET PIDs, NEW par
    PROVE  /\ S \subseteq Descendants(S, par) /\ Descendants(S, par) \subseteq PIDs
           /\ Closed(Descendants(S, par), par)
           /\ \A T : S \subseteq T /\ Closed(T, par) => Descendants(S, par) \subseteq T
  <1>1. PICK g : IsGrow(S, par, g) /\ Descendants(S, par) = g[N]
    BY DescendantsIs
  <1>2. N \in Nat /\ IsFiniteSet(PIDs)
    BY NFacts
  <1>3. \A n \in 0..N : g[n] = GrowBody(S, par, g, n)
    BY <1>1 DEF IsGrow
  <1>4. g[0] = S
    BY <1>2, <1>3 DEF GrowBody
  <1>5. \A n \in Nat : n + 1 \in 0..N => g[n + 1] = Sweep(par, g[n]) /\ n \in 0..N
    <2> TAKE n \in Nat
    <2> HAVE n + 1 \in 0..N
    <2>1. n + 1 # 0 /\ (n + 1) - 1 = n /\ n \in 0..N
      BY <1>2
    <2>2. g[n + 1] = GrowBody(S, par, g, n + 1)
      BY <1>3
    <2> QED BY <2>1, <2>2 DEF GrowBody
  <1> DEFINE Good(n) == /\ S \subseteq g[n] /\ g[n] \subseteq PIDs
                        /\ Closed(g[n], par) \/ Cardinality(g[n]) >= n
             G == {n \in Nat : n \in 0..N => Good(n)}
  <1>6. 0 \in G
    <2>1. IsFiniteSet(S) /\ Cardinality(S) \in Nat
      BY <1>2, FS_Subset, FS_CardinalityType
    <2> QED BY <1>4, <2>1
  <1>7. ASSUME NEW n \in Nat, n \in G PROVE n + 1 \in G
    <2> SUFFICES ASSUME n + 1 \in 0..N PROVE Good(n + 1)
      OBVIOUS
    <2> DEFINE A == g[n]
               B == g[n + 1]
    <2>1. B = Sweep(par, A) /\ Good(n)
      BY <1>5, <1>7
    <2>2. S \subseteq B /\ B \subseteq PIDs /\ A \subseteq B
      BY <2>1 DEF Sweep
    <2>3. CASE Closed(A, par)
      <3>1. B = A
        BY <2>1, <2>3 DEF Sweep, Closed
      <3> QED BY <2>2, <2>3, <3>1
    <2>4. CASE ~Closed(A, par)
      <3>1. Cardinality(A) >= n /\ A # B
        BY <2>1, <2>4 DEF Sweep, Closed
      <3> HIDE DEF A, B
      <3>2. IsFiniteSet(B)
        BY <1>2, <2>2, FS_Subset
      <3>3. IsFiniteSet(A) /\ Cardinality(A) <= Cardinality(B) /\ Cardinality(A) # Cardinality(B)
        BY <2>2, <3>1, <3>2, FS_Subset
      <3>4. Cardinality(A) \in Nat /\ Cardinality(B) \in Nat
        BY <3>2, <3>3, FS_CardinalityType
      <3>5. Cardinality(B) >= n + 1
        BY <3>1, <3>3, <3>4
      <3> QED BY <2>2, <3>5 DEF B
    <2> QED BY <2>3, <2>4
  <1>8. Good(N)
    <2> HIDE DEF G
    <2>1. Nat \subseteq G
      BY <1>6, <1>7, InductionOnNat
    <2>2. N \in G /\ N \in 0..N
      BY <1>2, <2>1
    <2> QED BY <2>2 DEF G
  <1>9. Closed(g[N], par)
    <2> SUFFICES ASSUME Cardinality(g[N]) >= N PROVE Closed(g[N], par)
      BY <1>8
    <2> DEFINE D == g[N]
    <2>1. D \subseteq PIDs
      BY <1>8
    <2> HIDE DEF D
    <2>2. Cardinality(D) <= Cardinality(PIDs) /\ (Cardinality(PIDs) = Cardinality(D) => PIDs = D)
      BY <1>2, <2>1, FS_Subset
    <2>3. IsFiniteSet(D) /\ Cardinality(D) \in Nat
      BY <1>2, <2>1, FS_Subset, FS_CardinalityType
    <2>4. PIDs = D
      BY <1>2, <2>2, <2>3 DEF N, D
    <2> QED BY <2>4 DEF D, Closed
  <1>10. ASSUME NEW T, S \subseteq T, Closed(T, par) PROVE g[N] \subseteq T
    <2> DEFINE H == {n \in Nat : n \in 0..N => g[n] \subseteq T}
    <2>1. 0 \in H
      BY <1>4, <1>10
    <2>2. ASSUME NEW n \in Nat, n \in H PROVE n + 1 \in H
      <3> SUFFICES ASSUME n + 1 \in 0..N PROVE g[n + 1] \subseteq T
        OBVIOUS
      <3>1. g[n + 1] = Sweep(par, g[n]) /\ g[n] \subseteq T
        BY <1>5, <2>2
      <3> QED BY <1>10, <3>1 DEF Sweep, Closed
    <2> HIDE DEF H
    <2>3. Nat \subseteq H
      BY <2>1, <2>2, InductionOnNat
    <2>4. N \in H /\ N \in 0..N
      BY <1>2, <2>3
    <2> QED BY <2>4 DEF H
  <1> QED BY <1>1, <1>8, <1>9, <1>10
-----------------------------------------------------------------------------
(* The steps.  What the kernel does first: a new process has no child yet, *)
(* and an orphan goes to init, which is not of the family.                 *)

\* The initial tree: init is above the root, so not below it.
LEMMA InitIInv == Init => IInv
  <1> SUFFICES ASSUME Init PROVE IInv
    OBVIOUS
  <1>1. 0 \notin PIDs /\ 1 \in PIDs /\ Root \in PIDs /\ Root # 1
    BY PidFilterAssumption
  <1>2. /\ parent \in [PIDs -> PIDs \cup {0}] /\ parent[1] = 0
        /\ \A p \in DOMAIN Tree \ {1} : parent[p] \in DOMAIN Tree
        /\ \A p \in PIDs \ DOMAIN Tree : parent[p] = 0
        /\ DOMAIN Tree \subseteq PIDs
    BY PidFilterAssumption DEF Init
  <1>3. alive = DOMAIN Tree /\ alive \subseteq Used(parent)
    BY <1>1, <1>2, SMTT(40) DEF Init, Used
  <1>4. \A p \in PIDs : parent[p] \in Used(parent) \cup {0}
    BY <1>2, <1>3
  <1>5. {Root} \in SUBSET PIDs
    BY <1>1
  <1>6. /\ {Root} \subseteq Descendants({Root}, parent) /\ Descendants({Root}, parent) \subseteq PIDs
        /\ Closed(Descendants({Root}, parent), parent)
        /\ \A T : {Root} \subseteq T /\ Closed(T, parent) => Descendants({Root}, parent) \subseteq T
    BY <1>5, DescendantsLeast
  <1>7. {Root} \subseteq PIDs \ {1} /\ Closed(PIDs \ {1}, parent)
    BY <1>1, <1>2 DEF Closed
  <1>8. family = Descendants({Root}, parent)
    BY DEF Init
  <1>9. family \subseteq PIDs \ {1} /\ Root \in family /\ Closed(family, parent)
    BY <1>6, <1>7, <1>8
  <1>10. TreeInv
    BY <1>2, <1>3, <1>4, <1>9 DEF TreeInv
  <1>11. parents = [p \in PIDs |-> 0] /\ queue = <<>>
    BY DEF Init
  <1>12. PairsInv
    BY <1>1, <1>9, <1>11 DEF PairsInv, Closed
  <1>13. listed = {} /\ unread = {} /\ tracked = {Root} /\ phase \in {"list", "run"}
    BY DEF Init
  <1>14. WalkInv /\ ScopeInv
    BY <1>9, <1>13 DEF WalkInv, ScopeInv
  <1> QED BY <1>10, <1>12, <1>14 DEF IInv

LEMMA ForkKeeps ==
    ASSUME IInv, NEW p \in PIDs, Fork(p)
    PROVE  IInv'
  <1>1. PICK c \in PIDs \ {1} :
          /\ parent[c] = 0
          /\ alive' = alive \cup {c}
          /\ parent' = [parent EXCEPT ![c] = p]
          /\ family' = IF p \in family THEN family \cup {c} ELSE family
    BY DEF Fork
  <1>2. UNCHANGED <<queue, phase, listed, unread, parents, tracked>> /\ p \in alive
    BY DEF Fork, walkVars
  <1>3. 0 \notin PIDs /\ 1 \in PIDs
    BY NFacts
  <1>4. TreeInv /\ PairsInv /\ WalkInv /\ ScopeInv
    BY DEF IInv
  <1>5. c \notin Used(parent) \cup {0} /\ Used(parent') = Used(parent) \cup {c} /\ p \in Used(parent)
    BY <1>1, <1>2, <1>3, <1>4 DEF TreeInv, Used
  <1>6. family \subseteq family' /\ family' \subseteq family \cup {c}
    BY <1>1
  <1>7. TreeInv'
    <2>1. parent' \in [PIDs -> PIDs \cup {0}] /\ parent'[1] = 0
      BY <1>1, <1>3, <1>4 DEF TreeInv
    <2>2. family' \subseteq PIDs /\ 1 \notin family' /\ Root \in family'
      BY <1>1, <1>4, <1>6 DEF TreeInv
    <2>3. alive' \subseteq Used(parent')
      BY <1>1, <1>4, <1>5 DEF TreeInv
    <2>4. \A q \in PIDs : parent'[q] \in Used(parent') \cup {0}
      BY <1>1, <1>4, <1>5 DEF TreeInv
    <2>5. ASSUME NEW q \in PIDs, parent'[q] \in family' PROVE q \in family'
      <3>1. CASE q = c
        <4>1. parent'[q] = p
          BY <1>1, <1>4, <3>1 DEF TreeInv
        <4>2. p # c
          BY <1>5
        <4> QED BY <1>1, <2>5, <3>1, <4>1, <4>2
      <3>2. CASE q # c
        <4>1. parent'[q] = parent[q] /\ parent[q] # c
          BY <1>1, <1>4, <1>5, <3>2 DEF TreeInv
        <4>2. parent[q] \in family
          BY <1>6, <2>5, <4>1
        <4> QED BY <1>4, <1>6, <4>2 DEF TreeInv, Closed
      <3> QED BY <3>1, <3>2
    <2>6. Closed(family', parent')
      BY <2>5 DEF Closed
    <2> QED BY <2>1, <2>2, <2>3, <2>4, <2>6 DEF TreeInv
  <1>8. PairsInv'
    <2>1. \A q \in PIDs : parents[q] \in Used(parent') \cup {0}
      BY <1>4, <1>5 DEF PairsInv
    <2>2. Closed(family', parents)
      BY <1>4, <1>5, <1>6 DEF PairsInv, Closed
    <2>3. \A i \in 1..Len(queue) : /\ queue[i].ppid \in Used(parent') \cup {0}
                                   /\ queue[i].ppid \in family' => queue[i].pid \in family'
      BY <1>4, <1>5, <1>6 DEF PairsInv
    <2> QED BY <1>2, <1>4, <2>1, <2>2, <2>3 DEF PairsInv
  <1>9. WalkInv'
    <2>1. listed \subseteq Used(parent')
      BY <1>4, <1>5 DEF WalkInv
    <2>2. ASSUME NEW q \in (listed \ unread) \cap alive' PROVE parent'[q] \in {parents[q], 1}
      <3>1. q # c
        BY <1>4, <1>5 DEF WalkInv
      <3>2. q \in (listed \ unread) \cap alive /\ q \in PIDs
        BY <1>1, <1>4, <3>1 DEF WalkInv, Used
      <3>3. parent'[q] = parent[q]
        BY <1>1, <1>4, <3>1, <3>2 DEF TreeInv
      <3> QED BY <1>4, <3>2, <3>3 DEF WalkInv
    <2> QED BY <1>2, <1>4, <2>1, <2>2 DEF WalkInv
  <1>10. ScopeInv'
    BY <1>2, <1>4, <1>6 DEF ScopeInv, Descendants
  <1> QED BY <1>7, <1>8, <1>9, <1>10 DEF IInv

LEMMA ExitKeeps ==
    ASSUME IInv, NEW p \in PIDs, Exit(p)
    PROVE  IInv'
  <1>1. /\ p \in alive \ {1} /\ alive' = alive \ {p}
        /\ parent' = [q \in PIDs |-> IF parent[q] = p THEN 1 ELSE parent[q]]
        /\ UNCHANGED <<family, queue, phase, listed, unread, parents, tracked>>
    BY DEF Exit, walkVars
  <1>2. 0 \notin PIDs /\ 1 \in PIDs
    BY NFacts
  <1>3. TreeInv /\ PairsInv /\ WalkInv /\ ScopeInv
    BY DEF IInv
  <1>4. \A q \in PIDs : parent'[q] = parent[q] \/ (parent[q] = p /\ parent'[q] = 1)
    BY <1>1
  <1>5. Used(parent') = Used(parent)
    BY <1>1, <1>2, <1>4 DEF Used
  <1>6. TreeInv'
    <2>1. parent' \in [PIDs -> PIDs \cup {0}] /\ parent'[1] = 0
      BY <1>1, <1>2, <1>3 DEF TreeInv
    <2>2. 1 \in Used(parent)
      BY <1>2 DEF Used
    <2>3. \A q \in PIDs : parent'[q] \in Used(parent') \cup {0}
      BY <1>3, <1>4, <1>5, <2>2 DEF TreeInv
    <2>4. Closed(family, parent')
      BY <1>3, <1>4 DEF TreeInv, Closed
    <2> QED BY <1>1, <1>3, <1>5, <2>1, <2>3, <2>4 DEF TreeInv
  <1>7. PairsInv'
    BY <1>1, <1>3, <1>5 DEF PairsInv
  <1>8. WalkInv'
    <2>1. \A q \in (listed \ unread) \cap alive' : parent'[q] \in {parents[q], 1}
      BY <1>1, <1>3, <1>4 DEF WalkInv, Used
    <2> QED BY <1>1, <1>3, <1>5, <2>1 DEF WalkInv
  <1>9. ScopeInv'
    BY <1>1, <1>3 DEF ScopeInv, Descendants
  <1> QED BY <1>6, <1>7, <1>8, <1>9 DEF IInv

LEMMA SyscallKeeps ==
    ASSUME IInv, NEW p \in PIDs, Syscall(p)
    PROVE  IInv'
  <1> DEFINE e == [pid |-> p, ppid |-> parent[p]]
  <1>1. /\ queue' = Append(queue, e)
        /\ UNCHANGED <<alive, parent, family, phase, listed, unread, parents, tracked>>
    BY DEF Syscall, kernelVars, walkVars
  <1>2. TreeInv /\ PairsInv /\ WalkInv /\ ScopeInv
    BY DEF IInv
  <1>3. e \in [pid : PIDs, ppid : PIDs \cup {0}]
    BY <1>2 DEF TreeInv
  <1>4. e.ppid \in Used(parent) \cup {0} /\ (e.ppid \in family => e.pid \in family)
    BY <1>2 DEF TreeInv, Closed
  <1> HIDE DEF e
  <1>5. queue \in Seq([pid : PIDs, ppid : PIDs \cup {0}])
    BY <1>2 DEF PairsInv
  <1>6. /\ queue' \in Seq([pid : PIDs, ppid : PIDs \cup {0}]) /\ Len(queue') = Len(queue) + 1
        /\ \A i \in 1..Len(queue') : queue'[i] = IF i = Len(queue) + 1 THEN e ELSE queue[i]
    BY <1>1, <1>3, <1>5
  <1>7. \A i \in 1..Len(queue') : i = Len(queue) + 1 \/ i \in 1..Len(queue)
    BY <1>5, <1>6
  <1>8. \A i \in 1..Len(queue') : /\ queue'[i].ppid \in Used(parent) \cup {0}
                                  /\ queue'[i].ppid \in family => queue'[i].pid \in family
    BY <1>2, <1>4, <1>6, <1>7 DEF PairsInv
  <1>9. PairsInv'
    BY <1>1, <1>2, <1>6, <1>8 DEF PairsInv
  <1>10. TreeInv' /\ WalkInv' /\ ScopeInv'
    BY <1>1, <1>2 DEF TreeInv, WalkInv, ScopeInv, Descendants
  <1> QED BY <1>9, <1>10 DEF IInv
\* The walk: what was listed has been used, and nothing is read twice.
LEMMA ReadDirKeeps ==
    ASSUME IInv, ReadDir
    PROVE  IInv'
  <1>1. /\ phase = "list" /\ phase' = "read" /\ listed' = alive /\ unread' = alive
        /\ UNCHANGED <<alive, parent, family, queue, parents, tracked>>
    BY DEF ReadDir, kernelVars
  <1>2. TreeInv /\ PairsInv /\ WalkInv /\ ScopeInv
    BY DEF IInv
  <1>3. TreeInv' /\ PairsInv'
    BY <1>1, <1>2 DEF TreeInv, PairsInv
  <1>4. WalkInv' /\ ScopeInv'
    BY <1>1, <1>2 DEF WalkInv, ScopeInv, TreeInv
  <1> QED BY <1>3, <1>4 DEF IInv

\* A process read now has the parent it has now.
LEMMA ReadKeeps ==
    ASSUME IInv, NEW p \in PIDs, readPPID(p)
    PROVE  IInv'
  <1>1. /\ phase = "read" /\ p \in unread /\ unread' = unread \ {p}
        /\ parents' = IF p \in alive THEN [parents EXCEPT ![p] = parent[p]] ELSE parents
        /\ UNCHANGED <<alive, parent, family, queue, phase, listed, tracked>>
    BY DEF readPPID, StatPPID, kernelVars
  <1>2. TreeInv /\ PairsInv /\ WalkInv /\ ScopeInv
    BY DEF IInv
  <1>3. /\ parents' \in [PIDs -> PIDs \cup {0}]
        /\ \A q \in PIDs : parents'[q] = parents[q] \/ (q = p /\ parents'[q] = parent[q])
        /\ p \in alive => parents'[p] = parent[p]
    BY <1>1, <1>2 DEF TreeInv, PairsInv
  <1>4. TreeInv'
    BY <1>1, <1>2 DEF TreeInv
  <1>5. PairsInv'
    <2>1. \A q \in PIDs : parents'[q] \in Used(parent) \cup {0}
      BY <1>2, <1>3 DEF TreeInv, PairsInv
    <2>2. Closed(family, parents')
      BY <1>2, <1>3 DEF TreeInv, PairsInv, Closed
    <2> QED BY <1>1, <1>2, <1>3, <2>1, <2>2 DEF PairsInv
  <1>6. WalkInv'
    <2>1. ASSUME NEW q \in (listed \ unread') \cap alive PROVE parent[q] \in {parents'[q], 1}
      <3>1. CASE q = p
        BY <1>3, <3>1
      <3>2. CASE q # p
        <4>1. q \in (listed \ unread) \cap alive /\ q \in PIDs
          BY <1>1, <1>2, <3>2 DEF WalkInv, Used
        <4>2. parents'[q] = parents[q]
          BY <1>3, <3>2, <4>1
        <4> QED BY <1>2, <4>1, <4>2 DEF WalkInv
      <3> QED BY <3>1, <3>2
    <2> QED BY <1>1, <1>2, <2>1 DEF WalkInv
  <1>7. ScopeInv'
    BY <1>1, <1>2 DEF ScopeInv
  <1> QED BY <1>4, <1>5, <1>6, <1>7 DEF IInv

\* The sweeps stay in the family, the family being closed under the map.
LEMMA SeedKeeps ==
    ASSUME IInv, Seed
    PROVE  IInv'
  <1>1. /\ phase = "read" /\ unread = {} /\ phase' = "run" /\ tracked' = Descendants(tracked, parents)
        /\ UNCHANGED <<alive, parent, family, queue, listed, unread, parents>>
    BY DEF Seed, Seeded, kernelVars
  <1>2. TreeInv /\ PairsInv /\ WalkInv /\ ScopeInv
    BY DEF IInv
  <1> DEFINE D == Descendants({Root}, parents)
  <1>3. tracked = {Root} /\ {Root} \in SUBSET PIDs /\ {Root} \subseteq family
    BY <1>1, <1>2 DEF ScopeInv, TreeInv
  <1>4. Closed(family, parents)
    BY <1>2 DEF PairsInv
  <1>5. /\ {Root} \subseteq D
        /\ \A T : {Root} \subseteq T /\ Closed(T, parents) => D \subseteq T
    BY <1>3, DescendantsLeast
  <1>6. tracked' = D /\ D' = D
    <2>1. tracked' = D
      BY <1>1, <1>3
    <2>2. D' = D
      BY <1>1 DEF Descendants
    <2> QED BY <2>1, <2>2
  <1> HIDE DEF D
  <1>7. D \subseteq family /\ Root \in D
    BY <1>3, <1>4, <1>5
  <1>8. (Descendants({Root}, parents))' \subseteq tracked'
    BY <1>6 DEF D
  <1>9. tracked' \subseteq family' /\ Root \in tracked' /\ phase' = "run"
    BY <1>1, <1>6, <1>7
  <1>10. ScopeInv'
    BY <1>8, <1>9 DEF ScopeInv
  <1>11. TreeInv' /\ PairsInv'
    BY <1>1, <1>2 DEF TreeInv, PairsInv
  <1>12. WalkInv'
    BY <1>1, <1>2 DEF WalkInv
  <1> QED BY <1>10, <1>11, <1>12 DEF IInv

\* An event that is let in by its parent is one of the family.
LEMMA AllowKeeps ==
    ASSUME IInv, Allow
    PROVE  IInv'
  <1> DEFINE e == Head(queue)
  <1>1. /\ phase = "run" /\ queue # <<>> /\ queue' = Tail(queue)
        /\ tracked' = IF e.pid \in tracked \/ e.ppid \in tracked THEN tracked \cup {e.pid} ELSE tracked
        /\ UNCHANGED <<alive, parent, family, phase, listed, unread, parents>>
    BY DEF Allow, InScope, kernelVars, walkVars
  <1>2. TreeInv /\ PairsInv /\ WalkInv /\ ScopeInv
    BY DEF IInv
  <1>3. queue \in Seq([pid : PIDs, ppid : PIDs \cup {0}])
    BY <1>2 DEF PairsInv
  <1>4. e = queue[1] /\ 1 \in 1..Len(queue)
    BY <1>1, <1>3
  <1> HIDE DEF e
  <1>5. e.ppid \in family => e.pid \in family
    BY <1>2, <1>4 DEF PairsInv
  <1>6. tracked \subseteq tracked' /\ tracked' \subseteq family
    BY <1>1, <1>2, <1>5 DEF ScopeInv
  <1>7. ScopeInv'
    BY <1>1, <1>2, <1>6 DEF ScopeInv, Descendants
  <1>8. /\ queue' \in Seq([pid : PIDs, ppid : PIDs \cup {0}])
        /\ \A i \in 1..Len(queue') : queue'[i] = queue[i + 1] /\ i + 1 \in 1..Len(queue)
    BY <1>1, <1>3
  <1>9. \A i \in 1..Len(queue') : /\ queue'[i].ppid \in Used(parent) \cup {0}
                                  /\ queue'[i].ppid \in family => queue'[i].pid \in family
    BY <1>2, <1>8 DEF PairsInv
  <1>10. PairsInv'
    BY <1>1, <1>2, <1>8, <1>9 DEF PairsInv
  <1>11. TreeInv' /\ WalkInv'
    BY <1>1, <1>2 DEF TreeInv, WalkInv
  <1> QED BY <1>7, <1>10, <1>11 DEF IInv

LEMMA IInvInductive == IInv /\ [Next]_vars => IInv'
  <1> SUFFICES ASSUME IInv, [Next]_vars PROVE IInv'
    OBVIOUS
  <1>1. ASSUME NEW p \in PIDs, Fork(p) \/ Exit(p) \/ Syscall(p) \/ readPPID(p) PROVE IInv'
    BY <1>1, ForkKeeps, ExitKeeps, SyscallKeeps, ReadKeeps
  <1>2. CASE ReadDir \/ Seed \/ Allow
    BY <1>2, ReadDirKeeps, SeedKeeps, AllowKeeps
  <1>3. CASE UNCHANGED vars
    BY <1>3 DEF IInv, TreeInv, PairsInv, WalkInv, ScopeInv, Descendants,
                vars, kernelVars, walkVars
  <1> QED BY <1>1, <1>2, <1>3 DEF Next

-----------------------------------------------------------------------------
(* The theorems. *)

\* In every state the process tree, the pairs of a process and its parent in
\* the map and in the queue, the walk and the scope are as the parts say.
THEOREM IInvHolds == Spec => []IInv
  BY InitIInv, IInvInductive, PTL DEF Spec

\* Whatever forks, exits and is reparented while seedFromProc reads /proc,
\* and however late its events reach Allow, a process in scope descends from
\* the root.
THEOREM OnlyDescendants == Spec => []ScopeSound
  <1>1. IInv => ScopeSound
    BY DEF IInv, ScopeInv, ScopeSound
  <1> QED BY <1>1, IInvHolds, PTL

\* The set the walk found is closed under what is left of the tree it
\* listed: a process that is still there has the parent it was read with, or
\* was handed to init, which the walk did not track.
LEMMA WalkFindsSurvivors ==
    ASSUME IInv
    PROVE  SeedComplete
  <1> SUFFICES ASSUME phase = "run", listed # {}
               PROVE  Descendants({Root} \cap listed \cap alive,
                                  [q \in PIDs |-> IF q \in listed \cap alive THEN parent[q] ELSE 0])
                        \subseteq tracked
    BY DEF SeedComplete
  <1> DEFINE S == {Root} \cap listed \cap alive
             left == [q \in PIDs |-> IF q \in listed \cap alive THEN parent[q] ELSE 0]
             D == Descendants({Root}, parents)
  <1>1. TreeInv /\ PairsInv /\ WalkInv /\ ScopeInv
    BY DEF IInv
  <1>2. {Root} \in SUBSET PIDs /\ S \in SUBSET PIDs /\ 0 \notin PIDs
    BY <1>1, NFacts DEF TreeInv
  <1>3. {Root} \subseteq D /\ D \subseteq PIDs /\ Closed(D, parents)
    BY <1>2, DescendantsLeast
  <1>4. D \subseteq tracked /\ 1 \notin D
    BY <1>1 DEF TreeInv, ScopeInv
  <1> HIDE DEF D
  <1>5. Closed(D, left)
    <2> SUFFICES ASSUME NEW q \in PIDs, left[q] \in D PROVE q \in D
      BY DEF Closed
    <2>1. q \in listed \cap alive /\ left[q] = parent[q]
      BY <1>2, <1>3
    <2>2. parent[q] \in {parents[q], 1}
      BY <1>1, <2>1 DEF WalkInv
    <2>3. parents[q] \in D
      BY <1>4, <2>1, <2>2
    <2> QED BY <1>3, <2>3 DEF Closed
  <1>6. S \subseteq D
    BY <1>3
  <1> HIDE DEF S, left
  <1>7. \A T : S \subseteq T /\ Closed(T, left) => Descendants(S, left) \subseteq T
    BY <1>2, DescendantsLeast
  <1>8. Descendants(S, left) \subseteq tracked
    BY <1>4, <1>5, <1>6, <1>7
  <1> QED BY <1>8 DEF S, left

\* A process that seedFromProc listed and that is still there, below a root
\* and ancestors of which that is true as well, is in scope from the end of
\* the walk on, whatever forked and exited in between.
THEOREM WalkIsComplete == Spec => []SeedComplete
  BY WalkFindsSurvivors, IInvHolds, PTL
=============================================================================
