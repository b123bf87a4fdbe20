-------------------------- MODULE ChainRuleProofs --------------------------
(***************************************************************************)
(* Proofs about the process tracker (Tracker), the chain search of the     *)
(* reverse-shell rule (RevShell), and the two put together under processes *)
(* that open, dial and redirect (ChainRule): for every set of processes,   *)
(* every set of calls, every history and every value of the bounds.        *)
(***************************************************************************)
EXTENDS ChainRule, FiniteSetTheorems, SequenceTheorems, WellFoundedInduction, TLAPS

-----------------------------------------------------------------------------
(* Tracker.                                                                *)
(*                                                                         *)
(* None of the invariants is inductive alone.  NoStaleHistory needs to     *)
(* know where lastSweep stands between the histories (SweptRecently),      *)
(* which needs lastSeen never to be ahead of the clock (SeenByNow);        *)
(* OrderedUpToSkew needs that of every entry (StampedByNow).               *)
(* WindowFaithful needs a history to be the end of the log of all calls,   *)
(* with nothing before it that a rule could still see (LogInv).            *)

\* Every remembered process was alive within the TTL of the last sweep, and
\* was last seen at most one interval (and the skew) after it.
SweptRecently ==
    \A p \in procs : /\ lastSweep - lastSeen[p] <= TTL
                     /\ lastSeen[p] - lastSweep <= SweepEvery + Skew

SeenByNow == \A p \in PIDs : lastSeen[p] <= now

StampedByNow ==
    \A p \in PIDs : \A i \in 1..Len(entries[p]) : entries[p][i].ts <= now

IInv ==
    /\ TypeOK
    /\ Bounded
    /\ SweptRecently
    /\ SeenByNow
    /\ StampedByNow
    /\ OrderedUpToSkew

-----------------------------------------------------------------------------
\* Trim keeps the newest entries: its result is the history shifted by the
\* number of entries dropped, and fits the depth.
LEMMA TrimKeepsNewest ==
    ASSUME NEW S, NEW h \in Seq(S)
    PROVE  /\ Trim(h) \in Seq(S)
           /\ Len(Trim(h)) <= Depth
           /\ \E d \in Nat : /\ Len(Trim(h)) + d = Len(h)
                             /\ \A i \in 1..Len(Trim(h)) : Trim(h)[i] = h[i + d]
<1>1. CASE Len(h) > Depth
  <2>1. Len(h) \in Nat /\ Len(h) - Depth + 1 \in 1..Len(h)
    BY <1>1, BoundsAssumption
  <2>2. Trim(h) = SubSeq(h, Len(h) - Depth + 1, Len(h))
    BY <1>1 DEF Trim
  <2>3. /\ Trim(h) \in Seq(S)
        /\ Len(Trim(h)) = Depth
        /\ \A i \in 1..Depth : Trim(h)[i] = h[i + (Len(h) - Depth)]
    BY <2>1, <2>2, BoundsAssumption
  <2>4. Len(h) - Depth \in Nat /\ Depth + (Len(h) - Depth) = Len(h)
    BY <1>1, <2>1, BoundsAssumption
  <2>5. \E d \in Nat : /\ Len(Trim(h)) + d = Len(h)
                      /\ \A i \in 1..Len(Trim(h)) : Trim(h)[i] = h[i + d]
    BY <2>3, <2>4, Zenon
  <2> QED BY <2>3, <2>5, BoundsAssumption
<1>2. CASE ~(Len(h) > Depth)
  <2>1. Trim(h) = h /\ Len(h) \in Nat /\ Len(h) <= Depth
    BY <1>2, BoundsAssumption DEF Trim
  <2>2. Len(h) + 0 = Len(h) /\ \A i \in 1..Len(h) : h[i] = h[i + 0]
    BY <2>1
  <2> QED BY <2>1, <2>2
<1> QED BY <1>1, <1>2

\* What survives maybeSweep was there before and leaves room for one more:
\* the insertion that follows cannot exceed the ceiling.
LEMMA SurvivorsFit ==
    ASSUME procs \subseteq PIDs, NEW t
    PROVE  /\ Survivors(t) \subseteq procs
           /\ IsFiniteSet(Survivors(t))
           /\ Cardinality(Survivors(t)) < MaxProcesses
<1>1. /\ Survivors(t) \subseteq procs
      /\ IsFiniteSet(procs)
      /\ IsFiniteSet(Survivors(t))
  BY FS_Subset, BoundsAssumption DEF Survivors, Unexpired
<1>2. Cardinality(Survivors(t)) \in Nat
  BY <1>1, FS_CardinalityType
<1>3. Survivors(t) = {} \/ ~OverCapacity(Survivors(t))
  BY DEF Survivors, SweepDue
<1>4. Cardinality({}) = 0
  BY FS_EmptySet
<1> QED BY <1>1, <1>2, <1>3, <1>4, BoundsAssumption DEF OverCapacity

-----------------------------------------------------------------------------
THEOREM InitIInv == Init => IInv
<1> SUFFICES ASSUME Init PROVE IInv
  OBVIOUS
<1>1. TypeOK
  <2>1. <<>> \in Seq(Entry)
    OBVIOUS
  <2> QED BY <2>1, ClockAssumption DEF Init, TypeOK
<1>2. \A p \in PIDs : Len(entries[p]) = 0
  BY DEF Init
<1>3. Cardinality(procs) = 0
  BY FS_EmptySet DEF Init
<1>4. Bounded
  BY <1>2, <1>3, BoundsAssumption DEF Bounded
<1>5. SweptRecently /\ SeenByNow
  BY DEF Init, SweptRecently, SeenByNow
<1>6. StampedByNow /\ OrderedUpToSkew
  BY <1>2 DEF StampedByNow, OrderedUpToSkew
<1> QED BY <1>1, <1>4, <1>5, <1>6 DEF IInv

\* Record of a tracked syscall preserves the invariant.
LEMMA RecordTrackedIInv ==
    ASSUME IInv, NEW p \in PIDs, NEW c \in Calls, NEW t \in Times,
           t + Skew >= now, now' = IF t > now THEN t ELSE now,
           RecordTracked(p, c, t)
    PROVE  IInv'
<1> DEFINE kept == Survivors(t)
           old  == [q \in PIDs |-> IF q \in kept THEN entries[q] ELSE <<>>]
           seen == [q \in PIDs |-> IF q \in kept THEN lastSeen[q] ELSE 0]
           e    == [call |-> c, ts |-> t]
           base == IF ClearedAtCapacity(t) THEN [q \in PIDs |-> <<>>] ELSE log
           full == Append(base[p], e)
           ext  == Append(old[p], e)
<1>1. /\ procs' = kept \cup {p}
      /\ entries' = [old EXCEPT ![p] = Trim(ext)]
      /\ lastSeen' = [seen EXCEPT ![p] = t]
      /\ lastSweep' = SweepStamp(t)
      /\ log' = [base EXCEPT ![p] = IF Len(full) <= Depth THEN full ELSE Tail(full)]
  BY DEF RecordTracked
<1>2. TypeOK /\ Bounded /\ SweptRecently /\ SeenByNow /\ StampedByNow /\ OrderedUpToSkew
  BY DEF IInv
<1>3. /\ kept \subseteq procs /\ IsFiniteSet(kept)
      /\ Cardinality(kept) < MaxProcesses /\ Cardinality(kept) \in Nat
  BY <1>2, SurvivorsFit, FS_CardinalityType DEF TypeOK
<1>4. e \in Entry /\ e.ts = t
  BY DEF Entry
<1>5. /\ t \in Nat /\ t >= 1 /\ t <= MaxTime
      /\ now \in Nat /\ now <= MaxTime
      /\ now' \in Nat /\ now' <= MaxTime
      /\ now' >= now /\ now' >= t /\ t + Skew >= now'
      /\ lastSweep \in Nat /\ lastSweep <= MaxTime
  BY <1>2, ClockAssumption DEF TypeOK, Times
<1>6. old \in [PIDs -> Seq(Entry)] /\ seen \in [PIDs -> 0..MaxTime]
  <2>1. <<>> \in Seq(Entry) /\ 0 \in 0..MaxTime
    BY ClockAssumption
  <2> QED BY <1>2, <2>1 DEF TypeOK
<1>7. old[p] \in Seq(Entry) /\ ext \in Seq(Entry) /\ Len(ext) = Len(old[p]) + 1
  BY <1>4, <1>6, AppendProperties
<1>8. PICK d \in Nat : /\ Trim(ext) \in Seq(Entry)
                       /\ Len(Trim(ext)) <= Depth
                       /\ Len(Trim(ext)) + d = Len(ext)
                       /\ \A i \in 1..Len(Trim(ext)) : Trim(ext)[i] = ext[i + d]
  BY <1>7, TrimKeepsNewest, ZenonT(40)
<1>9. TypeOK'
  <2>1. base \in [PIDs -> Seq(Entry)]
    <3>1. <<>> \in Seq(Entry)
      OBVIOUS
    <3> QED BY <1>2, <3>1 DEF TypeOK
  <2>2. full \in Seq(Entry) /\ full # <<>>
    <3>1. base[p] \in Seq(Entry)
      BY <2>1
    <3> HIDE DEF base, e
    <3> QED BY <1>4, <3>1, AppendProperties
  <2>3. Tail(full) \in Seq(Entry)
    BY <2>2, HeadTailProperties
  <2>4. log' \in [PIDs -> Seq(Entry)]
    BY <1>1, <2>1, <2>2, <2>3
  <2>5. lastSweep' \in 0..MaxTime /\ now' \in 0..MaxTime
    BY <1>1, <1>5 DEF SweepStamp
  <2>6. lastSeen' \in [PIDs -> 0..MaxTime]
    BY <1>1, <1>5, <1>6
  <2>7. entries' \in [PIDs -> Seq(Entry)]
    BY <1>1, <1>6, <1>8
  <2>8. procs' \subseteq PIDs
    BY <1>1, <1>2, <1>3 DEF TypeOK
  <2> QED BY <2>4, <2>5, <2>6, <2>7, <2>8 DEF TypeOK
<1>10. Bounded'
  <2>1. Cardinality(procs') <= MaxProcesses
    <3>1. Cardinality(kept \cup {p}) =
              IF p \in kept THEN Cardinality(kept) ELSE Cardinality(kept) + 1
      BY <1>3, FS_AddElement
    <3>2. IsFiniteSet(kept \cup {p}) /\ Cardinality(kept \cup {p}) \in Nat
      BY <1>3, FS_AddElement, FS_CardinalityType
    <3> QED BY <1>1, <1>3, <3>1, <3>2, BoundsAssumption
  <2>2. ASSUME NEW q \in PIDs PROVE Len(entries'[q]) <= Depth
    <3>1. CASE q = p
      BY <1>1, <1>6, <1>8, <3>1
    <3>2. CASE q # p /\ q \in kept
      BY <1>1, <1>2, <1>6, <3>2 DEF Bounded
    <3>3. CASE q # p /\ q \notin kept
      <4>1. entries'[q] = <<>>
        BY <1>1, <1>6, <3>3
      <4> QED BY <4>1, BoundsAssumption
    <3> QED BY <3>1, <3>2, <3>3
  <2> QED BY <2>1, <2>2 DEF Bounded
<1>11. SweptRecently'
  <2> SUFFICES ASSUME NEW q \in procs'
               PROVE  /\ lastSweep' - lastSeen'[q] <= TTL
                      /\ lastSeen'[q] - lastSweep' <= SweepEvery + Skew
    BY DEF SweptRecently
  <2>0. q \in PIDs /\ (q # p => q \in kept /\ q \in procs /\ lastSeen'[q] = lastSeen[q])
        /\ (q = p => lastSeen'[q] = t)
    BY <1>1, <1>2, <1>3, <1>6 DEF TypeOK
  <2>1. lastSeen[q] \in Nat /\ lastSeen[q] <= now
    BY <1>2, <2>0 DEF TypeOK, SeenByNow
  <2>2. CASE SweepDue(t)
    <3>1. lastSweep' = t
      BY <1>1, <2>2 DEF SweepStamp
    <3>2. CASE q = p
      BY <1>5, <2>0, <3>1, <3>2, BoundsAssumption, ClockAssumption
    <3>3. CASE q # p
      <4>1. q \in Unexpired(t)
        BY <2>0, <2>2, <3>3 DEF Survivors
      <4>2. ~(t > lastSeen[q] /\ t - lastSeen[q] > TTL)
        BY <4>1 DEF Unexpired, Expired
      <4> QED BY <1>5, <2>0, <2>1, <3>1, <3>3, <4>2, BoundsAssumption, ClockAssumption
    <3> QED BY <3>2, <3>3
  <2>3. CASE ~SweepDue(t)
    <3>1. lastSweep' = lastSweep
      BY <1>1, <2>3 DEF SweepStamp
    <3>2. t >= lastSweep /\ t - lastSweep < SweepEvery
      BY <1>5, <2>3, BoundsAssumption, ClockAssumption DEF SweepDue, Sub64
    <3>3. CASE q = p
      BY <1>5, <2>0, <3>1, <3>2, <3>3, BoundsAssumption, ClockAssumption
    <3>4. CASE q # p
      BY <1>2, <2>0, <3>1, <3>4 DEF SweptRecently
    <3> QED BY <3>3, <3>4
  <2> QED BY <2>2, <2>3
<1>12. SeenByNow'
  <2> SUFFICES ASSUME NEW q \in PIDs PROVE lastSeen'[q] <= now'
    BY DEF SeenByNow
  <2>1. lastSeen[q] \in Nat /\ lastSeen[q] <= now
    BY <1>2 DEF TypeOK, SeenByNow
  <2>2. lastSeen'[q] \in {t, lastSeen[q], 0}
    BY <1>1, <1>6
  <2> QED BY <1>5, <2>1, <2>2
\* The stamps of the extended history, the source of the last two.
<1>13. \A i \in 1..Len(ext) :
          /\ ext[i].ts \in Nat /\ ext[i].ts <= now'
          /\ i < Len(ext) => ext[i].ts <= now
          /\ i = Len(ext) => ext[i].ts = t
  <2> SUFFICES ASSUME NEW i \in 1..Len(ext)
               PROVE  /\ ext[i].ts \in Nat /\ ext[i].ts <= now'
                      /\ i < Len(ext) => ext[i].ts <= now
                      /\ i = Len(ext) => ext[i].ts = t
    OBVIOUS
  <2>1. CASE i = Len(ext)
    BY <1>4, <1>5, <1>7, <2>1, AppendProperties
  <2>2. CASE i # Len(ext)
    <3>1. i \in 1..Len(old[p]) /\ ext[i] = old[p][i]
      BY <1>4, <1>7, <2>2, AppendProperties
    <3>2. p \in kept /\ old[p] = entries[p]
      BY <3>1
    <3>3. entries[p][i] \in Entry /\ entries[p][i].ts <= now
      BY <1>2, <3>1, <3>2, ElementOfSeq DEF TypeOK, StampedByNow
    <3>4. entries[p][i].ts \in Nat
      BY <3>3 DEF Entry, Times
    <3> QED BY <1>5, <2>2, <3>1, <3>2, <3>3, <3>4
  <2> QED BY <2>1, <2>2
<1>14. \A i, j \in 1..Len(ext) : i < j => ext[i].ts <= ext[j].ts + Skew
  <2> SUFFICES ASSUME NEW i \in 1..Len(ext), NEW j \in 1..Len(ext), i < j
               PROVE  ext[i].ts <= ext[j].ts + Skew
    OBVIOUS
  <2>1. CASE j = Len(ext)
    BY <1>5, <1>13, <2>1, ClockAssumption
  <2>2. CASE j # Len(ext)
    <3>1. /\ i \in 1..Len(old[p]) /\ j \in 1..Len(old[p])
          /\ ext[i] = old[p][i] /\ ext[j] = old[p][j]
      BY <1>4, <1>7, <2>2, AppendProperties
    <3>2. old[p] = entries[p]
      BY <3>1
    <3> QED BY <1>2, <3>1, <3>2 DEF OrderedUpToSkew
  <2> QED BY <2>1, <2>2
<1>15. StampedByNow'
  <2> SUFFICES ASSUME NEW q \in PIDs, NEW i \in 1..Len(entries'[q])
               PROVE  entries'[q][i].ts <= now'
    BY DEF StampedByNow
  <2>1. CASE q = p
    <3>1. entries'[q] = Trim(ext)
      BY <1>1, <1>6, <2>1
    <3>2. i + d \in 1..Len(ext) /\ entries'[q][i] = ext[i + d]
      BY <1>7, <1>8, <3>1
    <3> QED BY <1>13, <3>2
  <2>2. CASE q # p
    <3>1. entries'[q] = entries[q]
      BY <1>1, <1>6, <2>2
    <3>2. entries[q][i] \in Entry /\ entries[q][i].ts <= now
      BY <1>2, <3>1, ElementOfSeq DEF TypeOK, StampedByNow
    <3>3. entries[q][i].ts \in Nat
      BY <3>2 DEF Entry, Times
    <3> QED BY <1>5, <3>1, <3>2, <3>3
  <2> QED BY <2>1, <2>2
<1>16. OrderedUpToSkew'
  <2> SUFFICES ASSUME NEW q \in PIDs,
                      NEW i \in 1..Len(entries'[q]), NEW j \in 1..Len(entries'[q]),
                      i < j
               PROVE  entries'[q][i].ts <= entries'[q][j].ts + Skew
    BY DEF OrderedUpToSkew
  <2>1. CASE q = p
    <3>1. entries'[q] = Trim(ext)
      BY <1>1, <1>6, <2>1
    <3>2. \A k \in 1..Len(Trim(ext)) : k + d \in 1..Len(ext) /\ Trim(ext)[k] = ext[k + d]
      BY <1>7, <1>8, SMTT(40)
    <3>3. i + d < j + d
      OBVIOUS
    <3> HIDE DEF ext
    <3> QED BY <1>14, <3>1, <3>2, <3>3
  <2>2. CASE q # p
    <3>1. entries'[q] = entries[q]
      BY <1>1, <1>6, <2>2
    <3> QED BY <1>2, <3>1 DEF OrderedUpToSkew
  <2> QED BY <2>1, <2>2
<1> QED BY <1>9, <1>10, <1>11, <1>12, <1>15, <1>16 DEF IInv

\* Forget preserves the invariant.
LEMMA ForgetIInv ==
    ASSUME IInv, NEW p \in PIDs, Forget(p)
    PROVE  IInv'
<1>1. /\ procs' = procs \ {p}
      /\ entries' = [entries EXCEPT ![p] = <<>>]
      /\ lastSeen' = [lastSeen EXCEPT ![p] = 0]
      /\ log' = [log EXCEPT ![p] = <<>>]
      /\ lastSweep' = lastSweep /\ now' = now
  BY DEF Forget
<1>2. TypeOK /\ Bounded /\ SweptRecently /\ SeenByNow /\ StampedByNow /\ OrderedUpToSkew
  BY DEF IInv
<1>3. TypeOK'
  <2>1. <<>> \in Seq(Entry) /\ 0 \in 0..MaxTime
    BY ClockAssumption
  <2> QED BY <1>1, <1>2, <2>1 DEF TypeOK
<1>4. \A q \in PIDs : entries'[q] = IF q = p THEN <<>> ELSE entries[q]
  BY <1>1, <1>2 DEF TypeOK
<1>5. \A q \in PIDs : lastSeen'[q] = IF q = p THEN 0 ELSE lastSeen[q]
  BY <1>1, <1>2 DEF TypeOK
<1>6. Bounded'
  <2>1. IsFiniteSet(procs) /\ Cardinality(procs) \in Nat
    BY <1>2, FS_Subset, FS_CardinalityType, BoundsAssumption DEF TypeOK
  <2>2. Cardinality(procs \ {p}) =
            IF p \in procs THEN Cardinality(procs) - 1 ELSE Cardinality(procs)
    BY <2>1, FS_RemoveElement
  <2>3. Cardinality(procs') <= MaxProcesses
    BY <1>1, <1>2, <2>1, <2>2, BoundsAssumption DEF Bounded
  <2>4. \A q \in PIDs : Len(entries'[q]) <= Depth
    BY <1>2, <1>4, BoundsAssumption DEF Bounded
  <2> QED BY <2>3, <2>4 DEF Bounded
<1>7. SweptRecently'
  BY <1>1, <1>2, <1>5 DEF SweptRecently, TypeOK
<1>8. SeenByNow'
  BY <1>1, <1>2, <1>5 DEF SeenByNow, TypeOK
<1>9. StampedByNow'
  BY <1>1, <1>2, <1>4 DEF StampedByNow
<1>10. OrderedUpToSkew'
  BY <1>2, <1>4 DEF OrderedUpToSkew
<1> QED BY <1>3, <1>6, <1>7, <1>8, <1>9, <1>10 DEF IInv

\* Record of any other syscall moves only the clock.
LEMMA RecordUntrackedIInv ==
    ASSUME IInv, NEW t \in Times,
           now' = IF t > now THEN t ELSE now,
           UNCHANGED <<trackerVars, log>>
    PROVE  IInv'
<1>1. /\ procs' = procs /\ entries' = entries /\ lastSeen' = lastSeen
      /\ lastSweep' = lastSweep /\ log' = log
  BY DEF trackerVars
<1>2. TypeOK /\ Bounded /\ SweptRecently /\ SeenByNow /\ StampedByNow /\ OrderedUpToSkew
  BY DEF IInv
<1>3. now \in Nat /\ now' \in 0..MaxTime /\ now' >= now
  BY <1>2, ClockAssumption DEF TypeOK, Times
<1>4. TypeOK' /\ Bounded' /\ SweptRecently' /\ OrderedUpToSkew'
  BY <1>1, <1>2, <1>3 DEF TypeOK, Bounded, SweptRecently, OrderedUpToSkew
<1>5. SeenByNow'
  BY <1>1, <1>2, <1>3 DEF TypeOK, SeenByNow
<1>6. StampedByNow'
  <2> SUFFICES ASSUME NEW q \in PIDs, NEW i \in 1..Len(entries[q])
               PROVE  entries[q][i].ts <= now'
    BY <1>1 DEF StampedByNow
  <2>1. entries[q][i] \in Entry /\ entries[q][i].ts <= now
    BY <1>2, ElementOfSeq DEF TypeOK, StampedByNow
  <2>2. entries[q][i].ts \in Nat
    BY <2>1 DEF Entry, Times
  <2> QED BY <1>3, <2>1, <2>2
<1> QED BY <1>4, <1>5, <1>6 DEF IInv

\* Record and Forget keep the inductive invariant.
THEOREM NextIInv == IInv /\ [Next]_vars => IInv'
<1> SUFFICES ASSUME IInv, [Next]_vars PROVE IInv'
  OBVIOUS
<1>1. ASSUME NEW p \in PIDs, NEW c \in Calls, NEW t \in Times, Record(p, c, t)
      PROVE  IInv'
  <2>1. /\ t + Skew >= now /\ now' = IF t > now THEN t ELSE now
        /\ RecordUntracked(p, c, t) \/ RecordTracked(p, c, t)
    BY <1>1 DEF Record
  <2>2. CASE RecordUntracked(p, c, t)
    BY <2>1, <2>2, RecordUntrackedIInv DEF RecordUntracked
  <2>3. CASE RecordTracked(p, c, t)
    BY <2>1, <2>3, RecordTrackedIInv
  <2> QED BY <2>1, <2>2, <2>3
<1>2. ASSUME NEW p \in PIDs, Forget(p) PROVE IInv'
  BY <1>2, ForgetIInv
<1>3. CASE UNCHANGED vars
  BY <1>3 DEF vars, trackerVars, IInv, TypeOK, Bounded, SweptRecently, SeenByNow,
              StampedByNow, OrderedUpToSkew
<1> QED BY <1>1, <1>2, <1>3 DEF Next

\* The inductive invariant of the tracker holds in every state.
THEOREM InvariantHolds == Spec => []IInv
BY InitIInv, NextIInv, PTL DEF Spec

-----------------------------------------------------------------------------
\* The state of the tracker always has its type.
THEOREM TypeCorrect == Spec => []TypeOK
<1>1. IInv => TypeOK
  BY DEF IInv
<1> QED BY <1>1, InvariantHolds, PTL

\* Memory is bounded in both directions, whatever the traffic and the clock:
\* Record never holds more than maxProcesses histories of depth entries.
THEOREM MemoryBounded == Spec => []Bounded
<1>1. IInv => Bounded
  BY DEF IInv
<1> QED BY <1>1, InvariantHolds, PTL

\* Without a timer, sweeping on the event path alone keeps every history
\* within the TTL and one sweep interval of the newest.
THEOREM StaleHistoriesGo == Spec => []NoStaleHistory
<1>1. IInv => NoStaleHistory
  <2> SUFFICES ASSUME IInv, NEW p \in procs, NEW q \in procs
               PROVE  lastSeen[q] - lastSeen[p] <= TTL + SweepEvery + Skew
    BY DEF NoStaleHistory
  <2>1. /\ lastSweep - lastSeen[p] <= TTL
        /\ lastSeen[q] - lastSweep <= SweepEvery + Skew
    BY DEF IInv, SweptRecently
  <2>2. lastSweep \in Int /\ lastSeen[p] \in Int /\ lastSeen[q] \in Int
    BY DEF IInv, TypeOK
  <2> QED BY <2>1, <2>2, BoundsAssumption, ClockAssumption
<1> QED BY <1>1, InvariantHolds, PTL

\* Each history is ordered in time up to the skew of the stamps.
THEOREM HistoriesOrdered == Spec => []OrderedUpToSkew
<1>1. IInv => OrderedUpToSkew
  BY DEF IInv
<1> QED BY <1>1, InvariantHolds, PTL

\* Consequence for Within when the stamps arrive in order (Skew = 0): the
\* entries it leaves out are exactly the ones that are too old, so stopping
\* at the first of them loses nothing.
WithinMissesNothing ==
    \A p \in PIDs : \A t \in Times : \A s \in 0..Len(entries[p]) :
        IsWithinStart(entries[p], t, s) =>
            \A i \in 1..Len(entries[p]) : entries[p][i].ts >= Cutoff(t) <=> i > s

\* With stamps in order, Within returns all the history of its window.
THEOREM WithinExact == (Skew = 0) /\ Spec => []WithinMissesNothing
<1>1. ASSUME Skew = 0, IInv PROVE WithinMissesNothing
  <2> SUFFICES ASSUME NEW p \in PIDs, NEW t \in Times, NEW s \in 0..Len(entries[p]),
                      IsWithinStart(entries[p], t, s),
                      NEW i \in 1..Len(entries[p])
               PROVE  entries[p][i].ts >= Cutoff(t) <=> i > s
    BY DEF WithinMissesNothing
  <2>0. /\ entries[p] \in Seq(Entry) /\ Len(entries[p]) \in Nat
        /\ \A k \in 1..Len(entries[p]) : entries[p][k].ts \in Nat
    <3>1. entries[p] \in Seq(Entry)
      BY <1>1 DEF IInv, TypeOK
    <3>2. \A k \in 1..Len(entries[p]) : entries[p][k] \in Entry
      BY <3>1, ElementOfSeq
    <3> QED BY <3>1, <3>2 DEF Entry, Times
  <2>1. Cutoff(t) \in Nat
    BY BoundsAssumption DEF Cutoff, Times
  <2>2. CASE i > s
    BY <2>0, <2>2 DEF IsWithinStart
  <2>3. CASE ~(i > s)
    <3>1. s > 0 /\ s \in 1..Len(entries[p]) /\ entries[p][s].ts < Cutoff(t)
      BY <2>0, <2>3 DEF IsWithinStart
    <3>2. entries[p][i].ts <= entries[p][s].ts
      BY <1>1, <2>0, <2>3, <3>1 DEF IInv, OrderedUpToSkew
    <3> QED BY <2>0, <2>1, <2>3, <3>1, <3>2
  <2> QED BY <2>2, <2>3
<1>2. (Skew = 0) /\ []IInv => []WithinMissesNothing
  <2>1. CASE Skew = 0
    <3>1. IInv => WithinMissesNothing
      BY <1>1, <2>1
    <3> QED BY <3>1, PTL
  <2>2. CASE Skew # 0
    BY <2>2
  <2> QED BY <2>1, <2>2
<1> QED BY <1>2, InvariantHolds, PTL
-----------------------------------------------------------------------------
(* What a rule is shown.                                                   *)

\* The history h is the end of the log l, and what precedes it there was
\* already too old, but for the skew, for a sweep at time t.
EndsLog(h, l, t) ==
    /\ Len(h) <= Len(l) /\ Len(l) <= Depth
    /\ \A i \in 1..Len(h) : h[i] = l[(Len(l) - Len(h)) + i]
    /\ \A i \in 1..(Len(l) - Len(h)) : l[i].ts + TTL < t + Skew

\* Every history ends its log, lastSeen is its latest stamp up to the skew,
\* and a process that is not a key has none.
LogInv ==
    \A p \in PIDs :
        /\ EndsLog(entries[p], log[p], now)
        /\ \A i \in 1..Len(entries[p]) : entries[p][i].ts <= lastSeen[p] + Skew
        /\ p \notin procs => entries[p] = <<>>

\* The log shifts like the trimmed history.
Shifted(l, e) ==
    LET full == Append(l, e) IN IF Len(full) <= Depth THEN full ELSE Tail(full)

\* Append and Trim take a history that ends its log to one that does: the
\* log gives up a call that the history holds only when Trim drops it too.
LEMMA TrimFollowsLog ==
    ASSUME NEW h \in Seq(Entry), NEW l \in Seq(Entry), NEW e \in Entry, NEW t,
           EndsLog(h, l, t)
    PROVE  EndsLog(Trim(Append(h, e)), Shifted(l, e), t)
<1> DEFINE ext  == Append(h, e)
           full == Append(l, e)
<1>1. /\ ext \in Seq(Entry) /\ Len(ext) = Len(h) + 1
      /\ \A i \in 1..Len(h) : ext[i] = h[i]
      /\ ext[Len(h) + 1] = e
  BY AppendProperties
<1>2. /\ full \in Seq(Entry) /\ Len(full) = Len(l) + 1
      /\ \A i \in 1..Len(l) : full[i] = l[i]
      /\ full[Len(l) + 1] = e
  BY AppendProperties
<1>3. Len(h) \in Nat /\ Len(l) \in Nat /\ Depth \in Nat \ {0} /\ Len(h) <= Len(l) /\ Len(l) <= Depth
  BY BoundsAssumption DEF EndsLog
<1> HIDE DEF ext, full
<1>4. \A i \in 1..Len(ext) : ext[i] = full[(Len(l) - Len(h)) + i]
  <2> TAKE i \in 1..Len(ext)
  <2>1. CASE i = Len(h) + 1
    <3>1. (Len(l) - Len(h)) + i = Len(l) + 1
      BY <1>3, <2>1
    <3> QED BY <1>1, <1>2, <2>1, <3>1
  <2>2. CASE i # Len(h) + 1
    <3>1. i \in 1..Len(h) /\ (Len(l) - Len(h)) + i \in 1..Len(l)
      BY <1>1, <1>3, <2>2
    <3> QED BY <1>1, <1>2, <3>1 DEF EndsLog
  <2> QED BY <2>1, <2>2
<1>5. \A i \in 1..(Len(l) - Len(h)) : full[i].ts + TTL < t + Skew
  <2> TAKE i \in 1..(Len(l) - Len(h))
  <2>1. i \in 1..Len(l) /\ l[i].ts + TTL < t + Skew
    BY <1>3 DEF EndsLog
  <2>2. full[i] = l[i]
    BY <1>2, <2>1
  <2> QED BY <2>1, <2>2
<1>6. CASE Len(l) < Depth
  <2>1. Trim(ext) = ext /\ Shifted(l, e) = full
    BY <1>1, <1>2, <1>3, <1>6 DEF Trim, Shifted, full
  <2>2. Len(full) - Len(ext) = Len(l) - Len(h) /\ Len(ext) <= Len(full) /\ Len(full) <= Depth
    BY <1>1, <1>2, <1>3, <1>6
  <2>3. EndsLog(ext, full, t)
    BY <1>4, <1>5, <2>2 DEF EndsLog
  <2> QED BY <2>1, <2>3 DEF ext
<1>7. CASE Len(l) = Depth
  <2> DEFINE rest == Tail(full)
  <2>1. Shifted(l, e) = rest
    BY <1>2, <1>3, <1>7 DEF Shifted, full
  <2>2. Len(rest) = Depth /\ \A i \in 1..Depth : rest[i] = full[i + 1]
    BY <1>2, <1>3, <1>7
  <2> HIDE DEF rest
  <2>3. CASE Len(h) = Depth
    <3> DEFINE cut == SubSeq(ext, 2, Depth + 1)
    <3>1. Trim(ext) = cut
      <4>1. Len(ext) > Depth /\ Len(ext) - Depth + 1 = 2 /\ Len(ext) = Depth + 1
        BY <1>1, <1>3, <2>3
      <4> QED BY <4>1 DEF Trim
    <3>2. Len(cut) = Depth /\ \A i \in 1..Depth : cut[i] = ext[i + 1]
      BY <1>1, <1>3, <2>3
    <3> HIDE DEF cut
    <3>3. \A i \in 1..Depth : cut[i] = rest[i]
      <4> TAKE i \in 1..Depth
      <4>1. i + 1 \in 1..Len(ext) /\ (Len(l) - Len(h)) + (i + 1) = i + 1
        BY <1>1, <1>3, <1>7, <2>3
      <4> QED BY <1>4, <2>2, <3>2, <4>1
    <3>4. EndsLog(cut, rest, t)
      BY <1>3, <2>2, <3>2, <3>3 DEF EndsLog
    <3> QED BY <2>1, <3>1, <3>4 DEF ext
  <2>4. CASE Len(h) # Depth
    <3>1. Trim(ext) = ext /\ Len(ext) <= Len(rest)
      BY <1>1, <1>3, <1>7, <2>2, <2>4 DEF Trim
    <3>2. ASSUME NEW i \in 1..Len(ext) PROVE ext[i] = rest[(Len(rest) - Len(ext)) + i]
      <4>1. /\ (Len(rest) - Len(ext)) + i \in 1..Depth
            /\ ((Len(rest) - Len(ext)) + i) + 1 = (Len(l) - Len(h)) + i
        BY <1>1, <1>3, <1>7, <2>2, <2>4
      <4> QED BY <1>4, <2>2, <4>1
    <3>3. ASSUME NEW i \in 1..(Len(rest) - Len(ext)) PROVE rest[i].ts + TTL < t + Skew
      <4>1. i \in 1..Depth /\ i + 1 \in 1..(Len(l) - Len(h))
        BY <1>1, <1>3, <1>7, <2>2, <2>4
      <4> QED BY <1>5, <2>2, <4>1
    <3>5. Len(rest) <= Depth
      BY <1>3, <2>2
    <3>4. EndsLog(ext, rest, t)
      BY <3>1, <3>2, <3>3, <3>5, Zenon DEF EndsLog
    <3> QED BY <2>1, <3>1, <3>4 DEF ext
  <2> QED BY <2>3, <2>4
<1> QED BY <1>3, <1>6, <1>7

\* The clock moves on: what was too old stays so.
LEMMA EndsLogLater ==
    ASSUME NEW h, NEW l \in Seq(Entry), NEW t \in Nat, NEW u \in Nat, t <= u,
           Len(h) \in Nat, EndsLog(h, l, t)
    PROVE  EndsLog(h, l, u)
<1>1. Len(l) \in Nat
  OBVIOUS
<1>2. ASSUME NEW i \in 1..(Len(l) - Len(h)) PROVE l[i].ts + TTL < u + Skew
  <2>1. i \in 1..Len(l)
    BY <1>1
  <2>2. l[i] \in Entry
    BY <2>1, ElementOfSeq
  <2>3. l[i].ts \in Nat
    BY <2>2 DEF Entry, Times
  <2>4. l[i].ts + TTL < t + Skew
    BY DEF EndsLog
  <2> QED BY <2>3, <2>4, BoundsAssumption, ClockAssumption
<1> QED BY <1>2 DEF EndsLog

\* A history that maybeSweep drops was silent for the TTL: all its entries
\* are too old, so the empty history ends the same log.
LEMMA SweepForgetsOnlyOld ==
    ASSUME NEW h \in Seq(Entry), NEW l \in Seq(Entry),
           NEW t \in Nat, NEW u \in Nat, NEW seen \in Nat, t <= u,
           EndsLog(h, l, u), \A i \in 1..Len(h) : h[i].ts <= seen + Skew,
           t - seen > TTL
    PROVE  EndsLog(<<>>, l, u)
<1>1. Len(l) \in Nat /\ Len(h) \in Nat /\ Len(h) <= Len(l) /\ Len(<<>>) = 0
  BY DEF EndsLog
<1>2. ASSUME NEW i \in 1..Len(l) PROVE l[i].ts + TTL < u + Skew
  <2>1. CASE i \in 1..(Len(l) - Len(h))
    BY <2>1 DEF EndsLog
  <2>2. CASE i \notin 1..(Len(l) - Len(h))
    <3> DEFINE j == i - (Len(l) - Len(h))
    <3>1. j \in 1..Len(h) /\ (Len(l) - Len(h)) + j = i
      BY <1>1, <2>2
    <3> HIDE DEF j
    <3>2. h[j] = l[i] /\ h[j].ts <= seen + Skew
      BY <3>1 DEF EndsLog
    <3>3. l[i] \in Entry
      BY ElementOfSeq
    <3>4. l[i].ts \in Nat /\ l[i].ts <= seen + Skew
      BY <3>2, <3>3 DEF Entry, Times
    <3> QED BY <3>4, BoundsAssumption, ClockAssumption
  <2> QED BY <2>1, <2>2
<1>3. Len(l) - Len(<<>>) = Len(l) /\ 1..Len(<<>>) = {}
  BY <1>1
<1> QED BY <1>1, <1>2, <1>3 DEF EndsLog

\* Record of a tracked syscall: the sweep first, then the entry.
LEMMA RecordTrackedLogInv ==
    ASSUME IInv, IInv', LogInv, NEW p \in PIDs, NEW c \in Calls, NEW t \in Times,
           t + Skew >= now, now' = IF t > now THEN t ELSE now,
           RecordTracked(p, c, t)
    PROVE  LogInv'
<1> DEFINE kept == Survivors(t)
           old  == [q \in PIDs |-> IF q \in kept THEN entries[q] ELSE <<>>]
           seen == [q \in PIDs |-> IF q \in kept THEN lastSeen[q] ELSE 0]
           e    == [call |-> c, ts |-> t]
           base == IF ClearedAtCapacity(t) THEN [q \in PIDs |-> <<>>] ELSE log
<1>1. /\ procs' = kept \cup {p}
      /\ entries' = [old EXCEPT ![p] = Trim(Append(old[p], e))]
      /\ lastSeen' = [seen EXCEPT ![p] = t]
      /\ log' = [base EXCEPT ![p] = Shifted(base[p], e)]
  BY DEF RecordTracked, Shifted
<1>2. /\ t \in Nat /\ now \in Nat /\ now' \in Nat /\ now <= now' /\ t <= now' /\ now' <= t + Skew
  BY ClockAssumption DEF IInv, TypeOK, Times
<1>3. e \in Entry
  BY DEF Entry
<1>4. <<>> \in Seq(Entry) /\ \A q \in PIDs : entries[q] \in Seq(Entry) /\ log[q] \in Seq(Entry)
  BY DEF IInv, TypeOK
<1>5. \A q \in PIDs : old[q] \in Seq(Entry) /\ base[q] \in Seq(Entry)
  BY <1>4
<1>6. ASSUME NEW q \in PIDs PROVE EndsLog(old[q], base[q], now')
  <2>1. EndsLog(entries[q], log[q], now)
    BY DEF LogInv
  <2>2. Len(entries[q]) \in Nat
    BY <1>4
  <2>3. EndsLog(entries[q], log[q], now')
    BY <1>2, <1>4, <2>1, <2>2, EndsLogLater
  <2>4. CASE ClearedAtCapacity(t)
    <3>1. kept = {}
      BY <2>4 DEF ClearedAtCapacity, Survivors
    <3>2. old[q] = <<>> /\ base[q] = <<>>
      BY <2>4, <3>1
    <3>3. EndsLog(<<>>, <<>>, now')
      BY BoundsAssumption DEF EndsLog
    <3> QED BY <3>2, <3>3
  <2>5. CASE ~ClearedAtCapacity(t) /\ q \in kept
    BY <2>3, <2>5
  <2>6. CASE ~ClearedAtCapacity(t) /\ q \notin kept /\ q \notin procs
    BY <2>3, <2>6 DEF LogInv
  <2>7. CASE ~ClearedAtCapacity(t) /\ q \notin kept /\ q \in procs
    <3>1. Expired(q, t)
      BY <2>7 DEF Survivors, ClearedAtCapacity, Unexpired
    <3>2. lastSeen[q] \in Nat /\ t - lastSeen[q] > TTL
      BY <3>1 DEF Expired, IInv, TypeOK
    <3>3. \A i \in 1..Len(entries[q]) : entries[q][i].ts <= lastSeen[q] + Skew
      BY DEF LogInv
    <3>4. EndsLog(<<>>, log[q], now')
      BY <1>2, <1>4, <2>3, <3>2, <3>3, SweepForgetsOnlyOld
    <3> QED BY <2>7, <3>4
  <2> QED BY <2>4, <2>5, <2>6, <2>7
<1>7. ASSUME NEW q \in PIDs
      PROVE  /\ entries'[q] = IF q = p THEN Trim(Append(old[p], e)) ELSE old[q]
             /\ log'[q] = IF q = p THEN Shifted(base[p], e) ELSE base[q]
             /\ lastSeen'[q] = IF q = p THEN t ELSE seen[q]
  <2>1. DOMAIN base = PIDs
    BY DEF IInv, TypeOK
  <2> QED BY <1>1, <2>1
<1>8. ASSUME NEW q \in PIDs PROVE EndsLog(entries'[q], log'[q], now')
  <2>1. CASE q = p
    <3>1. old[p] \in Seq(Entry) /\ base[p] \in Seq(Entry) /\ EndsLog(old[p], base[p], now')
      BY <1>5, <1>6
    <3> HIDE DEF old, base, e
    <3>2. EndsLog(Trim(Append(old[p], e)), Shifted(base[p], e), now')
      BY <1>3, <3>1, TrimFollowsLog
    <3> QED BY <1>7, <2>1, <3>2
  <2>2. CASE q # p
    BY <1>6, <1>7, <2>2
  <2> QED BY <2>1, <2>2
<1>9. ASSUME NEW q \in PIDs, NEW i \in 1..Len(entries'[q])
      PROVE  entries'[q][i].ts <= lastSeen'[q] + Skew
  <2>1. CASE q = p
    <3>1. lastSeen'[q] = t
      BY <1>7, <2>1
    <3>2. entries'[q] \in Seq(Entry) /\ entries'[q][i].ts <= now'
      BY DEF IInv, TypeOK, StampedByNow
    <3>3. entries'[q][i] \in Entry
      BY <3>2, ElementOfSeq
    <3>4. entries'[q][i].ts \in Nat
      BY <3>3 DEF Entry, Times
    <3> QED BY <1>2, <3>1, <3>2, <3>4, ClockAssumption
  <2>2. CASE q # p /\ q \in kept
    <3>1. entries'[q] = entries[q] /\ lastSeen'[q] = lastSeen[q]
      BY <1>7, <2>2
    <3> QED BY <3>1 DEF LogInv
  <2>3. CASE q # p /\ q \notin kept
    <3>1. entries'[q] = <<>>
      BY <1>7, <2>3
    <3> QED BY <3>1
  <2> QED BY <2>1, <2>2, <2>3
<1>10. ASSUME NEW q \in PIDs, q \notin procs' PROVE entries'[q] = <<>>
  BY <1>1, <1>7, <1>10
<1> QED BY <1>8, <1>9, <1>10 DEF LogInv

\* Record and Forget keep LogInv.
LEMMA NextLogInv == IInv /\ IInv' /\ LogInv /\ [Next]_vars => LogInv'
<1> SUFFICES ASSUME IInv, IInv', LogInv, [Next]_vars PROVE LogInv'
  OBVIOUS
<1>1. ASSUME NEW p \in PIDs, NEW c \in Calls, NEW t \in Times, Record(p, c, t)
      PROVE  LogInv'
  <2>1. /\ t + Skew >= now /\ now' = IF t > now THEN t ELSE now
        /\ RecordUntracked(p, c, t) \/ RecordTracked(p, c, t)
    BY <1>1 DEF Record
  <2>2. CASE RecordUntracked(p, c, t)
    <3>1. UNCHANGED <<procs, entries, lastSeen, log>>
      BY <2>2 DEF RecordUntracked, trackerVars
    <3>2. now \in Nat /\ now' \in Nat /\ now <= now'
      BY <2>1 DEF IInv, TypeOK, Times
    <3>3. ASSUME NEW q \in PIDs PROVE EndsLog(entries[q], log[q], now')
      <4>1. log[q] \in Seq(Entry) /\ Len(entries[q]) \in Nat /\ EndsLog(entries[q], log[q], now)
        BY DEF IInv, TypeOK, LogInv
      <4> QED BY <3>2, <4>1, EndsLogLater
    <3> QED BY <3>1, <3>3 DEF LogInv
  <2>3. CASE RecordTracked(p, c, t)
    BY <2>1, <2>3, RecordTrackedLogInv
  <2> QED BY <2>1, <2>2, <2>3
<1>2. ASSUME NEW p \in PIDs, Forget(p) PROVE LogInv'
  <2>1. /\ procs' = procs \ {p} /\ now' = now
        /\ \A q \in PIDs : /\ entries'[q] = IF q = p THEN <<>> ELSE entries[q]
                           /\ lastSeen'[q] = IF q = p THEN 0 ELSE lastSeen[q]
                           /\ log'[q] = IF q = p THEN <<>> ELSE log[q]
    BY <1>2 DEF Forget, IInv, TypeOK
  <2>2. EndsLog(<<>>, <<>>, now)
    BY BoundsAssumption DEF EndsLog
  <2>3. ASSUME NEW q \in PIDs
        PROVE  /\ EndsLog(entries'[q], log'[q], now')
               /\ \A i \in 1..Len(entries'[q]) : entries'[q][i].ts <= lastSeen'[q] + Skew
               /\ q \notin procs' => entries'[q] = <<>>
    <3>1. CASE q = p
      BY <2>1, <2>2, <3>1
    <3>2. CASE q # p
      BY <2>1, <3>2 DEF LogInv
    <3> QED BY <3>1, <3>2
  <2> QED BY <2>3 DEF LogInv
<1>3. CASE UNCHANGED vars
  BY <1>3 DEF vars, LogInv
<1> QED BY <1>1, <1>2, <1>3 DEF Next

LEMMA InitLogInv == Init => LogInv
<1>1. EndsLog(<<>>, <<>>, 0)
  BY BoundsAssumption DEF EndsLog
<1> QED BY <1>1 DEF Init, LogInv

\* In every state each history is the end of its log.
THEOREM LogInvHolds == Spec => []LogInv
BY InitLogInv, NextLogInv, InvariantHolds, PTL DEF Spec

\* The walk back from the newest entry stops somewhere.
LEMMA WithinStops ==
    ASSUME NEW h \in Seq(Entry), NEW t \in Nat
    PROVE  \E s \in 0..Len(h) : IsWithinStart(h, t, s)
<1>1. Len(h) \in Nat /\ Cutoff(t) \in Nat
  BY BoundsAssumption DEF Cutoff
<1> DEFINE A == {n \in Nat : n <= Len(h) /\ \A i \in (n + 1)..Len(h) : h[i].ts >= Cutoff(t)}
<1>2. Len(h) \in A
  BY <1>1
<1>3. PICK m \in A : \A y \in A : ~(<<y, m>> \in OpToRel(<, Nat))
  <2>1. A \subseteq Nat /\ A # {}
    BY <1>2
  <2> HIDE DEF A
  <2> QED BY <2>1, NatLessThanWellFounded, WFMin
<1>4. \A y \in A : ~(y < m)
  BY <1>3 DEF OpToRel
<1>5. ASSUME m > 0 PROVE h[m].ts < Cutoff(t)
  <2> SUFFICES ASSUME h[m].ts >= Cutoff(t) PROVE FALSE
    <3>1. m \in 1..Len(h)
      BY <1>1, <1>5
    <3>2. h[m] \in Entry
      BY <3>1, ElementOfSeq
    <3>3. h[m].ts \in Nat
      BY <3>2 DEF Entry, Times
    <3> QED BY <1>1, <3>3
  <2>1. m - 1 \in Nat /\ m - 1 < m /\ m - 1 <= Len(h) /\ (m - 1) + 1 = m
    BY <1>1, <1>5
  <2>2. \A i \in ((m - 1) + 1)..Len(h) : i = m \/ i \in (m + 1)..Len(h)
    BY <1>1, <2>1
  <2>3. m - 1 \in A
    BY <2>1, <2>2
  <2> QED BY <1>4, <2>1, <2>3
<1> QED BY <1>1, <1>5 DEF IsWithinStart

\* Within returns what IsWithinStart says it passed.
LEMMA WithinIs ==
    ASSUME NEW h \in Seq(Entry), NEW t \in Nat
    PROVE  \E s \in 0..Len(h) :
              /\ IsWithinStart(h, t, s)
              /\ Within(h, t) \in Seq(Entry) /\ Len(Within(h, t)) = Len(h) - s
              /\ \A i \in 1..(Len(h) - s) : Within(h, t)[i] = h[s + i]
<1> DEFINE s == CHOOSE x \in 0..Len(h) : IsWithinStart(h, t, x)
<1>1. s \in 0..Len(h) /\ IsWithinStart(h, t, s)
  BY WithinStops
<1>2. Within(h, t) = SubSeq(h, s + 1, Len(h))
  BY DEF Within
<1> HIDE DEF s
<1>3. Len(h) \in Nat
  OBVIOUS
<1>4. /\ SubSeq(h, s + 1, Len(h)) \in Seq(Entry)
      /\ Len(SubSeq(h, s + 1, Len(h))) = Len(h) - s
      /\ \A i \in 1..(Len(h) - s) : SubSeq(h, s + 1, Len(h))[i] = h[s + i]
  BY <1>1, <1>3
<1>5. \E x \in 0..Len(h) :
              /\ IsWithinStart(h, t, x)
              /\ SubSeq(h, s + 1, Len(h)) \in Seq(Entry) /\ Len(SubSeq(h, s + 1, Len(h))) = Len(h) - x
              /\ \A i \in 1..(Len(h) - x) : SubSeq(h, s + 1, Len(h))[i] = h[x + i]
  BY <1>1, <1>4, Zenon
<1> QED BY <1>2, <1>5

\* In one state: what Within shows of an ordered history that ends its log.
LEMMA WindowShown ==
    ASSUME Window <= TTL, IInv, LogInv PROVE WindowFaithful
<1> SUFFICES ASSUME NEW p \in PIDs
             PROVE  LET shown == Within(entries[p], now)
                        older == Len(log[p]) - Len(shown)
                    IN  /\ older >= 0
                        /\ shown = SubSeq(log[p], older + 1, Len(log[p]))
                        /\ \A i \in 1..Len(shown) : shown[i].ts + Window >= now
                        /\ \A i \in 1..older : log[p][i].ts + Window < now + Skew
  BY DEF WindowFaithful
<1> DEFINE h == entries[p]
           l == log[p]
           shown == Within(h, now)
           older == Len(l) - Len(shown)
           n == Len(l) - Len(h)
<1>1. /\ h \in Seq(Entry) /\ l \in Seq(Entry) /\ now \in Nat
      /\ EndsLog(h, l, now) /\ Len(h) \in Nat /\ Len(l) \in Nat
  BY DEF IInv, TypeOK, LogInv
<1>2. \A i, j \in 1..Len(h) : i < j => h[i].ts <= h[j].ts + Skew
  BY DEF IInv, OrderedUpToSkew
<1>3. PICK s \in 0..Len(h) :
            /\ IsWithinStart(h, now, s)
            /\ shown \in Seq(Entry) /\ Len(shown) = Len(h) - s
            /\ \A i \in 1..(Len(h) - s) : shown[i] = h[s + i]
  BY <1>1, WithinIs
<1> HIDE DEF h, l, shown
<1>4. \A i \in 1..Len(h) : h[i].ts \in Nat
  <2>1. \A i \in 1..Len(h) : h[i] \in Entry
    BY <1>1, ElementOfSeq
  <2> QED BY <2>1 DEF Entry, Times
<1>5. \A i \in 1..Len(l) : l[i].ts \in Nat
  <2>1. \A i \in 1..Len(l) : l[i] \in Entry
    BY <1>1, ElementOfSeq
  <2> QED BY <2>1 DEF Entry, Times
<1>6. /\ Len(h) <= Len(l)
      /\ \A i \in 1..Len(h) : h[i] = l[n + i]
      /\ \A i \in 1..n : l[i].ts + TTL < now + Skew
  BY <1>1 DEF EndsLog
<1>7. older = n + s /\ n \in Nat /\ older \in Nat /\ older + Len(shown) = Len(l)
  BY <1>1, <1>3, <1>6
<1> HIDE DEF n, older
<1>8. shown = SubSeq(l, older + 1, Len(l))
  <2> DEFINE sub == SubSeq(l, older + 1, Len(l))
  <2>1. /\ sub \in Seq(Entry) /\ Len(sub) = Len(l) - older
        /\ \A i \in 1..(Len(l) - older) : sub[i] = l[older + i]
    BY <1>1, <1>3, <1>7
  <2> HIDE DEF sub
  <2>2. Len(shown) \in Nat /\ Len(l) - older = Len(shown)
    BY <1>1, <1>3, <1>7
  <2>3. ASSUME NEW i \in 1..Len(shown) PROVE shown[i] = sub[i]
    <3>1. s + i \in 1..Len(h) /\ n + (s + i) = older + i
      BY <1>1, <1>3, <1>7
    <3>2. shown[i] = h[s + i] /\ h[s + i] = l[n + (s + i)]
      BY <1>3, <1>6, <3>1
    <3> QED BY <2>1, <2>2, <3>1, <3>2
  <2>4. shown = sub
    BY <1>3, <2>1, <2>2, <2>3, SeqEqual
  <2> QED BY <2>4 DEF sub
<1>9. ASSUME NEW i \in 1..Len(shown) PROVE shown[i].ts + Window >= now
  <2>1. s + i \in (s + 1)..Len(h) /\ s + i \in 1..Len(h)
    BY <1>1, <1>3
  <2>2. h[s + i].ts >= Cutoff(now) /\ h[s + i].ts \in Nat /\ shown[i] = h[s + i]
    BY <1>3, <1>4, <2>1 DEF IsWithinStart
  <2> QED BY <1>1, <2>2, BoundsAssumption DEF Cutoff
<1>10. ASSUME NEW i \in 1..older PROVE l[i].ts + Window < now + Skew
  <2>0. i \in 1..Len(l) /\ l[i].ts \in Nat
    BY <1>1, <1>3, <1>5, <1>7
  <2>1. CASE i <= n
    <3>1. l[i].ts + TTL < now + Skew
      BY <1>6, <1>7, <2>1
    <3> QED BY <1>1, <2>0, <3>1, BoundsAssumption, ClockAssumption
  <2>2. CASE ~(i <= n)
    <3> DEFINE j == i - n
    <3>1. j \in 1..s /\ n + j = i /\ s > 0
      BY <1>3, <1>7, <2>2
    <3> HIDE DEF j
    <3>2. s \in 1..Len(h) /\ j \in 1..Len(h) /\ h[s].ts < Cutoff(now)
      BY <1>1, <1>3, <3>1 DEF IsWithinStart
    <3>3. h[j].ts <= h[s].ts + Skew
      BY <1>2, <1>4, <3>1, <3>2, ClockAssumption
    <3>4. h[j] = l[i] /\ h[s].ts \in Nat
      BY <1>4, <1>6, <3>1, <3>2
    <3>5. h[s].ts + Window < now
      BY <1>1, <3>2, <3>4, BoundsAssumption DEF Cutoff
    <3>6. l[i].ts <= h[s].ts + Skew
      BY <3>3, <3>4
    <3> DEFINE a == l[i].ts
               b == h[s].ts
    <3>7. a \in Nat /\ b \in Nat /\ a <= b + Skew /\ b + Window < now
      BY <2>0, <3>4, <3>5, <3>6
    <3> HIDE DEF a, b
    <3>8. a + Window < now + Skew
      BY <1>1, <3>7, BoundsAssumption, ClockAssumption
    <3> QED BY <3>8 DEF a
  <2> QED BY <2>1, <2>2
<1>11. older >= 0
  BY <1>7
<1> QED BY <1>8, <1>9, <1>10, <1>11 DEF older, shown, h, l

\* What a sequence rule is shown is what happened: as long as the TTL covers
\* the rule window, which the comment at defaultTTL asks for, neither the
\* sweep of Record nor the walk of Within hides a call of the window.
THEOREM RulesSeeTheWindow == (Window <= TTL) /\ Spec => []WindowFaithful
<1>1. ASSUME Window <= TTL, IInv, LogInv PROVE WindowFaithful
  BY <1>1, WindowShown
<1>2. (Window <= TTL) /\ []IInv /\ []LogInv => []WindowFaithful
  <2>1. CASE Window <= TTL
    <3>1. IInv /\ LogInv => WindowFaithful
      BY <1>1, <2>1
    <3> QED BY <3>1, PTL
  <2>2. CASE ~(Window <= TTL)
    BY <2>2
  <2> QED BY <2>1, <2>2
<1> QED BY <1>2, InvariantHolds, LogInvHolds, PTL

-----------------------------------------------------------------------------
(* RevShell.                                                               *)
(*                                                                         *)
(* findChain anchors on the FIRST socket and the FIRST connect after it.   *)
(* Proved here for every history: the anchors neither hide a chain nor     *)
(* invent one, whatever else the process did in between.                   *)

\* A non-empty set of positions has a first one.
LEMMA FirstIsLeast ==
    ASSUME NEW S \in SUBSET Nat, S # {}
    PROVE  First(S) \in S /\ \A j \in S : First(S) <= j
<1>1. \E x \in S : \A y \in S : ~(<<y, x>> \in OpToRel(<, Nat))
  BY NatLessThanWellFounded, WFMin
<1>2. PICK x \in S : \A y \in S : ~(<<y, x>> \in OpToRel(<, Nat))
  BY <1>1
<1>3. \A y \in S : ~(y < x)
  <2>1. \A y \in S : y \in Nat /\ x \in Nat
    OBVIOUS
  <2> QED BY <1>2, <2>1 DEF OpToRel
<1>4. \A y \in S : x <= y
  BY <1>3
<1> QED BY <1>2, <1>4 DEF First

\* A set of standard streams has two members when it has two different ones.
LEMMA TwoMembers ==
    ASSUME NEW S \in SUBSET StdFDs
    PROVE  Cardinality(S) >= 2 <=> \E x, y \in S : x # y
<1>1. IsFiniteSet(StdFDs)
  <2>1. IsFiniteSet({0})
    BY FS_Singleton
  <2>2. IsFiniteSet({0} \cup {1})
    BY <2>1, FS_AddElement
  <2>3. IsFiniteSet(({0} \cup {1}) \cup {2})
    BY <2>2, FS_AddElement
  <2>4. StdFDs = ({0} \cup {1}) \cup {2}
    BY DEF StdFDs
  <2> QED BY <2>3, <2>4
<1>2. IsFiniteSet(S) /\ Cardinality(S) \in Nat
  BY <1>1, FS_Subset, FS_CardinalityType
<1>3. ASSUME Cardinality(S) >= 2 PROVE \E x, y \in S : x # y
  <2>1. S # {}
    BY <1>3, FS_EmptySet
  <2>2. PICK x \in S : TRUE
    BY <2>1
  <2>3. Cardinality({x}) = 1
    BY FS_Singleton
  <2>4. S # {x}
    BY <1>3, <2>3
  <2> QED BY <2>2, <2>4
<1>4. ASSUME NEW x \in S, NEW y \in S, x # y PROVE Cardinality(S) >= 2
  <2>1. /\ IsFiniteSet(S \ {x})
        /\ Cardinality(S \ {x}) = Cardinality(S) - 1
    BY <1>2, FS_RemoveElement
  <2>2. Cardinality(S \ {x}) # 0
    BY <1>4, <2>1, FS_EmptySet
  <2>3. Cardinality(S \ {x}) \in Nat
    BY <2>1, FS_CardinalityType
  <2> QED BY <1>2, <2>1, <2>2, <2>3
<1> QED BY <1>3, <1>4

\* The rule's match is the pattern: some socket, a later connect, two later
\* redirections.  Taking the first of each is complete (no chain is hidden by
\* an earlier, unrelated socket or connect) and sound.
THEOREM AnchorsAreExact == \A S : \A h \in Seq(S) : ChainFound(h) <=> HasChain(h)
<1> SUFFICES ASSUME NEW S, NEW h \in Seq(S) PROVE ChainFound(h) <=> HasChain(h)
  OBVIOUS
<1> DEFINE n == Len(h)
           soc == Entered(h, 0, "socket")
           s == SocketIdx(h)
           con == Entered(h, s, "connect")
           c == ConnectIdx(h)
<1>0. n \in Nat
  OBVIOUS
<1>1. soc \in SUBSET Nat /\ soc \subseteq 1..n
  BY <1>0 DEF Entered
<1>2. /\ s \in Nat
      /\ s # 0 => s \in soc /\ \A j \in soc : s <= j
      /\ s = 0 => soc = {}
  BY <1>1, FirstIsLeast DEF SocketIdx
<1>3. con \in SUBSET Nat /\ con \subseteq (s + 1)..n
  BY <1>0, <1>2 DEF Entered
<1>4. /\ c \in Nat
      /\ c # 0 => c \in con /\ \A j \in con : c <= j
      /\ c = 0 => con = {}
  BY <1>2, <1>3, FirstIsLeast DEF ConnectIdx
<1>5. Redirected(h) \in SUBSET StdFDs
  BY DEF Redirected, Redirections
<1>6. ASSUME ChainFound(h) PROVE HasChain(h)
  <2>1. s # 0 /\ c # 0 /\ Cardinality(Redirected(h)) >= 2
    BY <1>6 DEF ChainFound, minRedirectedFDs
  <2>2. PICK x, y \in Redirected(h) : x # y
    BY <1>5, <2>1, TwoMembers
  <2>3. PICK k \in Redirections(h) : h[k].call.arg1 = x
    BY DEF Redirected
  <2>4. PICK l \in Redirections(h) : h[l].call.arg1 = y
    BY DEF Redirected
  <2>5. /\ s \in 1..n /\ h[s].call.sc = "socket" /\ ~h[s].call.exit
        /\ c \in 1..n /\ s < c /\ h[c].call.sc = "connect" /\ ~h[c].call.exit
    BY <1>0, <1>2, <1>4, <2>1 DEF Entered
  <2>6. /\ k \in 1..n /\ c < k /\ l \in 1..n /\ c < l
        /\ IsDup(h[k].call.sc) /\ ~h[k].call.exit /\ h[k].call.arg1 \in StdFDs
        /\ IsDup(h[l].call.sc) /\ ~h[l].call.exit /\ h[l].call.arg1 \in StdFDs
    BY <1>0, <1>4 DEF Redirections
  <2> HIDE DEF s, c, n
  <2> QED BY <2>2, <2>3, <2>4, <2>5, <2>6 DEF HasChain, HasChainAt, n
<1>7. ASSUME HasChain(h) PROVE ChainFound(h)
  <2>1. PICK i, j, k, l \in 1..n :
            /\ i < j /\ j < k /\ j < l
            /\ h[i].call.sc = "socket" /\ ~h[i].call.exit
            /\ h[j].call.sc = "connect" /\ ~h[j].call.exit
            /\ IsDup(h[k].call.sc) /\ ~h[k].call.exit /\ h[k].call.arg1 \in StdFDs
            /\ IsDup(h[l].call.sc) /\ ~h[l].call.exit /\ h[l].call.arg1 \in StdFDs
            /\ h[k].call.arg1 # h[l].call.arg1
    BY <1>7 DEF HasChain, HasChainAt
  <2>2. i \in soc /\ s # 0 /\ s <= i
    BY <1>0, <1>2, <2>1 DEF Entered
  <2>3. j \in con /\ c # 0 /\ c <= j
    BY <1>0, <1>2, <1>4, <2>1, <2>2 DEF Entered
  <2>4. k \in Redirections(h) /\ l \in Redirections(h)
    BY <1>0, <1>4, <2>1, <2>3 DEF Redirections
  <2>5. \E x, y \in Redirected(h) : x # y
    BY <2>1, <2>4 DEF Redirected
  <2>6. Cardinality(Redirected(h)) >= 2
    BY <1>5, <2>5, TwoMembers
  <2> QED BY <2>2, <2>3, <2>6 DEF ChainFound, minRedirectedFDs
<1> QED BY <1>6, <1>7

\* Corollary: more activity after the redirections never hides the chain.
THEOREM LaterCallsHideNothing ==
    ASSUME NEW S, NEW h \in Seq(S), NEW g \in Seq(S), ChainFound(h)
    PROVE  ChainFound(h \o g)
<1>1. HasChain(h)
  BY AnchorsAreExact
<1>2. /\ Len(h) \in Nat /\ Len(h \o g) = Len(h) + Len(g) /\ Len(g) \in Nat
      /\ \A i \in 1..Len(h) : (h \o g)[i] = h[i]
  OBVIOUS
<1>3. 1..Len(h) \subseteq 1..Len(h \o g)
  BY <1>2
<1>4. HasChain(h \o g)
  <2> DEFINE hg == h \o g
  <2>1. /\ 1..Len(h) \subseteq 1..Len(hg)
        /\ \A i \in 1..Len(h) : hg[i] = h[i]
    BY <1>2, <1>3
  <2>2. HasChain(hg)
    <3> HIDE DEF hg
    <3>1. PICK i, j, k, l \in 1..Len(h) :
              /\ i < j /\ j < k /\ j < l
              /\ h[i].call.sc = "socket" /\ ~h[i].call.exit
              /\ h[j].call.sc = "connect" /\ ~h[j].call.exit
              /\ IsDup(h[k].call.sc) /\ ~h[k].call.exit /\ h[k].call.arg1 \in StdFDs
              /\ IsDup(h[l].call.sc) /\ ~h[l].call.exit /\ h[l].call.arg1 \in StdFDs
              /\ h[k].call.arg1 # h[l].call.arg1
      BY <1>1 DEF HasChain, HasChainAt
    <3>2. /\ i \in 1..Len(hg) /\ j \in 1..Len(hg) /\ k \in 1..Len(hg) /\ l \in 1..Len(hg)
          /\ hg[i] = h[i] /\ hg[j] = h[j] /\ hg[k] = h[k] /\ hg[l] = h[l]
      BY <2>1
    <3>3. /\ hg[i].call.sc = "socket" /\ ~hg[i].call.exit
          /\ hg[j].call.sc = "connect" /\ ~hg[j].call.exit
          /\ IsDup(hg[k].call.sc) /\ ~hg[k].call.exit /\ hg[k].call.arg1 \in StdFDs
          /\ IsDup(hg[l].call.sc) /\ ~hg[l].call.exit /\ hg[l].call.arg1 \in StdFDs
          /\ hg[k].call.arg1 # hg[l].call.arg1
      BY <3>1, <3>2, Zenon
    <3>4. i < j /\ j < k /\ j < l
      BY <3>1
    <3> QED BY <3>2, <3>3, <3>4, ZenonT(40) DEF HasChain, HasChainAt
  <2> QED BY <2>2
<1>5. h \o g \in Seq(S)
  OBVIOUS
<1> QED BY <1>4, <1>5, AnchorsAreExact

-----------------------------------------------------------------------------
(* The composition: what the processes did, and what the rule is shown.    *)

\* What a trace holds.
Made == [call : ProbedCalls, ts : Times]

\* What happened at position i of a trace.
SocketAt(tr, i) == tr[i].call.sc = "socket" /\ ~tr[i].call.exit
ConnectAt(tr, i) == tr[i].call.sc = "connect" /\ ~tr[i].call.exit
DupAt(tr, i, fd) == tr[i].call.sc = "dup2" /\ ~tr[i].call.exit /\ tr[i].call.arg1 = fd

\* What a descriptor may refer to, and what is known of a socket.
Ref == {Closed, File} \cup [kind : {"sock"}, n : Nat, late : BOOLEAN]
Socket == [opened : Nat, dest : Dests \cup {""}, up : BOOLEAN]

\* The standard streams of f wired to socket n after it was dialled.
WiredIn(f, n) == {fd \in FDs \cap StdFDs : f[fd] = Sock(n, TRUE)}

\* The trace has the opening of the n-th socket; once it was dialled, also a
\* connect after that, and after the connect the redirections of all streams
\* that are wired to it.
SockOK(f, s, tr, n) ==
    /\ s.opened \in 1..Len(tr) /\ SocketAt(tr, s.opened)
    /\ s.dest = "" => WiredIn(f, n) = {}
    /\ s.dest # "" =>
          \E j \in 1..Len(tr) :
              /\ s.opened < j /\ ConnectAt(tr, j)
              /\ \A fd \in WiredIn(f, n) : \E i \in 1..Len(tr) : j < i /\ DupAt(tr, i, fd)

\* A process: its descriptors, its sockets, its trace, the call it is in.
ProcOK(f, ss, tr, pend) ==
    /\ f \in [FDs -> Ref] /\ ss \in Seq(Socket) /\ tr \in Seq(Made)
    /\ pend \in {"none", "socket", "connect"}
    /\ \A fd \in FDs : f[fd].kind = "sock" => f[fd].n \in 1..Len(ss)
    /\ \A n \in 1..Len(ss) : SockOK(f, ss[n], tr, n)
    /\ pend = "socket" => Len(tr) # 0 /\ SocketAt(tr, Len(tr))
    /\ pend = "connect" => /\ Len(tr) # 0 /\ tr[Len(tr)].call.arg0 \in FDs
                           /\ f[tr[Len(tr)].call.arg0].kind = "sock"

ChainTypeOK ==
    /\ DOMAIN fds = PIDs /\ DOMAIN socks = PIDs /\ DOMAIN trace = PIDs
    /\ DOMAIN pending = PIDs /\ life \in [PIDs -> [n : Nat \ {0}, past : Nat]]

ProcInv ==
    /\ ChainTypeOK
    /\ \A p \in PIDs : ProcOK(fds[p], socks[p], trace[p], pending[p])
    /\ \A p \in PIDs : /\ life[p].past <= Len(trace[p])
                       /\ life[p].n = 1 => life[p].past = 0

-----------------------------------------------------------------------------
LEMMA StampIsNat == \A t \in Stamps : t \in Times /\ t \in Nat
  <1>1. Stamps \subseteq Times
    BY ChainAssumption, Zenon
  <1>2. Times \subseteq Nat
    BY ClockAssumption DEF Times
  <1> QED BY <1>1, <1>2

LEMMA CallsProbed ==
    /\ \A fd \in FDs \cup {0} :
          /\ Call("socket", FALSE, 0, 0, 0, "") \in ProbedCalls
          /\ Call("socket", TRUE, 0, 0, fd, "") \in ProbedCalls
          /\ Call("socket", TRUE, 0, 0, -1, "") \in ProbedCalls
    /\ \A fd \in FDs, d \in Dests : Call("connect", FALSE, fd, 0, 0, d) \in ProbedCalls
    /\ \A r \in {0, -1} : Call("connect", TRUE, 0, 0, r, "") \in ProbedCalls
    /\ \A x \in FDs, y \in StdFDs : Call("dup2", FALSE, x, y, 0, "") \in ProbedCalls
    /\ Call("execve", FALSE, 0, 0, 0, "") \in ProbedCalls
  BY DEF Call, ProbedCalls, StdFDs

\* A trace that grows keeps what it has.
LEMMA TraceGrows ==
    ASSUME NEW tr \in Seq(Made), NEW e \in Made
    PROVE  /\ Append(tr, e) \in Seq(Made) /\ Len(Append(tr, e)) = Len(tr) + 1
           /\ Len(tr) \in Nat /\ 1..Len(tr) \subseteq 1..Len(Append(tr, e))
           /\ \A i \in 1..Len(tr) : Append(tr, e)[i] = tr[i]
           /\ Append(tr, e)[Len(tr) + 1] = e
  BY AppendProperties

LEMMA SockOKGrows ==
    ASSUME NEW tr \in Seq(Made), NEW e \in Made, NEW f, NEW s, NEW n, SockOK(f, s, tr, n)
    PROVE  SockOK(f, s, Append(tr, e), n)
  <1> DEFINE more == Append(tr, e)
  <1>1. 1..Len(tr) \subseteq 1..Len(more) /\ \A i \in 1..Len(tr) : more[i] = tr[i]
    BY TraceGrows
  <1> HIDE DEF more
  <1>2. s.opened \in 1..Len(more) /\ SocketAt(more, s.opened)
    BY <1>1 DEF SockOK, SocketAt
  <1>3. ASSUME s.dest # ""
        PROVE  \E j \in 1..Len(more) :
                  /\ s.opened < j /\ ConnectAt(more, j)
                  /\ \A fd \in WiredIn(f, n) : \E i \in 1..Len(more) : j < i /\ DupAt(more, i, fd)
    <2>1. PICK j \in 1..Len(tr) :
                  /\ s.opened < j /\ ConnectAt(tr, j)
                  /\ \A fd \in WiredIn(f, n) : \E i \in 1..Len(tr) : j < i /\ DupAt(tr, i, fd)
      BY <1>3 DEF SockOK
    <2>2. \A fd \in WiredIn(f, n) : \E i \in 1..Len(more) : j < i /\ DupAt(more, i, fd)
      BY <1>1, <2>1 DEF DupAt
    <2> QED BY <1>1, <2>1, <2>2 DEF ConnectAt
  <1>4. SockOK(f, s, more, n)
    BY <1>2, <1>3 DEF SockOK
  <1> QED BY <1>4 DEF more

-----------------------------------------------------------------------------
\* What Emit does.
LEMMA EmitDoes ==
    ASSUME ProcInv, NEW p \in PIDs, NEW c \in ProbedCalls, NEW t \in Stamps, Emit(p, c, t)
    PROVE  /\ [call |-> c, ts |-> t] \in Made
           /\ trace'[p] = Append(trace[p], [call |-> c, ts |-> t])
           /\ \A q \in PIDs : q # p => trace'[q] = trace[q]
           /\ DOMAIN trace' = PIDs
           /\ Record(p, c, t) /\ c \in Calls /\ t \in Times
  BY ChainAssumption DEF Emit, Made, ProcInv, ChainTypeOK

\* A step of one process that keeps its invariant keeps everybody's.
LEMMA OneProcess ==
    ASSUME ProcInv, NEW p \in PIDs,
           DOMAIN fds' = PIDs, DOMAIN socks' = PIDs, DOMAIN trace' = PIDs, DOMAIN pending' = PIDs,
           life' = life, Len(trace[p]) \in Nat, Len(trace'[p]) \in Nat, Len(trace[p]) <= Len(trace'[p]),
           \A q \in PIDs : q # p => /\ fds'[q] = fds[q] /\ socks'[q] = socks[q]
                                    /\ trace'[q] = trace[q] /\ pending'[q] = pending[q],
           ProcOK(fds'[p], socks'[p], trace'[p], pending'[p])
    PROVE  ProcInv'
  <1>1. \A q \in PIDs : ProcOK(fds'[q], socks'[q], trace'[q], pending'[q])
    BY DEF ProcInv
  <1>2. \A q \in PIDs : life[q].past <= Len(trace'[q])
    <2> TAKE q \in PIDs
    <2>1. CASE q = p
      <3>1. life[p].past \in Nat /\ life[p].past <= Len(trace[p])
        BY DEF ProcInv, ChainTypeOK
      <3> QED BY <2>1, <3>1
    <2>2. CASE q # p
      BY <2>2 DEF ProcInv
    <2> QED BY <2>1, <2>2
  <1>3. ChainTypeOK'
    BY DEF ProcInv, ChainTypeOK
  <1> QED BY <1>1, <1>2, <1>3 DEF ProcInv

LEMMA EmitKeeps ==
    ASSUME ProcInv, NEW p \in PIDs, NEW c \in ProbedCalls, NEW t \in Stamps, Emit(p, c, t),
           DOMAIN fds' = PIDs, DOMAIN socks' = PIDs, DOMAIN pending' = PIDs, life' = life,
           \A q \in PIDs : q # p => fds'[q] = fds[q] /\ socks'[q] = socks[q] /\ pending'[q] = pending[q],
           ProcOK(fds'[p], socks'[p], Append(trace[p], [call |-> c, ts |-> t]), pending'[p])
    PROVE  ProcInv'
  <1>1. /\ [call |-> c, ts |-> t] \in Made
        /\ trace'[p] = Append(trace[p], [call |-> c, ts |-> t]) /\ DOMAIN trace' = PIDs
        /\ \A q \in PIDs : q # p => trace'[q] = trace[q]
    BY EmitDoes
  <1>2. trace[p] \in Seq(Made)
    BY DEF ProcInv, ProcOK
  <1>3. Len(trace[p]) \in Nat /\ Len(trace'[p]) \in Nat /\ Len(trace[p]) <= Len(trace'[p])
    BY <1>1, <1>2, TraceGrows
  <1> QED BY <1>1, <1>3, OneProcess

\* What an action on p may use of it.
LEMMA ProcFacts ==
    ASSUME ProcInv, NEW p \in PIDs, NEW e \in Made
    PROVE  /\ ProcOK(fds[p], socks[p], trace[p], pending[p])
           /\ fds[p] \in [FDs -> Ref] /\ socks[p] \in Seq(Socket) /\ trace[p] \in Seq(Made)
           /\ DOMAIN fds = PIDs /\ DOMAIN socks = PIDs /\ DOMAIN pending = PIDs
           /\ Append(trace[p], e) \in Seq(Made) /\ Len(Append(trace[p], e)) = Len(trace[p]) + 1
           /\ Len(trace[p]) \in Nat /\ Append(trace[p], e)[Len(trace[p]) + 1] = e
           /\ \A n \in 1..Len(socks[p]) : SockOK(fds[p], socks[p][n], Append(trace[p], e), n)
  <1>1. ProcOK(fds[p], socks[p], trace[p], pending[p])
    BY DEF ProcInv
  <1>2. fds[p] \in [FDs -> Ref] /\ socks[p] \in Seq(Socket) /\ trace[p] \in Seq(Made)
    BY <1>1 DEF ProcOK
  <1>3. DOMAIN fds = PIDs /\ DOMAIN socks = PIDs /\ DOMAIN pending = PIDs
    BY DEF ProcInv, ChainTypeOK
  <1>4. /\ Append(trace[p], e) \in Seq(Made) /\ Len(Append(trace[p], e)) = Len(trace[p]) + 1
        /\ Len(trace[p]) \in Nat /\ Append(trace[p], e)[Len(trace[p]) + 1] = e
    BY <1>2, TraceGrows
  <1>5. \A n \in 1..Len(socks[p]) : SockOK(fds[p], socks[p][n], Append(trace[p], e), n)
    BY <1>1, <1>2, SockOKGrows DEF ProcOK
  <1> QED BY <1>1, <1>2, <1>3, <1>4, <1>5

LEMMA SocketEnterKeeps ==
    ASSUME ProcInv, NEW p \in PIDs, NEW t \in Stamps, SocketEnter(p, t)
    PROVE  ProcInv'
  <1> DEFINE c == Call("socket", FALSE, 0, 0, 0, "")
             e == [call |-> c, ts |-> t]
             more == Append(trace[p], e)
  <1>1. /\ pending' = [pending EXCEPT ![p] = "socket"] /\ life' = life /\ fds' = fds /\ socks' = socks
        /\ Emit(p, c, t)
    BY DEF SocketEnter
  <1>2. c \in ProbedCalls /\ e \in Made
    BY <1>1, CallsProbed, EmitDoes
  <1>3. e.call.sc = "socket" /\ e.call.exit = FALSE
    BY DEF Call
  <1> HIDE DEF c, e
  <1>4. SocketAt(more, Len(more)) /\ Len(more) # 0
    BY <1>2, <1>3, ProcFacts DEF SocketAt
  <1>5. ProcOK(fds[p], socks[p], more, "socket")
    BY <1>2, <1>4, ProcFacts DEF ProcOK
  <1>6. /\ pending'[p] = "socket" /\ DOMAIN pending' = PIDs /\ DOMAIN fds = PIDs /\ DOMAIN socks = PIDs
        /\ \A q \in PIDs : q # p => pending'[q] = pending[q]
    BY <1>1, <1>2, ProcFacts
  <1> QED BY <1>1, <1>2, <1>5, <1>6, EmitKeeps DEF e

LEMMA SocketExitKeeps ==
    ASSUME ProcInv, NEW p \in PIDs, NEW t \in Stamps, SocketExit(p, t)
    PROVE  ProcInv'
  <1> DEFINE free == {fd \in FDs : fds[p][fd] = Closed}
             ss == socks[p]
             f == fds[p]
  <1>1. /\ pending[p] = "socket" /\ pending' = [pending EXCEPT ![p] = "none"] /\ life' = life
    BY DEF SocketExit
  <1>2. /\ DOMAIN pending = PIDs /\ DOMAIN fds = PIDs /\ DOMAIN socks = PIDs
        /\ ProcOK(f, ss, trace[p], "socket")
        /\ f \in [FDs -> Ref] /\ ss \in Seq(Socket) /\ trace[p] \in Seq(Made)
    BY <1>1 DEF ProcInv, ChainTypeOK, ProcOK
  <1>3. /\ pending'[p] = "none" /\ DOMAIN pending' = PIDs
        /\ \A q \in PIDs : q # p => pending'[q] = pending[q]
    BY <1>1, <1>2
  <1>4. CASE Emit(p, Call("socket", TRUE, 0, 0, -1, ""), t) /\ UNCHANGED <<socks, fds>>
    <2> DEFINE c == Call("socket", TRUE, 0, 0, -1, "")
               e == [call |-> c, ts |-> t]
               more == Append(trace[p], e)
    <2>1. c \in ProbedCalls /\ e \in Made
      BY <1>4, CallsProbed, EmitDoes
    <2> HIDE DEF c, e
    <2>2. ProcOK(f, ss, more, "none")
      BY <1>2, <2>1, ProcFacts DEF ProcOK
    <2> QED BY <1>1, <1>2, <1>3, <1>4, <2>1, <2>2, EmitKeeps DEF e, c
  <1>5. CASE /\ free # {}
             /\ Emit(p, Call("socket", TRUE, 0, 0, First(free), ""), t)
             /\ socks' = [socks EXCEPT ![p] = Append(@, [opened |-> Len(trace[p]), dest |-> "", up |-> FALSE])]
             /\ fds' = [fds EXCEPT ![p][First(free)] = Sock(Len(socks[p]) + 1, FALSE)]
    <2> DEFINE c == Call("socket", TRUE, 0, 0, First(free), "")
               e == [call |-> c, ts |-> t]
               more == Append(trace[p], e)
               s == [opened |-> Len(trace[p]), dest |-> "", up |-> FALSE]
               new == Sock(Len(ss) + 1, FALSE)
    <2>1. First(free) \in FDs
      BY <1>5, ChainAssumption, FirstIsLeast
    <2>2. c \in ProbedCalls /\ e \in Made
      BY <1>5, <2>1, CallsProbed, EmitDoes
    <2>3. /\ socks'[p] = Append(ss, s) /\ DOMAIN socks' = PIDs
          /\ fds'[p] = [f EXCEPT ![First(free)] = new] /\ DOMAIN fds' = PIDs
          /\ \A q \in PIDs : q # p => socks'[q] = socks[q] /\ fds'[q] = fds[q]
      BY <1>2, <1>5
    <2>4. Len(trace[p]) \in Nat /\ Len(trace[p]) # 0 /\ SocketAt(trace[p], Len(trace[p]))
      BY <1>2 DEF ProcOK
    <2>50. s \in Socket
      BY <2>4 DEF Socket
    <2>51. s.opened = Len(trace[p]) /\ s.dest = ""
      OBVIOUS
    <2> HIDE DEF s, f, ss
    <2>5. Len(ss) \in Nat /\ Append(ss, s) \in Seq(Socket) /\ Len(Append(ss, s)) = Len(ss) + 1
          /\ (\A n \in 1..Len(ss) : Append(ss, s)[n] = ss[n]) /\ Append(ss, s)[Len(ss) + 1] = s
      BY <1>2, <2>50, AppendProperties
    <2>60. new.kind = "sock" /\ new.n = Len(ss) + 1 /\ new.late = FALSE /\ new \in [kind : {"sock"}, n : Nat, late : BOOLEAN]
      BY <2>5 DEF Sock
    <2>61. \A n : Sock(n, TRUE).late = TRUE
      BY DEF Sock
    <2>62. \A n : new # Sock(n, TRUE)
      BY <2>60, <2>61
    <2> HIDE DEF new
    <2>6. new \in Ref
      BY <2>60 DEF Ref
    <2> HIDE DEF c, e
    <2> DEFINE g == [f EXCEPT ![First(free)] = new]
               us == Append(ss, s)
    <2>8. g \in [FDs -> Ref]
      BY <1>2, <2>1, <2>6
    <2>9. \A fd \in FDs : g[fd] = IF fd = First(free) THEN new ELSE f[fd]
      BY <1>2, <2>1
    <2> HIDE DEF g, us
    <2>10. ASSUME NEW fd \in FDs, g[fd].kind = "sock" PROVE g[fd].n \in 1..Len(us)
      <3>1. Len(us) = Len(ss) + 1 /\ Len(ss) \in Nat
        BY <2>5 DEF us
      <3>2. f[fd].kind = "sock" => f[fd].n \in 1..Len(ss)
        BY <1>2 DEF ProcOK
      <3>3. CASE fd = First(free)
        <4>1. g[fd].n = Len(ss) + 1
          BY <2>9, <2>60, <3>3
        <4> QED BY <3>1, <4>1
      <3>4. CASE fd # First(free)
        <4>1. g[fd] = f[fd]
          BY <2>9, <3>4
        <4>2. f[fd].n \in 1..Len(ss)
          BY <2>10, <3>2, <4>1
        <4> QED BY <3>1, <4>1, <4>2
      <3> QED BY <3>3, <3>4
    <2>11. \A n : WiredIn(g, n) \subseteq WiredIn(f, n)
      BY <2>62, <2>9 DEF WiredIn
    <2>12. ASSUME NEW n \in 1..Len(ss) PROVE SockOK(g, us[n], more, n)
      <3>1. SockOK(f, ss[n], more, n) /\ us[n] = ss[n]
        BY <2>2, <2>5, ProcFacts DEF f, ss, us
      <3> QED BY <2>11, <3>1 DEF SockOK
    <2>13. WiredIn(g, Len(ss) + 1) = {}
      <3>1. \A fd \in FDs : f[fd] # Sock(Len(ss) + 1, TRUE)
        <4>1. Sock(Len(ss) + 1, TRUE).kind = "sock" /\ Sock(Len(ss) + 1, TRUE).n = Len(ss) + 1
          BY DEF Sock
        <4>2. \A fd \in FDs : f[fd].kind = "sock" => f[fd].n \in 1..Len(ss)
          BY <1>2 DEF ProcOK
        <4>3. Len(ss) + 1 \notin 1..Len(ss)
          BY <2>5
        <4> QED BY <4>1, <4>2, <4>3
      <3> QED BY <2>11, <3>1 DEF WiredIn
    <2>14. SockOK(g, us[Len(ss) + 1], more, Len(ss) + 1)
      <3>1. us[Len(ss) + 1] = s
        BY <2>5 DEF us
      <3>2. Len(trace[p]) \in 1..Len(more) /\ more[Len(trace[p])] = trace[p][Len(trace[p])]
        BY <1>2, <2>2, <2>4, TraceGrows
      <3> QED BY <2>4, <2>51, <2>13, <3>1, <3>2 DEF SockOK, SocketAt
    <2>15. \A n \in 1..Len(us) : SockOK(g, us[n], more, n)
      <3>1. Len(us) = Len(ss) + 1 /\ Len(ss) \in Nat
        BY <2>5 DEF us
      <3> QED BY <2>12, <2>14, <3>1
    <2>16. us \in Seq(Socket) /\ more \in Seq(Made)
      BY <2>2, <2>5, ProcFacts DEF us
    <2>17. ProcOK(g, us, more, "none")
      BY <2>8, <2>10, <2>15, <2>16 DEF ProcOK
    <2>18. Emit(p, c, t)
      BY <1>5 DEF c, f
    <2>19. fds'[p] = g /\ socks'[p] = us /\ more = Append(trace[p], [call |-> c, ts |-> t])
      BY <2>3 DEF g, us, e
    <2> HIDE DEF more
    <2>20. ProcOK(fds'[p], socks'[p], Append(trace[p], [call |-> c, ts |-> t]), pending'[p])
      BY <1>3, <2>17, <2>19
    <2> QED BY <1>1, <1>3, <2>2, <2>3, <2>18, <2>20, EmitKeeps
  <1> QED BY <1>4, <1>5 DEF SocketExit

\* One socket of a process changes.
LEMMA SocketChanges ==
    ASSUME NEW ss \in Seq(Socket), NEW n \in 1..Len(ss), NEW s \in Socket
    PROVE  /\ [ss EXCEPT ![n] = s] \in Seq(Socket) /\ Len([ss EXCEPT ![n] = s]) = Len(ss)
           /\ \A m \in 1..Len(ss) : [ss EXCEPT ![n] = s][m] = IF m = n THEN s ELSE ss[m]
  BY ExceptSeq

\* Unwiring streams leaves what is known of a socket true.
LEMMA SockOKUnwired ==
    ASSUME NEW f, NEW g, NEW s, NEW tr, NEW n, SockOK(f, s, tr, n), WiredIn(g, n) \subseteq WiredIn(f, n)
    PROVE  SockOK(g, s, tr, n)
  BY DEF SockOK

\* The socket a descriptor refers to.
LEMMA SockOfFD ==
    ASSUME NEW f, NEW ss, NEW tr, NEW pend, ProcOK(f, ss, tr, pend), NEW fd \in FDs, f[fd].kind = "sock"
    PROVE  f[fd].n \in 1..Len(ss) /\ ss[f[fd].n] \in Socket
  <1>1. f[fd].n \in 1..Len(ss) /\ ss \in Seq(Socket)
    BY DEF ProcOK
  <1> QED BY <1>1

LEMMA ConnectEnterKeeps ==
    ASSUME ProcInv, NEW p \in PIDs, NEW t \in Stamps, ConnectEnter(p, t)
    PROVE  ProcInv'
  <1> DEFINE f == fds[p]
             ss == socks[p]
             tr == trace[p]
  <1>1. PICK fd \in FDs, d \in Dests :
              /\ f[fd].kind = "sock"
              /\ Emit(p, Call("connect", FALSE, fd, 0, 0, d), t)
              /\ socks' = [socks EXCEPT ![p][fds[p][fd].n].dest = d]
              /\ pending' = [pending EXCEPT ![p] = "connect"]
              /\ life' = life /\ fds' = fds
    BY DEF ConnectEnter
  <1> DEFINE c == Call("connect", FALSE, fd, 0, 0, d)
             e == [call |-> c, ts |-> t]
             more == Append(tr, e)
             n == f[fd].n
             s == [ss[n] EXCEPT !.dest = d]
             us == [ss EXCEPT ![n] = s]
  <1>2. c \in ProbedCalls /\ e \in Made
    BY <1>1, CallsProbed, EmitDoes
  <1>3. e.call.sc = "connect" /\ e.call.exit = FALSE /\ e.call.arg0 = fd
    BY DEF Call
  <1>4. c = Call("connect", FALSE, fd, 0, 0, d) /\ e = [call |-> c, ts |-> t]
    OBVIOUS
  <1> HIDE DEF c, e
  <1>5. /\ ProcOK(f, ss, tr, pending[p]) /\ f \in [FDs -> Ref] /\ ss \in Seq(Socket)
        /\ DOMAIN fds = PIDs /\ DOMAIN socks = PIDs /\ DOMAIN pending = PIDs
        /\ more \in Seq(Made) /\ Len(more) = Len(tr) + 1 /\ Len(tr) \in Nat /\ more[Len(tr) + 1] = e
        /\ \A m \in 1..Len(ss) : SockOK(f, ss[m], more, m)
    BY <1>2, ProcFacts
  <1>6. /\ socks'[p] = us /\ DOMAIN socks' = PIDs /\ pending'[p] = "connect" /\ DOMAIN pending' = PIDs
        /\ \A q \in PIDs : q # p => socks'[q] = socks[q] /\ pending'[q] = pending[q]
    BY <1>1, <1>5
  <1>7. n \in 1..Len(ss) /\ ss[n] \in Socket
    <2>1. fd \in FDs /\ f[fd].kind = "sock"
      BY <1>1
    <2> HIDE DEF f, ss
    <2> QED BY <1>5, <2>1, SockOfFD DEF n
  <1>8. s \in Socket /\ s.opened = ss[n].opened /\ s.dest = d /\ d # ""
    BY <1>7, ChainAssumption DEF Socket
  <1> HIDE DEF s, n, ss, f, tr, us
  <1>9. us \in Seq(Socket) /\ Len(us) = Len(ss) /\ \A m \in 1..Len(ss) : us[m] = IF m = n THEN s ELSE ss[m]
    <2>1. ss \in Seq(Socket) /\ n \in 1..Len(ss) /\ s \in Socket
      BY <1>5, <1>7, <1>8
    <2> QED BY <2>1, SocketChanges DEF us
  <1>10. SockOK(f, s, more, n)
    <2>1. SockOK(f, ss[n], more, n) /\ SockOK(f, ss[n], tr, n)
      BY <1>5, <1>7 DEF ProcOK
    <2>2. CASE ss[n].dest = ""
      <3>1. s.opened \in 1..Len(tr) /\ WiredIn(f, n) = {}
        BY <2>1, <2>2, <1>8 DEF SockOK
      <3>2. ConnectAt(more, Len(more)) /\ Len(more) \in 1..Len(more) /\ s.opened < Len(more)
        BY <1>3, <1>5, <3>1 DEF ConnectAt
      <3>3. s.opened \in 1..Len(more) /\ SocketAt(more, s.opened)
        BY <2>1, <1>8 DEF SockOK
      <3> QED BY <3>1, <3>2, <3>3, <1>8 DEF SockOK
    <2>3. CASE ss[n].dest # ""
      BY <2>1, <2>3, <1>8 DEF SockOK
    <2> QED BY <2>2, <2>3
  <1>11. \A m \in 1..Len(us) : SockOK(f, us[m], more, m)
    BY <1>5, <1>9, <1>10
  <1>12. \A x \in FDs : f[x].kind = "sock" => f[x].n \in 1..Len(us)
    BY <1>5, <1>9 DEF ProcOK
  <1>13. Len(more) # 0 /\ more[Len(more)].call.arg0 = fd
    BY <1>3, <1>5
  <1> HIDE DEF more
  <1>14. ProcOK(f, us, more, "connect")
    BY <1>1, <1>5, <1>9, <1>11, <1>12, <1>13 DEF ProcOK, f
  <1>15. ProcOK(fds'[p], socks'[p], Append(trace[p], [call |-> c, ts |-> t]), pending'[p])
    BY <1>1, <1>4, <1>6, <1>14 DEF f, more, tr
  <1> QED BY <1>1, <1>2, <1>4, <1>5, <1>6, <1>15, EmitKeeps

LEMMA ConnectExitKeeps ==
    ASSUME ProcInv, NEW p \in PIDs, NEW t \in Stamps, ConnectExit(p, t)
    PROVE  ProcInv'
  <1> DEFINE f == fds[p]
             ss == socks[p]
             tr == trace[p]
             fd == tr[Len(tr)].call.arg0
  <1>1. PICK ok \in BOOLEAN :
              /\ pending[p] = "connect"
              /\ pending' = [pending EXCEPT ![p] = "none"]
              /\ Emit(p, Call("connect", TRUE, 0, 0, IF ok THEN 0 ELSE -1, ""), t)
              /\ socks' = [socks EXCEPT ![p][f[fd].n].up = ok]
              /\ life' = life /\ fds' = fds
    BY DEF ConnectExit
  <1> DEFINE c == Call("connect", TRUE, 0, 0, IF ok THEN 0 ELSE -1, "")
             e == [call |-> c, ts |-> t]
             more == Append(tr, e)
             n == f[fd].n
             s == [ss[n] EXCEPT !.up = ok]
             us == [ss EXCEPT ![n] = s]
  <1>2. c \in ProbedCalls /\ e \in Made
    BY <1>1, CallsProbed, EmitDoes
  <1>4. c = Call("connect", TRUE, 0, 0, IF ok THEN 0 ELSE -1, "") /\ e = [call |-> c, ts |-> t]
    OBVIOUS
  <1> HIDE DEF c, e
  <1>5. /\ ProcOK(f, ss, tr, "connect") /\ f \in [FDs -> Ref] /\ ss \in Seq(Socket)
        /\ DOMAIN fds = PIDs /\ DOMAIN socks = PIDs /\ DOMAIN pending = PIDs
        /\ more \in Seq(Made)
        /\ \A m \in 1..Len(ss) : SockOK(f, ss[m], more, m)
    BY <1>1, <1>2, ProcFacts
  <1>6. /\ socks'[p] = us /\ DOMAIN socks' = PIDs /\ pending'[p] = "none" /\ DOMAIN pending' = PIDs
        /\ \A q \in PIDs : q # p => socks'[q] = socks[q] /\ pending'[q] = pending[q]
    BY <1>1, <1>5
  <1> HIDE DEF ss, f, tr
  <1>70. fd \in FDs /\ f[fd].kind = "sock"
    BY <1>5 DEF ProcOK
  <1> HIDE DEF fd
  <1>7. n \in 1..Len(ss) /\ ss[n] \in Socket
    BY <1>5, <1>70, SockOfFD
  <1>8. s \in Socket /\ s.opened = ss[n].opened /\ s.dest = ss[n].dest
    BY <1>7 DEF Socket
  <1> HIDE DEF s, n, us
  <1>9. us \in Seq(Socket) /\ Len(us) = Len(ss) /\ \A m \in 1..Len(ss) : us[m] = IF m = n THEN s ELSE ss[m]
    BY <1>5, <1>7, <1>8, SocketChanges DEF us
  <1>10. SockOK(f, s, more, n)
    <2>1. SockOK(f, ss[n], more, n)
      BY <1>5, <1>7
    <2> QED BY <2>1, <1>8 DEF SockOK
  <1>11. \A m \in 1..Len(us) : SockOK(f, us[m], more, m)
    BY <1>5, <1>9, <1>10
  <1>12. \A x \in FDs : f[x].kind = "sock" => f[x].n \in 1..Len(us)
    BY <1>5, <1>9 DEF ProcOK
  <1> HIDE DEF more
  <1>14. ProcOK(f, us, more, "none")
    BY <1>5, <1>9, <1>11, <1>12 DEF ProcOK
  <1>15. ProcOK(fds'[p], socks'[p], Append(trace[p], [call |-> c, ts |-> t]), pending'[p])
    BY <1>1, <1>4, <1>6, <1>14 DEF f, more, tr
  <1> QED BY <1>1, <1>2, <1>4, <1>5, <1>6, <1>15, EmitKeeps

LEMMA DupKeeps ==
    ASSUME ProcInv, NEW p \in PIDs, NEW t \in Stamps, Dup(p, t)
    PROVE  ProcInv'
  <1> DEFINE f == fds[p]
             ss == socks[p]
             tr == trace[p]
  <1>1. PICK old \in FDs \ StdFDs, new \in StdFDs :
              /\ pending[p] = "none"
              /\ f[old] # Closed
              /\ Emit(p, Call("dup2", FALSE, old, new, 0, ""), t)
              /\ fds' = [fds EXCEPT ![p][new] =
                            IF f[old].kind = "sock" THEN Sock(f[old].n, ss[f[old].n].dest # "") ELSE f[old]]
              /\ life' = life /\ socks' = socks /\ pending' = pending
    BY DEF Dup
  <1> DEFINE c == Call("dup2", FALSE, old, new, 0, "")
             e == [call |-> c, ts |-> t]
             more == Append(tr, e)
             src == f[old]
             r == IF src.kind = "sock" THEN Sock(src.n, ss[src.n].dest # "") ELSE src
             g == [f EXCEPT ![new] = r]
  <1>2. c \in ProbedCalls /\ e \in Made
    BY <1>1, CallsProbed, EmitDoes
  <1>3. e.call.sc = "dup2" /\ e.call.exit = FALSE /\ e.call.arg1 = new
    BY DEF Call
  <1>4. c = Call("dup2", FALSE, old, new, 0, "") /\ e = [call |-> c, ts |-> t]
    OBVIOUS
  <1> HIDE DEF c, e
  <1>5. /\ ProcOK(f, ss, tr, "none") /\ f \in [FDs -> Ref] /\ ss \in Seq(Socket)
        /\ DOMAIN fds = PIDs /\ DOMAIN socks = PIDs /\ DOMAIN pending = PIDs
        /\ more \in Seq(Made) /\ Len(more) = Len(tr) + 1 /\ Len(tr) \in Nat /\ more[Len(tr) + 1] = e
        /\ \A m \in 1..Len(ss) : SockOK(f, ss[m], more, m)
    BY <1>1, <1>2, ProcFacts
  <1>6. /\ fds'[p] = g /\ DOMAIN fds' = PIDs
        /\ \A q \in PIDs : q # p => fds'[q] = fds[q]
    BY <1>1, <1>5
  <1> HIDE DEF r
  <1>7. \A x \in FDs : x # new => g[x] = f[x]
    BY <1>5
  <1>8. \A x \in FDs : x = new => g[x] = r
    BY <1>5
  <1>9. old \in FDs /\ src \in Ref
    BY <1>5
  <1> HIDE DEF f, ss, tr, src, g
  <1>10. ASSUME src.kind = "sock" PROVE ProcOK(g, ss, more, "none")
    <2> DEFINE n == src.n
               late == ss[src.n].dest # ""
    <2>1. n \in 1..Len(ss) /\ ss[n] \in Socket
      BY <1>5, <1>9, <1>10, SockOfFD DEF src
    <2>2. r = Sock(n, late) /\ late \in BOOLEAN
      BY <1>10 DEF r
    <2>3. Len(ss) \in Nat
      BY <1>5
    <2> HIDE DEF n
    <2>4. n \in Nat
      BY <2>1, <2>3
    <2>5. late = (ss[n].dest # "")
      BY DEF n
    <2> HIDE DEF late
    <2>6. r.kind = "sock" /\ r.n = n /\ r.late = late /\ r \in [kind : {"sock"}, n : Nat, late : BOOLEAN]
      BY <2>2, <2>4 DEF Sock
    <2>7. r \in Ref
      BY <2>6 DEF Ref
    <2>8. g \in [FDs -> Ref]
      BY <1>5, <2>7 DEF g
    <2>9. \A x \in FDs : g[x].kind = "sock" => g[x].n \in 1..Len(ss)
      <3>1. \A x \in FDs : f[x].kind = "sock" => f[x].n \in 1..Len(ss)
        BY <1>5 DEF ProcOK
      <3> QED BY <3>1, <2>1, <2>6, <1>7, <1>8
    <2>10. ASSUME NEW m \in 1..Len(ss) PROVE SockOK(g, ss[m], more, m)
      <3>1. SockOK(f, ss[m], more, m)  /\ SockOK(f, ss[m], tr, m)
        BY <1>5 DEF ProcOK
      <3>2. CASE m = n /\ late
        <4>1. ss[m].dest # ""
          BY <2>5, <3>2
        <4>2. PICK j \in 1..Len(tr) :
                  /\ ss[m].opened < j /\ ConnectAt(tr, j)
                  /\ \A x \in WiredIn(f, m) : \E i \in 1..Len(tr) : j < i /\ DupAt(tr, i, x)
          BY <3>1, <4>1 DEF SockOK
        <4>3. 1..Len(tr) \subseteq 1..Len(more) /\ (\A i \in 1..Len(tr) : more[i] = tr[i]) /\ j \in 1..Len(more)
          <5>1. tr \in Seq(Made)
            BY <1>5 DEF ProcOK
          <5> QED BY <1>2, <5>1, TraceGrows
        <4>4. ConnectAt(more, j)
          BY <4>2, <4>3 DEF ConnectAt
        <4>5. DupAt(more, Len(more), new) /\ j < Len(more) /\ Len(more) \in 1..Len(more)
          BY <1>3, <1>5 DEF DupAt
        <4>6. \A x \in WiredIn(g, m) : x = new \/ x \in WiredIn(f, m)
          BY <1>7 DEF WiredIn
        <4>7. \A x \in WiredIn(g, m) : \E i \in 1..Len(more) : j < i /\ DupAt(more, i, x)
          <5> TAKE x \in WiredIn(g, m)
          <5>1. CASE x = new
            BY <4>5, <5>1
          <5>2. CASE x \in WiredIn(f, m)
            <6>1. PICK i \in 1..Len(tr) : j < i /\ DupAt(tr, i, x)
              BY <4>2, <5>2
            <6>2. i \in 1..Len(more) /\ DupAt(more, i, x)
              BY <4>3, <6>1 DEF DupAt
            <6> QED BY <6>1, <6>2
          <5> QED BY <4>6, <5>1, <5>2
        <4> QED BY <3>1, <4>1, <4>2, <4>3, <4>4, <4>7 DEF SockOK
      <3>3. CASE ~(m = n /\ late)
        <4>1. r # Sock(m, TRUE)
          <5>1. Sock(m, TRUE).n = m /\ Sock(m, TRUE).late = TRUE
            BY DEF Sock
          <5> QED BY <2>6, <3>3, <5>1
        <4>2. WiredIn(g, m) \subseteq WiredIn(f, m)
          BY <1>7, <1>8, <4>1 DEF WiredIn
        <4> QED BY <3>1, <4>2, SockOKUnwired
      <3> QED BY <3>2, <3>3
    <2> HIDE DEF more
    <2> QED BY <1>5, <2>8, <2>9, <2>10 DEF ProcOK
  <1>11. ASSUME src.kind # "sock" PROVE ProcOK(g, ss, more, "none")
    <2>1. r = File
      BY <1>1, <1>9, <1>11 DEF r, Ref, src
    <2>2. r \in Ref /\ r.kind # "sock"
      BY <2>1 DEF Ref, File
    <2>3. g \in [FDs -> Ref]
      BY <1>5, <2>2 DEF g
    <2>4. \A x \in FDs : g[x].kind = "sock" => g[x].n \in 1..Len(ss)
      <3>1. \A x \in FDs : f[x].kind = "sock" => f[x].n \in 1..Len(ss)
        BY <1>5 DEF ProcOK
      <3> QED BY <3>1, <2>2, <1>7, <1>8
    <2>5. \A m : Sock(m, TRUE).kind = "sock"
      BY DEF Sock
    <2>6. \A m : WiredIn(g, m) \subseteq WiredIn(f, m)
      BY <1>7, <1>8, <2>2, <2>5 DEF WiredIn
    <2>7. \A m \in 1..Len(ss) : SockOK(g, ss[m], more, m)
      BY <1>5, <2>6, SockOKUnwired
    <2> HIDE DEF more
    <2> QED BY <1>5, <2>3, <2>4, <2>7 DEF ProcOK
  <1> HIDE DEF more
  <1>12. ProcOK(g, ss, more, "none")
    BY <1>10, <1>11
  <1>13. ProcOK(fds'[p], socks'[p], Append(trace[p], [call |-> c, ts |-> t]), pending'[p])
    BY <1>1, <1>4, <1>6, <1>12 DEF ss, more, tr
  <1> QED BY <1>1, <1>2, <1>4, <1>5, <1>6, <1>13, EmitKeeps

LEMMA ReopenKeeps ==
    ASSUME ProcInv, NEW p \in PIDs, NEW fd \in FDs, Reopen(p, fd)
    PROVE  ProcInv'
  <1> DEFINE f == fds[p]
             ss == socks[p]
             tr == trace[p]
             g == [f EXCEPT ![fd] = File]
  <1>1. /\ pending[p] = "none" /\ fds' = [fds EXCEPT ![p][fd] = File]
        /\ life' = life /\ socks' = socks /\ pending' = pending /\ trace' = trace
    BY DEF Reopen
  <1>2. /\ ProcOK(f, ss, tr, "none") /\ f \in [FDs -> Ref] /\ tr \in Seq(Made)
        /\ DOMAIN fds = PIDs /\ DOMAIN socks = PIDs /\ DOMAIN pending = PIDs /\ DOMAIN trace = PIDs
    BY <1>1 DEF ProcInv, ChainTypeOK, ProcOK
  <1>3. fds'[p] = g /\ DOMAIN fds' = PIDs /\ \A q \in PIDs : q # p => fds'[q] = fds[q]
    BY <1>1, <1>2
  <1>4. \A x \in FDs : g[x] = IF x = fd THEN File ELSE f[x]
    BY <1>2
  <1>5. File \in Ref /\ File.kind # "sock" /\ \A m : Sock(m, TRUE).kind = "sock"
    BY DEF Ref, File, Sock
  <1>6. g \in [FDs -> Ref]
    BY <1>2, <1>5
  <1> HIDE DEF g, f, ss, tr
  <1>7. \A m : WiredIn(g, m) \subseteq WiredIn(f, m)
    BY <1>4, <1>5 DEF WiredIn
  <1>8. \A m \in 1..Len(ss) : SockOK(g, ss[m], tr, m)
    <2>1. \A m \in 1..Len(ss) : SockOK(f, ss[m], tr, m)
      BY <1>2 DEF ProcOK
    <2> QED BY <1>7, <2>1, SockOKUnwired
  <1>9. \A x \in FDs : g[x].kind = "sock" => g[x].n \in 1..Len(ss)
    <2>1. \A x \in FDs : f[x].kind = "sock" => f[x].n \in 1..Len(ss)
      BY <1>2 DEF ProcOK
    <2> QED BY <1>4, <1>5, <2>1
  <1>10. ProcOK(g, ss, tr, "none")
    BY <1>2, <1>6, <1>8, <1>9 DEF ProcOK
  <1>11. ProcOK(fds'[p], socks'[p], trace'[p], pending'[p])
    BY <1>1, <1>3, <1>10 DEF ss, tr
  <1>12. Len(trace[p]) \in Nat /\ Len(trace'[p]) \in Nat /\ Len(trace[p]) <= Len(trace'[p])
    BY <1>1, <1>2 DEF tr
  <1> QED BY <1>1, <1>2, <1>3, <1>11, <1>12, OneProcess

LEMMA ExecveKeeps ==
    ASSUME ProcInv, NEW p \in PIDs, NEW t \in Stamps, Execve(p, t)
    PROVE  ProcInv'
  <1> DEFINE c == Call("execve", FALSE, 0, 0, 0, "")
             e == [call |-> c, ts |-> t]
             more == Append(trace[p], e)
  <1>1. /\ pending[p] = "none" /\ Emit(p, c, t)
        /\ life' = life /\ fds' = fds /\ socks' = socks /\ pending' = pending
    BY DEF Execve
  <1>2. c \in ProbedCalls /\ e \in Made
    BY <1>1, CallsProbed, EmitDoes
  <1> HIDE DEF c
  <1>3. e = [call |-> c, ts |-> t]
    OBVIOUS
  <1> HIDE DEF e
  <1>4. /\ ProcOK(fds[p], socks[p], trace[p], "none") /\ DOMAIN fds = PIDs /\ DOMAIN socks = PIDs
        /\ DOMAIN pending = PIDs /\ more \in Seq(Made)
        /\ \A n \in 1..Len(socks[p]) : SockOK(fds[p], socks[p][n], more, n)
    BY <1>1, <1>2, ProcFacts
  <1> HIDE DEF more
  <1>5. ProcOK(fds[p], socks[p], more, "none")
    BY <1>4 DEF ProcOK
  <1>6. ProcOK(fds'[p], socks'[p], Append(trace[p], [call |-> c, ts |-> t]), pending'[p])
    BY <1>1, <1>3, <1>5 DEF more
  <1> QED BY <1>1, <1>2, <1>4, <1>6, EmitKeeps

\* A process that has just started.
LEMMA FreshProcess ==
    ASSUME NEW tr \in Seq(Made)
    PROVE  ProcOK(StartFDs, <<>>, tr, "none")
  <1>1. StartFDs \in [FDs -> Ref] /\ \A fd \in FDs : StartFDs[fd].kind # "sock"
    BY DEF StartFDs, Ref, File, Closed
  <1>2. <<>> \in Seq(Socket) /\ Len(<<>>) = 0
    OBVIOUS
  <1> QED BY <1>1, <1>2 DEF ProcOK

LEMMA ExitAndReuseKeeps ==
    ASSUME ProcInv, NEW p \in PIDs, ExitAndReuse(p)
    PROVE  ProcInv'
  <1>1. /\ life' = [life EXCEPT ![p] = [n |-> @.n + 1, past |-> Len(trace[p])]]
        /\ fds' = [fds EXCEPT ![p] = StartFDs] /\ socks' = [socks EXCEPT ![p] = <<>>]
        /\ pending' = [pending EXCEPT ![p] = "none"] /\ trace' = trace
    BY DEF ExitAndReuse
  <1>2. /\ DOMAIN fds = PIDs /\ DOMAIN socks = PIDs /\ DOMAIN pending = PIDs /\ DOMAIN trace = PIDs
        /\ life \in [PIDs -> [n : Nat \ {0}, past : Nat]]
    BY DEF ProcInv, ChainTypeOK
  <1>3. trace[p] \in Seq(Made) /\ Len(trace[p]) \in Nat
    BY DEF ProcInv, ProcOK
  <1>4. ChainTypeOK'
    BY <1>1, <1>2, <1>3 DEF ChainTypeOK
  <1>5. \A q \in PIDs : ProcOK(fds'[q], socks'[q], trace'[q], pending'[q])
    <2> TAKE q \in PIDs
    <2>1. CASE q = p
      <3>1. fds'[p] = StartFDs /\ socks'[p] = <<>> /\ pending'[p] = "none" /\ trace'[p] = trace[p]
        BY <1>1, <1>2
      <3> QED BY <1>3, <2>1, <3>1, FreshProcess
    <2>2. CASE q # p
      <3>1. fds'[q] = fds[q] /\ socks'[q] = socks[q] /\ pending'[q] = pending[q] /\ trace'[q] = trace[q]
        BY <1>1, <1>2, <2>2
      <3> QED BY <3>1 DEF ProcInv
    <2> QED BY <2>1, <2>2
  <1>6. ASSUME NEW q \in PIDs
        PROVE  life'[q].past <= Len(trace'[q]) /\ (life'[q].n = 1 => life'[q].past = 0)
    <2>1. CASE q = p
      <3>1. life'[p] = [n |-> life[p].n + 1, past |-> Len(trace[p])] /\ life[p].n \in Nat \ {0}
        BY <1>1, <1>2
      <3> QED BY <1>1, <1>3, <2>1, <3>1
    <2>2. CASE q # p
      <3>1. life'[q] = life[q] /\ trace'[q] = trace[q]
        BY <1>1, <1>2, <2>2
      <3> QED BY <3>1 DEF ProcInv
    <2> QED BY <2>1, <2>2
  <1> QED BY <1>4, <1>5, <1>6 DEF ProcInv

LEMMA ChainStart == ChainInit => ProcInv
  <1> SUFFICES ASSUME ChainInit PROVE ProcInv
    OBVIOUS
  <1>1. ChainTypeOK
    BY DEF ChainInit, ChainTypeOK
  <1>2. \A p \in PIDs : /\ fds[p] = StartFDs /\ socks[p] = <<>> /\ pending[p] = "none" /\ trace[p] = <<>>
                        /\ life[p].past = 0
    BY DEF ChainInit
  <1>3. <<>> \in Seq(Made) /\ Len(<<>>) = 0
    OBVIOUS
  <1>4. \A p \in PIDs : ProcOK(fds[p], socks[p], trace[p], pending[p])
    BY <1>2, <1>3, FreshProcess
  <1> QED BY <1>1, <1>2, <1>3, <1>4 DEF ProcInv

LEMMA ProcInvStep == ProcInv /\ [ChainNext]_allVars => ProcInv'
  <1> SUFFICES ASSUME ProcInv, [ChainNext]_allVars PROVE ProcInv'
    OBVIOUS
  <1>1. CASE UNCHANGED allVars
    BY <1>1 DEF allVars, chainVars, ProcInv, ChainTypeOK
  <1>2. ASSUME NEW p \in PIDs, NEW t \in Stamps, SocketEnter(p, t) \/ SocketExit(p, t)
        PROVE  ProcInv'
    BY <1>2, SocketEnterKeeps, SocketExitKeeps
  <1>3. ASSUME NEW p \in PIDs, NEW t \in Stamps, ConnectEnter(p, t) \/ ConnectExit(p, t)
        PROVE  ProcInv'
    BY <1>3, ConnectEnterKeeps, ConnectExitKeeps
  <1>4. ASSUME NEW p \in PIDs, NEW t \in Stamps, Dup(p, t) \/ Execve(p, t)
        PROVE  ProcInv'
    BY <1>4, DupKeeps, ExecveKeeps
  <1>5. ASSUME NEW p \in PIDs, NEW fd \in FDs, Reopen(p, fd)
        PROVE  ProcInv'
    BY <1>5, ReopenKeeps
  <1>6. ASSUME NEW p \in PIDs, ExitAndReuse(p)
        PROVE  ProcInv'
    BY <1>6, ExitAndReuseKeeps
  <1> QED BY <1>1, <1>2, <1>3, <1>4, <1>5, <1>6 DEF ChainNext

-----------------------------------------------------------------------------
(* What the tracker holds of a trace.                                      *)

\* h is the end of l.
EndOf(h, l) ==
    Len(h) <= Len(l) /\ \A i \in 1..Len(h) : h[i] = l[(Len(l) - Len(h)) + i]

\* A history holds the latest calls of its pid, whichever process made them.
EndsTrace == \A p \in PIDs : EndOf(entries[p], trace[p])

\* The log, when it is never cleared, holds the last Depth of them.
LogIsTrace ==
    \A p \in PIDs : /\ EndOf(log[p], trace[p])
                    /\ Len(log[p]) = Depth \/ Len(log[p]) = Len(trace[p])

\* A step of the composition: one tracked call, or nothing for the tracker.
LEMMA StepShape ==
    ASSUME ProcInv, [ChainNext]_allVars
    PROVE  \/ vars' = vars /\ trace' = trace
           \/ \E p \in PIDs, c \in ProbedCalls, t \in Stamps : Emit(p, c, t)
  <1>1. CASE UNCHANGED allVars
    BY <1>1 DEF allVars, chainVars
  <1>2. ASSUME NEW p \in PIDs, NEW t \in Stamps, SocketEnter(p, t)
        PROVE  \E c \in ProbedCalls : Emit(p, c, t)
    BY <1>2, CallsProbed DEF SocketEnter
  <1>3. ASSUME NEW p \in PIDs, NEW t \in Stamps, SocketExit(p, t)
        PROVE  \E c \in ProbedCalls : Emit(p, c, t)
    <2> DEFINE free == {fd \in FDs : fds[p][fd] = Closed}
    <2>1. \/ free # {} /\ Emit(p, Call("socket", TRUE, 0, 0, First(free), ""), t)
          \/ Emit(p, Call("socket", TRUE, 0, 0, -1, ""), t)
      BY <1>3 DEF SocketExit
    <2>2. free # {} => First(free) \in FDs
      BY ChainAssumption, FirstIsLeast
    <2> HIDE DEF free
    <2> QED BY <2>1, <2>2, CallsProbed
  <1>4. ASSUME NEW p \in PIDs, NEW t \in Stamps, ConnectEnter(p, t)
        PROVE  \E c \in ProbedCalls : Emit(p, c, t)
    BY <1>4, CallsProbed DEF ConnectEnter
  <1>5. ASSUME NEW p \in PIDs, NEW t \in Stamps, ConnectExit(p, t)
        PROVE  \E c \in ProbedCalls : Emit(p, c, t)
    <2>1. PICK ok \in BOOLEAN : Emit(p, Call("connect", TRUE, 0, 0, IF ok THEN 0 ELSE -1, ""), t)
      BY <1>5 DEF ConnectExit
    <2>2. (IF ok THEN 0 ELSE -1) \in {0, -1}
      OBVIOUS
    <2> QED BY <2>1, <2>2, CallsProbed
  <1>6. ASSUME NEW p \in PIDs, NEW t \in Stamps, Dup(p, t)
        PROVE  \E c \in ProbedCalls : Emit(p, c, t)
    BY <1>6, CallsProbed DEF Dup
  <1>7. ASSUME NEW p \in PIDs, NEW t \in Stamps, Execve(p, t)
        PROVE  \E c \in ProbedCalls : Emit(p, c, t)
    BY <1>7, CallsProbed DEF Execve
  <1>8. ASSUME NEW p \in PIDs, NEW fd \in FDs, Reopen(p, fd)
        PROVE  vars' = vars /\ trace' = trace
    BY <1>8 DEF Reopen
  <1>9. ASSUME NEW p \in PIDs, ExitAndReuse(p)
        PROVE  vars' = vars /\ trace' = trace
    BY <1>9 DEF ExitAndReuse
  <1> QED BY <1>1, <1>2, <1>3, <1>4, <1>5, <1>6, <1>7, <1>8, <1>9 DEF ChainNext

\* So it is a step of the tracker ...
LEMMA TrackerStep ==
    ASSUME ProcInv, [ChainNext]_allVars
    PROVE  [Next]_vars
  <1>1. CASE vars' = vars
    BY <1>1
  <1>2. ASSUME NEW p \in PIDs, NEW c \in ProbedCalls, NEW t \in Stamps, Emit(p, c, t)
        PROVE  Next
    <2>1. Record(p, c, t) /\ c \in Calls /\ t \in Times
      BY <1>2, EmitDoes
    <2> QED BY <2>1 DEF Next
  <1> QED BY <1>1, <1>2, StepShape

\* ... that appends to one history, after the sweep.
LEMMA EmitRecords ==
    ASSUME ProcInv, IInv, NEW p \in PIDs, NEW c \in ProbedCalls, NEW t \in Stamps, Emit(p, c, t)
    PROVE  /\ [call |-> c, ts |-> t] \in Entry /\ RecordTracked(p, c, t)
           /\ \E h \in {entries[p], <<>>} : entries'[p] = Trim(Append(h, [call |-> c, ts |-> t]))
           /\ \A q \in PIDs : q # p => entries'[q] \in {entries[q], <<>>}
  <1>1. Record(p, c, t) /\ c \in Calls /\ t \in Times
    BY EmitDoes
  <1>2. tracked(c.sc)
    BY DEF ProbedCalls, tracked
  <1>3. RecordTracked(p, c, t)
    BY <1>1, <1>2 DEF Record, RecordUntracked
  <1> DEFINE e == [call |-> c, ts |-> t]
             old == [q \in PIDs |-> IF q \in Survivors(t) THEN entries[q] ELSE <<>>]
  <1>4. entries' = [old EXCEPT ![p] = Trim(Append(old[p], e))]
    BY <1>3 DEF RecordTracked
  <1>5. \A q \in PIDs : old[q] \in {entries[q], <<>>}
    OBVIOUS
  <1>6. DOMAIN old = PIDs
    OBVIOUS
  <1>7. e \in Entry
    BY <1>1 DEF Entry
  <1> HIDE DEF old, e
  <1>8. entries'[p] = Trim(Append(old[p], e)) /\ \A q \in PIDs : q # p => entries'[q] = old[q]
    BY <1>4, <1>6
  <1> QED BY <1>3, <1>5, <1>7, <1>8 DEF e

\* Appending to both keeps an end an end, and so does trimming.
LEMMA EndOfAppend ==
    ASSUME NEW S, NEW h \in Seq(S), NEW U, NEW l \in Seq(U), NEW e, e \in S, e \in U, EndOf(h, l)
    PROVE  EndOf(Append(h, e), Append(l, e))
  <1> DEFINE H == Append(h, e)
             L == Append(l, e)
             d == Len(l) - Len(h)
  <1>1. /\ Len(H) = Len(h) + 1 /\ (\A i \in 1..Len(h) : H[i] = h[i]) /\ H[Len(h) + 1] = e
        /\ Len(L) = Len(l) + 1 /\ (\A i \in 1..Len(l) : L[i] = l[i]) /\ L[Len(l) + 1] = e
    BY AppendProperties
  <1>2. Len(h) \in Nat /\ Len(l) \in Nat /\ Len(h) <= Len(l) /\ \A i \in 1..Len(h) : h[i] = l[d + i]
    BY DEF EndOf
  <1> HIDE DEF H, L
  <1>3. Len(H) <= Len(L) /\ Len(L) - Len(H) = d
    BY <1>1, <1>2
  <1>4. ASSUME NEW i \in 1..Len(H) PROVE H[i] = L[d + i]
    <2>1. CASE i = Len(h) + 1
      <3>1. d + i = Len(l) + 1
        BY <1>2, <2>1
      <3> QED BY <1>1, <2>1, <3>1
    <2>2. CASE i # Len(h) + 1
      <3>1. i \in 1..Len(h) /\ d + i \in 1..Len(l)
        BY <1>1, <1>2, <2>2
      <3> QED BY <1>1, <1>2, <3>1
    <2> QED BY <2>1, <2>2
  <1> HIDE DEF d
  <1>5. EndOf(H, L)
    BY <1>3, <1>4 DEF EndOf
  <1> QED BY <1>5 DEF H, L

LEMMA EndOfTrim ==
    ASSUME NEW S, NEW h \in Seq(S), NEW l, Len(l) \in Nat, EndOf(h, l)
    PROVE  EndOf(Trim(h), l)
  <1>1. PICK d \in Nat : /\ Len(Trim(h)) + d = Len(h)
                         /\ \A i \in 1..Len(Trim(h)) : Trim(h)[i] = h[i + d]
    BY TrimKeepsNewest
  <1>2. Trim(h) \in Seq(S)
    BY TrimKeepsNewest
  <1> DEFINE g == Trim(h)
  <1> HIDE DEF g
  <1>3. Len(g) \in Nat /\ Len(g) + d = Len(h) /\ \A i \in 1..Len(g) : g[i] = h[i + d]
    BY <1>1, <1>2 DEF g
  <1>4. Len(h) <= Len(l) /\ \A i \in 1..Len(h) : h[i] = l[(Len(l) - Len(h)) + i]
    BY DEF EndOf
  <1>5. ASSUME NEW i \in 1..Len(g) PROVE g[i] = l[(Len(l) - Len(g)) + i]
    <2>1. i + d \in 1..Len(h) /\ (Len(l) - Len(h)) + (i + d) = (Len(l) - Len(g)) + i
      BY <1>3, <1>4
    <2> QED BY <1>3, <1>4, <2>1
  <1>6. EndOf(g, l)
    BY <1>3, <1>4, <1>5 DEF EndOf
  <1> QED BY <1>6 DEF g

LEMMA EndsTraceStep ==
    ASSUME ProcInv, IInv, EndsTrace, [ChainNext]_allVars
    PROVE  EndsTrace'
  <1>1. CASE vars' = vars /\ trace' = trace
    BY <1>1 DEF vars, EndsTrace
  <1>2. ASSUME NEW p \in PIDs, NEW c \in ProbedCalls, NEW t \in Stamps, Emit(p, c, t)
        PROVE  EndsTrace'
    <2> DEFINE e == [call |-> c, ts |-> t]
    <2>1. /\ e \in Made /\ e \in Entry /\ trace'[p] = Append(trace[p], e)
          /\ \A q \in PIDs : q # p => trace'[q] = trace[q]
      BY <1>2, EmitDoes, EmitRecords
    <2>2. \A q \in PIDs : trace[q] \in Seq(Made) /\ entries[q] \in Seq(Entry) /\ Len(trace[q]) \in Nat
      BY DEF ProcInv, ProcOK, IInv, TypeOK
    <2>3. \A q \in PIDs : EndOf(entries[q], trace[q]) /\ EndOf(<<>>, trace[q])
      <3>1. Len(<<>>) = 0
        OBVIOUS
      <3> DEFINE none == <<>>
      <3> HIDE DEF none
      <3>2. \A q \in PIDs : EndOf(none, trace[q])
        BY <2>2, <3>1 DEF EndOf, none
      <3> QED BY <3>2 DEF EndsTrace, none
    <2>4. PICK h \in {entries[p], <<>>} : entries'[p] = Trim(Append(h, e))
      BY <1>2, EmitRecords
    <2>5. \A q \in PIDs : q # p => entries'[q] \in {entries[q], <<>>}
      BY <1>2, EmitRecords
    <2> HIDE DEF e
    <2>6. h \in Seq(Entry) /\ EndOf(h, trace[p])
      <3>1. <<>> \in Seq(Entry)
        OBVIOUS
      <3>2. CASE h = entries[p]
        BY <2>2, <2>3, <3>2
      <3>3. CASE h = <<>>
        BY <2>3, <3>1, <3>3
      <3> QED BY <3>2, <3>3
    <2>7. EndOf(Append(h, e), Append(trace[p], e))
      BY <2>1, <2>2, <2>6, EndOfAppend
    <2>8. Append(h, e) \in Seq(Entry) /\ Len(Append(trace[p], e)) \in Nat
      BY <2>1, <2>2, <2>6, TraceGrows, AppendProperties
    <2>9. EndOf(entries'[p], trace'[p])
      BY <2>1, <2>4, <2>7, <2>8, EndOfTrim
    <2>10. \A q \in PIDs : EndOf(entries'[q], trace'[q])
      BY <2>1, <2>3, <2>5, <2>9
    <2> QED BY <2>10 DEF EndsTrace
  <1> QED BY <1>1, <1>2, StepShape

\* With fewer pids than the tracker has room for, nothing is ever cleared.
LEMMA NeverCleared ==
    ASSUME IInv, Cardinality(PIDs) < MaxProcesses, NEW t
    PROVE  ~ClearedAtCapacity(t)
  <1>1. Unexpired(t) \subseteq PIDs
    BY DEF IInv, TypeOK, Unexpired
  <1>2. Cardinality(Unexpired(t)) <= Cardinality(PIDs)
    BY <1>1, FS_Subset, BoundsAssumption
  <1>3. Cardinality(Unexpired(t)) \in Nat /\ Cardinality(PIDs) \in Nat
    BY <1>1, FS_Subset, FS_CardinalityType, BoundsAssumption
  <1> QED BY <1>2, <1>3, BoundsAssumption DEF ClearedAtCapacity, OverCapacity

LEMMA ShiftedEnds ==
    ASSUME NEW l \in Seq(Entry), NEW tr \in Seq(Made), NEW e, e \in Entry, e \in Made,
           EndOf(l, tr), Len(l) <= Depth, Len(l) = Depth \/ Len(l) = Len(tr)
    PROVE  /\ EndOf(Shifted(l, e), Append(tr, e))
           /\ Len(Shifted(l, e)) = Depth \/ Len(Shifted(l, e)) = Len(Append(tr, e))
  <1> DEFINE full == Append(l, e)
             more == Append(tr, e)
  <1>1. /\ full \in Seq(Entry) /\ Len(full) = Len(l) + 1 /\ Len(more) = Len(tr) + 1
        /\ Len(l) \in Nat /\ Len(tr) \in Nat /\ Depth \in Nat
    BY AppendProperties, BoundsAssumption
  <1>2. EndOf(full, more)
    BY EndOfAppend
  <1>3. Shifted(l, e) = IF Len(full) <= Depth THEN full ELSE Tail(full)
    BY DEF Shifted
  <1> HIDE DEF full, more
  <1>4. CASE Len(full) <= Depth
    BY <1>1, <1>2, <1>3, <1>4 DEF more
  <1>5. CASE ~(Len(full) <= Depth)
    <2> DEFINE rest == Tail(full)
    <2>1. Len(l) = Depth /\ Shifted(l, e) = rest
      BY <1>1, <1>3, <1>5
    <2>2. Len(rest) = Len(l) /\ \A i \in 1..Len(l) : rest[i] = full[i + 1]
      BY <1>1
    <2> HIDE DEF rest
    <2>3. Len(full) <= Len(more) /\ \A i \in 1..Len(full) : full[i] = more[(Len(more) - Len(full)) + i]
      BY <1>2 DEF EndOf
    <2>4. ASSUME NEW i \in 1..Len(rest) PROVE rest[i] = more[(Len(more) - Len(rest)) + i]
      <3>1. i + 1 \in 1..Len(full) /\ (Len(more) - Len(full)) + (i + 1) = (Len(more) - Len(rest)) + i
        BY <1>1, <2>2
      <3> QED BY <2>2, <2>3, <3>1
    <2>5. Len(rest) <= Len(more)
      BY <1>1, <2>2, <2>3
    <2>6. EndOf(rest, more)
      BY <2>4, <2>5 DEF EndOf
    <2> QED BY <2>1, <2>2, <2>6 DEF more
  <1> QED BY <1>4, <1>5

LEMMA LogIsTraceStep ==
    ASSUME Cardinality(PIDs) < MaxProcesses, ProcInv, IInv, LogInv, LogIsTrace, [ChainNext]_allVars
    PROVE  LogIsTrace'
  <1>1. CASE vars' = vars /\ trace' = trace
    BY <1>1 DEF vars, LogIsTrace
  <1>2. ASSUME NEW p \in PIDs, NEW c \in ProbedCalls, NEW t \in Stamps, Emit(p, c, t)
        PROVE  LogIsTrace'
    <2> DEFINE e == [call |-> c, ts |-> t]
    <2>1. /\ e \in Made /\ e \in Entry /\ trace'[p] = Append(trace[p], e) /\ RecordTracked(p, c, t)
          /\ \A q \in PIDs : q # p => trace'[q] = trace[q]
      BY <1>2, EmitDoes, EmitRecords
    <2>2. \A q \in PIDs : trace[q] \in Seq(Made) /\ log[q] \in Seq(Entry)
      BY DEF ProcInv, ProcOK, IInv, TypeOK
    <2>3. log' = [log EXCEPT ![p] = Shifted(log[p], e)]
      BY <2>1, NeverCleared DEF RecordTracked, Shifted
    <2> HIDE DEF e
    <2>4. log'[p] = Shifted(log[p], e) /\ \A q \in PIDs : q # p => log'[q] = log[q]
      BY <2>3 DEF IInv, TypeOK
    <2>5. /\ EndOf(log[p], trace[p]) /\ Len(log[p]) <= Depth
          /\ Len(log[p]) = Depth \/ Len(log[p]) = Len(trace[p])
      BY DEF LogIsTrace, LogInv, EndsLog
    <2>6. /\ EndOf(Shifted(log[p], e), Append(trace[p], e))
          /\ Len(Shifted(log[p], e)) = Depth \/ Len(Shifted(log[p], e)) = Len(Append(trace[p], e))
      BY <2>1, <2>2, <2>5, ShiftedEnds
    <2>7. ASSUME NEW q \in PIDs
          PROVE  /\ EndOf(log'[q], trace'[q])
                 /\ Len(log'[q]) = Depth \/ Len(log'[q]) = Len(trace'[q])
      <3>1. CASE q = p
        BY <2>1, <2>4, <2>6, <3>1
      <3>2. CASE q # p
        BY <2>1, <2>4, <3>2 DEF LogIsTrace
      <3> QED BY <3>1, <3>2
    <2> QED BY <2>7 DEF LogIsTrace
  <1> QED BY <1>1, <1>2, StepShape

-----------------------------------------------------------------------------
(* What the rule says of an execve.                                        *)

\* The process a verdict is about has not returned to the kernel since.
VerdictInv == verdict.made => verdict.pid \in PIDs /\ pending[verdict.pid] = "none"

\* A chain seen in the end of a trace is in the trace.
LEMMA ChainInTrace ==
    ASSUME NEW w, NEW tr, Len(w) \in Nat, Len(tr) \in Nat, EndOf(w, tr), HasChain(w)
    PROVE  HasChainAt(tr, {(Len(tr) - Len(w)) + i : i \in 1..Len(w)})
  <1> DEFINE d == Len(tr) - Len(w)
             I == {d + i : i \in 1..Len(w)}
  <1>1. d \in Nat /\ \A i \in 1..Len(w) : w[i] = tr[d + i] /\ d + i \in I
    BY DEF EndOf
  <1>2. PICK i, j, k, l \in 1..Len(w) :
            /\ i < j /\ j < k /\ j < l
            /\ w[i].call.sc = "socket" /\ ~w[i].call.exit
            /\ w[j].call.sc = "connect" /\ ~w[j].call.exit
            /\ IsDup(w[k].call.sc) /\ ~w[k].call.exit /\ w[k].call.arg1 \in StdFDs
            /\ IsDup(w[l].call.sc) /\ ~w[l].call.exit /\ w[l].call.arg1 \in StdFDs
            /\ w[k].call.arg1 # w[l].call.arg1
    BY DEF HasChain, HasChainAt
  <1> HIDE DEF d, I
  <1>3. d + i < d + j /\ d + j < d + k /\ d + j < d + l
    <2>1. d \in Nat /\ i \in Nat /\ j \in Nat /\ k \in Nat /\ l \in Nat
      BY <1>1
    <2>2. i < j /\ j < k /\ j < l
      BY <1>2
    <2> QED BY <2>1, <2>2
  <1>4. HasChainAt(tr, I)
    <2> DEFINE a == d + i
               b == d + j
               x == d + k
               y == d + l
    <2>1. a \in I /\ b \in I /\ x \in I /\ y \in I /\ a < b /\ b < x /\ b < y
      BY <1>1, <1>3
    <2>2. w[i] = tr[a] /\ w[j] = tr[b] /\ w[k] = tr[x] /\ w[l] = tr[y]
      BY <1>1
    <2> HIDE DEF a, b, x, y
    <2>3. /\ tr[a].call.sc = "socket" /\ ~tr[a].call.exit
          /\ tr[b].call.sc = "connect" /\ ~tr[b].call.exit
      BY <1>2, <2>2, Zenon
    <2>4. /\ IsDup(tr[x].call.sc) /\ ~tr[x].call.exit /\ tr[x].call.arg1 \in StdFDs
          /\ IsDup(tr[y].call.sc) /\ ~tr[y].call.exit /\ tr[y].call.arg1 \in StdFDs
          /\ tr[x].call.arg1 # tr[y].call.arg1
      BY <1>2, <2>2, Zenon
    <2> QED BY <2>1, <2>3, <2>4 DEF HasChainAt
  <1> QED BY <1>4 DEF I, d

\* What Within shows of a history that ends a trace is an end of it, all in
\* the window.
LEMMA ShownEndsTrace ==
    ASSUME NEW h \in Seq(Entry), NEW t \in Nat, NEW tr \in Seq(Made), EndOf(h, tr)
    PROVE  /\ Within(h, t) \in Seq(Entry) /\ EndOf(Within(h, t), tr)
           /\ \A i \in 1..Len(Within(h, t)) : Within(h, t)[i].ts + Window >= t
  <1> DEFINE w == Within(h, t)
  <1>1. PICK s \in 0..Len(h) :
              /\ IsWithinStart(h, t, s)
              /\ w \in Seq(Entry) /\ Len(w) = Len(h) - s
              /\ \A i \in 1..(Len(h) - s) : w[i] = h[s + i]
    BY WithinIs
  <1> HIDE DEF w
  <1>2. Len(h) \in Nat /\ Len(tr) \in Nat /\ Len(h) <= Len(tr)
    BY DEF EndOf
  <1>3. \A i \in 1..Len(h) : h[i] = tr[(Len(tr) - Len(h)) + i]
    BY DEF EndOf
  <1>4. ASSUME NEW i \in 1..Len(w) PROVE w[i] = tr[(Len(tr) - Len(w)) + i] /\ w[i].ts + Window >= t
    <2>1. s + i \in 1..Len(h) /\ s + i \in (s + 1)..Len(h) /\ i \in 1..(Len(h) - s)
          /\ (Len(tr) - Len(h)) + (s + i) = (Len(tr) - Len(w)) + i
      BY <1>1, <1>2
    <2>2. w[i] = h[s + i] /\ h[s + i].ts >= Cutoff(t)
      BY <1>1, <2>1 DEF IsWithinStart
    <2>3. w[i].ts \in Nat /\ w[i].ts >= Cutoff(t)
      <3>1. h[s + i] \in Entry
        BY <2>1, ElementOfSeq
      <3> QED BY <2>2, <3>1 DEF Entry, Times
    <2>4. w[i].ts + Window >= t
      <3> DEFINE x == w[i].ts
      <3> HIDE DEF x
      <3>1. x \in Nat /\ x >= Cutoff(t)
        BY <2>3 DEF x
      <3>2. x + Window >= t
        BY <3>1, BoundsAssumption DEF Cutoff
      <3> QED BY <3>2 DEF x
    <2> QED BY <1>3, <2>1, <2>2, <2>4
  <1>5. Len(w) <= Len(tr)
    BY <1>1, <1>2
  <1>6. EndOf(w, tr)
    BY <1>4, <1>5 DEF EndOf
  <1> QED BY <1>1, <1>4, <1>6 DEF w

\* The verdict on an execve says what findChain found in what was shown.
LEMMA VerdictIs ==
    ASSUME NEW p \in PIDs, NEW t \in Stamps, Execve(p, t)
    PROVE  LET w == Within(entries'[p], t) IN
           /\ verdict'.made /\ verdict'.pid = p /\ verdict'.at = t
           /\ verdict'.match.found => ChainFound(w)
           /\ ChainFound(w) /\ w # <<>> /\ ~IgnoreLoopback => verdict'.match.found
  <1> DEFINE w == Within(entries'[p], t)
             c == Call("execve", FALSE, 0, 0, 0, "")
  <1>1. verdict' = [made |-> TRUE, pid |-> p, at |-> t, match |-> evalReverseShell(c, w, IgnoreLoopback)]
    BY DEF Execve
  <1>2. c.sc = "execve" /\ c.exit = FALSE
    BY DEF Call
  <1> HIDE DEF w, c
  <1>3. evalReverseShell(c, w, IgnoreLoopback).found => ChainFound(w)
    BY DEF evalReverseShell, NoMatch, findChain
  <1>4. ChainFound(w) => findChain(w).found
    BY DEF findChain
  <1>5. ASSUME ChainFound(w), w # <<>>, ~IgnoreLoopback
        PROVE  evalReverseShell(c, w, IgnoreLoopback).found
    BY <1>2, <1>4, <1>5 DEF evalReverseShell, IsExecution
  <1>6. /\ verdict'.made /\ verdict'.pid = p /\ verdict'.at = t
        /\ verdict'.match = evalReverseShell(c, w, IgnoreLoopback)
    BY <1>1
  <1> QED BY <1>3, <1>5, <1>6 DEF w

\* What the other steps do to a verdict: they end it, or leave it and all
\* that was true of its process.
LEMMA VerdictStays ==
    ASSUME ProcInv, VerdictInv, [ChainNext]_allVars
    PROVE  \/ verdict' = NoVerdict
           \/ \E p \in PIDs, t \in Stamps : Execve(p, t)
           \/ /\ verdict' = verdict
              /\ verdict.made => LET p == verdict.pid IN
                    /\ life'[p] = life[p] /\ fds'[p] = fds[p] /\ socks'[p] = socks[p]
                    /\ trace'[p] = trace[p] /\ pending'[p] = pending[p]
  <1>0. DOMAIN fds = PIDs /\ DOMAIN socks = PIDs /\ DOMAIN trace = PIDs /\ DOMAIN pending = PIDs
    BY DEF ProcInv, ChainTypeOK
  <1>1. CASE UNCHANGED allVars
    BY <1>1 DEF allVars, chainVars
  <1>2. ASSUME NEW p \in PIDs, NEW t \in Stamps, SocketExit(p, t)
        PROVE  /\ verdict' = verdict
               /\ verdict.made => LET q == verdict.pid IN
                     /\ life'[q] = life[q] /\ fds'[q] = fds[q] /\ socks'[q] = socks[q]
                     /\ trace'[q] = trace[q] /\ pending'[q] = pending[q]
    <2>1. verdict.made => verdict.pid \in PIDs /\ verdict.pid # p
      BY <1>2 DEF VerdictInv, SocketExit
    <2> QED BY <1>0, <1>2, <2>1 DEF SocketExit, Emit
  <1>3. ASSUME NEW p \in PIDs, NEW t \in Stamps, ConnectExit(p, t)
        PROVE  /\ verdict' = verdict
               /\ verdict.made => LET q == verdict.pid IN
                     /\ life'[q] = life[q] /\ fds'[q] = fds[q] /\ socks'[q] = socks[q]
                     /\ trace'[q] = trace[q] /\ pending'[q] = pending[q]
    <2>1. verdict.made => verdict.pid \in PIDs /\ verdict.pid # p
      BY <1>3 DEF VerdictInv, ConnectExit
    <2> QED BY <1>0, <1>3, <2>1 DEF ConnectExit, Emit
  <1>4. ASSUME NEW p \in PIDs, NEW t \in Stamps, SocketEnter(p, t) \/ ConnectEnter(p, t) \/ Dup(p, t)
        PROVE  verdict' = NoVerdict
    BY <1>4 DEF SocketEnter, ConnectEnter, Dup
  <1>5. ASSUME NEW p \in PIDs, NEW fd \in FDs, Reopen(p, fd)
        PROVE  verdict' = NoVerdict
    BY <1>5 DEF Reopen
  <1>6. ASSUME NEW p \in PIDs, ExitAndReuse(p)
        PROVE  verdict' = NoVerdict
    BY <1>6 DEF ExitAndReuse
  <1> QED BY <1>1, <1>2, <1>3, <1>4, <1>5, <1>6 DEF ChainNext

LEMMA VerdictInvStep ==
    ASSUME ProcInv, VerdictInv, [ChainNext]_allVars
    PROVE  VerdictInv'
  <1>1. CASE verdict' = NoVerdict
    BY <1>1 DEF VerdictInv, NoVerdict
  <1>2. ASSUME NEW p \in PIDs, NEW t \in Stamps, Execve(p, t) PROVE VerdictInv'
    <2>1. verdict'.pid = p
      BY <1>2, VerdictIs
    <2> QED BY <1>2, <2>1 DEF VerdictInv, Execve
  <1>3. CASE /\ verdict' = verdict
             /\ verdict.made => LET p == verdict.pid IN
                    /\ life'[p] = life[p] /\ fds'[p] = fds[p] /\ socks'[p] = socks[p]
                    /\ trace'[p] = trace[p] /\ pending'[p] = pending[p]
    BY <1>3 DEF VerdictInv
  <1> QED BY <1>1, <1>2, <1>3, VerdictStays

\* An execve by the first process of a pid is judged soundly.
LEMMA ExecveSound ==
    ASSUME ProcInv, ProcInv', IInv', EndsTrace', NEW p \in PIDs, NEW t \in Stamps, Execve(p, t)
    PROVE  FirstUserSound'
  <1> SUFFICES ASSUME verdict'.match.found, life'[p].n = 1
               PROVE  HasChainAt(trace'[p], Recent(p, t)')
    <2>1. verdict'.made /\ verdict'.pid = p /\ verdict'.at = t
      BY VerdictIs
    <2> QED BY <2>1 DEF FirstUserSound, FiresOnlyOnChain, Fired
  <1> DEFINE w == Within(entries'[p], t)
             tr == trace'[p]
             d == Len(tr) - Len(w)
             I == {d + i : i \in 1..Len(w)}
  <1>1. tr \in Seq(Made) /\ entries'[p] \in Seq(Entry) /\ EndOf(entries'[p], tr) /\ t \in Nat
    <2>1. t \in Nat
      BY StampIsNat
    <2>2. tr \in Seq(Made)
      BY DEF ProcInv, ProcOK
    <2>3. entries'[p] \in Seq(Entry) /\ EndOf(entries'[p], tr)
      BY DEF IInv, TypeOK, EndsTrace
    <2> QED BY <2>1, <2>2, <2>3
  <1>2. w \in Seq(Entry) /\ EndOf(w, tr) /\ \A i \in 1..Len(w) : w[i].ts + Window >= t
    BY <1>1, ShownEndsTrace
  <1>3. HasChain(w)
    <2>1. ChainFound(w)
      BY VerdictIs
    <2> QED BY <1>2, <2>1, AnchorsAreExact
  <1>4. life'[p].past = 0
    BY DEF ProcInv
  <1> HIDE DEF w, tr, d, I
  <1>5. Len(w) \in Nat /\ Len(tr) \in Nat /\ d \in Nat /\ d + Len(w) = Len(tr)
    BY <1>1, <1>2 DEF EndOf, d
  <1>6. HasChainAt(tr, I)
    BY <1>2, <1>3, <1>5, ChainInTrace DEF I, d
  <1>7. Recent(p, t)' = {i \in 1..Len(tr) : tr[i].ts + Window >= t}
    BY <1>4 DEF Recent, tr
  <1>8. ASSUME NEW i \in 1..Len(w) PROVE d + i \in 1..Len(tr) /\ tr[d + i].ts + Window >= t
    <2>1. w[i] = tr[d + i]
      BY <1>2 DEF EndOf, d
    <2> QED BY <1>2, <1>5, <2>1
  <1>9. I \subseteq Recent(p, t)'
    BY <1>7, <1>8 DEF I
  <1>10. HasChainAt(tr, Recent(p, t)')
    BY <1>6, <1>9 DEF HasChainAt
  <1> QED BY <1>10 DEF tr

LEMMA FirstUserSoundStep ==
    ASSUME ProcInv, ProcInv', IInv', EndsTrace', VerdictInv, FirstUserSound, [ChainNext]_allVars
    PROVE  FirstUserSound'
  <1>1. CASE verdict' = NoVerdict
    BY <1>1 DEF FirstUserSound, NoVerdict
  <1>2. ASSUME NEW p \in PIDs, NEW t \in Stamps, Execve(p, t) PROVE FirstUserSound'
    BY <1>2, ExecveSound
  <1>3. CASE /\ verdict' = verdict
             /\ verdict.made => LET p == verdict.pid IN
                    /\ life'[p] = life[p] /\ fds'[p] = fds[p] /\ socks'[p] = socks[p]
                    /\ trace'[p] = trace[p] /\ pending'[p] = pending[p]
    BY <1>3 DEF FirstUserSound, FiresOnlyOnChain, Fired, Recent
  <1> QED BY <1>1, <1>2, <1>3, VerdictStays

ChainInv == ProcInv /\ IInv /\ LogInv /\ EndsTrace /\ VerdictInv

LEMMA ChainInvStart == ChainInit => ChainInv /\ FirstUserSound /\ NoMissedShell /\ LogIsTrace
  <1> SUFFICES ASSUME ChainInit PROVE ChainInv /\ FirstUserSound /\ NoMissedShell /\ LogIsTrace
    OBVIOUS
  <1>1. ProcInv /\ IInv /\ LogInv
    BY ChainStart, InitIInv, InitLogInv DEF ChainInit
  <1>2. \A p \in PIDs : entries[p] = <<>> /\ log[p] = <<>> /\ trace[p] = <<>>
    BY DEF ChainInit, Init
  <1>3. EndOf(<<>>, <<>>)
    BY DEF EndOf
  <1>4. EndsTrace /\ LogIsTrace
    BY <1>2, <1>3 DEF EndsTrace, LogIsTrace
  <1>5. VerdictInv /\ FirstUserSound /\ NoMissedShell
    BY DEF ChainInit, NoVerdict, VerdictInv, FirstUserSound, NoMissedShell
  <1> QED BY <1>1, <1>4, <1>5 DEF ChainInv

LEMMA ChainInvStep == ChainInv /\ [ChainNext]_allVars => ChainInv'
  <1> SUFFICES ASSUME ChainInv, [ChainNext]_allVars PROVE ChainInv'
    OBVIOUS
  <1>1. ProcInv /\ IInv /\ LogInv /\ EndsTrace /\ VerdictInv
    BY DEF ChainInv
  <1>2. [Next]_vars
    BY <1>1, TrackerStep
  <1>3. ProcInv' /\ IInv'
    BY <1>1, <1>2, ProcInvStep, NextIInv
  <1>4. LogInv' /\ EndsTrace' /\ VerdictInv'
    BY <1>1, <1>2, <1>3, NextLogInv, EndsTraceStep, VerdictInvStep
  <1> QED BY <1>3, <1>4 DEF ChainInv

\* The composition drives the tracker as its specification allows: what is
\* proved of Record holds of the events that processes really produce.
THEOREM ProcessesUseTheTracker == ChainSpec => Spec
  <1>1. ChainInv /\ [ChainNext]_allVars => [Next]_vars
    BY TrackerStep DEF ChainInv
  <1>2. ChainInit => Init
    BY DEF ChainInit
  <1> QED BY <1>1, <1>2, ChainInvStart, ChainInvStep, PTL DEF ChainSpec, Spec

\* When the rule fires on an execve of the first process that uses a pid,
\* that process did open a socket, dial and redirect two standard streams in
\* that order within the window, whatever the other processes did, however
\* calls of the two sides interleave, whatever was swept or trimmed and
\* however the stamps are skewed.
THEOREM FirstUserIsSound == ChainSpec => []FirstUserSound
  <1>1. ChainInv /\ ChainInv' /\ FirstUserSound /\ [ChainNext]_allVars => FirstUserSound'
    BY FirstUserSoundStep DEF ChainInv
  <1> QED BY <1>1, ChainInvStart, ChainInvStep, PTL DEF ChainSpec

\* The circumstances in which the rule misses nothing: the TTL covers the
\* window, events arrive in the order of their stamps, there are fewer pids
\* than the tracker has room for, and loopback connections count.
NothingLost ==
    Window <= TTL /\ Skew = 0 /\ Cardinality(PIDs) < MaxProcesses /\ ~IgnoreLoopback

\* A chain of the trace whose first call is still shown is shown.
LEMMA ChainShown ==
    ASSUME NEW tr \in Seq(Made), NEW w \in Seq(Entry), EndOf(w, tr),
           NEW o \in 1..Len(tr), Len(tr) - Len(w) < o, SocketAt(tr, o),
           NEW j \in 1..Len(tr), o < j, ConnectAt(tr, j),
           NEW x \in StdFDs, NEW y \in StdFDs, x # y,
           NEW k \in 1..Len(tr), j < k, DupAt(tr, k, x),
           NEW l \in 1..Len(tr), j < l, DupAt(tr, l, y)
    PROVE  HasChain(w)
  <1> DEFINE d == Len(tr) - Len(w)
  <1>1. Len(tr) \in Nat /\ Len(w) \in Nat /\ d \in Nat
    BY DEF EndOf
  <1>2. \A i \in 1..Len(w) : w[i] = tr[d + i]
    BY DEF EndOf
  <1>3. \A i \in 1..Len(tr) : d < i => i - d \in 1..Len(w) /\ d + (i - d) = i
    BY <1>1
  <1>4. d < o /\ d < j /\ d < k /\ d < l
    BY <1>1
  <1> HIDE DEF d
  <1> DEFINE a == o - d
             b == j - d
             u == k - d
             v == l - d
  <1>5. /\ a \in 1..Len(w) /\ b \in 1..Len(w) /\ u \in 1..Len(w) /\ v \in 1..Len(w)
        /\ d + a = o /\ d + b = j /\ d + u = k /\ d + v = l
    BY <1>3, <1>4
  <1>6. a < b /\ b < u /\ b < v
    BY <1>1
  <1> HIDE DEF a, b, u, v
  <1>7. w[a] = tr[o] /\ w[b] = tr[j] /\ w[u] = tr[k] /\ w[v] = tr[l]
    BY <1>2, <1>5
  <1>8. /\ w[a].call.sc = "socket" /\ ~w[a].call.exit
        /\ w[b].call.sc = "connect" /\ ~w[b].call.exit
        /\ w[u].call.sc = "dup2" /\ ~w[u].call.exit /\ w[u].call.arg1 = x
        /\ w[v].call.sc = "dup2" /\ ~w[v].call.exit /\ w[v].call.arg1 = y
    BY <1>7, Zenon DEF SocketAt, ConnectAt, DupAt
  <1>9. IsDup(w[u].call.sc) /\ IsDup(w[v].call.sc)
    BY <1>8 DEF IsDup
  <1>10. w[u].call.arg1 \in StdFDs /\ w[v].call.arg1 \in StdFDs /\ w[u].call.arg1 # w[v].call.arg1
    BY <1>8
  <1> QED BY <1>5, <1>6, <1>8, <1>9, <1>10, ZenonT(40) DEF HasChain, HasChainAt

LEMMA ExecveComplete ==
    ASSUME NothingLost, ProcInv, ProcInv', IInv, IInv', WindowFaithful', LogIsTrace',
           NEW p \in PIDs, NEW t \in Stamps, Execve(p, t)
    PROVE  NoMissedShell'
  <1> DEFINE w == Within(entries'[p], t)
             tr == trace'[p]
             lg == log'[p]
             f == fds'[p]
             ss == socks'[p]
  <1>1. verdict'.made /\ verdict'.pid = p /\ verdict'.at = t
    BY VerdictIs
  <1>2. now' = t
    <2>1. Emit(p, Call("execve", FALSE, 0, 0, 0, ""), t)
      BY DEF Execve
    <2>2. t >= now /\ now' = IF t > now THEN t ELSE now
      <3>1. t + Skew >= now /\ now' = IF t > now THEN t ELSE now
        BY <2>1 DEF Emit, Record
      <3>2. t \in Nat /\ now \in Nat
        BY StampIsNat DEF IInv, TypeOK
      <3> QED BY <3>1, <3>2 DEF NothingLost
    <2>3. t \in Nat /\ now \in Nat
      BY StampIsNat DEF IInv, TypeOK
    <2> QED BY <2>2, <2>3
  <1>3. /\ ProcOK(f, ss, tr, pending'[p]) /\ tr \in Seq(Made) /\ lg \in Seq(Entry) /\ t \in Nat
        /\ entries'[p] \in Seq(Entry)
    <2>1. ProcOK(f, ss, tr, pending'[p]) /\ tr \in Seq(Made)
      BY DEF ProcInv, ProcOK
    <2>2. lg \in Seq(Entry) /\ entries'[p] \in Seq(Entry)
      BY DEF IInv, TypeOK
    <2>3. t \in Nat
      BY StampIsNat
    <2> QED BY <2>1, <2>2, <2>3
  <1>4. w \in Seq(Entry)
    BY <1>3, WithinIs
  <1> DEFINE older == Len(lg) - Len(w)
  <1>5. /\ older >= 0 /\ w = SubSeq(lg, older + 1, Len(lg))
        /\ \A i \in 1..older : lg[i].ts + Window < t + Skew
    BY <1>2 DEF WindowFaithful
  <1>6. EndOf(lg, tr) /\ (Len(lg) = Depth \/ Len(lg) = Len(tr))
    BY DEF LogIsTrace
  <1>7. ChainFound(w) /\ w # <<>> => verdict'.match.found
    BY VerdictIs DEF NothingLost
  <1>8. \A n : Wired(p, n)' = WiredIn(f, n)
    BY DEF Wired, WiredIn
  <1> SUFFICES ASSUME NEW n \in 1..Len(ss),
                      Cardinality(WiredIn(f, n)) >= minRedirectedFDs,
                      tr[ss[n].opened].ts + Window >= t,
                      Len(tr) - ss[n].opened < Depth
               PROVE  ChainFound(w) /\ w # <<>>
    BY <1>1, <1>7, <1>8 DEF NoMissedShell
  <1> HIDE DEF w, tr, lg, f, ss, older
  <1> DEFINE o == ss[n].opened
             d == Len(tr) - Len(w)
  <1>9. Len(tr) \in Nat /\ Len(lg) \in Nat /\ Len(w) \in Nat /\ Len(lg) <= Len(tr)
    BY <1>3, <1>4, <1>6 DEF EndOf
  <1>10. \A i \in 1..Len(w) : w[i] = lg[older + i] /\ older + i \in 1..Len(lg)
    <2>1. older \in 0..Len(lg) /\ Len(w) = Len(lg) - older
      BY <1>5, <1>9 DEF older
    <2> DEFINE sub == SubSeq(lg, older + 1, Len(lg))
    <2>2. \A i \in 1..(Len(lg) - older) : sub[i] = lg[older + i]
      BY <1>3, <1>9, <2>1
    <2>3. w = sub
      BY <1>5
    <2> HIDE DEF sub
    <2> QED BY <1>9, <2>1, <2>2, <2>3
  <1>11. EndOf(w, tr)
    <2>1. \A i \in 1..Len(lg) : lg[i] = tr[(Len(tr) - Len(lg)) + i]
      BY <1>6 DEF EndOf
    <2>2. ASSUME NEW i \in 1..Len(w) PROVE w[i] = tr[d + i]
      <3>1. (Len(tr) - Len(lg)) + (older + i) = d + i
        BY <1>9 DEF older
      <3> QED BY <1>10, <2>1, <3>1
    <2>3. Len(w) <= Len(tr)
      BY <1>5, <1>9 DEF older
    <2> QED BY <2>2, <2>3 DEF EndOf
  <1>12. SockOK(f, ss[n], tr, n)
    BY <1>3 DEF ProcOK
  <1>13. o \in 1..Len(tr) /\ SocketAt(tr, o)
    BY <1>12 DEF SockOK
  <1>14. PICK x, y \in WiredIn(f, n) : x # y
    <2>1. WiredIn(f, n) \in SUBSET StdFDs
      BY DEF WiredIn
    <2>2. Cardinality(WiredIn(f, n)) >= 2
      BY DEF minRedirectedFDs
    <2> QED BY <2>1, <2>2, TwoMembers
  <1>15. PICK j \in 1..Len(tr) :
              /\ o < j /\ ConnectAt(tr, j)
              /\ \A fd \in WiredIn(f, n) : \E i \in 1..Len(tr) : j < i /\ DupAt(tr, i, fd)
    <2>1. ss[n].dest # ""
      BY <1>12, <1>14 DEF SockOK
    <2> QED BY <1>12, <2>1 DEF SockOK
  <1>16. PICK k \in 1..Len(tr) : j < k /\ DupAt(tr, k, x)
    BY <1>14, <1>15
  <1>17. PICK l \in 1..Len(tr) : j < l /\ DupAt(tr, l, y)
    BY <1>14, <1>15
  <1> HIDE DEF o
  <1>18. d < o
    <2> DEFINE c == Len(tr) - Len(lg)
    <2>1. c \in Nat /\ c < o /\ older \in Nat /\ c + older = d
      <3>0. Len(tr) - o < Depth /\ o \in Nat /\ 1 <= o
        BY <1>9, <1>13 DEF o
      <3>1. c < o
        BY <1>6, <1>9, <3>0, BoundsAssumption
      <3> QED BY <3>1, <1>5, <1>9 DEF older
    <2>2. SUFFICES ASSUME o - c \in 1..older PROVE FALSE
      <3> HIDE DEF c, d
      <3>1. o \in Nat
        BY <1>9, <1>13
      <3> QED BY <2>1, <3>1
    <2>3. lg[o - c].ts + Window < t
      <3>1. lg[o - c].ts + Window < t + Skew
        BY <1>5, <2>2
      <3> QED BY <3>1, <1>3 DEF NothingLost
    <2>4. lg[o - c] = tr[o]
      <3>1. o - c \in 1..Len(lg) /\ c + (o - c) = o
        BY <1>9, <1>13, <2>1
      <3> QED BY <1>6, <3>1 DEF EndOf
    <2>5. tr[o].ts \in Nat
      <3>1. tr[o] \in Made
        BY <1>3, <1>13, ElementOfSeq
      <3> QED BY <3>1, ClockAssumption DEF Made, Times
    <2> DEFINE ts == tr[o].ts
    <2> HIDE DEF ts
    <2>6. ts + Window < t /\ ts + Window >= t /\ ts \in Nat
      BY <2>3, <2>4, <2>5 DEF ts, o
    <2> QED BY <2>6, <1>3, BoundsAssumption
  <1>19. x \in StdFDs /\ y \in StdFDs
    BY <1>14 DEF WiredIn
  <1>20. HasChain(w)
    BY <1>3, <1>4, <1>11, <1>13, <1>14, <1>15, <1>16, <1>17, <1>18, <1>19, ChainShown
  <1>21. ChainFound(w)
    BY <1>4, <1>20, AnchorsAreExact
  <1>22. w # <<>>
    BY <1>9, <1>13, <1>18
  <1> QED BY <1>21, <1>22

LEMMA NoMissedShellStep ==
    ASSUME NothingLost, ChainInv, ChainInv', WindowFaithful', LogIsTrace', NoMissedShell, [ChainNext]_allVars
    PROVE  NoMissedShell'
  <1>0. ProcInv /\ ProcInv' /\ IInv /\ IInv' /\ VerdictInv
    BY DEF ChainInv
  <1>1. CASE verdict' = NoVerdict
    BY <1>1 DEF NoMissedShell, NoVerdict
  <1>2. ASSUME NEW p \in PIDs, NEW t \in Stamps, Execve(p, t) PROVE NoMissedShell'
    BY <1>0, <1>2, ExecveComplete
  <1>3. CASE /\ verdict' = verdict
             /\ verdict.made => LET p == verdict.pid IN
                    /\ life'[p] = life[p] /\ fds'[p] = fds[p] /\ socks'[p] = socks[p]
                    /\ trace'[p] = trace[p] /\ pending'[p] = pending[p]
    BY <1>3, ZenonT(40) DEF NoMissedShell, Wired
  <1> QED BY <1>0, <1>1, <1>2, <1>3, VerdictStays

\* A process that opens a socket, dials, and then hands it two standard
\* streams is reported when it executes a program, if the history reaches
\* back to the socket call: the histories, the window walk and the anchors
\* of findChain together lose no shell, whoever used the pid before and
\* whatever other sockets, connects and descriptors come in between.
THEOREM NoShellIsMissed == NothingLost /\ ChainSpec => []NoMissedShell
  <1>1. CASE NothingLost
    <2>1. ChainInv /\ LogIsTrace /\ [ChainNext]_allVars => LogIsTrace'
      BY <1>1, LogIsTraceStep DEF ChainInv, NothingLost
    <2>2. ChainInv /\ ChainInv' /\ WindowFaithful' /\ LogIsTrace' /\ NoMissedShell /\ [ChainNext]_allVars
             => NoMissedShell'
      BY <1>1, NoMissedShellStep
    <2>3. ChainSpec => []WindowFaithful
      <3>1. Window <= TTL
        BY <1>1 DEF NothingLost
      <3>2. Spec => []WindowFaithful
        BY <3>1, RulesSeeTheWindow
      <3> QED BY <3>2, ProcessesUseTheTracker, PTL
    <2>4. ChainSpec => []NoMissedShell
      BY <2>1, <2>2, <2>3, ChainInvStart, ChainInvStep, PTL DEF ChainSpec
    <2> QED BY <2>4
  <1>2. CASE ~NothingLost
    BY <1>2
  <1> QED BY <1>1, <1>2
=============================================================================
