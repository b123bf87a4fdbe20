------------------------------- MODULE Dedup -------------------------------
(***************************************************************************)
(* Alert folding, detect/dedup.go: identical findings are folded into one  *)
(* alert per window.  The window of a key is fixed at its emission; an     *)
(* alert that resurfaces carries the number of repeats folded since.       *)
(*                                                                         *)
(* newDeduper returns nil for --dedup-window 0, and a nil deduper admits   *)
(* everything; the module is the deduper that exists, Window > 0.          *)
(***************************************************************************)
EXTENDS Integers, FiniteSets

CONSTANTS
    Alerts,   \* records [rule, pid, mitre, syscall, args]
    Window,   \* --dedup-window
    Retain,   \* dedupRetain
    MaxKeys,  \* maxDedupKeys
    Skew,     \* how far behind the latest timestamp an event's may be
    MaxTime,  \* bound: the last instant of the model
    MaxFolds, \* bound: repeats folded in all
    Wrap      \* 2^64

ASSUME DedupAssumption ==
    /\ IsFiniteSet(Alerts)
    /\ Window \in Nat \ {0} /\ Retain \in Nat \ {0} /\ MaxKeys \in Nat \ {0}
    /\ Skew \in Nat /\ MaxTime \in Nat /\ MaxFolds \in Nat
    /\ Wrap \in Nat /\ MaxTime + Window < Wrap

Times == 1..MaxTime

\* The arguments that tell one instance of a finding from another; volatile
\* ones (an address, a descriptor, a duration) are not among them.
KeyArgs == {"path", "request", "target_pid", "target_uid", "target_gid",
            "euid", "egid", "chain_dest"}

dedupKey(a) ==
    <<a.rule, a.pid, a.mitre, a.syscall,
      [f \in DOMAIN a.args \cap KeyArgs |-> a.args[f]]>>

Keys == {dedupKey(a) : a \in Alerts}

VARIABLES
    seen,        \* the keys of deduper.seen
    firstTS,     \* dedupEntry.firstTS of each
    suppressed,  \* dedupEntry.suppressed of each
    lastSweep,   \* deduper.lastSweep
    total,       \* deduper.total, the "alerts folded" of the summary
    now,         \* the latest timestamp seen
    lastEmit,    \* ghost: when each key was last emitted, 0 for never
    folded,      \* ghost: repeats of each key folded since then
    dropped,     \* ghost: keys dropped at capacity since then
    reported,    \* ghost: folds reported by the alerts emitted so far
    lost,        \* ghost: folds deleted with their key, never reported
    outcome      \* what the last admit decided, and what it knew

dedupVars == <<seen, firstTS, suppressed, lastSweep, total>>
vars == <<dedupVars, now, lastEmit, folded, dropped, reported, lost, outcome>>

-----------------------------------------------------------------------------
Sub64(a, b) == IF a >= b THEN a - b ELSE a - b + Wrap

\* maybeSweep: once per window, or when the table is full.
Full(S) == Cardinality(S) >= MaxKeys

SweepDueOnTime(t) == lastSweep = 0 \/ Sub64(t, lastSweep) >= Window
SweepDue(t) == lastSweep = 0 \/ Sub64(t, lastSweep) >= Window \/ Full(seen)

\* Keys with nothing folded go when their window has passed, the others are
\* kept for Retain windows.
ExpiredAnyAge(k, t) ==
    t > firstTS[k] /\ (suppressed[k] = 0 \/ t - firstTS[k] >= Retain * Window)
ExpiredEarly(k, t) == t > firstTS[k] /\ t - firstTS[k] >= Window
Expired(k, t) ==
    /\ t > firstTS[k]
    /\ \/ suppressed[k] = 0 /\ t - firstTS[k] >= Window
       \/ t - firstTS[k] >= Retain * Window

\* When the table was last swept, after an admit at t.
SweepStamp(t) == IF SweepDue(t) THEN t ELSE lastSweep

Unexpired(t) == {k \in seen : ~Expired(k, t)}
Cleared(t) == SweepDue(t) /\ Full(Unexpired(t))

Survivors(t) ==
    IF ~SweepDue(t) THEN seen
    ELSE IF Full(Unexpired(t)) THEN {}
    ELSE Unexpired(t)

\* Folded, given an entry for the key: inside the window measured from the
\* emission.  A time before it does not count as inside.
InWindowSliding(k, t) == t >= firstTS[k] /\ t - firstTS[k] <= Window
InWindow(k, t) == t >= firstTS[k] /\ t - firstTS[k] < Window

\* The sum of a counter over a set of keys.
SumOver(f, S) ==
    LET sum[T \in SUBSET S] ==
          IF T = {} THEN 0
          ELSE LET k == CHOOSE x \in T : TRUE IN f[k] + sum[T \ {k}]
    IN  sum[S]

-----------------------------------------------------------------------------
NoOutcome == [made |-> FALSE]

Init ==
    /\ seen = {}
    /\ firstTS = [k \in Keys |-> 0]
    /\ suppressed = [k \in Keys |-> 0]
    /\ lastSweep = 0
    /\ total = 0
    /\ now = 0
    /\ lastEmit = [k \in Keys |-> 0]
    /\ folded = [k \in Keys |-> 0]
    /\ dropped = {}
    /\ reported = 0
    /\ lost = 0
    /\ outcome = NoOutcome

Outcome(k, t, admitted, carried, gone) ==
    [made |-> TRUE, at |-> t, admitted |-> admitted, carried |-> carried,
     since |-> lastEmit[k], owed |-> folded[k], dropped |-> k \in gone]

\* The sweep that admit begins with.  What it deletes leaves nothing behind.
AfterSweep(f, kept) == [k \in Keys |-> IF k \in kept THEN f[k] ELSE 0]

\* admit of a repeat inside its window: counted, not emitted.
Fold(k, t, kept, gone) ==
    /\ k \in kept /\ InWindow(k, t)
    /\ total < MaxFolds
    /\ seen' = kept
    /\ firstTS' = AfterSweep(firstTS, kept)
    /\ suppressed' = [AfterSweep(suppressed, kept) EXCEPT ![k] = @ + 1]
    /\ total' = total + 1
    /\ folded' = [folded EXCEPT ![k] = @ + 1]
    /\ outcome' = Outcome(k, t, FALSE, 0, gone)
    /\ dropped' = gone
    /\ UNCHANGED <<lastEmit, reported>>

\* The fold count of an entry starts again with each emission.
CountKept(k) == suppressed[k]
CountRestarted(k) == 0

\* admit of anything else: emitted, with the folds of its entry if it has one.
Emit(k, t, kept, gone) ==
    LET carried == IF k \in kept THEN suppressed[k] ELSE 0 IN
    /\ ~(k \in kept /\ InWindow(k, t))
    /\ seen' = kept \cup {k}
    /\ firstTS' = [AfterSweep(firstTS, kept) EXCEPT ![k] = t]
    /\ suppressed' = [AfterSweep(suppressed, kept) EXCEPT ![k] = CountRestarted(k)]
    /\ reported' = reported + carried
    /\ lastEmit' = [lastEmit EXCEPT ![k] = t]
    /\ folded' = [folded EXCEPT ![k] = 0]
    /\ outcome' = Outcome(k, t, TRUE, carried, gone)
    /\ dropped' = gone \ {k}
    /\ UNCHANGED total

admit(a, t) ==
    LET k    == dedupKey(a)
        kept == Survivors(t)
        gone == IF Cleared(t) THEN dropped \cup Unexpired(t) ELSE dropped
    IN  /\ t + Skew >= now
        /\ now' = IF t > now THEN t ELSE now
        /\ lastSweep' = SweepStamp(t)
        /\ lost' = lost + SumOver(suppressed, seen \ kept)
        /\ Fold(k, t, kept, gone) \/ Emit(k, t, kept, gone)

Next == \E a \in Alerts, t \in Times : admit(a, t)

Spec == Init /\ [][Next]_vars

-----------------------------------------------------------------------------
\* The types of the deduplicator's state; a deleted key holds zeros.
TypeOK ==
    /\ seen \subseteq Keys
    /\ firstTS \in [Keys -> 0..MaxTime]
    /\ suppressed \in [Keys -> Nat]
    /\ lastSweep \in 0..MaxTime
    /\ total \in Nat
    /\ now \in 0..MaxTime
    /\ lastEmit \in [Keys -> 0..MaxTime]
    /\ folded \in [Keys -> Nat]
    /\ dropped \subseteq Keys
    /\ reported \in Nat

\* The types hold, and the table never holds more than maxDedupKeys keys,
\* insertion included.
Bounded == TypeOK /\ Cardinality(seen) <= MaxKeys

\* An alert is emitted at most once per window: two emissions of a key are a
\* window apart, up to the skew, unless the table was dropped at capacity in
\* between or the later one is stamped before the earlier.
OncePerWindow ==
    outcome.made /\ outcome.admitted =>
        \/ outcome.since = 0
        \/ outcome.dropped
        \/ outcome.at < outcome.since
        \/ outcome.at - outcome.since >= Window - Skew

\* ... and at least once: a repeat is folded only into an emission less than
\* a window ago, so a steady loop cannot suppress itself for ever.
FoldsOnlyInWindow ==
    outcome.made /\ ~outcome.admitted =>
        /\ outcome.since # 0
        /\ outcome.at - outcome.since < Window

\* The two together: a key is emitted exactly once per window.
ExactlyOncePerWindow == OncePerWindow /\ FoldsOnlyInWindow

\* An alert that resurfaces before the retention (less the skew) is over carries the number
\* of repeats folded since its last emission, whatever sweeps ran meanwhile.
CarriesFolds ==
    (/\ outcome.made /\ outcome.admitted
     /\ outcome.since # 0 /\ ~outcome.dropped
     /\ outcome.at - outcome.since < Retain * Window - Skew)
    => outcome.carried = outcome.owed

\* Every fold the summary counts was reported by an alert, waits in the
\* table, or went with a deleted key; none is counted twice.
FoldsAccounted == total = reported + lost + SumOver(suppressed, seen)

\* No folded repeat is lost on its way to the next alert or the summary.
NoFoldIsLost == CarriesFolds /\ FoldsAccounted
=============================================================================
