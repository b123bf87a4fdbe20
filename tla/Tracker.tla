------------------------------ MODULE Tracker ------------------------------
(***************************************************************************)
(* The bounded per-process syscall history of detect/tracker.go: the only  *)
(* memory that sequence rules have.  It is bounded three ways: how many    *)
(* processes (MaxProcesses), how many entries of each (Depth) and for how  *)
(* long (TTL).  Eviction has no timer of its own: maybeSweep runs at the   *)
(* head of Record.                                                         *)
(*                                                                         *)
(* Timestamps are the kernel's, carried by the events.  `now' is the       *)
(* latest one handed to the tracker; an event may be stamped up to Skew    *)
(* before it (Skew = 0 is the order the comment at ProcessHistory relies   *)
(* on, Skew > 0 what two CPUs submitting to one ring can produce).         *)
(***************************************************************************)
EXTENDS Integers, Sequences, FiniteSets

CONSTANTS
    PIDs,         \* process ids the events carry
    Calls,        \* the syscalls observed, records with at least a field sc
    Depth,        \* defaultHistoryDepth
    TTL,          \* defaultTTL
    SweepEvery,   \* defaultSweepInterval
    MaxProcesses, \* defaultMaxProcesses
    Window,       \* --window, the longest rule window
    Skew,         \* how far behind `now' an event's timestamp may be
    MaxTime,      \* bound: the last instant of the model
    Wrap          \* 2^64: one more than the largest uint64

ASSUME BoundsAssumption ==
    /\ IsFiniteSet(PIDs)
    /\ Depth \in Nat \ {0}
    /\ MaxProcesses \in Nat \ {0}
    /\ TTL \in Nat /\ SweepEvery \in Nat /\ Window \in Nat

\* No timestamp is near 2^64 ns (584 years after boot), so a difference that
\* wraps is larger than any interval the code compares it with.
ASSUME ClockAssumption ==
    /\ Skew \in Nat /\ MaxTime \in Nat /\ Wrap \in Nat
    /\ MaxTime + SweepEvery < Wrap

VARIABLES
    procs,      \* the keys of Tracker.procs
    entries,    \* ProcessHistory.entries of each key, oldest first
    lastSeen,   \* ProcessHistory.lastSeen of each key
    lastSweep,  \* Tracker.lastSweep, 0 before the first sweep
    now,        \* the latest timestamp seen (the kernel's clock)
    log         \* ghost: the last Depth tracked calls of each process since
                \* its history was last dropped at capacity or by Forget

trackerVars == <<procs, entries, lastSeen, lastSweep>>
vars == <<procs, entries, lastSeen, lastSweep, now, log>>

Times == 1..MaxTime
Entry == [call : Calls, ts : Times]

-----------------------------------------------------------------------------
\* Only syscalls that take part in a sequence rule are remembered.
tracked(sc) ==
    sc \in {"socket", "connect", "dup2", "dup3", "execve", "execveat"}

\* uint64 subtraction.
Sub64(a, b) == IF a >= b THEN a - b ELSE a - b + Wrap

\* ProcessHistory.Within: walk back from the newest entry, stop at the first
\* that is too old, return what was passed.  WithinStart is where it stops.
CutoffExclusive(t) == IF t > Window THEN t - Window + 1 ELSE 0
Cutoff(t) == IF t > Window THEN t - Window ELSE 0

IsWithinStart(h, t, s) ==
    /\ s \in 0..Len(h)
    /\ \A i \in (s + 1)..Len(h) : h[i].ts >= Cutoff(t)
    /\ s > 0 => h[s].ts < Cutoff(t)

Within(h, t) ==
    LET start == CHOOSE s \in 0..Len(h) : IsWithinStart(h, t, s)
    IN  SubSeq(h, start + 1, Len(h))

\* Trim to depth by dropping the oldest entries.
TrimOverwrite(h) ==
    IF Len(h) > Depth THEN <<h[Len(h)]>> \o SubSeq(h, 2, Len(h) - 1) ELSE h
TrimShort(h) ==
    IF Len(h) >= Depth THEN SubSeq(h, Len(h) - Depth + 2, Len(h)) ELSE h
Trim(h) == IF Len(h) > Depth THEN SubSeq(h, Len(h) - Depth + 1, Len(h)) ELSE h

\* maybeSweep, in three parts: whether it runs at all, which histories it
\* finds expired, and the last resort when that is not enough.
OverCapacity(S) == Cardinality(S) >= MaxProcesses

SweepDueAtCapacity(t) == OverCapacity(procs)
SweepDue(t) ==
    \/ OverCapacity(procs)
    \/ lastSweep = 0
    \/ Sub64(t, lastSweep) >= SweepEvery

ExpiredEarly(p, t) == t > lastSeen[p] /\ t - lastSeen[p] >= Window
Expired(p, t) == t > lastSeen[p] /\ t - lastSeen[p] > TTL

Unexpired(t) == {p \in procs : ~Expired(p, t)}

SurvivorsUncapped(t) == IF SweepDue(t) THEN Unexpired(t) ELSE procs
Survivors(t) ==
    IF ~SweepDue(t) THEN procs
    ELSE IF OverCapacity(Unexpired(t)) THEN {}
    ELSE Unexpired(t)

SweepStamp(t) == IF SweepDue(t) THEN t ELSE lastSweep

\* The "drop everything" branch was taken: the loss the code accepts.
ClearedAtCapacity(t) == SweepDue(t) /\ OverCapacity(Unexpired(t))

-----------------------------------------------------------------------------
Init ==
    /\ procs = {}
    /\ entries = [p \in PIDs |-> <<>>]
    /\ lastSeen = [p \in PIDs |-> 0]
    /\ lastSweep = 0
    /\ now = 0
    /\ log = [p \in PIDs |-> <<>>]

\* Record of a syscall no sequence rule uses: an early return, not even a sweep.
RecordUntracked(p, c, t) ==
    /\ ~tracked(c.sc)
    /\ UNCHANGED <<trackerVars, log>>

\* Record of a tracked syscall: sweep, find or create the history, append,
\* trim.  A map key that is gone has no entries and no lastSeen.
RecordTracked(p, c, t) ==
    LET kept == Survivors(t)
        old  == [q \in PIDs |-> IF q \in kept THEN entries[q] ELSE <<>>]
        seen == [q \in PIDs |-> IF q \in kept THEN lastSeen[q] ELSE 0]
        e    == [call |-> c, ts |-> t]
        base == IF ClearedAtCapacity(t) THEN [q \in PIDs |-> <<>>] ELSE log
        full == Append(base[p], e)
    IN  /\ tracked(c.sc)
        /\ procs' = kept \cup {p}
        /\ entries' = [old EXCEPT ![p] = Trim(Append(old[p], e))]
        /\ lastSeen' = [seen EXCEPT ![p] = t]
        /\ lastSweep' = SweepStamp(t)
        /\ log' = [base EXCEPT ![p] =
                      IF Len(full) <= Depth THEN full ELSE Tail(full)]

Record(p, c, t) ==
    /\ t + Skew >= now
    /\ now' = IF t > now THEN t ELSE now
    /\ RecordUntracked(p, c, t) \/ RecordTracked(p, c, t)

\* Forget.  Exported, and exercised by the tests; no caller in the agent.
Forget(p) ==
    /\ procs' = procs \ {p}
    /\ entries' = [entries EXCEPT ![p] = <<>>]
    /\ lastSeen' = [lastSeen EXCEPT ![p] = 0]
    /\ log' = [log EXCEPT ![p] = <<>>]
    /\ UNCHANGED <<lastSweep, now>>

Next ==
    \/ \E p \in PIDs, c \in Calls, t \in Times : Record(p, c, t)
    \/ \E p \in PIDs : Forget(p)

Spec == Init /\ [][Next]_vars

-----------------------------------------------------------------------------
\* The types of the tracker's state; a key that is absent holds nothing.
TypeOK ==
    /\ procs \subseteq PIDs
    /\ entries \in [PIDs -> Seq(Entry)]
    /\ lastSeen \in [PIDs -> 0..MaxTime]
    /\ lastSweep \in 0..MaxTime
    /\ now \in 0..MaxTime
    /\ log \in [PIDs -> Seq(Entry)]

\* The two space bounds of the Tracker, on every reachable state: at most
\* maxProcesses histories of at most depth entries, whatever the traffic.
\* (maybeSweep runs before the insertion, so the insertion must still fit.)
Bounded ==
    /\ Cardinality(procs) <= MaxProcesses
    /\ \A p \in PIDs : Len(entries[p]) <= Depth

\* The time bound: although there is no timer, a history never outlives its
\* process's last event by more than the TTL and one sweep interval (and the
\* skew) on the clock of the tracked events, whichever processes those come
\* from: no two remembered processes were last seen further apart.
NoStaleHistory ==
    \A p, q \in procs : lastSeen[q] - lastSeen[p] <= TTL + SweepEvery + Skew

\* Entries of one process are ordered in time up to the skew of their
\* stamps: what Within relies on when it stops at the first entry that is
\* too old.  For Skew = 0 it is the order the comment at ProcessHistory
\* promises.
OrderedUpToSkew ==
    \A p \in PIDs : \A i, j \in 1..Len(entries[p]) :
        i < j => entries[p][i].ts <= entries[p][j].ts + Skew

\* What a sequence rule is shown is what happened: Within returns the latest
\* of the process's last Depth tracked calls, in order and without a gap, all
\* of them inside the window; and a call it leaves out lies outside, but for
\* the skew.  Neither the TTL sweep nor the walk back from the end loses one,
\* unless the history was dropped at capacity (for Window <= TTL).
WindowFaithful ==
    \A p \in PIDs :
        LET shown == Within(entries[p], now)
            older == Len(log[p]) - Len(shown)
        IN  /\ older >= 0
            /\ shown = SubSeq(log[p], older + 1, Len(log[p]))
            /\ \A i \in 1..Len(shown) : shown[i].ts + Window >= now
            /\ \A i \in 1..older : log[p][i].ts + Window < now + Skew
=============================================================================
