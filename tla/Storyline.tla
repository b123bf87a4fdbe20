----------------------------- MODULE Storyline -----------------------------
(***************************************************************************)
(* The attack-storyline correlator of detect/storyline.go: lineage learnt  *)
(* from events, alerts filed by process tree into storylines that merge    *)
(* when a chain of ancestors touches two of them, and an attack-chain      *)
(* alert when one storyline spans enough ATT&CK tactics.                   *)
(*                                                                         *)
(* The Engine calls Observe for every event and then Correlate for each    *)
(* alert its rules raise on that event; event is the one being evaluated.  *)
(* Events may arrive out of order: one is at most Skew older than the      *)
(* latest before it.  Offsets are whole milliseconds, of Milli stamps each.*)
(* The process tree is the kernel's: parent changes only when a parent     *)
(* exits and its children go to pid 1.                                     *)
(***************************************************************************)
EXTENDS Integers, Sequences, FiniteSets, SequencesExt

CONSTANTS
    PIDs,          \* processes, natural numbers; 1 is init
    Tree,          \* the parent of each process at the start
    Talkers,       \* the processes that make monitored syscalls
    Mortal,        \* the processes that may exit
    Boundaries,    \* the processes whose comm is in sessionBoundaries
    UseLookup,     \* whether the configuration has a ProcLookup (replay has none)
    AlertKinds,    \* the alerts rules raise: [rule, mitre], mitre a parent id
    Threshold,     \* StorylineConfig.Threshold
    Window,        \* StorylineConfig.Window
    SweepEvery,    \* lineageSweepEvery
    MaxAncestry,   \* maxAncestry
    MaxStorySteps, \* maxStorySteps
    MaxLineage,    \* maxLineage
    Milli,         \* time.Millisecond, in units of the stamps
    Skew,          \* how far an event's stamp may lie behind the latest one
    MaxTime,       \* bound: the last instant of the model
    Stamps,        \* bound: the instants at which events happen
    MaxAlerts      \* bound: the alerts after which no event comes any more

ASSUME StorylineAssumption ==
    /\ PIDs \subseteq Nat \ {0} /\ IsFiniteSet(PIDs)
    /\ Tree \in [PIDs -> PIDs \cup {1}]
    /\ Talkers \subseteq PIDs /\ Mortal \subseteq PIDs /\ Boundaries \subseteq PIDs
    /\ UseLookup \in BOOLEAN
    /\ Threshold \in Nat /\ Threshold >= 2    \* NewCorrelator raises it to 2
    /\ Window \in Nat \ {0} /\ SweepEvery \in Nat
    /\ MaxAncestry \in Nat \ {0} /\ MaxStorySteps \in Nat \ {0} /\ MaxLineage \in Nat \ {0}
    /\ Milli \in Nat \ {0} /\ Skew \in Nat
    /\ MaxTime \in Nat /\ Stamps \subseteq 1..MaxTime

VARIABLES
    parent,     \* the kernel's process tree
    alive,      \* the processes that exist
    event,      \* the event being evaluated, and the alerts it has raised
    lineage,    \* Correlator.lineage: [ppid, lastSeen], or Unknown
    byPID,      \* Correlator.byPID: the number of a storyline, 0 for none
    stories,    \* every storyline opened so far; number n was the n-th (seq)
    lastSweep,  \* Correlator.lastSweep
    now,        \* the latest timestamp seen
    filed       \* ghost: every alert correlated, with the id stamped on it,
                \* the tactics of the attack chain raised for it, 0 for none,
                \* and whether it came late to a story

corVars == <<lineage, byPID, stories, lastSweep>>
vars == <<parent, alive, event, corVars, now, filed>>

Unknown == [ppid |-> 0, lastSeen |-> 0]

-----------------------------------------------------------------------------
(* Tactics. *)

tacticsByTechnique(mitre) ==
    CASE mitre \in {"T1548", "T1068"} -> {"PrivEsc"}
      [] mitre \in {"T1003", "T1552"} -> {"CredentialAccess"}
      [] mitre = "T1055" -> {"DefenseEvasion"}
      [] mitre = "T1059" -> {"Execution"}
      [] mitre = "T1071" -> {"CommandControl"}
      [] OTHER -> {}

TacticsFor(a) ==
    tacticsByTechnique(a.mitre)
        \cup (IF a.rule = "reverse-shell" THEN {"CommandControl"} ELSE {})

-----------------------------------------------------------------------------
(* Steps of a story: bounded, evicting the oldest that is not pivotal. *)

addStepUnbounded(steps, st) == Append(steps, st)
addStep(steps, st) ==
    LET plain == {i \in 1..Len(steps) : ~steps[i].pivotal}
        evict == IF plain = {} THEN 1 ELSE CHOOSE i \in plain : \A j \in plain : i <= j
    IN  IF Len(steps) < MaxStorySteps THEN Append(steps, st)
        ELSE IF plain = {} /\ ~st.pivotal THEN steps
        ELSE Append(RemoveAt(steps, evict), st)

\* int64(time.Duration(d) / time.Millisecond): truncated towards zero.
Millis(d) == IF d >= 0 THEN d \div Milli ELSE -((-d) \div Milli)

\* sort.SliceStable by offset.
SortSteps(s) ==
    LET Before(i, j) == s[i].off < s[j].off \/ (s[i].off = s[j].off /\ i < j)
    IN  [k \in 1..Len(s) |->
            s[CHOOSE i \in 1..Len(s) :
                Cardinality({j \in 1..Len(s) : Before(j, i)}) = k - 1]]

\* The steps of two stories, added one by one to an empty one.
Refit(merged) ==
    LET upto[i \in 0..Len(merged)] ==
          IF i = 0 THEN <<>> ELSE addStep(upto[i - 1], merged[i])
    IN  upto[Len(merged)]

NewStory(top, t) ==
    [members |-> {}, root |-> top, tactics |-> {}, steps |-> <<>>, alerts |-> 0,
     firstTS |-> t, lastTS |-> t, reportedN |-> 0, absorbedBy |-> 0]

Live(s) == s.absorbedBy = 0
Lapsed(s, t) == t > s.lastTS /\ t - s.lastTS > Window

-----------------------------------------------------------------------------
(* Lineage. *)

\* ProcLookup: the live agent reads /proc, a replay has no lookup.
Lookup(p) == UseLookup /\ p \in alive

\* node(p): what is known of p, from the stream or from the lookup.
Resolves(p) == lineage[p] # Unknown \/ Lookup(p)
PPIDOf(p) == IF lineage[p] # Unknown THEN lineage[p].ppid ELSE parent[p]

\* One round of the loop of ancestry: w is [chain, cur, done, asked], asked
\* being the processes node was called for.
ClimbPast(w) ==
    IF w.done \/ w.cur <= 2 \/ Contains(w.chain, w.cur) THEN [w EXCEPT !.done = TRUE]
    ELSE [chain |-> Append(w.chain, w.cur),
          cur   |-> IF Resolves(w.cur) THEN PPIDOf(w.cur) ELSE 0,
          done  |-> ~Resolves(w.cur),
          asked |-> w.asked \cup {w.cur}]
Climb(w) ==
    IF w.done \/ w.cur <= 2 \/ Contains(w.chain, w.cur) THEN [w EXCEPT !.done = TRUE]
    ELSE IF Resolves(w.cur) /\ w.cur \in Boundaries
         THEN [w EXCEPT !.done = TRUE, !.asked = @ \cup {w.cur}]
    ELSE [chain |-> Append(w.chain, w.cur),
          cur   |-> IF Resolves(w.cur) THEN PPIDOf(w.cur) ELSE 0,
          done  |-> ~Resolves(w.cur),
          asked |-> w.asked \cup {w.cur}]

ancestry(p, pp) ==
    LET w[k \in 1..MaxAncestry] ==
          IF k = 1 THEN [chain |-> <<p>>, cur |-> pp, done |-> FALSE, asked |-> {}]
          ELSE Climb(w[k - 1])
    IN  w[MaxAncestry]

\* The lineage after node cached what the lookup answered.
Cached(asked, t) ==
    [p \in PIDs |->
        IF p \in asked /\ lineage[p] = Unknown /\ Lookup(p)
        THEN [ppid |-> parent[p], lastSeen |-> t] ELSE lineage[p]]

-----------------------------------------------------------------------------
(* Storylines.  A store is [stories, byPID]. *)

MergedAlertsKept(dst, src) == dst.alerts
MergedAlerts(dst, src) == dst.alerts + src.alerts

MergedByPIDStale(st, d, s) == st.byPID
MergedByPID(st, d, s) ==
    [p \in PIDs |-> IF p \in st.stories[s].members THEN d ELSE st.byPID[p]]

\* The steps of src, which began at from, with offsets from the start of dst.
\* The code does not keep ts, when a step happened, or moved, how often its
\* offset was shifted, and so truncated.
ShiftedNot(steps, from, to) == steps
Shifted(steps, from, to) ==
    [i \in 1..Len(steps) |->
        [steps[i] EXCEPT !.off = @ + Millis(from - to), !.moved = @ + 1]]

\* merge: src is folded into dst.
merge(st, d, s) ==
    LET src == st.stories[s]
        dst == st.stories[d]
    IN  [stories |-> [st.stories EXCEPT
           ![d] = [dst EXCEPT
                     !.members = @ \cup src.members,
                     !.tactics = @ \cup src.tactics,
                     !.steps = Refit(SortSteps(dst.steps \o Shifted(src.steps, src.firstTS, dst.firstTS))),
                     !.alerts = MergedAlerts(dst, src),
                     !.lastTS = IF src.lastTS > @ THEN src.lastTS ELSE @,
                     !.reportedN = IF src.reportedN > @ THEN src.reportedN ELSE @],
           ![s] = [src EXCEPT !.absorbedBy = d]],
         byPID |-> MergedByPID(st, d, s)]

\* The open stories the chain touches, each once, in the order of the chain.
Hit(found, n, t) ==
    IF n # 0 /\ ~Lapsed(stories[n], t) /\ ~Contains(found, n) THEN Append(found, n) ELSE found
Found(chain, t) ==
    LET upto[i \in 0..Len(chain)] ==
          IF i = 0 THEN <<>> ELSE Hit(upto[i - 1], byPID[chain[i]], t)
    IN  upto[Len(chain)]

IsOlderSwapped(s, other) == s.firstTS > other.firstTS
IsOlder(s, other) == s.firstTS < other.firstTS

\* The oldest of what was found absorbs the rest.  r is [store, id].
Join(r, other) ==
    IF IsOlder(r.store.stories[other], r.store.stories[r.id])
    THEN [store |-> merge(r.store, other, r.id), id |-> other]
    ELSE [store |-> merge(r.store, r.id, other), id |-> r.id]
Joined(found) ==
    LET upto[k \in 1..Len(found)] ==
          IF k = 1 THEN [store |-> [stories |-> stories, byPID |-> byPID], id |-> found[1]]
          ELSE Join(upto[k - 1], found[k])
    IN  upto[Len(found)]

Opened(top, t) ==
    [store |-> [stories |-> Append(stories, NewStory(top, t)), byPID |-> byPID],
     id    |-> Len(stories) + 1]

\* The chain is enrolled and the root moves up.
Enrolled(r, chain) ==
    LET n == r.id
        s == r.store.stories[n] IN
    [id |-> n,
     store |->
       [stories |-> [r.store.stories EXCEPT
          ![n] = [s EXCEPT !.members = @ \cup ToSet(chain),
                           !.root = IF Contains(chain, @) THEN chain[Len(chain)] ELSE @]],
        byPID |-> [p \in PIDs |-> IF Contains(chain, p) THEN n ELSE r.store.byPID[p]]]]

storyFor(chain, t) ==
    LET found == Found(chain, t)
    IN  Enrolled(IF found = <<>> THEN Opened(chain[Len(chain)], t) ELSE Joined(found), chain)

-----------------------------------------------------------------------------
NoEvent == [pid |-> 0, ppid |-> 0, ts |-> 0, raised |-> {}]

Init ==
    /\ parent = Tree
    /\ alive = PIDs
    /\ event = NoEvent
    /\ lineage = [p \in PIDs |-> Unknown]
    /\ byPID = [p \in PIDs |-> 0]
    /\ stories = <<>>
    /\ lastSweep = 0
    /\ now = 0
    /\ filed = <<>>

\* maybeSweep: lapsed stories leave byPID, then lineage no story needs goes
\* when it is as old, and all of it goes when that is not enough.
Known(l) == {p \in PIDs : l[p] # Unknown}

SweepDue(t) ==
    \/ lastSweep = 0
    \/ t < lastSweep        \* the difference is unsigned, and huge
    \/ t - lastSweep >= SweepEvery
    \/ Cardinality(Known(lineage)) >= MaxLineage

SweptByPID(t) ==
    [p \in PIDs |-> IF byPID[p] # 0 /\ Lapsed(stories[byPID[p]], t) THEN 0 ELSE byPID[p]]

SweptLineageUnbounded(t) ==
    [p \in PIDs |->
        IF SweptByPID(t)[p] = 0 /\ t > lineage[p].lastSeen /\ t - lineage[p].lastSeen > Window
        THEN Unknown ELSE lineage[p]]
SweptLineage(t) ==
    LET kept == [p \in PIDs |->
                    IF /\ SweptByPID(t)[p] = 0
                       /\ t > lineage[p].lastSeen /\ t - lineage[p].lastSeen > Window
                    THEN Unknown ELSE lineage[p]]
    IN  IF Cardinality(Known(kept)) >= MaxLineage THEN [p \in PIDs |-> Unknown] ELSE kept

\* An event arrives, in order or somewhat late: Observe.
Observe(p, t) ==
    /\ p \in Talkers \cap alive
    /\ t + Skew >= now
    /\ Len(filed) < MaxAlerts
    /\ now' = IF t > now THEN t ELSE now
    /\ event' = [pid |-> p, ppid |-> parent[p], ts |-> t, raised |-> {}]
    /\ LET base == IF SweepDue(t) THEN SweptLineage(t) ELSE lineage
       IN  lineage' = [base EXCEPT ![p] = [ppid |-> parent[p], lastSeen |-> t]]
    /\ byPID' = IF SweepDue(t) THEN SweptByPID(t) ELSE byPID
    /\ lastSweep' = IF SweepDue(t) THEN t ELSE lastSweep
    /\ UNCHANGED <<parent, alive, stories, filed>>

\* Whether Correlate raises an attack-chain alert for a story whose tactics
\* were old and are now new.
RaisesAlways(old, new, reportedN) == Cardinality(new) >= Threshold
RaisesAboveThreshold(old, new, reportedN) ==
    /\ new # old
    /\ Cardinality(new) > Threshold
    /\ Cardinality(new) > reportedN
Raises(old, new, reportedN) ==
    /\ new # old
    /\ Cardinality(new) >= Threshold
    /\ Cardinality(new) > reportedN

\* A late event finds a story open that had lapsed at the latest stamp.
Revives(chain, t) ==
    \E i \in 1..Len(chain) :
        LET n == byPID[chain[i]]
        IN  n # 0 /\ Lapsed(stories[n], now) /\ ~Lapsed(stories[n], t)

\* A rule alerts on the event: Correlate.
Correlate(a) ==
    LET walk  == ancestry(event.pid, event.ppid)
        t     == event.ts
        r     == storyFor(walk.chain, t)
        n     == r.id
        s     == r.store.stories[n]
        tacs  == s.tactics \cup TacticsFor(a)
        step  == [off |-> Millis(t - s.firstTS), pid |-> event.pid,
                  pivotal |-> tacs # s.tactics, ts |-> t, moved |-> 0]
        raise == Raises(s.tactics, tacs, s.reportedN)
    IN  /\ event.pid # 0
        /\ a \in AlertKinds \ event.raised
        /\ event' = [event EXCEPT !.raised = @ \cup {a}]
        /\ lineage' = Cached(walk.asked, t)
        /\ byPID' = r.store.byPID
        /\ stories' = [r.store.stories EXCEPT
              ![n] = [s EXCEPT !.alerts = @ + 1,
                               !.lastTS = t,
                               !.tactics = tacs,
                               !.steps = addStep(@, step),
                               !.reportedN = IF raise THEN Cardinality(tacs) ELSE @]]
        /\ filed' = Append(filed, [alert |-> a, pid |-> event.pid, story |-> n,
                                   chain |-> IF raise THEN Cardinality(tacs) ELSE 0,
                                   late  |-> Revives(walk.chain, t)])
        /\ UNCHANGED <<parent, alive, lastSweep, now>>

\* A process exits; its children are reparented to init.  Not observed.
Exit(p) ==
    /\ p \in Mortal \cap alive
    /\ alive' = alive \ {p}
    /\ parent' = [q \in PIDs |-> IF parent[q] = p THEN 1 ELSE parent[q]]
    /\ event' = NoEvent
    /\ UNCHANGED <<corVars, now, filed>>

Next ==
    \/ \E p \in PIDs, t \in Stamps : Observe(p, t)
    \/ \E a \in AlertKinds : Correlate(a)
    \/ \E p \in PIDs : Exit(p)

Spec == Init /\ [][Next]_vars

-----------------------------------------------------------------------------
StoryIds == 1..Len(stories)

\* The types of the correlator's state.
TypeOK ==
    /\ parent \in [PIDs -> PIDs \cup {1}]
    /\ alive \subseteq PIDs
    /\ lineage \in [PIDs -> [ppid : PIDs \cup {0, 1}, lastSeen : 0..MaxTime]]
    /\ byPID \in [PIDs -> 0..Len(stories)]
    /\ lastSweep \in 0..MaxTime
    /\ now \in 0..MaxTime
    /\ \A n \in StoryIds :
          /\ stories[n].members \subseteq PIDs
          /\ Len(stories[n].steps) <= MaxStorySteps
          /\ stories[n].firstTS \in 0..now /\ stories[n].lastTS \in 0..now

\* What storyFor says of a story that has expired: the sweep will collect it.
\* But an event behind the latest finds it open again.
ExpiredIsCollected == \A i \in 1..Len(filed) : ~filed[i].late

\* The two views of membership agree on every story that is still open: a
\* process is in its member set exactly when byPID leads to it.  Merging
\* walks the member set, filing walks byPID; were they to differ, a merge
\* would take processes from another story.  byPID never leads outside the
\* member set; the converse ends when a late alert revives a story whose
\* processes others have enrolled since it lapsed.
MembershipExact ==
    /\ \A p \in PIDs :
          byPID[p] # 0 => Live(stories[byPID[p]]) /\ p \in stories[byPID[p]].members
    /\ ExpiredIsCollected =>
          \A n \in StoryIds :
              Live(stories[n]) /\ ~Lapsed(stories[n], now) =>
                  stories[n].members = {p \in PIDs : byPID[p] = n}

\* The story an alert ended up in, however many merges later: the chain of
\* absorptions, which is shorter than there are stories, followed to its end.
Survivor(ss, n) ==
    LET up[k \in 0..Len(ss)] ==
          IF k = 0 THEN n
          ELSE LET m == up[k - 1] IN IF Live(ss[m]) THEN m ELSE ss[m].absorbedBy
    IN  up[Len(ss)]
Canonical(n) == Survivor(stories, n)

\* Merging loses nothing and counts nothing twice: every story that was not
\* absorbed has exactly the tactics, and the number, of the alerts filed in
\* it and in the stories it absorbed.
StoriesAddUp ==
    \A n \in StoryIds : Live(stories[n]) =>
        LET mine == {i \in 1..Len(filed) : Canonical(filed[i].story) = n}
        IN  /\ stories[n].alerts = Cardinality(mine)
            /\ stories[n].tactics = UNION {TacticsFor(filed[i].alert) : i \in mine}

\* An attack chain is raised again only for a longer story: it spans more
\* tactics than any chain raised before, in this story or in one it absorbed.
RaisedOnlyForMore ==
    LET j == Len(filed) IN
    j > 0 /\ filed[j].chain > 0 =>
        \A i \in 1..(j - 1) :
            Canonical(filed[i].story) = Canonical(filed[j].story) =>
                filed[i].chain < filed[j].chain

\* An alert that brings a tactic to a story, merged a moment before or not, is
\* followed by the attack chain for all the tactics the story then spans, if
\* they reach the threshold: no earlier report, and none inherited from an
\* absorbed story, holds it back.
NewTacticReported ==
    LET j == Len(filed) IN
    j > 0 =>
        LET n == Canonical(filed[j].story)
            before == UNION {TacticsFor(filed[i].alert) :
                               i \in {k \in 1..(j - 1) : Canonical(filed[k].story) = n}}
            span == before \cup TacticsFor(filed[j].alert)
        IN  span # before /\ Cardinality(span) >= Threshold =>
                filed[j].chain = Cardinality(span)

\* Attack chains are raised exactly when there is something to report.
ReportsEachTacticOnce == RaisedOnlyForMore /\ NewTacticReported

\* The oldest story absorbs the others, through any number of merges, so that
\* the id the earliest alerts carry stays in use.
OldestStorySurvives ==
    \A n \in StoryIds : stories[Canonical(n)].firstTS <= stories[n].firstTS

\* The steps of an open story are listed by their offsets, through evictions
\* and merges: none stands behind one whose offset is larger by the skew and a
\* millisecond, and none behind a larger one at all when stamps are in order.
StepsInOrder ==
    \A n \in StoryIds : Live(stories[n]) =>
        LET steps == stories[n].steps IN
        \A i, j \in 1..Len(steps) :
            i < j => Milli * (steps[i].off - steps[j].off) < Milli + Skew

\* An offset tells when a step happened: it is not ahead, but for a late
\* alert's by at most the skew, and behind by less than a millisecond,
\* and by less than one more for each merge that shifted it.
OffsetsTell ==
    \A n \in StoryIds : Live(stories[n]) =>
        \A i \in 1..Len(stories[n].steps) :
            LET st == stories[n].steps[i]
                told == stories[n].firstTS + Milli * st.off
            IN  told <= st.ts + Skew /\ st.ts < told + Milli * (1 + st.moved)

\* The timeline of a storyline can be trusted after any merges: it begins
\* with the oldest of the merged stories, its steps are in order, and their
\* offsets say when they happened, as far as milliseconds and skew
\* allow.
TimelineTells == OldestStorySurvives /\ StepsInOrder /\ OffsetsTell

\* The lineage is bounded although node adds to it without looking: by the
\* ceiling and the ancestors one walk can add.
LineageBounded ==
    Cardinality(Known(lineage)) <= MaxLineage + MaxAncestry - 1

\* The types hold, and every table stays bounded: the steps of a story, when
\* two full ones are merged too, and the lineage.
Bounded == TypeOK /\ LineageBounded

\* The process that owns the session of p: the last one below a boundary.
SessionRoot(p) ==
    LET up[k \in 0..Cardinality(PIDs)] ==
          IF k = 0 THEN p
          ELSE LET q == up[k - 1] IN
               IF Tree[q] <= 2 \/ Tree[q] \in Boundaries THEN q ELSE Tree[q]
    IN  up[Cardinality(PIDs)]
Roots == [p \in PIDs |-> SessionRoot(p)]

\* Session boundaries: alerts that end up in one story were raised by
\* processes of one session of the process tree, so logins, containers and
\* daemons stay apart.
SessionsApart ==
    \A j \in 1..Len(filed) : \A i \in 1..(j - 1) :
        Canonical(filed[i].story) = Canonical(filed[j].story) =>
            Roots[filed[i].pid] = Roots[filed[j].pid]

\* What StorylineConfig.Threshold and the README say: a storyline that spans
\* the threshold has been reported, for as many tactics as it spans.
SpanIsReported ==
    \A n \in StoryIds :
        Live(stories[n]) /\ Cardinality(stories[n].tactics) >= Threshold =>
            stories[n].reportedN = Cardinality(stories[n].tactics)

\* What StoryStep.pivotal says: steps that introduced a tactic are never
\* evicted.  There are as many slots as tactics here, so a story of at most
\* that many tactics keeps one pivotal step of each alert that brought one.
PivotalNeverEvicted ==
    [][\A n \in StoryIds : Live(stories'[n]) =>
          \A i \in 1..Len(stories[n].steps) :
              stories[n].steps[i].pivotal =>
                  \E j \in 1..Len(stories'[n].steps) :
                      LET was == stories[n].steps[i]
                          is == stories'[n].steps[j]
                      IN  is.pivotal /\ is.pid = was.pid /\ is.ts = was.ts]_vars

\* What Alert.Storyline says: the id on an alert leads to everything filed
\* in the same story with one equality filter.
OneIdPerStory ==
    \A i, j \in 1..Len(filed) :
        Canonical(filed[i].story) = Canonical(filed[j].story) =>
            filed[i].story = filed[j].story
=============================================================================
