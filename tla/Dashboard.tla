----------------------------- MODULE Dashboard -----------------------------
(***************************************************************************)
(* What the dashboard shows (output/dashboard.go, metricsSource in         *)
(* cmd/krnlsentry/main.go).  The main goroutine counts an event, writes    *)
(* the alerts it raises to the dashboard, and refreshes the snapshot of    *)
(* the run's metrics; the painter renders frames meanwhile.  render holds  *)
(* the lock, Render does not: it renders again with a smaller layout until *)
(* the frame fits, and alerts arrive in between.                           *)
(*                                                                         *)
(* A frame is what it tells and how many lines it takes.  Alerts are kept  *)
(* by pointer in the code, here by their number in the stream of events.   *)
(***************************************************************************)
EXTENDS Integers, Sequences, FiniteSets, SequencesExt

CONSTANTS
    Streams,        \* the sequences of events and their alerts a run may see
    Rules,          \* DashboardOptions.Rules
    ProcWidth,      \* columns of the name and pid of each process
    MinSeverity,    \* DashboardOptions.MinSeverity
    Heights,        \* of the terminal
    Widths,
    MinUsableHeight, recentCap,
    maxRecentRows, minRecentRows, maxStoryRows, minStoryRows, maxProcRows

VARIABLES
    stream,    \* the events of this run
    read,      \* how many of them main has taken
    replaying, \* whether they come from a capture
    main,      \* the main goroutine
    observed,  \* counters.observed
    snap,      \* metricsSource.snap: [observed, progress]
    dash,      \* the counters of the Dashboard
    term,      \* the terminal's size
    paint,     \* the Render in progress: [at, lay, since]
    frame      \* the frame just painted, until main's next step

mainVars == <<stream, read, replaying, main, observed, snap, dash>>
vars == <<mainVars, term, paint, frame>>

Severities == 0..3                       \* SeverityLow..SeverityCritical
TacticWidth == <<9, 20, 15, 17, 19>>     \* of the names of the five tactics
Procs == DOMAIN ProcWidth
RuleNames == {stream[i].rule : i \in 1..Len(stream)} \ {"none"}

\* An event that raises no alert.
Quiet == [rule |-> "none", sev |-> 0, proc |-> <<>>, tactics |-> {}, steps |-> 0,
          event |-> TRUE]

ASSUME DashboardAssumption ==
    /\ maxRecentRows \in Nat /\ minRecentRows \in 1..maxRecentRows
    /\ maxStoryRows \in Nat /\ minStoryRows \in 2..maxStoryRows
    /\ recentCap \in Nat /\ recentCap >= maxRecentRows
    /\ maxProcRows \in Nat /\ MinUsableHeight \in Nat
    /\ Heights \subseteq Nat /\ Widths \subseteq Nat
    /\ IsFiniteSet(Procs) /\ IsFiniteSet(Rules)
    /\ \A s \in Streams :
          /\ Len(s) \in Nat
          /\ \A i \in 1..Len(s) : s[i] # Quiet =>
                /\ s[i].rule # "none" /\ s[i].sev \in Severities
                /\ s[i].proc \in Procs /\ s[i].steps \in Nat

FullLayout ==
    [recentRows |-> maxRecentRows, storyRows |-> maxStoryRows,
     showProcesses |-> TRUE, showTactics |-> TRUE]

NoFrame == [total |-> -1]
NotPainting == [at |-> "idle", lay |-> FullLayout, since |-> 0]

NewDashboard ==
    [total |-> 0, bySeverity |-> [s \in Severities |-> 0],
     byRule |-> [r \in RuleNames |-> 0], byTactic |-> [t \in 1..5 |-> 0],
     byProcess |-> [p \in Procs |-> 0], lastChain |-> 0, recent |-> <<>>]

Init ==
    /\ stream \in Streams /\ read = 0 /\ replaying \in BOOLEAN
    /\ main = "next" /\ observed = 0
    /\ snap = [observed |-> 0, progress |-> FALSE]
    /\ dash = NewDashboard
    /\ term \in [h : Heights, w : Widths]
    /\ paint = NotPainting /\ frame = NoFrame

-----------------------------------------------------------------------------
(* Dashboard.Write. *)

\* The latest recentCap alerts.
Recent(s) == IF Len(s) > recentCap THEN Tail(s) ELSE s

CountedVisible(a) == IF a.sev >= MinSeverity THEN 1 ELSE 0
Counted(a) == 1

Written(d, i) ==
    LET a == stream[i] IN
    [total      |-> d.total + Counted(a),
     bySeverity |-> [d.bySeverity EXCEPT ![a.sev] = @ + 1],
     byRule     |-> [d.byRule EXCEPT ![a.rule] = @ + 1],
     byTactic   |-> [t \in 1..5 |-> d.byTactic[t] + (IF t \in a.tactics THEN 1 ELSE 0)],
     byProcess  |-> [d.byProcess EXCEPT ![a.proc] = @ + 1],
     lastChain  |-> IF a.steps > 0 THEN i ELSE d.lastChain,
     recent     |-> Recent(Append(d.recent, i))]

-----------------------------------------------------------------------------
(* The panels. *)

\* width: the columns the panels are laid out for.
LaidOutWidth == LET w == term.w IN IF w < 76 THEN 76 ELSE IF w > 160 THEN 160 ELSE w

\* wrapChips: how many rows chips of these widths take in w columns.
Placed(at, width, w) ==
    IF at.rows = 0 \/ at.used + 3 + width > w
    THEN [rows |-> at.rows + 1, used |-> 3 + width]
    ELSE [rows |-> at.rows, used |-> at.used + 3 + width]
wrapChips(widths, w) ==
    LET upto[i \in 0..Len(widths)] ==
          IF i = 0 THEN [rows |-> 0, used |-> 0] ELSE Placed(upto[i - 1], widths[i], w)
    IN  IF Len(widths) = 0 THEN 1 ELSE upto[Len(widths)].rows

\* The marks are a two-byte and a three-byte character, and bytes are counted.
TacticChips(d) ==
    [t \in 1..5 |-> TacticWidth[t] + 1 + (IF d.byTactic[t] > 0 THEN 3 ELSE 2)]

Digits(n) == IF n < 10 THEN 1 ELSE IF n < 100 THEN 2 ELSE 3
ProcChips(d, procs) ==
    [i \in 1..Len(procs) |-> ProcWidth[procs[i]] + 3 + Digits(d.byProcess[procs[i]])]

\* The processes by count, then by pid.  Two entries of one pid under
\* different names may come in either order.
TopProcesses(d) ==
    LET seen == {p \in Procs : d.byProcess[p] > 0}
        before(p, q) == \/ d.byProcess[p] > d.byProcess[q]
                        \/ d.byProcess[p] = d.byProcess[q] /\ p[2] <= q[2]
        n == IF Cardinality(seen) > maxProcRows THEN maxProcRows ELSE Cardinality(seen)
    IN  {SubSeq(s, 1, n) : s \in {q \in SetToSeqs(seen) :
                                    \A i, j \in 1..Len(q) : i < j => before(q[i], q[j])}}

RuleRows(d) == Rules \cup {r \in RuleNames : d.byRule[r] > 0}

\* renderStoryline: the steps shown, and how many the last row says are not.
StepsDroppedNotCounted(steps, rows) == IF steps > rows THEN steps - rows ELSE 0
StepsDropped(steps, rows) == IF steps > rows THEN steps - (rows - 1) ELSE 0
StepsShown(steps, rows) == IF steps > rows THEN rows - 1 ELSE steps

\* renderRecent: newest first, those below MinSeverity left out.
FedWith(shown, i, rows) ==
    IF Len(shown) < rows /\ stream[i].sev >= MinSeverity THEN Append(shown, i) ELSE shown
Feed(d, rows) ==
    LET n == Len(d.recent)
        upto[k \in 0..n] ==
          IF k = 0 THEN <<>> ELSE FedWith(upto[k - 1], d.recent[n + 1 - k], rows)
    IN  upto[n]

\* alertColumns: the columns of an alert row.
minDescCols == 12
minNameCols == 10
rowOverheadShort == 28
rowOverhead == 29

alertColumns(w) ==
    LET avail(rule, proc, mitre) ==
            w - rowOverhead - rule - proc - (IF mitre > 0 THEN mitre + 1 ELSE 0)
        mitre == IF avail(21, 18, 10) < minDescCols THEN 0 ELSE 10
        rule == Max({minNameCols} \cup
                    {r \in minNameCols..21 : avail(r, 18, mitre) >= minDescCols})
        proc == Max({minNameCols} \cup
                    {p \in minNameCols..18 : avail(rule, p, mitre) >= minDescCols})
    IN  [rule |-> rule, proc |-> proc, mitre |-> mitre,
         desc |-> Max({0, avail(rule, proc, mitre)})]

\* The lines of a frame of d, panel by panel, with the blank ones between.
Lines(d, lay, procs, progress) ==
    LET w == LaidOutWidth
        header == IF progress THEN 4 ELSE 3
        severityAndRules == 1 + Max({4, Cardinality(RuleRows(d))})
        tactics == IF lay.showTactics THEN 1 + wrapChips(TacticChips(d), w - 4) ELSE 0
        between == IF lay.showTactics /\ lay.showProcesses THEN 1 ELSE 0
        processes == IF lay.showProcesses /\ procs # <<>>
                     THEN 1 + wrapChips(ProcChips(d, procs), w - 4) ELSE 0
        after == IF lay.showTactics \/ lay.showProcesses THEN 1 ELSE 0
        steps == stream[d.lastChain].steps
        story == IF d.lastChain = 0 THEN 2
                 ELSE 2 + StepsShown(steps, lay.storyRows)
                        + (IF steps > lay.storyRows THEN 1 ELSE 0)
        recent == 1 + (IF d.recent = <<>> THEN 1 ELSE Len(Feed(d, lay.recentRows)))
    IN  header + 1 + severityAndRules + 1 + tactics + between + processes + after
            + story + 1 + recent + 1 + 1

-----------------------------------------------------------------------------
(* Render. *)

\* One line is spare.
BudgetNoSpare == term.h
Budget == term.h - 1

\* What is given up next: rows of the feed, rows of the story, the processes,
\* the tactics.
ShedStoryFirst(lay) ==
    IF lay.storyRows > minStoryRows THEN [lay EXCEPT !.storyRows = @ - 1]
    ELSE IF lay.recentRows > minRecentRows THEN [lay EXCEPT !.recentRows = @ - 1]
    ELSE IF lay.showProcesses THEN [lay EXCEPT !.showProcesses = FALSE]
    ELSE [lay EXCEPT !.showTactics = FALSE]
ShedAtMinimum(lay) ==
    IF lay.recentRows >= minRecentRows
    THEN [lay EXCEPT !.recentRows = Max({minRecentRows, @ - 1})]
    ELSE IF lay.storyRows > minStoryRows THEN [lay EXCEPT !.storyRows = @ - 1]
    ELSE IF lay.showProcesses THEN [lay EXCEPT !.showProcesses = FALSE]
    ELSE [lay EXCEPT !.showTactics = FALSE]
Shed(lay) ==
    IF lay.recentRows > minRecentRows THEN [lay EXCEPT !.recentRows = @ - 1]
    ELSE IF lay.storyRows > minStoryRows THEN [lay EXCEPT !.storyRows = @ - 1]
    ELSE IF lay.showProcesses THEN [lay EXCEPT !.showProcesses = FALSE]
    ELSE [lay EXCEPT !.showTactics = FALSE]

NothingLeft(lay) == ~lay.showTactics

\* render, under the lock.
Rendered(procs) ==
    LET steps == IF dash.lastChain = 0 THEN 0 ELSE stream[dash.lastChain].steps
        rows == paint.lay.storyRows
    IN  [total      |-> dash.total,
         bySeverity |-> dash.bySeverity,
         byRule     |-> [r \in RuleRows(dash) |-> IF r \in RuleNames THEN dash.byRule[r] ELSE 0],
         chain      |-> dash.lastChain,
         shown      |-> StepsShown(steps, rows),
         dropped    |-> StepsDropped(steps, rows),
         feed       |-> Feed(dash, paint.lay.recentRows),
         observed   |-> snap.observed,
         lay        |-> paint.lay,
         since      |-> paint.since,
         progress   |-> snap.progress,
         lines      |-> Lines(dash, paint.lay, procs, snap.progress)]

BeginPaint(at) ==
    /\ paint' = [at |-> at, lay |-> FullLayout, since |-> dash.total]
    /\ frame' = NoFrame

\* The painter's tick; none after Close has stopped it.
StartPaint ==
    /\ paint.at = "idle" /\ main \notin {"closing", "closed"}
    /\ BeginPaint("painter")
    /\ UNCHANGED <<mainVars, term>>

\* One round of Render's loop: too tall, and something can be given up.
RenderAgain ==
    /\ paint.at # "idle"
    /\ \E procs \in TopProcesses(dash) :
          Lines(dash, paint.lay, procs, snap.progress) > Budget
    /\ ~NothingLeft(paint.lay)
    /\ paint' = [paint EXCEPT !.lay = Shed(@)]
    /\ UNCHANGED <<mainVars, term, frame>>

\* The last round.  The final frame of Close is painted by main.
RenderReturns ==
    /\ paint.at # "idle"
    /\ \E procs \in TopProcesses(dash) :
          /\ Rendered(procs).lines <= Budget \/ NothingLeft(paint.lay)
          /\ frame' = Rendered(procs)
    /\ paint' = NotPainting
    /\ main' = IF paint.at = "main" THEN "closed" ELSE main
    /\ UNCHANGED <<stream, read, replaying, observed, snap, dash, term>>

-----------------------------------------------------------------------------
(* The main goroutine: process and metricsSource.refresh. *)

\* A replay refreshes the metrics after each event, a live run now and then.
AfterEvent == IF replaying THEN "refreshing" ELSE "next"

TakeEvent ==
    /\ main = "next" /\ read < Len(stream) /\ frame' = NoFrame
    /\ read' = read + 1 /\ observed' = observed + 1
    /\ main' = IF stream[read + 1] = Quiet THEN AfterEvent ELSE "alerting"
    /\ UNCHANGED <<stream, replaying, snap, dash, term, paint>>

\* One of the alerts of Evaluate; a chain comes after the alert it ends with.
WriteAlert ==
    /\ main = "alerting" /\ frame' = NoFrame
    /\ dash' = Written(dash, read)
    /\ IF read < Len(stream) /\ ~stream[read + 1].event
       THEN main' = main /\ read' = read + 1
       ELSE main' = AfterEvent /\ read' = read
    /\ UNCHANGED <<stream, replaying, observed, snap, term, paint>>

refresh == snap' = [observed |-> observed, progress |-> replaying]

RefreshAfterEvent ==
    /\ main = "refreshing" /\ main' = "next" /\ frame' = NoFrame
    /\ refresh
    /\ UNCHANGED <<stream, read, replaying, observed, dash, term, paint>>

RefreshOnTick ==
    /\ main = "next" /\ ~replaying /\ frame' = NoFrame
    /\ refresh
    /\ UNCHANGED <<stream, read, replaying, main, observed, dash, term, paint>>

\* The end of pump, and of a capture, refreshes once more; an interrupted
\* replay does not.  Then finishDisplay.
FinalSnapNone == snap' = snap
FinalSnap == refresh \/ (replaying /\ snap' = snap)

Finish ==
    /\ main = "next" /\ main' = "closing" /\ frame' = NoFrame
    /\ FinalSnap
    /\ UNCHANGED <<stream, read, replaying, observed, dash, term, paint>>

\* Close, when the painter has stopped, paints the final frame.
FinalPaint ==
    /\ main = "closing" /\ paint.at = "idle"
    /\ BeginPaint("main")
    /\ UNCHANGED <<mainVars, term>>

-----------------------------------------------------------------------------
Render == RenderAgain \/ RenderReturns
Main == TakeEvent \/ WriteAlert \/ RefreshAfterEvent \/ RefreshOnTick \/ Finish \/ FinalPaint

Next == StartPaint \/ Render \/ Main

\* A goroutine that renders does not wait for anything but the lock, which
\* is held for a bounded time.
Spec == Init /\ [][Next]_vars /\ WF_vars(Render)

-----------------------------------------------------------------------------
\* The types of the dashboard's state; the history is bounded.
TypeOK ==
    /\ stream \in Streams /\ read \in 0..Len(stream) /\ replaying \in BOOLEAN
    /\ main \in {"next", "alerting", "refreshing", "closing", "closed"}
    /\ observed \in 0..read
    /\ dash.total \in 0..read /\ Len(dash.recent) <= recentCap
    /\ paint.at \in {"idle", "painter", "main"}
    /\ paint.lay.recentRows \in minRecentRows..maxRecentRows
    /\ paint.lay.storyRows \in minStoryRows..maxStoryRows

\* The alerts among the first i of the stream; the first k of all its alerts,
\* and the k-th.
AlertsUpTo(i) == {j \in 1..i : stream[j] # Quiet}
FirstAlerts(k) ==
    {i \in 1..Len(stream) : stream[i] # Quiet /\ Cardinality(AlertsUpTo(i)) <= k}
AlertNumber(k) ==
    CHOOSE i \in 1..Len(stream) : stream[i] # Quiet /\ Cardinality(AlertsUpTo(i)) = k

\* Every frame, whatever was written while it was being fitted, is a picture
\* of one moment: the totals agree with each other and with the alerts
\* written until then, below --min-severity or not; the chain is the latest,
\* all of whose steps are shown or counted; the feed is the newest visible
\* alerts without a gap.
FrameIsSnapshot ==
    frame # NoFrame =>
        LET alerts == FirstAlerts(frame.total) \cap (1..read)
            kept == {i \in alerts : Cardinality({j \in alerts : j >= i}) <= recentCap}
            visible == {i \in kept : stream[i].sev >= MinSeverity}
            chains == {i \in alerts : stream[i].steps > 0}
            fed == ToSet(frame.feed)
        IN  /\ Cardinality(alerts) = frame.total
            /\ \A s \in Severities :
                  frame.bySeverity[s] = Cardinality({i \in alerts : stream[i].sev = s})
            /\ \A i \in alerts : stream[i].rule \in DOMAIN frame.byRule
            /\ \A r \in DOMAIN frame.byRule :
                  frame.byRule[r] = Cardinality({i \in alerts : stream[i].rule = r})
            /\ frame.chain = Max({0} \cup chains)
            /\ chains # {} => frame.shown + frame.dropped = stream[frame.chain].steps
            /\ fed \subseteq visible
            /\ \A i \in fed, j \in visible \ fed : i > j
            /\ visible \subseteq fed \/ Len(frame.feed) = frame.lay.recentRows

\* The rows of the feed and of the story fit the width they are laid out
\* for: no row wraps.
RowsFit ==
    LET w == LaidOutWidth
        c == alertColumns(w)
        alertRow == 3 + 12 + 1 + 10 + 1 + c.rule + 1 + c.proc + 1
                    + (IF c.mitre > 0 THEN c.mitre + 1 ELSE 0) + c.desc
        storyRow == 3 + 2 + 1 + 9 + 1 + 16 + 1 + 30 + 1 + Max({10, w - 66})
    IN  alertRow <= w /\ storyRow <= w

\* On a terminal of the height the dashboard asks for, every frame fits: its
\* lines the height, its rows the width.
FitsTerminal ==
    frame # NoFrame /\ term.h >= MinUsableHeight => frame.lines <= term.h - 1 /\ RowsFit

\* The layout from which lay was reached by giving something up.
Wider(lay) ==
    {l \in [recentRows : {lay.recentRows, lay.recentRows + 1},
            storyRows : {lay.storyRows, lay.storyRows + 1},
            showProcesses : BOOLEAN, showTactics : BOOLEAN] :
        /\ l.recentRows <= maxRecentRows /\ l.storyRows <= maxStoryRows
        /\ l # lay /\ Shed(l) = lay}

\* The dashboard after its first k alerts.
After(k) ==
    LET first == FirstAlerts(k)
        kept == IF k > recentCap THEN recentCap ELSE k
    IN  [total      |-> k,
         bySeverity |-> [s \in Severities |-> Cardinality({i \in first : stream[i].sev = s})],
         byRule     |-> [r \in RuleNames |-> Cardinality({i \in first : stream[i].rule = r})],
         byTactic   |-> [t \in 1..5 |-> Cardinality({i \in first : t \in stream[i].tactics})],
         byProcess  |-> [p \in Procs |-> Cardinality({i \in first : stream[i].proc = p})],
         lastChain  |-> Max({0} \cup {i \in first : stream[i].steps > 0}),
         recent     |-> [n \in 1..kept |-> AlertNumber(k - kept + n)]]

\* The feed is cut before the story, the story before the panels, and nothing
\* is given up that did fit at every moment since the frame was begun.
ShedsInOrderForRoom ==
    frame # NoFrame /\ frame.lay # FullLayout =>
        /\ frame.lay.storyRows < maxStoryRows => frame.lay.recentRows = minRecentRows
        /\ ~frame.lay.showProcesses => frame.lay.storyRows = minStoryRows
        /\ ~frame.lay.showTactics => ~frame.lay.showProcesses
        /\ \E k \in frame.since..frame.total :
              LET d == After(k) IN
              \E l \in Wider(frame.lay), procs \in TopProcesses(d) :
                  Lines(d, l, procs, frame.progress) > Budget

\* Fitting gives up enough, and no more than it has to.
FitsByGivingUpLeast == FitsTerminal /\ ShedsInOrderForRoom

\* The frame that stays above the summary shows the numbers of the summary.
FinalFrameCurrent ==
    main = "closed" =>
        /\ frame.observed = observed
        /\ frame.total = Cardinality(AlertsUpTo(read))

\* Fitting a frame comes to an end, however alerts arrive.
RenderEnds == paint.at # "idle" ~> paint.at = "idle"

\* What the comment in Render says of the spare line: a painted frame does
\* not scroll the terminal.  Paint homes the cursor and ends every piece
\* between two newlines with one, the empty piece after the last included.
NeverScrolls ==
    frame # NoFrame /\ term.h >= MinUsableHeight => 1 + (frame.lines + 1) <= term.h

\* What the comment at Metrics says of reading them at paint time: the
\* display cannot drift from the counters.
MetricsDoNotDrift ==
    frame # NoFrame => frame.total <= frame.observed
=============================================================================
