-------------------------- MODULE LifecycleProofs --------------------------
(***************************************************************************)
(* The shutdown summary is never painted over, and the frame above it is   *)
(* complete: for any set of failing calls and any number of alerts.        *)
(*                                                                         *)
(* Both rest on where the painter can be while main closes the display.    *)
(***************************************************************************)
EXTENDS Lifecycle, TLAPS

Calls == {"jsonl", "sinks", "debug", "collector", "capture", "display"}
Resources == {"jsonl", "debug", "collector", "capture"}

Frames == [shown : Nat \cup {NoFrame}, summary : BOOLEAN]
Frame(n, b) == [shown |-> n, summary |-> b]

Typed ==
    /\ mode \in Modes
    /\ defers \in Seq(Calls)
    /\ raised \in Nat /\ total \in Nat /\ held \in Nat \cup {NoFrame}
    /\ screen \in Frames
    /\ closed \in BOOLEAN /\ printed \in BOOLEAN /\ unpainted \in BOOLEAN

\* Without --dashboard there is no display to close and nothing to paint.
NoDisplay ==
    ~mode.dashboard =>
        /\ painter = "none" /\ ~closed
        /\ \A i \in 1..Len(defers) : defers[i] # "display"

\* Where Close can be: in progress only where it is called, and only after
\* closed was set; closed only once the work is over.
CloseWhere ==
    /\ closing # "no" => closed /\ CallsClose
    /\ closing \in {"no", "wait", "paint"}
    /\ closed => pc \in {"finish", "summary", "unwind", "returned"}

\* The painter has gone when Close paints and when Close has returned.
PainterGone ==
    closed /\ closing # "wait" => painter = "gone"

\* Close has returned before the summary.
ClosedBeforeSummary ==
    /\ pc = "summary" => ~mode.dashboard \/ (closed /\ closing = "no")
    /\ printed => /\ pc \in {"unwind", "returned"}
                  /\ ~mode.dashboard \/ (closed /\ closing = "no")

\* The dashboard has counted every alert, and once Close has returned the
\* screen shows them all.
Counted == mode.dashboard => total = raised
Shown == closed /\ closing = "no" /\ ~unpainted => screen.shown = total

IInv ==
    /\ Typed /\ NoDisplay /\ CloseWhere /\ PainterGone /\ ClosedBeforeSummary
    /\ Counted /\ Shown /\ SummarySurvives

-----------------------------------------------------------------------------
\* What the terminal shows after a frame of n alerts.
LEMMA FrameTyped ==
    ASSUME NEW n \in Nat \cup {NoFrame}, NEW b \in BOOLEAN
    PROVE  Frame(n, b) \in Frames /\ Frame(n, b).shown = n /\ Frame(n, b).summary = b
BY DEF Frame, Frames

\* The flags are read and nothing is open yet.
THEOREM InitIInv == Init => IInv
<1> SUFFICES ASSUME Init PROVE IInv
  OBVIOUS
<1>1. Typed
  <2>1. mode \in Modes /\ defers = <<>> /\ screen = Frame(NoFrame, FALSE)
    BY DEF Init, Frame
  <2>2. defers \in Seq(Calls)
    BY <2>1
  <2>3. screen \in Frames
    BY <2>1, FrameTyped
  <2> QED BY <2>1, <2>2, <2>3 DEF Init, Typed
<1> QED BY <1>1 DEF Init, IInv, NoDisplay, CloseWhere, PainterGone, ClosedBeforeSummary,
                    Counted, Shown, SummarySurvives

\* Pushing a deferred call other than the display's keeps the stack typed
\* and free of displays.
LEMMA Pushed ==
    ASSUME NEW s \in Seq(Calls), NEW r \in Calls
    PROVE  /\ <<r>> \o s \in Seq(Calls)
           /\ (r # "display" /\ \A i \in 1..Len(s) : s[i] # "display")
                => \A i \in 1..Len(<<r>> \o s) : (<<r>> \o s)[i] # "display"
OBVIOUS

\* Popping a call keeps it so too.
LEMMA Popped ==
    ASSUME NEW s \in Seq(Calls), s # <<>>
    PROVE  /\ Tail(s) \in Seq(Calls)
           /\ (\A i \in 1..Len(s) : s[i] # "display")
                => \A i \in 1..Len(Tail(s)) : Tail(s)[i] # "display"
OBVIOUS

\* Opening something, or failing to.
LEMMA AcquireIInv ==
    ASSUME IInv, NEW r \in Resources, NEW next,
           pc \notin {"finish", "summary", "unwind", "returned"},
           next \notin {"summary"},
           Acquire(r, next)
    PROVE  IInv'
<1> USE DEF IInv
<1>1. r \in Calls /\ r # "display"
  BY DEF Resources, Calls
<1>2. ~closed /\ closing = "no" /\ ~printed
  BY DEF CloseWhere, ClosedBeforeSummary
<1>3. Typed' /\ NoDisplay'
  BY <1>1, Pushed DEF Typed, NoDisplay, Acquire, alertVars, dashVars, termVars
<1> QED BY <1>2, <1>3 DEF Acquire, alertVars, dashVars, termVars, CloseWhere, PainterGone,
                          ClosedBeforeSummary, Counted, Shown, SummarySurvives

\* Opening: no display is closed, whatever fails.
LEMMA OpeningIInv == IInv /\ Opening => IInv'
<1> SUFFICES ASSUME IInv, Opening PROVE IInv'
  OBVIOUS
<1> USE DEF IInv
<1>1. CASE OpenLog
  BY <1>1, AcquireIInv DEF OpenLog, Resources
<1>2. CASE OpenCollector
  BY <1>2, AcquireIInv DEF OpenCollector, Resources
<1>3. CASE OpenCapture
  BY <1>3, AcquireIInv DEF OpenCapture, Resources
<1>4. CASE MakeSinks
  <2>1. Typed' /\ NoDisplay'
    BY <1>4, Pushed DEF MakeSinks, Calls, Typed, NoDisplay, alertVars, dashVars, termVars
  <2> QED BY <1>4, <2>1 DEF MakeSinks, alertVars, dashVars, termVars, CloseWhere, CallsClose,
              Deferred, PainterGone, ClosedBeforeSummary, Counted, Shown, SummarySurvives
<1>5. CASE OpenDebug
  <2>1. CASE mode.verbose
    BY <1>5, <2>1, AcquireIInv DEF OpenDebug, Resources
  <2>2. CASE ~mode.verbose
    BY <1>5, <2>2 DEF OpenDebug, alertVars, dashVars, termVars, Typed, NoDisplay, CloseWhere,
       CallsClose, Deferred, PainterGone, ClosedBeforeSummary, Counted, Shown, SummarySurvives
  <2> QED BY <2>1, <2>2
<1>6. CASE StartDisplay
  <2>1. Typed' /\ NoDisplay'
    BY <1>6, Pushed DEF StartDisplay, Calls, Typed, NoDisplay, CloseWhere, alertVars, termVars
  <2> QED BY <1>6, <2>1 DEF StartDisplay, alertVars, termVars, CloseWhere, CallsClose,
              Deferred, PainterGone, ClosedBeforeSummary, Counted, Shown, SummarySurvives
<1> QED BY <1>1, <1>2, <1>3, <1>4, <1>5, <1>6 DEF Opening

\* The work and the summary: an alert reaches the dashboard's count, and
\* the summary is printed after Close.
LEMMA WorkingIInv == IInv /\ (Working \/ CaptureEnds) => IInv'
<1> SUFFICES ASSUME IInv, Working \/ CaptureEnds PROVE IInv'
  OBVIOUS
<1> USE DEF IInv
<1>1. CASE Alert
  <2>1. PICK f \in BOOLEAN : LogWrite(f) /\ DashboardWrite(ReachesDisplay(f))
    BY <1>1 DEF Alert
  <2>2. /\ raised' = raised + 1
        /\ total' = IF mode.dashboard THEN total + 1 ELSE total
    BY <1>1, <2>1 DEF Alert, DashboardWrite, ReachesDisplay
  <2>3. ~closed /\ closing = "no" /\ ~printed
    BY <1>1 DEF Alert, CloseWhere, ClosedBeforeSummary
  <2>4. Typed' /\ Counted'
    BY <1>1, <2>2 DEF Alert, Typed, Counted, mainVars, dashVars, termVars
  <2> QED BY <1>1, <2>3, <2>4 DEF Alert, mainVars, dashVars, termVars, NoDisplay, CloseWhere,
              PainterGone, ClosedBeforeSummary, Shown, SummarySurvives
<1>2. CASE EndWork
  BY <1>2 DEF EndWork, alertVars, dashVars, termVars, Typed, NoDisplay, CloseWhere, CallsClose,
     Deferred, PainterGone, ClosedBeforeSummary, Counted, Shown, SummarySurvives
<1>3. CASE SkipDisplay
  BY <1>3 DEF SkipDisplay, alertVars, dashVars, termVars, Typed, NoDisplay, CloseWhere,
     CallsClose, Deferred, PainterGone, ClosedBeforeSummary, Counted, Shown, SummarySurvives
<1>4. CASE PrintSummary
  <2>1. screen' = [screen EXCEPT !.summary = TRUE] /\ printed' = TRUE
    BY <1>4 DEF PrintSummary
  <2>2. Typed' /\ screen'.summary /\ screen'.shown = screen.shown
    BY <1>4, <2>1 DEF PrintSummary, Typed, Frames, alertVars, dashVars
  <2>3. ~closed => ~mode.dashboard
    BY <1>4 DEF PrintSummary, ClosedBeforeSummary
  <2>4. closing = "no"
    BY <1>4 DEF PrintSummary, CloseWhere, CallsClose, Deferred
  <2> QED BY <1>4, <2>2, <2>3, <2>4 DEF PrintSummary, alertVars, dashVars, NoDisplay, CloseWhere,
              PainterGone, ClosedBeforeSummary, Counted, Shown, SummarySurvives
<1> QED BY <1>1, <1>2, <1>3, <1>4 DEF Working, PumpEnds, CaptureEnds, ReplayInterrupted

\* The deferred calls that close files and detach probes.
LEMMA UnwindingIInv == IInv /\ Unwinding => IInv'
<1> SUFFICES ASSUME IInv, Unwinding PROVE IInv'
  OBVIOUS
<1> USE DEF IInv
<1>1. CASE CloseResource
  <2>1. pc = "unwind" /\ defers # <<>> /\ Head(defers) # "display" /\ defers' = Tail(defers)
    BY <1>1 DEF CloseResource, Deferred
  <2>2. closing = "no"
    BY <2>1 DEF CloseWhere, CallsClose, Deferred
  <2>3. Typed' /\ NoDisplay'
    BY <1>1, <2>1, Popped DEF CloseResource, Typed, NoDisplay, alertVars, dashVars, termVars
  <2> QED BY <1>1, <2>2, <2>3 DEF CloseResource, alertVars, dashVars, termVars, CloseWhere,
              PainterGone, ClosedBeforeSummary, Counted, Shown, SummarySurvives
<1>2. CASE CloseSinks
  <2>1. pc = "unwind" /\ defers # <<>> /\ Head(defers) # "display"
    BY <1>2 DEF CloseSinks, Deferred
  <2>2. closing = "no"
    BY <2>1 DEF CloseWhere, CallsClose, Deferred
  <2>3. /\ Tail(defers) \in Seq(Calls)
        /\ <<"display">> \o Tail(defers) \in Seq(Calls)
        /\ (\A i \in 1..Len(defers) : defers[i] # "display")
              => \A i \in 1..Len(Tail(defers)) : Tail(defers)[i] # "display"
    BY <2>1, Pushed, Popped DEF Typed, Calls
  <2>4. Typed' /\ NoDisplay'
    BY <1>2, <2>3 DEF CloseSinks, Typed, NoDisplay, alertVars, dashVars, termVars
  <2> QED BY <1>2, <2>2, <2>4 DEF CloseSinks, alertVars, dashVars, termVars, CloseWhere,
              PainterGone, ClosedBeforeSummary, Counted, Shown, SummarySurvives
<1>3. CASE Return
  BY <1>3 DEF Return, alertVars, dashVars, termVars, Typed, NoDisplay, CloseWhere, CallsClose,
     Deferred, PainterGone, ClosedBeforeSummary, Counted, Shown, SummarySurvives
<1> QED BY <1>1, <1>2, <1>3 DEF Unwinding

\* Close is called only where there is a display.
LEMMA CallsCloseDisplay == IInv /\ CallsClose => mode.dashboard
<1> SUFFICES ASSUME IInv, CallsClose, ~mode.dashboard PROVE FALSE
  OBVIOUS
<1>1. defers # <<>> /\ Head(defers) = "display"
  BY DEF CallsClose, Deferred
<1>2. 1 \in 1..Len(defers) /\ defers[1] = "display"
  BY <1>1 DEF IInv, Typed
<1> QED BY <1>2 DEF IInv, NoDisplay

\* Dashboard.Close: it paints once the painter has gone, and the summary
\* cannot have been printed yet.
LEMMA ClosingIInv == IInv /\ ClosingDisplay => IInv'
<1> SUFFICES ASSUME IInv, ClosingDisplay PROVE IInv'
  OBVIOUS
<1> USE DEF IInv
<1>0. ASSUME CallsClose, CloseReturns
      PROVE  /\ defers' \in Seq(Calls)
             /\ pc' \in {"summary", "unwind"} /\ (pc = "unwind" => pc' = "unwind")
  <2>1. pc = "finish" \/ (pc = "unwind" /\ defers # <<>>)
    BY <1>0 DEF CallsClose, Deferred
  <2> QED BY <1>0, <2>1, Popped DEF CloseReturns, Typed
<1>1. CASE CloseAgain
  <2>1. mode.dashboard /\ closed /\ closing = "no" /\ pc \in {"finish", "unwind"}
    BY <1>1, CallsCloseDisplay DEF CloseAgain, CallsClose, Deferred
  <2>2. /\ defers' \in Seq(Calls)
        /\ pc' \in {"summary", "unwind"} /\ (pc = "unwind" => pc' = "unwind")
    BY <1>0, <1>1 DEF CloseAgain
  <2>3. UNCHANGED <<mode, raised, total, closed, closing, painter, held, screen, printed, unpainted>>
    BY <1>1 DEF CloseAgain, alertVars, dashVars, termVars
  <2>4. Typed' /\ NoDisplay' /\ Counted' /\ Shown' /\ SummarySurvives'
    BY <2>1, <2>2, <2>3 DEF Typed, NoDisplay, Counted, Shown, SummarySurvives
  <2>5. CloseWhere' /\ PainterGone'
    BY <2>1, <2>2, <2>3 DEF CloseWhere, PainterGone
  <2>6. ClosedBeforeSummary'
    BY <2>1, <2>2, <2>3 DEF ClosedBeforeSummary
  <2> QED BY <2>4, <2>5, <2>6
<1>2. CASE CloseBegins
  <2>1. mode.dashboard /\ ~printed
    BY <1>2, CallsCloseDisplay DEF CloseBegins, ClosedBeforeSummary
  <2> QED BY <1>2, <2>1 DEF CloseBegins, mainVars, alertVars, termVars, Typed, NoDisplay,
              CloseWhere, CallsClose, Deferred, PainterGone, ClosedBeforeSummary, Counted, Shown,
              SummarySurvives
<1>3. CASE CloseWaits
  <2>1. painter = "gone"
    BY <1>3 DEF CloseWaits, PainterDone
  <2> QED BY <1>3, <2>1 DEF CloseWaits, mainVars, alertVars, termVars, Typed, NoDisplay,
              CloseWhere, CallsClose, Deferred, PainterGone, ClosedBeforeSummary, Counted, Shown,
              SummarySurvives
<1>4. CASE ClosePaints
  <2>1. CallsClose /\ closed /\ mode.dashboard
    BY <1>4, CallsCloseDisplay DEF ClosePaints, CloseWhere
  <2>2. ~printed /\ painter = "gone"
    BY <1>4, <2>1 DEF ClosePaints, ClosedBeforeSummary, PainterGone
  <2>3. /\ defers' \in Seq(Calls)
        /\ pc' \in {"summary", "unwind"}
    BY <1>0, <1>4, <2>1 DEF ClosePaints
  <2>4. UNCHANGED <<mode, raised, total, closed, held, printed>>
    BY <1>4 DEF ClosePaints, alertVars
  <2>5. Typed' /\ Shown'
    <3>1. CASE screen' = Drawn(total) /\ unpainted' = unpainted
      <4>1. screen' \in Frames /\ screen'.shown = total
        BY <3>1, FrameTyped DEF Drawn, Frame, Typed
      <4> QED BY <2>3, <2>4, <3>1, <4>1 DEF Typed, Shown
    <3>2. CASE unpainted' = TRUE /\ screen' = screen
      BY <2>3, <2>4, <3>2 DEF Typed, Shown
    <3> QED BY <1>4, <3>1, <3>2 DEF ClosePaints
  <2> QED BY <1>4, <2>1, <2>2, <2>3, <2>5 DEF ClosePaints, alertVars, NoDisplay, CloseWhere,
              PainterGone, ClosedBeforeSummary, Counted, SummarySurvives
<1> QED BY <1>1, <1>2, <1>3, <1>4 DEF ClosingDisplay

\* The painter draws only while main is not past Close.
LEMMA PainterIInv == IInv /\ (Render \/ Write \/ Tick \/ Stop) => IInv'
<1> SUFFICES ASSUME IInv, Render \/ Write \/ Tick \/ Stop PROVE IInv'
  OBVIOUS
<1> USE DEF IInv
<1>0. ASSUME painter \notin {"none", "gone"}
      PROVE  mode.dashboard /\ ~(closed /\ closing # "wait") /\ ~printed
  BY <1>0 DEF NoDisplay, PainterGone, ClosedBeforeSummary
<1>1. CASE Render \/ Tick \/ Stop
  <2>1. painter \notin {"none", "gone"} /\ painter' \notin {"none"}
    BY <1>1 DEF Render, Tick, Stop, Stops
  <2>2. UNCHANGED <<mode, mainVars, cancelled, alertVars, closed, closing, termVars>>
    BY <1>1 DEF Render, Tick, Stop
  <2>3. held' \in Nat \cup {NoFrame}
    BY <1>1 DEF Render, Tick, Stop, Typed
  <2> QED BY <1>0, <2>1, <2>2, <2>3 DEF mainVars, alertVars, termVars, Typed, NoDisplay, CloseWhere,
              CallsClose, Deferred, PainterGone, ClosedBeforeSummary, Counted, Shown,
              SummarySurvives
<1>2. CASE Write
  <2>1. painter = "writing" /\ painter' = "waiting"
    BY <1>2 DEF Write
  <2>2. UNCHANGED <<mode, pc, defers, open, cancelled, raised, total, closed, closing, printed, unpainted>>
    BY <1>2 DEF Write, mainVars, alertVars
  <2>3. screen' \in Frames
    <3>1. CASE screen' = Drawn(held)
      BY <3>1, FrameTyped DEF Drawn, Frame, Typed
    <3>2. CASE screen' = screen
      BY <3>2 DEF Typed
    <3> QED BY <1>2, <3>1, <3>2 DEF Write
  <2>4. held' \in Nat \cup {NoFrame}
    BY <1>2 DEF Write
  <2> QED BY <1>0, <2>1, <2>2, <2>3, <2>4 DEF Typed, NoDisplay, CloseWhere,
              CallsClose, Deferred, PainterGone, ClosedBeforeSummary, Counted, Shown,
              SummarySurvives
<1> QED BY <1>1, <1>2

\* A signal only sets cancelled.
LEMMA SignalIInv == IInv /\ (Signal \/ UNCHANGED vars) => IInv'
BY DEF IInv, Signal, vars, mainVars, alertVars, dashVars, termVars, Typed, NoDisplay, CloseWhere,
       CallsClose, Deferred, PainterGone, ClosedBeforeSummary, Counted, Shown, SummarySurvives

\* Every step of run and of the painter keeps the invariant.
THEOREM NextIInv == IInv /\ [Next]_vars => IInv'
BY OpeningIInv, WorkingIInv, UnwindingIInv, ClosingIInv, PainterIInv, SignalIInv DEF Next, Main

\* The invariant holds throughout a run.
THEOREM InvariantHolds == Spec => []IInv
BY InitIInv, NextIInv, PTL DEF Spec

\* The summary is never painted over: whatever fails, and wherever the
\* painter is when main comes to close the display (finishDisplay).
THEOREM SummaryStays == Spec => []SummarySurvives
<1>1. IInv => SummarySurvives
  BY DEF IInv
<1> QED BY <1>1, InvariantHolds, PTL

\* The frame above the summary shows every alert of the run.
THEOREM LastFrameComplete == Spec => []FinalFrameComplete
<1>1. IInv => FinalFrameComplete
  BY DEF IInv, ClosedBeforeSummary, Counted, Shown, FinalFrameComplete
<1> QED BY <1>1, InvariantHolds, PTL

-----------------------------------------------------------------------------
(* What run leaves behind: every open resource has its deferred call still *)
(* to come, and so has a painter nobody has told to stop; the cursor is    *)
(* hidden only by a painter, and shown by the Close that waits for it.     *)

Has(s, r) == \E i \in 1..Len(s) : s[i] = r

CleanupInv ==
    /\ open \subseteq Resources /\ \A r \in open : Has(defers, r)
    /\ painter # "none" /\ ~closed => Has(defers, "display")
    /\ pc = "returned" => defers = <<>>
    /\ painter = "none" \/ ~mode.color => cursor = "shown"
    /\ closed /\ closing = "no" /\ ~unpainted => cursor = "shown"

\* A deferred call stays registered when another is pushed before it ...
LEMMA PushedHas ==
    ASSUME NEW s \in Seq(Calls), NEW r \in Calls
    PROVE  Has(<<r>> \o s, r) /\ \A x : Has(s, x) => Has(<<r>> \o s, x)
<1> DEFINE u == <<r>> \o s
<1>1. /\ Len(s) \in Nat /\ Len(u) = Len(s) + 1 /\ u[1] = r
      /\ \A i \in 1..Len(s) : u[i + 1] = s[i]
  OBVIOUS
<1> HIDE DEF u
<1>2. 1 \in 1..Len(u) /\ \A i \in 1..Len(s) : i + 1 \in 1..Len(u)
  BY <1>1
<1>3. Has(u, r) /\ \A x : Has(s, x) => Has(u, x)
  BY <1>1, <1>2 DEF Has
<1> QED BY <1>3 DEF u

\* ... and when another is taken off.
LEMMA PoppedHas ==
    ASSUME NEW s \in Seq(Calls), s # <<>>
    PROVE  \A x : Has(s, x) /\ x # Head(s) => Has(Tail(s), x)
<1> DEFINE t == Tail(s)
<1>1. /\ Len(s) \in Nat /\ Len(t) = Len(s) - 1 /\ Head(s) = s[1]
      /\ \A i \in 1..(Len(s) - 1) : t[i] = s[i + 1]
  OBVIOUS
<1> HIDE DEF t
<1> SUFFICES ASSUME NEW x, Has(s, x), x # Head(s) PROVE Has(t, x)
  BY DEF t
<1>2. PICK i \in 1..Len(s) : s[i] = x
  BY DEF Has
<1>3. i - 1 \in 1..(Len(s) - 1) /\ (i - 1) + 1 = i
  BY <1>1, <1>2
<1>4. t[i - 1] = x /\ i - 1 \in 1..Len(t)
  BY <1>1, <1>2, <1>3
<1> QED BY <1>4 DEF Has

\* A call that fails leaves nothing open; one that succeeds is undone later.
LEMMA AcquireCleanup ==
    ASSUME IInv, CleanupInv, NEW r \in Resources, NEW next, next # "returned",
           pc # "returned", Acquire(r, next)
    PROVE  CleanupInv'
<1>1. UNCHANGED <<mode, painter, closed, closing, cursor, unpainted>> /\ pc' # "returned"
  BY DEF Acquire, dashVars, termVars
<1>2. /\ defers \in Seq(Calls) /\ r \in Calls
  BY DEF IInv, Typed, Resources, Calls
<1>3. \/ open' = open \cup {r} /\ defers' = <<r>> \o defers
      \/ open' = open /\ defers' = defers
  BY DEF Acquire
<1>4. \A x : Has(defers, x) => Has(defers', x)
  BY <1>2, <1>3, PushedHas
<1>5. \A x \in open' : x \in Resources /\ Has(defers', x)
  <2>1. \A x \in open : x \in Resources /\ Has(defers', x)
    BY <1>4 DEF CleanupInv
  <2>2. CASE open' = open \cup {r} /\ defers' = <<r>> \o defers
    <3>1. Has(defers', r)
      BY <1>2, <2>2, PushedHas
    <3> QED BY <2>1, <2>2, <3>1
  <2> QED BY <1>3, <2>1, <2>2
<1> QED BY <1>1, <1>4, <1>5 DEF CleanupInv

\* The steps of opening.
LEMMA OpeningCleanup == IInv /\ CleanupInv /\ Opening => CleanupInv'
<1> SUFFICES ASSUME IInv, CleanupInv, Opening PROVE CleanupInv'
  OBVIOUS
<1>0. defers \in Seq(Calls) /\ "display" \in Calls /\ "sinks" \in Calls
  BY DEF IInv, Typed, Calls
<1>1. CASE OpenLog
  BY <1>1, AcquireCleanup DEF OpenLog, Resources
<1>2. CASE OpenCollector
  BY <1>2, AcquireCleanup DEF OpenCollector, Resources
<1>3. CASE OpenCapture
  BY <1>3, AcquireCleanup DEF OpenCapture, Resources
<1>4. CASE OpenDebug
  <2>1. CASE mode.verbose
    BY <1>4, <2>1, AcquireCleanup DEF OpenDebug, Resources
  <2>2. CASE ~mode.verbose
    BY <1>4, <2>2 DEF OpenDebug, dashVars, termVars, CleanupInv
  <2> QED BY <2>1, <2>2
<1>5. CASE MakeSinks
  <2>1. /\ UNCHANGED <<mode, open, painter, closed, closing, cursor, unpainted>>
        /\ pc' = "debug" /\ defers' = <<"sinks">> \o defers
    BY <1>5 DEF MakeSinks, dashVars, termVars
  <2>2. \A x : Has(defers, x) => Has(defers', x)
    BY <1>0, <2>1, PushedHas
  <2> QED BY <2>1, <2>2 DEF CleanupInv
<1>6. CASE StartDisplay
  <2>1. UNCHANGED <<mode, open, closed, closing, cursor, unpainted>> /\ pc' # "returned"
    BY <1>6 DEF StartDisplay, termVars
  <2>2. CASE mode.dashboard
    <3>1. defers' = <<"display">> \o defers
      BY <1>6, <2>2 DEF StartDisplay
    <3>2. Has(defers', "display") /\ \A x : Has(defers, x) => Has(defers', x)
      BY <1>0, <3>1, PushedHas
    <3>3. painter' # "none"
      BY <1>6, <2>2 DEF StartDisplay
    <3> QED BY <2>1, <3>2, <3>3 DEF CleanupInv
  <2>3. CASE ~mode.dashboard
    BY <1>6, <2>1, <2>3 DEF StartDisplay, CleanupInv
  <2> QED BY <2>2, <2>3
<1> QED BY <1>1, <1>2, <1>3, <1>4, <1>5, <1>6 DEF Opening

\* The deferred calls: what is popped is closed.
LEMMA UnwindingCleanup == IInv /\ CleanupInv /\ Unwinding => CleanupInv'
<1> SUFFICES ASSUME IInv, CleanupInv, Unwinding PROVE CleanupInv'
  OBVIOUS
<1>0. defers \in Seq(Calls)
  BY DEF IInv, Typed
<1>1. CASE CloseResource
  <2>1. PICK r \in Resources : Deferred(r) /\ open' = open \ {r}
    BY <1>1 DEF CloseResource, Resources
  <2>2. /\ UNCHANGED <<mode, pc, painter, closed, closing, cursor, unpainted>>
        /\ defers # <<>> /\ Head(defers) = r /\ r # "display" /\ pc = "unwind"
        /\ defers' = Tail(defers)
    BY <1>1, <2>1 DEF CloseResource, Deferred, dashVars, termVars, Resources
  <2>3. \A x : Has(defers, x) /\ x # r => Has(defers', x)
    BY <1>0, <2>2, PoppedHas
  <2> QED BY <2>1, <2>2, <2>3 DEF CleanupInv
<1>2. CASE CloseSinks
  <2>1. /\ UNCHANGED <<mode, pc, painter, closed, closing, cursor, unpainted>>
        /\ defers # <<>> /\ Head(defers) = "sinks" /\ pc = "unwind"
        /\ open' = open \ {"jsonl"}
        /\ defers' = Tail(defers) \/ defers' = <<"display">> \o Tail(defers)
    BY <1>2 DEF CloseSinks, Deferred, dashVars, termVars
  <2>2. \A x : Has(defers, x) /\ x # "sinks" => Has(Tail(defers), x)
    BY <1>0, <2>1, PoppedHas
  <2>3. Tail(defers) \in Seq(Calls) /\ "display" \in Calls
    BY <1>0, <2>1 DEF Calls
  <2>4. \A x : Has(Tail(defers), x) => Has(defers', x)
    BY <2>1, <2>3, PushedHas
  <2>5. \A x \in Resources \cup {"display"} : x # "sinks"
    BY DEF Resources
  <2> QED BY <2>1, <2>2, <2>4, <2>5 DEF CleanupInv
<1>3. CASE Return
  BY <1>3 DEF Return, dashVars, termVars, CleanupInv
<1> QED BY <1>1, <1>2, <1>3 DEF Unwinding

\* Close: it takes the display off the stack when the painter has been told.
LEMMA ClosingCleanup == IInv /\ CleanupInv /\ ClosingDisplay => CleanupInv'
<1> SUFFICES ASSUME IInv, CleanupInv, ClosingDisplay PROVE CleanupInv'
  OBVIOUS
<1>0. ASSUME CallsClose, CloseReturns
      PROVE  /\ pc' # "returned"
             /\ \A x \in Resources : Has(defers, x) => Has(defers', x)
  <2>1. CASE pc = "finish"
    BY <1>0, <2>1 DEF CloseReturns
  <2>2. CASE pc # "finish"
    <3>1. /\ pc' = "unwind" /\ defers # <<>> /\ Head(defers) = "display" /\ defers' = Tail(defers)
      BY <1>0, <2>2 DEF CloseReturns, CallsClose, Deferred
    <3>2. defers \in Seq(Calls)
      BY DEF IInv, Typed
    <3>3. \A x : Has(defers, x) /\ x # "display" => Has(defers', x)
      BY <3>1, <3>2, PoppedHas
    <3> QED BY <3>1, <3>3 DEF Resources
  <2> QED BY <2>1, <2>2
<1>1. CASE CloseAgain
  <2>1. UNCHANGED <<mode, open, painter, closed, closing, cursor, unpainted>> /\ closed
    BY <1>1 DEF CloseAgain, dashVars, termVars
  <2> QED BY <1>0, <1>1, <2>1 DEF CloseAgain, CleanupInv
<1>2. CASE CloseBegins
  BY <1>2 DEF CloseBegins, mainVars, termVars, CleanupInv
<1>3. CASE CloseWaits
  BY <1>3 DEF CloseWaits, mainVars, termVars, CleanupInv
<1>4. CASE ClosePaints
  <2>1. closed /\ CallsClose
    BY <1>4 DEF ClosePaints, IInv, CloseWhere
  <2>2. UNCHANGED <<mode, open, painter, closed>>
    BY <1>4 DEF ClosePaints
  <2>3. /\ painter = "none" \/ ~mode.color => cursor' = "shown"
        /\ ~unpainted' => cursor' = "shown"
    BY <1>4 DEF ClosePaints, CursorAfterClose, CleanupInv
  <2> QED BY <1>0, <1>4, <2>1, <2>2, <2>3 DEF ClosePaints, CleanupInv
<1> QED BY <1>1, <1>2, <1>3, <1>4 DEF ClosingDisplay

\* The painter hides the cursor only while somebody will show it again.
LEMMA PainterCleanup == IInv /\ CleanupInv /\ (Render \/ Write \/ Tick \/ Stop) => CleanupInv'
<1> SUFFICES ASSUME IInv, CleanupInv, Render \/ Write \/ Tick \/ Stop PROVE CleanupInv'
  OBVIOUS
<1>1. /\ UNCHANGED <<mode, pc, defers, open, closed, closing, unpainted>>
      /\ painter \notin {"none", "gone"} /\ painter' # "none"
      /\ cursor' = cursor \/ mode.color
  BY DEF Render, Write, Tick, Stop, Stops, mainVars, termVars
<1>2. ~(closed /\ closing = "no")
  BY <1>1 DEF IInv, PainterGone
<1> QED BY <1>1, <1>2 DEF CleanupInv

\* Every step keeps what is left to be undone registered.
LEMMA NextCleanup == IInv /\ CleanupInv /\ [Next]_vars => CleanupInv'
<1> SUFFICES ASSUME IInv, CleanupInv, [Next]_vars PROVE CleanupInv'
  OBVIOUS
<1>1. CASE Working \/ CaptureEnds
  <2>1. UNCHANGED <<mode, defers, open, painter, closed, closing, cursor, unpainted>> /\ pc' # "returned"
    BY <1>1 DEF Working, Alert, PumpEnds, ReplayInterrupted, EndWork, SkipDisplay, PrintSummary,
       CaptureEnds, mainVars, dashVars, termVars
  <2> QED BY <2>1 DEF CleanupInv
<1>2. CASE Signal \/ UNCHANGED vars
  BY <1>2 DEF Signal, vars, mainVars, dashVars, termVars, CleanupInv
<1> QED BY <1>1, <1>2, OpeningCleanup, UnwindingCleanup, ClosingCleanup, PainterCleanup
        DEF Next, Main

\* However run ends - at the end of its work, on a signal, or at any of the
\* calls that failed - every file is closed, the probes are detached, the
\* painter is gone and the cursor is back, unless the paint that would have
\* shown it failed.
THEOREM RunCleansUp == Spec => []LeavesNothingBehind
<1>1. Init => CleanupInv
  BY DEF Init, CleanupInv
<1>2. IInv /\ CleanupInv => LeavesNothingBehind
  <2> SUFFICES ASSUME IInv, CleanupInv, pc = "returned"
               PROVE  /\ ~unpainted => cursor = "shown"
                      /\ open = {} /\ painter \in {"none", "gone"}
    BY DEF LeavesNothingBehind, CursorRestored, NothingLeft
  <2>1. \A x : ~Has(defers, x)
    BY DEF CleanupInv, Has
  <2>2. open = {} /\ (painter = "none" \/ closed)
    BY <2>1 DEF CleanupInv
  <2>3. closing = "no"
    BY DEF IInv, CloseWhere, CallsClose, Deferred
  <2> QED BY <2>2, <2>3 DEF IInv, PainterGone, CleanupInv
<1> QED BY <1>1, <1>2, NextCleanup, InvariantHolds, PTL DEF Spec
=============================================================================
