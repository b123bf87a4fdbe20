----------------------------- MODULE Lifecycle -----------------------------
(***************************************************************************)
(* One run of the agent from its flags to its end: what run opens, in      *)
(* which order, what its deferred calls close, and how the dashboard's     *)
(* painter goroutine shares the terminal with the main goroutine           *)
(* (cmd/krnlsentry/main.go, output/sink.go, jsonl.go, dashboard.go).       *)
(*                                                                         *)
(* A frame is abstracted to the number of alerts it shows.  Paint renders  *)
(* under the dashboard's lock and writes outside it, so it is two steps.   *)
(***************************************************************************)
EXTENDS Integers, Sequences

CONSTANTS
    Fails,      \* the calls that may fail, a subset of Fallible
    MaxAlerts   \* bound: alerts raised in a run

Fallible == {"jsonl", "debug", "collector", "capture", "read", "log", "paint"}

ASSUME LifecycleAssumption == Fails \subseteq Fallible /\ MaxAlerts \in Nat

VARIABLES
    mode,        \* the flags: [dashboard, replay, verbose, color]
    pc,          \* where run is
    defers,      \* its deferred calls, the next one to run first
    open,        \* files open and probes attached
    cancelled,   \* ctx.Done(): a signal arrived
    raised,      \* alerts handed to MultiSink.Write
    logged,      \* alerts written to the JSONL file
    writeErrors, \* counters.writeErrors
    total,       \* Dashboard.total
    closed,      \* Dashboard.closed, and the stop channel with it
    closing,     \* how far the Close in progress is: "no", "wait", "paint"
    painter,     \* the goroutine of Start; it closes done when it ends
    held,        \* the frame the painter has rendered and not yet written
    screen,      \* what the terminal shows: [shown, summary]
    cursor,      \* "shown" or "hidden"
    printed,     \* whether printSummary has run
    unpainted    \* whether the final Paint of Close failed

mainVars == <<pc, defers, open>>
alertVars == <<raised, logged, writeErrors, total>>
dashVars == <<closed, closing, painter, held>>
termVars == <<screen, cursor, printed, unpainted>>
vars == <<mode, mainVars, cancelled, alertVars, dashVars, termVars>>

Modes == [dashboard : BOOLEAN, replay : BOOLEAN, verbose : BOOLEAN, color : BOOLEAN]

NoFrame == -1

Init ==
    /\ mode \in Modes
    /\ pc = "jsonl" /\ defers = <<>> /\ open = {}
    /\ cancelled = FALSE
    /\ raised = 0 /\ logged = 0 /\ writeErrors = 0 /\ total = 0
    /\ closed = FALSE /\ closing = "no" /\ painter = "none" /\ held = NoFrame
    /\ screen = [shown |-> NoFrame, summary |-> FALSE]
    /\ cursor = "shown" /\ printed = FALSE /\ unpainted = FALSE

-----------------------------------------------------------------------------
(* run: opening.  A call that fails returns from run, which unwinds. *)

Acquire(r, next) ==
    /\ \/ /\ open' = open \cup {r} /\ defers' = <<r>> \o defers
          /\ pc' = next
       \/ /\ r \in Fails /\ pc' = "unwind"
          /\ UNCHANGED <<open, defers>>
    /\ UNCHANGED <<mode, cancelled, alertVars, dashVars, termVars>>

OpenLog == pc = "jsonl" /\ Acquire("jsonl", "display")

\* The display is made and the deferred sinks.Close registered, before
\* anything else that can fail.
MakeSinks ==
    /\ pc = "display" /\ pc' = "debug"
    /\ defers' = <<"sinks">> \o defers
    /\ UNCHANGED <<mode, open, cancelled, alertVars, dashVars, termVars>>

OpenDebug ==
    /\ pc = "debug"
    /\ IF mode.verbose
       THEN Acquire("debug", "source")
       ELSE /\ pc' = "source"
            /\ UNCHANGED <<mode, defers, open, cancelled, alertVars, dashVars, termVars>>

OpenCollector == pc = "source" /\ ~mode.replay /\ Acquire("collector", "start")

\* Start spawns the painter and run defers a Close; a replay starts the
\* display before it opens its capture.
StartDisplay ==
    /\ pc = "start" \/ (pc = "source" /\ mode.replay)
    /\ pc' = IF mode.replay THEN "capture" ELSE "work"
    /\ IF mode.dashboard
       THEN painter' = "rendering" /\ defers' = <<"display">> \o defers
       ELSE UNCHANGED <<painter, defers>>
    /\ UNCHANGED <<mode, open, cancelled, alertVars, closed, closing, held, termVars>>

OpenCapture == pc = "capture" /\ Acquire("capture", "work")

-----------------------------------------------------------------------------
(* pump and replay. *)

\* MultiSink.Write: every sink is tried, whatever the others said.
ReachesDisplayShort(logFails) == mode.dashboard /\ ~logFails
ReachesDisplay(logFails) == mode.dashboard

LogWrite(fails) == logged' = IF fails THEN logged ELSE logged + 1
DashboardWrite(reaches) == total' = IF reaches THEN total + 1 ELSE total

\* process, of an event that raises an alert: an error is counted, no more.
Alert ==
    /\ pc = "work" /\ raised < MaxAlerts
    /\ raised' = raised + 1
    /\ \E logFails \in IF "log" \in Fails THEN BOOLEAN ELSE {FALSE} :
          /\ LogWrite(logFails)
          /\ DashboardWrite(ReachesDisplay(logFails))
          /\ writeErrors' = IF logFails THEN writeErrors + 1 ELSE writeErrors
    /\ UNCHANGED <<mode, mainVars, cancelled, dashVars, termVars>>

EndWork ==
    /\ pc = "work" /\ pc' = "finish"
    /\ UNCHANGED <<mode, defers, open, cancelled, alertVars, dashVars, termVars>>

\* The live run ends on a signal, or when the collector fails to read.
PumpEnds == ~mode.replay /\ (cancelled \/ "read" \in Fails) /\ EndWork

\* A replay ends with its capture or at a malformed line of it, and a signal
\* interrupts it before the next event.
CaptureEnds == mode.replay /\ EndWork
ReplayInterrupted == mode.replay /\ cancelled /\ EndWork

\* finishDisplay comes before printSummary.
SkipDisplay ==
    /\ pc = "finish" /\ ~mode.dashboard /\ pc' = "summary"
    /\ UNCHANGED <<mode, defers, open, cancelled, alertVars, dashVars, termVars>>

PrintSummary ==
    /\ pc = "summary" /\ pc' = "unwind"
    /\ screen' = [screen EXCEPT !.summary = TRUE]
    /\ printed' = TRUE
    /\ UNCHANGED <<mode, defers, open, cancelled, alertVars, dashVars, cursor, unpainted>>

Signal ==
    /\ pc # "returned" /\ ~cancelled /\ cancelled' = TRUE
    /\ UNCHANGED <<mode, mainVars, alertVars, dashVars, termVars>>

-----------------------------------------------------------------------------
(* The deferred calls, last registered first. *)

Deferred(r) == pc = "unwind" /\ defers # <<>> /\ Head(defers) = r

\* A file or the probes; closing the log a second time does nothing.
CloseResource ==
    /\ \E r \in {"jsonl", "debug", "collector", "capture"} :
          Deferred(r) /\ open' = open \ {r}
    /\ defers' = Tail(defers)
    /\ UNCHANGED <<mode, pc, cancelled, alertVars, dashVars, termVars>>

\* MultiSink.Close: first the log, then the display.
CloseSinks ==
    /\ Deferred("sinks")
    /\ open' = open \ {"jsonl"}
    /\ defers' = IF mode.dashboard THEN <<"display">> \o Tail(defers) ELSE Tail(defers)
    /\ UNCHANGED <<mode, pc, cancelled, alertVars, dashVars, termVars>>

Return ==
    /\ pc = "unwind" /\ defers = <<>> /\ pc' = "returned"
    /\ cancelled' = TRUE
    /\ UNCHANGED <<mode, defers, open, alertVars, dashVars, termVars>>

-----------------------------------------------------------------------------
(* Dashboard.Close, called by finishDisplay and by the deferred calls. *)

CallsClose == Deferred("display") \/ (pc = "finish" /\ mode.dashboard)

CloseReturns ==
    IF pc = "finish" THEN pc' = "summary" /\ UNCHANGED defers
    ELSE defers' = Tail(defers) /\ UNCHANGED pc

\* Closed already: Close returns at once.
CloseAgain ==
    /\ CallsClose /\ closing = "no" /\ closed
    /\ CloseReturns
    /\ UNCHANGED <<mode, open, cancelled, alertVars, dashVars, termVars>>

CloseBegins ==
    /\ CallsClose /\ closing = "no" /\ ~closed
    /\ closed' = TRUE /\ closing' = "wait"
    /\ UNCHANGED <<mode, mainVars, cancelled, alertVars, painter, held, termVars>>

\* <-d.done
PainterDoneUnawaited == TRUE
PainterDone == painter = "gone"

CloseWaits ==
    /\ closing = "wait" /\ PainterDone
    /\ closing' = "paint"
    /\ UNCHANGED <<mode, mainVars, cancelled, alertVars, closed, painter, held, termVars>>

\* What a frame of n alerts leaves on the terminal: the cursor goes home and
\* everything below the frame is erased.
Drawn(n) == [shown |-> n, summary |-> FALSE]

\* The final frame, then the cursor; a failed Paint returns before it.
CursorAfterCloseLeft == IF mode.color THEN "hidden" ELSE cursor
CursorAfterClose == IF mode.color THEN "shown" ELSE cursor

ClosePaints ==
    /\ closing = "paint" /\ closing' = "no"
    /\ CloseReturns
    /\ \/ /\ screen' = Drawn(total)
          /\ cursor' = CursorAfterClose
          /\ UNCHANGED unpainted
       \/ /\ "paint" \in Fails /\ unpainted' = TRUE
          /\ UNCHANGED <<screen, cursor>>
    /\ UNCHANGED <<mode, open, cancelled, alertVars, closed, painter, held, printed>>

-----------------------------------------------------------------------------
(* The goroutine of Start. *)

Render ==
    /\ painter = "rendering" /\ painter' = "writing"
    /\ held' = total
    /\ UNCHANGED <<mode, mainVars, cancelled, alertVars, closed, closing, termVars>>

Write ==
    /\ painter = "writing" /\ painter' = "waiting"
    /\ held' = NoFrame
    /\ \/ screen' = Drawn(held) /\ cursor' = IF mode.color THEN "hidden" ELSE cursor
       \/ "paint" \in Fails /\ UNCHANGED <<screen, cursor>>
    /\ UNCHANGED <<mode, mainVars, cancelled, alertVars, closed, closing, printed, unpainted>>

Tick ==
    /\ painter = "waiting" /\ painter' = "rendering"
    /\ UNCHANGED <<mode, mainVars, cancelled, alertVars, closed, closing, held, termVars>>

\* The stop channel is looked at between two frames.
StopsOnFirstFrame == closed /\ painter = "waiting" /\ screen.shown = NoFrame
Stops == closed /\ painter = "waiting"

Stop ==
    /\ Stops
    /\ painter' = "gone"
    /\ UNCHANGED <<mode, mainVars, cancelled, alertVars, closed, closing, held, termVars>>

-----------------------------------------------------------------------------
Opening == OpenLog \/ MakeSinks \/ OpenDebug \/ OpenCollector \/ StartDisplay \/ OpenCapture
Working == Alert \/ PumpEnds \/ ReplayInterrupted \/ SkipDisplay \/ PrintSummary
Unwinding == CloseResource \/ CloseSinks \/ Return
ClosingDisplay == CloseAgain \/ CloseBegins \/ CloseWaits \/ ClosePaints

Main == Opening \/ Working \/ Unwinding \/ ClosingDisplay

Next == Main \/ CaptureEnds \/ Render \/ Write \/ Tick \/ Stop \/ Signal

\* Both goroutines are scheduled.  A paint is shorter than the refresh
\* interval and select chooses at random among ready channels, so a closed
\* stop channel is not passed over for ever.  A capture need not end by
\* itself (it may be a pipe), but it yields the next record, before which a
\* replay looks for the signal.
Fairness == WF_vars(Main) /\ WF_vars(Render) /\ WF_vars(Write) /\ SF_vars(Stop)

Spec == Init /\ [][Next]_vars /\ Fairness

-----------------------------------------------------------------------------
\* The types of the run's state; a rendered frame is held until written.
TypeOK ==
    /\ mode \in Modes
    /\ pc \in {"jsonl", "display", "debug", "source", "start", "capture",
               "work", "finish", "summary", "unwind", "returned"}
    /\ defers \in Seq({"jsonl", "sinks", "debug", "collector", "capture", "display"})
    /\ open \subseteq {"jsonl", "debug", "collector", "capture"}
    /\ cancelled \in BOOLEAN /\ closed \in BOOLEAN
    /\ raised \in Nat /\ logged \in Nat /\ writeErrors \in Nat /\ total \in Nat
    /\ closing \in {"no", "wait", "paint"}
    /\ painter \in {"none", "rendering", "writing", "waiting", "gone"}
    /\ held \in Nat \cup {NoFrame}
    /\ held # NoFrame <=> painter = "writing"
    /\ screen \in [shown : Nat \cup {NoFrame}, summary : BOOLEAN]
    /\ cursor \in {"shown", "hidden"}
    /\ printed \in BOOLEAN /\ unpainted \in BOOLEAN

\* The shutdown summary stays on the terminal: no frame, not even one that
\* was rendered long before, is drawn over it (finishDisplay).
SummarySurvives == printed => screen.summary

\* The last frame shows every alert of the run, the ones the log could not
\* take included (Close, MultiSink.Write).
FinalFrameComplete ==
    printed /\ mode.dashboard /\ ~unpainted => screen.shown = raised

\* However run ends, the terminal gets its cursor back, unless the very
\* write that would have done it failed.
CursorRestored == pc = "returned" /\ ~unpainted => cursor = "shown"

\* However run ends, its files are closed, its probes detached and its
\* painter gone.
NothingLeft == pc = "returned" => open = {} /\ painter \in {"none", "gone"}

\* run leaves the terminal and the system as it found them.
LeavesNothingBehind == CursorRestored /\ NothingLeft

\* A signal during the work always leads to the end of run, with a painter
\* that may be anywhere in its loop.
SignalReturns == cancelled /\ pc = "work" ~> pc = "returned"

\* What finishDisplay says of Close: safe on the error paths.  A run that
\* has begun to unwind comes to its end.
ErrorPathReturns == pc = "unwind" ~> pc = "returned"
=============================================================================
