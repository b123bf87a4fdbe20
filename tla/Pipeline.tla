------------------------------ MODULE Pipeline ------------------------------
(***************************************************************************)
(* The live path of an event: probes on several CPUs reserve, stamp, count *)
(* and submit records of one BPF ring buffer (bpf/krnlsentry.bpf.c); the   *)
(* collector goroutine drains the ring (ebpfloader Run) and offers each    *)
(* event to a bounded queue; the main goroutine (pump) takes them to the   *)
(* detection engine.  A signal, or a read error, ends it.                  *)
(*                                                                         *)
(* A CPU is not preempted inside a probe, but CPUs interleave.  The ring   *)
(* is the kernel's: a record is readable when it and all before it have    *)
(* been submitted.  Reader.Read fails once the reader is closed.           *)
(*                                                                         *)
(* It begins with New and ends with Close (Loader): the probes fire from   *)
(* the first attachment on, for the agent's own syscalls too, and go on    *)
(* while the collector is being opened and closed.                         *)
(***************************************************************************)
EXTENDS Loader

CONSTANTS
    CPUs,        \* CPUs on which monitored syscalls are made
    RingSize,    \* records the ring holds (RINGBUF_SIZE / sizeof(struct event))
    QueueDepth,  \* eventQueueDepth
    Malformed,   \* the numbers of the records parseRecord rejects
    MayFail,     \* whether Read may fail for another reason than Close, and
                 \* the calls of New and Close
    MaxEvents    \* bound: probes that fire

ASSUME PipelineAssumption ==
    /\ CPUs # {} /\ IsFiniteSet(CPUs)
    /\ RingSize \in Nat \ {0} /\ QueueDepth \in Nat \ {0} /\ MaxEvents \in Nat
    /\ Malformed \subseteq Nat /\ MayFail \in BOOLEAN

VARIABLES
    clock,       \* bpf_ktime_get_ns
    fired,       \* probes that have fired so far
    cpu,         \* the probe running on each CPU: [at, id, ts]
    ring,        \* records reserved and not yet read: [id, ts, ready, own]
    kEvents,     \* KS_STAT_EVENTS, summed over the CPUs
    kDropped,    \* KS_STAT_DROPPED, summed over the CPUs
    cancelled,   \* ctx.Done()
    reader,      \* Collector.reader: "open", "closed", or "nil"
    closer,      \* the goroutine of Run that closes the reader
    runner,      \* Run: "idle", "reading", "holding" a record, "failing" on an
                 \* error of Read, "returned", "broken" if with that error
    hand,        \* the record Run holds: <<>> or <<record>>
    collectErr,  \* the buffered channel of one: "empty", "nil", "error"
    queue,       \* the event queue
    queueOpen,   \* FALSE once the collector goroutine closed it
    qDropped,    \* counters.queueDropped
    logged,      \* records discarded as malformed (a log line each)
    main,        \* the main goroutine: "loading", "pumping", "closing", "exited"
    processed    \* events handed to process, in order

kernelVars == <<clock, fired, cpu, kEvents, kDropped, loaderVars>>
runVars == <<reader, closer, runner, hand, collectErr>>
queueVars == <<queue, queueOpen, qDropped, logged>>
vars == <<kernelVars, ring, cancelled, runVars, queueVars, main, processed>>

Idle == [at |-> "idle", id |-> 0]

Init ==
    /\ clock = 0 /\ fired = 0
    /\ cpu = [c \in CPUs |-> Idle]
    /\ ring = <<>> /\ kEvents = 0 /\ kDropped = 0
    /\ cancelled = FALSE
    /\ LoaderInit
    /\ reader = "nil" /\ closer = "none"
    /\ runner = "idle" /\ hand = <<>> /\ collectErr = "empty"
    /\ queue = <<>> /\ queueOpen = TRUE /\ qDropped = 0 /\ logged = 0
    /\ main = "loading" /\ processed = <<>>

-----------------------------------------------------------------------------
(* The probes. *)

Update(id, field, v) ==
    [i \in 1..Len(ring) |-> IF ring[i].id = id THEN [ring[i] EXCEPT ![field] = v] ELSE ring[i]]

\* The agent's own syscalls are skipped once the config map says so.
should_skip(own) == own /\ selfTgid

\* event_begin: reserve a record; a full ring is counted.  Probes fire until
\* they are detached.
Reserve(c, own) ==
    /\ attached # {} /\ main # "exited" /\ fired < MaxEvents
    /\ cpu[c].at = "idle"
    /\ ~should_skip(own)
    /\ fired' = fired + 1
    /\ IF Len(ring) < RingSize
       THEN /\ ring' = Append(ring, [id |-> fired + 1, ts |-> 0, ready |-> FALSE, own |-> own])
            /\ cpu' = [cpu EXCEPT ![c] = [at |-> "reserved", id |-> fired + 1]]
            /\ UNCHANGED kDropped
       ELSE /\ kDropped' = kDropped + 1
            /\ UNCHANGED <<ring, cpu>>
    /\ UNCHANGED <<clock, kEvents, loaderVars, cancelled, runVars, queueVars, main, processed>>

\* fill_common: the timestamp is taken after the record was reserved.
Stamp(c) ==
    /\ cpu[c].at = "reserved"
    /\ clock' = clock + 1
    /\ ring' = Update(cpu[c].id, "ts", clock + 1)
    /\ cpu' = [cpu EXCEPT ![c].at = "stamped"]
    /\ UNCHANGED <<fired, kEvents, kDropped, loaderVars, cancelled, runVars, queueVars, main, processed>>

\* event_submit: count, then submit.
CountBefore(c) == cpu[c].at = "stamped"
SubmitAfterUncounted(c) == cpu[c].at = "stamped"
SubmitAfter(c) == cpu[c].at = "counted"

Count(c) ==
    /\ CountBefore(c)
    /\ kEvents' = kEvents + 1
    /\ cpu' = [cpu EXCEPT ![c].at = "counted"]
    /\ UNCHANGED <<clock, fired, kDropped, ring, loaderVars, cancelled, runVars, queueVars, main, processed>>

Submit(c) ==
    /\ SubmitAfter(c)
    /\ ring' = Update(cpu[c].id, "ready", TRUE)
    /\ cpu' = [cpu EXCEPT ![c] = Idle]
    /\ UNCHANGED <<clock, fired, kEvents, kDropped, loaderVars, cancelled, runVars, queueVars, main, processed>>

-----------------------------------------------------------------------------
(* The collector goroutine. *)

Cancel ==
    /\ ~cancelled /\ main # "exited"
    /\ cancelled' = TRUE
    /\ UNCHANGED <<kernelVars, ring, runVars, queueVars, main, processed>>

Returned == runner \in {"returned", "broken"}

\* The select of the closer: either branch when both are ready.
CloseReader ==
    /\ closer = "waiting" /\ cancelled
    /\ closer' = IF reader = "nil" THEN "panicked" ELSE "gone"
    /\ reader' = IF reader = "nil" THEN "nil" ELSE "closed"
    /\ UNCHANGED <<kernelVars, ring, cancelled, runner, hand, collectErr, queueVars, main, processed>>

CloserDone ==
    /\ closer = "waiting" /\ Returned
    /\ closer' = "gone"
    /\ UNCHANGED <<kernelVars, ring, cancelled, reader, runner, hand, collectErr, queueVars, main, processed>>

\* Read returns a record as soon as the oldest one is submitted.
ReadableWhenFull == Len(ring) = RingSize /\ Head(ring).ready
Readable == ring # <<>> /\ Head(ring).ready

Read ==
    /\ runner = "reading" /\ reader = "open"
    /\ Readable
    /\ hand' = <<Head(ring)>>
    /\ ring' = Tail(ring)
    /\ runner' = "holding"
    /\ UNCHANGED <<kernelVars, cancelled, reader, closer, collectErr, queueVars, main, processed>>

\* Read fails for a reason of its own.
ReadFails ==
    /\ MayFail /\ runner = "reading" /\ reader = "open"
    /\ runner' = "failing"
    /\ UNCHANGED <<kernelVars, ring, cancelled, reader, closer, hand, collectErr, queueVars, main, processed>>

\* What Run returns: nil for a closed reader or a cancelled context, else the
\* error.
VerdictErrorsOnly == IF runner = "failing" /\ ~cancelled THEN "error" ELSE "empty"
Verdict == IF runner = "failing" /\ ~cancelled THEN "error" ELSE "nil"

\* Read does not watch the context: only closing the reader unblocks it.
UnblockedByContext == reader # "open" \/ cancelled
Unblocked == reader # "open"

\* ... and the goroutine sends the verdict on collectErr.
RunReturns ==
    /\ runner = "failing" \/ (runner = "reading" /\ Unblocked)
    /\ collectErr' = Verdict
    /\ runner' = IF runner = "failing" THEN "broken" ELSE "returned"
    /\ UNCHANGED <<kernelVars, ring, cancelled, reader, closer, hand, queueVars, main, processed>>

\* The deferred close of the queue.
CloseQueue ==
    /\ Returned /\ queueOpen
    /\ queueOpen' = FALSE
    /\ UNCHANGED <<kernelVars, ring, cancelled, runVars, queue, qDropped, logged, main, processed>>

\* parseRecord rejects the record: logged, and the loop goes on.
DiscardMalformed ==
    /\ runner = "holding" /\ hand[1].id \in Malformed
    /\ logged' = logged + 1
    /\ hand' = <<>> /\ runner' = "reading"
    /\ UNCHANGED <<kernelVars, ring, cancelled, reader, closer, collectErr, queue, queueOpen, qDropped, main, processed>>

\* The handler: a send that does not block, or a counted drop.
QueueHasRoom == Len(queue) < QueueDepth
DropCountForgotten == qDropped
DropCount == qDropped + 1

Enqueue ==
    /\ runner = "holding" /\ hand[1].id \notin Malformed
    /\ hand' = <<>> /\ runner' = "reading"
    /\ IF QueueHasRoom
       THEN queue' = Append(queue, hand[1]) /\ UNCHANGED qDropped
       ELSE qDropped' = DropCount /\ UNCHANGED queue
    /\ UNCHANGED <<kernelVars, ring, cancelled, reader, closer, collectErr, queueOpen, logged, main, processed>>

-----------------------------------------------------------------------------
(* The main goroutine: pump, then the deferred Close of run. *)

Process ==
    /\ main = "pumping" /\ queue # <<>>
    /\ processed' = Append(processed, Head(queue))
    /\ queue' = Tail(queue)
    /\ UNCHANGED <<kernelVars, ring, cancelled, runVars, queueOpen, qDropped, logged, main>>

\* The queue is closed and empty: wait for collectErr, summarise, return.
FinishableEarly == ~queueOpen
Finishable == ~queueOpen /\ queue = <<>>

Finish ==
    /\ main = "pumping" /\ Finishable
    /\ collectErr # "empty"
    /\ collectErr' = "empty"
    /\ main' = "closing"
    /\ UNCHANGED <<kernelVars, ring, cancelled, reader, closer, runner, hand, queueVars, processed>>

progVars == <<clock, fired, cpu, ring, kEvents, kDropped, hand, collectErr, queueVars, processed>>

\* New; it does not look at the context.  When it is done pump starts Run,
\* when it fails it calls Close.
Load ==
    /\ main = "loading"
    /\ Attach \/ SkipAbsent \/ CallReturns \/ (MayFail /\ CallFails)
    /\ main' = CASE new' = "done" -> "pumping" [] new' = "failed" -> "closing" [] OTHER -> main
    /\ reader' = IF new = "reader" /\ new' # "failed" THEN "open" ELSE reader
    /\ runner' = IF new' = "done" THEN "reading" ELSE runner
    /\ closer' = IF new' = "done" THEN "waiting" ELSE closer
    /\ UNCHANGED <<progVars, cancelled>>

\* Collector.Close: the reader is closed and forgotten ...
CloseRing ==
    /\ main = "closing" /\ reader # "nil"
    /\ reader' = "nil"
    /\ UNCHANGED <<progVars, loaderVars, cancelled, closer, runner, main>>

\* ... then the probes are detached ...
CloseLink ==
    /\ main = "closing" /\ reader = "nil"
    /\ Detach \/ (MayFail /\ DetachFails)
    /\ UNCHANGED <<progVars, cancelled, reader, closer, runner, main>>

\* ... and the objects closed; the deferred stop() cancels the context.
CloseObjects ==
    /\ main = "closing" /\ reader = "nil" /\ links = <<>>
    /\ main' = "exited" /\ cancelled' = TRUE
    /\ UNCHANGED <<progVars, loaderVars, reader, closer, runner>>

Probe(c) == Stamp(c) \/ Count(c) \/ Submit(c)
Collector == Read \/ RunReturns \/ CloseQueue \/ DiscardMalformed \/ Enqueue
Closer == CloseReader \/ CloserDone
Main == Load \/ Process \/ Finish \/ CloseRing \/ CloseLink \/ CloseObjects

Next ==
    \/ \E c \in CPUs : (\E own \in BOOLEAN : Reserve(c, own)) \/ Probe(c)
    \/ Cancel \/ ReadFails
    \/ Collector \/ Closer \/ Main

\* A probe runs to its end, and the Go scheduler runs every goroutine that
\* can go on.  Nothing obliges a signal to arrive, a probe to fire or a read
\* to fail.
Fairness ==
    /\ \A c \in CPUs : WF_vars(Probe(c))
    /\ WF_vars(Collector) /\ WF_vars(Closer) /\ WF_vars(Main)

Spec == Init /\ [][Next]_vars /\ Fairness

-----------------------------------------------------------------------------
\* The types of the pipeline's state, the bounds of ring and queue included.
TypeOK ==
    /\ clock \in Nat /\ fired \in 0..MaxEvents
    /\ \A c \in CPUs : cpu[c].at \in {"idle", "reserved", "stamped", "counted"}
    /\ Len(ring) <= RingSize /\ Len(queue) <= QueueDepth /\ Len(hand) <= 1
    /\ reader \in {"open", "closed", "nil"}
    /\ LoaderTypeOK
    /\ runner \in {"idle", "reading", "holding", "failing", "returned", "broken"}
    /\ collectErr \in {"empty", "nil", "error"}
    /\ main \in {"loading", "pumping", "closing", "exited"}

\* Nothing disappears unaccounted: every probe that fired is a counted drop,
\* still in the ring, in the collector's hand, in the queue, processed, or a
\* logged discard.
EveryEventAccounted ==
    fired = kDropped + Len(ring) + Len(hand) + logged + qDropped
                + Len(queue) + Len(processed)

\* The kernel's counter never trails what user space has seen of it: the
\* summary cannot show more events observed and dropped than submitted.
KernelCountsFirst == Len(processed) + qDropped + logged + Len(queue) <= kEvents

\* The counters of the summary add up at every moment: no loss without a
\* count, and none of them ahead of the kernel's.
CountersAddUp == EveryEventAccounted /\ KernelCountsFirst

\* The shutdown summary is printed after everything the collector read has
\* been processed, although the collector may be closed at any point.
DrainedBeforeSummary ==
    main \in {"closing", "exited"} /\ new = "done" =>
        queue = <<>> /\ hand = <<>> /\ Returned

\* No feedback: an event of the agent's own syscalls, of which every alert
\* written causes some, is never reported, not even one made while the
\* probes are being attached or when a later call of New fails.
NoFeedback ==
    \A r \in ToSet(ring \o hand \o queue) \cup ToSet(processed) : ~r.own

\* The agent never monitors less than it claims: while it processes events
\* every tracepoint is attached, but for the optional ones.
MonitorsEverything ==
    main = "pumping" => ToSet(tracepoints) \ optionalTracepoints \subseteq attached

\* No probe is left behind, after a New that failed at any call or a Close
\* that failed at any link, but the one that could not be detached.
NothingStranded == main = "exited" => attached = stuck

\* The probes that run are those main's phase calls for.
ProbesAsClaimed == MonitorsEverything /\ NothingStranded

Ids(s) == [i \in 1..Len(s) |-> s[i].id]

Channel == INSTANCE LossyChannel WITH
    pipe      <- Ids(queue \o hand \o ring),
    delivered <- Ids(processed),
    refused   <- kDropped,
    discarded <- qDropped + logged

\* The pipeline implements the channel: order kept through ring, hand and
\* queue, no duplicates, every loss counted.
ImplementsChannel == Channel!Spec

\* A signal always ends the program: whatever the collector and the queue
\* are doing when it arrives, main comes to its end.
ShutdownCompletes == cancelled ~> main = "exited"

\* An event submitted to the ring is eventually taken from it, as long as
\* nothing stops the collector or its opening: it is processed or its loss is counted.
RingDrains ==
    \A n \in 1..MaxEvents :
        (\E i \in 1..Len(ring) : ring[i].id = n /\ ring[i].ready)
            ~> (new = "failed" \/ Returned \/ ~\E i \in 1..Len(ring) : ring[i].id = n)

\* What the comment on the events map says: the ring buffer preserves
\* global ordering, so events reach user space in the order of their stamps.
GlobalOrder ==
    \A i, j \in 1..Len(processed) :
        i < j => processed[i].ts <= processed[j].ts

\* The closer and Close race for the reader, which Close forgets: only when
\* Read failed by itself can the closer still be waiting then, and find
\* nothing to close.  A run that a signal ends never meets it.
PanicsOnlyAfterReadError == closer = "panicked" => runner = "broken"

\* What the comment in the closer says of closing the reader: all that can
\* happen is that it is closed already.
CloserIsHarmless == closer # "panicked"
=============================================================================
