--------------------------- MODULE PipelineProofs ---------------------------
(***************************************************************************)
(* Proofs about Pipeline, for any attach list, number of CPUs and events,  *)
(* and sizes of ring and queue.                                            *)
(***************************************************************************)
EXTENDS Pipeline, FiniteSetTheorems, SequenceTheorems, TLAPS

\* How far New is, and what of it is in the kernel.
LoadInv ==
    /\ new \in {"memlock", "load", "config", "attach", "reader", "clock", "done", "failed"}
    /\ main \in {"loading", "pumping", "closing", "exited"}
    /\ main = "loading" => new \notin {"done", "failed"}
    /\ main = "pumping" => new = "done"
    /\ tried \in 0..Len(tracepoints) /\ links \in Seq(STRING)
    /\ new \in {"memlock", "load", "config"} => tried = 0 /\ links = <<>> /\ attached = {}
    /\ new \in {"reader", "clock", "done"} => tried = Len(tracepoints)

\* The agent knows itself before the first probe runs.
SelfInv ==
    /\ selfTgid \in BOOLEAN
    /\ new \in {"attach", "reader", "clock", "done"} => selfTgid
    /\ attached # {} => selfTgid

\* Each link is that of one tracepoint of the list, and what is attached has
\* a link or could not be detached.
LinkInv ==
    /\ \A i \in 1..Len(links) : \E j \in 1..tried : links[i] = tracepoints[j]
    /\ \A i, j \in 1..Len(links) : links[i] = links[j] => i = j
    /\ \A i \in 1..Len(links) : links[i] \notin stuck
    /\ attached = {links[i] : i \in 1..Len(links)} \cup stuck
    /\ main \in {"loading", "pumping"} => stuck = {}
    /\ main = "exited" => links = <<>>

\* What attachAll has been through is attached, or optional.
TriedInv ==
    main \in {"loading", "pumping"} =>
        \A j \in 1..tried : tracepoints[j] \in attached \cup optionalTracepoints

ProbeInv == LoadInv /\ SelfInv /\ LinkInv /\ TriedInv

-----------------------------------------------------------------------------
LEMMA AttachKeeps == ProbeInv /\ Load /\ Attach => ProbeInv'
  <1> SUFFICES ASSUME ProbeInv, Load, Attach PROVE ProbeInv'
    OBVIOUS
  <1>1. /\ main = "loading" /\ new = "attach" /\ tried \in Nat /\ tried + 1 \in 1..Len(tracepoints)
        /\ tried' = tried + 1 /\ links' = Append(links, tracepoints[tried + 1])
        /\ attached' = attached \cup {tracepoints[tried + 1]}
        /\ UNCHANGED <<new, selfTgid, stuck>> /\ main' = main
    BY DEF ProbeInv, LoadInv, Load, Attach
  <1>2. /\ tracepoints \in Seq(STRING)
        /\ \A i, j \in 1..Len(tracepoints) : tracepoints[i] = tracepoints[j] => i = j
    BY LoaderAssumption DEF IsInjective
  <1>3. /\ links' \in Seq(STRING) /\ Len(links') = Len(links) + 1 /\ Len(links) \in Nat
        /\ \A i \in 1..Len(links) : links'[i] = links[i]
        /\ links'[Len(links) + 1] = tracepoints[tried + 1]
    BY <1>1, <1>2 DEF ProbeInv, LoadInv
  <1>4. \A i \in 1..Len(links') : i \in 1..Len(links) \/ i = Len(links) + 1
    BY <1>3
  <1>5. LoadInv'
    BY <1>1, <1>3 DEF ProbeInv, LoadInv
  <1>6. SelfInv'
    BY <1>1 DEF ProbeInv, SelfInv
  <1>7. LinkInv'
    <2>1. \A i \in 1..Len(links) : links[i] # tracepoints[tried + 1]
      BY <1>1, <1>2 DEF ProbeInv, LinkInv
    <2>2. \A i \in 1..Len(links') : \E j \in 1..tried' : links'[i] = tracepoints[j]
      <3>1. 1..tried \subseteq 1..tried' /\ tried + 1 \in 1..tried'
        BY <1>1
      <3> QED
        BY <1>3, <1>4, <3>1 DEF ProbeInv, LinkInv
    <2>3. \A i, j \in 1..Len(links') : links'[i] = links'[j] => i = j
      BY <1>3, <1>4, <2>1 DEF ProbeInv, LinkInv
    <2>4. {links'[i] : i \in 1..Len(links')}
              = {links[i] : i \in 1..Len(links)} \cup {tracepoints[tried + 1]}
      <3>1. Len(links) + 1 \in 1..Len(links') /\ 1..Len(links) \subseteq 1..Len(links')
        BY <1>3
      <3> QED
        BY <1>3, <1>4, <3>1
    <2>5. stuck' = {} /\ main' = "loading"
      BY <1>1 DEF ProbeInv, LinkInv
    <2>6. attached' = {links'[i] : i \in 1..Len(links')} \cup stuck'
      BY <1>1, <2>4, <2>5 DEF ProbeInv, LinkInv
    <2> QED
      BY <2>2, <2>3, <2>5, <2>6 DEF LinkInv
  <1>8. TriedInv'
    <2>1. \A j \in 1..tried' : j \in 1..tried \/ j = tried + 1
      BY <1>1
    <2> QED
      BY <1>1, <2>1 DEF ProbeInv, TriedInv
  <1> QED
    BY <1>5, <1>6, <1>7, <1>8 DEF ProbeInv

LEMMA OtherLoadKeeps == ProbeInv /\ Load /\ (SkipAbsent \/ CallReturns \/ CallFails) => ProbeInv'
  <1> SUFFICES ASSUME ProbeInv, Load, SkipAbsent \/ CallReturns \/ CallFails PROVE ProbeInv'
    OBVIOUS
  <1>1. main = "loading" /\ UNCHANGED <<links, attached, stuck>>
    BY DEF Load, SkipAbsent, CallReturns, CallFails
  <1>2. CASE SkipAbsent
    <2>1. /\ tried \in Nat /\ tried' = tried + 1 /\ tried + 1 \in 1..Len(tracepoints)
          /\ UNCHANGED <<new, selfTgid>> /\ new = "attach" /\ main' = main
          /\ tracepoints[tried + 1] \in optionalTracepoints
      BY <1>1, <1>2 DEF ProbeInv, LoadInv, Load, SkipAbsent, Tolerates
    <2>2. 1..tried \subseteq 1..tried' /\ \A j \in 1..tried' : j \in 1..tried \/ j = tried + 1
      BY <2>1
    <2>3. LoadInv' /\ SelfInv'
      BY <1>1, <2>1 DEF ProbeInv, LoadInv, SelfInv
    <2>4. LinkInv' /\ TriedInv'
      BY <1>1, <2>1, <2>2 DEF ProbeInv, LinkInv, TriedInv
    <2> QED
      BY <2>3, <2>4 DEF ProbeInv
  <1>3. CASE CallReturns
    <2>1. /\ tried' = tried /\ new' = CallAfter(new) /\ selfTgid' = (selfTgid \/ new = "config")
          /\ new = "attach" => tried = Len(tracepoints)
          /\ new \in {"memlock", "load", "config", "attach", "reader", "clock"}
          /\ main' = IF new' = "done" THEN "pumping" ELSE IF new' = "failed" THEN "closing" ELSE main
      BY <1>1, <1>3 DEF ProbeInv, LoadInv, Load, CallReturns
    <2>2. LoadInv' /\ main' \in {"loading", "pumping"}
      BY <1>1, <2>1 DEF ProbeInv, LoadInv, CallAfter
    <2>3. SelfInv'
      BY <1>1, <2>1 DEF ProbeInv, SelfInv, LoadInv, CallAfter
    <2>4. LinkInv' /\ TriedInv'
      BY <1>1, <2>1, <2>2 DEF ProbeInv, LinkInv, TriedInv
    <2> QED
      BY <2>2, <2>3, <2>4 DEF ProbeInv
  <1>4. CASE CallFails
    <2>1. new' = "failed" /\ main' = "closing" /\ UNCHANGED <<tried, selfTgid>>
      BY <1>4 DEF Load, CallFails
    <2> QED
      BY <1>1, <2>1 DEF ProbeInv, LoadInv, SelfInv, LinkInv, TriedInv
  <1> QED
    BY <1>2, <1>3, <1>4

\* Close gives up its last link, whether or not that detaches the probe.
LEMMA CloseLinkKeeps == ProbeInv /\ CloseLink => ProbeInv'
  <1> SUFFICES ASSUME ProbeInv, CloseLink PROVE ProbeInv'
    OBVIOUS
  <1> DEFINE n == Len(links)
  <1>1. /\ main = "closing" /\ main' = main /\ links # <<>> /\ links \in Seq(STRING)
        /\ links' = SubSeq(links, 1, n - 1) /\ UNCHANGED <<new, selfTgid, tried>>
        /\ \/ attached' = attached \ {links[n]} /\ stuck' = stuck
           \/ attached' = attached /\ stuck' = stuck \cup {links[n]}
    BY DEF ProbeInv, LoadInv, CloseLink, Detach, DetachFails, LinksAfterError, Front, Last
  <1>2. /\ n \in Nat /\ n >= 1 /\ n \in 1..n
        /\ links' \in Seq(STRING) /\ Len(links') = n - 1
        /\ \A i \in 1..(n - 1) : links'[i] = links[i]
    <2>1. n \in Nat /\ n # 0
      BY <1>1
    <2>2. n >= 1 /\ n \in 1..n /\ n - 1 \in 0..n
      <3> HIDE DEF n
      <3> QED
        BY <2>1
    <2>3. \A k \in 0..n : /\ SubSeq(links, 1, k) \in Seq(STRING) /\ Len(SubSeq(links, 1, k)) = k
                          /\ \A i \in 1..k : SubSeq(links, 1, k)[i] = links[i]
      BY <1>1
    <2> HIDE DEF n
    <2> QED
      BY <1>1, <2>1, <2>2, <2>3
  <1> HIDE DEF n
  <1>3. \A i \in 1..n : i \in 1..(n - 1) \/ i = n
    BY <1>2
  <1>4. 1..(n - 1) \subseteq 1..n /\ n \notin 1..(n - 1)
    BY <1>2
  <1>5. /\ \A i \in 1..n : \E j \in 1..tried : links[i] = tracepoints[j]
        /\ \A i, j \in 1..n : links[i] = links[j] => i = j
        /\ \A i \in 1..n : links[i] \notin stuck
        /\ attached = {links[i] : i \in 1..n} \cup stuck
    BY DEF ProbeInv, LinkInv, n
  <1>6. LoadInv' /\ SelfInv' /\ TriedInv'
    <2>1. new \notin {"memlock", "load", "config"}
      BY <1>1 DEF ProbeInv, LoadInv
    <2>2. LoadInv' /\ TriedInv'
      BY <1>1, <1>2, <2>1 DEF ProbeInv, LoadInv, TriedInv
    <2>3. attached' \subseteq attached
      BY <1>1
    <2>4. SelfInv'
      BY <1>1, <2>3 DEF ProbeInv, SelfInv
    <2> QED
      BY <2>2, <2>4
  <1>7. LinkInv'
    <2>1. {links'[i] : i \in 1..(n - 1)} = {links[i] : i \in 1..n} \ {links[n]}
      BY <1>2, <1>3, <1>4, <1>5
    <2>2. attached' = {links'[i] : i \in 1..Len(links')} \cup stuck'
      <3> DEFINE A == {links[i] : i \in 1..n}
      <3>1. links[n] \in A /\ links[n] \notin stuck /\ attached = A \cup stuck
        BY <1>2, <1>5
      <3>2. {links'[i] : i \in 1..Len(links')} = A \ {links[n]}
        BY <1>2, <2>1
      <3> HIDE DEF A
      <3> QED
        BY <1>1, <3>1, <3>2
    <2>3. \A i \in 1..Len(links') : \E j \in 1..tried' : links'[i] = tracepoints[j]
      BY <1>1, <1>2, <1>4, <1>5
    <2>4. /\ \A i, j \in 1..Len(links') : links'[i] = links'[j] => i = j
          /\ \A i \in 1..Len(links') : links'[i] \notin stuck'
      BY <1>1, <1>2, <1>4, <1>5
    <2> QED
      BY <1>1, <2>2, <2>3, <2>4 DEF LinkInv
  <1> QED
    BY <1>6, <1>7 DEF ProbeInv

LEMMA NextProbeInv == ProbeInv /\ [Next]_vars => ProbeInv'
  <1> SUFFICES ASSUME ProbeInv, [Next]_vars PROVE ProbeInv'
    OBVIOUS
  <1>1. CASE Load
    BY <1>1, AttachKeeps, OtherLoadKeeps DEF Load
  <1>2. CASE CloseLink
    BY <1>2, CloseLinkKeeps
  <1>3. CASE /\ UNCHANGED loaderVars
             /\ \/ main' = main
                \/ main = "pumping" /\ main' = "closing"
                \/ main = "closing" /\ main' = "exited" /\ links = <<>>
    <2>1. UNCHANGED <<new, selfTgid, tried, links, attached, stuck>>
      BY <1>3 DEF loaderVars
    <2>2. LoadInv' /\ SelfInv'
      BY <1>3, <2>1 DEF ProbeInv, LoadInv, SelfInv
    <2>3. LinkInv' /\ TriedInv'
      BY <1>3, <2>1 DEF ProbeInv, LinkInv, TriedInv
    <2> QED
      BY <2>2, <2>3 DEF ProbeInv
  <1>4. CASE \E c \in CPUs : (\E own \in BOOLEAN : Reserve(c, own)) \/ Probe(c)
    BY <1>3, <1>4 DEF Reserve, Probe, Stamp, Count, Submit
  <1>5. CASE Cancel \/ ReadFails \/ Collector \/ Closer
    BY <1>3, <1>5 DEF Cancel, ReadFails, Collector, Read, RunReturns, CloseQueue,
          DiscardMalformed, Enqueue, Closer, CloseReader, CloserDone, kernelVars
  <1>6. CASE Process \/ Finish \/ CloseRing \/ CloseObjects
    BY <1>3, <1>6 DEF Process, Finish, CloseRing, CloseObjects, kernelVars
  <1>7. CASE UNCHANGED vars
    BY <1>3, <1>7 DEF vars, kernelVars
  <1> QED
    BY <1>1, <1>2, <1>4, <1>5, <1>6, <1>7 DEF Next, Main

\* What New and Close have attached and detached so far is what ProbeInv says,
\* at whatever call either of them fails.
THEOREM ProbeInvHolds == Spec => []ProbeInv
  <1>1. Init => ProbeInv
    <2> SUFFICES ASSUME Init PROVE ProbeInv
      OBVIOUS
    <2>1. /\ new = "memlock" /\ selfTgid = FALSE /\ main = "loading"
          /\ tried = 0 /\ links = <<>> /\ attached = {} /\ stuck = {}
      BY DEF Init, LoaderInit
    <2>2. 0 \in 0..Len(tracepoints)
      BY LoaderAssumption
    <2>3. LoadInv
      <3>1. links \in Seq(STRING) /\ tried \in 0..Len(tracepoints)
        BY <2>1, <2>2
      <3> QED
        BY <2>1, <3>1 DEF LoadInv
    <2>4. SelfInv
      BY <2>1, Zenon DEF SelfInv
    <2>5. LinkInv /\ TriedInv
      BY <2>1 DEF LinkInv, TriedInv
    <2> QED
      BY <2>3, <2>4, <2>5 DEF ProbeInv
  <1> QED
    BY <1>1, NextProbeInv, PTL DEF Spec

\* New and Close: while events are processed every mandatory tracepoint is
\* attached, and when the program exits nothing is but what the kernel
\* refused to detach, whatever call of New or Close failed.
THEOREM ProbesComeAndGo == Spec => []ProbesAsClaimed
  <1>1. ProbeInv => MonitorsEverything
    <2> SUFFICES ASSUME ProbeInv, main = "pumping"
                 PROVE  ToSet(tracepoints) \ optionalTracepoints \subseteq attached
      BY DEF MonitorsEverything
    <2>1. tried = Len(tracepoints)
      BY DEF ProbeInv, LoadInv
    <2>2. ToSet(tracepoints) = {tracepoints[j] : j \in 1..Len(tracepoints)}
      BY LoaderAssumption DEF ToSet
    <2> QED
      BY <2>1, <2>2 DEF ProbeInv, TriedInv
  <1>2. ProbeInv => NothingStranded
    BY DEF ProbeInv, LinkInv, NothingStranded
  <1> QED
    BY <1>1, <1>2, ProbeInvHolds, PTL DEF ProbesAsClaimed

-----------------------------------------------------------------------------
\* A record of somebody else's syscall.
Foreign == {r \in [id : Nat, ts : Nat, ready : BOOLEAN, own : BOOLEAN] : ~r.own}

CleanInv ==
    /\ ring \in Seq(Foreign) /\ hand \in Seq(Foreign)
    /\ queue \in Seq(Foreign) /\ processed \in Seq(Foreign)
    /\ clock \in Nat /\ fired \in Nat
    /\ runner = "holding" => hand # <<>>

LEMMA UpdateKeeps ==
    ASSUME CleanInv, NEW id, NEW t \in Nat
    PROVE  Update(id, "ts", t) \in Seq(Foreign) /\ Update(id, "ready", TRUE) \in Seq(Foreign)
  <1>1. /\ Len(ring) \in Nat
        /\ \A i \in 1..Len(ring) : ring[i] \in Foreign
    BY DEF CleanInv
  <1>2. \A r \in Foreign : /\ [r EXCEPT !["ts"] = t] \in Foreign
                           /\ [r EXCEPT !["ready"] = TRUE] \in Foreign
    BY DEF Foreign
  <1>3. Update(id, "ts", t) \in [1..Len(ring) -> Foreign]
    BY <1>1, <1>2 DEF Update
  <1>4. Update(id, "ready", TRUE) \in [1..Len(ring) -> Foreign]
    BY <1>1, <1>2 DEF Update
  <1>5. ASSUME NEW f \in [1..Len(ring) -> Foreign] PROVE f \in Seq(Foreign)
    BY <1>1
  <1> QED
    BY <1>3, <1>4, <1>5

LEMMA NextCleanInv == SelfInv /\ CleanInv /\ [Next]_vars => CleanInv'
  <1> SUFFICES ASSUME SelfInv, CleanInv, [Next]_vars PROVE CleanInv'
    OBVIOUS
  <1> USE DEF kernelVars, runVars, queueVars
  <1>1. CASE /\ UNCHANGED <<ring, hand, queue, processed, clock, fired>>
             /\ runner' = "holding" => runner = "holding"
    BY <1>1 DEF CleanInv
  <1>2. ASSUME NEW c \in CPUs, NEW own \in BOOLEAN, Reserve(c, own) PROVE CleanInv'
    <2>1. own = FALSE
      BY <1>2 DEF Reserve, should_skip, SelfInv
    <2>2. [id |-> fired + 1, ts |-> 0, ready |-> FALSE, own |-> own] \in Foreign
      BY <2>1 DEF Foreign, CleanInv
    <2>3. ring' \in Seq(Foreign)
      <3>1. ring \in Seq(Foreign)
        BY DEF CleanInv
      <3> QED
        BY <1>2, <2>2, <3>1 DEF Reserve
    <2> QED
      BY <1>2, <2>3 DEF Reserve, CleanInv
  <1>3. ASSUME NEW c \in CPUs, Probe(c) PROVE CleanInv'
    <2>1. ring' \in Seq(Foreign) /\ clock' \in Nat
      <3>1. clock + 1 \in Nat
        BY DEF CleanInv
      <3> QED
        BY <1>3, <3>1, UpdateKeeps DEF Probe, Stamp, Count, Submit, CleanInv
    <2> QED
      BY <1>3, <2>1 DEF Probe, Stamp, Count, Submit, CleanInv
  <1>4. CASE Read
    <2>1. ring # <<>> /\ hand' = <<Head(ring)>> /\ ring' = Tail(ring)
      BY <1>4 DEF Read, Readable
    <2>2. Head(ring) \in Foreign /\ Tail(ring) \in Seq(Foreign)
      BY <2>1 DEF CleanInv
    <2> QED
      BY <1>4, <2>1, <2>2 DEF Read, CleanInv
  <1>5. CASE DiscardMalformed
    BY <1>5 DEF DiscardMalformed, CleanInv
  <1>6. CASE Enqueue
    <2>1. hand' = <<>> /\ UNCHANGED <<ring, processed, clock, fired>>
      BY <1>6 DEF Enqueue
    <2>2. hand # <<>> /\ runner' # "holding"
      BY <1>6 DEF Enqueue, CleanInv
    <2>3. hand[1] \in Foreign
      BY <2>2 DEF CleanInv
    <2>4. queue' \in Seq(Foreign)
      <3>1. queue' = Append(queue, hand[1]) \/ queue' = queue
        BY <1>6 DEF Enqueue
      <3>2. queue \in Seq(Foreign)
        BY DEF CleanInv
      <3> QED
        BY <2>3, <3>1, <3>2
    <2> QED
      BY <2>1, <2>2, <2>4 DEF CleanInv
  <1>7. CASE Process
    <2>1. queue # <<>> /\ processed' = Append(processed, Head(queue)) /\ queue' = Tail(queue)
      BY <1>7 DEF Process
    <2>2. Head(queue) \in Foreign /\ Tail(queue) \in Seq(Foreign)
      BY <2>1 DEF CleanInv
    <2> QED
      BY <1>7, <2>1, <2>2 DEF Process, CleanInv
  <1>8. CASE Cancel \/ ReadFails \/ RunReturns \/ CloseQueue \/ Closer \/ UNCHANGED vars
    BY <1>1, <1>8 DEF Cancel, ReadFails, RunReturns, CloseQueue, Closer, CloseReader, CloserDone, vars
  <1>9. CASE Load \/ Finish \/ CloseRing \/ CloseLink \/ CloseObjects
    BY <1>1, <1>9 DEF Load, Finish, CloseRing, CloseLink, CloseObjects, progVars
  <1> QED
    BY <1>2, <1>3, <1>4, <1>5, <1>6, <1>7, <1>8, <1>9 DEF Next, Collector, Main

\* should_skip and the order of New's calls: no event of the agent's own
\* syscalls gets into the ring, and so none to the engine, also while the
\* probes are attached one by one, and when New fails half way.
THEOREM NoOwnEvents == Spec => []NoFeedback
  <1>1. Init => CleanInv
    BY DEF Init, CleanInv
  <1>2. ProbeInv => SelfInv
    BY DEF ProbeInv
  <1>3. CleanInv => NoFeedback
    <2> SUFFICES ASSUME CleanInv PROVE NoFeedback
      OBVIOUS
    <2>1. /\ ring \o hand \o queue \in Seq(Foreign) /\ processed \in Seq(Foreign)
      BY DEF CleanInv
    <2>2. \A s \in Seq(Foreign) : \A r \in ToSet(s) : r \in Foreign
      BY DEF ToSet
    <2> QED
      BY <2>1, <2>2 DEF NoFeedback, Foreign
  <1> QED
    BY <1>1, <1>2, <1>3, NextCleanInv, ProbeInvHolds, PTL DEF Spec

-----------------------------------------------------------------------------
(* The end of the pipeline. *)

Running == runner \in {"reading", "holding", "failing"}

\* Who can still be running, and which of them has closed the reader.
StopInv ==
    /\ runner \in {"idle", "reading", "holding", "failing", "returned", "broken"}
    /\ main = "loading" =>
          /\ runner = "idle" /\ queueOpen
          /\ reader = IF new = "clock" THEN "open" ELSE "nil"
    /\ runner = "idle" => closer = "none"
    /\ runner = "idle" => main = "loading" \/ new # "done"
    /\ Running => main = "pumping"
    /\ Running /\ closer = "waiting" => reader = "open"
    /\ Running => closer \in {"waiting", "gone"}
    /\ runner = "returned" => closer = "gone"
    /\ closer = "panicked" => runner = "broken"
    /\ runner # "holding" => hand = <<>>
    /\ ~queueOpen => Returned
    /\ main \in {"closing", "exited"} /\ new = "done" => Returned /\ queue = <<>>

LEMMA NextStopInv == LoadInv /\ StopInv /\ [Next]_vars => StopInv'
  <1> SUFFICES ASSUME LoadInv, StopInv, [Next]_vars PROVE StopInv'
    OBVIOUS
  <1> USE DEF StopInv, Running, Returned, kernelVars, runVars, queueVars, loaderVars
  <1>1. CASE Load
    <2>1. /\ main = "loading" /\ new \notin {"done", "failed"}
          /\ UNCHANGED <<hand, queueOpen, queue>>
      BY <1>1 DEF LoadInv, Load, progVars
    <2>2. CASE Attach \/ SkipAbsent
      BY <1>1, <2>1, <2>2 DEF Load, LoadInv, Attach, SkipAbsent
    <2>3. CASE CallReturns
      BY <1>1, <2>1, <2>3 DEF Load, LoadInv, CallReturns, CallAfter
    <2>4. CASE CallFails
      BY <1>1, <2>1, <2>4 DEF Load, LoadInv, CallFails
    <2> QED
      BY <1>1, <2>2, <2>3, <2>4 DEF Load
  <1>2. CASE CloseLink
    BY <1>2 DEF CloseLink, Detach, DetachFails, progVars
  <1>3. CASE CloseRing
    BY <1>3 DEF CloseRing, progVars
  <1>4. CASE CloseObjects
    BY <1>4 DEF CloseObjects, progVars
  <1>5. CASE Finish
    BY <1>5 DEF Finish, Finishable, LoadInv
  <1>6. CASE Process
    BY <1>6 DEF Process
  <1>7. CASE Cancel \/ UNCHANGED vars
    BY <1>7 DEF Cancel, vars
  <1>8. CASE CloseReader
    BY <1>8 DEF CloseReader
  <1>9. CASE CloserDone
    BY <1>9 DEF CloserDone
  <1>10. CASE Read \/ ReadFails
    BY <1>10 DEF Read, ReadFails
  <1>11. CASE RunReturns
    BY <1>11 DEF RunReturns, Unblocked, LoadInv
  <1>12. CASE CloseQueue
    BY <1>12 DEF CloseQueue
  <1>13. CASE DiscardMalformed \/ Enqueue
    BY <1>13 DEF DiscardMalformed, Enqueue
  <1>14. CASE \E c \in CPUs : (\E own \in BOOLEAN : Reserve(c, own)) \/ Probe(c)
    <2>1. UNCHANGED <<new, reader, closer, runner, hand, queueOpen, queue, main>>
      BY <1>14 DEF Reserve, Probe, Stamp, Count, Submit
    <2> QED
      BY <2>1
  <1> QED
    BY <1>1, <1>2, <1>3, <1>4, <1>5, <1>6, <1>7, <1>8, <1>9, <1>10, <1>11, <1>12, <1>13, <1>14
    DEF Next, Collector, Closer, Main

\* Run, its closer, the queue and main stop in an order StopInv describes.
THEOREM StopInvHolds == Spec => []StopInv
  <1>1. Init => StopInv
    BY DEF Init, LoaderInit, StopInv, Running, Returned
  <1>2. ProbeInv => LoadInv
    BY DEF ProbeInv
  <1> QED
    BY <1>1, <1>2, NextStopInv, ProbeInvHolds, PTL DEF Spec

\* pump prints the summary when everything the collector read has been
\* processed, in whichever order signal, reader, closer and queue came to
\* their end.
THEOREM SummaryIsLast == Spec => []DrainedBeforeSummary
  <1>1. StopInv => DrainedBeforeSummary
    BY DEF StopInv, DrainedBeforeSummary, Returned
  <1> QED
    BY <1>1, StopInvHolds, PTL

\* The closer of Run meets the nil that Close leaves only after a read error.
THEOREM SignalsNeverPanic == Spec => []PanicsOnlyAfterReadError
  <1>1. StopInv => PanicsOnlyAfterReadError
    BY DEF StopInv, PanicsOnlyAfterReadError
  <1> QED
    BY <1>1, StopInvHolds, PTL

-----------------------------------------------------------------------------
(* The counters.  kEvents is compared with what has left the ring by way   *)
(* of the records that are counted and still in it: those submitted, and   *)
(* those whose probe is between counting and submitting.                   *)

Busy(c) == cpu[c].at # "idle"

\* Where in a ring the submitted records are.
ReadyIn(r) == {i \in 1..Len(r) : r[i].ready}

\* The records in the ring are numbered in the order they were reserved, and
\* each running probe has one of them, not yet submitted, to itself.
RingInv ==
    /\ cpu \in [CPUs -> [at : {"idle", "reserved", "stamped", "counted"}, id : Nat]]
    /\ \A i \in 1..Len(ring) : ring[i].id <= fired
    /\ \A i, j \in 1..Len(ring) : i < j => ring[i].id < ring[j].id
    /\ \A c \in CPUs : Busy(c) =>
          \E i \in 1..Len(ring) \ ReadyIn(ring) : ring[i].id = cpu[c].id
    /\ \A c, d \in CPUs : Busy(c) /\ Busy(d) /\ cpu[c].id = cpu[d].id => c = d

\* The numbers of the records counted and still in the ring.
Submitted == {ring[i].id : i \in ReadyIn(ring)}
Counted == {cpu[c].id : c \in {d \in CPUs : cpu[d].at = "counted"}}

Out == Len(processed) + qDropped + logged + Len(queue)

CountInv ==
    /\ kEvents \in Nat /\ kDropped \in Nat /\ qDropped \in Nat /\ logged \in Nat
    /\ Len(hand) <= 1
    /\ EveryEventAccounted
    /\ IsFiniteSet(Submitted \cup Counted)
    /\ kEvents = Out + Len(hand) + Cardinality(Submitted \cup Counted)

\* Update changes one field of one record, and no number.
LEMMA StampOnly ==
    ASSUME CleanInv, NEW id, NEW t \in Nat, NEW upd, upd = Update(id, "ts", t)
    PROVE  /\ Len(upd) = Len(ring) /\ ReadyIn(upd) = ReadyIn(ring)
           /\ \A i \in 1..Len(ring) : upd[i].id = ring[i].id
  <1>1. Len(ring) \in Nat /\ \A i \in 1..Len(ring) : ring[i] \in Foreign
    BY DEF CleanInv
  <1>2. \A r \in Foreign :
          [r EXCEPT !["ts"] = t].id = r.id /\ [r EXCEPT !["ts"] = t].ready = r.ready
    BY DEF Foreign
  <1>3. /\ Len(upd) = Len(ring)
        /\ \A i \in 1..Len(ring) : upd[i].id = ring[i].id /\ upd[i].ready = ring[i].ready
    BY <1>1, <1>2 DEF Update
  <1> QED BY <1>3 DEF ReadyIn

LEMMA SubmitOnly ==
    ASSUME CleanInv, NEW id, NEW upd, upd = Update(id, "ready", TRUE)
    PROVE  /\ Len(upd) = Len(ring)
           /\ ReadyIn(upd) = ReadyIn(ring) \cup {i \in 1..Len(ring) : ring[i].id = id}
           /\ \A i \in 1..Len(ring) : upd[i].id = ring[i].id
  <1>1. Len(ring) \in Nat /\ \A i \in 1..Len(ring) : ring[i] \in Foreign
    BY DEF CleanInv
  <1>2. \A r \in Foreign :
          [r EXCEPT !["ready"] = TRUE].id = r.id /\ [r EXCEPT !["ready"] = TRUE].ready = TRUE
    BY DEF Foreign
  <1>3. Len(upd) = Len(ring)
    BY <1>1 DEF Update
  <1>4. ASSUME NEW i \in 1..Len(ring)
        PROVE  /\ upd[i].id = ring[i].id
               /\ i \in ReadyIn(upd) <=> i \in ReadyIn(ring) \/ ring[i].id = id
    <2>1. CASE ring[i].id = id
      BY <1>1, <1>2, <1>3, <2>1 DEF Update, ReadyIn
    <2>2. CASE ring[i].id # id
      <3>1. upd[i] = ring[i]
        BY <2>2 DEF Update
      <3> QED BY <1>3, <2>2, <3>1 DEF ReadyIn
    <2> QED BY <2>1, <2>2
  <1>5. ReadyIn(upd) \subseteq 1..Len(ring) /\ ReadyIn(ring) \subseteq 1..Len(ring)
    BY <1>3 DEF ReadyIn
  <1> QED BY <1>3, <1>4, <1>5

\* The numbers of the records are natural.
LEMMA RingIds == CleanInv => Len(ring) \in Nat /\ \A i \in 1..Len(ring) : ring[i].id \in Nat
  <1> SUFFICES ASSUME CleanInv PROVE Len(ring) \in Nat /\ \A i \in 1..Len(ring) : ring[i].id \in Nat
    OBVIOUS
  <1>1. Len(ring) \in Nat /\ \A i \in 1..Len(ring) : ring[i] \in Foreign
    BY DEF CleanInv
  <1> QED BY <1>1 DEF Foreign

\* A step of a probe that leaves the numbers in the ring alone.
LEMMA ProbeKeepsRing ==
    ASSUME CleanInv, RingInv, NEW c \in CPUs, Probe(c)
    PROVE  RingInv'
  <1>1. /\ cpu \in [CPUs -> [at : {"idle", "reserved", "stamped", "counted"}, id : Nat]]
        /\ Busy(c) /\ fired' = fired /\ clock + 1 \in Nat
    <2>1. clock + 1 \in Nat
      BY DEF CleanInv
    <2>2. cpu \in [CPUs -> [at : {"idle", "reserved", "stamped", "counted"}, id : Nat]]
      BY DEF RingInv
    <2>3. Busy(c) /\ fired' = fired
      BY DEF Busy, Probe, Stamp, Count, Submit, CountBefore, SubmitAfter
    <2> QED BY <2>1, <2>2, <2>3
  <1>2. Len(ring) \in Nat /\ \A i \in 1..Len(ring) : ring[i].id \in Nat
    BY RingIds
  <1> DEFINE stamped == Update(cpu[c].id, "ts", clock + 1)
             submitted == Update(cpu[c].id, "ready", TRUE)
  <1>8. stamped = Update(cpu[c].id, "ts", clock + 1) /\ submitted = Update(cpu[c].id, "ready", TRUE)
    OBVIOUS
  <1> HIDE DEF stamped, submitted
  <1>9. /\ Len(stamped) = Len(ring) /\ ReadyIn(stamped) = ReadyIn(ring)
        /\ \A i \in 1..Len(ring) : stamped[i].id = ring[i].id
    BY <1>1, <1>8, StampOnly
  <1>10. /\ Len(submitted) = Len(ring)
         /\ ReadyIn(submitted) = ReadyIn(ring) \cup {i \in 1..Len(ring) : ring[i].id = cpu[c].id}
         /\ \A i \in 1..Len(ring) : submitted[i].id = ring[i].id
    BY <1>8, SubmitOnly
  <1>3. /\ Len(ring') = Len(ring)
        /\ \A i \in 1..Len(ring) : ring'[i].id = ring[i].id
    <2>1. ring' = stamped \/ ring' = ring \/ ring' = submitted
      BY DEF Probe, Stamp, Count, Submit, stamped, submitted
    <2> QED BY <1>9, <1>10, <2>1
  <1>4. /\ cpu' \in [CPUs -> [at : {"idle", "reserved", "stamped", "counted"}, id : Nat]]
        /\ \A d \in CPUs : Busy(d)' => Busy(d) /\ cpu'[d].id = cpu[d].id
    <2>1. \/ cpu' = [cpu EXCEPT ![c].at = "stamped"]
          \/ cpu' = [cpu EXCEPT ![c].at = "counted"]
          \/ cpu' = [cpu EXCEPT ![c] = Idle]
      BY DEF Probe, Stamp, Count, Submit
    <2> QED BY <1>1, <2>1 DEF Busy, Idle
  <1>5. \A d \in CPUs : Busy(d)' =>
          \E i \in 1..Len(ring') \ ReadyIn(ring') : ring'[i].id = cpu'[d].id
    <2> TAKE d \in CPUs
    <2> HAVE Busy(d)'
    <2>1. Busy(d) /\ cpu'[d].id = cpu[d].id
      BY <1>4
    <2>2. PICK i \in 1..Len(ring) \ ReadyIn(ring) : ring[i].id = cpu[d].id
      BY <2>1 DEF RingInv
    <2>3. i \notin ReadyIn(ring')
      <3>1. CASE Stamp(c)
        <4>1. ring' = stamped
          BY <3>1 DEF Stamp, stamped
        <4> QED BY <1>9, <2>2, <4>1
      <3>2. CASE Count(c)
        BY <2>2, <3>2 DEF Count
      <3>3. CASE Submit(c)
        <4>1. d # c
          BY <1>1, <3>3 DEF Submit, Busy, Idle
        <4>2. cpu[d].id # cpu[c].id
          BY <1>1, <2>1, <4>1 DEF RingInv
        <4>3. ring' = submitted
          BY <3>3 DEF Submit, submitted
        <4> QED BY <1>10, <2>2, <4>2, <4>3
      <3> QED BY <3>1, <3>2, <3>3 DEF Probe
    <2> QED BY <1>3, <2>1, <2>2, <2>3
  <1>6. /\ \A i \in 1..Len(ring') : ring'[i].id <= fired'
        /\ \A i, j \in 1..Len(ring') : i < j => ring'[i].id < ring'[j].id
    BY <1>1, <1>3 DEF RingInv
  <1>7. \A d, e \in CPUs : Busy(d)' /\ Busy(e)' /\ cpu'[d].id = cpu'[e].id => d = e
    BY <1>4 DEF RingInv
  <1> QED
    BY <1>4, <1>5, <1>6, <1>7 DEF RingInv

LEMMA ReserveKeepsRing ==
    ASSUME CleanInv, RingInv, NEW c \in CPUs, NEW own \in BOOLEAN, Reserve(c, own)
    PROVE  RingInv'
  <1> DEFINE n == Len(ring)
             r == [id |-> fired + 1, ts |-> 0, ready |-> FALSE, own |-> own]
  <1>1. /\ cpu \in [CPUs -> [at : {"idle", "reserved", "stamped", "counted"}, id : Nat]]
        /\ fired \in Nat /\ fired' = fired + 1 /\ ~Busy(c) /\ ring \in Seq(Foreign) /\ n \in Nat
    BY DEF RingInv, CleanInv, Busy, Reserve
  <1>2. \A i \in 1..n : ring[i].id \in Nat /\ ring[i].id <= fired
    BY RingIds DEF RingInv
  <1>3. CASE ring' = ring /\ cpu' = cpu
    <2>1. \A i \in 1..n : ring[i].id <= fired'
      BY <1>1, <1>2
    <2> QED BY <1>3, <2>1 DEF RingInv, Busy
  <1>4. CASE /\ ring' = Append(ring, r)
             /\ cpu' = [cpu EXCEPT ![c] = [at |-> "reserved", id |-> fired + 1]]
    <2>1. /\ Len(ring') = n + 1
          /\ \A i \in 1..n : ring'[i] = ring[i]
          /\ ring'[n + 1] = r
      BY <1>1, <1>4
    <2>2. r.id = fired + 1 /\ ~r.ready
      OBVIOUS
    <2>11. ReadyIn(ring') = ReadyIn(ring)
      <3>1. 1..(n + 1) = 1..n \cup {n + 1}
        BY <1>1
      <3> QED BY <2>1, <2>2, <3>1 DEF ReadyIn
    <2> HIDE DEF r, n
    <2>3. /\ cpu' \in [CPUs -> [at : {"idle", "reserved", "stamped", "counted"}, id : Nat]]
          /\ cpu'[c].id = fired + 1
          /\ \A d \in CPUs \ {c} : cpu'[d] = cpu[d]
      BY <1>1, <1>4
    <2>4. \A i \in 1..Len(ring') : i \in 1..n \/ i = n + 1
      BY <1>1, <2>1
    <2>5. 1..n \subseteq 1..Len(ring') /\ n + 1 \in 1..Len(ring')
      BY <1>1, <2>1
    <2>6. \A i \in 1..Len(ring') : ring'[i].id <= fired'
      BY <1>1, <1>2, <2>1, <2>2, <2>4
    <2>7. \A i, j \in 1..Len(ring') : i < j => ring'[i].id < ring'[j].id
      <3> SUFFICES ASSUME NEW i \in 1..Len(ring'), NEW j \in 1..Len(ring'), i < j
                   PROVE  ring'[i].id < ring'[j].id
        OBVIOUS
      <3>1. i \in 1..n
        BY <1>1, <2>1, <2>4
      <3>2. CASE j \in 1..n
        BY <2>1, <3>1, <3>2 DEF RingInv, n
      <3>3. CASE j = n + 1
        BY <1>1, <1>2, <2>1, <2>2, <3>1, <3>3
      <3> QED BY <2>4, <3>2, <3>3
    <2>8. \A d \in CPUs : Busy(d)' =>
            \E i \in 1..Len(ring') \ ReadyIn(ring') : ring'[i].id = cpu'[d].id
      <3> TAKE d \in CPUs
      <3> HAVE Busy(d)'
      <3>1. CASE d = c
        BY <1>1, <2>1, <2>2, <2>3, <2>5, <2>11, <3>1 DEF ReadyIn, n
      <3>2. CASE d # c
        <4>1. Busy(d) /\ cpu'[d] = cpu[d]
          BY <2>3, <3>2 DEF Busy
        <4>2. PICK i \in 1..n \ ReadyIn(ring) : ring[i].id = cpu[d].id
          BY <4>1 DEF RingInv, n
        <4> QED BY <2>1, <2>5, <2>11, <4>1, <4>2
      <3> QED BY <3>1, <3>2
    <2>9. \A d \in CPUs \ {c} : Busy(d) => cpu[d].id # fired + 1
      <3> TAKE d \in CPUs \ {c}
      <3> HAVE Busy(d)
      <3>1. PICK i \in 1..n : ring[i].id = cpu[d].id
        BY DEF RingInv, n
      <3> QED BY <1>1, <1>2, <3>1
    <2>10. \A d, e \in CPUs : Busy(d)' /\ Busy(e)' /\ cpu'[d].id = cpu'[e].id => d = e
      <3>1. \A d \in CPUs \ {c} : Busy(d)' => Busy(d)
        BY <2>3 DEF Busy
      <3> QED BY <2>3, <2>9, <3>1 DEF RingInv
    <2> QED
      BY <2>3, <2>6, <2>7, <2>8, <2>10 DEF RingInv
  <1> QED
    BY <1>3, <1>4 DEF Reserve

\* Read takes the oldest record, which no probe is working on.
LEMMA ReadKeepsRing ==
    ASSUME CleanInv, RingInv, Read
    PROVE  RingInv'
  <1>1. ring # <<>> /\ ring \in Seq(Foreign) /\ ring' = Tail(ring) /\ Head(ring).ready /\ cpu' = cpu /\ fired' = fired
    BY DEF Read, Readable, CleanInv, kernelVars
  <1> DEFINE n == Len(ring)
  <1>2. /\ n \in Nat /\ n >= 1 /\ Len(ring') = n - 1 /\ 1 \in ReadyIn(ring)
        /\ \A i \in 1..(n - 1) : ring'[i] = ring[i + 1]
    <2>1. n \in Nat /\ n >= 1 /\ Len(ring') = n - 1 /\ ring[1].ready
          /\ \A i \in 1..(n - 1) : ring'[i] = ring[i + 1]
      BY <1>1
    <2>2. 1 \in ReadyIn(ring)
      BY <2>1 DEF ReadyIn
    <2> QED BY <2>1, <2>2
  <1> HIDE DEF n
  <1>3. \A i \in 1..(n - 1) : i + 1 \in 1..n
    BY <1>2
  <1>4. \A i \in 2..n : i - 1 \in 1..(n - 1) /\ (i - 1) + 1 = i
    BY <1>2
  <1>5. \A c \in CPUs : Busy(c)' =>
            \E i \in 1..Len(ring') \ ReadyIn(ring') : ring'[i].id = cpu'[c].id
    <2> TAKE c \in CPUs
    <2> HAVE Busy(c)'
    <2>1. Busy(c)
      BY <1>1 DEF Busy
    <2>2. PICK i \in 1..n \ ReadyIn(ring) : ring[i].id = cpu[c].id
      BY <2>1 DEF RingInv, n
    <2>3. i \in 2..n
      BY <1>2, <2>2
    <2>4. ring'[i - 1] = ring[i] /\ i - 1 \in 1..Len(ring')
      BY <1>2, <1>4, <2>3
    <2>5. i - 1 \notin ReadyIn(ring')
      BY <2>2, <2>4 DEF ReadyIn, n
    <2> QED BY <1>1, <2>2, <2>4, <2>5
  <1>6. \A i \in 1..Len(ring') : ring'[i].id <= fired'
    BY <1>1, <1>2, <1>3 DEF RingInv, n
  <1>7. \A i, j \in 1..Len(ring') : i < j => ring'[i].id < ring'[j].id
    <2> SUFFICES ASSUME NEW i \in 1..(n - 1), NEW j \in 1..(n - 1), i < j
                 PROVE  ring'[i].id < ring'[j].id
      BY <1>2
    <2>1. i + 1 \in 1..n /\ j + 1 \in 1..n /\ i + 1 < j + 1
      BY <1>2
    <2> QED BY <1>2, <2>1 DEF RingInv, n
  <1> QED
    BY <1>1, <1>5, <1>6, <1>7 DEF RingInv, Busy

LEMMA NextRingInv == CleanInv /\ RingInv /\ [Next]_vars => RingInv'
  <1> SUFFICES ASSUME CleanInv, RingInv, [Next]_vars PROVE RingInv'
    OBVIOUS
  <1> USE DEF kernelVars, runVars, queueVars
  <1>1. CASE UNCHANGED <<ring, cpu, fired>>
    BY <1>1 DEF RingInv, Busy
  <1>2. CASE \E c \in CPUs : (\E own \in BOOLEAN : Reserve(c, own)) \/ Probe(c)
    BY <1>2, ReserveKeepsRing, ProbeKeepsRing
  <1>3. CASE Read
    BY <1>3, ReadKeepsRing
  <1>4. CASE Cancel \/ ReadFails \/ RunReturns \/ CloseQueue \/ DiscardMalformed \/ Enqueue \/ Closer
             \/ UNCHANGED vars
    BY <1>1, <1>4 DEF Cancel, ReadFails, RunReturns, CloseQueue, DiscardMalformed, Enqueue,
       Closer, CloseReader, CloserDone, vars
  <1>5. CASE Main
    BY <1>1, <1>5 DEF Main, Load, Process, Finish, CloseRing, CloseLink, CloseObjects, progVars
  <1> QED
    BY <1>2, <1>3, <1>4, <1>5 DEF Next, Collector

\* The number of a running probe's record is not that of a submitted one.
LEMMA BusyNotSubmitted ==
    ASSUME CleanInv, RingInv, NEW c \in CPUs, Busy(c)
    PROVE  cpu[c].id \notin Submitted
  <1>1. PICK i \in 1..Len(ring) \ ReadyIn(ring) : ring[i].id = cpu[c].id
    BY DEF RingInv
  <1>2. \A j, k \in 1..Len(ring) : ring[j].id = ring[k].id => j = k
    <2>1. Len(ring) \in Nat /\ \A j \in 1..Len(ring) : ring[j].id \in Nat
      BY RingIds
    <2>2. \A j, k \in 1..Len(ring) : j < k => ring[j].id < ring[k].id
      BY DEF RingInv
    <2>3. \A j, k \in 1..Len(ring) : j < k \/ k < j \/ j = k
      BY <2>1
    <2> QED BY <2>1, <2>2, <2>3
  <1> QED BY <1>1, <1>2 DEF Submitted, ReadyIn

\* What the probes do to the numbers that are counted and in the ring.
LEMMA ReserveCounts ==
    ASSUME CleanInv, RingInv, NEW c \in CPUs, NEW own \in BOOLEAN, Reserve(c, own)
    PROVE  Submitted' = Submitted /\ Counted' = Counted
  <1>1. ~Busy(c) /\ cpu \in [CPUs -> [at : {"idle", "reserved", "stamped", "counted"}, id : Nat]]
    BY DEF Reserve, RingInv, Busy
  <1>2. CASE ring' = ring /\ cpu' = cpu
    BY <1>2 DEF Submitted, Counted
  <1>3. CASE /\ ring' = Append(ring, [id |-> fired + 1, ts |-> 0, ready |-> FALSE, own |-> own])
             /\ cpu' = [cpu EXCEPT ![c] = [at |-> "reserved", id |-> fired + 1]]
    <2> DEFINE r == [id |-> fired + 1, ts |-> 0, ready |-> FALSE, own |-> own]
               n == Len(ring)
    <2>1. n \in Nat /\ ring \in Seq(Foreign)
      BY DEF CleanInv
    <2>2. ~r.ready
      OBVIOUS
    <2>3. /\ Len(ring') = n + 1 /\ ring'[n + 1] = r
          /\ \A i \in 1..n : ring'[i] = ring[i]
      BY <1>3, <2>1
    <2> HIDE DEF r, n
    <2>4. 1..(n + 1) = 1..n \cup {n + 1}
      BY <2>1
    <2>5. ReadyIn(ring') = ReadyIn(ring) /\ ReadyIn(ring) \subseteq 1..n
      BY <2>2, <2>3, <2>4 DEF ReadyIn, n
    <2>6. Submitted' = Submitted
      BY <2>3, <2>5 DEF Submitted
    <2>7. Counted' = Counted
      BY <1>1, <1>3 DEF Counted, Busy
    <2> QED BY <2>6, <2>7
  <1> QED BY <1>2, <1>3 DEF Reserve

LEMMA StampCounts ==
    ASSUME CleanInv, RingInv, NEW c \in CPUs, Stamp(c)
    PROVE  Submitted' = Submitted /\ Counted' = Counted /\ Len(ring') = Len(ring)
  <1>1. cpu \in [CPUs -> [at : {"idle", "reserved", "stamped", "counted"}, id : Nat]]
    BY DEF RingInv
  <1>2. clock + 1 \in Nat /\ ring' = Update(cpu[c].id, "ts", clock + 1)
    BY DEF CleanInv, Stamp
  <1>3. /\ Len(ring') = Len(ring) /\ ReadyIn(ring') = ReadyIn(ring)
        /\ \A i \in 1..Len(ring) : ring'[i].id = ring[i].id
    BY <1>2, StampOnly
  <1>4. Submitted' = Submitted
    BY <1>3 DEF Submitted, ReadyIn
  <1>5. cpu[c].at = "reserved" /\ cpu' = [cpu EXCEPT ![c].at = "stamped"]
    BY DEF Stamp
  <1>6. Counted' = Counted
    BY <1>1, <1>5 DEF Counted
  <1> QED BY <1>3, <1>4, <1>6

LEMMA CountCounts ==
    ASSUME CleanInv, RingInv, NEW c \in CPUs, Count(c)
    PROVE  /\ Submitted' = Submitted /\ Counted' = Counted \cup {cpu[c].id}
           /\ cpu[c].id \notin Submitted \cup Counted
  <1>1. cpu \in [CPUs -> [at : {"idle", "reserved", "stamped", "counted"}, id : Nat]]
    BY DEF RingInv
  <1>2. cpu[c].at = "stamped" /\ cpu' = [cpu EXCEPT ![c].at = "counted"] /\ ring' = ring
    BY DEF Count, CountBefore
  <1>3. Submitted' = Submitted
    BY <1>2 DEF Submitted
  <1>4. \A d \in CPUs : cpu'[d].id = cpu[d].id /\ (cpu'[d].at = "counted" <=> cpu[d].at = "counted" \/ d = c)
    BY <1>1, <1>2
  <1>5. Counted' = Counted \cup {cpu[c].id}
    BY <1>4 DEF Counted
  <1>6. Busy(c) /\ \A d \in CPUs : cpu[d].at = "counted" => Busy(d) /\ d # c
    BY <1>2 DEF Busy
  <1>7. cpu[c].id \notin Submitted
    BY <1>6, BusyNotSubmitted
  <1>8. cpu[c].id \notin Counted
    BY <1>6 DEF Counted, RingInv
  <1> QED BY <1>3, <1>5, <1>7, <1>8

LEMMA SubmitCounts ==
    ASSUME CleanInv, RingInv, NEW c \in CPUs, Submit(c)
    PROVE  (Submitted \cup Counted)' = Submitted \cup Counted /\ Len(ring') = Len(ring)
  <1>1. cpu \in [CPUs -> [at : {"idle", "reserved", "stamped", "counted"}, id : Nat]]
    BY DEF RingInv
  <1>2. /\ cpu[c].at = "counted" /\ cpu' = [cpu EXCEPT ![c] = Idle]
        /\ ring' = Update(cpu[c].id, "ready", TRUE)
    BY DEF Submit, SubmitAfter
  <1>3. Busy(c)
    BY <1>2 DEF Busy
  <1>4. /\ Len(ring') = Len(ring)
        /\ ReadyIn(ring') = ReadyIn(ring) \cup {i \in 1..Len(ring) : ring[i].id = cpu[c].id}
        /\ \A i \in 1..Len(ring) : ring'[i].id = ring[i].id
    BY <1>2, SubmitOnly
  <1>5. \E i \in 1..Len(ring) : ring[i].id = cpu[c].id
    BY <1>3 DEF RingInv
  <1>6. ReadyIn(ring) \subseteq 1..Len(ring)
    BY DEF ReadyIn
  <1>7. Submitted' = Submitted \cup {cpu[c].id}
    BY <1>4, <1>5, <1>6 DEF Submitted
  <1>8. \A d \in CPUs : d # c => cpu'[d] = cpu[d]
    BY <1>1, <1>2
  <1>9. cpu'[c].at # "counted"
    BY <1>1, <1>2 DEF Idle
  <1>10. Counted' \subseteq Counted /\ Counted \subseteq Counted' \cup {cpu[c].id} /\ cpu[c].id \in Counted
    BY <1>2, <1>8, <1>9 DEF Counted
  <1> QED BY <1>4, <1>7, <1>10

\* Read takes the number of the oldest record out.
LEMMA ReadCounts ==
    ASSUME CleanInv, RingInv, Read
    PROVE  /\ (Submitted \cup Counted)' = (Submitted \cup Counted) \ {ring[1].id}
           /\ ring[1].id \in Submitted \cup Counted
           /\ Len(ring') = Len(ring) - 1
  <1> DEFINE n == Len(ring)
  <1>1. /\ ring # <<>> /\ ring \in Seq(Foreign) /\ ring' = Tail(ring)
        /\ Head(ring).ready /\ cpu' = cpu
    BY DEF Read, Readable, CleanInv, kernelVars
  <1>2. /\ n \in Nat /\ n >= 1 /\ Len(ring') = n - 1 /\ ring[1].ready
        /\ \A i \in 1..(n - 1) : ring'[i] = ring[i + 1]
    BY <1>1
  <1>3. 1 \in ReadyIn(ring) /\ ReadyIn(ring) \subseteq 1..n
    BY <1>2 DEF ReadyIn
  <1>4. \A i \in ReadyIn(ring') : i + 1 \in ReadyIn(ring) /\ ring'[i] = ring[i + 1] /\ 1 < i + 1
    <2>1. \A i \in 1..(n - 1) : i + 1 \in 1..n /\ 1 < i + 1
      BY <1>2
    <2> QED BY <1>2, <2>1 DEF ReadyIn
  <1>5. \A i \in ReadyIn(ring) : i = 1 \/ (i - 1 \in ReadyIn(ring') /\ ring'[i - 1] = ring[i])
    <2>1. \A i \in 1..n : i = 1 \/ (i - 1 \in 1..(n - 1) /\ (i - 1) + 1 = i)
      BY <1>2
    <2> QED BY <1>2, <2>1 DEF ReadyIn
  <1>6. \A i \in 1..n : 1 < i => ring[i].id # ring[1].id
    <2>1. \A j \in 1..Len(ring) : ring[j].id \in Nat
      BY RingIds
    <2>2. 1 \in 1..n
      BY <1>2
    <2> QED BY <2>1, <2>2 DEF RingInv
  <1> HIDE DEF n
  <1>7. Submitted' \subseteq Submitted \ {ring[1].id}
    BY <1>3, <1>4, <1>6 DEF Submitted
  <1>8. Submitted \ {ring[1].id} \subseteq Submitted'
    BY <1>5 DEF Submitted
  <1>9. ring[1].id \in Submitted
    BY <1>3 DEF Submitted
  <1>10. ring[1].id \notin Counted /\ Counted' = Counted
    <2>1. \A c \in CPUs : cpu[c].at = "counted" => cpu[c].id \notin Submitted
      BY BusyNotSubmitted DEF Busy
    <2> QED BY <1>1, <1>9, <2>1 DEF Counted
  <1> QED BY <1>2, <1>7, <1>8, <1>9, <1>10 DEF n

\* The lengths of the four places an event can be in, and of nothing else.
LEMMA Lengths ==
    CleanInv => /\ Len(ring) \in Nat /\ Len(hand) \in Nat
                /\ Len(queue) \in Nat /\ Len(processed) \in Nat /\ fired \in Nat
  BY DEF CleanInv

\* Every step counts what it moves.
LEMMA NextCountInv ==
    CleanInv /\ StopInv /\ RingInv /\ CountInv /\ [Next]_vars => CountInv'
  <1> SUFFICES ASSUME CleanInv, StopInv, RingInv, CountInv, [Next]_vars PROVE CountInv'
    OBVIOUS
  <1> DEFINE C == Submitted \cup Counted
             card == Cardinality(C)
             r == Len(ring)
             h == Len(hand)
             q == Len(queue)
             p == Len(processed)
  <1> USE DEF kernelVars, runVars, queueVars
  <1>1. /\ kEvents \in Nat /\ kDropped \in Nat /\ qDropped \in Nat /\ logged \in Nat
        /\ h <= 1 /\ IsFiniteSet(C) /\ card \in Nat
        /\ fired = kDropped + r + h + logged + qDropped + q + p
        /\ kEvents = p + qDropped + logged + q + h + card
    BY FS_CardinalityType DEF CountInv, EveryEventAccounted, Out
  <1>2. r \in Nat /\ h \in Nat /\ q \in Nat /\ p \in Nat /\ fired \in Nat
    BY Lengths
  <1> DEFINE Goal == /\ kEvents' \in Nat /\ kDropped' \in Nat /\ qDropped' \in Nat /\ logged' \in Nat
                     /\ h' <= 1 /\ IsFiniteSet(C')
                     /\ fired' = kDropped' + r' + h' + logged' + qDropped' + q' + p'
                     /\ kEvents' = p' + qDropped' + logged' + q' + h' + card'
  <1> SUFFICES Goal
    BY DEF CountInv, EveryEventAccounted, Out
  <1>3. CASE UNCHANGED <<fired, kDropped, kEvents, ring, cpu, hand, logged, qDropped, queue, processed>>
    <2>1. C' = C /\ card' = card /\ r' = r /\ h' = h /\ q' = q /\ p' = p
      BY <1>3 DEF Submitted, Counted
    <2> HIDE DEF C, card, r, h, q, p
    <2> QED BY <1>1, <1>3, <2>1
  <1>4. ASSUME NEW c \in CPUs, NEW own \in BOOLEAN, Reserve(c, own) PROVE Goal
    <2>1. C' = C /\ card' = card
      BY <1>4, ReserveCounts
    <2>2. /\ fired' = fired + 1
          /\ \/ r' = r + 1 /\ kDropped' = kDropped
             \/ r' = r /\ kDropped' = kDropped + 1
      <3>1. ring \in Seq(Foreign)
        BY DEF CleanInv
      <3> QED BY <1>4, <3>1 DEF Reserve
    <2>3. UNCHANGED <<kEvents, hand, logged, qDropped, queue, processed>>
      BY <1>4 DEF Reserve
    <2>4. h' = h /\ q' = q /\ p' = p
      BY <2>3
    <2> HIDE DEF C, card, r, h, q, p
    <2> QED BY <1>1, <1>2, <2>1, <2>2, <2>3, <2>4
  <1>5. ASSUME NEW c \in CPUs, Stamp(c) \/ Submit(c) PROVE Goal
    <2>1. C' = C /\ card' = card /\ r' = r
      BY <1>5, StampCounts, SubmitCounts
    <2>2. UNCHANGED <<fired, kDropped, kEvents, hand, logged, qDropped, queue, processed>>
      BY <1>5 DEF Stamp, Submit
    <2>3. h' = h /\ q' = q /\ p' = p
      BY <2>2
    <2> HIDE DEF C, card, r, h, q, p
    <2> QED BY <1>1, <1>2, <2>1, <2>2, <2>3
  <1>6. ASSUME NEW c \in CPUs, Count(c) PROVE Goal
    <2>1. C' = C \cup {cpu[c].id} /\ cpu[c].id \notin C
      BY <1>6, CountCounts
    <2>2. kEvents' = kEvents + 1 /\ UNCHANGED <<fired, kDropped, ring, hand, logged, qDropped, queue, processed>>
      BY <1>6 DEF Count
    <2>3. r' = r /\ h' = h /\ q' = q /\ p' = p
      BY <2>2
    <2> HIDE DEF C, r, h, q, p
    <2>4. IsFiniteSet(C') /\ card' = card + 1
      BY <1>1, <2>1, FS_AddElement
    <2> HIDE DEF card
    <2> QED BY <1>1, <1>2, <2>2, <2>3, <2>4
  <1>7. CASE Read
    <2>1. C' = C \ {ring[1].id} /\ ring[1].id \in C /\ r' = r - 1
      BY <1>7, ReadCounts
    <2>2. /\ hand = <<>> /\ hand' = <<Head(ring)>>
          /\ UNCHANGED <<fired, kDropped, kEvents, logged, qDropped, queue, processed>>
      BY <1>7 DEF Read, StopInv
    <2>3. h = 0 /\ h' = 1 /\ q' = q /\ p' = p
      BY <2>2
    <2> HIDE DEF C, r, h, q, p
    <2>4. IsFiniteSet(C') /\ card' = card - 1
      BY <1>1, <2>1, FS_RemoveElement
    <2> HIDE DEF card
    <2> QED BY <1>1, <1>2, <2>1, <2>2, <2>3, <2>4
  <1>8. CASE DiscardMalformed \/ Enqueue
    <2>1. /\ runner = "holding" /\ hand' = <<>>
          /\ UNCHANGED <<fired, kDropped, kEvents, ring, cpu, processed>>
      BY <1>8 DEF DiscardMalformed, Enqueue
    <2>2. h # 0 /\ h' = 0
      <3>1. hand # <<>> /\ hand \in Seq(Foreign)
        BY <2>1 DEF CleanInv
      <3> QED BY <2>1, <3>1
    <2>3. \/ logged' = logged + 1 /\ qDropped' = qDropped /\ q' = q
          \/ logged' = logged /\ qDropped' = qDropped + 1 /\ q' = q
          \/ logged' = logged /\ qDropped' = qDropped /\ q' = q + 1
      <3>1. queue \in Seq(Foreign)
        BY DEF CleanInv
      <3> QED BY <1>8, <3>1 DEF DiscardMalformed, Enqueue, DropCount
    <2>4. C' = C /\ card' = card /\ r' = r /\ p' = p
      BY <2>1 DEF Submitted, Counted
    <2>5. fired' = fired /\ kDropped' = kDropped /\ kEvents' = kEvents
      BY <2>1
    <2> HIDE DEF C, card, r, h, q, p
    <2>6. h = 1
      BY <1>1, <1>2, <2>2
    <2>7. CASE logged' = logged + 1 /\ qDropped' = qDropped /\ q' = q
      BY <1>1, <1>2, <2>2, <2>4, <2>5, <2>6, <2>7
    <2>8. CASE logged' = logged /\ qDropped' = qDropped + 1 /\ q' = q
      BY <1>1, <1>2, <2>2, <2>4, <2>5, <2>6, <2>8
    <2>9. CASE logged' = logged /\ qDropped' = qDropped /\ q' = q + 1
      BY <1>1, <1>2, <2>2, <2>4, <2>5, <2>6, <2>9
    <2> QED BY <2>3, <2>7, <2>8, <2>9
  <1>9. CASE Process
    <2>1. /\ queue # <<>> /\ processed' = Append(processed, Head(queue)) /\ queue' = Tail(queue)
          /\ UNCHANGED <<fired, kDropped, kEvents, ring, cpu, hand, logged, qDropped>>
      BY <1>9 DEF Process
    <2>2. q' = q - 1 /\ p' = p + 1
      <3>1. queue \in Seq(Foreign) /\ processed \in Seq(Foreign)
        BY DEF CleanInv
      <3> QED BY <2>1, <3>1
    <2>3. C' = C /\ card' = card /\ r' = r /\ h' = h
      BY <2>1 DEF Submitted, Counted
    <2> HIDE DEF C, card, r, h, q, p
    <2> QED BY <1>1, <1>2, <2>1, <2>2, <2>3
  <1> HIDE DEF Goal
  <1>10. CASE Cancel \/ ReadFails \/ RunReturns \/ CloseQueue \/ Closer \/ UNCHANGED vars
    BY <1>3, <1>10 DEF Cancel, ReadFails, RunReturns, CloseQueue, Closer, CloseReader, CloserDone, vars
  <1>11. CASE Load \/ Finish \/ CloseRing \/ CloseLink \/ CloseObjects
    BY <1>3, <1>11 DEF Load, Finish, CloseRing, CloseLink, CloseObjects, progVars
  <1> QED
    BY <1>4, <1>5, <1>6, <1>7, <1>8, <1>9, <1>10, <1>11 DEF Next, Probe, Collector, Main

\* Nothing between the ring and the engine is of the agent's own making.
THEOREM CleanInvHolds == Spec => []CleanInv
  <1>1. Init => CleanInv
    BY DEF Init, CleanInv
  <1>2. ProbeInv => SelfInv
    BY DEF ProbeInv
  <1> QED
    BY <1>1, <1>2, NextCleanInv, ProbeInvHolds, PTL DEF Spec

\* The ring is in the order of the reservations, and a probe that is running
\* has its own record in it, not submitted.
THEOREM RingInvHolds == Spec => []RingInv
  <1>1. Init => RingInv
    <2> SUFFICES ASSUME Init PROVE RingInv
      OBVIOUS
    <2>1. Len(ring) = 0 /\ cpu = [c \in CPUs |-> Idle]
      BY DEF Init
    <2>2. Idle \in [at : {"idle", "reserved", "stamped", "counted"}, id : Nat] /\ Idle.at = "idle"
      BY DEF Idle
    <2> QED BY <2>1, <2>2 DEF RingInv, Busy
  <1> QED
    BY <1>1, CleanInvHolds, NextRingInv, PTL DEF Spec

\* The counters and the records they stand for agree in every state.
THEOREM CountInvHolds == Spec => []CountInv
  <1>1. Init => CountInv
    <2> SUFFICES ASSUME Init PROVE CountInv
      OBVIOUS
    <2>1. /\ Len(ring) = 0 /\ Len(hand) = 0 /\ Len(queue) = 0 /\ Len(processed) = 0
          /\ kEvents = 0 /\ kDropped = 0 /\ qDropped = 0 /\ logged = 0 /\ fired = 0
      BY DEF Init
    <2>2. Submitted \cup Counted = {}
      BY DEF Init, Idle, Submitted, Counted, ReadyIn
    <2>3. IsFiniteSet(Submitted \cup Counted) /\ Cardinality(Submitted \cup Counted) = 0
      BY <2>2, FS_EmptySet
    <2> QED BY <2>1, <2>3 DEF CountInv, EveryEventAccounted, Out
  <1> QED
    BY <1>1, CleanInvHolds, StopInvHolds, RingInvHolds, NextCountInv, PTL DEF Spec

\* The counters of the summary: every probe that fired is a counted drop of
\* the ring or of the queue, a logged discard, processed, or still on its
\* way, and user space never reports more than event_submit has counted,
\* although each counter is kept by another goroutine or CPU.
THEOREM SummaryAddsUp == Spec => []CountersAddUp
  <1>1. CleanInv /\ CountInv => CountersAddUp
    <2> SUFFICES ASSUME CleanInv, CountInv PROVE KernelCountsFirst
      BY DEF CountersAddUp, CountInv
    <2>1. /\ Len(ring) \in Nat /\ Len(hand) \in Nat
          /\ Len(queue) \in Nat /\ Len(processed) \in Nat
      BY Lengths
    <2>2. /\ Cardinality(Submitted \cup Counted) \in Nat /\ qDropped \in Nat /\ logged \in Nat
          /\ kEvents = Out + Len(hand) + Cardinality(Submitted \cup Counted)
      BY FS_CardinalityType DEF CountInv
    <2> QED BY <2>1, <2>2 DEF KernelCountsFirst, Out
  <1> QED
    BY <1>1, CleanInvHolds, CountInvHolds, PTL

-----------------------------------------------------------------------------
(* The pipeline implements LossyChannel. *)

\* Moving the first element of a sequence into the one before it.
LEMMA HeadThenTail ==
    ASSUME NEW S, NEW s \in Seq(S), s # <<>>
    PROVE  <<Head(s)>> \o Tail(s) = s
  <1>1. /\ Len(s) \in Nat /\ Len(s) >= 1 /\ Head(s) = s[1] /\ Head(s) \in S
        /\ Tail(s) \in Seq(S) /\ Len(Tail(s)) = Len(s) - 1
        /\ \A i \in 1..(Len(s) - 1) : Tail(s)[i] = s[i + 1]
    OBVIOUS
  <1> DEFINE h == <<Head(s)>>
             n == Len(s)
  <1>2. h \in Seq(S) /\ Len(h) = 1 /\ h[1] = s[1]
    BY <1>1
  <1> HIDE DEF h
  <1>3. /\ h \o Tail(s) \in Seq(S) /\ Len(h \o Tail(s)) = 1 + (n - 1)
        /\ \A i \in 1..(1 + (n - 1)) : (h \o Tail(s))[i] = IF i <= 1 THEN h[i] ELSE Tail(s)[i - 1]
    <2>1. /\ h \o Tail(s) \in Seq(S) /\ Len(h \o Tail(s)) = Len(h) + Len(Tail(s))
          /\ \A i \in 1..(Len(h) + Len(Tail(s))) :
               (h \o Tail(s))[i] = IF i <= Len(h) THEN h[i] ELSE Tail(s)[i - Len(h)]
      BY <1>1, <1>2, ConcatProperties, SMTT(40)
    <2> QED BY <1>1, <1>2, <2>1
  <1>4. 1 + (n - 1) = n
    BY <1>1
  <1>5. \A i \in 1..n : (h \o Tail(s))[i] = s[i]
    <2> TAKE i \in 1..n
    <2>1. CASE i = 1
      BY <1>1, <1>2, <1>3, <1>4, <2>1
    <2>2. CASE i # 1
      <3>1. i - 1 \in 1..(n - 1) /\ (i - 1) + 1 = i /\ ~(i <= 1)
        BY <1>1, <2>2
      <3>2. Tail(s)[i - 1] = s[i]
        BY <1>1, <3>1
      <3> QED BY <1>3, <1>4, <3>1, <3>2
    <2> QED BY <2>1, <2>2
  <1>6. h \o Tail(s) = s
    BY <1>3, <1>4, <1>5, SeqEqual
  <1> QED BY <1>6 DEF h

\* Taking the first element off a concatenation.
LEMMA TailOfConcat ==
    ASSUME NEW S, NEW s \in Seq(S), NEW t \in Seq(S), s # <<>>
    PROVE  s \o t # <<>> /\ Head(s \o t) = Head(s) /\ Tail(s \o t) = Tail(s) \o t
  <1> DEFINE u == s \o t
             v == Tail(s) \o t
  <1>1. /\ Len(s) \in Nat /\ Len(s) >= 1 /\ Head(s) = s[1] /\ Len(t) \in Nat
        /\ Tail(s) \in Seq(S) /\ Len(Tail(s)) = Len(s) - 1
        /\ \A i \in 1..(Len(s) - 1) : Tail(s)[i] = s[i + 1]
    OBVIOUS
  <1>2. /\ u \in Seq(S) /\ Len(u) = Len(s) + Len(t)
        /\ \A i \in 1..(Len(s) + Len(t)) : u[i] = IF i <= Len(s) THEN s[i] ELSE t[i - Len(s)]
    BY ConcatProperties
  <1>3. /\ v \in Seq(S) /\ Len(v) = Len(s) - 1 + Len(t)
        /\ \A i \in 1..(Len(s) - 1 + Len(t)) :
             v[i] = IF i <= Len(s) - 1 THEN Tail(s)[i] ELSE t[i - (Len(s) - 1)]
    BY <1>1, ConcatProperties
  <1> HIDE DEF u, v
  <1>4. u # <<>> /\ Head(u) = s[1]
    <2>1. Len(u) >= 1 /\ u[1] = s[1]
      BY <1>1, <1>2
    <2> QED BY <1>2, <2>1
  <1>5. /\ Tail(u) \in Seq(S) /\ Len(Tail(u)) = Len(u) - 1
        /\ \A i \in 1..(Len(u) - 1) : Tail(u)[i] = u[i + 1]
    BY <1>2, <1>4
  <1>6. Len(Tail(u)) = Len(v)
    BY <1>1, <1>2, <1>3, <1>5
  <1>7. \A i \in 1..Len(Tail(u)) : Tail(u)[i] = v[i]
    <2> DEFINE n == Len(s)
               m == Len(t)
    <2>1. n \in Nat /\ m \in Nat /\ n >= 1
      BY <1>1
    <2>2. ASSUME NEW i \in 1..(n - 1 + m) PROVE u[i + 1] = v[i]
      <3>1. i + 1 \in 1..(n + m)
        BY <2>1
      <3>2. CASE i <= n - 1
        <4>1. i + 1 <= n /\ i \in 1..(n - 1)
          BY <2>1, <3>2
        <4>2. u[i + 1] = s[i + 1]
          BY <1>2, <3>1, <4>1
        <4>3. v[i] = Tail(s)[i]
          BY <1>3, <2>2, <3>2
        <4> QED BY <1>1, <4>1, <4>2, <4>3
      <3>3. CASE ~(i <= n - 1)
        <4>1. ~(i + 1 <= n) /\ (i + 1) - n = i - (n - 1)
          BY <2>1, <3>3
        <4>2. u[i + 1] = t[(i + 1) - n]
          BY <1>2, <3>1, <4>1
        <4>3. v[i] = t[i - (n - 1)]
          BY <1>3, <2>2, <3>3
        <4> QED BY <4>1, <4>2, <4>3
      <3> QED BY <3>2, <3>3
    <2>3. Len(u) - 1 = n - 1 + m
      BY <1>2, <2>1
    <2> QED BY <1>5, <2>2, <2>3
  <1>8. Tail(u) = v
    BY <1>3, <1>5, <1>6, <1>7, SeqEqual
  <1> QED BY <1>1, <1>4, <1>8 DEF u, v

\* Removing the one element between two sequences joins them.
LEMMA RemoveBetween ==
    ASSUME NEW S, NEW s \in Seq(S), NEW x \in S, NEW t \in Seq(S)
    PROVE  /\ Len(s) + 1 \in 1..Len((s \o <<x>>) \o t)
           /\ RemoveAt((s \o <<x>>) \o t, Len(s) + 1) = s \o t
  <1> DEFINE a == s \o <<x>>
             u == a \o t
             n == Len(s)
             m == Len(t)
  <1>1. n \in Nat /\ m \in Nat /\ <<x>> \in Seq(S) /\ Len(<<x>>) = 1
    OBVIOUS
  <1>2. a \in Seq(S) /\ Len(a) = n + 1 /\ \A i \in 1..(n + 1) : a[i] = IF i <= n THEN s[i] ELSE <<x>>[i - n]
    BY <1>1, ConcatProperties
  <1> HIDE DEF a
  <1>3. /\ u \in Seq(S) /\ Len(u) = n + 1 + m
        /\ \A i \in 1..(n + 1 + m) : u[i] = IF i <= n + 1 THEN a[i] ELSE t[i - (n + 1)]
    <2>1. /\ u \in Seq(S) /\ Len(u) = Len(a) + Len(t)
          /\ \A i \in 1..(Len(a) + Len(t)) : u[i] = IF i <= Len(a) THEN a[i] ELSE t[i - Len(a)]
      <3>1. a \in Seq(S) /\ t \in Seq(S)
        BY <1>2
      <3> QED BY <3>1, ConcatProperties
    <2> HIDE DEF u
    <2> QED BY <1>1, <1>2, <2>1
  <1> HIDE DEF u
  <1>4. SubSeq(u, 1, n) = s
    <2>1. \A i \in 1..n : i \in 1..(n + 1 + m) /\ i <= n + 1 /\ i \in 1..(n + 1)
      BY <1>1
    <2>2. \A i \in 1..n : u[i] = s[i] /\ u[i] \in S
      BY <1>2, <1>3, <2>1
    <2>3. /\ SubSeq(u, 1, n) \in Seq(S) /\ Len(SubSeq(u, 1, n)) = n
          /\ \A i \in 1..n : SubSeq(u, 1, n)[i] = u[i]
      BY <1>1, <1>3
    <2> QED BY <2>2, <2>3, SeqEqual
  <1>5. SubSeq(u, n + 2, Len(u)) = t
    <2>1. /\ SubSeq(u, n + 2, Len(u)) \in Seq(S) /\ Len(SubSeq(u, n + 2, Len(u))) = m
          /\ \A i \in 1..m : SubSeq(u, n + 2, Len(u))[i] = u[n + 1 + i]
      <3>1. n + 2 \in Int /\ Len(u) \in Int /\ \A i \in (n + 2)..Len(u) : u[i] \in S
        BY <1>1, <1>3
      <3>2. /\ SubSeq(u, n + 2, Len(u)) \in Seq(S)
            /\ Len(SubSeq(u, n + 2, Len(u))) = IF n + 2 <= Len(u) THEN Len(u) - (n + 2) + 1 ELSE 0
            /\ \A i \in 1..(Len(u) - (n + 2) + 1) : SubSeq(u, n + 2, Len(u))[i] = u[(n + 2) + i - 1]
        BY <3>1, SubSeqProperties
      <3>3. /\ (IF n + 2 <= Len(u) THEN Len(u) - (n + 2) + 1 ELSE 0) = m
            /\ Len(u) - (n + 2) + 1 = m
            /\ \A i \in 1..m : (n + 2) + i - 1 = n + 1 + i
        BY <1>1, <1>3
      <3> QED BY <3>2, <3>3
    <2>2. \A i \in 1..m : n + 1 + i \in 1..(n + 1 + m) /\ ~(n + 1 + i <= n + 1) /\ (n + 1 + i) - (n + 1) = i
      BY <1>1
    <2>3. \A i \in 1..m : u[n + 1 + i] = t[i]
      BY <1>3, <2>2
    <2> QED BY <2>1, <2>3, SeqEqual
  <1>6. RemoveAt(u, n + 1) = SubSeq(u, 1, n) \o SubSeq(u, n + 2, Len(u))
    <2>1. (n + 1) - 1 = n /\ (n + 1) + 1 = n + 2
      BY <1>1
    <2> HIDE DEF n
    <2> QED BY <2>1 DEF RemoveAt
  <1>7. n + 1 \in 1..Len(u)
    BY <1>1, <1>3
  <1> QED BY <1>4, <1>5, <1>6, <1>7 DEF a, u

\* The numbers of the records of a sequence are a sequence of numbers.
LEMMA IdsType ==
    ASSUME NEW s \in Seq(Foreign)
    PROVE  /\ Ids(s) \in Seq(Nat) /\ Len(Ids(s)) = Len(s)
           /\ \A i \in 1..Len(s) : Ids(s)[i] = s[i].id
  <1>1. Len(s) \in Nat /\ \A i \in 1..Len(s) : s[i] \in Foreign
    OBVIOUS
  <1>2. \A r \in Foreign : r.id \in Nat
    BY DEF Foreign
  <1>3. Ids(s) \in [1..Len(s) -> Nat]
    BY <1>1, <1>2 DEF Ids
  <1>4. ASSUME NEW f \in [1..Len(s) -> Nat] PROVE f \in Seq(Nat) /\ Len(f) = Len(s)
    BY <1>1
  <1> QED BY <1>3, <1>4 DEF Ids

LEMMA IdsConcat ==
    ASSUME NEW s \in Seq(Foreign), NEW t \in Seq(Foreign)
    PROVE  Ids(s \o t) = Ids(s) \o Ids(t)
  <1> DEFINE u == s \o t
             a == Ids(s)
             b == Ids(t)
  <1>1. /\ u \in Seq(Foreign) /\ Len(u) = Len(s) + Len(t) /\ Len(s) \in Nat /\ Len(t) \in Nat
        /\ \A i \in 1..(Len(s) + Len(t)) : u[i] = IF i <= Len(s) THEN s[i] ELSE t[i - Len(s)]
    BY ConcatProperties
  <1>2. /\ Ids(u) \in Seq(Nat) /\ Len(Ids(u)) = Len(u)
        /\ \A i \in 1..Len(u) : Ids(u)[i] = u[i].id
    BY <1>1, IdsType
  <1>3. /\ a \in Seq(Nat) /\ Len(a) = Len(s) /\ \A i \in 1..Len(s) : a[i] = s[i].id
        /\ b \in Seq(Nat) /\ Len(b) = Len(t) /\ \A i \in 1..Len(t) : b[i] = t[i].id
    BY IdsType
  <1> HIDE DEF a, b, u
  <1>4. /\ a \o b \in Seq(Nat) /\ Len(a \o b) = Len(a) + Len(b)
        /\ \A i \in 1..(Len(a) + Len(b)) : (a \o b)[i] = IF i <= Len(a) THEN a[i] ELSE b[i - Len(a)]
    BY <1>3, ConcatProperties
  <1>5. \A i \in 1..(Len(s) + Len(t)) : Ids(u)[i] = (a \o b)[i]
    <2> TAKE i \in 1..(Len(s) + Len(t))
    <2>1. CASE i <= Len(s)
      <3>1. i \in 1..Len(s)
        BY <1>1, <2>1
      <3> QED BY <1>1, <1>2, <1>3, <1>4, <2>1, <3>1
    <2>2. CASE ~(i <= Len(s))
      <3>1. i - Len(s) \in 1..Len(t)
        BY <1>1, <2>2
      <3> QED BY <1>1, <1>2, <1>3, <1>4, <2>2, <3>1
    <2> QED BY <2>1, <2>2
  <1>6. Ids(u) = a \o b
    BY <1>1, <1>2, <1>3, <1>4, <1>5, SeqEqual
  <1> QED BY <1>6 DEF a, b, u

LEMMA IdsOfOne ==
    ASSUME NEW r \in Foreign
    PROVE  r.id \in Nat /\ Ids(<<r>>) = <<r.id>> /\ Ids(<<>>) = <<>>
  <1>1. r.id \in Nat
    BY DEF Foreign
  <1> DEFINE one == <<r>>
             none == <<>>
  <1>2. /\ one \in Seq(Foreign) /\ Len(one) = 1 /\ one[1] = r
        /\ none \in Seq(Foreign) /\ Len(none) = 0
    OBVIOUS
  <1> HIDE DEF one, none
  <1>3. /\ Ids(one) \in Seq(Nat) /\ Len(Ids(one)) = 1 /\ Ids(one)[1] = r.id
    BY <1>2, IdsType
  <1>4. Ids(none) \in Seq(Nat) /\ Len(Ids(none)) = 0
    BY <1>2, IdsType
  <1>5. Ids(one) = <<r.id>>
    BY <1>1, <1>3
  <1>6. Ids(none) = <<>>
    BY <1>4
  <1> QED BY <1>1, <1>5, <1>6 DEF one, none

LEMMA IdsTail ==
    ASSUME NEW s \in Seq(Foreign), s # <<>>
    PROVE  Ids(s) # <<>> /\ Head(Ids(s)) = Head(s).id /\ Tail(Ids(s)) = Ids(Tail(s))
  <1>1. Head(s) \in Foreign /\ Tail(s) \in Seq(Foreign) /\ <<Head(s)>> \in Seq(Foreign)
    OBVIOUS
  <1>2. Ids(s) = Ids(<<Head(s)>>) \o Ids(Tail(s))
    <2>1. s = <<Head(s)>> \o Tail(s)
      BY HeadThenTail
    <2> QED BY <1>1, <2>1, IdsConcat
  <1> DEFINE a == <<Head(s).id>>
             b == Ids(Tail(s))
  <1>3. Ids(s) = a \o b /\ Head(s).id \in Nat
    BY <1>1, <1>2, IdsOfOne
  <1>4. b \in Seq(Nat)
    BY <1>1, IdsType
  <1> HIDE DEF b
  <1>5. a \in Seq(Nat) /\ a # <<>> /\ Head(a) = Head(s).id /\ Tail(a) = <<>>
    BY <1>3
  <1> HIDE DEF a
  <1>6. a \o b # <<>> /\ Head(a \o b) = Head(a) /\ Tail(a \o b) = Tail(a) \o b
    BY <1>4, <1>5, TailOfConcat
  <1>7. <<>> \o b = b
    BY <1>4, ConcatEmptySeq
  <1> QED BY <1>3, <1>5, <1>6, <1>7 DEF b

\* No number is ahead of the probes; of the ring RingInv says so.
Below(s) == \A i \in 1..Len(s) : s[i].id <= fired

IdInv == Below(hand) /\ Below(queue) /\ Below(processed)

LEMMA NextIdInv == CleanInv /\ RingInv /\ IdInv /\ [Next]_vars => IdInv'
  <1> SUFFICES ASSUME CleanInv, RingInv, IdInv, [Next]_vars PROVE IdInv'
    OBVIOUS
  <1> USE DEF kernelVars, runVars, queueVars
  <1>1. /\ ring \in Seq(Foreign) /\ hand \in Seq(Foreign) /\ queue \in Seq(Foreign)
        /\ processed \in Seq(Foreign) /\ fired \in Nat
    BY DEF CleanInv
  <1>2. \A r \in Foreign : r.id \in Nat
    BY DEF Foreign
  <1>3. \A s \in Seq(Foreign) : \A i \in 1..Len(s) : s[i].id \in Nat
    <2>1. \A s \in Seq(Foreign) : \A i \in 1..Len(s) : s[i] \in Foreign
      OBVIOUS
    <2> QED BY <1>2, <2>1
  <1>4. CASE UNCHANGED <<hand, queue, processed, fired>>
    BY <1>4 DEF IdInv, Below
  <1>5. CASE \E c \in CPUs : (\E own \in BOOLEAN : Reserve(c, own)) \/ Probe(c)
    <2>1. UNCHANGED <<hand, queue, processed>> /\ (fired' = fired \/ fired' = fired + 1)
      BY <1>5 DEF Reserve, Probe, Stamp, Count, Submit
    <2>2. \A s \in Seq(Foreign) : Below(s) => \A i \in 1..Len(s) : s[i].id <= fired'
      BY <1>1, <1>3, <2>1 DEF Below
    <2>3. \A i \in 1..Len(hand) : hand[i].id <= fired'
      BY <1>1, <2>2 DEF IdInv
    <2>4. \A i \in 1..Len(queue) : queue[i].id <= fired'
      BY <1>1, <2>2 DEF IdInv
    <2>5. \A i \in 1..Len(processed) : processed[i].id <= fired'
      BY <1>1, <2>2 DEF IdInv
    <2> QED BY <2>1, <2>3, <2>4, <2>5 DEF IdInv, Below
  <1>6. CASE Read
    <2>1. ring # <<>> /\ hand' = <<Head(ring)>> /\ UNCHANGED <<queue, processed, fired>>
      BY <1>6 DEF Read, Readable
    <2>2. Head(ring).id <= fired
      <3>1. Head(ring) = ring[1] /\ 1 \in 1..Len(ring)
        BY <1>1, <2>1
      <3> QED BY <3>1 DEF RingInv
    <2>3. Len(hand') = 1 /\ hand'[1] = Head(ring)
      BY <2>1
    <2>4. \A i \in 1..Len(hand') : hand'[i].id <= fired
      BY <2>2, <2>3
    <2> QED BY <2>1, <2>4 DEF IdInv, Below
  <1>7. CASE DiscardMalformed \/ Enqueue
    <2>1. hand' = <<>> /\ runner = "holding" /\ UNCHANGED <<processed, fired>>
      BY <1>7 DEF DiscardMalformed, Enqueue
    <2>2. hand # <<>>
      BY <2>1 DEF CleanInv
    <2>3. hand[1].id <= fired /\ hand[1] \in Foreign
      <3>1. 1 \in 1..Len(hand)
        BY <1>1, <2>2
      <3> QED BY <1>1, <3>1 DEF IdInv, Below
    <2>4. queue' = queue \/ queue' = Append(queue, hand[1])
      BY <1>7 DEF DiscardMalformed, Enqueue
    <2>5. \A i \in 1..Len(queue') : queue'[i].id <= fired
      <3>1. CASE queue' = queue
        BY <3>1 DEF IdInv, Below
      <3>2. CASE queue' = Append(queue, hand[1])
        <4>1. /\ Len(queue') = Len(queue) + 1 /\ Len(queue) \in Nat
              /\ \A i \in 1..Len(queue) : queue'[i] = queue[i]
              /\ queue'[Len(queue) + 1] = hand[1]
          BY <1>1, <2>3, <3>2
        <4>2. \A i \in 1..(Len(queue) + 1) : i \in 1..Len(queue) \/ i = Len(queue) + 1
          BY <4>1
        <4> QED BY <2>3, <4>1, <4>2 DEF IdInv, Below
      <3> QED BY <2>4, <3>1, <3>2
    <2>6. Len(hand') = 0
      BY <2>1
    <2> QED BY <2>1, <2>5, <2>6 DEF IdInv, Below
  <1>8. CASE Process
    <2>1. /\ queue # <<>> /\ processed' = Append(processed, Head(queue))
          /\ queue' = Tail(queue) /\ UNCHANGED <<hand, fired>>
      BY <1>8 DEF Process
    <2>2. /\ Len(queue) \in Nat /\ Len(queue) >= 1 /\ Len(queue') = Len(queue) - 1
          /\ \A i \in 1..(Len(queue) - 1) : queue'[i] = queue[i + 1]
          /\ Head(queue) = queue[1] /\ Head(queue) \in Foreign
      BY <1>1, <2>1
    <2>3. \A i \in 1..(Len(queue) - 1) : i + 1 \in 1..Len(queue)
      BY <2>2
    <2>4. \A i \in 1..Len(queue') : queue'[i].id <= fired
      BY <2>2, <2>3 DEF IdInv, Below
    <2>5. /\ Len(processed) \in Nat /\ Len(processed') = Len(processed) + 1
          /\ \A i \in 1..Len(processed) : processed'[i] = processed[i]
          /\ processed'[Len(processed) + 1] = queue[1]
      BY <1>1, <2>1, <2>2
    <2>6. \A i \in 1..(Len(processed) + 1) : i \in 1..Len(processed) \/ i = Len(processed) + 1
      BY <2>5
    <2>7. 1 \in 1..Len(queue)
      BY <2>2
    <2>8. \A i \in 1..Len(processed') : processed'[i].id <= fired
      BY <2>5, <2>6, <2>7 DEF IdInv, Below
    <2> QED BY <2>1, <2>4, <2>8 DEF IdInv, Below
  <1>9. CASE Cancel \/ ReadFails \/ RunReturns \/ CloseQueue \/ Closer \/ UNCHANGED vars
    BY <1>4, <1>9 DEF Cancel, ReadFails, RunReturns, CloseQueue, Closer, CloseReader, CloserDone, vars
  <1>10. CASE Load \/ Finish \/ CloseRing \/ CloseLink \/ CloseObjects
    BY <1>4, <1>10 DEF Load, Finish, CloseRing, CloseLink, CloseObjects, progVars
  <1> QED
    BY <1>5, <1>6, <1>7, <1>8, <1>9, <1>10 DEF Next, Collector, Main

\* The inside of the channel, place by place.
Pipe == Ids(queue \o hand \o ring)

\* Everything the channel holds or has delivered is numbered below.
LEMMA PipeBelow ==
    ASSUME CleanInv, RingInv, IdInv
    PROVE  /\ \A i \in 1..Len(Pipe) : Pipe[i] <= fired
           /\ \A i \in 1..Len(Ids(processed)) : Ids(processed)[i] <= fired
  <1>1. /\ ring \in Seq(Foreign) /\ hand \in Seq(Foreign) /\ queue \in Seq(Foreign)
        /\ processed \in Seq(Foreign)
    BY DEF CleanInv
  <1>2. Below(ring) /\ Below(hand) /\ Below(queue) /\ Below(processed)
    BY DEF IdInv, Below, RingInv
  <1>3. ASSUME NEW s \in Seq(Foreign), NEW t \in Seq(Foreign), Below(s), Below(t)
        PROVE  s \o t \in Seq(Foreign) /\ Below(s \o t)
    <2>1. /\ s \o t \in Seq(Foreign) /\ Len(s \o t) = Len(s) + Len(t) /\ Len(s) \in Nat /\ Len(t) \in Nat
          /\ \A i \in 1..(Len(s) + Len(t)) : (s \o t)[i] = IF i <= Len(s) THEN s[i] ELSE t[i - Len(s)]
      BY ConcatProperties
    <2>2. ASSUME NEW i \in 1..(Len(s) + Len(t)) PROVE (s \o t)[i].id <= fired
      <3>1. CASE i <= Len(s)
        <4>1. i \in 1..Len(s)
          BY <2>1, <3>1
        <4> QED BY <1>3, <2>1, <3>1, <4>1 DEF Below
      <3>2. CASE ~(i <= Len(s))
        <4>1. i - Len(s) \in 1..Len(t)
          BY <2>1, <3>2
        <4> QED BY <1>3, <2>1, <3>2, <4>1 DEF Below
      <3> QED BY <3>1, <3>2
    <2> QED BY <2>1, <2>2 DEF Below
  <1>4. queue \o hand \o ring \in Seq(Foreign) /\ Below(queue \o hand \o ring)
    BY <1>1, <1>2, <1>3
  <1>5. ASSUME NEW s \in Seq(Foreign), Below(s)
        PROVE  \A i \in 1..Len(Ids(s)) : Ids(s)[i] <= fired
    BY <1>5, IdsType DEF Below
  <1> QED BY <1>1, <1>2, <1>4, <1>5 DEF Pipe

\* The numbers in three sequences one after the other.
LEMMA IdsOfThree ==
    ASSUME NEW q \in Seq(Foreign), NEW h \in Seq(Foreign), NEW r \in Seq(Foreign)
    PROVE  /\ Ids(q \o h \o r) = (Ids(q) \o Ids(h)) \o Ids(r)
           /\ Ids(q \o h \o r) \in Seq(Nat)
           /\ Ids(q) \in Seq(Nat) /\ Ids(h) \in Seq(Nat) /\ Ids(r) \in Seq(Nat)
  <1>1. q \o h \in Seq(Foreign)
    OBVIOUS
  <1>2. q \o h \o r \in Seq(Foreign)
    BY <1>1
  <1>3. Ids(q \o h \o r) = Ids(q \o h) \o Ids(r) /\ Ids(q \o h) = Ids(q) \o Ids(h)
    BY <1>1, IdsConcat
  <1>4. /\ Ids(q \o h \o r) \in Seq(Nat)
        /\ Ids(q) \in Seq(Nat) /\ Ids(h) \in Seq(Nat) /\ Ids(r) \in Seq(Nat)
    BY <1>2, IdsType
  <1> QED BY <1>3, <1>4

\* Sequences with the same numbers, one by one, are the same to the channel.
LEMMA SameIds ==
    ASSUME NEW s \in Seq(Foreign), NEW t \in Seq(Foreign), Len(s) = Len(t),
           \A i \in 1..Len(s) : s[i].id = t[i].id
    PROVE  Ids(s) = Ids(t)
  <1>1. \A i \in 1..Len(s) : Ids(s)[i] = Ids(t)[i]
    BY IdsType
  <1> QED BY <1>1, IdsType, SeqEqual

\* A number above all those inside, put at the end.
LEMMA GoesInAtTheEnd ==
    ASSUME NEW p \in Seq(Nat), NEW n \in Nat, NEW d \in Seq(Nat), NEW u, u = p \o <<n>>,
           \A i \in 1..Len(p) : p[i] < n, \A i \in 1..Len(d) : d[i] < n
    PROVE  /\ Len(u) = Len(p) + 1 /\ Front(u) = p
           /\ ~Contains(p, Last(u)) /\ ~Contains(d, Last(u))
  <1>1. u = Append(p, n)
    BY AppendIsConcat
  <1>2. /\ Len(p) \in Nat /\ u \in Seq(Nat) /\ Len(u) = Len(p) + 1
        /\ \A i \in 1..Len(p) : u[i] = p[i]
        /\ u[Len(p) + 1] = n
    BY <1>1
  <1>3. Last(u) = n
    BY <1>2 DEF Last
  <1>4. Front(u) = p
    <2>1. Front(u) = [i \in 1..Len(p) |-> u[i]]
      BY <1>2 DEF Front
    <2>2. Front(u) = [i \in 1..Len(p) |-> p[i]]
      BY <1>2, <2>1
    <2>3. p = [i \in 1..Len(p) |-> p[i]]
      OBVIOUS
    <2> QED BY <2>2, <2>3
  <1>5. (\A i \in 1..Len(p) : p[i] # n) /\ (\A i \in 1..Len(d) : d[i] # n)
    BY <1>2
  <1> QED BY <1>2, <1>3, <1>4, <1>5 DEF Contains

LEMMA Regroup ==
    ASSUME NEW s \in Seq(Nat), NEW t \in Seq(Nat), NEW u \in Seq(Nat)
    PROVE  (s \o t) \o u = s \o (t \o u)
<1> DEFINE S == Nat
<1>1. s \in Seq(S) /\ t \in Seq(S) /\ u \in Seq(S)
  OBVIOUS
<1> HIDE DEF S
<1> QED BY <1>1, ConcatAssociative, SMTT(60)

\* The inside of the channel, before and after a step.
LEMMA PipeSteps ==
    ASSUME CleanInv, CleanInv'
    PROVE  /\ Pipe = (Ids(queue) \o Ids(hand)) \o Ids(ring)
           /\ Pipe' = (Ids(queue') \o Ids(hand')) \o Ids(ring')
           /\ Pipe \in Seq(Nat) /\ Pipe' \in Seq(Nat)
           /\ Ids(queue) \in Seq(Nat) /\ Ids(hand) \in Seq(Nat) /\ Ids(ring) \in Seq(Nat)
           /\ Ids(processed) \in Seq(Nat)
  <1>1. /\ ring \in Seq(Foreign) /\ hand \in Seq(Foreign) /\ queue \in Seq(Foreign)
        /\ processed \in Seq(Foreign)
    BY DEF CleanInv
  <1>2. ring' \in Seq(Foreign) /\ hand' \in Seq(Foreign) /\ queue' \in Seq(Foreign)
    BY DEF CleanInv
  <1>3. Pipe' = Ids(queue' \o hand' \o ring')
    BY DEF Pipe, Ids
  <1> DEFINE q == queue'
             h == hand'
             r == ring'
  <1>4. q \in Seq(Foreign) /\ h \in Seq(Foreign) /\ r \in Seq(Foreign) /\ Pipe' = Ids(q \o h \o r)
    BY <1>2, <1>3
  <1> HIDE DEF q, h, r
  <1>5. Pipe' = (Ids(q) \o Ids(h)) \o Ids(r) /\ Pipe' \in Seq(Nat)
    BY <1>4, IdsOfThree
  <1>6. /\ Pipe = (Ids(queue) \o Ids(hand)) \o Ids(ring) /\ Pipe \in Seq(Nat)
        /\ Ids(queue) \in Seq(Nat) /\ Ids(hand) \in Seq(Nat) /\ Ids(ring) \in Seq(Nat)
    <2>1. Pipe = Ids(queue \o hand \o ring)
      BY DEF Pipe
    <2> QED BY <1>1, <2>1, IdsOfThree
  <1>7. Ids(processed) \in Seq(Nat)
    BY <1>1, IdsType
  <1> QED BY <1>5, <1>6, <1>7 DEF q, h, r

\* A record reserved goes into the channel at its end, with a new number.
LEMMA ReserveAccepts ==
    ASSUME CleanInv, CleanInv', RingInv, IdInv, NEW c \in CPUs, NEW own \in BOOLEAN, Reserve(c, own)
    PROVE  Channel!Accept \/ Channel!Refuse
  <1> DEFINE r == [id |-> fired + 1, ts |-> 0, ready |-> FALSE, own |-> own]
             Q == Ids(queue) \o Ids(hand)
  <1>1. UNCHANGED <<queue, hand, processed, qDropped, logged>>
    BY DEF Reserve, runVars, queueVars
  <1>2. CASE ring' = ring /\ kDropped' = kDropped + 1
    BY <1>1, <1>2 DEF Channel!Refuse
  <1>3. CASE ring' = Append(ring, r) /\ kDropped' = kDropped
    <2>1. ring \in Seq(Foreign) /\ ring' \in Seq(Foreign) /\ fired \in Nat
      BY DEF CleanInv
    <2>2. r \in Foreign /\ r.id = fired + 1
      <3>1. /\ ring'[Len(ring) + 1] = r /\ Len(ring') = Len(ring) + 1 /\ Len(ring) + 1 \in 1..Len(ring')
        BY <1>3, <2>1
      <3>2. \A i \in 1..Len(ring') : ring'[i] \in Foreign
        BY <2>1
      <3> QED BY <3>1, <3>2
    <2> HIDE DEF r
    <2>3. Ids(ring') = Ids(ring) \o <<fired + 1>>
      <3>1. ring' = ring \o <<r>> /\ <<r>> \in Seq(Foreign)
        BY <1>3, <2>1, <2>2, AppendIsConcat
      <3>2. Ids(ring \o <<r>>) = Ids(ring) \o Ids(<<r>>)
        BY <2>1, <3>1, IdsConcat
      <3>3. Ids(<<r>>) = <<fired + 1>>
        BY <2>2, IdsOfOne
      <3> QED BY <3>1, <3>2, <3>3
    <2>4. /\ Pipe = Q \o Ids(ring) /\ Pipe' = Q \o Ids(ring') /\ Pipe \in Seq(Nat)
          /\ Q \in Seq(Nat) /\ Ids(ring) \in Seq(Nat) /\ Ids(processed) \in Seq(Nat)
      <3>1. /\ Pipe = (Ids(queue) \o Ids(hand)) \o Ids(ring)
            /\ Pipe' = (Ids(queue') \o Ids(hand')) \o Ids(ring')
            /\ Pipe \in Seq(Nat) /\ Ids(processed) \in Seq(Nat)
            /\ Ids(queue) \in Seq(Nat) /\ Ids(hand) \in Seq(Nat) /\ Ids(ring) \in Seq(Nat)
        BY PipeSteps
      <3>2. Q \in Seq(Nat)
        BY <3>1
      <3>3. queue' = queue /\ hand' = hand
        BY <1>1
      <3> QED BY <3>1, <3>2, <3>3
    <2>5. Pipe' = Pipe \o <<fired + 1>>
      <3> DEFINE one == <<fired + 1>>
                 R == Ids(ring)
      <3>1. one \in Seq(Nat) /\ R \in Seq(Nat) /\ Q \in Seq(Nat)
        BY <2>1, <2>4
      <3> HIDE DEF Q, one, R
      <3>2. (Q \o R) \o one = Q \o (R \o one)
        BY <3>1, Regroup
      <3> QED BY <2>3, <2>4, <3>2 DEF one, R
    <2>6. /\ \A i \in 1..Len(Pipe) : Pipe[i] < fired + 1
          /\ \A i \in 1..Len(Ids(processed)) : Ids(processed)[i] < fired + 1
      <3>1. /\ \A i \in 1..Len(Pipe) : Pipe[i] \in Nat
            /\ \A i \in 1..Len(Ids(processed)) : Ids(processed)[i] \in Nat
        <4>1. \A s \in Seq(Nat) : \A i \in 1..Len(s) : s[i] \in Nat
          OBVIOUS
        <4> QED BY <2>4, <4>1
      <3> QED BY <2>1, <3>1, PipeBelow
    <2> DEFINE u == Pipe'
    <2>7. fired + 1 \in Nat /\ u = Pipe \o <<fired + 1>>
      BY <2>1, <2>5
    <2> HIDE DEF u
    <2>8. /\ Len(u) = Len(Pipe) + 1 /\ Front(u) = Pipe
          /\ ~Contains(Pipe, Last(u)) /\ ~Contains(Ids(processed), Last(u))
      BY <2>4, <2>6, <2>7, GoesInAtTheEnd
    <2>9. Ids(processed)' = Ids(processed) /\ kDropped' = kDropped
          /\ (qDropped + logged)' = qDropped + logged
      BY <1>1, <1>3 DEF Ids
    <2> QED
      <3>1. /\ Channel!Front(u) = Front(u) /\ Channel!Last(u) = Last(u)
            /\ \A e : Channel!Contains(Pipe, e) <=> Contains(Pipe, e)
            /\ \A e : Channel!Contains(Ids(processed), e) <=> Contains(Ids(processed), e)
        BY DEF Channel!Front, Front, Channel!Last, Last, Channel!Contains, Contains
      <3>2. /\ Len(u) = Len(Pipe) + 1 /\ Channel!Front(u) = Pipe
            /\ ~Channel!Contains(Pipe, Channel!Last(u))
            /\ ~Channel!Contains(Ids(processed), Channel!Last(u))
        BY <2>8, <3>1
      <3> QED
        BY <2>9, <3>2 DEF Channel!Accept, u, Pipe
  <1> QED
    BY <1>2, <1>3 DEF Reserve

\* Stamping, counting and submitting move nothing.
LEMMA ProbeStutters ==
    ASSUME CleanInv, CleanInv', NEW c \in CPUs, Probe(c)
    PROVE  UNCHANGED Channel!chanVars
  <1>1. UNCHANGED <<queue, hand, processed, kDropped, qDropped, logged>>
    BY DEF Probe, Stamp, Count, Submit, runVars, queueVars
  <1> DEFINE r == ring'
  <1>2. ring \in Seq(Foreign) /\ r \in Seq(Foreign) /\ clock + 1 \in Nat
    BY DEF CleanInv
  <1>3. Len(r) = Len(ring) /\ \A i \in 1..Len(ring) : r[i].id = ring[i].id
    <2>1. CASE Stamp(c)
      BY <1>2, <2>1, StampOnly DEF Stamp
    <2>2. CASE Count(c)
      BY <2>2 DEF Count
    <2>3. CASE Submit(c)
      BY <2>3, SubmitOnly DEF Submit
    <2> QED BY <2>1, <2>2, <2>3 DEF Probe
  <1> HIDE DEF r
  <1>4. Ids(r) = Ids(ring)
    BY <1>2, <1>3, SameIds
  <1>5. /\ Pipe = (Ids(queue) \o Ids(hand)) \o Ids(ring)
        /\ Pipe' = (Ids(queue') \o Ids(hand')) \o Ids(r)
    BY PipeSteps DEF r
  <1>6. Pipe' = Pipe
    BY <1>1, <1>4, <1>5
  <1> QED BY <1>1, <1>6 DEF Channel!chanVars, Pipe, Ids

\* Reading moves the oldest record of the ring to the hand, which is empty:
\* it stays where it is in the channel.
LEMMA ReadStutters ==
    ASSUME CleanInv, CleanInv', StopInv, Read
    PROVE  UNCHANGED Channel!chanVars
  <1>1. UNCHANGED <<queue, processed, kDropped, qDropped, logged>>
    BY DEF Read, kernelVars, queueVars
  <1>2. ring \in Seq(Foreign) /\ ring # <<>> /\ hand = <<>>
    BY DEF CleanInv, Read, Readable, StopInv
  <1>3. hand' = <<Head(ring)>> /\ ring' = Tail(ring)
    BY DEF Read
  <1> DEFINE Q == Ids(queue)
             R == Ids(ring)
             h == Ids(<<Head(ring)>>)
             T == Ids(Tail(ring))
  <1>4. Head(ring) \in Foreign /\ Tail(ring) \in Seq(Foreign)
    BY <1>2
  <1>5. R = h \o T
    <2>1. ring = <<Head(ring)>> \o Tail(ring)
      BY <1>2, HeadThenTail
    <2>2. <<Head(ring)>> \in Seq(Foreign)
      BY <1>4
    <2> QED BY <1>4, <2>1, <2>2, IdsConcat
  <1>6. Ids(hand) = <<>> /\ h \in Seq(Nat)
    <2>1. Ids(<<>>) = <<>>
      BY <1>4, IdsOfOne
    <2>2. <<Head(ring)>> \in Seq(Foreign)
      BY <1>4
    <2>3. h \in Seq(Nat)
      BY <2>2, IdsType
    <2> QED BY <1>2, <2>1, <2>3
  <1>7. T \in Seq(Nat)
    BY <1>4, IdsType
  <1>8. /\ Pipe = (Q \o Ids(hand)) \o R
        /\ Pipe' = (Ids(queue') \o Ids(hand')) \o Ids(ring')
        /\ Q \in Seq(Nat)
    BY PipeSteps
  <1>9. Pipe' = (Q \o h) \o T
    BY <1>1, <1>3, <1>8
  <1> HIDE DEF Q, R, h, T
  <1>10. Q \o <<>> = Q
    BY <1>8, ConcatEmptySeq
  <1>11. (Q \o h) \o T = Q \o (h \o T)
    BY <1>6, <1>7, <1>8, Regroup
  <1>12. Pipe' = Pipe
    BY <1>5, <1>6, <1>8, <1>9, <1>10, <1>11
  <1> QED BY <1>1, <1>12 DEF Channel!chanVars, Pipe, Ids

\* While Run holds a record it holds one.
LEMMA HandIsOne ==
    ASSUME CleanInv, CountInv, runner = "holding"
    PROVE  hand[1] \in Foreign /\ hand = <<hand[1]>>
  <1>1. hand \in Seq(Foreign) /\ hand # <<>> /\ Len(hand) <= 1
    BY DEF CleanInv, CountInv
  <1>2. Len(hand) = 1
    <2>1. Len(hand) \in Nat /\ Len(hand) # 0
      <3>1. hand \in Seq(Foreign) /\ hand # <<>>
        BY <1>1
      <3> QED BY <3>1
    <2> DEFINE n == Len(hand)
    <2>2. n \in Nat /\ n # 0 /\ n <= 1
      BY <1>1, <2>1
    <2> HIDE DEF n
    <2>3. n = 1
      BY <2>2
    <2> QED BY <2>3 DEF n
  <1>3. hand \in Seq(Foreign)
    BY <1>1
  <1> QED BY <1>2, <1>3

\* The record in hand goes to the queue, or is given up and counted.
LEMMA HandleKeepsOrDiscards ==
    ASSUME CleanInv, CleanInv', CountInv, DiscardMalformed \/ Enqueue
    PROVE  Channel!Discard \/ UNCHANGED Channel!chanVars
  <1> DEFINE x == hand[1]
             Q == Ids(queue)
             R == Ids(ring)
             one == <<x.id>>
  <1>1. UNCHANGED <<ring, processed, kDropped>> /\ hand' = <<>>
    BY DEF DiscardMalformed, Enqueue, kernelVars
  <1>2. x \in Foreign /\ hand = <<x>>
    <2>1. runner = "holding"
      BY DEF DiscardMalformed, Enqueue
    <2> QED BY <2>1, HandIsOne
  <1>3. Ids(hand) = one /\ one \in Seq(Nat) /\ x.id \in Nat /\ Ids(hand') = <<>>
    <2>1. x.id \in Nat /\ Ids(<<x>>) = <<x.id>> /\ Ids(<<>>) = <<>>
      BY <1>2, IdsOfOne
    <2> QED BY <1>1, <1>2, <2>1
  <1>4. /\ Pipe = (Q \o Ids(hand)) \o R
        /\ Pipe' = (Ids(queue') \o Ids(hand')) \o Ids(ring')
        /\ Q \in Seq(Nat) /\ R \in Seq(Nat)
    BY PipeSteps
  <1>5. Pipe = (Q \o one) \o R /\ Pipe' = (Ids(queue') \o <<>>) \o R
    BY <1>1, <1>3, <1>4
  <1>6. Ids(processed)' = Ids(processed)
    BY <1>1 DEF Ids
  <1>7. CASE queue' = Append(queue, x) /\ UNCHANGED <<qDropped, logged>>
    <2>1. queue \in Seq(Foreign)
      BY DEF CleanInv
    <2>2. queue' = queue \o <<x>> /\ <<x>> \in Seq(Foreign)
      BY <1>2, <1>7, <2>1, AppendIsConcat
    <2>3. Ids(queue') = Q \o one
      BY <1>2, <1>3, <2>1, <2>2, IdsConcat
    <2>4. Q \o one \in Seq(Nat)
      BY <1>3, <1>4
    <2>5. (Q \o one) \o <<>> = Q \o one
      BY <2>4, ConcatEmptySeq
    <2>6. Pipe' = Pipe
      BY <1>5, <2>3, <2>5
    <2> QED BY <1>1, <1>6, <1>7, <2>6 DEF Channel!chanVars, Pipe
  <1>8. CASE queue' = queue /\ (qDropped + logged)' = qDropped + logged + 1
    <2>1. Q \o <<>> = Q
      BY <1>4, ConcatEmptySeq
    <2>2. Pipe' = Q \o R
      BY <1>5, <1>8, <2>1
    <2>3. /\ Len(Q) + 1 \in 1..Len((Q \o one) \o R)
          /\ RemoveAt((Q \o one) \o R, Len(Q) + 1) = Q \o R
      <3> DEFINE n == x.id
      <3>1. n \in Nat /\ Q \in Seq(Nat) /\ R \in Seq(Nat)
        BY <1>3, <1>4
      <3> HIDE DEF n, Q, R
      <3>2. /\ Len(Q) + 1 \in 1..Len((Q \o <<n>>) \o R)
            /\ RemoveAt((Q \o <<n>>) \o R, Len(Q) + 1) = Q \o R
        BY <3>1, RemoveBetween
      <3> QED BY <3>2 DEF n
    <2> DEFINE k == Len(Q) + 1
    <2>4. k \in 1..Len(Pipe) /\ RemoveAt(Pipe, k) = Pipe'
      BY <1>5, <2>2, <2>3
    <2> HIDE DEF k
    <2>5. Channel!RemoveAt(Pipe, k) = RemoveAt(Pipe, k)
      BY DEF Channel!RemoveAt, RemoveAt
    <2>6. \E i \in 1..Len(Pipe) : Pipe' = Channel!RemoveAt(Pipe, i)
      BY <2>4, <2>5
    <2> QED BY <1>1, <1>6, <1>8, <2>6 DEF Channel!Discard, Pipe
  <1>9. qDropped \in Nat /\ logged \in Nat
    BY DEF CountInv
  <1>10. \/ queue' = Append(queue, x) /\ UNCHANGED <<qDropped, logged>>
         \/ queue' = queue /\ qDropped' = qDropped + 1 /\ logged' = logged
         \/ queue' = queue /\ logged' = logged + 1 /\ qDropped' = qDropped
    BY DEF DiscardMalformed, Enqueue, DropCount
  <1> QED BY <1>7, <1>8, <1>9, <1>10

\* pump takes the oldest event of the channel.
LEMMA ProcessDelivers ==
    ASSUME CleanInv, CleanInv', Process
    PROVE  Channel!Deliver
  <1> DEFINE Q == Ids(queue)
             H == Ids(hand)
             R == Ids(ring)
  <1>1. UNCHANGED <<ring, hand, kDropped, qDropped, logged>> /\ queue' = Tail(queue)
    BY DEF Process, kernelVars, runVars
  <1>2. queue \in Seq(Foreign) /\ queue # <<>> /\ processed \in Seq(Foreign)
    BY DEF Process, CleanInv
  <1>3. /\ Pipe = (Q \o H) \o R
        /\ Pipe' = (Ids(queue') \o Ids(hand')) \o Ids(ring')
        /\ Q \in Seq(Nat) /\ H \in Seq(Nat) /\ R \in Seq(Nat) /\ Ids(processed) \in Seq(Nat)
    BY PipeSteps
  <1>4. Q # <<>> /\ Head(Q) = Head(queue).id /\ Tail(Q) = Ids(Tail(queue))
    BY <1>2, IdsTail
  <1>5. Pipe' = (Tail(Q) \o H) \o R
    BY <1>1, <1>3, <1>4
  <1> HIDE DEF Q, H, R
  <1>6. Q \o H # <<>> /\ Head(Q \o H) = Head(Q) /\ Tail(Q \o H) = Tail(Q) \o H
    BY <1>3, <1>4, TailOfConcat
  <1> DEFINE QH == Q \o H
  <1>7. QH \in Seq(Nat)
    BY <1>3
  <1> HIDE DEF QH
  <1>8. QH \o R # <<>> /\ Head(QH \o R) = Head(QH) /\ Tail(QH \o R) = Tail(QH) \o R
    BY <1>3, <1>6, <1>7, TailOfConcat DEF QH
  <1>9. Pipe # <<>> /\ Pipe' = Tail(Pipe) /\ Head(Pipe) = Head(queue).id
    BY <1>3, <1>4, <1>5, <1>6, <1>8 DEF QH
  <1>10. Ids(processed)' = Append(Ids(processed), Head(Pipe))
    <2> DEFINE e == Head(queue)
    <2>1. e \in Foreign /\ processed' = Append(processed, e)
      BY <1>2 DEF Process
    <2> HIDE DEF e
    <2>2. processed' = processed \o <<e>> /\ <<e>> \in Seq(Foreign)
      BY <1>2, <2>1, AppendIsConcat
    <2>3. Ids(processed \o <<e>>) = Ids(processed) \o Ids(<<e>>)
      BY <1>2, <2>2, IdsConcat
    <2>4. Ids(<<e>>) = <<e.id>> /\ e.id \in Nat
      BY <2>1, IdsOfOne
    <2>5. Append(Ids(processed), e.id) = Ids(processed) \o <<e.id>>
      BY <1>3, <2>4, AppendIsConcat
    <2>6. Ids(processed)' = Ids(processed')
      BY DEF Ids
    <2> QED BY <1>9, <2>2, <2>3, <2>4, <2>5, <2>6 DEF e
  <1>11. kDropped' = kDropped /\ (qDropped + logged)' = qDropped + logged
    BY <1>1
  <1> QED BY <1>9, <1>10, <1>11 DEF Channel!Deliver, Pipe

\* Every step of the pipeline is a step of the channel, or none.
LEMMA NextIsChannel ==
    CleanInv /\ CleanInv' /\ RingInv /\ IdInv /\ StopInv /\ CountInv /\ [Next]_vars
        => [Channel!Next]_(Channel!chanVars)
  <1> SUFFICES ASSUME CleanInv, CleanInv', RingInv, IdInv, StopInv, CountInv, [Next]_vars
               PROVE  [Channel!Next]_(Channel!chanVars)
    OBVIOUS
  <1>1. CASE UNCHANGED <<ring, hand, queue, processed, kDropped, qDropped, logged>>
    BY <1>1 DEF Channel!chanVars, Ids
  <1>2. CASE \E c \in CPUs : (\E own \in BOOLEAN : Reserve(c, own)) \/ Probe(c)
    BY <1>2, ReserveAccepts, ProbeStutters DEF Channel!Next
  <1>3. CASE Read
    BY <1>3, ReadStutters
  <1>4. CASE DiscardMalformed \/ Enqueue
    BY <1>4, HandleKeepsOrDiscards DEF Channel!Next
  <1>5. CASE Process
    BY <1>5, ProcessDelivers DEF Channel!Next
  <1>6. CASE Cancel \/ ReadFails \/ RunReturns \/ CloseQueue \/ Closer \/ UNCHANGED vars
    BY <1>1, <1>6 DEF Cancel, ReadFails, RunReturns, CloseQueue, Closer, CloseReader, CloserDone,
       vars, kernelVars, queueVars, runVars
  <1>7. CASE Load \/ Finish \/ CloseRing \/ CloseLink \/ CloseObjects
    BY <1>1, <1>7 DEF Load, Finish, CloseRing, CloseLink, CloseObjects, progVars, kernelVars, queueVars
  <1> QED
    BY <1>2, <1>3, <1>4, <1>5, <1>6, <1>7 DEF Next, Collector, Main

\* Ring, hand and queue together are one channel: what the probes reserve
\* comes out of the queue in that order and once, and what does not come out
\* was counted, whatever the CPUs, the collector and pump do in between.
THEOREM PipelineIsAChannel == Spec => ImplementsChannel
  <1>1. Init => Channel!Init
    BY DEF Init, Channel!Init, Ids
  <1>2. Init => IdInv
    BY DEF Init, IdInv, Below
  <1> QED
    BY <1>1, <1>2, CleanInvHolds, RingInvHolds, StopInvHolds, CountInvHolds, NextIdInv,
       NextIsChannel, PTL DEF Spec, ImplementsChannel, Channel!Spec
=============================================================================
