------------------------------- MODULE Loader -------------------------------
(***************************************************************************)
(* How the collector comes into the kernel and leaves it: New and Close of *)
(* ebpfloader/loader.go.  New makes its calls one after the other, any of  *)
(* which may fail; the probes of a tracepoint run from the moment it is    *)
(* attached.  Pipeline composes this with what the probes do.              *)
(***************************************************************************)
EXTENDS Integers, Sequences, FiniteSets, SequencesExt

CONSTANTS
    tracepoints,         \* the attach list
    optionalTracepoints  \* those whose absence is tolerated

ASSUME LoaderAssumption ==
    /\ tracepoints \in Seq(STRING) /\ IsInjective(tracepoints)
    /\ optionalTracepoints \subseteq ToSet(tracepoints)

VARIABLES
    new,       \* the call New makes next, "done" or "failed"
    selfTgid,  \* whether the config map holds the agent's own TGID
    tried,     \* how far attachAll is in the list
    links,     \* Collector.links
    attached,  \* the tracepoints that run a probe
    stuck      \* ghost: those whose link could not be closed

loaderVars == <<new, selfTgid, tried, links, attached, stuck>>

LoaderInit ==
    /\ new = "memlock" /\ selfTgid = FALSE
    /\ tried = 0 /\ links = <<>> /\ attached = {} /\ stuck = {}

\* The order of the calls of New.
CallAfterAttachFirst(call) ==
    CASE call = "memlock" -> "load"   [] call = "load"   -> "attach"
      [] call = "attach"  -> "config" [] call = "config" -> "reader"
      [] call = "reader"  -> "clock"  [] call = "clock"  -> "done"
CallAfter(call) ==
    CASE call = "memlock" -> "load"   [] call = "load"   -> "config"
      [] call = "config"  -> "attach" [] call = "attach" -> "reader"
      [] call = "reader"  -> "clock"  [] call = "clock"  -> "done"

\* A call returns nil; attachAll once it is through its list and has a link.
CallReturns ==
    /\ new \notin {"done", "failed"}
    /\ new = "attach" => tried = Len(tracepoints) /\ links # <<>>
    /\ new' = CallAfter(new)
    /\ selfTgid' = (selfTgid \/ new = "config")
    /\ UNCHANGED <<tried, links, attached, stuck>>

Attach ==
    /\ new = "attach" /\ tried < Len(tracepoints)
    /\ tried' = tried + 1
    /\ links' = Append(links, tracepoints[tried + 1])
    /\ attached' = attached \cup {tracepoints[tried + 1]}
    /\ UNCHANGED <<new, selfTgid, stuck>>

\* The kernel has no such tracepoint.
ToleratesAny(tp) == TRUE
Tolerates(tp) == tp \in optionalTracepoints

SkipAbsent ==
    /\ new = "attach" /\ tried < Len(tracepoints)
    /\ Tolerates(tracepoints[tried + 1])
    /\ tried' = tried + 1
    /\ UNCHANGED <<new, selfTgid, links, attached, stuck>>

\* A call fails, the attachment of one tracepoint included.
CallFails ==
    /\ new \notin {"done", "failed"}
    /\ new' = "failed"
    /\ UNCHANGED <<selfTgid, tried, links, attached, stuck>>

-----------------------------------------------------------------------------
(* Close, after its reader: the links in reverse, whatever fails. *)

Detach ==
    /\ links # <<>>
    /\ links' = Front(links)
    /\ attached' = attached \ {Last(links)}
    /\ UNCHANGED <<new, selfTgid, tried, stuck>>

LinksAfterErrorNone == <<>>
LinksAfterError == Front(links)

DetachFails ==
    /\ links # <<>>
    /\ links' = LinksAfterError
    /\ stuck' = stuck \cup {Last(links)}
    /\ UNCHANGED <<new, selfTgid, tried, attached>>

-----------------------------------------------------------------------------
\* The types of the loader's state.
LoaderTypeOK ==
    /\ new \in {"memlock", "load", "config", "attach", "reader", "clock", "done", "failed"}
    /\ selfTgid \in BOOLEAN /\ tried \in 0..Len(tracepoints)
    /\ ToSet(links) \subseteq attached /\ attached \subseteq ToSet(tracepoints)
    /\ stuck \subseteq attached
=============================================================================
