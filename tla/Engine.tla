------------------------------- MODULE Engine -------------------------------
(***************************************************************************)
(* Evaluate of detect/engine.go: the four rules, the tracker, the          *)
(* correlator and the deduplicator working on one event.  The components   *)
(* are the modules Storyline, which this one extends, Tracker and Dedup,   *)
(* on one clock (now) and one skew.                                        *)
(*                                                                         *)
(* The rules run one after the other and write into one map: ev.Args is a  *)
(* reference, and every alert of an event has it as its own Args.  A rule  *)
(* is a step of the model, so what one leaves in the map is there for the  *)
(* key the next one's alert gets.                                          *)
(***************************************************************************)
EXTENDS Storyline, RevShell, Rules

CONSTANTS
    SelfPID,                                \* Config.SelfPID
    Enabled,                                \* the names given to --rules
    Script,         \* what the processes do: for each, a sequence of sets of events
    StatResults,    \* what Config.Stat may say of a path's two bits
    IgnoreLoopback,                         \* Config.IgnoreLoopback
    ShellWindow, Depth, TTL, TrackEvery, MaxProcesses,       \* the tracker's
    FoldWindow, Retain, MaxKeys                              \* the deduplicator's

ASSUME EngineAssumption ==
    /\ SelfPID \in PIDs
    /\ IgnoreLoopback \in BOOLEAN /\ IgnoreSelfProc \in BOOLEAN
    /\ \A p \in DOMAIN Script : p \in PIDs /\ \A i \in DOMAIN Script[p] :
           \A e \in Script[p][i] : e.pid = p

VARIABLES
    procs, entries, lastSeen, trackSwept, log,               \* Tracker
    seen, firstTS, suppressed, foldSwept, total, lastEmit,   \* Dedup
    folded, dropped, reported, lost, outcome,
    pc,         \* how far each process is in its script
    ev,         \* the event Evaluate was called with
    args,       \* ev.Args, the map its alerts share
    rule,       \* the rule whose turn it is, 0 when Evaluate is not running
    alerts,     \* the slice Evaluate is collecting
    returned    \* ghost: all that Evaluate has returned

trackVars == <<procs, entries, lastSeen, trackSwept, log>>
foldVars == <<seen, firstTS, suppressed, foldSwept, total, lastEmit,
              folded, dropped, reported, lost, outcome>>
storyVars == <<parent, alive, event, lineage, byPID, stories, lastSweep, filed>>
runVars == <<pc, ev, args, rule, alerts, returned>>
engineVars == <<trackVars, foldVars, storyVars, now, runVars>>

-----------------------------------------------------------------------------
Events == UNION {UNION {Script[p][i] : i \in DOMAIN Script[p]} : p \in DOMAIN Script}

\* allRules, and the ones --rules leaves; the registry fixes their order.
RegistryReversed ==
    <<"reverse-shell", "process-injection", "sensitive-file-access", "privilege-escalation">>
Registry ==
    <<"privilege-escalation", "sensitive-file-access", "process-injection", "reverse-shell">>

Kept(r) == IF r \in Enabled THEN <<r>> ELSE <<>>
EnabledRules ==
    Kept(Registry[1]) \o Kept(Registry[2]) \o Kept(Registry[3]) \o Kept(Registry[4])

\* strings.Cut(MitreID, "."): the technique a sub-technique belongs to.
ParentTechnique(mitre) ==
    CASE mitre \in {"T1548", "T1548.001"} -> "T1548"
      [] mitre \in {"T1003.007", "T1003.008"} -> "T1003"
      [] mitre \in {"T1552", "T1552.001", "T1552.004"} -> "T1552"
      [] mitre = "T1055.008" -> "T1055"
      [] mitre = "T1059" -> "T1059"

\* What evalReverseShell leaves in the map.  The duration, the descriptors
\* and the confirmation are in no key, and left out.
ChainNotes(dest) == IF dest = "" THEN NoNotes ELSE [chain_dest |-> dest]

\* What a rule finds in an event, given its history within the window.
Findings(r, e, stat, hist) ==
    CASE r = "privilege-escalation" -> evalPrivilegeEscalation(e, stat)
      [] r = "sensitive-file-access" -> evalSensitiveFileAccess(e)
      [] r = "process-injection" -> evalPtraceInjection(e)
      [] r = "reverse-shell" ->
            LET chain == evalReverseShell(e, hist, IgnoreLoopback)
            IN  IF chain.found THEN Finding("T1059", ChainNotes(chain.dest)) ELSE {}

newAlert(r, e, mitre, a) ==
    [rule |-> r, pid |-> e.pid, mitre |-> mitre, syscall |-> e.sc, args |-> a]

\* The alerts there can be, whatever order the rules write in: the
\* deduplicator's table ranges over their keys.
Dests == {e.dest : e \in Events}
MayAlert ==
    {newAlert("reverse-shell", e, "T1059", Written(ChainNotes(d), decodeArgs(e))) :
        e \in {x \in Events : IsExecution(x.sc)}, d \in Dests}
    \cup
    UNION {{newAlert(r, e, f.mitre, Written(ChainNotes(d), Written(f.notes, decodeArgs(e)))) :
                d \in {""} \cup IF IsExecution(e.sc) THEN Dests ELSE {},
                f \in UNION {Findings(r, e, stat, <<>>) : stat \in StatResults}} :
           r \in {Registry[i] : i \in DOMAIN Registry} \ {"reverse-shell"}, e \in Events}

\* What the correlator reads of one.
KindOf(a) == [rule |-> a.rule, mitre |-> ParentTechnique(a.mitre)]
Kinds == {KindOf(a) : a \in MayAlert}

\* Bounds that are never reached: no more alerts than four for each event.
Many == 1000

T == INSTANCE Tracker WITH Calls <- Events, SweepEvery <- TrackEvery,
        Window <- ShellWindow, Wrap <- Many, lastSweep <- trackSwept

D == INSTANCE Dedup WITH Alerts <- MayAlert, Window <- FoldWindow,
        MaxFolds <- Many, Wrap <- Many, lastSweep <- foldSwept

-----------------------------------------------------------------------------
NoCall == [pid |-> 0]

EngineInit ==
    /\ Init /\ T!Init /\ D!Init
    /\ pc = [p \in DOMAIN Script |-> 1]
    /\ ev = NoCall
    /\ args = NoNotes
    /\ rule = 0
    /\ alerts = <<>>
    /\ returned = <<>>

\* The next event comes out of the queue, one of those its process may make.
Arrives(e) ==
    /\ rule = 0
    /\ e.pid \in DOMAIN Script /\ pc[e.pid] \in DOMAIN Script[e.pid]
    /\ e \in Script[e.pid][pc[e.pid]]
    /\ pc' = [pc EXCEPT ![e.pid] = @ + 1]

\* Evaluate of an event of the agent's own returns at once.
EvaluateSelf(e) ==
    /\ Arrives(e)
    /\ e.pid = SelfPID
    /\ UNCHANGED <<trackVars, foldVars, storyVars, now, ev, args, rule, alerts, returned>>

\* Evaluate begins: the correlator observes the event, the tracker records it.
EvaluateBegin(e, t) ==
    /\ Arrives(e)
    /\ e.pid # SelfPID
    /\ Observe(e.pid, t)
    /\ T!Record(e.pid, e, t)
    /\ ev' = e
    /\ args' = decodeArgs(e)
    /\ rule' = 1
    /\ alerts' = <<>>
    /\ UNCHANGED <<foldVars, returned>>

\* Record returns no history for a syscall that is not tracked.
Shown == IF T!tracked(ev.sc) THEN T!Within(entries[ev.pid], event.ts) ELSE <<>>

Running == rule \in 1..Len(EnabledRules)

\* A rule has nothing to say.
RuleSilent(stat) ==
    /\ Running
    /\ Findings(EnabledRules[rule], ev, stat, Shown) = {}
    /\ rule' = rule + 1
    /\ UNCHANGED <<trackVars, foldVars, storyVars, now, pc, ev, args, alerts, returned>>

\* Every alert is correlated, and then admitted or folded.
AdmitFirst(a) ==
    /\ D!admit(a, event.ts)
    /\ IF outcome'.admitted
       THEN Correlate(KindOf(a))
       ELSE UNCHANGED storyVars
CorrelateAndAdmit(a) ==
    /\ Correlate(KindOf(a))
    /\ D!admit(a, event.ts)

\* What one alert adds to the slice: itself if it was admitted, then the
\* attack chain it completed, if it did.
CollectedIfAdmitted(a, admitted, chain) ==
    IF ~admitted THEN <<>> ELSE IF chain = 0 THEN <<a>>
    ELSE <<a, newAlert("attack-chain", ev, "", NoNotes)>>
Collected(a, admitted, chain) ==
    (IF admitted THEN <<a>> ELSE <<>>)
        \o (IF chain = 0 THEN <<>> ELSE <<newAlert("attack-chain", ev, "", NoNotes)>>)

\* The tactics of the attack chain that this step's Correlate returned.
ChainRaised == IF Len(filed') = Len(filed) THEN 0 ELSE filed'[Len(filed')].chain

\* A rule alerts.  Its notes go into the map of the event before the alert is
\* made, and the map is not copied.
RuleAlerts(stat) ==
    /\ Running
    /\ \E f \in Findings(EnabledRules[rule], ev, stat, Shown) :
         LET a == newAlert(EnabledRules[rule], ev, f.mitre, Written(f.notes, args)) IN
         /\ args' = a.args
         /\ CorrelateAndAdmit(a)
         /\ alerts' = alerts \o Collected(a, outcome'.admitted, ChainRaised)
    /\ rule' = rule + 1
    /\ UNCHANGED <<trackVars, pc, ev, returned>>

\* Evaluate returns what it has collected.
EvaluateReturns ==
    /\ rule = Len(EnabledRules) + 1
    /\ returned' = returned \o alerts
    /\ rule' = 0
    /\ ev' = NoCall
    /\ args' = NoNotes
    /\ alerts' = <<>>
    /\ UNCHANGED <<trackVars, foldVars, storyVars, now, pc>>

EngineNext ==
    \/ \E e \in Events : EvaluateSelf(e)
    \/ \E e \in Events, t \in Stamps : EvaluateBegin(e, t)
    \/ \E stat \in StatResults : RuleSilent(stat) \/ RuleAlerts(stat)
    \/ EvaluateReturns

EngineSpec == EngineInit /\ [][EngineNext]_engineVars

-----------------------------------------------------------------------------
AtRest == rule = 0

IsChain(a) == a.rule = "attack-chain"
ChainsIn(s) == {i \in 1..Len(s) : IsChain(s[i])}
FindingsIn(s) == {i \in 1..Len(s) : ~IsChain(s[i])}

\* The types of what Evaluate itself keeps: nothing is left over of an event
\* once it has returned.
EngineTypeOK ==
    /\ rule \in 0..(Len(EnabledRules) + 1)
    /\ AtRest => ev = NoCall /\ alerts = <<>>

\* The alerts the storylines that were not absorbed count, story by story.
Tallied ==
    UNION {{n} \X (1..stories[n].alerts) : n \in {m \in StoryIds : Live(stories[m])}}

\* A folded repeat is still evidence: the open and the past storylines count
\* as many alerts as were returned or folded, so folding, merging and lapsing
\* hide none from the correlator, whatever they hide from the log.
FoldedIsEvidence ==
    AtRest => Cardinality(Tallied) = total + Cardinality(FindingsIn(returned))

\* Every attack chain the correlator raised is among the alerts returned,
\* that of an alert which was itself folded included.
ChainsReachTheLog ==
    AtRest =>
        Cardinality(ChainsIn(returned))
            = Cardinality({i \in 1..Len(filed) : filed[i].chain > 0})

\* What one rule writes into the shared map never becomes part of another's
\* identity: only reverse shells are told apart by the destination of a chain.
\* (Otherwise a repeat of a finding would not be folded when a shell to
\* another destination completes with it.)
KeysOwnRule ==
    \A k \in seen : "chain_dest" \in DOMAIN k[5] => k[1] = "reverse-shell"
=============================================================================
