# KrnlSentry: a TLA+ model of the agent

KrnlSentry watches syscalls with eBPF probes, recognises suspicious ones with a
handful of rules, folds repeats, groups alerts of one process tree into
storylines, and writes alerts to a log and a terminal. This directory models the
parts of it that keep state or run concurrently. TLC checks the models on small
instances, and TLAPS proves the central facts for every value of the constants.
`PROJECT.json` lists the runs, the source lines behind each definition,
the hazards, the findings, and for each checked property a mutation of the model
that breaks it.

## 1. The system

| Component | State | Operations | Interacts with |
|---|---|---|---|
| kernel probes (`bpf/krnlsentry.bpf.c`) | ring buffer, per-CPU counters | reserve, stamp, fill, count, submit | collector, through the ring |
| collector (`ebpfloader/loader.go`) | reader, links | `New`, `Run`, `Stats`, `Close` | queue of `pump`, closer goroutine, context |
| main (`cmd/krnlsentry/main.go`) | event queue, counters, deferred calls | `run`, `pump`, `replay`, `process`, `finishDisplay`, `printSummary` | everything |
| scope filter (`cmd/krnlsentry/pidfilter.go`) | set of pids | `seedFromProc`, `Allow`, `lookupProc` | `/proc`, events |
| engine (`detect/engine.go`) | - | `Evaluate`: observe, record, rules, correlate, deduplicate | tracker, rules, correlator, deduper |
| tracker (`detect/tracker.go`) | history per pid, last sweep | `Record`, `Within`, `Forget`, `maybeSweep` | engine, reverse-shell rule |
| reverse-shell rule (`detect/revshell.go`) | none | `evalReverseShell`, `findChain` | tracker's history |
| other rules (`privesc.go`, `ptrace.go`, `sensitivefile.go`) | none | predicates of one event | engine |
| deduper (`detect/dedup.go`) | entry per key, last sweep, total | `admit`, `maybeSweep` | engine |
| correlator (`detect/storyline.go`) | lineage, storylines, pid index, last sweep | `Observe`, `Correlate`, `storyFor`, `merge`, `maybeSweep` | engine, `/proc` lookup |
| dashboard (`output/dashboard.go`) | totals, recent alerts, last chain, painter goroutine; main's metrics snapshot | `Start`, `Write`, `Render`, `Paint`, `Close` | main, terminal |
| logs (`output/jsonl.go`, `output/sink.go`) | open file, encoder with its first error | `Write`, `WriteEvent`, `Close` | main, file system |
| captures (`events/record.go`) | none | `NewRecord`, `ReadRecords` | replay, debug log |

What is hard here: probes on several CPUs interleave between reserving and
stamping a record; three goroutines (collector, closer, main) and a fourth (the
painter) must all stop, in any order of events; every table is bounded and swept
by the events themselves, with unsigned arithmetic on their stamps; pids and
descriptors are reused without being reported; storylines merge long after
alerts were stamped with their ids; `run` may fail between any two of its
openings, and `New` between any two of its calls into the kernel; a log outlives
the runs that append to it, and is cut by kills, full disks and loss of power; a
frame is fitted to the terminal in several rounds, with alerts arriving between.

## 2. The modules

Every module is written from the Go or C code; names are the code's where
possible. `MC*.tla` give the constants of a run values, `*Proofs.tla` hold the
theorems.

### Tracker
State: `procs` (the keys of the map), `entries` and `lastSeen` per process,
`lastSweep`, and the ghosts `now` and `log` (the calls really made, so that what
a rule is shown can be compared with what happened). `Record` is the whole
method: the early return for untracked syscalls, the sweep with its interval and
capacity tests, the append, the trim. `Forget` is the exported method, which no
code of the agent calls. `Skew` is how far behind the latest stamp an event's
may be: 0 is what the comments promise, more is what the pipeline delivers.
`Sub64` keeps Go's wrap-around.

### RevShell, ChainRule
`RevShell` has `findChain` and `evalReverseShell` as operators on a history; the
loop over the entries becomes sets of indices and their least elements.
`HasChain` is the pattern itself, as a reference (`HasChainAt` of the calls at
given positions). `ChainRule` composes them with
the tracker: processes with descriptor tables make socket, connect, dup and
execve calls (that side is the kernel's, marked external), the probes report
them, and `verdict` is what the rule said at an execve. `close` and process exit
change the truth and are not reported, as in the code; `life` tells the
processes that use a pid one after the other apart. dup3 is the dup2 case of
`IsDup`; execveat that of `IsExecution`.

### Dedup
`admit`, with its sweep, is `Fold` or `Emit`. Ghosts remember per key when it
was last emitted and what was folded since; `outcome` is what the last call
decided, next to what was true before it. `dedupKey` keeps the arguments the
code keeps. A disabled deduper (window 0) admits everything and is not modelled.

### Storyline
`Observe` is one event, `Correlate` one alert raised on it. `ancestry`,
`storyFor`, `merge` and `addStep` are operators with the code's order of
effects; `merge` shifts the offsets of the absorbed story (`Shifted`), sorts the
steps of both by offset (`SortSteps`) and adds them one by one to an empty one
(`Refit`). Offsets and shift are each cut to milliseconds (`Millis`, `Milli`
stamps to one), as in the code. An event may be up to `Skew` older than the
latest, `now`: everything `Observe` and `Correlate` decide goes by the event's
own stamp. A storyline is a record in a sequence; an absorbed one remembers by
which, so that properties can follow it to its `Survivor` (the code forgets it).
A step remembers its stamp, and how often it was shifted; the code keeps neither.
The loops are recursive functions. The process tree is the kernel's; `Exit`
reparents to init. Not modelled: changes of `comm`, the text of the alerts.

### Rules, Engine
`Rules` has the rules that judge one event by itself as operators that return
the finding, if there is one, and the arguments it adds. A path is its spelling
and the answers the rules get about it (absolute, which entry of the watch list,
whose `/proc` entry). `Engine` is `Evaluate`: `EvaluateSelf` is the early
return, `EvaluateBegin` observes and records, `RuleSilent` and `RuleAlerts` are
one rule's turn in the order of the registry, `EvaluateReturns` hands over the
slice. It extends `Storyline` and instantiates `Tracker` and `Dedup` on the same
`now` and with the same `Skew`: all three go by the stamp of the event, which may
be late. `args` is the event's one map of arguments, which every alert of the
event refers to; `Written` is the map after a
rule added its own. `Config.Stat` answers anything in
`StatResults`, at the time of the evaluation and not of the execve, as the
comment at `evalSuidExec` concedes. Processes follow a `Script`, a sequence of
alternatives for each, in any interleaving.

### LossyChannel, Loader, Pipeline
`Loader` is `New` and `Close` of the collector: `CallReturns` and `CallFails` are
its calls in order, `Attach` and `SkipAbsent` the loop of `attachAll`, `Detach`
and `DetachFails` the loop over the links. `Pipeline` extends it, because probes
run from the moment their tracepoint is attached, before `New` is done and until
the link is closed: an event belongs to a tracepoint that is attached, and may be
the agent's own (`should_skip` lets it through while the config map does not hold
the agent's TGID). When `New` fails, the deferred `Close` undoes what it did, and
a link that cannot be closed does not keep the others.

`Pipeline` has one action per step that another CPU or goroutine can come
between: `Reserve`, `Stamp`, `Count`, `Submit` on each CPU; the closer's two
branches; `Read`, the handler's `Enqueue`, `DiscardMalformed`, `RunReturns`,
`CloseQueue` in the collector goroutine; `Process`, `Finish`, `CloseCollector`
in main. `LossyChannel` is the abstract specification: a FIFO channel that may
refuse at the entrance and give up inside, counting both. `ImplementsChannel`
is the refinement: the channel's content is queue, then hand, then ring.

### Lifecycle
`run` from its first opening to its return: the deferred calls are a stack, a
failed call unwinds it. `Dashboard.Close` is split where it waits and where it
paints; the painter renders (under the lock) and writes (outside it) in two
steps. The terminal is what the last frame shows, whether the summary is on it,
and the cursor. All combinations of `--dashboard`, `--verbose`, replay and
colour are initial states. A write to the debug log may fail at any time and
succeed the next; that is more than a real one can do, since its encoder keeps
the first error (`Capture` has that).

### Capture
A log file over several runs of the agent. The file is a sequence of the pieces
that can be told apart: the whole text of a record, a part of it, a newline.
`Open` appends; `Write` is record and newline in one unbuffered write;
`WriteFails` leaves a piece and the encoder's error, after which `WriteRefused`;
`Close` syncs an alert log (the sync may fail) and not a capture. `Killed` and
`PowerLoss` are the faults: a kill leaves a piece of the line, a loss of power
cuts anything after the durable part. The reader is `ReadRecords` with `replay`
around it, a step per line, also while a run is writing. Ghosts: `acked` are the
records whose write returned nil, `settled` the alerts in the file when a run
synced and closed it.

### Dashboard
The totals, the history and the last chain of the `Dashboard`, the snapshot of
`metricsSource`, and `Render`: one action per round of its loop, since the lock
is released between rounds and `Write` may come in between. A frame is the
numbers it tells, the alerts of its feed, the steps of its story, and the number
of its lines, panel by panel as the code writes them (`wrapChips` counts bytes,
as the code does). The main goroutine takes events, writes their alerts (a
chain's right after the alert that completes it), and refreshes the snapshot,
after each event in a replay and on a tick in a live run. A replayed capture is
a regular file, so its progress is known. Lines are the newlines of the frame: a
terminal narrower than the 76 columns the panels are laid out for would wrap
them, which is not counted. How the painter starts and stops is in `Lifecycle`.

### PidFilter
The walk of `/proc` is a step per process, with forks and exits between them;
`Seed` is the fixed point; `Allow` filters events made any time before. init
alone has no parent: kernel threads are left out.

## 3. The runs

Passing runs (bounds are in the `.cfg` files). Where two statements are the two
halves of one promise, each has its own definition and comment, and the run
checks their conjunction: `ExactlyOncePerWindow` and `NoFoldIsLost` of `Dedup`,
`ReportsEachTacticOnce`, `TimelineTells` and `Bounded` of `Storyline`,
`CountersAddUp` and `ProbesAsClaimed` of `Pipeline`, `LeavesNothingBehind` of
`Lifecycle`, `FitsByGivingUpLeast` of `Dashboard`; `PROJECT.json` has a mutation
for each half (of `TimelineTells`, for the oldest story and for the offsets: a
merge that forgets to sort takes more alerts to be seen). `TypeOK` says what the variables of a module hold; it is part of `Bounded`
in `Dedup` and `Storyline`, is proved there, for `Tracker` and for `Dashboard`,
and can be added to the INVARIANTS of the other runs.

| Run | Shows | Bounds, and why they are enough |
|---|---|---|
| `tracker` | bounds in space and time; a rule sees the latest calls, without a gap, and all inside the window but for the skew | 4 processes (interchangeable, so up to symmetry) with room for 3, so capacity is met; 7 instants against a TTL, window and interval of 2, so an entry can expire, be swept late, and be followed by others; skew 1, which makes the unsigned subtraction wrap |
| `chain` | rule and tracker are sound for the first user of a pid and complete for every one, against what the process did | 8 calls where a shell takes 7, and depth 7: one call of a predecessor, or a retry, makes the history overflow. Two instants, further apart than the window (its exact edge is met in `tracker`) |
| `dedup` | once per window, no more and no less; folds are carried and accounted for | 3 keys in a table of 2, so it is dropped at capacity; 6 instants, past the retention of 2 windows of 2; skew 1 |
| `story` | membership, sums and re-raising through merges and sweeps; the timeline is in order and tells when, as far as milliseconds and skew allow; logins stay apart; lineage bounded | two logins under one sshd, one of them three processes deep with an ancestry of 2, so that alerts at both ends open two stories and one between merges them; lineage of 2, so the sweep clears it; a shell that exits. Instants 1, 3 and 4 with 2 to a millisecond: offsets are cut, a merge puts a step before an earlier one, and 2 slots make it evict. A skew of 2: alerts come late, lie behind the beginning of their story, and revive lapsed ones. Out of reach with 3 alerts: a step shifted twice, and a merge in which the sort alone decides what is evicted; these are left to the theorem |
| `engine` | storylines count what the log folds; every attack chain is returned; rules' keys stay apart | all four rules; a shell reading secrets and its child opening a reverse shell to a setuid binary, twice, so that two rules alert on one event and repeats are folded; a storyline window shorter than the folding window, so that a folded alert completes a chain; two instants and a skew as large as their distance, so events come in any order |
| `pipeline` | accounting, counters, drain, refinement; the agent never sees its own events, a collector that came up watches every mandatory tracepoint, one that failed or was closed leaves nothing attached that could be detached, and the closer's race on the nil reader needs a failed read; shutdown completes, the ring drains | 2 CPUs, ring of 2, queue of 1, 4 events: both limits are met at once, one record is malformed, a read may fail. 3 tracepoints, one of them optional, so one can be absent, one fail after another was attached; every call of `New` and `Close` may fail |
| `lifecycle` | summary, final frame, cursor, nothing left open; a signal brings run to its end | 2 alerts, every call may fail, every combination of flags |
| `scope` | only descendants, and all that were there throughout | a chain of three under the root and one process to come |
| `capture` | a single run's capture reads back however it ended; a replay delivers what stands in the file, in order; a tear costs at most one acknowledged record; alerts of a run that stopped and synced survive | 5 records in 3 runs with 3 tears: a run writes before and after the one that is cut, and a run can start on a torn line twice; one record has a syscall this build cannot name |
| `dashboard` | every frame is one moment, fits a terminal of usable height, gives up rows in order and only for room; the final frame has the summary's numbers; fitting ends | two streams that overflow feed, history and story, with alerts below `--min-severity`, a rule not in the list and two processes of one pid; terminals lower than, as low as and a little higher than the usable height, narrow and wide. The minimal rows are the code's, the maximal ones smaller, so that fewer alerts reach them |

`CHECK_DEADLOCK FALSE` is set where the system really stops: the program ends
(`Pipeline`, `Lifecycle`, `Dashboard`), or the bounds on calls, events and runs
are used up (`ChainRule`, `Storyline`, `PidFilter`, `Engine`, `Capture`).

Runs that find a disagreement between a statement of the repository and the code
(each is a finding in `PROJECT.json`, with the statement quoted):

| Run | What happens |
|---|---|
| `lifecycle_hang` | with `--dashboard`, a failed opening makes `run` hang in `Close` |
| `capture_quiet` | a run appends to a torn last line; the replay drops the torn record and the complete one behind it, and reports success |

Statements of the repository that the models contradict as well, without a run
of their own. The definition named states the sentence; the change to a `.cfg`
of the project makes TLC show the behaviour.

| Definition | Sentence | How to see it |
|---|---|---|
| `Tracker!WindowFaithful` | `detect/tracker.go:29`, the TTL exceeds the longest window (`--window` is not checked against it) | `MCTracker.cfg` with `Window = 4` |
| `ChainRule!FiresOnlyOnChain` | `detect/tracker.go:210`, Forget is called at exit, so that a recycled pid cannot trigger a phantom match (nothing calls it) | in `MCChainRule.cfg` |
| `ChainRule!NoMissedShell` | `detect/engine.go:38`, `IgnoreLoopback` suppresses the rule for connections to 127.0.0.0/8 (a first local dial also hides a later remote shell) | `MCChainRule.cfg` with `Depth = 12`, `MaxTime = 1`, `Stamps = {1}`, `Dests = {"lo", "remote"}`, `IgnoreLoopback = TRUE`, `MaxCalls = 9`, `MaxLives = 1` |
| `ChainRule!FiresOnlyIfEstablished` | `bpf/krnlsentry.bpf.c:744`, the chain rule does not fire on connections that never established | `MCChainRule.cfg` with `Depth = 8`, `MaxTime = 1`, `Stamps = {1}`, `FDs = {0, 1, 3, 4}`, `MaxSockets = 2`, `MaxLives = 1` |
| `ChainRule!ConfirmedMeansSocket` | `detect/revshell.go:119`, a confirmed match is not a separately redirected file | the same changes |
| `Storyline!SpanIsReported` | `README.md:249`, a tree that spans the threshold is reported (a merge may pass it silently) | `MCStoryline.cfg` with `PIDs = {3, 10, 20, 30, 40}`, `Tree <- OneLogin`, `Talkers = {10, 20, 30}`, `Mortal = {}`, `UseLookup = FALSE`, `Window = 2`, `MaxAncestry = 4`, `MaxLineage = 5`, `MaxTime = 4`, `MaxAlerts = 4` |
| `Storyline!PivotalNeverEvicted` | `detect/storyline.go:152`, pivotal steps are never evicted | as a PROPERTY, the same changes |
| `Storyline!OneIdPerStory` | `detect/alert.go:128`, one equality filter finds a whole story | the same changes |
| `Storyline!SessionsApart` | `README.md:241`, each login is its own scope (in a replay: no lookup; or once an sshd that has exited was swept from the lineage, while a shell's cached parent still names it) | `MCStoryline.cfg` with `UseLookup = FALSE`; for the second, `PIDs = {3, 11, 12, 20, 40}`, `Tree <- TwoShells`, `Talkers = {12, 20}`, `Mortal = {3}`, `MaxAncestry = 4`, `MaxLineage = 9`, `Stamps = {1, 2, 4}`, `Skew = 0`, `MaxAlerts = 6` |
| `Storyline!ExpiredIsCollected` | `detect/storyline.go:432`, an expired story is left for the sweep to collect (an event behind the latest finds it open again; its processes may then be in another story too) | in `MCStoryline.cfg` |
| `Pipeline!GlobalOrder` | `bpf/krnlsentry.bpf.c:85`, the ring preserves global order (stamps are taken after the reservation) | in `MCPipeline.cfg` |
| `Pipeline!CloserIsHarmless` | `ebpfloader/loader.go:246`, closing can only find the reader closed (it may be nil) | in `MCPipeline.cfg` |
| `PidFilter!MissedIsPickedUp` | `cmd/krnlsentry/pidfilter.go:85`, what the walk missed is picked up at the next syscall | in `MCPidFilter.cfg` with a pid 6 |
| `Dashboard!NeverScrolls` | `output/dashboard.go:339`, one line is spare so that a frame does not scroll (`Paint` writes one newline more than the frame has) | in `MCDashboard.cfg` |
| `Dashboard!MetricsDoNotDrift` | `output/dashboard.go:68`, reading the metrics at paint time keeps the display from drifting (it reads a snapshot) | in `MCDashboard.cfg` |

### Fairness
`Pipeline`: weak fairness of each CPU's running probe (a probe is not preempted
and has no loop), of the collector, the closer and main (the Go scheduler runs
what can run). Nothing forces a probe to fire, a signal to arrive or a read to
fail. `Lifecycle`: weak fairness of main and of the painter's steps, and strong
fairness of its `Stop`: between two frames `select` sees the closed channel, the
refresh interval is longer than a paint, and ready cases are chosen at random.
A capture need not end, but its next record arrives; a replay looks for the
signal before each. `Dashboard`: weak fairness of `Render`, since a goroutine
that renders waits for nothing but the lock, which is held for a bounded time.
The other modules state safety only.

## 4. The proofs

Each theorem holds for all constants that satisfy the named assumptions of its
module, so for any number of processes, keys, events, runs, stories and any
sizes of tables. Every safety property that a passing run checks is proved, four
of them under a hypothesis that is named in the theorem and discussed below
(`RulesSeeTheWindow`, `NoShellIsMissed`, `LoginsStayApart`, `FramesFit`). A
property is seldom inductive by itself, and what each needs is said with it.

`ChainRuleProofs`, the tracker: `TypeCorrect`, `MemoryBounded`, `StaleHistoriesGo`,
`HistoriesOrdered`, and `WithinExact` (for stamps in order). `IInv` adds to the
types and bounds what makes them inductive: no `lastSeen` and no stamp is ahead
of `now`, and no process is further behind the last sweep than the TTL. The
bound on stale histories does not follow from itself: it needs where the last
sweep was. `RulesSeeTheWindow` is `WindowFaithful` under the hypothesis `Window
<= TTL`, which the comment at `tracker.go:29` promises and no code enforces.
`LogInv` says that a history is an end of the log of the calls really made, and
that what of the log it lacks is too old for any rule to see: a sweep removes a
process only when its latest stamp is, and `Trim` only what is beyond the depth.

`ChainRuleProofs`, the rule: `AnchorsAreExact` says that `findChain`'s greedy anchors (the
first socket, the first connect after it) lose nothing: for every history it
finds a chain exactly when there is one. It rests on `FirstIsLeast` (a nonempty
set of naturals has the element `First` chooses) and `TwoMembers` (two distinct
members of a finite set). `LaterCallsHideNothing` follows.

`ChainRuleProofs`, rule and tracker against the processes:
`ProcessesUseTheTracker` says that a behaviour of `ChainRule` is one of
`Tracker`, so that all of the above holds of it. `ProcInv` relates a process to
its trace (what it has open was opened by a call of the trace), and `EndsTrace`
says that the entries kept for a pid are an end of the calls its users made.
`FirstUserIsSound` follows without any hypothesis: as long as a pid had one user,
what the rule was shown is a part of what that process did. `NoShellIsMissed`
has the hypothesis `NothingLost`, of four parts, which the run's instance
satisfies. That the TTL covers the window and that stamps are in order is what
the tracker's own completeness needs. Fewer pids than the tracker has room for
means that no history is dropped at capacity, so that `LogIsTrace`: the
log has all that was done, as far back as the depth reaches. And loopback connections must count: with
`IgnoreLoopback` the property fails, as the table in section 3 says.

`DedupProofs`: `TableBounded`, `OneEmissionPerWindow`, `FoldsReachTheReader`.
What `admit` decides depends on the table, what the properties say on the
emissions and folds that really happened. `EntriesFaithful` ties the two for
keys in the table, `GoneForAReason` for keys that left it: their window is over,
and with folds their retention, or the table was dropped at capacity. The total
of the summary is split into what was carried by an alert, waits in the table
and was lost with a key, and each step moves amounts between these.

`EngineProofs`, the correlator, for any process tree: `MembersAgree`, `MergesAddUp`,
`ReportsWhatIsNew`, `TimelineHolds`, `TablesBounded`, and `LoginsStayApart`. One
alert may merge any number of stories, so the argument is in layers: what one
`merge` does to a store, what the loop over the merges of one alert preserves,
and last the steps of the specification. `Acyclic` gives every story a rank that
falls along absorptions, so that `Survivor` reaches a story that was not absorbed;
`StoreOK` says that `byPID` leads to such stories and into their member sets,
`TallyOK` that a story tells of the alerts filed in what it absorbed and is the
oldest of it. That open stories share no member (`OwnOK`) is so until a late
alert revives a lapsed one, and `OwnUnlessLate` says just that: as long as no
alert was late, what `storyFor` finds open at the event's stamp is what is open
at the latest (`AsOf`). `MembershipExact` has the same condition in its second
half. For the timeline, `Fits` says of the steps of a story that there are not
too many, that each tells when it happened (`Tell`: to a millisecond, one more
for each shift, and the skew), and that none stands behind an offset larger by
a millisecond and the skew. A step is added at the end, where it belongs but for
the skew; eviction removes, and never reorders; a shift adds one truncation to
the account of each step it moves (`ShiftTells`); and the stable sort, a
permutation by ranks, leaves no disorder at all (`SortIs`). The order is that of
the offsets: by their stamps, steps of two merged stories may stand the wrong way
round, even when every event came in time. `BoundInv` is why the lineage stays
bounded although an event is walked once for each alert it raises: the walks of
an event ask for the same processes, and of the others nothing is added between
two events.
`LoginsStayApart` has the hypothesis `OwnersKnown`: the correlator has its
lookup, session owners do not exit, and the tree has no cycle. `SessionInv` then
says that what is cached is true and that a story has processes of one session.
The run's instance satisfies the hypothesis. Neither of its first two parts can
be spared: the table in section 3 says how the property fails without them.

`EngineProofs`, the composition: `EngineCorrelates` and `EngineRecords` say that a
behaviour of `Engine` is one of `Storyline` and one of `Tracker`: `Evaluate`
keeps the calling conventions under which the two were proved correct, and their
theorems hold of the ones inside the engine. `EngineInv` counts: the alerts filed
are those folded, those returned and those in the slice being built, and the
chains raised are those returned and in the slice. `FoldingHidesNothing` is then
a fact about stories: by `Acyclic` and `TallyOK` each filed alert is tallied by
one story that was not absorbed. `NoChainIsFolded` is the second count. For
`MapIsShared`, `EngineInv` says that the event's map holds no destination while
rules are still to run: the only rule that adds one is the registry's last.

`PipelineProofs`, for every attach list, number of CPUs and events, and size of
ring and queue: `ProbesComeAndGo`, `NoOwnEvents`, `SummaryIsLast`,
`SignalsNeverPanic`, `SummaryAddsUp`, and the refinement `PipelineIsAChannel`.
`ProbeInv` says how far `New` is and what of it is in the kernel: the links are
of different tracepoints of the part of the list already tried, what is attached
has a link or is stuck, and nothing is attached before the agent's TGID is
known. From the last part it follows that every record is somebody else's.
`StopInv` says who is still running: whoever finds the reader closed while Run is
running owes it to the closer, which is then gone. `RingInv` says that records
are numbered in the order of their reservations and that each running probe has
one to itself; `CountInv`, that the kernel's counter is ahead of user space by
the records counted and still in the ring. With them and `IdInv` (no number is
ahead of the probes) each step is a step of `LossyChannel` or a stutter.

`LifecycleProofs`, for every set of failing calls and any number of alerts:
`SummaryStays`, `LastFrameComplete` and `RunCleansUp`. `IInv` says where the
painter can be: gone whenever the dashboard is closed and no `Close` is in
progress, and before the final paint; and that without a dashboard there is
neither a painter nor a deferred close of one. `CleanupInv` says that what is
open has its deferred call still to come, and so has a painter nobody told to
stop, and who may have hidden the cursor.

`CaptureProofs`, for any number of records, runs and tears: `SettledAlertsStay`
(what was settled is in the durable part, which nothing shortens),
`ReplayDeliversWhatStands`, `SingleRunReadsBack` and `TearsAreTheOnlyCost`.
`ReplayInv` says that the reader is at the start of a line, that what it
delivered is what stands before it, and that records are numbered in the order
of the file; `LineAdds` is what one line contributes, and `LineEndExists` that a
line has an end, by the well-ordering of the naturals. `OneRunInv` says that the
file of a first run has one record to a line and that only its last can be torn.
`TearInv` charges each line that is glued to another, and a torn end, to a tear
of its own.

`PidFilterProofs`: `OnlyDescendants` and `WalkIsComplete`. First, `Descendants`
(sweeps over a parent map until one adds nothing) is the least set with its
seeds and the children of its members. Then `TreeInv` and `PairsInv`: the family
of the root is closed, in the kernel's tree and in every pair of process and
parent the filter still has to look at, however old; `WalkInv`: what the walk
read of a process that is still there is its parent, or it was orphaned.

`DashboardProofs`, for any streams, terminals and sizes of the panels:
`DashboardTypes`, `FramesAreSnapshots`, `ShedsOnlyForRoom`, `FramesFit` and
`LastFrameIsCurrent`. `After(k)` is the dashboard after the first `k` alerts of
the stream, as a definition of its own; `Counts` says that the state `Write`
built up, bounded history and last chain included, is `After` of the alerts
dealt with. A frame can therefore be compared with the moment it claims to show.
`Metrics` says when the snapshot is that of the summary, `Painting` that a frame
in the making has given up only what was too tall at some moment since it was
begun, and `Painted` that a finished one fits, or has nothing left to give up.
`Painting` has to survive the alerts that come in between two rounds
(`StillTall`): neither an alert nor the progress line makes a frame lower.
`FramesFit` has the hypothesis `Roomy`: the panels that are never given up fit
the height the dashboard asks for, with a row for each rule it is told or hears
of. The program's five rules and 24 lines satisfy it, and so does the first
stream of the run. Its second stream has a rule beyond the list; that frames fit
there too is shown by the run only.

Recursive functions (`Survivor`, `Refit`, `ancestry`, the sweeps of
`Descendants`, the sums of `Dedup`, the rows of `wrapChips`, `Feed`) are reasoned about by induction over a set
of naturals, from their well-ordering: that each exists, and what it computes
after each round. What the properties of the runs state is proved that way, not
what a recursive definition yields for every input.

Only model-checked: liveness under fairness (`ShutdownCompletes`, `RingDrains`,
`SignalReturns`, `RenderEnds`), which is beyond this prover, and that frames fit
where `Roomy` does not hold.

## 5. Not modelled

- How a path is matched with the watch list: the model takes the entry it
  matches. Severities, and configurations without folding or correlation.
- The console sink: it keeps no state and writes one block per alert.
- The copy of an event's fields into a `Record` and back, field by field: the
  model keeps whether the syscall is known. The verifier, the terminal queries:
  kernel and terminal I/O.
- Formatting of arguments and alerts, colours and bars of the dashboard: no
  property is about the wording.
- A pid that leaves the tree and is reused: the scope filter's set never shrinks,
  so the recycled pid stays in scope. Likewise a descriptor that is closed and
  reused between the calls of a chain (`ConfirmedMeansSocket` above).
- Stamps that go back without a limit, as concatenated captures have them: in
  every module an event is at most `Skew` behind the latest. The theorems hold
  for any `Skew`; what they promise grows weaker with it.
- A replay that writes its debug log into the file it reads. Nothing in `run`
  compares the two paths; the replay would read what it appends.
- The shared history that `Record` returns outside the mutex: one goroutine
  evaluates, and no code creates a second.

## 6. Plan

1. Done: `Tracker`, `RevShell`, `ChainRule`, `Dedup`, `Storyline`, `Rules` and
   `Engine`, `Loader`, `Pipeline` with `LossyChannel`, `Lifecycle`, `Capture`,
   `Dashboard`, `PidFilter`; every safety property the runs check proved, with the
   refinements `PipelineIsAChannel`, `ProcessesUseTheTracker`,
   `EngineCorrelates` and `EngineRecords`.
2. What could follow: that `Engine` uses the deduper as `Dedup` does; `FramesFit`
   from the height a frame really needs instead of `Roomy`.
