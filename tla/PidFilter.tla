----------------------------- MODULE PidFilter -----------------------------
(***************************************************************************)
(* The scope of --pid, cmd/krnlsentry/pidfilter.go: a set of processes     *)
(* seeded by a walk of /proc and grown by the events of their children.    *)
(*                                                                         *)
(* The walk is not atomic: processes fork and exit while it reads one      *)
(* after the other.  The probes are attached before it starts, so events   *)
(* wait in the pipeline meanwhile.  The process tree is the kernel's; pids *)
(* are not reused here.                                                    *)
(***************************************************************************)
EXTENDS Integers, Sequences, FiniteSets

CONSTANTS
    PIDs,      \* natural numbers; 1 is init
    Root,      \* --pid
    Tree,      \* the processes at the start, each with its parent
    MaxEvents  \* bound: events of a run

\* init alone has no parent (kernel threads are left out).
ASSUME PidFilterAssumption ==
    /\ PIDs \subseteq Nat \ {0} /\ IsFiniteSet(PIDs)
    /\ Root \in DOMAIN Tree \ {1} /\ 1 \in DOMAIN Tree /\ DOMAIN Tree \subseteq PIDs
    /\ Tree[1] = 0 /\ \A p \in DOMAIN Tree \ {1} : Tree[p] \in DOMAIN Tree
    /\ MaxEvents \in Nat

VARIABLES
    alive,    \* the processes that exist
    parent,   \* pid -> the tgid of real_parent, 0 for a pid not used yet
    family,   \* ghost: Root and every process that descends from it
    queue,    \* events not yet filtered: [pid, ppid]
    made,     \* events made so far
    phase,    \* "list", "read" or "run"
    listed,   \* what ReadDir returned
    unread,   \* the processes of listed whose stat is still to be read
    parents,  \* the map built by the walk, 0 for no entry
    tracked,  \* pidFilter.tracked
    outcome   \* the last event filtered: [pid, ppid, allowed]

kernelVars == <<alive, parent, family>>
walkVars == <<phase, listed, unread, parents>>
vars == <<kernelVars, queue, made, walkVars, tracked, outcome>>

NoOutcome == [pid |-> 0, ppid |-> 0, allowed |-> FALSE]

\* Everything that descends from S in the parent relation par.
Descendants(S, par) ==
    LET grow[n \in 0..Cardinality(PIDs)] ==
          IF n = 0 THEN S
          ELSE LET g == grow[n - 1] IN g \cup {p \in PIDs : par[p] \in g}
    IN  grow[Cardinality(PIDs)]

\* A live run walks /proc; a replay starts from the root alone.
Init ==
    /\ alive = DOMAIN Tree
    /\ parent = [p \in PIDs |-> IF p \in DOMAIN Tree THEN Tree[p] ELSE 0]
    /\ family = Descendants({Root}, parent)
    /\ queue = <<>> /\ made = 0
    /\ phase \in {"list", "run"}
    /\ listed = {} /\ unread = {} /\ parents = [p \in PIDs |-> 0]
    /\ tracked = {Root}
    /\ outcome = NoOutcome

-----------------------------------------------------------------------------
(* The kernel. *)

Fork(p) ==
    /\ p \in alive
    /\ \E c \in PIDs \ {1} :
          /\ parent[c] = 0
          /\ alive' = alive \cup {c}
          /\ parent' = [parent EXCEPT ![c] = p]
          /\ family' = IF p \in family THEN family \cup {c} ELSE family
    /\ UNCHANGED <<queue, made, walkVars, tracked, outcome>>

Exit(p) ==
    /\ p \in alive \ {1}
    /\ alive' = alive \ {p}
    /\ parent' = [q \in PIDs |-> IF parent[q] = p THEN 1 ELSE parent[q]]
    /\ UNCHANGED <<family, queue, made, walkVars, tracked, outcome>>

\* A monitored syscall: the event carries the parent of that moment.
Syscall(p) ==
    /\ p \in alive \ {1} /\ made < MaxEvents
    /\ made' = made + 1
    /\ queue' = Append(queue, [pid |-> p, ppid |-> parent[p]])
    /\ UNCHANGED <<kernelVars, walkVars, tracked, outcome>>

-----------------------------------------------------------------------------
(* seedFromProc. *)

ReadDir ==
    /\ phase = "list" /\ phase' = "read"
    /\ listed' = alive /\ unread' = alive
    /\ UNCHANGED <<kernelVars, queue, made, parents, tracked, outcome>>

\* readPPID: the second field after the name; a process that is gone by now
\* is skipped.
StatPPID(p) == parent[p]

readPPID(p) ==
    /\ phase = "read" /\ p \in unread
    /\ unread' = unread \ {p}
    /\ parents' = IF p \in alive THEN [parents EXCEPT ![p] = StatPPID(p)] ELSE parents
    /\ UNCHANGED <<kernelVars, queue, made, phase, listed, tracked, outcome>>

\* The sweeps over the map, repeated until nothing is added; one pass may
\* find only the children of what was tracked before it.
SeededOnePass == tracked \cup {p \in PIDs : parents[p] \in tracked}
Seeded == Descendants(tracked, parents)

Seed ==
    /\ phase = "read" /\ unread = {}
    /\ tracked' = Seeded
    /\ phase' = "run"
    /\ UNCHANGED <<kernelVars, queue, made, listed, unread, parents, outcome>>

-----------------------------------------------------------------------------
(* Allow. *)

InScopeBySibling(e) ==
    e.pid \in tracked \/ e.ppid \in tracked \/ e.ppid \in {parents[q] : q \in tracked}
InScope(e) == e.pid \in tracked \/ e.ppid \in tracked

Allow ==
    LET e == Head(queue) IN
    /\ phase = "run" /\ queue # <<>>
    /\ queue' = Tail(queue)
    /\ tracked' = IF InScope(e) THEN tracked \cup {e.pid} ELSE tracked
    /\ outcome' = [pid |-> e.pid, ppid |-> e.ppid, allowed |-> InScope(e)]
    /\ UNCHANGED <<kernelVars, made, walkVars>>

Next ==
    \/ \E p \in PIDs : Fork(p) \/ Exit(p) \/ Syscall(p) \/ readPPID(p)
    \/ ReadDir \/ Seed \/ Allow

Spec == Init /\ [][Next]_vars

-----------------------------------------------------------------------------
\* The types of the filter's state.
TypeOK ==
    /\ alive \subseteq PIDs /\ family \subseteq PIDs
    /\ parent \in [PIDs -> PIDs \cup {0}]
    /\ queue \in Seq([pid : PIDs, ppid : PIDs \cup {0}]) /\ made \in 0..MaxEvents
    /\ phase \in {"list", "read", "run"}
    /\ listed \subseteq PIDs /\ unread \subseteq listed
    /\ parents \in [PIDs -> PIDs \cup {0}]
    /\ tracked \subseteq PIDs

\* Only descendants of the root are in scope, although the walk reads a
\* tree that changes under it and events are filtered long after they were
\* made: no process is pulled in through a parent it had at another time.
ScopeSound == tracked \subseteq family

\* A process that was there when the walk began, under a root and ancestors
\* that were there as well and outlived it, is in scope when it ends,
\* whatever forked and exited in between and in whatever order it was read.
SeedComplete ==
    phase = "run" /\ listed # {} =>
        \A p \in Descendants({Root} \cap listed \cap alive,
                              [q \in PIDs |-> IF q \in listed \cap alive THEN parent[q] ELSE 0]) :
            p \in tracked

\* What seedFromProc says: what the walk missed is picked up by Allow the
\* next time that process makes a syscall (its parent being alive).
MissedIsPickedUp ==
    listed # {} /\ outcome.pid \in family /\ outcome.ppid \in family => outcome.allowed
=============================================================================
