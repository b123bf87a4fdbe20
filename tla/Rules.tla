------------------------------- MODULE Rules -------------------------------
(***************************************************************************)
(* The rules that judge one event by itself (detect/privesc.go,            *)
(* sensitivefile.go, ptrace.go), as operators.  An event is                *)
(*   [pid, uid, comm, sc, exit, arg0, arg1, arg2, ret, path, dest]         *)
(* and a rule returns a set, empty or with its one finding                 *)
(* [mitre, notes]: the technique, and the arguments the rule adds to those *)
(* the event was decoded with.                                             *)
(*                                                                         *)
(* A path is [name, abs, watch, target]: its spelling, whether it begins   *)
(* with "/", the entry of the watch list its cleaned form matches ("no"    *)
(* for none), and the pid a /proc/<pid>/ prefix of it names, 0 for "self". *)
(***************************************************************************)
EXTENDS Integers

CONSTANTS
    Debuggers,      \* Config.DebuggerComms
    IgnoreSelfProc  \* Config.IgnoreSelfProc

NoTarget == -1
NoPath == [name |-> "", abs |-> FALSE, watch |-> "no", target |-> NoTarget]

NoNotes == [n \in {} |-> ""]
Finding(mitre, notes) == {[mitre |-> mitre, notes |-> notes]}

\* Writing notes into a map of arguments.
Written(notes, into) ==
    [n \in DOMAIN notes \cup DOMAIN into |->
        IF n \in DOMAIN notes THEN notes[n] ELSE into[n]]

-----------------------------------------------------------------------------
(* privesc.go *)

uidUnchanged == -1

\* The identities a call asks for: -1 leaves one alone.
RequestedIDs(e) ==
    CASE e.sc \in {"setuid", "setgid"} -> {e.arg0}
      [] e.sc \in {"setresuid", "setresgid"} -> {e.arg0, e.arg1, e.arg2} \ {uidUnchanged}
      [] OTHER -> {}

\* evalSuidExec, given which of the two bits stat reports for the path: none
\* when it fails.  Relative paths are not judged.
evalSuidExec(e, stat) ==
    IF e.path.abs /\ stat # {} THEN Finding("T1548.001", [suid_bits |-> stat]) ELSE {}

\* Root asking to become root is not an escalation.
evalPrivilegeEscalation(e, stat) ==
    IF e.exit \/ e.uid = 0 THEN {}
    ELSE IF e.sc \in {"execve", "execveat"} THEN evalSuidExec(e, stat)
    ELSE IF 0 \in RequestedIDs(e) \/ e.sc = "capset" THEN Finding("T1548", NoNotes)
    ELSE {}

-----------------------------------------------------------------------------
(* sensitivefile.go *)

\* The watch list: the technique an entry is reported as.
sensitivePaths(watch) ==
    CASE watch = "shadow" -> "T1003.008"
      [] watch \in {"proc-mem", "proc-maps"} -> "T1003.007"
      [] watch \in {"sudoers", "sudoers.d"} -> "T1552"
      [] watch \in {"ssh-key", "gnupg"} -> "T1552.004"
      [] watch \in {"aws", "docker", "kube"} -> "T1552.001"

\* What procTargetPID adds, and whether the entry is the process's own.
OwnEntry(e) == e.path.target \in {0, e.pid}

ProcNotes(e) ==
    IF e.path.target = NoTarget THEN NoNotes
    ELSE IF OwnEntry(e) THEN [target_pid |-> e.path.target, target_self |-> TRUE]
    ELSE [target_pid |-> e.path.target]

evalSensitiveFileAccess(e) ==
    IF \/ e.exit \/ e.sc # "openat" \/ e.path.watch = "no"
       \/ OwnEntry(e) /\ IgnoreSelfProc
    THEN {}
    ELSE Finding(sensitivePaths(e.path.watch),
                 Written([matched_pattern |-> e.path.watch], ProcNotes(e)))

-----------------------------------------------------------------------------
(* ptrace.go *)

\* POKETEXT, POKEDATA, POKEUSER, SETREGS, SETFPREGS, ATTACH, SETREGSET, SEIZE.
injectionRequests == {4, 5, 6, 13, 15, 16, 16901, 16902}

evalPtraceInjection(e) ==
    IF \/ e.exit \/ e.sc # "ptrace"
       \/ e.arg0 \notin injectionRequests
       \/ e.arg1 = e.pid
       \/ e.comm \in Debuggers
    THEN {}
    ELSE Finding("T1055.008", [action |-> e.arg0])

-----------------------------------------------------------------------------
(* events/event.go: the arguments an event is decoded with.  Only those the *)
(* deduplicator looks at are kept; none of them is decoded at a return.    *)

decodeArgs(e) ==
    IF e.exit THEN NoNotes
    ELSE CASE e.sc \in {"execve", "execveat", "openat"} -> [path |-> e.path.name]
           [] e.sc = "setuid" -> [target_uid |-> e.arg0]
           [] e.sc = "setgid" -> [target_gid |-> e.arg0]
           [] e.sc = "setresuid" -> [euid |-> e.arg1]
           [] e.sc = "setresgid" -> [egid |-> e.arg1]
           [] e.sc = "ptrace" -> [request |-> e.arg0, target_pid |-> e.arg1]
           [] OTHER -> NoNotes
=============================================================================
