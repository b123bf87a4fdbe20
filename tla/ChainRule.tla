----------------------------- MODULE ChainRule -----------------------------
(***************************************************************************)
(* The reverse-shell detection from end to end: processes making syscalls, *)
(* the probes that report them, the tracker and the rule.                  *)
(*                                                                         *)
(* The process side is the kernel's: a descriptor table whose entries      *)
(* refer to sockets or files, and pids that are reused once a process has  *)
(* exited.  It is not in the repository; it is what the probes of          *)
(* bpf/krnlsentry.bpf.c observe and says what really happened, so that     *)
(* what the rule reports can be compared with it.                          *)
(***************************************************************************)
EXTENDS Tracker, RevShell

CONSTANTS
    FDs,             \* descriptors: the standard ones and a few more
    Dests,           \* destinations of connect
    IgnoreLoopback,  \* --ignore-loopback
    Stamps,          \* bound: the instants at which processes act
    MaxSockets,      \* bound: sockets a process opens
    MaxCalls,        \* bound: tracked events of one pid
    MaxLives         \* bound: successive processes that use one pid

\* The events the probes fill in; fields a probe leaves alone are zeroed.
ProbedCalls ==
    [sc : {"socket", "connect", "dup2", "execve"}, exit : BOOLEAN,
     arg0 : FDs \cup {0}, arg1 : FDs \cup StdFDs, ret : FDs \cup {0, -1},
     dest : Dests \cup {""}]

ASSUME ChainAssumption ==
    /\ FDs \subseteq Nat /\ Dests \subseteq STRING \ {""}
    /\ Stamps \subseteq Times /\ ProbedCalls \subseteq Calls

VARIABLES
    life,     \* [n, past]: the pid is used by its n-th process, and made
              \* past tracked calls before that
    fds,      \* descriptor -> what it refers to
    socks,    \* the sockets of the process, in the order they were opened
    pending,  \* the syscall the process is in, or "none"
    trace,    \* the tracked calls made under the pid
    verdict   \* what the rule said of the last execve, and what was true

chainVars == <<life, fds, socks, pending, trace, verdict>>
allVars == <<vars, chainVars>>

\* What a descriptor can refer to: nothing, a file, or the n-th socket, and
\* then whether it was made a copy of it after connect was called on it.
Closed == [kind |-> "closed"]
File == [kind |-> "file"]
Sock(n, late) == [kind |-> "sock", n |-> n, late |-> late]

\* One of them.
Call(sc, exit, arg0, arg1, ret, dest) ==
    [sc |-> sc, exit |-> exit, arg0 |-> arg0, arg1 |-> arg1, ret |-> ret, dest |-> dest]

NoVerdict == [made |-> FALSE]

\* A process starts with its standard streams open.
StartFDs == [fd \in FDs |-> IF fd \in StdFDs THEN File ELSE Closed]

ChainInit ==
    /\ Init
    /\ life = [p \in PIDs |-> [n |-> 1, past |-> 0]]
    /\ fds = [p \in PIDs |-> StartFDs]
    /\ socks = [p \in PIDs |-> <<>>]
    /\ pending = [p \in PIDs |-> "none"]
    /\ trace = [p \in PIDs |-> <<>>]
    /\ verdict = NoVerdict

-----------------------------------------------------------------------------
\* One event reaches the engine: the tracker records it.
Emit(p, c, t) ==
    /\ Len(trace[p]) < MaxCalls
    /\ Record(p, c, t)
    /\ trace' = [trace EXCEPT ![p] = Append(@, [call |-> c, ts |-> t])]

SocketEnter(p, t) ==
    /\ pending[p] = "none" /\ Len(socks[p]) < MaxSockets
    /\ Emit(p, Call("socket", FALSE, 0, 0, 0, ""), t)
    /\ pending' = [pending EXCEPT ![p] = "socket"]
    /\ verdict' = NoVerdict
    /\ UNCHANGED <<life, fds, socks>>

\* socket returns the lowest free descriptor, or fails.
SocketExit(p, t) ==
    LET free == {fd \in FDs : fds[p][fd] = Closed} IN
    /\ pending[p] = "socket"
    /\ pending' = [pending EXCEPT ![p] = "none"]
    /\ \/ /\ free # {}
          /\ Emit(p, Call("socket", TRUE, 0, 0, First(free), ""), t)
          /\ socks' = [socks EXCEPT ![p] = Append(@, [opened |-> Len(trace[p]),
                                                       dest |-> "", up |-> FALSE])]
          /\ fds' = [fds EXCEPT ![p][First(free)] = Sock(Len(socks[p]) + 1, FALSE)]
       \/ /\ Emit(p, Call("socket", TRUE, 0, 0, -1, ""), t)
          /\ UNCHANGED <<socks, fds>>
    /\ UNCHANGED <<life, verdict>>

\* A socket that is not connected may be dialled, again if that failed.
ConnectEnter(p, t) ==
    \E fd \in FDs, d \in Dests :
        /\ pending[p] = "none"
        /\ fds[p][fd].kind = "sock" /\ ~socks[p][fds[p][fd].n].up
        /\ Emit(p, Call("connect", FALSE, fd, 0, 0, d), t)
        /\ socks' = [socks EXCEPT ![p][fds[p][fd].n].dest = d]
        /\ pending' = [pending EXCEPT ![p] = "connect"]
        /\ verdict' = NoVerdict
        /\ UNCHANGED <<life, fds>>

\* connect returns.  The process has one connect in progress: the socket it
\* is for is the one with a destination that is the latest to be dialled.
ConnectExit(p, t) ==
    \E ok \in BOOLEAN :
        /\ pending[p] = "connect"
        /\ pending' = [pending EXCEPT ![p] = "none"]
        /\ Emit(p, Call("connect", TRUE, 0, 0, IF ok THEN 0 ELSE -1, ""), t)
        /\ LET fd == trace[p][Len(trace[p])].call.arg0
           IN  socks' = [socks EXCEPT ![p][fds[p][fd].n].up = ok]
        /\ UNCHANGED <<life, fds, verdict>>

Dup(p, t) ==
    \E old \in FDs \ StdFDs, new \in StdFDs :
        LET src == fds[p][old] IN
        /\ pending[p] = "none"
        /\ src # Closed
        /\ Emit(p, Call("dup2", FALSE, old, new, 0, ""), t)
        /\ fds' = [fds EXCEPT ![p][new] =
                      IF src.kind = "sock" THEN Sock(src.n, socks[p][src.n].dest # "")
                      ELSE src]
        /\ verdict' = NoVerdict
        /\ UNCHANGED <<life, socks, pending>>

\* close followed by open: neither is a tracked syscall, and close is not
\* even probed.  The descriptor is reused for a file.
Reopen(p, fd) ==
    /\ pending[p] = "none" /\ fd \notin StdFDs
    /\ fds[p][fd].kind = "sock"
    /\ fds' = [fds EXCEPT ![p][fd] = File]
    /\ verdict' = NoVerdict
    /\ UNCHANGED <<vars, life, socks, pending, trace>>

\* The standard streams that refer to socket n and were wired to it after
\* it was dialled.
Wired(p, n) ==
    {fd \in FDs \cap StdFDs : fds[p][fd] = Sock(n, TRUE)}

\* execve: recorded, then the rule is evaluated on the history that
\* includes it.  The truth it is compared with is read off the descriptors.
Execve(p, t) ==
    LET c == Call("execve", FALSE, 0, 0, 0, "") IN
    /\ pending[p] = "none"
    /\ Emit(p, c, t)
    /\ verdict' = [made  |-> TRUE,
                   pid   |-> p,
                   at    |-> t,
                   match |-> evalReverseShell(c, Within(entries'[p], t), IgnoreLoopback)]
    /\ UNCHANGED <<life, fds, socks, pending>>

\* The process exits and its pid is given to a new one.  No probe reports
\* an exit and nothing calls Forget: the tracker's state is unchanged.
ExitAndReuse(p) ==
    /\ life[p].n < MaxLives
    /\ life' = [life EXCEPT ![p] = [n |-> @.n + 1, past |-> Len(trace[p])]]
    /\ fds' = [fds EXCEPT ![p] = StartFDs]
    /\ socks' = [socks EXCEPT ![p] = <<>>]
    /\ pending' = [pending EXCEPT ![p] = "none"]
    /\ verdict' = NoVerdict
    /\ UNCHANGED <<vars, trace>>

ChainNext ==
    \E p \in PIDs :
        \/ \E t \in Stamps :
              \/ SocketEnter(p, t) \/ SocketExit(p, t)
              \/ ConnectEnter(p, t) \/ ConnectExit(p, t)
              \/ Dup(p, t) \/ Execve(p, t)
        \/ \E fd \in FDs : Reopen(p, fd)
        \/ ExitAndReuse(p)

ChainSpec == ChainInit /\ [][ChainNext]_allVars

-----------------------------------------------------------------------------
Fired == verdict.made /\ verdict.match.found

\* Where in the trace is what the process using p (not the pid) has done
\* within the window.
Recent(p, t) ==
    {i \in (life[p].past + 1)..Len(trace[p]) : trace[p][i].ts + Window >= t}

\* Soundness: when the rule fires on an execve, the process that called it
\* did, within the window, open a socket, then dial, then redirect two of
\* its standard streams.
FiresOnlyOnChain ==
    Fired => HasChainAt(trace[verdict.pid], Recent(verdict.pid, verdict.at))

\* Soundness for the first process that uses a pid, from its first call on.
FirstUserSound ==
    verdict.made /\ life[verdict.pid].n = 1 => FiresOnlyOnChain

\* Completeness: a process that hands two standard streams to a socket it
\* opened and dialled within the window, and that the rule is not told to
\* ignore, is reported when it executes a program, provided its history is
\* deep enough to reach back to the opening of that socket.  A history that
\* came with the pid may fill the ring, but hides nothing.
NoMissedShell ==
    verdict.made =>
        \A n \in 1..Len(socks[verdict.pid]) :
            LET p == verdict.pid
                s == socks[p][n]
            IN  (/\ Cardinality(Wired(p, n)) >= minRedirectedFDs
                 /\ trace[p][s.opened].ts + Window >= verdict.at
                 /\ Len(trace[p]) - s.opened < Depth
                 /\ ~(IgnoreLoopback /\ isLoopback(s.dest)))
                => verdict.match.found

\* What the comment at trace_connect_exit says the return probe is for: the
\* rule does not fire on connections that never established.
FiresOnlyIfEstablished ==
    Fired => \E n \in 1..Len(socks[verdict.pid]) : socks[verdict.pid][n].up

\* What the comment at chainMatch.fdConfirmed says of a confirmed match: it
\* is not a program that opened a socket and, separately, redirected a file.
ConfirmedMeansSocket ==
    Fired /\ verdict.match.fdConfirmed =>
        \E fd \in FDs \cap StdFDs : fds[verdict.pid][fd].kind = "sock"
=============================================================================
