------------------------------ MODULE RevShell ------------------------------
(***************************************************************************)
(* The reverse-shell rule of detect/revshell.go as operators on a history: *)
(* a sequence of entries [call, ts], oldest first, where a call is         *)
(* [sc, exit, arg0, arg1, ret, dest].  Only the fields the rule reads are  *)
(* kept; a destination is a value, "" where the event carries none.        *)
(***************************************************************************)
EXTENDS Integers, Sequences, FiniteSets

CONSTANT Loopback   \* the destinations isLoopback accepts

minRedirectedFDs == 2

\* events.StdFdName(fd) # "": stdin, stdout, stderr.
StdFDs == {0, 1, 2}

IsDup(sc) == sc \in {"dup2", "dup3"}
IsExecution(sc) == sc \in {"execve", "execveat"}
isLoopback(dest) == dest \in Loopback

\* The indices after k at which a syscall is entered, or returns.
Entered(h, k, sc) ==
    {i \in (k + 1)..Len(h) : h[i].call.sc = sc /\ ~h[i].call.exit}
Returned(h, k, sc) ==
    {i \in (k + 1)..Len(h) : h[i].call.sc = sc /\ h[i].call.exit}

First(S) == CHOOSE i \in S : \A j \in S : i <= j

\* The two anchors of the chain: the first socket, and the first connect
\* after it.  0 is "not found" (the code's -1).
SocketIdx(h) == IF Entered(h, 0, "socket") = {} THEN 0
                ELSE First(Entered(h, 0, "socket"))

ConnectIdx(h) == IF Entered(h, SocketIdx(h), "connect") = {} THEN 0
                 ELSE First(Entered(h, SocketIdx(h), "connect"))

\* The descriptor of the first socket call after the anchor that succeeded,
\* -1 if none did.
SocketFD(h) ==
    LET ok == {i \in Returned(h, SocketIdx(h), "socket") : h[i].call.ret >= 0}
    IN  IF ok = {} THEN -1 ELSE h[First(ok)].call.ret

\* The redirections of a standard stream that follow the connect.
RedirectionsAnywhere(h) ==
    {i \in 1..Len(h) :
        IsDup(h[i].call.sc) /\ ~h[i].call.exit /\ h[i].call.arg1 \in StdFDs}
Redirections(h) ==
    {i \in (ConnectIdx(h) + 1)..Len(h) :
        IsDup(h[i].call.sc) /\ ~h[i].call.exit /\ h[i].call.arg1 \in StdFDs}

Redirected(h) == {h[i].call.arg1 : i \in Redirections(h)}

FdConfirmed(h) ==
    SocketFD(h) >= 0 /\ \E i \in Redirections(h) : h[i].call.arg0 = SocketFD(h)

\* findChain reports a match ...
ChainFound(h) ==
    /\ SocketIdx(h) # 0
    /\ ConnectIdx(h) # 0
    /\ Cardinality(Redirected(h)) >= minRedirectedFDs

\* ... and what the match carries.
NoMatch == [found |-> FALSE]

findChain(h) ==
    IF ~ChainFound(h) THEN NoMatch
    ELSE [found       |-> TRUE,
          startTS     |-> h[SocketIdx(h)].ts,
          dest        |-> h[ConnectIdx(h)].call.dest,
          redirected  |-> Redirected(h),
          fdConfirmed |-> FdConfirmed(h)]

\* evalReverseShell, given what Within returned (hist).
evalReverseShell(c, hist, ignoreLoopback) ==
    LET chain == findChain(hist) IN
    IF \/ c.exit \/ ~IsExecution(c.sc)
       \/ hist = <<>>
       \/ ~chain.found
       \/ ignoreLoopback /\ isLoopback(chain.dest)
    THEN NoMatch
    ELSE chain

-----------------------------------------------------------------------------
\* The pattern itself, with no anchors, at the positions I of h: some socket,
\* a later connect, and after that redirections of two different standard
\* streams.
HasChainAt(h, I) ==
    \E i, j, k, l \in I :
        /\ i < j /\ j < k /\ j < l
        /\ h[i].call.sc = "socket" /\ ~h[i].call.exit
        /\ h[j].call.sc = "connect" /\ ~h[j].call.exit
        /\ IsDup(h[k].call.sc) /\ ~h[k].call.exit /\ h[k].call.arg1 \in StdFDs
        /\ IsDup(h[l].call.sc) /\ ~h[l].call.exit /\ h[l].call.arg1 \in StdFDs
        /\ h[k].call.arg1 # h[l].call.arg1

HasChain(h) == HasChainAt(h, 1..Len(h))
=============================================================================
