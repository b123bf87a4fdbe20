------------------------------ MODULE MCEngine ------------------------------
(* Small instance of Engine: a login shell 10 that reads secrets, and its   *)
(* child 20 that dials out, redirects its streams and execs twice.         *)
EXTENDS Engine, TLC

MCTree == (10 :> 1) @@ (20 :> 10) @@ (5 :> 1)

Ev(p, sc) == [pid |-> p, uid |-> 1000, comm |-> "tool", sc |-> sc, exit |-> FALSE,
              arg0 |-> 0, arg1 |-> 0, arg2 |-> 0, ret |-> 0, path |-> NoPath, dest |-> ""]
Opens(p, path) == [Ev(p, "openat") EXCEPT !.path = path]
Dup(p, fd) == [Ev(p, "dup2") EXCEPT !.arg0 = 3, !.arg1 = fd]

Shadow == [name |-> "/etc/shadow", abs |-> TRUE, watch |-> "shadow", target |-> NoTarget]
OwnMaps == [name |-> "/proc/self/maps", abs |-> TRUE, watch |-> "proc-maps", target |-> 0]
Sudo == [name |-> "/usr/bin/sudo", abs |-> TRUE, watch |-> "no", target |-> NoTarget]

Snoop == {Opens(10, Shadow), Opens(10, OwnMaps),
          [Ev(10, "setresuid") EXCEPT !.arg0 = -1, !.arg1 = 0, !.arg2 = -1],
          [Ev(10, "ptrace") EXCEPT !.arg0 = 16, !.arg1 = 20]}

MCScript ==
    (10 :> <<Snoop, {Opens(10, Shadow)}>>) @@
    (20 :> <<{Ev(20, "socket")}, {[Ev(20, "connect") EXCEPT !.dest = "remote"]},
             {Dup(20, 0)}, {Dup(20, 1)},
             {[Ev(20, "execve") EXCEPT !.path = Sudo]},
             {[Ev(20, "execve") EXCEPT !.path = Sudo]}>>) @@
    (5 :> <<{Opens(5, Shadow)}>>)

MCKinds == Kinds
MCStats == {{}, {"setuid"}}
=============================================================================
