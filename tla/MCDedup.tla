------------------------------ MODULE MCDedup ------------------------------
(* Small instance of Dedup: three findings, one of them reported twice     *)
(* with a different volatile argument (the same key).                      *)
EXTENDS Dedup

Shadow == [rule |-> "sensitive-file", pid |-> 1, mitre |-> "T1003.008",
           syscall |-> "openat", args |-> [path |-> "shadow", dirfd |-> 3]]
ShadowAgain == [Shadow EXCEPT !.args.dirfd = 4]
Poke == [rule |-> "ptrace-injection", pid |-> 1, mitre |-> "T1055.008",
         syscall |-> "ptrace", args |-> [request |-> "poke", target_pid |-> 7]]
Passwd == [Shadow EXCEPT !.pid = 2]

MCAlerts == {Shadow, ShadowAgain, Poke, Passwd}
=============================================================================
