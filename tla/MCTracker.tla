----------------------------- MODULE MCTracker -----------------------------
(* Small instance of Tracker: one tracked and one untracked syscall, and   *)
(* one process more than the table holds.                                  *)
EXTENDS Tracker, TLC

MCCalls == {[sc |-> "socket"], [sc |-> "openat"]}

\* Processes are only told apart.
Symmetry == Permutations(PIDs)
=============================================================================
