---------------------------- MODULE MCChainRule ----------------------------
(* Small instance of ChainRule: one pid used twice, two standard streams   *)
(* and one other descriptor, a remote destination.                         *)
EXTENDS ChainRule

MCCalls == ProbedCalls
=============================================================================
