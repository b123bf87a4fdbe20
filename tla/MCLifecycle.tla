---------------------------- MODULE MCLifecycle ----------------------------
(* Small instance of Lifecycle: every combination of the flags.            *)
EXTENDS Lifecycle
=============================================================================
