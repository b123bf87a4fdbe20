---------------------------- MODULE MCPidFilter ----------------------------
(* Small instance of PidFilter: init 1 - server 2 - worker 3 - helper 4,   *)
(* and room for one more process.                                          *)
EXTENDS PidFilter, TLC

Server == (1 :> 0) @@ (2 :> 1) @@ (3 :> 2) @@ (4 :> 3)
=============================================================================
