----------------------------- MODULE MCPipeline -----------------------------
(* Small instance of Pipeline: two CPUs, a ring of two, a queue of one, and *)
(* three tracepoints, one of them optional.                                *)
EXTENDS Pipeline

MCtracepoints == <<"sys_enter_execve", "sys_enter_dup2", "sys_enter_dup3">>
=============================================================================
