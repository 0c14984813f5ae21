---------------------------- MODULE MCPidRegistry ----------------------------
(* One task of one driver; its two pids may both be used again and again. *)
EXTENDS PidRegistry

=============================================================================
