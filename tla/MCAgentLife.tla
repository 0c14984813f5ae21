---------------------------- MODULE MCAgentLife ----------------------------
(* The instance of MCAsyncJob; and three prompts over two machines with each *)
(* client, where a worker may die once and a machine be set up afresh at any *)
(* time.                                                                     *)
EXTENDS MCAsyncJob, AgentLife

CONSTANTS w1, w2

=============================================================================
