------------------------------ MODULE AgentLife ------------------------------
(***************************************************************************)
(* What an LLM agent leaves behind between two calls: its conversation     *)
(* (Conversation) and the jobs it started in a tool (AsyncJob).  The two   *)
(* have no state in common, so a behaviour shows the one or the other.     *)
(***************************************************************************)
EXTENDS AsyncJob, Conversation

VARIABLE view

agentVars == <<vars, talkVars, view>>

AgentInit == view \in {"jobs", "talk"} /\ Init /\ TalkInit

AgentNext ==
  \/ view = "jobs" /\ Next /\ UNCHANGED <<talkVars, view>>
  \/ view = "talk" /\ TalkNext /\ UNCHANGED <<vars, view>>

\* Only the jobs are assumed to be scheduled.
AgentSpec == AgentInit /\ [][AgentNext]_agentVars /\ Fairness

\* Types of the state.
AgentTypeOK == TypeOK /\ TalkTypeOK /\ view \in {"jobs", "talk"}

=============================================================================
