----------------------------- MODULE CloudAccount -----------------------------
(***************************************************************************)
(* A cloud account and what uses it: the commands of a cluster or a        *)
(* program with a WorkerProvisioner.  The two have nothing in common but   *)
(* the account, and tell their instances by their tags; so a behaviour has *)
(* the one or the other.                                                   *)
(***************************************************************************)
EXTENDS CloudNodes, WorkerPools

VARIABLE user

accountVars == <<vm, nodeVars, poolVars, user>>

Init ==
  /\ user \in {"cluster", "program"}
  /\ MachinesInit /\ NodesInit /\ PoolsInit

Next ==
  \/ MachinesStep /\ UNCHANGED <<nodeVars, poolVars, user>>
  \/ user = "cluster" /\ NodesStep /\ UNCHANGED <<poolVars, user>>
  \/ user = "program" /\ PoolsStep /\ UNCHANGED <<nodeVars, user>>

Spec == Init /\ [][Next]_accountVars

\* Types of the state.
TypeOK ==
  /\ vm \in [Vms -> [st : {"none", "pending", "running", "stopping", "stopped", "gone"},
                     type : Types \cup {NoType}, idx : Nat,
                     by : Cmds \cup {Nobody, "program"}]]
  /\ NodesTypeOK /\ PoolsTypeOK
  /\ user \in {"cluster", "program"}

=============================================================================
