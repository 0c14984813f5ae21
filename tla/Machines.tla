------------------------------- MODULE Machines -------------------------------
(***************************************************************************)
(* The virtual machines of a cloud account.  The clouds are external:      *)
(* this is what CHIA's calls and the passing of time do to an instance.    *)
(*                                                                         *)
(* A terminated or deleted instance is gone at once: the time it takes to  *)
(* shut down is left out.                                                  *)
(***************************************************************************)
EXTENDS Naturals, FiniteSets

CONSTANTS
  Vms,     \* instance ids; they are handed out in their order, each once
  Mortal   \* bound: the instances that may be reclaimed or stopped

ASSUME MachineAssumption == Vms \subseteq Nat /\ IsFiniteSet(Vms) /\ Mortal \subseteq Vms

VARIABLE
  vm       \* state of each instance, its tags, and the command that launched it

NoType  == 0
Nobody  == "nobody"
Blank   == [st |-> "none", type |-> NoType, idx |-> 0, by |-> Nobody]

Unused  == {v \in Vms : vm[v].st = "none"}
Live    == {v \in Vms : vm[v].st \notin {"none", "gone"}}
Pending == {v \in Vms : vm[v].st = "pending"}
Running == {v \in Vms : vm[v].st = "running"}

\* The instance a launch creates, with the tags of node i of type t.
NextVm  == CHOOSE v \in Unused : \A w \in Unused : v <= w
Launched(t, i, who) ==
  [vm EXCEPT ![NextVm] = [st |-> "pending", type |-> t, idx |-> i, by |-> who]]

\* Instances S are ended; to end one that is gone changes nothing.
Terminated(S) ==
  [v \in Vms |-> IF v \in S \cap Live THEN [vm[v] EXCEPT !.st = "gone"] ELSE vm[v]]

Boots(v)    == v \in Pending /\ vm' = [vm EXCEPT ![v].st = "running"]
Reclaim(v)  == v \in Mortal \cap Live /\ vm' = Terminated({v})
Stop(v)     == v \in Mortal \cap Running /\ vm' = [vm EXCEPT ![v].st = "stopping"]
HasStopped(v) == vm[v].st = "stopping" /\ vm' = [vm EXCEPT ![v].st = "stopped"]

MachinesInit == vm = [v \in Vms |-> Blank]
MachinesStep == \E v \in Vms : Boots(v) \/ Reclaim(v) \/ Stop(v) \/ HasStopped(v)

=============================================================================
