------------------------------ MODULE ClusterLife ------------------------------
(***************************************************************************)
(* The commands of a cluster, seen from two sides: the workers and tunnels *)
(* of one cluster (ClusterUp) and the machines and containers it shares    *)
(* with others (SharedHosts).  The two have no state in common, so a       *)
(* behaviour shows the one or the other.                                   *)
(***************************************************************************)
EXTENDS ClusterUp, SharedHosts

VARIABLE view

lifeVars == <<vars, hostVars, view>>

\* The file says nothing of interest about the cluster in a crowd.
LifeInit ==
  /\ view \in {"alone", "crowd"}
  /\ Init /\ HostsInit
  /\ view = "crowd" => \A type \in TypeSet : yaml[type] = 0

LifeNext ==
  \/ view = "alone" /\ Next /\ UNCHANGED <<hostVars, view>>
  \/ view = "crowd" /\ HostsStep /\ UNCHANGED <<vars, view>>

LifeSpec == LifeInit /\ [][LifeNext]_lifeVars

\* Types of the state.
LifeTypeOK == TypeOK /\ HostsTypeOK /\ view \in {"alone", "crowd"}

=============================================================================
