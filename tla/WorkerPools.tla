------------------------------ MODULE WorkerPools ------------------------------
(***************************************************************************)
(* The WorkerProvisioner a program holds (cluster/worker_provisioner.py,   *)
(* aws/ec2.py): workers in local containers or on EC2 instances, in pools  *)
(* that come and go one by one.                                            *)
(*                                                                         *)
(* What it has acquired it knows from its records: _pool_containers and    *)
(* _container_names, _pool_instances and the flat _ec2_instance_ids.  What *)
(* is in none of them nobody ends.                                         *)
(*                                                                         *)
(* A docker command may fail, and may be given up after 120 seconds, which *)
(* raises and leaves open what the daemon still does.                      *)
(*                                                                         *)
(* One container of each pool is modelled, under the name that every       *)
(* provisioning gives it again.                                            *)
(***************************************************************************)
EXTENDS Machines

CONSTANTS
  Boxed,     \* bound: the pools that are given containers on this machine
  Workers,   \* bound: the workers of each pool that one call may ask for
  Spots      \* bound: the instances a program launches

Pools == {"build", "sim"}

ASSUME PoolAssumption == Boxed \subseteq Pools /\ Workers \in Nat /\ Spots \subseteq Vms

VARIABLES
  prov,      \* the call under way, and how the last one ended
  got,       \* all_instances of the call of _provision_ec2_pools
  inst,      \* _pool_instances
  flat,      \* _ec2_instance_ids
  keyed,     \* the pools that _pool_containers has a list for
  listed,    \* those whose list names the container, once or more often
  left,      \* those whose container only _container_names still names
  late,      \* those with a `docker run` that was given up and may yet succeed
  strays,    \* those whose container docker left running unknown to the lists
  boxes      \* the pools whose container runs

dockVars == <<keyed, listed, left, late, strays, boxes>>
poolVars == <<prov, got, inst, flat, dockVars>>

Ready == [at |-> "idle", end |-> "none", build |-> 0, need |-> 0]
\* A call is over; what it launched matters no longer, if it did not fail.
Ended(e) ==
  /\ prov' = [Ready EXCEPT !.end = e]
  /\ got' = IF e = "failed" THEN got ELSE {}

PoolsInit ==
  /\ prov = Ready /\ got = {} /\ flat = {}
  /\ keyed = {} /\ listed = {} /\ left = {} /\ late = {} /\ strays = {} /\ boxes = {}
  /\ inst = [p \in Pools |-> {}]

-----------------------------------------------------------------------------
(* _provision_docker_pool                                                    *)

\* `docker rm -f` ends the containers of S but those of kept, which it leaves
\* unknown to the lists.
Removed(S, kept) ==
  /\ boxes' = boxes \ (S \ kept)
  /\ strays' = (strays \ S) \cup (kept \cap boxes)

\* What an earlier call left is removed first; that or `docker run` fails.
RunFails(p, ok) ==
  /\ prov.at = "idle"
  /\ IF ok THEN Removed({p}, {}) ELSE UNCHANGED <<boxes, strays>>
  /\ Ended("raised")
  /\ UNCHANGED <<vm, inst, flat, keyed, listed, left, late>>

\* `docker run` is given up before it is known whether the container starts.
RunTimesOut(p) ==
  /\ prov.at = "idle"
  /\ Removed({p}, {})
  /\ late' = late \cup {p}
  /\ Ended("raised")
  /\ UNCHANGED <<vm, inst, flat, keyed, listed, left>>

\* It does start, or never will: the name is taken, or something else is wrong.
LateRun(p) ==
  /\ p \in late /\ late' = late \ {p}
  /\ \/ UNCHANGED <<boxes, strays>>
     \/ /\ p \notin boxes
        /\ boxes' = boxes \cup {p} /\ strays' = strays \cup {p}
  /\ UNCHANGED <<vm, prov, got, inst, flat, keyed, listed, left>>

RunWorker(p) ==
  /\ prov.at = "idle"
  /\ boxes' = boxes \cup {p} /\ keyed' = keyed \cup {p} /\ listed' = listed \cup {p}
  /\ strays' = strays \ {p}
  /\ Ended("done")
  /\ UNCHANGED <<vm, inst, flat, left, late>>

\* A defect the runs must catch: the entry is removed, the container is not.
RayFailsAndForgets(p, ok) ==
  /\ prov.at = "idle"
  /\ boxes' = boxes \cup {p} /\ keyed' = keyed \cup {p} /\ listed' = listed \ {p}
  /\ strays' = IF ok THEN strays \ {p} ELSE strays \cup {p}
  /\ Ended("raised")
  /\ UNCHANGED <<vm, inst, flat, left, late>>

\* Ray does not start in it: its entry in the list is removed, and the container
\* too if docker can.
RayFails(p, ok) ==
  /\ prov.at = "idle"
  /\ boxes' = IF ok THEN boxes \ {p} ELSE boxes \cup {p}
  /\ strays' = IF ok THEN strays \ {p} ELSE strays \cup {p}
  /\ keyed' = keyed \cup {p}
  /\ Ended("raised")
  /\ UNCHANGED <<vm, inst, flat, listed, left, late>>

\* The removal is given up: its exception leaves the entry where it is.
RayFailsTwice(p, ok) ==
  /\ prov.at = "idle"
  /\ boxes' = IF ok THEN boxes \ {p} ELSE boxes \cup {p}
  /\ strays' = strays \ {p}
  /\ keyed' = keyed \cup {p} /\ listed' = listed \cup {p}
  /\ Ended("raised")
  /\ UNCHANGED <<vm, inst, flat, left, late>>

-----------------------------------------------------------------------------
(* _provision_ec2_pools                                                      *)

\* Workers are packed by CPUs: as many instances as workers, or fewer.
Provision(build, sim, need) ==
  /\ prov.at = "idle" /\ need \in 1 .. build + sim
  /\ prov' = [at |-> "launch", end |-> "none", build |-> build, need |-> need]
  /\ got' = {}
  /\ UNCHANGED <<vm, inst, flat, dockVars>>

LaunchOne ==
  /\ prov.at = "launch" /\ Cardinality(got) < prov.need /\ Spots \cap Unused # {}
  /\ vm' = Launched(NoType, 0, "program")
  /\ got' = got \cup {NextVm}
  /\ UNCHANGED <<prov, inst, flat, dockVars>>

\* An error that is not one of capacity is raised through the loop.
LaunchRaises ==
  /\ prov.at = "launch" /\ Cardinality(got) < prov.need
  /\ Ended("raised")
  /\ UNCHANGED <<vm, inst, flat, dockVars>>

\* The first instances are the build pool's, whoever asked for them.
First(S, n) == {v \in S : Cardinality({w \in S : w < v}) < n}

\* Two defects the runs must catch: the lists of the pools are overwritten
\* like the flat one; the flat list is extended when all went well only.
RecordLatest ==
  LET build == First(got, prov.build)
  IN  /\ prov.at = "launch"
      /\ flat' = got
      /\ inst' = [inst EXCEPT !["build"] = build, !["sim"] = got \ build]
      /\ prov' = [prov EXCEPT !.at = IF Cardinality(got) < prov.need THEN "undo" ELSE "wait"]
      /\ UNCHANGED <<vm, got, dockVars>>

RecordIfComplete ==
  LET build == First(got, prov.build)
      few   == Cardinality(got) < prov.need
  IN  /\ prov.at = "launch"
      /\ flat' = IF few THEN flat ELSE got
      /\ inst' = [inst EXCEPT !["build"] = @ \cup build, !["sim"] = @ \cup (got \ build)]
      /\ prov' = [prov EXCEPT !.at = IF few THEN "undo" ELSE "wait"]
      /\ UNCHANGED <<vm, got, dockVars>>

\* All are launched, or no type has capacity for another one.
Record ==
  LET build == First(got, prov.build)
  IN  /\ prov.at = "launch"
      /\ flat' = got
      /\ inst' = [inst EXCEPT !["build"] = @ \cup build, !["sim"] = @ \cup (got \ build)]
      /\ prov' = [prov EXCEPT !.at = IF Cardinality(got) < prov.need THEN "undo" ELSE "wait"]
      /\ UNCHANGED <<vm, got, dockVars>>

\* wait_for_instances; an instance that is gone makes it raise.
Started ==
  /\ prov.at = "wait" /\ flat \cap Pending = {}
  /\ prov' = [prov EXCEPT !.at = "setup"]
  /\ UNCHANGED <<vm, got, inst, flat, dockVars>>

StartFails ==
  /\ prov.at = "wait"
  /\ prov' = [prov EXCEPT !.at = "undo"]
  /\ UNCHANGED <<vm, got, inst, flat, dockVars>>

\* The hosts are set up side by side; one that succeeds is enough.
SetupHosts(ok) ==
  /\ prov.at = "setup" /\ ok \subseteq flat \cap Running
  /\ \/ ok = {} /\ prov' = [prov EXCEPT !.at = "undo"] /\ UNCHANGED got
     \/ ok # {} /\ Ended("done")
  /\ UNCHANGED <<vm, inst, flat, dockVars>>

-----------------------------------------------------------------------------
(* teardown_pool and teardown                                                *)

\* A defect the runs must catch: the names of a pool outlive its list.
PoolDownKeepsNames(p, ok) ==
  /\ keyed' = keyed \ {p}
  /\ Removed(listed \cap {p}, IF ok THEN {} ELSE listed \cap {p})
  /\ inst' = [inst EXCEPT ![p] = {}]
  /\ UNCHANGED <<listed, late>>

\* The lists of the pool go first, whether its containers and instances can be
\* ended or not.
PoolDown(p, ok) ==
  /\ keyed' = keyed \ {p} /\ listed' = listed \ {p}
  /\ Removed(listed \cap {p}, IF ok THEN {} ELSE listed \cap {p})
  /\ inst' = [inst EXCEPT ![p] = {}]
  /\ UNCHANGED late

TeardownPool(p, ok) ==
  /\ prov.at = "idle"
  /\ PoolDown(p, ok)
  /\ vm' = Terminated(inst[p]) /\ flat' = flat \ inst[p]
  /\ Ended("done")
  /\ UNCHANGED left

\* The pools whose lists teardown works through.
Reached(p) == prov.at = "idle" \/ (prov.at \in {"down", "undo"} /\ p \in keyed)

TerminateRaises(p, ok) ==
  /\ Reached(p) /\ inst[p] # {}
  /\ PoolDown(p, ok)
  /\ Ended("raised")
  /\ UNCHANGED <<vm, flat, left>>

\* A docker command of teardown_pool is given up: the exception leaves the name
\* in _container_names, and the instances of the pool in the flat list.
RemovalRaises(p, ok) ==
  /\ Reached(p) /\ p \in listed
  /\ PoolDown(p, ok)
  /\ left' = left \cup {p}
  /\ Ended("raised")
  /\ UNCHANGED <<vm, flat>>

Teardown ==
  /\ prov.at = "idle"
  /\ prov' = [prov EXCEPT !.at = "down"]
  /\ UNCHANGED <<vm, got, inst, flat, dockVars>>

\* teardown goes through the pools that have containers, ...
TeardownNext(p, ok) ==
  /\ prov.at \in {"down", "undo"} /\ p \in keyed
  /\ PoolDown(p, ok)
  /\ vm' = Terminated(inst[p]) /\ flat' = flat \ inst[p]
  /\ UNCHANGED <<prov, got, left>>

\* ... removes what _container_names still names, but for those docker keeps, ...
RemoveLeft(kept) ==
  /\ prov.at \in {"down", "undo"} /\ keyed = {}
  /\ kept \subseteq left
  /\ Removed(left, kept)

\* ... and ends the rest of the flat list; then a failed call raises.
TeardownRest(kept) ==
  /\ RemoveLeft(kept)
  /\ left' = {}
  /\ vm' = Terminated(flat) /\ flat' = {}
  /\ Ended(IF prov.at = "undo" THEN "failed" ELSE "done")
  /\ UNCHANGED <<inst, keyed, listed, late>>

\* AWS refuses, or a docker command is given up and nothing is cleared.
RestRaises(kept) ==
  /\ RemoveLeft(kept)
  /\ \/ flat # {} /\ left' = {}
     \/ left # {} /\ UNCHANGED left
  /\ Ended("raised")
  /\ UNCHANGED <<vm, inst, flat, keyed, listed, late>>

-----------------------------------------------------------------------------
PoolsStep ==
  \/ LaunchOne \/ LaunchRaises \/ Record \/ Started \/ StartFails
  \/ Teardown \/ \E kept \in SUBSET left : TeardownRest(kept) \/ RestRaises(kept)
  \/ \E b, s \in 0 .. Workers : \E n \in 1 .. b + s : Provision(b, s, n)
  \/ \E ok \in SUBSET flat : SetupHosts(ok)
  \/ \E p \in Boxed : \/ RunWorker(p) \/ RunTimesOut(p) \/ LateRun(p)
                      \/ \E ok \in BOOLEAN :
                           RunFails(p, ok) \/ RayFails(p, ok) \/ RayFailsTwice(p, ok)
  \/ \E p \in Pools : \E ok \in BOOLEAN :
       \/ TeardownPool(p, ok) \/ TerminateRaises(p, ok) \/ RemovalRaises(p, ok)
       \/ TeardownNext(p, ok)

-----------------------------------------------------------------------------
(* Properties                                                                *)

PoolsTypeOK ==
  /\ prov \in [at : {"idle", "launch", "wait", "setup", "down", "undo"},
               end : {"none", "done", "raised", "failed"},
               build : 0 .. Workers, need : 0 .. 2 * Workers]
  /\ got \subseteq Vms /\ flat \subseteq Vms
  /\ inst \in [Pools -> SUBSET Vms]
  /\ keyed \subseteq Pools /\ listed \subseteq keyed /\ left \subseteq Pools
  /\ late \subseteq Pools /\ strays \subseteq Pools /\ boxes \subseteq Pools

\* The instances of a launch under way and those in the list of a pool.
Known == inst["build"] \cup inst["sim"] \cup (IF prov.at = "launch" THEN got ELSE {})

\* No call loses sight of an instance that lives, but one that raises in the
\* launch loop or because AWS refused to end a pool ("Per-pool tracking for
\* independent lifecycle management"): the flat list, which every provisioning
\* overwrites, is never all that names it until then.
InstancesStayKnown ==
  [][\A v \in Known \cap Live \cap Live' :
       v \in Known' \/ (prov'.at = "idle" /\ prov'.end = "raised")]_<<vm, poolVars>>

\* A provisioning that fails after the launch, and could end what it had
\* launched, leaves none of its instances behind.
FailedProvisionEndsItsOwn ==
  prov.at = "idle" /\ prov.end = "failed" => got \cap Live = {}

\* A container that runs is in a record that teardown goes by, however often its
\* pool was provisioned and torn down, unless docker did not do what it was told:
\* a `docker rm -f` whose failure is ignored left it running, or a `docker run`
\* that was given up started it.  The next provisioning of the pool that succeeds
\* takes such a stray in.
ContainersAreListed ==
  boxes \subseteq (keyed \cap listed) \cup left \cup strays

=============================================================================
