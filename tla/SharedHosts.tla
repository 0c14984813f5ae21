------------------------------ MODULE SharedHosts ------------------------------
(***************************************************************************)
(* Several clusters on the same machines (cluster/node_setup.py,           *)
(* ray_stop.py, docker.py): "a machine can host workers in many separate   *)
(* CHIA clusters" (quickstart.rst), of one user, even in one container,    *)
(* and several heads.  `ray stop` ends all of that user's Ray on a machine *)
(* or in a container; chia down ends what carries the address of its own   *)
(* head, and removes a container in which no other Ray is left.            *)
(*                                                                         *)
(* A cluster runs one command at a time.  The commands of different        *)
(* clusters know nothing of each other; each step is one that runs by      *)
(* itself over SSH.  Each container is on a machine of its own, and the    *)
(* heads are on one; the address of a head tells its cluster.              *)
(***************************************************************************)
EXTENDS Naturals, FiniteSets

CONSTANTS
  Clusters,
  Boxes,     \* containers
  Bare,      \* machines with Ray outside of containers
  Hub,       \* the one of them where the heads run
  Uses,      \* where the workers of each cluster run
  Blanket    \* clusters whose commands to start Ray have a `ray stop` first

Sites == Boxes \cup Bare

ASSUME SiteAssumption ==
  /\ Hub \in Bare /\ Boxes \cap Bare = {}
  /\ Uses \in [Clusters -> SUBSET (Sites \ {Hub})]
ASSUME BlanketAssumption == Blanket \subseteq Clusters

VARIABLES
  box,    \* state of each container
  ray,    \* the pairs <<c, p>>: Ray of cluster c runs at p
  task,   \* the command of each cluster
  at,     \* where the command is at each site
  clean,  \* clusters whose last command was a chia down without a failure
  old     \* history: what has been running since before the command

hostVars == <<box, ray, task, at, clean, old>>

At(p)      == {r \in ray : r[2] = p}
Places(c)  == Uses[c] \cup {Hub}
Over       == [p \in Sites |-> "over"]
Steps      == {"look", "clear", "run", "wipe", "start", "stop", "count", "blind",
               "halt", "rm", "over"}
To(c, p, s) == at' = [at EXCEPT ![c][p] = s]

\* A failure at one place, which the others do not notice.
Fails(c, p) == To(c, p, "over") /\ clean' = clean \ {c}

HostsInit ==
  /\ box = [p \in Boxes |-> "none"] /\ ray = {}
  /\ task = [c \in Clusters |-> "none"] /\ at = [c \in Clusters |-> Over]
  /\ clean = Clusters /\ old = [c \in Clusters |-> {}]

-----------------------------------------------------------------------------
(* setup_head_node, setup_worker_node and setup_container                    *)

\* A script on a machine has its `ray stop` only for chia up, in a container
\* always: "Docker workers have isolated PID namespaces".
Launch(c, p, kind) ==
  IF c \in Blanket /\ (p \in Boxes \/ kind = "up") THEN "wipe" ELSE "start"

\* The workers of chia up --add: those that do not run.
BeginSetup(c, kind) ==
  LET new == IF kind = "up" THEN Places(c) ELSE {p \in Uses[c] : <<c, p>> \notin ray}
  IN  /\ task[c] = "none" /\ new # {}
      /\ kind = "add" => <<c, Hub>> \in ray
      /\ task' = [task EXCEPT ![c] = kind]
      /\ at' = [at EXCEPT ![c] = [p \in Sites |->
           IF p \notin new THEN "over" ELSE IF p \in Boxes THEN "look" ELSE Launch(c, p, kind)]]
      /\ clean' = clean \ {c}
      /\ UNCHANGED <<box, ray>>

\* The head comes first.
Turn(c, p, s) == at[c][p] = s /\ (p # Hub => at[c][Hub] = "over")

Inspect(c, p) ==
  /\ Turn(c, p, "look")
  /\ To(c, p, CASE box[p] = "none"    -> "run"
                [] box[p] = "running" -> Launch(c, p, task[c])
                [] box[p] = "stopped" -> "clear")
  /\ UNCHANGED <<box, ray, task, clean>>

\* `docker rm -f` of whatever has the name, for what was a stopped container.
RemoveStopped(c, p) ==
  /\ Turn(c, p, "clear")
  /\ box' = [box EXCEPT ![p] = "none"] /\ ray' = ray \ At(p)
  /\ To(c, p, "run")
  /\ UNCHANGED <<task, clean>>

\* The name may be taken by now, or the set-up commands fail in the container.
RunContainer(c, p) ==
  /\ Turn(c, p, "run")
  /\ \/ box[p] = "none" /\ box' = [box EXCEPT ![p] = "running"] /\ To(c, p, Launch(c, p, task[c]))
     \/ box[p] = "none" /\ box' = [box EXCEPT ![p] = "running"] /\ To(c, p, "over")
     \/ UNCHANGED box /\ To(c, p, "over")
  /\ UNCHANGED <<ray, task, clean>>

\* `ray stop`, among the commands that start Ray.
Wipe(c, p) ==
  /\ Turn(c, p, "wipe")
  /\ p \in Boxes => box[p] = "running"
  /\ ray' = ray \ At(p)
  /\ To(c, p, "start")
  /\ UNCHANGED <<box, task, clean>>

\* The port of a head that runs is taken.
StartRay(c, p) ==
  /\ Turn(c, p, "start")
  /\ p \in Boxes => box[p] = "running"
  /\ p = Hub => <<c, Hub>> \notin ray
  /\ ray' = ray \cup {<<c, p>>}
  /\ To(c, p, "over")
  /\ UNCHANGED <<box, task, clean>>

\* Only a head that does not start ends the command.
StartFails(c, p) ==
  /\ \E s \in {"look", "wipe", "start"} : Turn(c, p, s)
  /\ IF p = Hub THEN at' = [at EXCEPT ![c] = Over] ELSE To(c, p, "over")
  /\ UNCHANGED <<box, ray, task, clean>>

-----------------------------------------------------------------------------
(* tear_down_cluster, tear_down_worker_node, selective_ray_stop              *)

\* A "sweep" is chia down --no-scoped.
BeginDown(c, kind) ==
  /\ task[c] = "none"
  /\ task' = [task EXCEPT ![c] = kind]
  /\ at' = [at EXCEPT ![c] = [p \in Sites |-> IF p \in Places(c) THEN "stop" ELSE "over"]]
  /\ clean' = clean \cup {c}
  /\ UNCHANGED <<box, ray>>

\* The head comes last.
Stoppable(c, p) ==
  /\ at[c][p] = "stop"
  /\ p = Hub => \A q \in Uses[c] : at[c][q] = "over"
  /\ p \in Boxes => box[p] = "running"

\* A defect the runs must catch: where nothing matched nothing is to be done.
StopUnmatched(c, p) ==
  /\ task[c] = "down" /\ Stoppable(c, p)
  /\ ray' = ray \ {<<c, p>>}
  /\ To(c, p, IF p \in Boxes /\ <<c, p>> \in ray THEN "count" ELSE "over")
  /\ UNCHANGED <<box, task, clean>>

\* The Ray with the address of the head of c.  Ray stands here for its raylet,
\* whose command line carries the address.
ScopedStop(c, p) ==
  /\ task[c] = "down" /\ Stoppable(c, p)
  /\ ray' = ray \ {<<c, p>>}
  /\ To(c, p, IF p \in Boxes THEN "count" ELSE "over")
  /\ UNCHANGED <<box, task, clean>>

\* A script that ended well without its line: the commands before it have ended the
\* shell, or read what was left of their input.  Nothing has been stopped, and no
\* number stands for none that is foreign.
Unread(c, p) ==
  /\ task[c] = "down" /\ Stoppable(c, p)
  /\ To(c, p, IF p \in Boxes THEN "blind" ELSE "over")
  /\ UNCHANGED <<box, ray, task, clean>>

\* A defect the runs must catch: what has another address does not count.
CountNone(c, p) ==
  /\ at[c][p] = "count"
  /\ To(c, p, "halt")
  /\ UNCHANGED <<box, ray, task, clean>>

\* count_foreign_ray_processes: what has an address, and another one.
CountForeign(c, p) ==
  /\ at[c][p] = "count"
  /\ To(c, p, IF At(p) \subseteq {<<c, p>>} THEN "halt" ELSE "over")
  /\ UNCHANGED <<box, ray, task, clean>>

BlanketStop(c, p) ==
  /\ task[c] = "sweep" /\ Stoppable(c, p)
  /\ ray' = ray \ At(p)
  /\ To(c, p, IF p \in Boxes THEN "halt" ELSE "over")
  /\ UNCHANGED <<box, task, clean>>

\* The script cannot run, as in a container that does not: the container is
\* left as it is.
StopFails(c, p) ==
  /\ at[c][p] \in {"stop", "count"}
  /\ p = Hub => \A q \in Uses[c] : at[c][q] = "over"
  /\ IF p \in Boxes /\ box[p] = "none" THEN To(c, p, "over") /\ UNCHANGED clean ELSE Fails(c, p)
  /\ UNCHANGED <<box, ray, task>>

DockerStop(c, p) ==
  /\ at[c][p] \in {"halt", "blind"}
  /\ box' = [box EXCEPT ![p] = IF @ = "none" THEN "none" ELSE "stopped"]
  /\ ray' = ray \ At(p)
  /\ To(c, p, "rm")
  /\ UNCHANGED <<task, clean>>

DockerRm(c, p) ==
  /\ at[c][p] = "rm"
  /\ \/ box' = [box EXCEPT ![p] = "none"] /\ ray' = ray \ At(p)
        /\ To(c, p, "over") /\ UNCHANGED clean
     \/ UNCHANGED <<box, ray>> /\ Fails(c, p)
  /\ UNCHANGED task

-----------------------------------------------------------------------------
Exits(c) ==
  /\ task[c] # "none" /\ at[c] = Over
  /\ task' = [task EXCEPT ![c] = "none"]
  /\ UNCHANGED <<box, ray, at, clean>>

Interrupt(c) ==
  /\ at[c] # Over
  /\ task' = [task EXCEPT ![c] = "none"] /\ at' = [at EXCEPT ![c] = Over]
  /\ clean' = clean \ {c}
  /\ UNCHANGED <<box, ray>>

\* Ray crashes, or has lost its head.
RayDies(c, p) ==
  /\ <<c, p>> \in ray
  /\ ray' = ray \ {<<c, p>>}
  /\ UNCHANGED <<box, task, at, clean>>

\* The machine restarts.
BoxStops(p) ==
  /\ box[p] = "running"
  /\ box' = [box EXCEPT ![p] = "stopped"] /\ ray' = ray \ At(p)
  /\ UNCHANGED <<task, at, clean>>

Remember ==
  old' = [c \in Clusters |->
    IF task'[c] = "none" THEN {} ELSE IF task[c] = "none" THEN ray ELSE old[c] \cap ray']

HostsStep ==
  /\ \/ \E c \in Clusters :
          \/ BeginSetup(c, "up") \/ BeginSetup(c, "add")
          \/ BeginDown(c, "down") \/ BeginDown(c, "sweep")
          \/ Exits(c) \/ Interrupt(c)
          \/ \E p \in Boxes :
               \/ Inspect(c, p) \/ RemoveStopped(c, p) \/ RunContainer(c, p)
               \/ CountForeign(c, p) \/ DockerStop(c, p) \/ DockerRm(c, p)
          \/ \E p \in Sites :
               \/ Wipe(c, p) \/ StartRay(c, p) \/ StartFails(c, p)
               \/ ScopedStop(c, p) \/ Unread(c, p) \/ BlanketStop(c, p)
               \/ StopFails(c, p) \/ RayDies(c, p)
     \/ \E p \in Boxes : BoxStops(p)
  /\ Remember

HostsSpec == HostsInit /\ [][HostsStep]_hostVars

-----------------------------------------------------------------------------
(* Properties                                                                *)

HostsTypeOK ==
  /\ box \in [Boxes -> {"none", "running", "stopped"}]
  /\ ray \subseteq Clusters \X Sites
  /\ \A r \in ray : r[2] \in Boxes => box[r[2]] = "running"
  /\ task \in [Clusters -> {"none", "up", "add", "down", "sweep"}]
  /\ at \in [Clusters -> [Sites -> Steps]]
  /\ clean \subseteq Clusters
  /\ old \in [Clusters -> SUBSET ray]

\* No command ends the Ray of another cluster that has been running since
\* before the command began, but `ray stop` in the commands that start Ray,
\* chia down --no-scoped, and a chia down that reads no count: it removes the
\* container, though "only if no other cluster's Ray remains in it"
\* (tear_down_worker_node) is what it says.  What came up in between may be lost
\* with its container.
OthersAreSpared ==
  [][\A c \in Clusters : \A r \in old[c] \ ray' :
       \/ at'[c] = at[c] \/ r[1] = c
       \/ task[c] = "sweep" \/ at[c][r[2]] \in {"wipe", "blind"}]_hostVars

\* When each cluster that uses a container has ended with a chia down that met
\* no failure, the container is gone, however the commands overlapped: the last
\* one out removes it.
LastOneRemoves ==
  \A p \in Boxes :
    (\A c \in Clusters : p \in Uses[c] => task[c] = "none" /\ c \in clean) => box[p] = "none"

=============================================================================
