-------------------------- MODULE CloudAccountProofs --------------------------
(***************************************************************************)
(* Theorems about CloudAccount, for any instances, types and commands.     *)
(*                                                                         *)
(* An instance keeps its tags and never lives again, whatever is done to   *)
(* it; so what a command or a program has noted of it stays true.  As the  *)
(* two users of an account do not meet, each of them has an invariant of   *)
(* its own.                                                                *)
(*                                                                         *)
(* Of the indexes: for each type a command has planned, all are there or   *)
(* about to be launched (CoverOK), so a rank in their order is an index.   *)
(***************************************************************************)
EXTENDS CloudAccount, FiniteSetTheorems, TLAPS

VmStates == {"none", "pending", "running", "stopping", "stopped", "gone"}
VmRecord == [st : VmStates, type : Types \cup {NoType}, idx : Nat,
             by : Cmds \cup {Nobody, "program"}]

VmsOK == vm \in [Vms -> VmRecord] /\ \A v \in Unused : vm[v].by = Nobody

\* What a step makes of an instance that there is or was.
Kept(v) ==
  /\ vm'[v].type = vm[v].type /\ vm'[v].idx = vm[v].idx /\ vm'[v].by = vm[v].by
  /\ vm'[v].st # "none" /\ (vm[v].st = "gone" => vm'[v].st = "gone")
  /\ vm[v].st \in {"stopping", "stopped"} => vm'[v].st \in {"stopping", "stopped", "gone"}

AllKept == \A v \in Vms : vm[v].st # "none" => Kept(v)

\* A step that launches nothing.
Ageing == VmsOK' /\ AllKept /\ \A v \in Unused : vm'[v] = vm[v]

-----------------------------------------------------------------------------
(* The machines                                                              *)

LEMMA LeastNumber ==
  ASSUME NEW S \in SUBSET Nat, S # {}
  PROVE  \E n \in S : \A m \in S : n <= m
<1>1. PICK n \in S : \A m \in S : <<m, n>> \notin OpToRel(<, Nat)
  BY WFMin, NatLessThanWellFounded
<1>2. \A m \in S : ~(m < n)
  BY <1>1 DEF OpToRel
<1> QED BY <1>2

LEMMA NextIsUnused == Unused # {} => NextVm \in Unused
<1> SUFFICES ASSUME Unused # {} PROVE NextVm \in Unused
  OBVIOUS
<1>1. Unused \subseteq Nat
  BY MachineAssumption DEF Unused
<1>2. \E v \in Unused : \A w \in Unused : v <= w
  BY <1>1, LeastNumber
<1> QED BY <1>2 DEF NextVm

LEMMA TerminatedAges ==
  ASSUME VmsOK, NEW S, vm' = Terminated(S)
  PROVE  Ageing /\ Live' = Live \ S
<1>1. \A v \in Vms : vm'[v] = IF v \in S \cap Live THEN [vm[v] EXCEPT !.st = "gone"] ELSE vm[v]
  BY DEF Terminated
<1>2. \A v \in Vms : vm[v] \in VmRecord
  BY DEF VmsOK
<1>3. vm' \in [Vms -> VmRecord]
  BY <1>2 DEF Terminated, VmRecord, VmStates
<1>4. \A v \in Vms : /\ vm'[v].type = vm[v].type /\ vm'[v].idx = vm[v].idx /\ vm'[v].by = vm[v].by
                     /\ vm'[v].st = IF v \in S \cap Live THEN "gone" ELSE vm[v].st
  BY <1>1, <1>2 DEF VmRecord
<1>5. Live' = Live \ S
  BY <1>4 DEF Live
<1>6. Unused' = Unused
  BY <1>4 DEF Unused, Live
<1>7. AllKept
  BY <1>4 DEF AllKept, Kept, Live
<1> QED BY <1>1, <1>3, <1>4, <1>5, <1>6, <1>7 DEF Ageing, VmsOK, Unused, Live

LEMMA LaunchedKeeps ==
  ASSUME VmsOK, Unused # {}, NEW t \in Types \cup {NoType}, NEW i \in Nat,
         NEW who \in Cmds \cup {"program"}, vm' = Launched(t, i, who)
  PROVE  /\ VmsOK' /\ AllKept /\ NextVm \in Unused
         /\ vm'[NextVm] = [st |-> "pending", type |-> t, idx |-> i, by |-> who]
         /\ \A v \in Vms : v # NextVm => vm'[v] = vm[v]
         /\ Live' = Live \cup {NextVm}
<1>1. NextVm \in Unused /\ NextVm \in Vms
  BY NextIsUnused DEF Unused
<1>2. /\ vm'[NextVm] = [st |-> "pending", type |-> t, idx |-> i, by |-> who]
      /\ \A v \in Vms : v # NextVm => vm'[v] = vm[v]
  BY <1>1 DEF Launched, VmsOK
<1>3. [st |-> "pending", type |-> t, idx |-> i, by |-> who] \in VmRecord
  BY DEF VmRecord, VmStates
<1>4. vm' \in [Vms -> VmRecord]
  BY <1>1, <1>3 DEF Launched, VmsOK
<1>5. Unused' \subseteq Unused
  BY <1>2 DEF Unused
<1>6. VmsOK'
  BY <1>2, <1>4, <1>5 DEF VmsOK, Unused
<1>7. AllKept
  BY <1>1, <1>2 DEF AllKept, Kept, Unused
<1>8. Live' = Live \cup {NextVm}
  BY <1>1, <1>2 DEF Live, Unused
<1> QED BY <1>1, <1>2, <1>6, <1>7, <1>8

LEMMA ChangeOfState ==
  ASSUME VmsOK, NEW v \in Vms, NEW s \in VmStates \ {"none"}, vm[v].st \notin {"none", "gone"},
         vm[v].st \in {"stopping", "stopped"} => s \in {"stopping", "stopped"},
         s # "gone", vm' = [vm EXCEPT ![v].st = s]
  PROVE  Ageing /\ Live' = Live
<1>1. /\ vm'[v] = [vm[v] EXCEPT !.st = s] /\ vm[v] \in VmRecord
      /\ \A w \in Vms : w # v => vm'[w] = vm[w]
  BY DEF VmsOK
<1>2. [vm[v] EXCEPT !.st = s] \in VmRecord
  BY <1>1 DEF VmRecord
<1>3. vm' \in [Vms -> VmRecord]
  BY <1>2 DEF VmsOK
<1>4. /\ vm'[v].type = vm[v].type /\ vm'[v].idx = vm[v].idx /\ vm'[v].by = vm[v].by
      /\ vm'[v].st = s
  BY <1>1 DEF VmRecord
<1>5. Unused' = Unused /\ Live' = Live
  BY <1>1, <1>4 DEF Unused, Live
<1>6. AllKept
  BY <1>1, <1>4 DEF AllKept, Kept
<1> QED BY <1>1, <1>3, <1>5, <1>6 DEF Ageing, VmsOK, Unused

LEMMA MachinesAge ==
  ASSUME VmsOK, MachinesStep
  PROVE  Ageing /\ Live' \subseteq Live
<1>1. ASSUME NEW v \in Vms, Boots(v) \/ Stop(v) \/ HasStopped(v) PROVE Ageing /\ Live' \subseteq Live
  <2>1. PICK s \in {"running", "stopping", "stopped"} :
          /\ vm' = [vm EXCEPT ![v].st = s] /\ vm[v].st \notin {"none", "gone"}
          /\ vm[v].st \in {"stopping", "stopped"} => s \in {"stopping", "stopped"}
    BY <1>1 DEF Boots, Stop, HasStopped, Pending, Running
  <2> QED BY <2>1, ChangeOfState DEF VmStates
<1>2. ASSUME NEW v \in Vms, Reclaim(v) PROVE Ageing /\ Live' \subseteq Live
  BY <1>2, TerminatedAges DEF Reclaim
<1> QED BY <1>1, <1>2 DEF MachinesStep

-----------------------------------------------------------------------------
(* A program with a WorkerProvisioner                                        *)

PoolsInv ==
  /\ PoolsTypeOK
  /\ boxes \subseteq listed \cup left \cup strays
  /\ prov.at \in {"wait", "setup", "undo"} => got \cap Live \subseteq flat
  /\ FailedProvisionEndsItsOwn

\* What InstancesStayKnown says of a step.
KnownStay ==
  \A v \in Known \cap Live \cap Live' :
    v \in Known' \/ (prov'.at = "idle" /\ prov'.end = "raised")

LEMMA PoolsInvInit == PoolsInit => PoolsInv
BY PoolAssumption DEF PoolsInit, PoolsInv, PoolsTypeOK, FailedProvisionEndsItsOwn, Ready, Pools

LEMMA ProvEnds ==
  ASSUME NEW e \in {"done", "raised", "failed"}, Ended(e)
  PROVE  /\ prov' \in [at : {"idle", "launch", "wait", "setup", "down", "undo"},
                       end : {"none", "done", "raised", "failed"},
                       build : 0 .. Workers, need : 0 .. 2 * Workers]
         /\ prov'.at = "idle" /\ prov'.end = e
         /\ got' = IF e = "failed" THEN got ELSE {}
<1>1. /\ prov' = [at |-> "idle", end |-> e, build |-> 0, need |-> 0]
      /\ got' = IF e = "failed" THEN got ELSE {}
  BY DEF Ended, Ready
<1> QED BY <1>1, PoolAssumption

\* What the records of containers are after a step.
DockOK ==
  /\ keyed \subseteq Pools /\ listed \subseteq keyed /\ left \subseteq Pools
  /\ late \subseteq Pools /\ strays \subseteq Pools
  /\ boxes \subseteq Pools /\ boxes \subseteq listed \cup left \cup strays

LEMMA RemovedKeeps ==
  ASSUME DockOK, NEW S \in SUBSET Pools, NEW kept \in SUBSET S, Removed(S, kept)
  PROVE  /\ strays' \subseteq Pools
         /\ boxes' \subseteq Pools /\ boxes' \subseteq ((listed \cup left) \ S) \cup strays'
BY DEF DockOK, Removed

\* The calls that have to do with containers only.
LEMMA DockerCalls ==
  ASSUME DockOK, NEW p \in Pools, NEW ok \in BOOLEAN,
         RunWorker(p) \/ RunTimesOut(p) \/ RunFails(p, ok) \/ RayFails(p, ok) \/ RayFailsTwice(p, ok)
  PROVE  DockOK'
<1>1. CASE RunWorker(p) \/ RayFails(p, ok) \/ RayFailsTwice(p, ok)
  BY <1>1 DEF RunWorker, RayFails, RayFailsTwice, DockOK
<1>2. CASE RunTimesOut(p) \/ RunFails(p, ok)
  BY <1>2 DEF RunTimesOut, RunFails, Removed, DockOK
<1> QED BY <1>1, <1>2

LEMMA DockerStep ==
  ASSUME VmsOK, PoolsInv, NEW p \in Pools, NEW ok \in BOOLEAN,
         RunWorker(p) \/ RunTimesOut(p) \/ RunFails(p, ok) \/ RayFails(p, ok) \/ RayFailsTwice(p, ok)
  PROVE  VmsOK' /\ PoolsInv' /\ KnownStay
<1>1. PICK e \in {"done", "raised"} : prov.at = "idle" /\ Ended(e) /\ UNCHANGED <<vm, inst, flat>>
  BY DEF RunFails, RunTimesOut, RunWorker, RayFails, RayFailsTwice
<1>2. DockOK'
  BY DockerCalls DEF PoolsInv, PoolsTypeOK, DockOK
<1>3. PoolsInv'
  BY <1>1, <1>2, ProvEnds DEF PoolsInv, PoolsTypeOK, FailedProvisionEndsItsOwn, DockOK
<1>4. Known' = Known
  BY <1>1, ProvEnds DEF Known
<1> QED BY <1>1, <1>3, <1>4 DEF VmsOK, Unused, KnownStay

\* A `docker run` that was given up ends on its own.
LEMMA LateRunStep ==
  ASSUME VmsOK, PoolsInv, NEW p \in Pools, LateRun(p)
  PROVE  VmsOK' /\ PoolsInv' /\ KnownStay
<1>1. UNCHANGED <<vm, prov, got, inst, flat>> /\ DockOK'
  BY DEF LateRun, PoolsInv, PoolsTypeOK, DockOK
<1>2. PoolsInv' /\ Known' = Known
  BY <1>1 DEF PoolsInv, PoolsTypeOK, FailedProvisionEndsItsOwn, DockOK, Known, Live
<1> QED BY <1>1, <1>2 DEF VmsOK, Unused, KnownStay

LEMMA ProvideStep ==
  ASSUME VmsOK, PoolsInv, NEW b \in 0 .. Workers, NEW s \in 0 .. Workers,
         NEW n \in 1 .. b + s, Provision(b, s, n)
  PROVE  VmsOK' /\ PoolsInv' /\ KnownStay
<1>1. /\ prov.at = "idle" /\ prov' = [at |-> "launch", end |-> "none", build |-> b, need |-> n]
      /\ got' = {} /\ UNCHANGED <<vm, inst, flat, dockVars>>
  BY DEF Provision
<1>2. n \in 0 .. 2 * Workers
  BY PoolAssumption
<1>3. PoolsInv'
  BY <1>1, <1>2 DEF PoolsInv, PoolsTypeOK, FailedProvisionEndsItsOwn, dockVars
<1> QED BY <1>1, <1>3 DEF VmsOK, Unused, KnownStay, Known

LEMMA LaunchOneStep ==
  ASSUME VmsOK, PoolsInv, LaunchOne
  PROVE  VmsOK' /\ PoolsInv' /\ KnownStay
<1>1. /\ prov.at = "launch" /\ Unused # {} /\ vm' = Launched(NoType, 0, "program")
      /\ got' = got \cup {NextVm} /\ UNCHANGED <<prov, inst, flat, dockVars>>
  BY DEF LaunchOne
<1>2. VmsOK' /\ NextVm \in Vms
  BY <1>1, LaunchedKeeps DEF Unused
<1>3. PoolsInv'
  BY <1>1, <1>2 DEF PoolsInv, PoolsTypeOK, FailedProvisionEndsItsOwn, dockVars
<1> QED BY <1>1, <1>2, <1>3 DEF KnownStay, Known

LEMMA RecordStep ==
  ASSUME VmsOK, PoolsInv, Record
  PROVE  VmsOK' /\ PoolsInv' /\ KnownStay
<1>1. PICK build \in SUBSET got, a \in {"undo", "wait"} :
        /\ prov.at = "launch" /\ flat' = got /\ prov' = [prov EXCEPT !.at = a]
        /\ inst' = [inst EXCEPT !["build"] = @ \cup build, !["sim"] = @ \cup (got \ build)]
        /\ UNCHANGED <<vm, got, dockVars>>
  BY DEF Record, First
<1>2. /\ inst' \in [Pools -> SUBSET Vms]
      /\ inst'["build"] = inst["build"] \cup build
      /\ inst'["sim"] = inst["sim"] \cup (got \ build)
  BY <1>1 DEF PoolsInv, PoolsTypeOK, Pools
<1>3. /\ prov' \in [at : {"idle", "launch", "wait", "setup", "down", "undo"},
                    end : {"none", "done", "raised", "failed"},
                    build : 0 .. Workers, need : 0 .. 2 * Workers]
      /\ prov'.at = a
  BY <1>1 DEF PoolsInv, PoolsTypeOK
<1>4. PoolsInv'
  BY <1>1, <1>2, <1>3 DEF PoolsInv, PoolsTypeOK, FailedProvisionEndsItsOwn, dockVars
<1>5. Known \subseteq Known'
  BY <1>1, <1>2, <1>3 DEF Known
<1> QED BY <1>1, <1>4, <1>5 DEF VmsOK, Unused, KnownStay

LEMMA LaunchRaisesStep ==
  ASSUME VmsOK, PoolsInv, LaunchRaises
  PROVE  VmsOK' /\ PoolsInv' /\ KnownStay
BY ProvEnds DEF LaunchRaises, PoolsInv, PoolsTypeOK, FailedProvisionEndsItsOwn, KnownStay, VmsOK, Unused,
                 dockVars

\* Steps from one phase of a call to the next.
LEMMA PhaseStep ==
  ASSUME VmsOK, PoolsInv,
         Started \/ StartFails \/ Teardown \/ \E ok \in SUBSET flat : SetupHosts(ok)
  PROVE  VmsOK' /\ PoolsInv' /\ KnownStay
<1>1. /\ UNCHANGED <<vm, inst, flat, dockVars>> /\ prov.at # "launch"
      /\ \/ Ended("done")
         \/ prov.at \in {"wait", "setup"} /\ prov' = [prov EXCEPT !.at = "setup"] /\ got' = got
         \/ prov.at \in {"wait", "setup"} /\ prov' = [prov EXCEPT !.at = "undo"] /\ got' = got
         \/ prov' = [prov EXCEPT !.at = "down"] /\ got' = got
  BY DEF Started, StartFails, Teardown, SetupHosts
<1>2. /\ prov' \in [at : {"idle", "launch", "wait", "setup", "down", "undo"},
                    end : {"none", "done", "raised", "failed"},
                    build : 0 .. Workers, need : 0 .. 2 * Workers]
      /\ \/ prov'.at = "idle" /\ prov'.end = "done" /\ got' = {}
         \/ prov.at \in {"wait", "setup"} /\ prov'.at \in {"setup", "undo"} /\ got' = got
         \/ prov'.at = "down" /\ got' = got
  BY <1>1, ProvEnds DEF PoolsInv, PoolsTypeOK
<1>3. PoolsInv'
  BY <1>1, <1>2 DEF PoolsInv, PoolsTypeOK, FailedProvisionEndsItsOwn, Live, dockVars
<1>4. Known' = Known
  BY <1>1, <1>2 DEF Known
<1> QED BY <1>1, <1>3, <1>4 DEF VmsOK, Unused, KnownStay

LEMMA PoolGoes ==
  ASSUME PoolsInv, NEW p \in Pools, NEW ok \in BOOLEAN, PoolDown(p, ok),
         left \subseteq left', left' \subseteq Pools
  PROVE  /\ DockOK'
         /\ inst' \in [Pools -> SUBSET Vms]
         /\ \A q \in Pools : inst'[q] = IF q = p THEN {} ELSE inst[q]
<1>1. DockOK /\ keyed' = keyed \ {p} /\ listed' = listed \ {p} /\ UNCHANGED late
  BY DEF PoolsInv, PoolsTypeOK, DockOK, PoolDown
<1>2. /\ strays' \subseteq Pools
      /\ boxes' \subseteq Pools
      /\ boxes' \subseteq ((listed \cup left) \ (listed \cap {p})) \cup strays'
  BY <1>1, RemovedKeeps DEF PoolDown
<1>3. boxes' \subseteq listed' \cup left' \cup strays'
  BY <1>1, <1>2
<1>4. DockOK'
  BY <1>1, <1>2, <1>3 DEF DockOK
<1> QED BY <1>4 DEF PoolsInv, PoolsTypeOK, PoolDown

LEMMA PoolDownStep ==
  ASSUME VmsOK, PoolsInv, NEW p \in Pools, NEW ok \in BOOLEAN, TeardownPool(p, ok) \/ TeardownNext(p, ok)
  PROVE  VmsOK' /\ PoolsInv' /\ KnownStay
<1>1. /\ PoolDown(p, ok) /\ vm' = Terminated(inst[p]) /\ flat' = flat \ inst[p] /\ UNCHANGED left
      /\ \/ prov.at = "idle" /\ Ended("done")
         \/ prov.at \in {"down", "undo"} /\ UNCHANGED <<prov, got>>
  BY DEF TeardownPool, TeardownNext
<1>2. VmsOK' /\ Live' = Live \ inst[p]
  BY <1>1, TerminatedAges DEF Ageing
<1>3. left \subseteq left' /\ left' \subseteq Pools
  BY <1>1 DEF PoolsInv, PoolsTypeOK
<1>4. PoolsInv'
  BY <1>1, <1>2, <1>3, PoolGoes, ProvEnds
     DEF PoolsInv, PoolsTypeOK, FailedProvisionEndsItsOwn, DockOK
<1>5. prov.at # "launch" /\ prov'.at # "launch"
  BY <1>1, ProvEnds
<1>6. Known \cap Live' \subseteq Known'
  BY <1>1, <1>2, <1>3, <1>5, PoolGoes DEF Known, Pools
<1> QED BY <1>2, <1>4, <1>6 DEF KnownStay

\* AWS refuses to end the instances of a pool, or docker does not answer.
LEMMA PoolRaisesStep ==
  ASSUME VmsOK, PoolsInv, NEW p \in Pools, NEW ok \in BOOLEAN,
         TerminateRaises(p, ok) \/ RemovalRaises(p, ok)
  PROVE  VmsOK' /\ PoolsInv' /\ KnownStay
<1>1. /\ PoolDown(p, ok) /\ Ended("raised") /\ UNCHANGED <<vm, flat>>
      /\ left \subseteq left' /\ left' \subseteq Pools
  BY DEF TerminateRaises, RemovalRaises, PoolsInv, PoolsTypeOK
<1>2. PoolsInv'
  BY <1>1, PoolGoes, ProvEnds DEF PoolsInv, PoolsTypeOK, FailedProvisionEndsItsOwn, DockOK
<1> QED BY <1>1, <1>2, ProvEnds DEF KnownStay, VmsOK, Unused

LEMMA LeftGoes ==
  ASSUME PoolsInv, NEW kept \in SUBSET left, RemoveLeft(kept), UNCHANGED <<keyed, listed, late>>,
         left' = left \/ left' = {}
  PROVE  DockOK'
<1>1. DockOK /\ left \in SUBSET Pools /\ kept \in SUBSET left /\ Removed(left, kept)
  BY DEF RemoveLeft, PoolsInv, PoolsTypeOK, DockOK
<1> QED BY <1>1, RemovedKeeps DEF DockOK

LEMMA RestStep ==
  ASSUME VmsOK, PoolsInv, NEW kept \in SUBSET left, TeardownRest(kept) \/ RestRaises(kept)
  PROVE  VmsOK' /\ PoolsInv' /\ KnownStay
<1>0. DockOK'
  BY LeftGoes DEF TeardownRest, RestRaises
<1>1. CASE TeardownRest(kept)
  <2>1. PICK e \in {"failed", "done"} :
          /\ prov.at \in {"down", "undo"} /\ Ended(e) /\ (e = "failed" => prov.at = "undo")
          /\ vm' = Terminated(flat) /\ flat' = {} /\ UNCHANGED inst
    BY <1>1 DEF TeardownRest, RemoveLeft
  <2>2. VmsOK' /\ Live' = Live \ flat
    BY <2>1, TerminatedAges DEF Ageing
  <2>3. PoolsInv'
    BY <1>0, <2>1, <2>2, ProvEnds DEF PoolsInv, PoolsTypeOK, FailedProvisionEndsItsOwn, DockOK
  <2>4. Known' = Known
    BY <2>1, ProvEnds DEF Known
  <2> QED BY <2>2, <2>3, <2>4 DEF KnownStay
<1>2. CASE RestRaises(kept)
  <2>1. Ended("raised") /\ UNCHANGED <<vm, inst, flat>> /\ prov.at # "launch"
    BY <1>2 DEF RestRaises, RemoveLeft
  <2>2. PoolsInv'
    BY <1>0, <2>1, ProvEnds DEF PoolsInv, PoolsTypeOK, FailedProvisionEndsItsOwn, DockOK
  <2> QED BY <2>1, <2>2, ProvEnds DEF KnownStay, VmsOK, Unused
<1> QED BY <1>1, <1>2

LEMMA PoolsInvStep ==
  ASSUME VmsOK, PoolsInv, PoolsStep
  PROVE  VmsOK' /\ PoolsInv' /\ KnownStay
BY DockerStep, ProvideStep, LaunchOneStep, RecordStep, LaunchRaisesStep, PhaseStep,
   PoolDownStep, PoolRaisesStep, RestStep, LateRunStep, PoolAssumption DEF PoolsStep

\* The machines beside a program: what has been ended does not come back.
LEMMA PoolsInvAges ==
  ASSUME VmsOK, PoolsInv, MachinesStep, UNCHANGED poolVars
  PROVE  VmsOK' /\ PoolsInv' /\ KnownStay
<1>1. VmsOK' /\ Live' \subseteq Live
  BY MachinesAge DEF Ageing
<1>2. PoolsInv' /\ Known' = Known
  BY <1>1 DEF PoolsInv, PoolsTypeOK, FailedProvisionEndsItsOwn, poolVars, dockVars, Known
<1> QED BY <1>1, <1>2 DEF KnownStay

-----------------------------------------------------------------------------
(* The commands of a cluster                                                 *)

Phases    == {"new", "plan", "launch", "expand", "setup", "join", "look", "list", "end", "over"}
CmdRecord == [kind : {"none", "up", "add", "down"}, at : Phases, cloud : {"aws", "gcp"},
              plan : SUBSET (Types \X Nat), found : SUBSET Vms, seen : SUBSET Vms,
              failed : BOOLEAN]

KindOK(r) ==
  /\ r.at = "new" => r.kind = "none"
  /\ r.at \in {"look", "list", "end"} => r.kind = "down"
  /\ r.at \in {"plan", "launch", "expand", "setup", "join"} => r.kind \in {"up", "add"}
  /\ r.kind \in {"none", "up"} => r.found = {}
  /\ r.at = "launch" => \A p \in r.plan : p[1] \in CloudTypes(r.cloud)

\* What the file refers to is there, as long as instances keep their tags.
TagsOK(r, c) ==
  /\ (r.found \cup r.seen) \cap Unused = {}
  /\ r.at \in {"setup", "join"} => Expandable(r.found \cup Own(c))

\* The set-up of a cloud is over when the next one begins.
ReadyOK(r, c) ==
  /\ r.at = "setup" /\ r.cloud = "gcp" => Of(Own(c), "aws") \subseteq ready
  /\ r.at = "join" => Own(c) \subseteq ready

Idling(v) == vm[v].type \in Aws /\ vm[v].st \in {"stopping", "stopped"}

\* What chia down has seen and is not about to end.
SeenOK(r) ==
  ~r.failed => \A v \in r.seen \cap Live : Idling(v) \/ (r.at = "end" /\ v \in r.found)

NamesUnique ==
  \A v, w \in Live : vm[v].type \in Gcp /\ vm[v].type = vm[w].type /\ vm[v].idx = vm[w].idx => v = w

OwnTypes == \A v \in Vms : vm[v].by \in Cmds => vm[v].type \in Types

ClusterInv ==
  /\ cmd \in [Cmds -> CmdRecord] /\ ready \subseteq Vms /\ joined \subseteq Vms /\ ray \in BOOLEAN
  /\ NamesUnique /\ OwnTypes
  /\ \A c \in Cmds : KindOK(cmd[c]) /\ TagsOK(cmd[c], c) /\ ReadyOK(cmd[c], c) /\ SeenOK(cmd[c])

LEMMA SameVms == VmsOK /\ vm' = vm => Ageing /\ Live' = Live /\ Unused' = Unused
<1>1. VmsOK /\ vm' = vm => VmsOK' /\ Live' = Live /\ Unused' = Unused
  BY DEF VmsOK, Live, Unused
<1> QED BY <1>1 DEF Ageing, AllKept, Kept

\* What has been noted of instances stays true.
LEMMA NotesStay ==
  ASSUME VmsOK, AllKept, VmsOK', NEW c \in Cmds, NEW r \in CmdRecord,
         \A v \in Unused : vm'[v].by # c, ready \subseteq ready',
         TagsOK(r, c), ReadyOK(r, c), SeenOK(r)
  PROVE  TagsOK(r, c)' /\ ReadyOK(r, c)' /\ SeenOK(r)'
<1>1. \A v \in Vms : v \notin Unused => Kept(v) /\ v \notin Unused'
  BY DEF AllKept, Unused, Kept
<1>2. Own(c) \cap Unused = {}
  BY CommandAssumption DEF Own, VmsOK
<1>3. Own(c)' = Own(c)
  BY <1>1, <1>2 DEF Own, Kept, Unused
<1>4. r.found \subseteq Vms /\ r.seen \subseteq Vms /\ Own(c) \subseteq Vms
  BY DEF CmdRecord, Own
<1>5. \A t : OfType(r.found \cup Own(c), t)' = OfType(r.found \cup Own(c), t)
  BY <1>1, <1>2, <1>3, <1>4 DEF OfType, TagsOK, Kept
<1>6. Of(Own(c), "aws")' = Of(Own(c), "aws")
  BY <1>1, <1>2, <1>3, <1>4 DEF Of, Kept, CloudTypes
<1>7. TagsOK(r, c)'
  <2>1. (r.found \cup r.seen) \cap Unused' = {}
    BY <1>1, <1>4 DEF TagsOK
  <2>2. r.at \in {"setup", "join"} => Expandable(r.found \cup Own(c))'
    BY <1>5 DEF TagsOK, Expandable
  <2> QED BY <2>1, <2>2 DEF TagsOK
<1>8. ReadyOK(r, c)'
  BY <1>3, <1>6 DEF ReadyOK
<1>9. SeenOK(r)'
  <2> SUFFICES ASSUME ~r.failed, NEW v \in r.seen, v \in Live'
               PROVE  Idling(v)' \/ (r.at = "end" /\ v \in r.found)
    BY DEF SeenOK
  <2>1. v \in Vms /\ v \notin Unused
    BY <1>4 DEF TagsOK
  <2>2. Kept(v) /\ v \in Live
    BY <1>1, <2>1 DEF Live, Kept, Unused
  <2> QED BY <2>1, <2>2 DEF SeenOK, Idling, Kept, Live
<1> QED BY <1>7, <1>8, <1>9

\* A step of one command.
LEMMA CommandStep ==
  ASSUME VmsOK, ClusterInv, NEW c \in Cmds, NEW r \in CmdRecord, cmd' = [cmd EXCEPT ![c] = r],
         VmsOK', AllKept, \A v \in Unused : vm'[v].by \in {c, Nobody},
         NamesUnique', OwnTypes',
         ready \subseteq ready', ready' \subseteq Vms, joined' \subseteq Vms, ray' \in BOOLEAN,
         KindOK(r), TagsOK(r, c)', ReadyOK(r, c)', SeenOK(r)'
  PROVE  ClusterInv'
<1>1. cmd' \in [Cmds -> CmdRecord]
  BY DEF ClusterInv
<1>2. ASSUME NEW d \in Cmds
      PROVE  (KindOK(cmd[d]) /\ TagsOK(cmd[d], d) /\ ReadyOK(cmd[d], d) /\ SeenOK(cmd[d]))'
  <2>1. CASE d = c
    <3>1. cmd'[d] = r
      BY <2>1 DEF ClusterInv
    <3> QED BY <2>1, <3>1 DEF KindOK, TagsOK, ReadyOK, SeenOK
  <2>2. CASE d # c
    <3>1. PICK q \in CmdRecord : q = cmd[d] /\ cmd'[d] = q
      BY <2>2 DEF ClusterInv
    <3>2. \A v \in Unused : vm'[v].by # d
      BY <2>2, CommandAssumption
    <3>3. TagsOK(q, d)' /\ ReadyOK(q, d)' /\ SeenOK(q)'
      BY <3>1, <3>2, NotesStay DEF ClusterInv
    <3>4. KindOK(q)
      BY <3>1 DEF ClusterInv
    <3> QED BY <3>1, <3>3, <3>4 DEF KindOK, TagsOK, ReadyOK, SeenOK
  <2> QED BY <2>1, <2>2
<1> QED BY <1>1, <1>2 DEF ClusterInv

\* A step of one command that leaves the instances alone.
LEMMA CommandOnly ==
  ASSUME VmsOK, ClusterInv, NEW c \in Cmds, NEW r \in CmdRecord, cmd' = [cmd EXCEPT ![c] = r],
         vm' = vm, ready \subseteq ready', ready' \subseteq Vms, joined' \subseteq Vms,
         ray' \in BOOLEAN, KindOK(r), TagsOK(r, c), ReadyOK(r, c)', SeenOK(r)
  PROVE  VmsOK' /\ ClusterInv'
<1>1. VmsOK' /\ AllKept /\ Live' = Live /\ Unused' = Unused /\ \A v \in Unused : vm'[v].by = Nobody
  BY SameVms DEF Ageing, VmsOK
<1>2. NamesUnique' /\ OwnTypes'
  BY <1>1 DEF ClusterInv, NamesUnique, OwnTypes
<1>3. TagsOK(r, c)' /\ SeenOK(r)'
  BY <1>1 DEF TagsOK, SeenOK, Idling, Expandable, Own, OfType
<1> QED BY <1>1, <1>2, <1>3, CommandStep

LEMMA ClusterInvInit == MachinesInit /\ NodesInit => VmsOK /\ ClusterInv
<1> SUFFICES ASSUME MachinesInit, NodesInit PROVE VmsOK /\ ClusterInv
  OBVIOUS
<1>1. vm \in [Vms -> VmRecord] /\ \A v \in Vms : vm[v].st = "none" /\ vm[v].by = Nobody
  BY DEF MachinesInit, Blank, VmRecord, VmStates
<1>2. VmsOK /\ Live = {} /\ OwnTypes /\ NamesUnique
  BY <1>1, CommandAssumption DEF VmsOK, Unused, Live, OwnTypes, NamesUnique
<1>3. cmd \in [Cmds -> CmdRecord]
  BY DEF NodesInit, CmdRecord, Phases
<1>4. ASSUME NEW c \in Cmds
      PROVE  KindOK(cmd[c]) /\ TagsOK(cmd[c], c) /\ ReadyOK(cmd[c], c) /\ SeenOK(cmd[c])
  <2>1. cmd[c] = [kind |-> "none", at |-> "new", cloud |-> "aws", plan |-> {},
                  found |-> {}, seen |-> {}, failed |-> FALSE]
    BY DEF NodesInit
  <2> QED BY <2>1 DEF KindOK, TagsOK, ReadyOK, SeenOK
<1> QED BY <1>2, <1>3, <1>4 DEF ClusterInv, NodesInit

\* The record of a command, and what it is after a step.
LEMMA Fields ==
  ASSUME ClusterInv, NEW c \in Cmds
  PROVE  /\ cmd[c] \in CmdRecord /\ KindOK(cmd[c])
         /\ TagsOK(cmd[c], c) /\ ReadyOK(cmd[c], c) /\ SeenOK(cmd[c])
         /\ ready \subseteq Vms /\ joined \subseteq Vms /\ ray \in BOOLEAN
BY DEF ClusterInv

\* A command goes on, and has neither seen nor found more.
LEMMA GoesOn ==
  ASSUME VmsOK, ClusterInv, NEW c \in Cmds, NEW a \in Phases \ {"new", "launch", "end"},
         NEW k \in {"aws", "gcp"}, NEW kind \in {"none", "up", "add", "down"},
         cmd' = [cmd EXCEPT ![c] = [@ EXCEPT !.kind = kind, !.at = a, !.cloud = k]],
         vm' = vm, ready \subseteq ready', ready' \subseteq Vms, joined' \subseteq Vms,
         ray' \in BOOLEAN, cmd[c].at # "end",
         cmd[c].at = "new" \/ kind = cmd[c].kind,
         a \in {"look", "list", "end"} => kind = "down",
         a \in {"plan", "launch", "expand", "setup", "join"} => kind \in {"up", "add"},
         a \in {"setup", "join"} => Expandable(Have(c)),
         a = "setup" /\ k = "gcp" => Of(Own(c), "aws") \subseteq ready',
         a = "join" => Own(c) \subseteq ready'
  PROVE  VmsOK' /\ ClusterInv'
<1>1. PICK r \in CmdRecord :
        /\ cmd' = [cmd EXCEPT ![c] = r]
        /\ r.kind = kind /\ r.at = a /\ r.cloud = k /\ r.plan = cmd[c].plan
        /\ r.found = cmd[c].found /\ r.seen = cmd[c].seen /\ r.failed = cmd[c].failed
  <2>1. cmd[c] \in CmdRecord
    BY Fields
  <2> DEFINE r == [cmd[c] EXCEPT !.kind = kind, !.at = a, !.cloud = k]
  <2>2. /\ r \in CmdRecord
        /\ r.kind = kind /\ r.at = a /\ r.cloud = k /\ r.plan = cmd[c].plan
        /\ r.found = cmd[c].found /\ r.seen = cmd[c].seen /\ r.failed = cmd[c].failed
    BY <2>1 DEF CmdRecord
  <2>3. cmd' = [cmd EXCEPT ![c] = r]
    OBVIOUS
  <2> HIDE DEF r
  <2> QED BY <2>2, <2>3
<1>2. KindOK(r)
  BY <1>1, Fields DEF KindOK
<1>3. TagsOK(r, c) /\ SeenOK(r)
  BY <1>1, Fields DEF TagsOK, SeenOK, Have
<1>4. ReadyOK(r, c)'
  BY <1>1 DEF ReadyOK, Own, Of
<1> QED BY <1>1, <1>2, <1>3, <1>4, CommandOnly

\* A command ends.
LEMMA Ends ==
  ASSUME VmsOK, ClusterInv, NEW c \in Cmds,
         NEW S \in {cmd[c].seen, {}}, cmd[c].at # "end" \/ S = {}, Set(c, [Over(c) EXCEPT !.seen = S]),
         vm' = vm, ready \subseteq ready', ready' \subseteq Vms, joined' \subseteq Vms, ray' \in BOOLEAN
  PROVE  VmsOK' /\ ClusterInv'
<1>1. PICK r \in CmdRecord :
        /\ cmd' = [cmd EXCEPT ![c] = r]
        /\ r.at = "over" /\ r.found = {} /\ r.seen = S /\ r.failed = cmd[c].failed
  <2>1. cmd[c] \in CmdRecord
    BY Fields
  <2> DEFINE r == [cmd[c] EXCEPT !.at = "over", !.cloud = "aws", !.plan = {}, !.found = {}, !.seen = S]
  <2>2. /\ r \in CmdRecord
        /\ r.at = "over" /\ r.found = {} /\ r.seen = S /\ r.failed = cmd[c].failed
    BY <2>1 DEF CmdRecord, Phases
  <2>3. cmd' = [cmd EXCEPT ![c] = r]
    BY <2>1 DEF Set, Over, CmdRecord
  <2> HIDE DEF r
  <2> QED BY <2>2, <2>3
<1>2. KindOK(r) /\ TagsOK(r, c) /\ SeenOK(r)
  BY <1>1, Fields DEF KindOK, TagsOK, SeenOK
<1>3. ReadyOK(r, c)'
  BY <1>1 DEF ReadyOK
<1> QED BY <1>1, <1>2, <1>3, CommandOnly

LEMMA ExitEnds ==
  ASSUME VmsOK, ClusterInv, NEW c \in Cmds, cmd[c].at # "end", Exit(c),
         vm' = vm, ready \subseteq ready', ready' \subseteq Vms, joined' \subseteq Vms, ray' \in BOOLEAN
  PROVE  VmsOK' /\ ClusterInv'
<1>1. cmd[c] \in CmdRecord
  BY Fields
<1>2. Over(c) = [Over(c) EXCEPT !.seen = cmd[c].seen]
  BY <1>1 DEF Over, CmdRecord
<1> QED BY <1>2, Ends DEF Exit

\* What RollbackSparesOthers and SetupBeforeJoin say of a step.
Unharmed ==
  \A c \in Cmds : StepOf(c) /\ cmd[c].kind # "down" =>
    \A v \in Live \ Live' :
      \/ vm[v].by = c
      \/ \E w \in Of(Own(c), "gcp") \ Live : v \in Hit({w}, "gcp")

SetUpFirst ==
  \A c \in Cmds : StepOf(c) =>
    \A v \in joined' \ joined : v \in ready \/ (cmd[c].kind = "add" /\ vm[v].by # c)

LEMMA NobodyHarmed == VmsOK /\ vm' = vm => Unharmed
BY SameVms DEF Unharmed

LEMMA BeginStep ==
  ASSUME VmsOK, ClusterInv, NEW c \in Cmds, NEW kind \in {"up", "add", "down"}, Begin(c, kind)
  PROVE  VmsOK' /\ ClusterInv' /\ Unharmed /\ SetUpFirst
<1>1. PICK a \in {"look", "plan"} :
        /\ cmd[c].at = "new" /\ (a = "look" <=> kind = "down")
        /\ cmd' = [cmd EXCEPT ![c] = [@ EXCEPT !.kind = kind, !.at = a, !.cloud = "aws"]]
        /\ UNCHANGED <<vm, ready, joined, ray>>
  BY Fields DEF Begin, Go, Set, CmdRecord, ClusterInv
<1>2. VmsOK' /\ ClusterInv'
  BY <1>1, Fields, GoesOn DEF Phases
<1> QED BY <1>1, <1>2, NobodyHarmed DEF SetUpFirst

LEMMA PlanStep ==
  ASSUME VmsOK, ClusterInv, NEW c \in Cmds, Plan(c)
  PROVE  VmsOK' /\ ClusterInv' /\ Unharmed /\ SetUpFirst
<1> DEFINE f == IF cmd[c].kind = "add" THEN Discovered(cmd[c].cloud) ELSE {}
           m == UNION {{<<t, i>> : i \in Missing(t, f)} : t \in CloudTypes(cmd[c].cloud)}
           q == [cmd[c] EXCEPT !.at = "launch", !.found = @ \cup f, !.plan = m]
<1>1. cmd' = [cmd EXCEPT ![c] = q] /\ cmd[c].at = "plan" /\ UNCHANGED <<vm, ready, joined, ray>>
  BY DEF Plan, Set
<1>2. f \subseteq Vms /\ f \cap Unused = {} /\ (cmd[c].kind # "add" => f = {})
  BY DEF Discovered, Of, Running, Unused
<1>3. CloudTypes(cmd[c].cloud) \subseteq Types
  BY DEF CloudTypes, Types
<1>4. \A p \in m : p \in Types \X Nat /\ p[1] \in CloudTypes(cmd[c].cloud)
  <2>1. ASSUME NEW t \in Types, NEW i \in Missing(t, f) PROVE i \in Nat
    BY NodeTypeAssumption DEF Missing
  <2> QED BY <1>3, <2>1
<1> HIDE DEF f, m
<1>5. PICK r \in CmdRecord :
        /\ cmd' = [cmd EXCEPT ![c] = r]
        /\ r.kind = cmd[c].kind /\ r.at = "launch" /\ r.cloud = cmd[c].cloud /\ r.plan = m
        /\ r.found = cmd[c].found \cup f /\ r.seen = cmd[c].seen /\ r.failed = cmd[c].failed
  <2>1. cmd[c] \in CmdRecord
    BY Fields
  <2>2. /\ q \in CmdRecord
        /\ q.kind = cmd[c].kind /\ q.at = "launch" /\ q.cloud = cmd[c].cloud /\ q.plan = m
        /\ q.found = cmd[c].found \cup f /\ q.seen = cmd[c].seen /\ q.failed = cmd[c].failed
    BY <1>2, <1>4, <2>1 DEF CmdRecord, Phases
  <2> HIDE DEF q
  <2> QED BY <1>1, <2>2
<1> HIDE DEF q
<1>6. KindOK(r) /\ TagsOK(r, c) /\ SeenOK(r)
  BY <1>1, <1>2, <1>4, <1>5, Fields DEF KindOK, TagsOK, SeenOK
<1>7. ReadyOK(r, c)'
  BY <1>5 DEF ReadyOK
<1>8. VmsOK' /\ ClusterInv'
  BY <1>1, <1>5, <1>6, <1>7, Fields, CommandOnly
<1> QED BY <1>1, <1>8, NobodyHarmed DEF SetUpFirst

LEMMA CollectStep ==
  ASSUME VmsOK, ClusterInv, NEW c \in Cmds, Collect(c)
  PROVE  VmsOK' /\ ClusterInv' /\ Unharmed /\ SetUpFirst
<1>1. PICK a \in {"plan", "expand"}, k \in {"aws", "gcp"} :
        /\ cmd[c].at = "launch"
        /\ cmd' = [cmd EXCEPT ![c] = [@ EXCEPT !.kind = cmd[c].kind, !.at = a, !.cloud = k]]
        /\ UNCHANGED <<vm, ready, joined, ray>>
  BY Fields DEF Collect, Proceed, Go, Set, CmdRecord, ClusterInv
<1>2. cmd[c].kind \in {"up", "add"}
  BY <1>1, Fields DEF KindOK
<1>3. VmsOK' /\ ClusterInv'
  BY <1>1, <1>2, Fields, GoesOn DEF Phases
<1> QED BY <1>1, <1>3, NobodyHarmed DEF SetUpFirst

LEMMA ExpandStep ==
  ASSUME VmsOK, ClusterInv, NEW c \in Cmds, Expand(c)
  PROVE  VmsOK' /\ ClusterInv' /\ Unharmed /\ SetUpFirst
<1>1. cmd[c].at = "expand" /\ UNCHANGED <<vm, ready, joined, ray>>
  BY DEF Expand
<1>2. CASE Expandable(Have(c))
  <2>1. PICK a \in {"setup"}, k \in {"aws"} :
          cmd' = [cmd EXCEPT ![c] = [@ EXCEPT !.kind = cmd[c].kind, !.at = a, !.cloud = k]]
    BY <1>2, Fields DEF Expand, Go, Set, CmdRecord, ClusterInv
  <2>2. cmd[c].kind \in {"up", "add"}
    BY <1>1, Fields DEF KindOK
  <2>3. ready' \subseteq Vms /\ joined' \subseteq Vms /\ ray' \in BOOLEAN
    BY <1>1, Fields
  <2>4. VmsOK' /\ ClusterInv'
    BY <1>1, <1>2, <2>1, <2>2, <2>3, GoesOn DEF Phases
  <2> QED BY <1>1, <2>4, NobodyHarmed DEF SetUpFirst
<1>3. CASE ~Expandable(Have(c))
  BY <1>1, <1>3, Fields, ExitEnds, NobodyHarmed DEF Expand, SetUpFirst
<1> QED BY <1>2, <1>3

LEMMA SetupStep ==
  ASSUME VmsOK, ClusterInv, NEW c \in Cmds, NEW ok, Setup(c, ok)
  PROVE  VmsOK' /\ ClusterInv' /\ Unharmed /\ SetUpFirst
<1>1. /\ cmd[c].at = "setup" /\ ok \subseteq Of(Own(c), cmd[c].cloud) /\ ready' = ready \cup ok
      /\ ready \subseteq ready' /\ ready' \subseteq Vms /\ UNCHANGED <<vm, joined, ray>>
  BY Fields DEF Setup, Of, Own
<1>2. cmd[c].kind \in {"up", "add"} /\ cmd[c].cloud \in {"aws", "gcp"} /\ Expandable(Have(c))
  BY <1>1, Fields DEF KindOK, TagsOK, CmdRecord, Have
<1>3. CASE ok # Of(Own(c), cmd[c].cloud)
  BY <1>1, <1>3, Fields, ExitEnds, NobodyHarmed DEF Setup, SetUpFirst
<1>4. CASE ok = Of(Own(c), cmd[c].cloud) /\ cmd[c].cloud = "aws"
  <2>1. cmd' = [cmd EXCEPT ![c] = [@ EXCEPT !.kind = cmd[c].kind, !.at = "setup", !.cloud = "gcp"]]
    <3>1. cmd' = [cmd EXCEPT ![c] = [cmd[c] EXCEPT !.cloud = "gcp"]]
      BY <1>4 DEF Setup, Proceed, Set
    <3>2. [cmd[c] EXCEPT !.cloud = "gcp"] =
            [cmd[c] EXCEPT !.kind = cmd[c].kind, !.at = "setup", !.cloud = "gcp"]
      BY <1>1, Fields DEF CmdRecord
    <3> QED BY <3>1, <3>2
  <2>2. Of(Own(c), "aws") \subseteq ready'
    BY <1>1, <1>4
  <2> QED BY <1>1, <1>2, <2>1, <2>2, Fields, GoesOn, NobodyHarmed DEF Phases, SetUpFirst
<1>5. CASE ok = Of(Own(c), cmd[c].cloud) /\ cmd[c].cloud = "gcp"
  <2>1. cmd' = [cmd EXCEPT ![c] = [@ EXCEPT !.kind = cmd[c].kind, !.at = "join", !.cloud = "aws"]]
    BY <1>1, <1>5, Fields DEF Setup, Proceed, Go, Set, CmdRecord, ClusterInv
  <2>2. Own(c) \subseteq Of(Own(c), "aws") \cup Of(Own(c), "gcp")
    BY DEF Own, Of, CloudTypes, ClusterInv, OwnTypes, Types
  <2>3. Own(c) \subseteq ready'
    BY <1>1, <1>5, <2>2, Fields DEF ReadyOK
  <2> QED BY <1>1, <1>2, <2>1, <2>3, Fields, GoesOn, NobodyHarmed DEF Phases, SetUpFirst
<1> QED BY <1>2, <1>3, <1>4, <1>5

LEMMA LookStep ==
  ASSUME VmsOK, ClusterInv, NEW c \in Cmds, Look(c)
  PROVE  VmsOK' /\ ClusterInv' /\ Unharmed /\ SetUpFirst
<1>1. /\ cmd[c].at = "look" /\ UNCHANGED <<vm, ready>>
      /\ \/ Exit(c) /\ UNCHANGED <<joined, ray>>
         \/ Go(c, "list", cmd[c]) /\ joined' = {} /\ ray' = FALSE
  BY DEF Look
<1>2. CASE Exit(c) /\ UNCHANGED <<joined, ray>>
  BY <1>1, <1>2, Fields, ExitEnds, NobodyHarmed DEF SetUpFirst
<1>3. CASE Go(c, "list", cmd[c]) /\ joined' = {} /\ ray' = FALSE
  <2>1. PICK a \in {"list"}, k \in {"aws"} :
          cmd' = [cmd EXCEPT ![c] = [@ EXCEPT !.kind = cmd[c].kind, !.at = a, !.cloud = k]]
    BY <1>3, Fields DEF Go, Set, CmdRecord, ClusterInv
  <2>2. cmd[c].kind = "down"
    BY <1>1, Fields DEF KindOK
  <2>3. ready' \subseteq Vms /\ joined' \subseteq Vms /\ ray' \in BOOLEAN
    BY <1>1, <1>3, Fields
  <2>4. VmsOK' /\ ClusterInv'
    BY <1>1, <1>3, <2>1, <2>2, <2>3, GoesOn DEF Phases
  <2> QED BY <1>1, <1>3, <2>4, NobodyHarmed DEF SetUpFirst
<1> QED BY <1>1, <1>2, <1>3

LEMMA AbandonStep ==
  ASSUME VmsOK, ClusterInv, NEW c \in Cmds, Abandon(c)
  PROVE  VmsOK' /\ ClusterInv' /\ Unharmed /\ SetUpFirst
BY Fields, Ends, NobodyHarmed DEF Abandon, SetUpFirst

\* The choice of a launch is one that is planned.
LEMMA DueIsPlanned ==
  ASSUME ClusterInv, NEW c \in Cmds, cmd[c].plan # {}
  PROVE  Due(c) \in cmd[c].plan /\ Due(c) \in Types \X Nat
<1>1. cmd[c].plan \subseteq Types \X Nat /\ Types \subseteq Nat
  BY Fields, NodeTypeAssumption DEF CmdRecord
<1> DEFINE T == {p[1] : p \in cmd[c].plan}
<1>2. PICK t \in T : \A u \in T : t <= u
  <2>1. T \subseteq Nat /\ T # {}
    BY <1>1
  <2> HIDE DEF T
  <2> QED BY <2>1, LeastNumber
<1> DEFINE I == {i \in Nat : <<t, i>> \in cmd[c].plan}
<1>3. PICK i \in I : \A j \in I : i <= j
  <2>1. I \subseteq Nat /\ I # {}
    BY <1>1, <1>2
  <2> HIDE DEF I
  <2> QED BY <2>1, LeastNumber
<1>4. <<t, i>> \in cmd[c].plan
  OBVIOUS
<1>5. \A q \in cmd[c].plan : t < q[1] \/ (t = q[1] /\ i <= q[2])
  <2> SUFFICES ASSUME NEW q \in cmd[c].plan, ~(t < q[1]) PROVE t = q[1] /\ i <= q[2]
    OBVIOUS
  <2>1. q[1] \in T /\ q[1] \in Nat /\ q[2] \in Nat /\ q = <<q[1], q[2]>> /\ t \in Nat
    BY <1>1
  <2>2. t = q[1]
    <3>1. t <= q[1]
      <4> HIDE DEF T
      <4> QED BY <1>2, <2>1
    <3> QED BY <2>1, <3>1
  <2>3. q[2] \in I
    BY <2>1, <2>2
  <2> QED BY <1>3, <2>2, <2>3
<1>6. \E p \in cmd[c].plan : \A q \in cmd[c].plan : p[1] < q[1] \/ (p[1] = q[1] /\ p[2] <= q[2])
  BY <1>4, <1>5
<1> QED BY <1>1, <1>6 DEF Due

LEMMA LaunchStep ==
  ASSUME VmsOK, ClusterInv, NEW c \in Cmds, Launch(c)
  PROVE  VmsOK' /\ ClusterInv' /\ Unharmed /\ SetUpFirst
<1>1. PICK d \in cmd[c].plan :
        /\ d \in Types \X Nat /\ cmd[c].at = "launch" /\ Unused # {}
        /\ cmd[c].cloud = "gcp" => ~Taken(d)
        /\ vm' = Launched(d[1], d[2], c)
        /\ cmd' = [cmd EXCEPT ![c] = [cmd[c] EXCEPT !.plan = cmd[c].plan \ {d}]]
        /\ UNCHANGED <<ready, joined, ray>>
  BY DueIsPlanned, Fields DEF Launch, Set, CmdRecord
<1>2. /\ VmsOK' /\ AllKept /\ NextVm \in Unused
      /\ vm'[NextVm] = [st |-> "pending", type |-> d[1], idx |-> d[2], by |-> c]
      /\ \A v \in Vms : v # NextVm => vm'[v] = vm[v]
      /\ Live' = Live \cup {NextVm}
  BY <1>1, LaunchedKeeps
<1>3. PICK r \in CmdRecord :
        /\ cmd' = [cmd EXCEPT ![c] = r] /\ r.at = "launch" /\ r.plan \subseteq cmd[c].plan
        /\ r.kind = cmd[c].kind /\ r.cloud = cmd[c].cloud
        /\ r.found = cmd[c].found /\ r.seen = cmd[c].seen /\ r.failed = cmd[c].failed
  <2> DEFINE q == [cmd[c] EXCEPT !.plan = cmd[c].plan \ {d}]
  <2>1. /\ q \in CmdRecord /\ q.at = "launch" /\ q.plan \subseteq cmd[c].plan
        /\ q.kind = cmd[c].kind /\ q.cloud = cmd[c].cloud
        /\ q.found = cmd[c].found /\ q.seen = cmd[c].seen /\ q.failed = cmd[c].failed
    BY <1>1, Fields DEF CmdRecord
  <2>2. cmd' = [cmd EXCEPT ![c] = q]
    BY <1>1
  <2> HIDE DEF q
  <2> QED BY <2>1, <2>2
<1>4. d[1] \in CloudTypes(cmd[c].cloud) /\ cmd[c].cloud \in {"aws", "gcp"}
  BY <1>1, Fields DEF KindOK, CmdRecord
<1>5. NamesUnique'
  <2> SUFFICES ASSUME NEW v \in Live', NEW w \in Live', vm'[v].type \in Gcp,
                      vm'[v].type = vm'[w].type, vm'[v].idx = vm'[w].idx, v # w
               PROVE  FALSE
    BY DEF NamesUnique
  <2>1. CASE v \in Live /\ w \in Live
    BY <1>2, <2>1 DEF ClusterInv, NamesUnique, Live, Unused
  <2>2. ASSUME NEW x \in Live, x # NextVm, d[1] \in Gcp, vm'[x].type = d[1], vm'[x].idx = d[2]
        PROVE  FALSE
    <3>1. vm[x].type = d[1] /\ vm[x].idx = d[2]
      BY <1>2, <2>2 DEF Live
    <3>2. Taken(d)
      BY <1>1, <3>1 DEF Taken
    <3> QED BY <1>1, <1>4, <2>2, <3>2, NodeTypeAssumption DEF CloudTypes
  <2> QED BY <1>2, <2>1, <2>2
<1>6. OwnTypes'
  BY <1>1, <1>2 DEF ClusterInv, OwnTypes
<1>7. KindOK(r)
  BY <1>1, <1>3, Fields DEF KindOK
<1>8. TagsOK(r, c)' /\ ReadyOK(r, c)' /\ SeenOK(r)'
  <2>1. (r.found \cup r.seen) \cap Unused' = {} /\ NextVm \notin r.seen
    BY <1>2, <1>3, Fields DEF TagsOK, Unused
  <2>2. SeenOK(r)'
    BY <1>1, <1>2, <1>3, <2>1, Fields DEF SeenOK, Idling, Live
  <2> QED BY <1>3, <2>1, <2>2 DEF TagsOK, ReadyOK
<1>9. \A v \in Unused : vm'[v].by \in {c, Nobody}
  BY <1>2 DEF VmsOK, Unused
<1>10. ClusterInv'
  BY <1>1, <1>2, <1>3, <1>5, <1>6, <1>7, <1>8, <1>9, Fields, CommandStep
<1> QED BY <1>1, <1>2, <1>10 DEF Unharmed, SetUpFirst

LEMMA ListStep ==
  ASSUME VmsOK, ClusterInv, NEW c \in Cmds, List(c)
  PROVE  VmsOK' /\ ClusterInv' /\ Unharmed /\ SetUpFirst
<1> DEFINE k    == cmd[c].cloud
           live == Of(Live, k)
           f    == IF k = "aws" THEN {v \in live : vm[v].st # "stopping"} ELSE live
           q    == [cmd[c] EXCEPT !.at = "end", !.seen = @ \cup live, !.found = f]
<1>1. cmd' = [cmd EXCEPT ![c] = q] /\ cmd[c].at = "list" /\ UNCHANGED <<vm, ready, joined, ray>>
  BY DEF List, Set
<1>2. live \subseteq Live /\ live \subseteq Vms /\ f \subseteq live /\ live \cap Unused = {}
  BY DEF Of, Live, Unused
<1>3. \A v \in live : v \in f \/ Idling(v)
  BY DEF Of, CloudTypes, Idling
<1> HIDE DEF f, live
<1>4. PICK r \in CmdRecord :
        /\ cmd' = [cmd EXCEPT ![c] = r]
        /\ r.kind = cmd[c].kind /\ r.at = "end"
        /\ r.found = f /\ r.seen = cmd[c].seen \cup live /\ r.failed = cmd[c].failed
  <2>1. /\ q \in CmdRecord
        /\ q.kind = cmd[c].kind /\ q.at = "end"
        /\ q.found = f /\ q.seen = cmd[c].seen \cup live /\ q.failed = cmd[c].failed
    BY <1>2, Fields DEF CmdRecord, Phases
  <2> HIDE DEF q
  <2> QED BY <1>1, <2>1
<1> HIDE DEF q
<1>5. KindOK(r)
  BY <1>1, <1>4, Fields DEF KindOK
<1>6. TagsOK(r, c)
  BY <1>2, <1>4, Fields DEF TagsOK
<1>7. SeenOK(r)
  BY <1>1, <1>3, <1>4, Fields DEF SeenOK
<1>8. ReadyOK(r, c)'
  BY <1>4 DEF ReadyOK
<1>9. VmsOK' /\ ClusterInv'
  BY <1>1, <1>4, <1>5, <1>6, <1>7, <1>8, Fields, CommandOnly
<1> QED BY <1>1, <1>9, NobodyHarmed DEF SetUpFirst

\* What ends instances leaves the tags of the others.
LEMMA TagsAge ==
  ASSUME VmsOK, ClusterInv, Ageing, Live' \subseteq Live
  PROVE  NamesUnique' /\ OwnTypes'
<1>1. \A v \in Live' : v \in Live /\ Kept(v)
  BY DEF Ageing, AllKept, Live
<1>2. NamesUnique'
  BY <1>1 DEF ClusterInv, NamesUnique, Kept
<1>3. OwnTypes'
  BY DEF ClusterInv, OwnTypes, Ageing, AllKept, Kept, Unused
<1> QED BY <1>2, <1>3

LEMMA RollbackStep ==
  ASSUME VmsOK, ClusterInv, NEW c \in Cmds, NEW S, Rollback(c, S)
  PROVE  VmsOK' /\ ClusterInv' /\ Unharmed /\ SetUpFirst
<1>1. /\ cmd[c].at = "launch" /\ S \subseteq Of(Own(c), cmd[c].cloud)
      /\ vm' = Terminated(Hit(S, cmd[c].cloud)) /\ Exit(c) /\ UNCHANGED <<ready, joined, ray>>
  BY DEF Rollback
<1>2. Ageing /\ VmsOK' /\ AllKept /\ Live' = Live \ Hit(S, cmd[c].cloud)
      /\ \A v \in Unused : vm'[v].by = Nobody
  BY <1>1, TerminatedAges DEF Ageing, VmsOK
<1>3. PICK r \in CmdRecord :
        /\ cmd' = [cmd EXCEPT ![c] = r]
        /\ r.at = "over" /\ r.found = {} /\ r.seen = cmd[c].seen /\ r.failed = cmd[c].failed
  <2> DEFINE q == [cmd[c] EXCEPT !.at = "over", !.cloud = "aws", !.plan = {}, !.found = {}]
  <2>1. /\ q \in CmdRecord
        /\ q.at = "over" /\ q.found = {} /\ q.seen = cmd[c].seen /\ q.failed = cmd[c].failed
    BY Fields DEF CmdRecord, Phases
  <2>2. cmd' = [cmd EXCEPT ![c] = q]
    BY <1>1 DEF Exit, Over, Set
  <2> HIDE DEF q
  <2> QED BY <2>1, <2>2
<1>4. KindOK(r) /\ TagsOK(r, c) /\ ReadyOK(r, c) /\ SeenOK(r)
  BY <1>1, <1>3, Fields DEF KindOK, TagsOK, ReadyOK, SeenOK
<1>5. TagsOK(r, c)' /\ ReadyOK(r, c)' /\ SeenOK(r)'
  BY <1>1, <1>2, <1>4, CommandAssumption, NotesStay
<1>6. ClusterInv'
  BY <1>1, <1>2, <1>3, <1>4, <1>5, Fields, TagsAge, CommandStep
<1>7. \A v \in Live \ Live' :
        \/ vm[v].by = c
        \/ \E w \in Of(Own(c), "gcp") \ Live : v \in Hit({w}, "gcp")
  <2> SUFFICES ASSUME NEW v \in Live, v \in Hit(S, cmd[c].cloud), vm[v].by # c
               PROVE  \E w \in Of(Own(c), "gcp") \ Live : v \in Hit({w}, "gcp")
    BY <1>2
  <2>1. cmd[c].cloud = "gcp"
    BY <1>1, Fields DEF Hit, Of, Own, CmdRecord
  <2>2. PICK w \in S : vm[w].type = vm[v].type /\ vm[w].idx = vm[v].idx
    BY <2>1 DEF Hit
  <2>3. w \in Of(Own(c), "gcp") /\ vm[w].type \in Gcp /\ vm[w].by = c
    BY <1>1, <2>1 DEF Of, Own, CloudTypes
  <2>4. w \notin Live
    BY <2>2, <2>3 DEF ClusterInv, NamesUnique
  <2>5. v \in Hit({w}, "gcp")
    BY <2>2 DEF Hit
  <2> QED BY <2>3, <2>4, <2>5
<1>8. \A d \in Cmds : StepOf(d) => d = c
  BY <1>3 DEF StepOf, ClusterInv
<1> QED BY <1>1, <1>2, <1>6, <1>7, <1>8 DEF Unharmed, SetUpFirst

LEMMA EndStep ==
  ASSUME VmsOK, ClusterInv, NEW c \in Cmds, NEW S, End(c, S)
  PROVE  VmsOK' /\ ClusterInv' /\ Unharmed /\ SetUpFirst
<1> DEFINE k   == cmd[c].cloud
           all == S = cmd[c].found /\ \A v \in S : k = "gcp" => Hit({v}, k) # {}
<1>1. /\ cmd[c].at = "end" /\ S \subseteq cmd[c].found
      /\ vm' = Terminated(Hit(S, k)) /\ UNCHANGED <<ready, joined, ray>>
  BY DEF End
<1>2. Ageing /\ VmsOK' /\ AllKept /\ Live' = Live \ Hit(S, k)
      /\ \A v \in Unused : vm'[v].by = Nobody
  BY <1>1, TerminatedAges DEF Ageing, VmsOK
<1>3. PICK r \in CmdRecord :
        /\ cmd' = [cmd EXCEPT ![c] = r]
        /\ r.kind = cmd[c].kind /\ r.at \in {"list", "over"} /\ r.found = {}
        /\ r.seen = cmd[c].seen /\ r.failed = (cmd[c].failed \/ ~all)
  <2> DEFINE q == [cmd[c] EXCEPT !.at = "list", !.found = {}, !.failed = @ \/ ~all]
             a == [q EXCEPT !.cloud = "gcp"]
             g == [q EXCEPT !.at = "over", !.cloud = "aws"]
  <2>1. /\ q \in CmdRecord
        /\ q.kind = cmd[c].kind /\ q.at = "list" /\ q.found = {}
        /\ q.seen = cmd[c].seen /\ q.failed = (cmd[c].failed \/ ~all)
    BY Fields DEF CmdRecord, Phases
  <2>2. cmd' = [cmd EXCEPT ![c] = a] \/ cmd' = [cmd EXCEPT ![c] = g]
    BY DEF End, Proceed, Go, Set
  <2> HIDE DEF q, all
  <2>3. /\ a \in CmdRecord
        /\ a.kind = q.kind /\ a.at = "list" /\ a.found = q.found
        /\ a.seen = q.seen /\ a.failed = q.failed
    BY <2>1 DEF CmdRecord, Phases
  <2>4. /\ g \in CmdRecord
        /\ g.kind = q.kind /\ g.at = "over" /\ g.found = q.found
        /\ g.seen = q.seen /\ g.failed = q.failed
    BY <2>1 DEF CmdRecord, Phases
  <2> HIDE DEF a, g
  <2> QED BY <2>1, <2>2, <2>3, <2>4
<1>4. cmd[c].kind = "down"
  BY <1>1, Fields DEF KindOK
<1>5. KindOK(r)
  BY <1>3, <1>4 DEF KindOK
<1>6. TagsOK(r, c)' /\ ReadyOK(r, c)'
  <2>1. r.seen \cap Unused' = {}
    BY <1>2, <1>3, Fields DEF TagsOK, AllKept, Kept, Unused
  <2> QED BY <1>3, <2>1 DEF TagsOK, ReadyOK
<1>7. SeenOK(r)'
  <2> SUFFICES ASSUME ~r.failed, NEW v \in cmd[c].seen, v \in Live' PROVE Idling(v)'
    BY <1>3 DEF SeenOK
  <2>1. v \in Live /\ v \notin Hit(S, k)
    BY <1>2
  <2>2. S = cmd[c].found /\ ~cmd[c].failed /\ k \in {"aws", "gcp"}
    BY <1>3, Fields DEF CmdRecord
  <2>3. v \notin cmd[c].found
    BY <2>1, <2>2 DEF Hit
  <2>4. Idling(v)
    BY <2>1, <2>2, <2>3, Fields DEF SeenOK
  <2> QED BY <1>2, <2>1, <2>4 DEF Idling, AllKept, Kept, Live
<1> HIDE DEF k, all
<1>8. ClusterInv'
  BY <1>1, <1>2, <1>3, <1>5, <1>6, <1>7, Fields, TagsAge, CommandStep
<1>9. \A d \in Cmds : StepOf(d) => d = c
  BY <1>3 DEF StepOf, ClusterInv
<1> QED BY <1>1, <1>2, <1>4, <1>8, <1>9 DEF Unharmed, SetUpFirst

-----------------------------------------------------------------------------
(* What a reference of the file means                                        *)

\* The rank of an instance: how many are before it.
LEMMA RankGrows ==
  ASSUME VmsOK, NEW S \in SUBSET Vms, NEW v \in S
  PROVE  /\ Cardinality({w \in S : Before(w, v)}) \in 0 .. Cardinality(S) - 1
         /\ \A u \in S : u = v \/ Before(u, v) \/ Before(v, u)
         /\ \A u \in S : Before(u, v) => Cardinality({w \in S : Before(w, u)})
                                           # Cardinality({w \in S : Before(w, v)})
<1> DEFINE Below(u) == {w \in S : Before(w, u)}
           N        == Cardinality(S)
<1>1. IsFiniteSet(S) /\ N \in Nat
  BY MachineAssumption, FS_Subset, FS_CardinalityType
<1>2. \A u \in S : vm[u].idx \in Nat /\ u \in Nat
  BY MachineAssumption DEF VmsOK, VmRecord
<1>3. IsFiniteSet(Below(v)) /\ Cardinality(Below(v)) \in 0 .. N - 1
  <2>1. Below(v) \subseteq S \ {v}
    BY <1>2 DEF Before
  <2>2. IsFiniteSet(S \ {v}) /\ Cardinality(S \ {v}) = N - 1
    BY <1>1, FS_RemoveElement
  <2>3. IsFiniteSet(Below(v)) /\ Cardinality(Below(v)) <= N - 1
    BY <2>1, <2>2, FS_Subset
  <2>4. Cardinality(Below(v)) \in Nat
    BY <2>3, FS_CardinalityType
  <2> QED BY <1>1, <2>3, <2>4
<1>4. ASSUME NEW u \in S, Before(u, v)
      PROVE  Cardinality(Below(u)) # Cardinality(Below(v))
  <2>1. Below(u) \subseteq Below(v)
    BY <1>2, <1>4 DEF Before
  <2>2. u \in Below(v) /\ u \notin Below(u)
    BY <1>2, <1>4 DEF Before
  <2> HIDE DEF Below
  <2> QED BY <1>3, <2>1, <2>2, FS_Subset
<1>5. \A u \in S : u = v \/ Before(u, v) \/ Before(v, u)
  BY <1>2 DEF Before
<1> HIDE DEF N
<1> QED BY <1>3, <1>4, <1>5 DEF N

\* In a finite set of instances, ordered by index, there is one for each rank.
LEMMA Ranks ==
  ASSUME VmsOK, NEW S \in SUBSET Vms, NEW n \in Nat, n < Cardinality(S)
  PROVE  \E v \in S : Cardinality({w \in S : Before(w, v)}) = n
<1> DEFINE Below(v) == {w \in S : Before(w, v)}
           N        == Cardinality(S)
           rank     == [v \in S |-> Cardinality(Below(v))]
<1>1. IsFiniteSet(S) /\ N \in Nat
  BY MachineAssumption, FS_Subset, FS_CardinalityType
<1>3. \A v \in S : Cardinality(Below(v)) \in 0 .. N - 1
  BY RankGrows
<1>4. \A v, w \in S : Before(w, v) => Cardinality(Below(w)) # Cardinality(Below(v))
  BY RankGrows
<1>5. \A v, w \in S : v = w \/ Before(v, w) \/ Before(w, v)
  BY RankGrows
<1> HIDE DEF Below
<1>6. rank \in Injection(S, 0 .. N - 1)
  <2>1. rank \in [S -> 0 .. N - 1]
    BY <1>3
  <2>2. ASSUME NEW v \in S, NEW w \in S, v # w PROVE rank[v] # rank[w]
    <3>1. Cardinality(Below(v)) # Cardinality(Below(w))
      BY <1>4, <1>5, <2>2
    <3> QED BY <3>1
  <2> HIDE DEF rank, N
  <2>3. DOMAIN rank = S
    BY <2>1
  <2>4. \A v, w \in S : rank[v] = rank[w] => v = w
    BY <2>2
  <2>5. IsInjective(rank)
    BY <2>3, <2>4 DEF IsInjective
  <2> QED BY <2>1, <2>5 DEF Injection
<1>7. IsFiniteSet(0 .. N - 1) /\ Cardinality(0 .. N - 1) = N
  <2>1. N \in Nat
    BY <1>1
  <2> HIDE DEF N
  <2>2. 0 \in Int /\ N - 1 \in Int /\ (0 > N - 1 => N = 0)
    BY <2>1
  <2>3. IsFiniteSet(0 .. N - 1) /\ Cardinality(0 .. N - 1) = IF 0 > N - 1 THEN 0 ELSE N - 1 - 0 + 1
    BY <2>2, FS_Interval
  <2> QED BY <2>1, <2>2, <2>3
<1>8. rank \in Surjection(S, 0 .. N - 1)
  BY <1>6, <1>7, FS_Injection
<1>9. n \in 0 .. N - 1
  BY <1>1
<1>10. PICK v \in S : rank[v] = n
  BY <1>8, <1>9 DEF Surjection
<1> QED BY <1>10 DEF Below

LEMMA ReferencedIsThere ==
  ASSUME VmsOK, NEW S \in SUBSET Vms, Expandable(S)
  PROVE  Referenced(S) \subseteq S
<1>1. ASSUME NEW t \in Types, NEW i \in 0 .. Count[t] - 1 PROVE Machine(S, t, i) \in S
  <2>1. Count[t] \in Nat /\ i \in Nat /\ i < Count[t]
    BY NodeTypeAssumption
  <2>2. OfType(S, t) \in SUBSET Vms /\ OfType(S, t) \subseteq S
    BY DEF OfType
  <2>3. Cardinality(OfType(S, t)) \in Nat
    BY <2>2, MachineAssumption, FS_Subset, FS_CardinalityType
  <2>4. i < Cardinality(OfType(S, t))
    BY <2>1, <2>3 DEF Expandable
  <2>5. \E v \in OfType(S, t) : Cardinality({w \in OfType(S, t) : Before(w, v)}) = i
    BY <2>1, <2>2, <2>4, Ranks
  <2> QED BY <2>2, <2>5 DEF Machine
<1> QED BY <1>1 DEF Referenced

LEMMA JoinStep ==
  ASSUME VmsOK, ClusterInv, NEW c \in Cmds, NEW ok, Join(c, ok)
  PROVE  VmsOK' /\ ClusterInv' /\ Unharmed /\ SetUpFirst
<1>1. /\ cmd[c].at = "join" /\ ok \subseteq Referenced(Have(c)) \cap Running
      /\ \/ cmd[c].kind = "up" /\ joined' = ok /\ ray' = TRUE
         \/ cmd[c].kind = "add" /\ joined' = joined \cup ok /\ ray' = ray
      /\ Exit(c) /\ UNCHANGED <<vm, ready>>
  BY DEF Join
<1>2. Have(c) \subseteq Vms /\ Expandable(Have(c)) /\ Own(c) \subseteq ready
      /\ (cmd[c].kind = "up" => cmd[c].found = {})
  BY <1>1, Fields DEF Have, Own, CmdRecord, TagsOK, ReadyOK, KindOK
<1>3. ok \subseteq Have(c) /\ ok \subseteq Vms
  BY <1>1, <1>2, ReferencedIsThere
<1>4. ready' \subseteq Vms /\ joined' \subseteq Vms /\ ray' \in BOOLEAN
  BY <1>1, <1>3, Fields
<1>5. VmsOK' /\ ClusterInv'
  BY <1>1, <1>4, ExitEnds
<1>6. \A v \in joined' \ joined : v \in ready \/ (cmd[c].kind = "add" /\ vm[v].by # c)
  BY <1>1, <1>2, <1>3 DEF Have, Own
<1>7. \A d \in Cmds : StepOf(d) => d = c
  BY <1>1 DEF StepOf, Exit, Set, ClusterInv
<1> QED BY <1>1, <1>5, <1>6, <1>7, NobodyHarmed DEF SetUpFirst

\* The machines beside a cluster: no command takes a step.
LEMMA ClusterAges ==
  ASSUME VmsOK, ClusterInv, MachinesStep, UNCHANGED nodeVars
  PROVE  VmsOK' /\ ClusterInv' /\ Unharmed /\ SetUpFirst
<1>1. Ageing /\ VmsOK' /\ AllKept /\ Live' \subseteq Live /\ \A v \in Unused : vm'[v].by = Nobody
  BY MachinesAge DEF Ageing, VmsOK
<1>2. NamesUnique' /\ OwnTypes'
  BY <1>1, TagsAge
<1>3. cmd' = cmd /\ ready' = ready /\ joined' = joined /\ ray' = ray
  BY DEF nodeVars
<1>4. ASSUME NEW d \in Cmds
      PROVE  (KindOK(cmd[d]) /\ TagsOK(cmd[d], d) /\ ReadyOK(cmd[d], d) /\ SeenOK(cmd[d]))'
  <2>1. PICK q \in CmdRecord : q = cmd[d] /\ cmd'[d] = q
    BY <1>3 DEF ClusterInv
  <2>2. KindOK(q) /\ TagsOK(q, d) /\ ReadyOK(q, d) /\ SeenOK(q)
    BY <2>1 DEF ClusterInv
  <2>3. TagsOK(q, d)' /\ ReadyOK(q, d)' /\ SeenOK(q)'
    BY <1>1, <1>3, <2>2, CommandAssumption, NotesStay
  <2> QED BY <2>1, <2>2, <2>3 DEF KindOK, TagsOK, ReadyOK, SeenOK
<1>5. ClusterInv'
  BY <1>2, <1>3, <1>4 DEF ClusterInv
<1> QED BY <1>1, <1>3, <1>5 DEF Unharmed, SetUpFirst, StepOf

LEMMA NodesInvStep ==
  ASSUME VmsOK, ClusterInv, NodesStep
  PROVE  VmsOK' /\ ClusterInv' /\ Unharmed /\ SetUpFirst
BY BeginStep, PlanStep, LaunchStep, CollectStep, ExpandStep, LookStep, ListStep, AbandonStep,
   RollbackStep, SetupStep, JoinStep, EndStep DEF NodesStep

-----------------------------------------------------------------------------
(* The account                                                               *)

AccountInv ==
  /\ VmsOK
  /\ \/ user = "cluster" /\ ClusterInv /\ PoolsInit
     \/ user = "program" /\ NodesInit /\ PoolsInv

LEMMA AccountInvInit == Init => AccountInv
BY ClusterInvInit, PoolsInvInit DEF Init, AccountInv

\* Beside one user the other does nothing.
LEMMA PoolsRest ==
  ASSUME PoolsInit, UNCHANGED poolVars
  PROVE  PoolsInit' /\ KnownStay
BY DEF PoolsInit, poolVars, dockVars, KnownStay, Known, Ready, Pools

LEMMA NodesRest ==
  ASSUME NodesInit, UNCHANGED nodeVars
  PROVE  NodesInit' /\ Unharmed /\ SetUpFirst
BY DEF NodesInit, nodeVars, Unharmed, SetUpFirst, StepOf

LEMMA AccountInvStep ==
  ASSUME AccountInv, Next
  PROVE  AccountInv' /\ KnownStay /\ Unharmed /\ SetUpFirst
<1>1. CASE user = "cluster" /\ ClusterInv /\ PoolsInit
  <2>1. VmsOK /\ UNCHANGED <<poolVars, user>>
        /\ (NodesStep \/ (MachinesStep /\ UNCHANGED nodeVars))
    BY <1>1 DEF AccountInv, Next
  <2>2. VmsOK' /\ ClusterInv' /\ Unharmed /\ SetUpFirst
    BY <1>1, <2>1, NodesInvStep, ClusterAges
  <2>3. PoolsInit' /\ KnownStay
    BY <1>1, <2>1, PoolsRest
  <2> QED BY <1>1, <2>1, <2>2, <2>3 DEF AccountInv
<1>2. CASE user = "program" /\ NodesInit /\ PoolsInv
  <2>1. VmsOK /\ UNCHANGED <<nodeVars, user>>
        /\ (PoolsStep \/ (MachinesStep /\ UNCHANGED poolVars))
    BY <1>2 DEF AccountInv, Next
  <2>2. VmsOK' /\ PoolsInv' /\ KnownStay
    BY <1>2, <2>1, PoolsInvStep, PoolsInvAges
  <2>3. NodesInit' /\ Unharmed /\ SetUpFirst
    BY <1>2, <2>1, NodesRest
  <2> QED BY <1>2, <2>1, <2>2, <2>3 DEF AccountInv
<1> QED BY <1>1, <1>2 DEF AccountInv

LEMMA AccountInvStutter == AccountInv /\ UNCHANGED accountVars => AccountInv'
<1> SUFFICES ASSUME AccountInv, UNCHANGED accountVars PROVE AccountInv'
  OBVIOUS
<1>1. vm' = vm /\ user' = user /\ UNCHANGED nodeVars /\ UNCHANGED poolVars
  BY DEF accountVars
<1>2. VmsOK' /\ (ClusterInv => ClusterInv')
  BY <1>1 DEF AccountInv, VmsOK, Unused, ClusterInv, nodeVars, KindOK, TagsOK, ReadyOK, SeenOK,
              NamesUnique, OwnTypes, Live, Idling, Expandable, OfType, Own, Of
<1>3. (PoolsInit => PoolsInit') /\ (NodesInit => NodesInit') /\ (PoolsInv => PoolsInv')
  BY <1>1 DEF PoolsInit, NodesInit, PoolsInv, poolVars, dockVars, nodeVars, PoolsTypeOK,
              FailedProvisionEndsItsOwn, Live
<1> QED BY <1>1, <1>2, <1>3 DEF AccountInv

\* The invariant of both users.
THEOREM AccountInvHolds == Spec => []AccountInv
<1>1. AccountInv /\ [Next]_accountVars => AccountInv'
  BY AccountInvStep, AccountInvStutter
<1> QED BY <1>1, AccountInvInit, PTL DEF Spec

-----------------------------------------------------------------------------
(* The indexes of the instances                                              *)

\* Every index is one of the file.
Tagged == \A v \in Vms \ Unused : vm[v].type \in Types => vm[v].idx \in 0 .. Count[vm[v].type] - 1

PlanOK(r) ==
  /\ r.at # "launch" => r.plan = {}
  /\ \A p \in r.plan : p[1] \in Types /\ p[2] \in 0 .. Count[p[1]] - 1

\* The command has planned its instances of type t.
Planned(r, t) ==
  \/ r.at \in {"expand", "setup", "join"}
  \/ r.at \in {"plan", "launch"} /\ r.cloud = "gcp" /\ t \in Aws
  \/ r.at = "launch" /\ t \in CloudTypes(r.cloud)

\* Of a type that has been planned each index is there, or about to be launched.
CoverOK(r, c) ==
  \A t \in Types : Planned(r, t) => \A i \in 0 .. Count[t] - 1 :
    <<t, i>> \in r.plan \/ \E v \in OfType(r.found \cup Own(c), t) : vm[v].idx = i

IndexInv == user = "cluster" => Tagged /\ \A c \in Cmds : PlanOK(cmd[c]) /\ CoverOK(cmd[c], c)

LEMMA IndexInvInit == Init => IndexInv
BY DEF Init, MachinesInit, NodesInit, Blank, IndexInv, Tagged, Unused, PlanOK, CoverOK, Planned

\* What is found keeps the numbers, what is missing gets them.
LEMMA MissingIsRest ==
  ASSUME NEW t \in Types, NEW f \in SUBSET (Vms \ Unused), Tagged
  PROVE  /\ Missing(t, f) \subseteq 0 .. Count[t] - 1
         /\ \A i \in 0 .. Count[t] - 1 :
              i \in Missing(t, f) \/ \E v \in OfType(f, t) : vm[v].idx = i
<1> DEFINE N    == Count[t]
           all  == 0 .. N - 1
           used == {vm[v].idx : v \in OfType(f, t)}
           free == all \ used
           n    == N - Cardinality(used)
<1>1. N \in Nat
  BY NodeTypeAssumption
<1>2. IsFiniteSet(all) /\ Cardinality(all) = N
  <2> HIDE DEF N
  <2>1. 0 \in Int /\ N - 1 \in Int /\ (0 > N - 1 => N = 0)
    BY <1>1
  <2>2. IsFiniteSet(all) /\ Cardinality(all) = IF 0 > N - 1 THEN 0 ELSE N - 1 - 0 + 1
    BY <2>1, FS_Interval
  <2> QED BY <1>1, <2>1, <2>2
<1>3. used \subseteq all
  BY DEF OfType, Tagged
<1>4. Missing(t, f) = {i \in free : Cardinality({j \in free : j < i}) < n}
  BY DEF Missing
<1> HIDE DEF N, all, used
<1>5. IsFiniteSet(free) /\ Cardinality(free) = n
  <2>1. all \cap used = used
    BY <1>3
  <2> QED BY <1>2, <2>1, FS_Difference
<1>6. ASSUME NEW i \in free PROVE Cardinality({j \in free : j < i}) < n
  <2> DEFINE low == {j \in free : j < i}
  <2>1. i \in Nat
    BY <1>1 DEF all, N
  <2>2. low \subseteq free \ {i}
    BY <2>1
  <2>3. IsFiniteSet(free \ {i}) /\ Cardinality(free \ {i}) = Cardinality(free) - 1
    BY <1>5, FS_RemoveElement
  <2>4. IsFiniteSet(low) /\ Cardinality(low) <= Cardinality(free \ {i})
    BY <2>2, <2>3, FS_Subset
  <2>5. Cardinality(low) \in Nat /\ Cardinality(free) \in Nat
    BY <1>5, <2>4, FS_CardinalityType
  <2> HIDE DEF low, free, n
  <2>6. Cardinality(low) < n
    BY <1>5, <2>3, <2>4, <2>5
  <2> QED BY <2>6 DEF low
<1>7. Missing(t, f) = free
  BY <1>4, <1>6
<1> QED BY <1>7 DEF all, used, N

LEMMA TaggedAges ==
  ASSUME Ageing, Tagged
  PROVE  Tagged'
BY DEF Ageing, AllKept, Kept, Tagged, Unused

\* An instance that a command has found or launched keeps its index.
LEMMA CoverStays ==
  ASSUME VmsOK, AllKept, NEW c \in Cmds, NEW r \in CmdRecord, TagsOK(r, c), CoverOK(r, c)
  PROVE  CoverOK(r, c)'
<1>1. \A v \in r.found \cup Own(c) : v \in Vms /\ v \notin Unused
  BY CommandAssumption DEF CmdRecord, TagsOK, Own, VmsOK
<1>2. \A v \in r.found \cup Own(c) : Kept(v)
  BY <1>1 DEF AllKept, Unused
<1>3. ASSUME NEW t \in Types, NEW v \in OfType(r.found \cup Own(c), t)
      PROVE  v \in r.found \cup Own(c)' /\ vm'[v].type = t /\ vm'[v].idx = vm[v].idx
  BY <1>1, <1>2, <1>3 DEF OfType, Kept, Own
<1>4. \A t : Planned(r, t)' <=> Planned(r, t)
  BY DEF Planned, CloudTypes
<1> QED BY <1>3, <1>4 DEF CoverOK, OfType

\* The machines age, or one command takes a step.
LEMMA IndexStays ==
  ASSUME VmsOK, ClusterInv, IndexInv, user = "cluster", AllKept, Tagged', user' = user,
         \A d \in Cmds : \/ cmd'[d] = cmd[d]
                         \/ PlanOK(cmd'[d]) /\ CoverOK(cmd[d], d)'
  PROVE  IndexInv'
<1>1. ASSUME NEW d \in Cmds, cmd'[d] = cmd[d] PROVE PlanOK(cmd'[d]) /\ CoverOK(cmd[d], d)'
  <2>1. PICK q \in CmdRecord : q = cmd[d] /\ q = cmd'[d]
    BY <1>1, Fields
  <2>2. TagsOK(q, d) /\ CoverOK(q, d) /\ PlanOK(q)
    BY <2>1, Fields DEF IndexInv
  <2>3. CoverOK(q, d)'
    BY <2>1, <2>2, CoverStays
  <2> QED BY <2>1, <2>2, <2>3 DEF CoverOK, OfType, Planned
<1>2. \A d \in Cmds : PlanOK(cmd'[d]) /\ CoverOK(cmd[d], d)'
  BY <1>1
<1> QED BY <1>2 DEF IndexInv, PlanOK

\* The command comes to a phase in which nothing is planned.
LEMMA IndexQuiet ==
  ASSUME VmsOK, ClusterInv, IndexInv, user = "cluster", user' = user, Ageing, NEW c \in Cmds,
         \A d \in Cmds : d # c => cmd'[d] = cmd[d], cmd'[c].plan = {},
         \/ cmd'[c].at \in {"new", "look", "list", "end", "over"}
         \/ cmd'[c].at = "plan" /\ cmd'[c].cloud = "aws"
  PROVE  IndexInv'
<1>1. Tagged' /\ AllKept
  BY TaggedAges DEF Ageing, IndexInv
<1>2. PlanOK(cmd'[c]) /\ CoverOK(cmd[c], c)'
  BY DEF PlanOK, CoverOK, Planned
<1> QED BY <1>1, <1>2, IndexStays

\* The command goes on with the plan and the instances it had.
LEMMA IndexGoesOn ==
  ASSUME VmsOK, ClusterInv, IndexInv, user = "cluster", user' = user, vm' = vm, NEW c \in Cmds,
         \A d \in Cmds : d # c => cmd'[d] = cmd[d],
         cmd[c].plan = {}, cmd'[c].plan = {}, cmd'[c].found = cmd[c].found,
         \A t \in Types : Planned(cmd'[c], t) => Planned(cmd[c], t)
  PROVE  IndexInv'
<1>1. Tagged' /\ AllKept
  BY SameVms, TaggedAges DEF Ageing, IndexInv
<1>2. CoverOK(cmd[c], c)
  BY DEF IndexInv
<1>3. PlanOK(cmd'[c]) /\ CoverOK(cmd[c], c)'
  <2>1. PlanOK(cmd'[c])
    BY DEF PlanOK
  <2>2. ASSUME NEW t \in Types, Planned(cmd'[c], t), NEW i \in 0 .. Count[t] - 1
        PROVE  \E v \in cmd'[c].found \cup Own(c)' : vm'[v].type = t /\ vm'[v].idx = i
    BY <1>2, <2>2 DEF CoverOK, OfType, Own
  <2> QED BY <2>1, <2>2 DEF CoverOK, OfType, Planned
<1> QED BY <1>1, <1>3, IndexStays

\* What a step makes of the record of its command.
LEMMA SetIs ==
  ASSUME ClusterInv, NEW c \in Cmds, NEW r, Set(c, r)
  PROVE  cmd'[c] = r /\ \A d \in Cmds : d # c => cmd'[d] = cmd[d]
BY DEF ClusterInv, Set

LEMMA GoIs ==
  ASSUME ClusterInv, NEW c \in Cmds, NEW a, NEW r \in CmdRecord, Go(c, a, r)
  PROVE  /\ \A d \in Cmds : d # c => cmd'[d] = cmd[d]
         /\ cmd'[c].plan = r.plan /\ cmd'[c].found = r.found
         /\ cmd'[c].at = a /\ cmd'[c].cloud = "aws"
<1> DEFINE q == [r EXCEPT !.at = a, !.cloud = "aws"]
<1>1. q.plan = r.plan /\ q.found = r.found /\ q.at = a /\ q.cloud = "aws"
  BY DEF CmdRecord
<1>2. Set(c, q)
  BY DEF Go
<1> HIDE DEF q
<1> QED BY <1>1, <1>2, SetIs

LEMMA ProceedIs ==
  ASSUME ClusterInv, NEW c \in Cmds, NEW a, NEW r \in CmdRecord, Proceed(c, a, r)
  PROVE  /\ \A d \in Cmds : d # c => cmd'[d] = cmd[d]
         /\ cmd'[c].plan = r.plan /\ cmd'[c].found = r.found
         /\ \/ cmd[c].cloud = "aws" /\ cmd'[c].at = r.at /\ cmd'[c].cloud = "gcp"
            \/ cmd[c].cloud # "aws" /\ cmd'[c].at = a /\ cmd'[c].cloud = "aws"
<1>1. CASE cmd[c].cloud = "aws"
  <2> DEFINE q == [r EXCEPT !.cloud = "gcp"]
  <2>1. q.plan = r.plan /\ q.found = r.found /\ q.at = r.at /\ q.cloud = "gcp"
    BY DEF CmdRecord
  <2>2. Set(c, q)
    BY <1>1 DEF Proceed
  <2> HIDE DEF q
  <2> QED BY <1>1, <2>1, <2>2, SetIs
<1>2. CASE cmd[c].cloud # "aws"
  BY <1>2, GoIs DEF Proceed
<1> QED BY <1>1, <1>2

LEMMA OverIs ==
  ASSUME ClusterInv, NEW c \in Cmds, NEW S, Set(c, [Over(c) EXCEPT !.seen = S]) \/ Exit(c)
  PROVE  /\ \A d \in Cmds : d # c => cmd'[d] = cmd[d]
         /\ cmd'[c].plan = {} /\ cmd'[c].at = "over"
<1> DEFINE q == Over(c)
           u == [q EXCEPT !.seen = S]
<1>1. q.plan = {} /\ q.at = "over" /\ u.plan = {} /\ u.at = "over"
  BY Fields DEF Over, CmdRecord
<1>2. Set(c, q) \/ Set(c, u)
  BY DEF Exit
<1> HIDE DEF q, u
<1> QED BY <1>1, <1>2, SetIs

LEMMA BeginIndex ==
  ASSUME VmsOK, ClusterInv, IndexInv, user = "cluster", user' = user, NEW c \in Cmds,
         \/ \E kind \in {"up", "add", "down"} : Begin(c, kind)
         \/ Look(c) \/ List(c) \/ Abandon(c) \/ \E S \in SUBSET Vms : Join(c, S)
  PROVE  IndexInv'
<1>1. cmd[c] \in CmdRecord /\ cmd \in [Cmds -> CmdRecord] /\ PlanOK(cmd[c])
  BY DEF ClusterInv, IndexInv
<1>2. vm' = vm /\ Ageing
  BY SameVms DEF Begin, Look, List, Abandon, Join
<1>3. CASE \E kind \in {"up", "add", "down"} : Begin(c, kind)
  <2>1. PICK kind \in {"up", "add", "down"}, a \in {"look", "plan"} :
          Go(c, a, [cmd[c] EXCEPT !.kind = kind]) /\ cmd[c].at = "new"
    BY <1>3 DEF Begin
  <2> DEFINE r == [cmd[c] EXCEPT !.kind = kind]
  <2>2. r \in CmdRecord /\ r.plan = {}
    BY <1>1, <2>1 DEF CmdRecord, PlanOK
  <2> HIDE DEF r
  <2>3. Go(c, a, r)
    BY <2>1 DEF r
  <2> QED BY <1>2, <2>1, <2>2, <2>3, GoIs, IndexQuiet
<1>4. CASE Look(c)
  <2>1. Exit(c) \/ Go(c, "list", cmd[c])
    BY <1>4 DEF Look
  <2>2. cmd[c].plan = {}
    BY <1>1, <1>4 DEF Look, PlanOK
  <2>3. cmd'[c].at \in {"list", "over"} /\ cmd'[c].plan = {} /\ \A d \in Cmds : d # c => cmd'[d] = cmd[d]
    BY <1>1, <2>1, <2>2, GoIs, OverIs
  <2> QED BY <1>2, <2>3, IndexQuiet
<1>5. CASE List(c)
  <2>1. PICK seen, f : /\ cmd[c].at = "list"
                       /\ Set(c, [cmd[c] EXCEPT !.at = "end", !.seen = seen, !.found = f])
    BY <1>5 DEF List
  <2> DEFINE r == [cmd[c] EXCEPT !.at = "end", !.seen = seen, !.found = f]
  <2>2. r.plan = {} /\ r.at = "end"
    BY <1>1, <2>1 DEF CmdRecord, PlanOK
  <2> HIDE DEF r
  <2>3. Set(c, r)
    BY <2>1 DEF r
  <2> QED BY <1>2, <2>2, <2>3, SetIs, IndexQuiet
<1>6. CASE Abandon(c)
  BY <1>2, <1>6, OverIs, IndexQuiet DEF Abandon
<1>7. CASE \E S \in SUBSET Vms : Join(c, S)
  BY <1>2, <1>7, OverIs, IndexQuiet DEF Join
<1> QED BY <1>3, <1>4, <1>5, <1>6, <1>7

LEMMA EndIndex ==
  ASSUME VmsOK, ClusterInv, IndexInv, user = "cluster", user' = user, NEW c \in Cmds,
         NEW S, Rollback(c, S) \/ End(c, S)
  PROVE  IndexInv'
<1>1. cmd[c] \in CmdRecord /\ cmd \in [Cmds -> CmdRecord] /\ PlanOK(cmd[c])
  BY DEF ClusterInv, IndexInv
<1>2. Ageing
  BY TerminatedAges DEF Rollback, End
<1>3. CASE Rollback(c, S)
  BY <1>2, <1>3, OverIs, IndexQuiet DEF Rollback
<1>4. CASE End(c, S)
  <2>1. PICK b \in BOOLEAN :
          Proceed(c, "over", [cmd[c] EXCEPT !.at = "list", !.found = {}, !.failed = b])
    BY <1>1, <1>4 DEF End, CmdRecord
  <2> DEFINE r == [cmd[c] EXCEPT !.at = "list", !.found = {}, !.failed = b]
  <2>2. r \in CmdRecord /\ r.plan = {} /\ r.at = "list"
    BY <1>1, <1>4 DEF End, CmdRecord, Phases, PlanOK
  <2> HIDE DEF r
  <2>3. Proceed(c, "over", r)
    BY <2>1 DEF r
  <2> QED BY <1>2, <2>2, <2>3, ProceedIs, IndexQuiet
<1> QED BY <1>3, <1>4

LEMMA ExpandIndex ==
  ASSUME VmsOK, ClusterInv, IndexInv, user = "cluster", user' = user, NEW c \in Cmds,
         Collect(c) \/ Expand(c) \/ \E ok \in SUBSET Vms : Setup(c, ok)
  PROVE  IndexInv'
<1>1. /\ cmd[c] \in CmdRecord /\ cmd \in [Cmds -> CmdRecord] /\ PlanOK(cmd[c])
      /\ cmd[c].cloud \in {"aws", "gcp"}
  BY DEF ClusterInv, IndexInv, CmdRecord
<1>2. vm' = vm /\ cmd[c].plan = {} /\ Ageing
  BY <1>1, SameVms DEF Collect, Expand, Setup, PlanOK
<1>3. CASE Exit(c)
  BY <1>2, <1>3, OverIs, IndexQuiet
<1>4. CASE Collect(c)
  <2> DEFINE r == [cmd[c] EXCEPT !.at = "plan"]
  <2>1. /\ r \in CmdRecord /\ r.plan = {} /\ r.found = cmd[c].found /\ r.at = "plan"
        /\ Proceed(c, "expand", r) /\ cmd[c].at = "launch"
    BY <1>1, <1>2, <1>4 DEF Collect, CmdRecord, Phases
  <2> HIDE DEF r
  <2>2. /\ \A d \in Cmds : d # c => cmd'[d] = cmd[d]
        /\ cmd'[c].plan = {} /\ cmd'[c].found = cmd[c].found
        /\ \/ cmd[c].cloud = "aws" /\ cmd'[c].at = "plan" /\ cmd'[c].cloud = "gcp"
           \/ cmd[c].cloud = "gcp"
    BY <1>1, <2>1, ProceedIs
  <2>3. \A t \in Types : Planned(cmd'[c], t) => Planned(cmd[c], t)
    BY <2>1, <2>2 DEF Planned, CloudTypes, Types
  <2> QED BY <1>2, <2>2, <2>3, IndexGoesOn
<1>5. CASE Go(c, "setup", cmd[c]) /\ cmd[c].at = "expand"
  <2>1. /\ \A d \in Cmds : d # c => cmd'[d] = cmd[d]
        /\ cmd'[c].plan = cmd[c].plan /\ cmd'[c].found = cmd[c].found
    BY <1>1, <1>5, GoIs
  <2>2. \A t \in Types : Planned(cmd[c], t)
    BY <1>5 DEF Planned
  <2> QED BY <1>2, <2>1, <2>2, IndexGoesOn
<1>6. CASE Proceed(c, "join", cmd[c]) /\ cmd[c].at = "setup"
  <2>1. /\ \A d \in Cmds : d # c => cmd'[d] = cmd[d]
        /\ cmd'[c].plan = cmd[c].plan /\ cmd'[c].found = cmd[c].found
    BY <1>1, <1>6, ProceedIs
  <2>2. \A t \in Types : Planned(cmd[c], t)
    BY <1>6 DEF Planned
  <2> QED BY <1>2, <2>1, <2>2, IndexGoesOn
<1> QED BY <1>3, <1>4, <1>5, <1>6 DEF Expand, Setup

LEMMA PlanIndex ==
  ASSUME VmsOK, ClusterInv, IndexInv, user = "cluster", user' = user, NEW c \in Cmds, Plan(c)
  PROVE  IndexInv'
<1> DEFINE k == cmd[c].cloud
           f == IF cmd[c].kind = "add" THEN Discovered(k) ELSE {}
           m == UNION {{<<t, i>> : i \in Missing(t, f)} : t \in CloudTypes(k)}
<1>1. /\ cmd[c] \in CmdRecord /\ cmd \in [Cmds -> CmdRecord] /\ PlanOK(cmd[c]) /\ Tagged
      /\ CoverOK(cmd[c], c) /\ k \in {"aws", "gcp"}
  BY DEF ClusterInv, IndexInv, CmdRecord
<1>2. /\ cmd[c].at = "plan" /\ vm' = vm
      /\ cmd' = [cmd EXCEPT ![c] = [cmd[c] EXCEPT !.at = "launch", !.found = @ \cup f, !.plan = m]]
  BY DEF Plan, Set
<1>3. f \in SUBSET (Vms \ Unused) /\ CloudTypes(k) \subseteq Types
  BY DEF Discovered, Of, Running, Unused, CloudTypes, Types
<1> HIDE DEF f
<1>4. \A t \in CloudTypes(k) : \A i : <<t, i>> \in m <=> i \in Missing(t, f)
  OBVIOUS
<1>5. \A p \in m : p[1] \in Types /\ p[2] \in 0 .. Count[p[1]] - 1
  <2> SUFFICES ASSUME NEW t \in CloudTypes(k), NEW i \in Missing(t, f)
               PROVE  t \in Types /\ i \in 0 .. Count[t] - 1
    OBVIOUS
  <2> QED BY <1>1, <1>3, MissingIsRest
<1> HIDE DEF m
<1>6. /\ cmd'[c].at = "launch" /\ cmd'[c].found = cmd[c].found \cup f /\ cmd'[c].plan = m
      /\ cmd'[c].cloud = k /\ \A d \in Cmds : d # c => cmd'[d] = cmd[d]
  BY <1>1, <1>2 DEF CmdRecord
<1>7. PlanOK(cmd'[c])
  BY <1>5, <1>6 DEF PlanOK
<1>8. ASSUME NEW t \in Types, Planned(cmd'[c], t), NEW i \in 0 .. Count[t] - 1
      PROVE  \/ <<t, i>> \in m
             \/ \E v \in cmd[c].found \cup f \cup Own(c) : vm[v].type = t /\ vm[v].idx = i
  <2>1. CASE t \in CloudTypes(k)
    BY <1>1, <1>3, <1>4, <2>1, MissingIsRest DEF OfType
  <2>2. CASE t \notin CloudTypes(k)
    <3>1. k = "gcp" /\ t \in Aws /\ cmd[c].plan = {}
      BY <1>1, <1>2, <1>6, <1>8, <2>2 DEF Planned, CloudTypes, PlanOK
    <3>2. Planned(cmd[c], t)
      BY <1>2, <3>1 DEF Planned
    <3> QED BY <1>1, <3>1, <3>2 DEF CoverOK, OfType
  <2> QED BY <2>1, <2>2
<1>9. CoverOK(cmd[c], c)'
  BY <1>2, <1>6, <1>8 DEF CoverOK, OfType, Own, Planned
<1>10. Tagged' /\ AllKept
  BY <1>1, <1>2, SameVms, TaggedAges DEF Ageing
<1> QED BY <1>6, <1>7, <1>9, <1>10, IndexStays

LEMMA LaunchIndex ==
  ASSUME VmsOK, ClusterInv, IndexInv, user = "cluster", user' = user, NEW c \in Cmds, Launch(c)
  PROVE  IndexInv'
<1>1. /\ cmd[c] \in CmdRecord /\ cmd \in [Cmds -> CmdRecord] /\ PlanOK(cmd[c]) /\ Tagged
      /\ CoverOK(cmd[c], c) /\ TagsOK(cmd[c], c)
  BY DEF ClusterInv, IndexInv
<1>2. PICK d \in cmd[c].plan :
        /\ d \in Types \X Nat /\ cmd[c].at = "launch" /\ Unused # {}
        /\ vm' = Launched(d[1], d[2], c)
        /\ cmd' = [cmd EXCEPT ![c] = [cmd[c] EXCEPT !.plan = cmd[c].plan \ {d}]]
  BY <1>1, DueIsPlanned DEF Launch, Set
<1>3. /\ AllKept /\ NextVm \in Unused
      /\ vm'[NextVm] = [st |-> "pending", type |-> d[1], idx |-> d[2], by |-> c]
      /\ \A v \in Vms : v # NextVm => vm'[v] = vm[v]
  BY <1>2, LaunchedKeeps
<1>4. /\ cmd'[c].at = "launch" /\ cmd'[c].found = cmd[c].found /\ cmd'[c].plan = cmd[c].plan \ {d}
      /\ cmd'[c].cloud = cmd[c].cloud /\ \A e \in Cmds : e # c => cmd'[e] = cmd[e]
  BY <1>1, <1>2 DEF CmdRecord
<1>5. PlanOK(cmd'[c])
  BY <1>1, <1>4 DEF PlanOK
<1>6. Tagged'
  <2> SUFFICES ASSUME NEW v \in Vms, v \notin Unused', vm'[v].type \in Types
               PROVE  vm'[v].idx \in 0 .. Count[vm'[v].type] - 1
    BY DEF Tagged, Unused
  <2>1. CASE v = NextVm
    BY <1>1, <1>2, <1>3, <2>1 DEF PlanOK
  <2>2. CASE v # NextVm
    BY <1>1, <1>3, <2>2 DEF Tagged, Unused
  <2> QED BY <2>1, <2>2
<1>7. CoverOK(cmd[c], c)'
  <2>1. PICK r \in CmdRecord : r = cmd[c]
    BY <1>1
  <2>2. CoverOK(r, c)'
    BY <1>1, <1>3, <2>1, CoverStays
  <2>3. NextVm \in Own(c)' /\ vm'[NextVm].type = d[1] /\ vm'[NextVm].idx = d[2] /\ d = <<d[1], d[2]>>
    BY <1>2, <1>3 DEF Own, Unused
  <2>4. ASSUME NEW t \in Types, Planned(cmd'[c], t), NEW i \in 0 .. Count[t] - 1,
               <<t, i>> \notin cmd'[c].plan
        PROVE  \E v \in cmd'[c].found \cup Own(c)' : vm'[v].type = t /\ vm'[v].idx = i
    <3>1. Planned(r, t)
      BY <1>2, <1>4, <2>1, <2>4 DEF Planned
    <3>2. CASE <<t, i>> = d
      BY <2>3, <3>2
    <3>3. CASE <<t, i>> # d
      BY <1>4, <2>1, <2>2, <2>4, <3>1, <3>3 DEF CoverOK, OfType, Planned
    <3> QED BY <3>2, <3>3
  <2> QED BY <2>4 DEF CoverOK, OfType, Planned
<1> QED BY <1>3, <1>4, <1>5, <1>6, <1>7, IndexStays

LEMMA IndexInvStep ==
  ASSUME AccountInv, IndexInv, [Next]_accountVars
  PROVE  IndexInv'
<1> SUFFICES ASSUME user' = "cluster" PROVE IndexInv'
  BY DEF IndexInv
<1>1. user = "cluster" /\ user' = user /\ VmsOK /\ ClusterInv
  BY DEF Next, accountVars, AccountInv
<1>2. NodesStep \/ (UNCHANGED nodeVars /\ (MachinesStep \/ vm' = vm))
  BY <1>1 DEF Next, accountVars
<1>3. CASE NodesStep
  BY <1>1, <1>3, BeginIndex, EndIndex, ExpandIndex, PlanIndex, LaunchIndex DEF NodesStep
<1>4. CASE UNCHANGED nodeVars /\ (MachinesStep \/ vm' = vm)
  <2>1. Ageing /\ cmd' = cmd
    BY <1>1, <1>4, MachinesAge, SameVms DEF nodeVars
  <2>2. Tagged' /\ AllKept
    BY <1>1, <2>1, TaggedAges DEF IndexInv, Ageing
  <2> QED BY <1>1, <2>1, <2>2, IndexStays
<1> QED BY <1>2, <1>3, <1>4

LEMMA IndexInvHolds == Spec => []IndexInv
BY IndexInvInit, IndexInvStep, AccountInvHolds, PTL DEF Spec

\* Where each lower number is there once, the rank of an instance is its index.
LEMMA RankIsIndex ==
  ASSUME VmsOK, NEW S \in SUBSET Vms, NEW i \in Nat,
         \A j \in 0 .. i : \E v \in S : vm[v].idx = j,
         \A v, w \in S : v # w /\ vm[v].idx = vm[w].idx => ~(vm[v].idx < i)
  PROVE  /\ \E v \in S : Cardinality({w \in S : Before(w, v)}) = i
         /\ \A v \in S : Cardinality({w \in S : Before(w, v)}) = i => vm[v].idx = i
<1> DEFINE Below(v) == {w \in S : Before(w, v)}
           B == {v \in S : vm[v].idx = i}
           L == {v \in S : vm[v].idx < i}
           f == [v \in L |-> vm[v].idx]
<1>1. \A v \in S : vm[v].idx \in Nat /\ v \in Nat
  BY MachineAssumption DEF VmsOK, VmRecord
<1>2. PICK b \in B : \A v \in B : b <= v
  <2>1. B \subseteq Nat /\ B # {}
    BY <1>1
  <2> HIDE DEF B
  <2> QED BY <2>1, LeastNumber
<1>3. b \in S /\ vm[b].idx = i
  OBVIOUS
<1>4. Below(b) = L
  BY <1>1, <1>2, <1>3 DEF Before
<1>5. f \in Injection(L, 0 .. i - 1)
  <2>1. f \in [L -> 0 .. i - 1]
    BY <1>1
  <2>2. \A v, w \in L : f[v] = f[w] => v = w
    OBVIOUS
  <2>3. DOMAIN f = L
    OBVIOUS
  <2> HIDE DEF f, L
  <2> QED BY <2>1, <2>2, <2>3 DEF Injection, IsInjective
<1>6. f \in Surjection(L, 0 .. i - 1)
  <2>1. ASSUME NEW j \in 0 .. i - 1 PROVE \E v \in L : f[v] = j
    <3>1. PICK v \in S : vm[v].idx = j
      OBVIOUS
    <3>2. v \in L
      BY <3>1
    <3> QED BY <3>1, <3>2
  <2> HIDE DEF f, L
  <2> QED BY <1>5, <2>1 DEF Injection, Surjection
<1>7. Cardinality(L) = i
  <2>1. 0 \in Int /\ i - 1 \in Int /\ (0 > i - 1 => i = 0)
    OBVIOUS
  <2>2. IsFiniteSet(0 .. i - 1) /\ Cardinality(0 .. i - 1) = IF 0 > i - 1 THEN 0 ELSE i - 1 - 0 + 1
    BY <2>1, FS_Interval
  <2>3. Cardinality(0 .. i - 1) = i
    BY <2>1, <2>2
  <2> HIDE DEF f, L
  <2> QED BY <1>5, <1>6, <2>2, <2>3, FS_Injection
<1>8. ASSUME NEW v \in S, Cardinality(Below(v)) = i PROVE v = b
  <2>1. \A u, w \in S : u = w \/ Before(u, w) \/ Before(w, u)
    BY RankGrows
  <2>2. \A u, w \in S : Before(w, u) => Cardinality(Below(w)) # Cardinality(Below(u))
    BY RankGrows
  <2> HIDE DEF Below, L, B, f
  <2>3. Cardinality(Below(b)) = i
    BY <1>4, <1>7
  <2> QED BY <1>3, <1>8, <2>1, <2>2, <2>3
<1>9. Cardinality(Below(b)) = i
  BY <1>4, <1>7
<1> QED BY <1>3, <1>8, <1>9

-----------------------------------------------------------------------------
(* What it says of the properties                                            *)

\* Types of the state, for both users of the account.
THEOREM TypeOKHolds == Spec => []TypeOK
<1>1. ASSUME AccountInv PROVE TypeOK
  <2>1. CASE user = "cluster" /\ ClusterInv /\ PoolsInit
    BY <1>1, <2>1, PoolsInvInit
       DEF AccountInv, VmsOK, VmRecord, VmStates, ClusterInv, CmdRecord, Phases, PoolsInv,
           TypeOK, NodesTypeOK
  <2>2. CASE user = "program" /\ NodesInit /\ PoolsInv
    <3>1. NodesTypeOK
      BY <2>2 DEF NodesInit, NodesTypeOK
    <3> QED BY <1>1, <2>2, <3>1 DEF AccountInv, VmsOK, VmRecord, VmStates, PoolsInv, TypeOK
  <2> QED BY <1>1, <2>1, <2>2 DEF AccountInv
<1> QED BY <1>1, AccountInvHolds, PTL

\* A provisioning that fails after the launch and could end what it had
\* launched leaves none of its instances (the teardown in
\* _provision_ec2_pools, for whatever number of instances and pools of calls).
THEOREM FailedProvisionEndsItsOwnHolds == Spec => []FailedProvisionEndsItsOwn
<1>1. AccountInv => FailedProvisionEndsItsOwn
  BY DEF AccountInv, PoolsInv, PoolsInit, FailedProvisionEndsItsOwn, Ready
<1> QED BY <1>1, AccountInvHolds, PTL

\* A container that runs is in a record a teardown goes by (_pool_containers,
\* _container_names), unless docker failed to remove it or started it after the
\* program had given up.
THEOREM ContainersAreListedHolds == Spec => []ContainersAreListed
<1>1. AccountInv => ContainersAreListed
  BY DEF AccountInv, PoolsInv, PoolsTypeOK, PoolsInit, ContainersAreListed
<1> QED BY <1>1, AccountInvHolds, PTL

\* When chia down has come to its end and no call has failed, what it saw is
\* gone or idle (terminate_aws_nodes, delete_gcp_nodes), whatever other
\* commands ran at the same time.
THEOREM DownSkipsNoneHolds == Spec => []DownSkipsNone
<1>1. ASSUME AccountInv PROVE DownSkipsNone
  <2>1. CASE ClusterInv
    BY <2>1 DEF ClusterInv, SeenOK, Idling, DownSkipsNone
  <2>2. CASE NodesInit
    BY <2>2 DEF NodesInit, DownSkipsNone
  <2> QED BY <1>1, <2>1, <2>2 DEF AccountInv
<1> QED BY <1>1, AccountInvHolds, PTL

\* No call of a WorkerProvisioner loses sight of an instance that lives, but
\* one that raises (_pool_instances beside the flat list it overwrites).
THEOREM InstancesStayKnownHolds == Spec => InstancesStayKnown
<1>1. AccountInv /\ [Next]_accountVars => [KnownStay]_<<vm, poolVars>>
  <2> SUFFICES ASSUME AccountInv, Next PROVE KnownStay
    BY Zenon DEF accountVars
  <2> QED BY AccountInvStep
<1> QED BY <1>1, AccountInvHolds, PTL DEF Spec, InstancesStayKnown, KnownStay

\* A failed launch ends no instance but those of its own command, or those
\* that have by now the name of one it lost (the rollbacks of
\* provision_aws_nodes and provision_gcp_nodes).
THEOREM RollbackSparesOthersHolds == Spec => RollbackSparesOthers
<1>1. AccountInv /\ [Next]_accountVars => [Unharmed]_<<vm, nodeVars>>
  <2> SUFFICES ASSUME AccountInv, Next PROVE Unharmed
    BY Zenon DEF accountVars
  <2> QED BY AccountInvStep
<1> QED BY <1>1, AccountInvHolds, PTL DEF Spec, RollbackSparesOthers, Unharmed

\* No instance becomes a worker before its setup commands have succeeded,
\* unless --add found it there (_run_cloud_setup before bring_up_cluster).
THEOREM SetupBeforeJoinHolds == Spec => SetupBeforeJoin
<1>1. AccountInv /\ [Next]_accountVars => [SetUpFirst]_<<vm, nodeVars>>
  <2> SUFFICES ASSUME AccountInv, Next PROVE SetUpFirst
    BY Zenon DEF accountVars
  <2> QED BY AccountInvStep
<1> QED BY <1>1, AccountInvHolds, PTL DEF Spec, SetupBeforeJoin, SetUpFirst

\* A reference @t:i leads to the instance with index i, unless commands at once
\* have dealt a lower index twice (provision_missing_aws_nodes,
\* _expand_node_placeholders), for any types and counts.
THEOREM PlaceholderMeansIndexHolds == Spec => []PlaceholderMeansIndex
<1>1. ASSUME AccountInv, IndexInv PROVE PlaceholderMeansIndex
  <2> SUFFICES ASSUME NEW c \in Cmds, cmd[c].at \in {"setup", "join"}, NEW t \in Types,
                      NEW i \in 0 .. Count[t] - 1,
                      ~\E v, w \in OfType(Have(c), t) : v # w /\ vm[v].idx = vm[w].idx /\ vm[v].idx < i
               PROVE  vm[Machine(Have(c), t, i)].idx = i
    BY DEF PlaceholderMeansIndex
  <2>1. VmsOK /\ user = "cluster" /\ ClusterInv
    BY <1>1 DEF AccountInv, NodesInit
  <2>2. OfType(Have(c), t) \in SUBSET Vms
    BY <2>1, Fields DEF OfType, Have, Own, CmdRecord
  <2>3. Count[t] \in Nat /\ i \in Nat
    BY NodeTypeAssumption
  <2>4. ASSUME NEW j \in 0 .. i PROVE \E v \in OfType(Have(c), t) : vm[v].idx = j
    <3>1. j \in 0 .. Count[t] - 1 /\ cmd[c].plan = {} /\ Planned(cmd[c], t) /\ CoverOK(cmd[c], c)
      BY <1>1, <2>1, <2>3 DEF IndexInv, PlanOK, Planned
    <3> QED BY <3>1 DEF CoverOK, Have
  <2> DEFINE S == OfType(Have(c), t)
  <2>5. PICK x : x = CHOOSE v \in S : Cardinality({w \in S : Before(w, v)}) = i
    OBVIOUS
  <2>6. Machine(Have(c), t, i) = x
    BY <2>5 DEF Machine
  <2> HIDE DEF S
  <2>7. \A v, w \in S : v # w /\ vm[v].idx = vm[w].idx => ~(vm[v].idx < i)
    BY DEF S
  <2>8. \A j \in 0 .. i : \E v \in S : vm[v].idx = j
    BY <2>4 DEF S
  <2>9. S \in SUBSET Vms
    BY <2>2 DEF S
  <2>10. /\ \E v \in S : Cardinality({w \in S : Before(w, v)}) = i
         /\ \A v \in S : Cardinality({w \in S : Before(w, v)}) = i => vm[v].idx = i
    BY <2>1, <2>3, <2>7, <2>8, <2>9, RankIsIndex
  <2> QED BY <2>5, <2>6, <2>10
<1> QED BY <1>1, AccountInvHolds, IndexInvHolds, PTL

-----------------------------------------------------------------------------
(* The expansion of the file                                                 *)

\* What a command has when it expands the file is enough for every reference of
\* it: the ValueError of _expand_node_placeholders is not met after
\* provisioning, whatever has ended of the instances since.
ProvisionedIsEnough ==
  \A c \in Cmds : cmd[c].at \in {"expand", "setup", "join"} => Expandable(Have(c))

\* A set in which every index from 0 to n - 1 occurs has at least n members.
LEMMA IndexesAreMembers ==
  ASSUME VmsOK, NEW S \in SUBSET Vms, NEW n \in Nat,
         \A i \in 0 .. n - 1 : \E v \in S : vm[v].idx = i
  PROVE  Cardinality(S) >= n
<1> DEFINE T == {v \in S : vm[v].idx \in 0 .. n - 1}
           f == [v \in T |-> vm[v].idx]
<1>1. IsFiniteSet(S) /\ IsFiniteSet(T) /\ Cardinality(T) <= Cardinality(S)
      /\ Cardinality(S) \in Nat /\ Cardinality(T) \in Nat
  <2>1. IsFiniteSet(S)
    BY MachineAssumption, FS_Subset
  <2> QED BY <2>1, FS_Subset, FS_CardinalityType
<1>2. f \in Surjection(T, 0 .. n - 1)
  <2>1. \A i \in 0 .. n - 1 : \E v \in T : f[v] = i
    OBVIOUS
  <2> QED BY <2>1 DEF Surjection
<1>3. Cardinality(0 .. n - 1) = n
  BY FS_Interval
<1> HIDE DEF f, T
<1>4. Cardinality(0 .. n - 1) <= Cardinality(T)
  BY <1>1, <1>2, FS_Surjection
<1> QED BY <1>1, <1>3, <1>4

\* A command that expands the file has an instance for every reference in it
\* (provision_missing_aws_nodes launches every index that is not there).
THEOREM ProvisionedIsEnoughHolds == Spec => []ProvisionedIsEnough
<1>1. ASSUME AccountInv, IndexInv PROVE ProvisionedIsEnough
  <2> SUFFICES ASSUME NEW c \in Cmds, cmd[c].at \in {"expand", "setup", "join"}, NEW t \in Types
               PROVE  Cardinality(OfType(Have(c), t)) >= Count[t]
    BY DEF ProvisionedIsEnough, Expandable
  <2>1. VmsOK /\ user = "cluster" /\ ClusterInv
    BY <1>1 DEF AccountInv, NodesInit, Blank
  <2>2. OfType(Have(c), t) \in SUBSET Vms
    BY <2>1, Fields DEF OfType, Have, Own, CmdRecord
  <2>3. ASSUME NEW j \in 0 .. Count[t] - 1 PROVE \E v \in OfType(Have(c), t) : vm[v].idx = j
    <3>1. cmd[c].plan = {} /\ Planned(cmd[c], t) /\ CoverOK(cmd[c], c)
      BY <1>1, <2>1 DEF IndexInv, PlanOK, Planned
    <3> QED BY <3>1 DEF CoverOK, Have
  <2> QED BY <2>1, <2>2, <2>3, NodeTypeAssumption, IndexesAreMembers
<1> QED BY <1>1, AccountInvHolds, IndexInvHolds, PTL

=============================================================================
