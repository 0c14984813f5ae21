--------------------------- MODULE SharedHostsProofs ---------------------------
(***************************************************************************)
(* Theorems about SharedHosts, for any clusters, containers and machines.  *)
(*                                                                         *)
(* A container that is there has a keeper: a cluster that uses it and      *)
(* whose last command was no chia down without a failure, or whose chia    *)
(* down has still to deal with it.  A keeper gives the container up only   *)
(* when it has seen the Ray of another one in it, who then keeps it.       *)
(***************************************************************************)
EXTENDS ClusterLife, ClusterUpProofs

SetupSteps == {"look", "clear", "run", "wipe", "start"}
DownSteps  == {"stop", "count", "blind", "halt", "rm"}

Keeper(c, p) == p \in Uses[c] /\ (c \notin clean \/ at[c][p] \in DownSteps)

\* Where a command has something to do it may do so.
AtWork ==
  \A c \in Clusters : \A p \in Sites : at[c][p] # "over" =>
    /\ p \in Places(c) /\ task[c] # "none"
    /\ at[c][p] \in SetupSteps => c \notin clean
    /\ at[c][p] \in DownSteps => task[c] \in {"down", "sweep"}

RayIsKept ==
  \A c \in Clusters : \A p \in Boxes : <<c, p>> \in ray =>
    p \in Uses[c] /\ (c \notin clean \/ at[c][p] \in {"stop", "blind"})

BoxIsKept ==
  \A p \in Boxes : box[p] # "none" => \E c \in Clusters : Keeper(c, p)

\* Before a command ends what is in a container, nothing old of others is left.
Alone(c, p) == \A r \in old[c] : r[2] = p => r[1] = c

EndsAlone ==
  \A c \in Clusters : \A p \in Sites :
    (at[c][p] \in {"halt", "rm"} /\ task[c] = "down") \/ at[c][p] = "clear" => Alone(c, p)

HostsInv == HostsTypeOK /\ AtWork /\ RayIsKept /\ BoxIsKept /\ EndsAlone

-----------------------------------------------------------------------------
LEMMA SitesApart == Boxes \subseteq Sites /\ Hub \in Sites /\ Hub \notin Boxes
BY SiteAssumption DEF Sites

LEMMA OverType == Over \in [Sites -> Steps] /\ \A p \in Sites : Over[p] = "over"
BY DEF Over, Steps

LEMMA StepKinds ==
  \A s \in Steps : s \in SetupSteps \/ s \in DownSteps \/ s = "over"
BY DEF Steps, SetupSteps, DownSteps

\* One entry of `at` changes.
LEMMA ToAt ==
  ASSUME at \in [Clusters -> [Sites -> Steps]],
         NEW c \in Clusters, NEW p \in Sites, NEW s \in Steps, To(c, p, s)
  PROVE  /\ at' \in [Clusters -> [Sites -> Steps]]
         /\ \A d \in Clusters : \A q \in Sites :
              at'[d][q] = IF d = c /\ q = p THEN s ELSE at[d][q]
         /\ \A d \in Clusters : d # c => at'[d] = at[d]
BY DEF To

LEMMA HostsInvInit == HostsInit => HostsInv
<1> SUFFICES ASSUME HostsInit PROVE HostsInv
  OBVIOUS
<1>1. HostsTypeOK
  BY OverType DEF HostsInit, HostsTypeOK
<1>2. \A c \in Clusters : \A p \in Sites : at[c][p] = "over"
  BY OverType DEF HostsInit
<1>3. AtWork /\ EndsAlone
  BY <1>2 DEF AtWork, EndsAlone
<1>4. RayIsKept /\ BoxIsKept
  BY DEF HostsInit, RayIsKept, BoxIsKept
<1> QED BY <1>1, <1>3, <1>4 DEF HostsInv

\* What is remembered runs, and is no more than before once a command runs.
LEMMA OldRuns ==
  ASSUME HostsTypeOK, Remember,
         \A c \in Clusters : task[c] = "none" /\ task'[c] # "none" => ray \subseteq ray'
  PROVE  /\ old' \in [Clusters -> SUBSET ray']
         /\ \A c \in Clusters : task[c] # "none" => old'[c] \subseteq old[c] \cap ray'
         /\ \A c \in Clusters : task[c] = "none" /\ task'[c] = "none" => old'[c] = {}
BY DEF HostsTypeOK, Remember

\* A step of the command of c at p.
LEMMA StepAtPlace ==
  ASSUME HostsInv, NEW c \in Clusters, NEW p \in Sites, NEW s \in Steps,
         at[c][p] # "over", To(c, p, s), UNCHANGED task, Remember,
         clean' \in {clean, clean \ {c}},
         s \in SetupSteps => at[c][p] \in SetupSteps,
         s \in DownSteps => at[c][p] \in DownSteps,
         ray' \subseteq ray \cup {<<c, p>>},
         p \in Boxes /\ <<c, p>> \in ray' => c \notin clean' \/ s \in {"stop", "blind"},
         box' \in [Boxes -> {"none", "running", "stopped"}],
         \A q \in Boxes : q # p => box'[q] = box[q],
         \A r \in ray' : r[2] = p /\ p \in Boxes => box'[p] = "running",
         p \in Boxes /\ box'[p] # "none" =>
           c \notin clean' \/ s \in DownSteps \/ \E d \in Clusters \ {c} : Keeper(d, p),
         (s \in {"halt", "rm"} /\ task[c] = "down") \/ s = "clear" =>
           \A r \in old[c] \cap ray' : r[2] = p => r[1] = c
  PROVE  HostsInv'
<1> USE DEF HostsInv
<1>1. /\ at' \in [Clusters -> [Sites -> Steps]]
      /\ \A d \in Clusters : \A q \in Sites :
           at'[d][q] = IF d = c /\ q = p THEN s ELSE at[d][q]
  BY ToAt DEF HostsTypeOK
<1>2. /\ old' \in [Clusters -> SUBSET ray']
      /\ \A d \in Clusters : old'[d] \subseteq old[d] \cap ray'
  BY OldRuns DEF HostsTypeOK
<1>3. HostsTypeOK'
  <2>1. ray' \subseteq Clusters \X Sites
    BY DEF HostsTypeOK
  <2>2. \A r \in ray' : r[2] \in Boxes => box'[r[2]] = "running"
    BY DEF HostsTypeOK
  <2> QED BY <1>1, <1>2, <2>1, <2>2 DEF HostsTypeOK
<1>4. AtWork'
  <2> SUFFICES ASSUME NEW d \in Clusters, NEW q \in Sites, at'[d][q] # "over"
               PROVE  /\ q \in Places(d) /\ task[d] # "none"
                      /\ at'[d][q] \in SetupSteps => d \notin clean'
                      /\ at'[d][q] \in DownSteps => task[d] \in {"down", "sweep"}
    BY DEF AtWork, Places
  <2>1. CASE d = c /\ q = p
    BY <1>1, <2>1 DEF AtWork
  <2>2. CASE ~(d = c /\ q = p)
    BY <1>1, <2>2 DEF AtWork
  <2> QED BY <2>1, <2>2
<1>5. p \in Boxes => p \in Uses[c]
  BY SitesApart DEF AtWork, Places
<1>6. RayIsKept'
  <2> SUFFICES ASSUME NEW d \in Clusters, NEW q \in Boxes, <<d, q>> \in ray'
               PROVE  q \in Uses[d] /\ (d \notin clean' \/ at'[d][q] \in {"stop", "blind"})
    BY DEF RayIsKept
  <2>1. CASE d = c /\ q = p
    BY <1>1, <1>5, <2>1
  <2>2. CASE ~(d = c /\ q = p)
    <3>1. <<d, q>> \in ray
      BY <2>2
    <3>2. at'[d][q] = at[d][q]
      BY <1>1, <2>2, SitesApart
    <3> QED BY <3>1, <3>2 DEF RayIsKept
  <2> QED BY <2>1, <2>2
<1>7. BoxIsKept'
  <2> SUFFICES ASSUME NEW q \in Boxes, box'[q] # "none"
               PROVE  \E d \in Clusters : Keeper(d, q)'
    BY DEF BoxIsKept
  <2>1. \A d \in Clusters : ~(d = c /\ q = p) /\ Keeper(d, q) => Keeper(d, q)'
    BY <1>1, SitesApart DEF Keeper
  <2>2. CASE q # p
    BY <2>1, <2>2 DEF BoxIsKept
  <2>3. CASE q = p
    <3>1. c \notin clean' \/ s \in DownSteps => Keeper(c, p)'
      BY <1>1, <1>5, <2>3 DEF Keeper
    <3> QED BY <2>1, <2>3, <3>1
  <2> QED BY <2>2, <2>3
<1>8. EndsAlone'
  <2> SUFFICES ASSUME NEW d \in Clusters, NEW q \in Sites,
                      (at'[d][q] \in {"halt", "rm"} /\ task[d] = "down") \/ at'[d][q] = "clear",
                      NEW r \in old'[d], r[2] = q
               PROVE  r[1] = d
    BY DEF EndsAlone, Alone
  <2>1. r \in old[d] \cap ray'
    BY <1>2
  <2>2. CASE d = c /\ q = p
    BY <1>1, <2>1, <2>2
  <2>3. CASE ~(d = c /\ q = p)
    BY <1>1, <2>1, <2>3 DEF EndsAlone, Alone
  <2> QED BY <2>2, <2>3
<1> QED BY <1>3, <1>4, <1>6, <1>7, <1>8

-----------------------------------------------------------------------------
(* The steps of setup_container and of the commands that start Ray           *)

LEMMA InspectStep ==
  ASSUME HostsInv, NEW c \in Clusters, NEW p \in Boxes, Inspect(c, p), Remember
  PROVE  HostsInv'
<1> DEFINE s == CASE box[p] = "none"    -> "run"
                  [] box[p] = "running" -> Launch(c, p, task[c])
                  [] box[p] = "stopped" -> "clear"
<1>1. p \in Sites /\ box[p] \in {"none", "running", "stopped"}
  BY SitesApart DEF HostsInv, HostsTypeOK
<1>2. /\ s \in {"run", "wipe", "start", "clear"} /\ (s = "clear" => box[p] = "stopped")
      /\ s \in SetupSteps /\ s \notin DownSteps /\ s \in Steps
  BY <1>1 DEF Launch, SetupSteps, DownSteps, Steps
<1>3. /\ at[c][p] = "look" /\ To(c, p, s) /\ UNCHANGED <<box, ray, task, clean>>
  BY DEF Inspect, Turn
<1>4. at[c][p] \in SetupSteps /\ c \notin clean
  BY <1>1, <1>3 DEF SetupSteps, HostsInv, AtWork
<1>5. s = "clear" => \A r \in old[c] : r[2] # p
  BY <1>2, <1>1 DEF HostsInv, HostsTypeOK
<1> HIDE DEF s
<1> QED
  BY <1>1, <1>2, <1>3, <1>4, <1>5, StepAtPlace DEF HostsInv, HostsTypeOK

LEMMA RemoveStoppedStep ==
  ASSUME HostsInv, NEW c \in Clusters, NEW p \in Boxes, RemoveStopped(c, p), Remember
  PROVE  HostsInv'
<1>1. p \in Sites /\ "run" \in Steps \cap SetupSteps /\ "run" \notin DownSteps
  BY SitesApart DEF Steps, SetupSteps, DownSteps
<1>2. /\ at[c][p] = "clear" /\ To(c, p, "run") /\ UNCHANGED <<task, clean>>
      /\ box' = [box EXCEPT ![p] = "none"] /\ ray' = ray \ At(p)
  BY DEF RemoveStopped, Turn
<1>3. at[c][p] \in SetupSteps /\ c \notin clean
  BY <1>1, <1>2 DEF SetupSteps, HostsInv, AtWork
<1>4. /\ box' \in [Boxes -> {"none", "running", "stopped"}]
      /\ \A q \in Boxes : q # p => box'[q] = box[q]
  BY <1>2 DEF HostsInv, HostsTypeOK
<1>5. ray' \subseteq ray /\ \A r \in ray' : r[2] # p
  BY <1>2 DEF At
<1> QED
  BY <1>1, <1>2, <1>3, <1>4, <1>5, StepAtPlace

LEMMA RunContainerStep ==
  ASSUME HostsInv, NEW c \in Clusters, NEW p \in Boxes, RunContainer(c, p), Remember
  PROVE  HostsInv'
<1>1. PICK s \in {"over", "wipe", "start"} :
        /\ To(c, p, s) /\ UNCHANGED <<ray, task, clean>> /\ at[c][p] = "run"
        /\ \/ box[p] = "none" /\ box' = [box EXCEPT ![p] = "running"]
           \/ UNCHANGED box
  BY DEF RunContainer, Turn, Launch
<1>2. /\ p \in Sites /\ s \in Steps /\ (s \in SetupSteps => at[c][p] \in SetupSteps)
      /\ s \notin DownSteps /\ s \notin {"halt", "rm", "clear"}
  BY <1>1, SitesApart DEF Steps, SetupSteps, DownSteps
<1>3. c \notin clean
  BY <1>1, <1>2 DEF SetupSteps, HostsInv, AtWork
<1>4. /\ box' \in [Boxes -> {"none", "running", "stopped"}]
      /\ \A q \in Boxes : q # p => box'[q] = box[q]
      /\ \A r \in ray : r[2] = p => box'[p] = "running"
  BY <1>1 DEF HostsInv, HostsTypeOK
<1> QED
  BY <1>1, <1>2, <1>3, <1>4, StepAtPlace

LEMMA WipeStep ==
  ASSUME HostsInv, NEW c \in Clusters, NEW p \in Sites, Wipe(c, p), Remember
  PROVE  HostsInv'
<1>1. /\ To(c, p, "start") /\ UNCHANGED <<box, task, clean>> /\ at[c][p] = "wipe"
      /\ ray' = ray \ At(p)
  BY DEF Wipe, Turn
<1>2. /\ "start" \in Steps \cap SetupSteps /\ at[c][p] \in SetupSteps
      /\ "start" \notin DownSteps /\ c \notin clean
  BY <1>1 DEF Steps, SetupSteps, DownSteps, HostsInv, AtWork
<1>3. /\ box' \in [Boxes -> {"none", "running", "stopped"}]
      /\ ray' \subseteq ray /\ \A r \in ray' : r[2] # p
  BY <1>1 DEF HostsInv, HostsTypeOK, At
<1> QED
  BY <1>1, <1>2, <1>3, StepAtPlace

LEMMA StartRayStep ==
  ASSUME HostsInv, NEW c \in Clusters, NEW p \in Sites, StartRay(c, p), Remember
  PROVE  HostsInv'
<1>1. /\ To(c, p, "over") /\ UNCHANGED <<box, task, clean>> /\ at[c][p] = "start"
      /\ ray' = ray \cup {<<c, p>>} /\ (p \in Boxes => box[p] = "running")
  BY DEF StartRay, Turn
<1>2. "over" \in Steps /\ "over" \notin SetupSteps /\ "over" \notin DownSteps /\ c \notin clean
  BY <1>1 DEF Steps, SetupSteps, DownSteps, HostsInv, AtWork
<1>3. box' \in [Boxes -> {"none", "running", "stopped"}]
  BY <1>1 DEF HostsInv, HostsTypeOK
<1> QED
  BY <1>1, <1>2, <1>3, StepAtPlace

\* A command that does nothing more, at any place.
LEMMA AllOver ==
  ASSUME HostsInv, NEW c \in Clusters, at' = [at EXCEPT ![c] = Over], Remember,
         UNCHANGED <<box, ray>>, clean' \in {clean, clean \ {c}}, c \notin clean',
         task' \in {task, [task EXCEPT ![c] = "none"]}
  PROVE  HostsInv'
<1> USE DEF HostsInv
<1>1. /\ at' \in [Clusters -> [Sites -> Steps]]
      /\ \A q \in Sites : at'[c][q] = "over"
      /\ \A d \in Clusters : d # c => at'[d] = at[d]
  BY OverType DEF HostsTypeOK
<1>2. \A d \in Clusters : (d # c => task'[d] = task[d]) /\ task'[d] \in {task[d], "none"}
  BY DEF HostsTypeOK
<1>3. /\ old' \in [Clusters -> SUBSET ray']
      /\ \A d \in Clusters : task[d] # "none" => old'[d] \subseteq old[d] \cap ray'
  BY <1>2, OldRuns
<1>4. HostsTypeOK'
  BY <1>1, <1>3 DEF HostsTypeOK
<1>5. AtWork'
  BY <1>1, <1>2 DEF AtWork, Places
<1>6. RayIsKept'
  BY <1>1, SitesApart DEF RayIsKept
<1>7. BoxIsKept'
  <2>1. \A d \in Clusters : \A q \in Boxes : Keeper(d, q) => Keeper(d, q)'
    BY <1>1, SitesApart DEF Keeper
  <2> QED BY <2>1 DEF BoxIsKept
<1>8. EndsAlone'
  <2> SUFFICES ASSUME NEW d \in Clusters, NEW q \in Sites,
                      (at'[d][q] \in {"halt", "rm"} /\ task'[d] = "down") \/ at'[d][q] = "clear",
                      NEW r \in old'[d], r[2] = q
               PROVE  r[1] = d
    BY DEF EndsAlone, Alone
  <2>1. d # c /\ at[d][q] # "over" /\ at'[d] = at[d] /\ task'[d] = task[d]
    BY <1>1, <1>2
  <2>2. r \in old[d]
    BY <1>3, <2>1 DEF AtWork
  <2> QED BY <2>1, <2>2 DEF EndsAlone, Alone
<1> QED BY <1>4, <1>5, <1>6, <1>7, <1>8

LEMMA StartFailsStep ==
  ASSUME HostsInv, NEW c \in Clusters, NEW p \in Sites, StartFails(c, p), Remember
  PROVE  HostsInv'
<1>1. /\ at[c][p] \in {"look", "wipe", "start"} /\ UNCHANGED <<box, ray, task, clean>>
      /\ IF p = Hub THEN at' = [at EXCEPT ![c] = Over] ELSE To(c, p, "over")
  BY DEF StartFails, Turn
<1>2. "over" \in Steps /\ "over" \notin SetupSteps /\ "over" \notin DownSteps /\ c \notin clean
  BY <1>1 DEF Steps, SetupSteps, DownSteps, HostsInv, AtWork
<1>3. CASE p = Hub
  BY <1>1, <1>2, <1>3, AllOver
<1>4. CASE p # Hub
  <2>1. /\ box \in [Boxes -> {"none", "running", "stopped"}]
        /\ \A r \in ray : r[2] \in Boxes => box[r[2]] = "running"
    BY DEF HostsInv, HostsTypeOK
  <2> QED
    BY <1>1, <1>2, <1>4, <2>1, StepAtPlace
<1> QED BY <1>3, <1>4

-----------------------------------------------------------------------------
(* The steps of chia down                                                    *)

LEMMA StopKinds ==
  /\ {"over", "stop", "count", "blind", "halt", "rm"} \subseteq Steps
  /\ \A s \in {"over", "stop", "count", "blind", "halt", "rm"} : s \notin SetupSteps
  /\ \A s \in {"stop", "count", "blind", "halt", "rm"} : s \in DownSteps
  /\ "over" \notin DownSteps
BY DEF Steps, SetupSteps, DownSteps

LEMMA ScopedStopStep ==
  ASSUME HostsInv, NEW c \in Clusters, NEW p \in Sites, ScopedStop(c, p), Remember
  PROVE  HostsInv'
<1>1. PICK s \in {"count", "over"} :
        /\ To(c, p, s) /\ UNCHANGED <<box, task, clean>> /\ at[c][p] = "stop"
        /\ ray' = ray \ {<<c, p>>} /\ (p \in Boxes => s = "count")
  BY DEF ScopedStop, Stoppable
<1>2. /\ box \in [Boxes -> {"none", "running", "stopped"}]
      /\ \A r \in ray : r[2] \in Boxes => box[r[2]] = "running"
  BY DEF HostsInv, HostsTypeOK
<1> QED
  BY <1>1, <1>2, StopKinds, StepAtPlace

LEMMA UnreadStep ==
  ASSUME HostsInv, NEW c \in Clusters, NEW p \in Sites, Unread(c, p), Remember
  PROVE  HostsInv'
<1>1. PICK s \in {"blind", "over"} :
        /\ To(c, p, s) /\ UNCHANGED <<box, ray, task, clean>> /\ at[c][p] = "stop"
        /\ (p \in Boxes => s = "blind")
  BY DEF Unread, Stoppable
<1>2. /\ box \in [Boxes -> {"none", "running", "stopped"}]
      /\ \A r \in ray : r[2] \in Boxes => box[r[2]] = "running"
  BY DEF HostsInv, HostsTypeOK
<1> QED
  BY <1>1, <1>2, StopKinds, StepAtPlace

LEMMA CountForeignStep ==
  ASSUME HostsInv, NEW c \in Clusters, NEW p \in Sites, CountForeign(c, p), Remember
  PROVE  HostsInv'
<1>1. PICK s \in {"halt", "over"} :
        /\ To(c, p, s) /\ UNCHANGED <<box, ray, task, clean>> /\ at[c][p] = "count"
        /\ s = (IF At(p) \subseteq {<<c, p>>} THEN "halt" ELSE "over")
  BY DEF CountForeign
<1>2. /\ box \in [Boxes -> {"none", "running", "stopped"}]
      /\ \A r \in ray : r[2] \in Boxes => box[r[2]] = "running"
      /\ ray \subseteq Clusters \X Sites
      /\ old[c] \subseteq ray
  BY DEF HostsInv, HostsTypeOK
<1>3. s = "halt" => \A r \in old[c] : r[2] = p => r[1] = c
  BY <1>1, <1>2 DEF At
<1>4. p \in Boxes /\ <<c, p>> \in ray => c \notin clean
  BY <1>1 DEF HostsInv, RayIsKept
<1>5. p \in Boxes /\ s = "over" => \E d \in Clusters \ {c} : Keeper(d, p)
  <2> SUFFICES ASSUME p \in Boxes, s = "over" PROVE \E d \in Clusters \ {c} : Keeper(d, p)
    OBVIOUS
  <2>1. PICK r \in ray : r[2] = p /\ r # <<c, p>>
    BY <1>1 DEF At
  <2>2. PICK d \in Clusters : r = <<d, p>>
    BY <1>2, <2>1
  <2>3. Keeper(d, p)
    BY <2>2, StopKinds DEF HostsInv, RayIsKept, Keeper
  <2> QED BY <2>1, <2>2, <2>3
<1> QED
  BY <1>1, <1>2, <1>3, <1>4, <1>5, StopKinds, StepAtPlace

LEMMA BlanketStopStep ==
  ASSUME HostsInv, NEW c \in Clusters, NEW p \in Sites, BlanketStop(c, p), Remember
  PROVE  HostsInv'
<1>1. PICK s \in {"halt", "over"} :
        /\ To(c, p, s) /\ UNCHANGED <<box, task, clean>> /\ at[c][p] = "stop"
        /\ ray' = ray \ At(p) /\ (p \in Boxes => s = "halt") /\ task[c] = "sweep"
  BY DEF BlanketStop, Stoppable
<1>2. /\ box \in [Boxes -> {"none", "running", "stopped"}]
      /\ ray' \subseteq ray /\ \A r \in ray' : r[2] # p
  BY <1>1 DEF HostsInv, HostsTypeOK, At
<1> QED
  BY <1>1, <1>2, StopKinds, StepAtPlace

LEMMA StopFailsStep ==
  ASSUME HostsInv, NEW c \in Clusters, NEW p \in Sites, StopFails(c, p), Remember
  PROVE  HostsInv'
<1>1. /\ at[c][p] \in {"stop", "count"} /\ UNCHANGED <<box, ray, task>> /\ To(c, p, "over")
      /\ \/ clean' = clean \ {c}
         \/ p \in Boxes /\ box[p] = "none" /\ UNCHANGED clean
  BY DEF StopFails, Fails
<1>2. /\ box \in [Boxes -> {"none", "running", "stopped"}]
      /\ \A r \in ray : r[2] \in Boxes => box[r[2]] = "running"
  BY DEF HostsInv, HostsTypeOK
<1>3. p \in Boxes /\ box[p] = "none" => <<c, p>> \notin ray
  BY <1>2
<1> QED
  BY <1>1, <1>2, <1>3, StopKinds, StepAtPlace

LEMMA DockerStopStep ==
  ASSUME HostsInv, NEW c \in Clusters, NEW p \in Boxes, DockerStop(c, p), Remember
  PROVE  HostsInv'
<1>1. /\ To(c, p, "rm") /\ UNCHANGED <<task, clean>> /\ at[c][p] \in {"halt", "blind"}
      /\ box' = [box EXCEPT ![p] = IF @ = "none" THEN "none" ELSE "stopped"]
      /\ ray' = ray \ At(p) /\ p \in Sites
  BY SitesApart DEF DockerStop
<1>2. /\ box' \in [Boxes -> {"none", "running", "stopped"}]
      /\ \A q \in Boxes : q # p => box'[q] = box[q]
      /\ ray' \subseteq ray /\ \A r \in ray' : r[2] # p
  BY <1>1 DEF HostsInv, HostsTypeOK, At
<1> QED
  BY <1>1, <1>2, StopKinds, StepAtPlace

LEMMA DockerRmStep ==
  ASSUME HostsInv, NEW c \in Clusters, NEW p \in Boxes, DockerRm(c, p), Remember
  PROVE  HostsInv'
<1>1. To(c, p, "over") /\ UNCHANGED task /\ at[c][p] = "rm" /\ p \in Sites
  BY SitesApart DEF DockerRm, Fails
<1>2. \/ box' = [box EXCEPT ![p] = "none"] /\ ray' = ray \ At(p) /\ UNCHANGED clean
      \/ UNCHANGED <<box, ray>> /\ clean' = clean \ {c}
  BY DEF DockerRm, Fails
<1>3. /\ box \in [Boxes -> {"none", "running", "stopped"}]
      /\ \A r \in ray : r[2] \in Boxes => box[r[2]] = "running"
  BY DEF HostsInv, HostsTypeOK
<1>4. CASE box' = [box EXCEPT ![p] = "none"] /\ ray' = ray \ At(p) /\ UNCHANGED clean
  <2>1. /\ box' \in [Boxes -> {"none", "running", "stopped"}] /\ box'[p] = "none"
        /\ \A q \in Boxes : q # p => box'[q] = box[q]
    BY <1>3, <1>4
  <2>2. ray' \subseteq ray /\ \A r \in ray' : r[2] # p
    BY <1>4 DEF At
  <2>3. /\ clean' \in {clean, clean \ {c}} /\ ray' \subseteq ray \cup {<<c, p>>}
        /\ <<c, p>> \notin ray'
    BY <1>4, <2>2
  <2> QED
    BY <1>1, <2>1, <2>2, <2>3, StopKinds, StepAtPlace
<1>5. CASE UNCHANGED <<box, ray>> /\ clean' = clean \ {c}
  BY <1>1, <1>3, <1>5, StopKinds, StepAtPlace
<1> QED BY <1>2, <1>4, <1>5

-----------------------------------------------------------------------------
(* Commands begin and end, Ray and machines fail                             *)

LEMMA BeginSetupStep ==
  ASSUME HostsInv, NEW c \in Clusters, NEW k \in {"up", "add"}, BeginSetup(c, k), Remember
  PROVE  HostsInv'
<1> USE DEF HostsInv
<1>1. PICK new \in SUBSET Places(c) :
        /\ task[c] = "none" /\ task' = [task EXCEPT ![c] = k]
        /\ at' = [at EXCEPT ![c] = [p \in Sites |->
             IF p \notin new THEN "over" ELSE IF p \in Boxes THEN "look" ELSE Launch(c, p, k)]]
        /\ clean' = clean \ {c} /\ UNCHANGED <<box, ray>>
  BY DEF BeginSetup, Places
<1>2. /\ at' \in [Clusters -> [Sites -> Steps]]
      /\ \A q \in Sites : /\ at'[c][q] \in {"over", "look", "wipe", "start"}
                          /\ at'[c][q] # "over" => q \in Places(c)
      /\ \A d \in Clusters : d # c => at'[d] = at[d]
  BY <1>1 DEF HostsTypeOK, Launch, Steps
<1>3. /\ \A d \in Clusters : d # c => task'[d] = task[d]
      /\ task'[c] = k /\ task' \in [Clusters -> {"none", "up", "add", "down", "sweep"}]
  BY <1>1 DEF HostsTypeOK
<1>4. /\ old' \in [Clusters -> SUBSET ray']
      /\ \A d \in Clusters : task[d] # "none" => old'[d] \subseteq old[d] \cap ray'
  BY <1>1, OldRuns
<1>5. \A q \in Sites : at[c][q] = "over"
  BY <1>1 DEF AtWork
<1>6. HostsTypeOK'
  BY <1>1, <1>2, <1>3, <1>4 DEF HostsTypeOK
<1>7. AtWork'
  <2>1. \A q \in Sites : at'[c][q] \notin DownSteps
    BY <1>2, StopKinds DEF DownSteps
  <2>2. \A d \in Clusters : d # c => at'[d] = at[d] /\ task'[d] = task[d]
                                     /\ (d \notin clean => d \notin clean')
    BY <1>1, <1>2, <1>3
  <2>3. c \notin clean' /\ task'[c] # "none"
    BY <1>1, <1>3
  <2> QED BY <1>2, <2>1, <2>2, <2>3 DEF AtWork, Places
<1>8. RayIsKept'
  BY <1>1, <1>2 DEF RayIsKept
<1>9. BoxIsKept'
  <2>1. \A d \in Clusters : \A q \in Boxes : Keeper(d, q) => Keeper(d, q)'
    BY <1>1, <1>2 DEF Keeper
  <2> QED BY <1>1, <2>1 DEF BoxIsKept
<1>10. EndsAlone'
  <2> SUFFICES ASSUME NEW d \in Clusters, NEW q \in Sites,
                      (at'[d][q] \in {"halt", "rm"} /\ task'[d] = "down") \/ at'[d][q] = "clear",
                      NEW r \in old'[d], r[2] = q
               PROVE  r[1] = d
    BY DEF EndsAlone, Alone
  <2>1. d # c
    BY <1>2
  <2>2. at[d][q] = at'[d][q] /\ task'[d] = task[d] /\ at[d][q] # "over"
    BY <1>2, <1>3, <2>1
  <2>3. r \in old[d]
    BY <1>4, <2>2 DEF AtWork
  <2> QED BY <2>2, <2>3 DEF EndsAlone, Alone
<1> QED BY <1>6, <1>7, <1>8, <1>9, <1>10

LEMMA BeginDownStep ==
  ASSUME HostsInv, NEW c \in Clusters, NEW k \in {"down", "sweep"}, BeginDown(c, k), Remember
  PROVE  HostsInv'
<1> USE DEF HostsInv
<1>1. /\ task[c] = "none" /\ task' = [task EXCEPT ![c] = k]
      /\ at' = [at EXCEPT ![c] = [p \in Sites |-> IF p \in Places(c) THEN "stop" ELSE "over"]]
      /\ clean' = clean \cup {c} /\ UNCHANGED <<box, ray>>
  BY DEF BeginDown
<1>2. /\ at' \in [Clusters -> [Sites -> Steps]]
      /\ \A q \in Sites : at'[c][q] = IF q \in Places(c) THEN "stop" ELSE "over"
      /\ \A d \in Clusters : d # c => at'[d] = at[d]
  BY <1>1, StopKinds DEF HostsTypeOK
<1>3. /\ \A d \in Clusters : d # c => task'[d] = task[d]
      /\ task'[c] = k /\ task' \in [Clusters -> {"none", "up", "add", "down", "sweep"}]
  BY <1>1 DEF HostsTypeOK
<1>4. /\ old' \in [Clusters -> SUBSET ray']
      /\ \A d \in Clusters : task[d] # "none" => old'[d] \subseteq old[d] \cap ray'
  BY <1>1, OldRuns
<1>5. \A q \in Uses[c] : q \in Boxes => at'[c][q] = "stop"
  BY <1>2, SitesApart DEF Places
<1>6. HostsTypeOK'
  BY <1>1, <1>2, <1>3, <1>4 DEF HostsTypeOK
<1>7. AtWork'
  <2>1. \A d \in Clusters : d # c => at'[d] = at[d] /\ task'[d] = task[d]
                                     /\ (d \notin clean => d \notin clean')
    BY <1>1, <1>2, <1>3
  <2> QED BY <1>2, <1>3, <2>1, StopKinds DEF AtWork, Places
<1>8. RayIsKept'
  BY <1>1, <1>2, <1>5 DEF RayIsKept
<1>9. BoxIsKept'
  <2>1. \A d \in Clusters : \A q \in Boxes : Keeper(d, q) => Keeper(d, q)'
    BY <1>1, <1>2, <1>5, StopKinds DEF Keeper
  <2> QED BY <1>1, <2>1 DEF BoxIsKept
<1>10. EndsAlone'
  <2> SUFFICES ASSUME NEW d \in Clusters, NEW q \in Sites,
                      (at'[d][q] \in {"halt", "rm"} /\ task'[d] = "down") \/ at'[d][q] = "clear",
                      NEW r \in old'[d], r[2] = q
               PROVE  r[1] = d
    BY DEF EndsAlone, Alone
  <2>1. d # c
    BY <1>2
  <2>2. at[d][q] = at'[d][q] /\ task'[d] = task[d] /\ at[d][q] # "over"
    BY <1>2, <1>3, <2>1
  <2>3. r \in old[d]
    BY <1>4, <2>2 DEF AtWork
  <2> QED BY <2>2, <2>3 DEF EndsAlone, Alone
<1> QED BY <1>6, <1>7, <1>8, <1>9, <1>10

\* Where no command takes a step.
LEMMA NoCommandSteps ==
  ASSUME HostsInv, Remember, UNCHANGED <<at, clean>>, ray' \subseteq ray,
         task' \in [Clusters -> {"none", "up", "add", "down", "sweep"}],
         \A d \in Clusters : task'[d] = task[d] \/ (task'[d] = "none" /\ at[d] = Over),
         box' \in [Boxes -> {"none", "running", "stopped"}],
         \A p \in Boxes : box'[p] # "none" => box[p] # "none",
         \A r \in ray' : r[2] \in Boxes => box'[r[2]] = "running"
  PROVE  HostsInv'
<1> USE DEF HostsInv
<1>1. /\ old' \in [Clusters -> SUBSET ray']
      /\ \A d \in Clusters : task[d] # "none" => old'[d] \subseteq old[d] \cap ray'
  BY OldRuns
<1>2. HostsTypeOK'
  BY <1>1 DEF HostsTypeOK
<1>3. \A d \in Clusters : \A q \in Sites : at[d][q] # "over" => task'[d] = task[d]
  BY OverType
<1>4. AtWork'
  BY <1>3 DEF AtWork, Places
<1>5. RayIsKept'
  BY DEF RayIsKept
<1>6. BoxIsKept'
  BY DEF BoxIsKept, Keeper
<1>7. EndsAlone'
  <2> SUFFICES ASSUME NEW d \in Clusters, NEW q \in Sites,
                      (at[d][q] \in {"halt", "rm"} /\ task'[d] = "down") \/ at[d][q] = "clear",
                      NEW r \in old'[d], r[2] = q
               PROVE  r[1] = d
    BY DEF EndsAlone, Alone
  <2>1. task'[d] = task[d] /\ r \in old[d]
    BY <1>1, <1>3 DEF AtWork
  <2> QED BY <2>1 DEF EndsAlone, Alone
<1> QED BY <1>2, <1>4, <1>5, <1>6, <1>7

LEMMA FailureSteps ==
  ASSUME HostsInv, Remember,
         \/ \E c \in Clusters : Exits(c) \/ \E p \in Sites : RayDies(c, p)
         \/ \E p \in Boxes : BoxStops(p)
  PROVE  HostsInv'
<1>1. /\ box \in [Boxes -> {"none", "running", "stopped"}]
      /\ \A r \in ray : r[2] \in Boxes => box[r[2]] = "running"
      /\ task \in [Clusters -> {"none", "up", "add", "down", "sweep"}]
  BY DEF HostsInv, HostsTypeOK
<1>2. ASSUME NEW c \in Clusters, Exits(c) PROVE HostsInv'
  <2>1. /\ task' \in [Clusters -> {"none", "up", "add", "down", "sweep"}]
        /\ \A d \in Clusters : task'[d] = task[d] \/ (task'[d] = "none" /\ at[d] = Over)
        /\ UNCHANGED <<box, ray, at, clean>>
    BY <1>1, <1>2 DEF Exits
  <2> QED BY <1>1, <2>1, NoCommandSteps
<1>3. ASSUME NEW c \in Clusters, NEW p \in Sites, RayDies(c, p) PROVE HostsInv'
  <2>1. ray' \subseteq ray /\ UNCHANGED <<box, task, at, clean>>
    BY <1>3 DEF RayDies
  <2> QED BY <1>1, <2>1, NoCommandSteps
<1>4. ASSUME NEW p \in Boxes, BoxStops(p) PROVE HostsInv'
  <2>1. /\ box[p] = "running" /\ box' = [box EXCEPT ![p] = "stopped"] /\ ray' = ray \ At(p)
        /\ UNCHANGED <<task, at, clean>>
    BY <1>4 DEF BoxStops
  <2>2. /\ box' \in [Boxes -> {"none", "running", "stopped"}]
        /\ \A q \in Boxes : box'[q] # "none" => box[q] # "none"
        /\ ray' \subseteq ray /\ \A r \in ray' : r[2] \in Boxes => box'[r[2]] = "running"
    BY <1>1, <2>1 DEF At
  <2> QED BY <1>1, <2>1, <2>2, NoCommandSteps
<1> QED BY <1>2, <1>3, <1>4

LEMMA InterruptStep ==
  ASSUME HostsInv, NEW c \in Clusters, Interrupt(c), Remember
  PROVE  HostsInv'
BY AllOver DEF Interrupt

LEMMA HostsInvStep == HostsInv /\ [HostsStep]_hostVars => HostsInv'
<1> SUFFICES ASSUME HostsInv, [HostsStep]_hostVars PROVE HostsInv'
  OBVIOUS
<1>1. CASE UNCHANGED hostVars
  BY <1>1 DEF hostVars, HostsInv, HostsTypeOK, AtWork, RayIsKept, BoxIsKept, EndsAlone, Keeper, Alone
<1>2. CASE HostsStep
  <2>1. Remember
    BY <1>2 DEF HostsStep
  <2>2. ASSUME NEW c \in Clusters,
               \/ BeginSetup(c, "up") \/ BeginSetup(c, "add")
               \/ BeginDown(c, "down") \/ BeginDown(c, "sweep")
        PROVE  HostsInv'
    BY <2>1, <2>2, BeginSetupStep, BeginDownStep
  <2>3. ASSUME NEW c \in Clusters, NEW p \in Boxes,
               Inspect(c, p) \/ RemoveStopped(c, p) \/ RunContainer(c, p)
        PROVE  HostsInv'
    BY <2>1, <2>3, InspectStep, RemoveStoppedStep, RunContainerStep
  <2>4. ASSUME NEW c \in Clusters, NEW p \in Boxes,
               CountForeign(c, p) \/ DockerStop(c, p) \/ DockerRm(c, p)
        PROVE  HostsInv'
    BY <2>1, <2>4, SitesApart, CountForeignStep, DockerStopStep, DockerRmStep
  <2>5. ASSUME NEW c \in Clusters, NEW p \in Sites,
               Wipe(c, p) \/ StartRay(c, p) \/ StartFails(c, p)
        PROVE  HostsInv'
    BY <2>1, <2>5, WipeStep, StartRayStep, StartFailsStep
  <2>6. ASSUME NEW c \in Clusters, NEW p \in Sites,
               ScopedStop(c, p) \/ Unread(c, p) \/ BlanketStop(c, p) \/ StopFails(c, p)
        PROVE  HostsInv'
    BY <2>1, <2>6, ScopedStopStep, UnreadStep, BlanketStopStep, StopFailsStep
  <2> QED
    BY <1>2, <2>1, <2>2, <2>3, <2>4, <2>5, <2>6, FailureSteps, InterruptStep DEF HostsStep
<1> QED BY <1>1, <1>2

\* The inductive invariant of any number of clusters on shared machines
\* (setup_container, tear_down_worker_node).
THEOREM HostsInvHolds == HostsSpec => []HostsInv
<1> QED BY HostsInvInit, HostsInvStep, PTL DEF HostsSpec

-----------------------------------------------------------------------------
\* Ray runs only in containers that do, and what is remembered of it runs
\* (setup_container, selective_ray_stop).
THEOREM HostsTypeHolds == HostsSpec => []HostsTypeOK
<1>1. HostsInv => HostsTypeOK
  BY DEF HostsInv
<1> QED BY <1>1, HostsInvHolds, PTL

\* However the commands of the clusters of a container overlap, it is gone once
\* each has ended with a chia down that met no failure (tear_down_worker_node).
THEOREM LastOneRemovesHolds == HostsSpec => []LastOneRemoves
<1>1. HostsInv => LastOneRemoves
  <2> SUFFICES ASSUME HostsInv, NEW p \in Boxes, box[p] # "none"
               PROVE  \E c \in Clusters : p \in Uses[c] /\ ~(task[c] = "none" /\ c \in clean)
    BY DEF LastOneRemoves
  <2>1. PICK c \in Clusters : Keeper(c, p)
    BY DEF HostsInv, BoxIsKept
  <2>2. at[c][p] \in DownSteps => task[c] # "none"
    BY SitesApart DEF HostsInv, AtWork, DownSteps
  <2> QED BY <2>1, <2>2 DEF Keeper
<1> QED BY <1>1, HostsInvHolds, PTL

Spares ==
  \A c \in Clusters : \A r \in old[c] \ ray' :
    \/ at'[c] = at[c] \/ r[1] = c
    \/ task[c] = "sweep" \/ at[c][r[2]] \in {"wipe", "blind"}

LEMMA SparesAtPlace ==
  ASSUME HostsInv, NEW d \in Clusters, NEW p \in Sites, NEW s \in Steps, To(d, p, s),
         \A r \in ray \ ray' : r[2] = p,
         \/ at[d][p] \in {"wipe", "blind"} \/ task[d] = "sweep"
         \/ \A r \in old[d] \ ray' : r[2] = p => r[1] = d
  PROVE  Spares
<1>1. \A c \in Clusters : c # d => at'[c] = at[c]
  BY ToAt DEF HostsInv, HostsTypeOK
<1>2. \A r \in old[d] : r \in ray
  BY DEF HostsInv, HostsTypeOK
<1> QED BY <1>1, <1>2 DEF Spares

LEMMA SparesStep == HostsInv /\ [HostsStep]_hostVars => [Spares]_hostVars
<1> SUFFICES ASSUME HostsInv, HostsStep PROVE Spares
  BY Zenon
<1>1. ASSUME ray \subseteq ray' PROVE Spares
  BY <1>1 DEF Spares, HostsInv, HostsTypeOK
<1>2. ASSUME UNCHANGED at PROVE Spares
  BY <1>2 DEF Spares
<1>3. ASSUME NEW c \in Clusters, NEW p \in Boxes, RemoveStopped(c, p) PROVE Spares
  BY <1>3, SitesApart, SparesAtPlace DEF RemoveStopped, Turn, At, HostsInv, EndsAlone, Alone, Steps
<1>4. ASSUME NEW c \in Clusters, NEW p \in Boxes, DockerStop(c, p) \/ DockerRm(c, p) PROVE Spares
  <2>1. p \in Sites /\ at[c][p] \in {"halt", "blind", "rm"} /\ \A r \in ray \ ray' : r[2] = p
    BY <1>4, SitesApart DEF DockerStop, DockerRm, At
  <2>2. \E s \in Steps : To(c, p, s)
    BY <1>4, StopKinds DEF DockerStop, DockerRm, Fails
  <2>3. at[c][p] = "blind" \/ task[c] = "sweep" \/ \A r \in old[c] : r[2] = p => r[1] = c
    BY <2>1, StopKinds DEF HostsInv, AtWork, EndsAlone, Alone
  <2> QED BY <2>1, <2>2, <2>3, SparesAtPlace
<1>5. ASSUME NEW c \in Clusters, NEW p \in Sites, Wipe(c, p) PROVE Spares
  BY <1>5, SparesAtPlace DEF Wipe, Turn, At, Steps
<1>6. ASSUME NEW c \in Clusters, NEW p \in Sites, ScopedStop(c, p) PROVE Spares
  <2>1. \E s \in Steps : To(c, p, s)
    BY <1>6, StopKinds DEF ScopedStop
  <2>2. \A r \in ray \ ray' : r[2] = p /\ r[1] = c
    BY <1>6 DEF ScopedStop
  <2>3. \A r \in old[c] : r \in ray
    BY DEF HostsInv, HostsTypeOK
  <2> QED BY <2>1, <2>2, <2>3, SparesAtPlace
<1>7. ASSUME NEW c \in Clusters, NEW p \in Sites, BlanketStop(c, p) PROVE Spares
  <2>1. \E s \in Steps : To(c, p, s)
    BY <1>7, StopKinds DEF BlanketStop
  <2>2. task[c] = "sweep" /\ \A r \in ray \ ray' : r[2] = p
    BY <1>7 DEF BlanketStop, Stoppable, At
  <2> QED BY <2>1, <2>2, SparesAtPlace
<1>8. ASSUME NEW c \in Clusters,
             \/ BeginSetup(c, "up") \/ BeginSetup(c, "add")
             \/ BeginDown(c, "down") \/ BeginDown(c, "sweep")
             \/ Exits(c) \/ Interrupt(c)
      PROVE  ray \subseteq ray'
  BY <1>8 DEF BeginSetup, BeginDown, Exits, Interrupt
<1>9. ASSUME NEW c \in Clusters, NEW p \in Sites,
             \/ Inspect(c, p) \/ RunContainer(c, p) \/ CountForeign(c, p)
             \/ StartRay(c, p) \/ StartFails(c, p) \/ Unread(c, p) \/ StopFails(c, p)
      PROVE  ray \subseteq ray'
  BY <1>9 DEF Inspect, RunContainer, CountForeign, StartRay, StartFails, Unread, StopFails
<1>10. ASSUME NEW c \in Clusters, NEW p \in Sites, RayDies(c, p) PROVE UNCHANGED at
  BY <1>10 DEF RayDies
<1>11. ASSUME NEW p \in Boxes, BoxStops(p) PROVE UNCHANGED at
  BY <1>11 DEF BoxStops
<1> QED
  BY <1>1, <1>2, <1>3, <1>4, <1>5, <1>6, <1>7, <1>8, <1>9, <1>10, <1>11, SitesApart
     DEF HostsStep

\* No command ends the Ray of another cluster that has been running since before
\* the command began, but by its `ray stop` among the commands that start Ray,
\* by chia down --no-scoped and by a chia down that reads no count
\* (selective_ray_stop, count_foreign_ray_processes).
THEOREM OthersAreSparedHolds == HostsSpec => OthersAreSpared
<1>1. HostsInv /\ [HostsStep]_hostVars => [Spares]_hostVars
  BY SparesStep
<1> QED BY <1>1, HostsInvHolds, PTL DEF HostsSpec, OthersAreSpared, Spares

-----------------------------------------------------------------------------
(* One cluster and the crowd together (ClusterLife)                          *)

\* A step of the one view is a stutter of the other: what is proved of a
\* cluster and of the machines it shares holds of the two together.
THEOREM LifeShowsBoth == LifeSpec => Spec /\ HostsSpec
<1>1. LifeInit => Init /\ HostsInit
  BY DEF LifeInit
<1>2. [LifeNext]_lifeVars => [Next]_vars /\ [HostsStep]_hostVars
  BY Zenon DEF LifeNext, lifeVars
<1> QED BY <1>1, <1>2, PTL DEF LifeSpec, Spec, HostsSpec

\* The state of both views has its types, in all behaviours of the two.
THEOREM LifeTypeHolds == LifeSpec => []LifeTypeOK
<1> DEFINE Seen == view \in {"alone", "crowd"}
<1>1. LifeInit => Seen
  BY DEF LifeInit
<1>2. Seen /\ [LifeNext]_lifeVars => Seen'
  BY DEF LifeNext, lifeVars
<1>3. LifeSpec => []Seen
  <2> HIDE DEF Seen
  <2> QED BY <1>1, <1>2, PTL DEF LifeSpec
<1>4. TypeOK /\ HostsTypeOK /\ Seen => LifeTypeOK
  BY DEF LifeTypeOK
<1> HIDE DEF Seen
<1> QED BY <1>3, <1>4, LifeShowsBoth, TypeCorrect, HostsTypeHolds, PTL

=============================================================================
