----------------------------- MODULE PidRegistry -----------------------------
(***************************************************************************)
(* Process-leak prevention of CHIA (chia/base/pid_registry.py).            *)
(*                                                                         *)
(* A remote @ChiaFunction task runs inside _pid_tracking_scope.  Every     *)
(* subprocess.Popen of the task is remembered twice: in a thread-local     *)
(* list of the worker, used to kill the processes when an exception leaves *)
(* the scope, and in a named Ray actor, the registry, used by chia_cancel  *)
(* and by the SIGTERM handler of the driver.  Calls of a worker to the     *)
(* registry are asynchronous: they wait in an inbox, in order.             *)
(*                                                                         *)
(* A Popen is three steps, because a cancellation is raised between two    *)
(* bytecodes of the task: the process exists, then it is on the local      *)
(* list, then its registration has been sent.                              *)
(*                                                                         *)
(* A pid stands for a (node, pid) pair, or for the process group of a      *)
(* start_new_session child; that of a process that has exited may be given *)
(* to another.                                                             *)
(*                                                                         *)
(* The registry has a name and no owner that waits for it: when it dies,   *)
(* the next process that looks for it makes another.  A process keeps the  *)
(* handle it found first, so those that held the old one hold a dead one.  *)
(***************************************************************************)
EXTENDS Naturals, Sequences

CONSTANTS
  Tasks,      \* Ray tasks of one driver
  Pids,       \* process ids of the cluster's nodes
  Nobody,     \* the owner of a pid no process has
  NoPid,      \* no Popen in progress
  MaxInbox    \* bound: calls of one worker waiting at the registry

ASSUME NobodyAssumption == Nobody \notin Tasks
ASSUME NoPidAssumption  == NoPid \notin Pids
ASSUME InboxAssumption  == MaxInbox \in Nat

VARIABLES
  phase,      \* where each task is
  handle,     \* the registry each task's scope has found
  opening,    \* the pid of the Popen in progress, or of the one interrupted
  tracked,    \* _tls.tracked_pids
  owner,      \* the task whose process has the pid
  inbox,      \* calls of each task's worker that the registry has not served
  registry,   \* PidRegistryActor._tasks of the actor that has the name
  up,         \* is there an actor of that name?
  kills,      \* running kill jobs: _kill_pid tasks and _kill_local_pids
  cancel,     \* where each task's chia_cancel is
  fetched,    \* pids chia_cancel has taken out of the registry and not passed on
  driver,     \* the driver and its SIGTERM handler
  main        \* _registry_handle of the driver

taskVars == <<phase, handle, opening, tracked>>
regVars  == <<inbox, registry, up>>
ctlVars  == <<cancel, fetched, driver, main>>
vars     == <<taskVars, owner, regVars, kills, ctlVars>>

InScope == {"running", "spawned", "listed", "killing"}
Ended   == {"finished", "failed", "cut", "killed"}
Killers == {"local", "cancel", "driver"}
Handles == {"none", "live", "dead"}   \* None, the actor of today, an earlier one
Calls   == [op : {"register"}, pid : Pids] \cup {[op |-> "unregister"]}
Jobs    == [task : Tasks, pid : Pids, by : Killers]

\* The scope of t tracks: it has found a registry, be it one that is dead.
Tracks(t) == handle[t] # "none"

\* The live processes of task t.
Own(t) == {p \in Pids : owner[p] = t}

\* The jobs that kill the processes P of task t.
JobsFor(t, P, by) == [task : {t}, pid : P, by : {by}]

TypeOK ==
  /\ phase    \in [Tasks -> {"queued"} \cup InScope \cup Ended]
  /\ handle   \in [Tasks -> Handles]
  /\ opening  \in [Tasks -> Pids \cup {NoPid}]
  /\ tracked  \in [Tasks -> SUBSET Pids]
  /\ owner    \in [Pids -> Tasks \cup {Nobody}]
  /\ inbox    \in [Tasks -> Seq(Calls)]
  /\ registry \in [Tasks -> SUBSET Pids]
  /\ up       \in BOOLEAN
  /\ kills    \in SUBSET Jobs
  /\ cancel   \in [Tasks -> {"none", "asked", "fetched", "killing", "soft", "force", "done"}]
  /\ fetched  \in [Tasks -> SUBSET Pids]
  /\ driver   \in {"up", "stopping", "killing", "gone"}
  /\ main     \in Handles

Init ==
  /\ phase    = [t \in Tasks |-> "queued"]
  /\ handle   = [t \in Tasks |-> "none"]
  /\ opening  = [t \in Tasks |-> NoPid]
  /\ tracked  = [t \in Tasks |-> {}]
  /\ owner    = [p \in Pids |-> Nobody]
  /\ inbox    = [t \in Tasks |-> <<>>]
  /\ registry = [t \in Tasks |-> {}]
  /\ up       \in BOOLEAN
  /\ kills    = {}
  /\ cancel   = [t \in Tasks |-> "none"]
  /\ fetched  = [t \in Tasks |-> {}]
  /\ driver   = "up"
  /\ main     = "none"

\* An asynchronous call of t's worker: lost when its actor is dead.
Send(t, call) ==
  inbox' = IF handle[t] = "live" THEN [inbox EXCEPT ![t] = Append(@, call)] ELSE inbox

\* What _get_registry gives a process that holds no handle, or one it has from
\* an earlier task: None when the actor cannot be reached or made, the actor,
\* made if there is none, or the one that has died since.
GetRegistry(found) ==
  up' = (up \/ found = "live")

-----------------------------------------------------------------------------
(* The task: the trampoline, its tracking scope and the Popen hook.        *)

\* Without a registry the task runs untracked.
Start(t) ==
  /\ phase[t] = "queued"
  /\ driver # "gone"
  /\ phase' = [phase EXCEPT ![t] = "running"]
  /\ \E found \in Handles :
       /\ GetRegistry(found)
       /\ handle' = [handle EXCEPT ![t] = found]
  /\ UNCHANGED <<opening, tracked, owner, inbox, registry, kills, ctlVars>>

\* _original_popen_init returns: the process runs, nobody knows its pid.
Spawn(t, p) ==
  /\ phase[t] = "running"
  /\ owner[p] = Nobody
  /\ owner' = [owner EXCEPT ![p] = t]
  /\ IF Tracks(t)
       THEN /\ phase'   = [phase EXCEPT ![t] = "spawned"]
            /\ opening' = [opening EXCEPT ![t] = p]
       ELSE UNCHANGED <<phase, opening>>
  /\ UNCHANGED <<handle, tracked, regVars, kills, ctlVars>>

\* local_list.append
List(t) ==
  /\ phase[t] = "spawned"
  /\ phase'   = [phase EXCEPT ![t] = "listed"]
  /\ tracked' = [tracked EXCEPT ![t] = @ \cup {opening[t]}]
  /\ UNCHANGED <<handle, opening, owner, regVars, kills, ctlVars>>

\* Mutant of Register: the frame is gone before the pid is read.
RegisterAfterReset(t) ==
  /\ phase[t] = "listed"
  /\ Len(inbox[t]) < MaxInbox
  /\ phase'   = [phase EXCEPT ![t] = "running"]
  /\ opening' = [opening EXCEPT ![t] = NoPid]
  /\ Send(t, [op |-> "register", pid |-> opening'[t]])
  /\ UNCHANGED <<handle, tracked, owner, registry, up, kills, ctlVars>>

\* registry.register.remote; Popen returns to the task.
Register(t) ==
  /\ phase[t] = "listed"
  /\ Len(inbox[t]) < MaxInbox
  /\ phase'   = [phase EXCEPT ![t] = "running"]
  /\ opening' = [opening EXCEPT ![t] = NoPid]
  /\ Send(t, [op |-> "register", pid |-> opening[t]])
  /\ UNCHANGED <<handle, tracked, owner, registry, up, kills, ctlVars>>

\* The finally clause of the scope.
LeaveScope(t, how) ==
  /\ phase'   = [phase EXCEPT ![t] = how]
  /\ tracked' = [tracked EXCEPT ![t] = {}]
  /\ IF Tracks(t) THEN Send(t, [op |-> "unregister"]) ELSE UNCHANGED inbox

\* func returns; processes it left behind are no longer tracked.
Return(t) ==
  /\ phase[t] = "running"
  /\ LeaveScope(t, "finished")
  /\ UNCHANGED <<handle, opening, owner, registry, up, kills, ctlVars>>

\* Mutant of Unwind: the exception passes through without the local kill.
UnwindWithoutKill(t) ==
  /\ phase[t] \in InScope
  /\ LeaveScope(t, "failed")
  /\ UNCHANGED kills

\* A BaseException reaches the scope.  Inside the yield it starts the local
\* kill; during the local kill it abandons it.
Unwind(t) ==
  \/ /\ phase[t] \in {"running", "spawned", "listed"}
     /\ Tracks(t)
     /\ phase' = [phase EXCEPT ![t] = "killing"]
     /\ kills' = kills \cup JobsFor(t, tracked[t], "local")
     /\ UNCHANGED <<tracked, inbox>>
  \/ /\ phase[t] \in {"running", "spawned", "listed"}
     /\ ~Tracks(t)
     /\ LeaveScope(t, "failed")
     /\ UNCHANGED kills
  \/ /\ phase[t] = "killing"
     /\ LeaveScope(t, "cut")
     /\ kills' = {k \in kills : ~(k.task = t /\ k.by = "local")}

\* func raises.
Raise(t) ==
  /\ phase[t] = "running"
  /\ Unwind(t)
  /\ UNCHANGED <<handle, opening, owner, registry, up, ctlVars>>

\* _kill_local_pids returns and the exception is re-raised.
EndKill(t) ==
  /\ phase[t] = "killing"
  /\ \A k \in kills : ~(k.task = t /\ k.by = "local")
  /\ LeaveScope(t, "failed")
  /\ UNCHANGED <<handle, opening, owner, registry, up, kills, ctlVars>>

\* The worker process dies: no except, no finally, and the calls it had not
\* transmitted are lost, as is a kill it was running.
Die(t) ==
  /\ phase' = [phase EXCEPT ![t] = "killed"]
  /\ \E n \in 0 .. Len(inbox[t]) :
       inbox' = [inbox EXCEPT ![t] = SubSeq(@, 1, n)]
  /\ kills' = {k \in kills : ~(k.task = t /\ k.by = "local")}

-----------------------------------------------------------------------------
(* The operating system.                                                   *)

Exit(p) ==
  /\ owner[p] # Nobody
  /\ owner' = [owner EXCEPT ![p] = Nobody]
  /\ UNCHANGED <<taskVars, regVars, kills, ctlVars>>

\* Mutant of Serve: calls of one worker overtake each other.
ServeNewest(t) ==
  /\ up
  /\ driver \in {"up", "stopping"}
  /\ inbox[t] # <<>>
  /\ LET call == inbox[t][Len(inbox[t])] IN
       registry' = [registry EXCEPT ![t] =
                      IF call.op = "register" THEN @ \cup {call.pid} ELSE {}]
  /\ inbox' = [inbox EXCEPT ![t] = SubSeq(@, 1, Len(@) - 1)]
  /\ UNCHANGED <<taskVars, owner, up, kills, ctlVars>>

-----------------------------------------------------------------------------
(* The registry actor: one call at a time, and none while it is inside     *)
(* kill_all, which waits for the kills it dispatched, or after the job.    *)

Serve(t) ==
  /\ up
  /\ driver \in {"up", "stopping"}
  /\ inbox[t] # <<>>
  /\ LET call == Head(inbox[t]) IN
       registry' = [registry EXCEPT ![t] =
                      IF call.op = "register" THEN @ \cup {call.pid} ELSE {}]
  /\ inbox' = [inbox EXCEPT ![t] = Tail(@)]
  /\ UNCHANGED <<taskVars, owner, up, kills, ctlVars>>

\* The actor is not detached: it dies with the worker that created it, and
\* so do the kill tasks it owns.
RegistryDies ==
  /\ up
  /\ up'       = FALSE
  /\ handle'   = [t \in Tasks |-> IF handle[t] = "live" THEN "dead" ELSE handle[t]]
  /\ main'     = IF main = "live" THEN "dead" ELSE main
  /\ registry' = [t \in Tasks |-> {}]
  /\ inbox'    = [t \in Tasks |-> <<>>]
  /\ kills'    = {k \in kills : k.by # "driver"}
  /\ UNCHANGED <<phase, opening, tracked, owner, cancel, fetched, driver>>

-----------------------------------------------------------------------------
(* Kill jobs: SIGTERM, wait for the death, SIGKILL after the grace period. *)
(* A job is one action, its end: the first signal alone changes nothing    *)
(* that can be relied on, since a process may ignore it.                   *)

Job(t, p, by) == [task |-> t, pid |-> p, by |-> by]

\* Mutant of KillPid: gives up at the end of the grace period.
KillPidGently(t, p, by) ==
  /\ Job(t, p, by) \in kills
  /\ kills' = kills \ {Job(t, p, by)}
  /\ UNCHANGED <<taskVars, owner, regVars, ctlVars>>

\* Mutant of KillPid: waits for the death for ever.
KillPidWithoutGrace(t, p, by) ==
  /\ owner[p] = Nobody
  /\ Job(t, p, by) \in kills
  /\ kills' = kills \ {Job(t, p, by)}
  /\ UNCHANGED <<taskVars, owner, regVars, ctlVars>>

\* No process has the pid, or _wait_for_death sees it gone, or the grace period
\* ends and the survivor gets SIGKILL.
KillPid(t, p, by) ==
  /\ Job(t, p, by) \in kills
  /\ kills' = kills \ {Job(t, p, by)}
  /\ owner' = [owner EXCEPT ![p] = Nobody]
  /\ UNCHANGED <<taskVars, regVars, ctlVars>>

-----------------------------------------------------------------------------
(* chia_cancel, in a thread of the driver.  The SIGTERM handler runs in the *)
(* main thread: a call that thread was in does not go on.                  *)

\* The driver's first look for the registry also installs its SIGTERM handler.
\* Without a registry the next thing is ray.cancel.
CancelBegins(t) ==
  /\ driver # "gone"
  /\ cancel[t] = "none"
  /\ IF main = "none"
       THEN \E found \in {"none", "live"} : GetRegistry(found) /\ main' = found
       ELSE UNCHANGED <<up, main>>
  /\ cancel' = [cancel EXCEPT ![t] = IF main' = "none" THEN "killing" ELSE "asked"]
  /\ UNCHANGED <<taskVars, owner, inbox, registry, kills, fetched, driver>>

\* The actor runs get_and_remove, and the driver has the answer.
CancelFetch(t) ==
  /\ driver \in {"up", "stopping"}
  /\ main = "live"
  /\ cancel[t] = "asked"
  /\ cancel'   = [cancel EXCEPT ![t] = "fetched"]
  /\ fetched'  = [fetched EXCEPT ![t] = registry[t]]
  /\ registry' = [registry EXCEPT ![t] = {}]
  /\ UNCHANGED <<taskVars, owner, inbox, up, kills, driver, main>>

\* Mutant of CancelDispatch: the pids are forgotten.
CancelDispatchNone(t) ==
  /\ driver # "gone"
  /\ cancel[t] = "fetched"
  /\ cancel'  = [cancel EXCEPT ![t] = "killing"]
  /\ fetched' = [fetched EXCEPT ![t] = {}]
  /\ UNCHANGED <<taskVars, owner, regVars, kills, driver, main>>

\* One _kill_pid task per pid.
CancelDispatch(t) ==
  /\ driver # "gone"
  /\ cancel[t] = "fetched"
  /\ cancel'  = [cancel EXCEPT ![t] = "killing"]
  /\ kills'   = kills \cup JobsFor(t, fetched[t], "cancel")
  /\ fetched' = [fetched EXCEPT ![t] = {}]
  /\ UNCHANGED <<taskVars, owner, regVars, driver, main>>

\* The call to the registry or the dispatch of a kill raises: what has not
\* been dispatched is not, and ray.cancel comes next.
CancelBreaks(t) ==
  /\ driver # "gone"
  /\ cancel[t] = "fetched" \/ (cancel[t] = "asked" /\ main = "dead")
  /\ cancel' = [cancel EXCEPT ![t] = "killing"]
  /\ \E P \in SUBSET fetched[t] :
       /\ kills'   = kills \cup JobsFor(t, P, "cancel")
       /\ fetched' = [fetched EXCEPT ![t] = @ \ P]
  /\ UNCHANGED <<taskVars, owner, regVars, driver, main>>

\* The kills are over, or ray.get timed out: ray.cancel.
CancelSend(t) ==
  /\ driver # "gone"
  /\ cancel[t] = "killing"
  /\ \E kind \in {"soft", "force"} : cancel' = [cancel EXCEPT ![t] = kind]
  /\ UNCHANGED <<taskVars, owner, regVars, kills, fetched, driver, main>>

\* Ray delivers the cancellation: a task that has not started is dropped, an
\* interrupt is raised in a running one, or its worker is killed.
CancelArrives(t) ==
  /\ cancel[t] \in {"soft", "force"}
  /\ cancel' = [cancel EXCEPT ![t] = "done"]
  /\ \/ /\ phase[t] = "queued"
        /\ phase' = [phase EXCEPT ![t] = "failed"]
        /\ UNCHANGED <<tracked, inbox, kills>>
     \/ /\ phase[t] \in InScope
        /\ cancel[t] = "soft"
        /\ Unwind(t)
     \/ /\ phase[t] \in InScope
        /\ cancel[t] = "force"
        /\ Die(t)
        /\ UNCHANGED tracked
     \/ /\ phase[t] \in Ended
        /\ UNCHANGED <<phase, tracked, inbox, kills>>
  /\ UNCHANGED <<handle, opening, owner, registry, up, fetched, driver, main>>

-----------------------------------------------------------------------------
(* `ray job stop`: SIGTERM to the driver.                                  *)

Sigterm ==
  /\ driver = "up"
  /\ driver' = IF main = "none" THEN "gone" ELSE "stopping"
  /\ UNCHANGED <<taskVars, owner, regVars, kills, cancel, fetched, main>>

\* The actor runs kill_all: it empties the registry and dispatches the kills.
KillAll ==
  /\ driver = "stopping"
  /\ main = "live"
  /\ driver'   = "killing"
  /\ kills'    = kills \cup UNION {JobsFor(t, registry[t], "driver") : t \in Tasks}
  /\ registry' = [t \in Tasks |-> {}]
  /\ UNCHANGED <<taskVars, owner, inbox, up, cancel, fetched, main>>

\* Mutant of DriverExits: a dead actor is waited for.
DriverExitsAfterKill ==
  /\ driver = "killing"
  /\ \A k \in kills : k.by # "driver"
  /\ driver' = "gone"
  /\ UNCHANGED <<taskVars, owner, regVars, kills, cancel, fetched, main>>

\* kill_all returned, or the actor is dead and the call fails: SystemExit.
DriverExits ==
  /\ \/ driver = "killing" /\ \A k \in kills : k.by # "driver"
     \/ driver = "stopping" /\ main = "dead"
  /\ driver' = "gone"
  /\ UNCHANGED <<taskVars, owner, regVars, kills, cancel, fetched, main>>

\* The 35 seconds of the handler, or of kill_all, have passed.
DriverTimesOut ==
  /\ driver \in {"stopping", "killing"}
  /\ driver' = "gone"
  /\ UNCHANGED <<taskVars, owner, regVars, kills, cancel, fetched, main>>

\* The job is over: Ray raises SystemExit in the job's workers ...
JobInterrupts(t) ==
  /\ driver = "gone"
  /\ phase[t] \in {"running", "spawned", "listed"}
  /\ Unwind(t)
  /\ UNCHANGED <<handle, opening, owner, registry, up, ctlVars>>

\* ... and kills them a moment later, the kill tasks among them.
JobKills(t) ==
  /\ driver = "gone"
  /\ phase[t] \in InScope
  /\ Die(t)
  /\ UNCHANGED <<handle, opening, tracked, owner, registry, up, ctlVars>>

\* The driver's _kill_pid tasks are tasks of the job too.
JobDropsKill(t, p) ==
  /\ driver = "gone"
  /\ \E k \in kills :
       /\ k.task = t /\ k.pid = p /\ k.by = "cancel"
       /\ kills' = kills \ {k}
  /\ UNCHANGED <<taskVars, owner, regVars, ctlVars>>

-----------------------------------------------------------------------------
TaskStep(t) ==
  \/ Start(t)
  \/ \E p \in Pids : Spawn(t, p)
  \/ List(t)
  \/ Register(t)
  \/ Return(t)
  \/ Raise(t)
  \/ EndKill(t)
  \/ JobInterrupts(t)
  \/ JobKills(t)

CancelStep(t) ==
  \/ CancelBegins(t)
  \/ CancelFetch(t)
  \/ CancelDispatch(t)
  \/ CancelBreaks(t)
  \/ CancelSend(t)
  \/ CancelArrives(t)

Next ==
  \/ \E t \in Tasks : TaskStep(t) \/ CancelStep(t) \/ Serve(t)
  \/ \E t \in Tasks, p \in Pids, by \in Killers : KillPid(t, p, by)
  \/ \E t \in Tasks, p \in Pids : JobDropsKill(t, p)
  \/ \E p \in Pids : Exit(p)
  \/ RegistryDies
  \/ Sigterm
  \/ KillAll
  \/ DriverExits
  \/ DriverTimesOut

Spec == Init /\ [][Next]_vars

\* Threads, the actor, the driver's handler and the kill tasks keep running;
\* Ray delivers a cancellation.  Nothing is assumed of func, of the processes,
\* of the caller of chia_cancel or of the time-out of the handler.
Fairness ==
  /\ \A t \in Tasks :
       /\ WF_vars(List(t)) /\ WF_vars(Register(t)) /\ WF_vars(EndKill(t))
       /\ WF_vars(Serve(t))
       /\ WF_vars(CancelArrives(t))
  /\ \A t \in Tasks, p \in Pids, by \in Killers : WF_vars(KillPid(t, p, by))
  /\ WF_vars(KillAll) /\ WF_vars(DriverExits)

FairSpec == Spec /\ Fairness

-----------------------------------------------------------------------------
(* Properties.                                                             *)

\* While a task is in its scope, its worker's local list names every live
\* process of the task, the one whose Popen is in progress excepted.
LocalListComplete ==
  \A t \in Tasks :
    phase[t] \in InScope /\ Tracks(t) => Own(t) \subseteq tracked[t] \cup {opening[t]}

\* A task that left its scope by an exception and completed the local kill
\* leaves no process alive, but for the one whose Popen was interrupted
\* between the fork and the append (pid_registry.py:234-242).  It needs
\* neither the registry nor the driver.
CleanUnwind ==
  \A t \in Tasks :
    phase[t] = "failed" /\ Tracks(t) => Own(t) \subseteq {opening[t]}

\* A task whose scope ended in an orderly way leaves nothing in the registry:
\* its unregister is the last of its calls and cannot be overtaken by one of
\* its registrations.
NoStaleEntry ==
  \A t \in Tasks :
    phase[t] \in {"finished", "failed", "cut"} /\ inbox[t] = <<>> => registry[t] = {}

\* Until the driver has exited, every live process of a task in its scope whose
\* registry is alive can be found by a killer: it is in the registry, or on its
\* way there, or a kill job has it, or its Popen has not returned, or a
\* chia_cancel has taken it out of the registry.  The last is the weak place:
\* the pids are then in a frame of the driver only (pid_registry.py:450-461),
\* and a SIGTERM or an exception there leaves their processes to nobody.
Reachable ==
  driver # "gone" => \A t \in Tasks : phase[t] \in InScope /\ handle[t] = "live" =>
    \A p \in Own(t) :
      \/ p \in registry[t]
      \/ \E i \in 1 .. Len(inbox[t]) : inbox[t][i] = [op |-> "register", pid |-> p]
      \/ \E k \in kills : k.task = t /\ k.pid = p
      \/ p = opening[t]
      \/ p \in fetched[t]

\* Once ray.cancel has been called the task ends, however many of its
\* processes ignore SIGTERM.
CancelEndsTask ==
  \A t \in Tasks : cancel[t] \in {"soft", "force"} ~> phase[t] \in Ended

\* A cooperative cancellation of a running task reaches every process on its
\* local list, unless func returns first or the worker is killed.  It does not
\* depend on the registry being alive.
CancelKillsTracked ==
  \A t \in Tasks, p \in Pids :
    cancel[t] = "soft" /\ phase[t] = "running" /\ p \in tracked[t]
      ~> owner[p] # t \/ phase[t] \in {"finished", "cut", "killed"}

\* The SIGTERM handler of the driver never hangs, and does not need its time-out
\* for it: a dead registry fails the call, and kill jobs end or die with it.
StopEnds == driver = "stopping" ~> driver = "gone"

\* docs/user_guides/chia_function.rst:226-231: chia_cancel first looks up any
\* subprocesses the task spawned and kills them before cancelling the task.
\* Stated where nothing else went wrong: the registry the task and the driver
\* know is alive, no exception broke chia_cancel, and its kills are over.
CancelLeavesNothing ==
  \A t \in Tasks :
    /\ cancel[t] = "done" /\ phase[t] \in {"failed", "killed"}
    /\ handle[t] = "live" /\ main = "live" /\ driver = "up"
    /\ fetched[t] = {} /\ \A k \in kills : k.task # t
    => Own(t) = {}

=============================================================================
