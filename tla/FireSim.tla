-------------------------------- MODULE FireSim --------------------------------
(***************************************************************************)
(* Builds (FpgaBuild) and a suite of runs (FpgaRun) that share the bucket: *)
(* SuiteRunner.run (chia/firesim/suite_runner.py) resolves a build once,   *)
(* then keeps a window of runs under way; each fetches the driver of the   *)
(* build from S3 when it sets up its instance.                             *)
(***************************************************************************)
EXTENDS FpgaRun, FpgaBuild

CONSTANTS
  Parallelism,  \* the window
  Plans         \* what users ask for

\* queue: the workloads in their order, each once.  ref: the build they name, an
\* id or 0 for "latest".  ids: the id of each build.  made: for each id the builds
\* made before.  latest: the last of these.  ready: builds whose Vivado run has
\* just ended.  spare: builds that there are only if one of the same id is run
\* again.  spent: failures that these users are spared, which keeps the
\* instance small.
ASSUME FireSimAssumption ==
  /\ Parallelism \in Nat \ {0}
  /\ \A p \in Plans :
       /\ p.queue \in Seq(Runs)
       /\ \A i, j \in DOMAIN p.queue : p.queue[i] = p.queue[j] => i = j
       /\ p.made \in [BuildIds -> Seq(Builds)] /\ p.latest \in Builds \cup {0}
       /\ \A id \in BuildIds : \A i \in DOMAIN p.made[id] : p.ids[p.made[id][i]] = id
       /\ p.latest # 0 =>
            \E i \in DOMAIN p.made[p.ids[p.latest]] :
              p.made[p.ids[p.latest]][i] = p.latest
       /\ p.size \in [Runs -> 1 .. MaxSims]
       /\ p.keep \in BOOLEAN /\ p.shared \in BOOLEAN
       /\ p.ids \in [Builds -> BuildIds]
       /\ p.ref \in BuildIds \cup {0}
       /\ p.ready \subseteq Builds /\ p.spare \subseteq Builds /\ p.spent \in 0 .. MaxFaults

VARIABLE suite   \* the suite: its plan, what is left of its queue, its build

fireVars == <<runs, faults, builds, bucket, suite>>

\* The build whose build-info.json a reference leads to, 0 for none.
InfoAt(ref) == IF ref = 0 THEN bucket.latest ELSE bucket.info[ref]

LastOf(s) == IF s = << >> THEN 0 ELSE s[Len(s)]

BuildAtFirst(p, b) ==
  LET new == Planned(p.ids[b]) IN
  IF \E i \in DOMAIN p.made[new.id] : p.made[new.id][i] = b
  THEN [new EXCEPT !.at = "over", !.result = "success", !.image = "available"]
  ELSE IF b \in p.ready
  THEN [new EXCEPT !.at = "mint", !.host = "up", !.cloned = TRUE]
  ELSE new

FireInit ==
  \E p \in Plans :
    /\ suite = [at |-> "idle", plan |-> p, queue |-> p.queue, image |-> 0]
    /\ runs = [r \in Runs |-> Queued(p.size[r], p.keep, p.shared)]
    /\ builds = [b \in Builds |-> BuildAtFirst(p, b)]
    /\ bucket = [drivers |-> p.made,
                 info    |-> [id \in BuildIds |-> LastOf(p.made[id])],
                 latest  |-> p.latest]
    /\ faults = p.spent

\* The first n runs of queue q are submitted.
Submitted(rs, q, n) ==
  [r \in Runs |-> IF \E i \in 1 .. n : q[i] = r
                  THEN [rs[r] EXCEPT !.at = "launch"] ELSE rs[r]]

\* resolve_build, then the first window of runs.  Without build-info.json the
\* suite raises.
StartSuite ==
  LET q == suite.queue
      n == IF Len(q) < Parallelism THEN Len(q) ELSE Parallelism
      b == InfoAt(suite.plan.ref)
  IN
  /\ suite.at = "idle" /\ q # << >>
  /\ IF b = 0
     THEN suite' = [suite EXCEPT !.at = "over"] /\ UNCHANGED runs
     ELSE /\ suite' = [suite EXCEPT !.at = "running", !.image = b,
                                    !.queue = SubSeq(q, n + 1, Len(q))]
          /\ runs' = Submitted(runs, q, n)
  /\ UNCHANGED <<faults, builds, bucket>>

\* Mutant of Report: a run that failed frees no place.
ReportSuccess(r) ==
  LET q == suite.queue
      n == IF q = << >> \/ runs[r].result # "success" THEN 0 ELSE 1
      rs == [runs EXCEPT ![r].at = "reported"]
  IN
  /\ suite.at = "running" /\ runs[r].at = "over"
  /\ runs' = Submitted(rs, q, n)
  /\ suite' = [suite EXCEPT !.queue = SubSeq(q, n + 1, Len(q))]
  /\ UNCHANGED <<faults, builds, bucket>>

\* ray.wait returns a run that is over; the next one of the queue takes its
\* place.
Report(r) ==
  LET q == suite.queue
      n == IF q = << >> THEN 0 ELSE 1
      rs == [runs EXCEPT ![r].at = "reported"]
  IN
  /\ suite.at = "running" /\ runs[r].at = "over"
  /\ runs' = Submitted(rs, q, n)
  /\ suite' = [suite EXCEPT !.queue = SubSeq(q, n + 1, Len(q))]
  /\ UNCHANGED <<faults, builds, bucket>>

\* The code of a run goes on.  The driver is at the path that build-info.json
\* named.
RunProceeds(r) ==
  /\ suite.image # 0
  /\ RunStep(r, LastOf(bucket.drivers[builds[suite.image].id]))
  /\ UNCHANGED <<builds, bucket, suite>>

RunSuffers(r) ==
  /\ RunEnvironment(r)
  /\ UNCHANGED <<builds, bucket, suite>>

BuildProceeds(b) ==
  /\ BuildStep(b)
  /\ UNCHANGED <<runs, suite>>

BuildSuffers(b) ==
  /\ BuildEnvironment(b)
  /\ UNCHANGED <<runs, suite>>

\* A user starts a build, or Ray does, again, after the death of a worker.
StartBuild(b) ==
  /\ builds[b].at = "idle"
  /\ b \in suite.plan.spare =>
       \E c \in Builds : builds[c].at = "lost" /\ builds[c].id = builds[b].id
  /\ builds' = [builds EXCEPT ![b].at = "launch"]
  /\ UNCHANGED <<runVars, bucket, suite>>

FireNext ==
  \/ StartSuite
  \/ \E r \in Runs : RunProceeds(r) \/ RunSuffers(r) \/ Report(r)
  \/ \E b \in Builds : StartBuild(b) \/ BuildProceeds(b) \/ BuildSuffers(b)

\* The code goes on and deadlines pass.  Nothing is assumed of simulations, of
\* commands, of AWS, or of what a poll for an image is told.
FireFairness ==
  /\ WF_fireVars(StartSuite)
  /\ \A r \in Runs :
       /\ WF_fireVars(RunProceeds(r))
       /\ WF_fireVars(Report(r))
       /\ WF_fireVars(RunSuffers(r) /\ Expire(r))
  /\ \A b \in Builds :
       /\ WF_fireVars(builds[b].at # "image" /\ BuildProceeds(b))
       /\ WF_fireVars(BuildSuffers(b) /\ Overdue(b))

FireSpec == FireInit /\ [][FireNext]_fireVars /\ FireFairness

-----------------------------------------------------------------------------

\* Types of the state.
FireTypeOK ==
  /\ runs \in [Runs -> RunStates] /\ faults \in 0 .. MaxFaults
  /\ builds \in [Builds -> BuildStates]
  /\ bucket.info \in [BuildIds -> Builds \cup {0}]
  /\ bucket.latest \in Builds \cup {0}
  /\ \A id \in BuildIds : bucket.drivers[id] \in Seq(Builds)
  /\ suite.at \in {"idle", "running", "over"} /\ suite.plan \in Plans
  /\ suite.queue \in Seq(Runs) /\ suite.image \in Builds \cup {0}

\* A run that reports success has seen every one of its simulations pass: the
\* last one of each slot, not one of an attempt that was repeated, and none that
\* was cut off or of which only a log of an earlier run in the same results_dir
\* was found (SimulationRunner.run and _collect_results).  Only that last excuse
\* is left to it.
SuccessIsEarned ==
  \A r \in Runs :
    runs[r].result = "success" =>
      \A s \in 0 .. runs[r].size - 1 :
        \/ runs[r].session[s] = "passed"
        \/ runs[r].shared /\ runs[r].log[s] # "passed"

\* The driver that a run uses was made with its FPGA image, or is a later one
\* that a build with the same id has put over it; never one from before
\* (steps 10b and 10d of BitstreamBuilder.build; resolve_build).
DriverNotOlder ==
  \A r \in Runs : runs[r].driver # 0 =>
    LET ds == bucket.drivers[builds[suite.image].id] IN
    \E i, j \in DOMAIN ds :
      i <= j /\ ds[i] = suite.image /\ ds[j] = runs[r].driver

\* What a run that is over may leave: an instance that AWS would not terminate,
\* or not in ten minutes, or one that was to be kept.
MayLeave(x) ==
  x.gaveUp \/ x.result = "raised" \/ (x.failed /\ x.keep)

\* The instances that runs hold are never more than the window of the suite: a
\* run is over only when its instance is gone (terminate_ec2_instances with wait;
\* SuiteRunner.run).  Not counted are those that a run may leave (MayLeave), and
\* those it has lost track of when Ray ran it again, its strays: these stay up
\* and nobody ends them.  What AWS still counts of an instance that is gone
\* (ec2.py:234) is another matter: see LaunchInstance.
QuotaIsReleased ==
  Cardinality({r \in Runs :
    /\ runs[r].host \in {"up", "ending"}
    /\ runs[r].at \in Active \/ ~MayLeave(runs[r])}) <= Parallelism

\* A build takes a long command for done only if that command has ended well,
\* unless an earlier pull was given up while it ran (_run_long): the exit code
\* it reads is not that of another command, and not that of an earlier attempt.
StepsAreOwn ==
  [][\A b \in Builds :
       /\ builds[b].at \in Long /\ builds[b].part = "read"
       /\ builds'[b].at = After[builds[b].at]
       => builds[b].script = "ok" \/ builds[b].loose]_fireVars

\* Every run of a suite is reported, whatever fails; and every build comes to
\* its end, whatever step it is at, unless its worker dies or it polls for its
\* image for ever (the deadlines and limits of both, and their absence in
\* _create_agfi_remote).
FlowsEnd ==
  /\ suite.at = "running" ~>
       \A i \in DOMAIN suite.plan.queue : runs[suite.plan.queue[i]].at = "reported"
  /\ \A b \in Builds :
       [](builds[b].at # "idle" =>
            <>(builds[b].at \in {"over", "lost"}) \/ <>[](builds[b].at = "image"))

\* What SimulationRunner.run says of "success" (run_node.py:581-583): true only
\* if every slot exited 0, and all completed before the timeout.  It does not
\* hold where results_dir was used before.
SuccessMeansPassed ==
  \A r \in Runs : runs[r].result = "success" =>
    \A s \in 0 .. runs[r].size - 1 : runs[r].session[s] = "passed"

=============================================================================
