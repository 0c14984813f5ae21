-------------------------------- MODULE FpgaRun --------------------------------
(***************************************************************************)
(* FPGA simulations of FireSim (chia/firesim/run_node.py,                  *)
(* SimulationRunner.run): a run launches an F2 instance, deploys the       *)
(* driver, flashes the FPGAs, boots one simulation per slot in a screen    *)
(* session, polls the sessions over ssh until they have ended or the       *)
(* deadline has passed, repeats all of it if a simulation hung at cycle 0, *)
(* collects the logs and terminates the instance.                          *)
(*                                                                         *)
(* The runs that suite_runner.py and the tools start have their slots on   *)
(* one instance, and so does this model.                                   *)
(***************************************************************************)
EXTENDS RemoteHost, FiniteSets

CONSTANTS
  Runs,       \* the simulations
  MaxSims,    \* bound: slots of an instance
  Attempts    \* DEADLOCK_MAX_RETRIES

ASSUME FpgaRunAssumption ==
  MaxSims \in Nat \ {0} /\ Attempts \in Nat \ {0}

VARIABLE runs   \* the state of each run

runVars == <<runs, faults>>

Slots == 0 .. MaxSims - 1

Verdicts == {"passed", "failed", "dead0"}

Active == {"launch", "connect", "setup", "boot", "watch", "scan", "quit",
           "reset", "kill", "collect", "end", "wait"}

\* The session of a slot is "run" or how the simulation in it ended.  stale:
\* slots with the session of an earlier attempt.  log: the uartlog of a slot on
\* the instance; mine: what was downloaded of it.  "open": without a verdict.
\* expired: the deadline has passed.  gaveUp: the wait for the termination was
\* given up.  strays: instances the run lost track of.
RunStates ==
  [at : Active \cup {"queued", "over", "reported"},
   slot : Slots, attempt : 1 .. Attempts, complete : BOOLEAN,
   expired : BOOLEAN, failed : BOOLEAN,
   result : {"none", "success", "failure", "raised"},
   host : Hosts, gaveUp : BOOLEAN, strays : 0 .. MaxFaults,
   session : [Slots -> Verdicts \cup {"off", "run"}],
   stale : SUBSET Slots,
   log : [Slots -> Verdicts \cup {"none", "open"}],
   mine : [Slots -> Verdicts \cup {"none", "open"}],
   driver : Nat,
   \* Arguments: num_sims, not terminate_on_failure, results_dir is used again.
   size : 1 .. MaxSims, keep : BOOLEAN, shared : BOOLEAN]

\* shared: an earlier run of the workload has left its log in results_dir.
Queued(size, keep, shared) ==
  [at |-> "queued", slot |-> 0, attempt |-> 1, complete |-> FALSE,
   expired |-> FALSE, failed |-> FALSE, result |-> "none", host |-> "none",
   gaveUp |-> FALSE, strays |-> 0,
   session |-> [s \in Slots |-> "off"], stale |-> {},
   log |-> [s \in Slots |-> "none"],
   mine |-> [s \in Slots |-> IF shared THEN "passed" ELSE "none"],
   driver |-> 0, size |-> size, keep |-> keep, shared |-> shared]

\* A command on the instance of r ended in o, and r is now in state x.
Then(r, o, x) ==
  /\ runs' = [runs EXCEPT ![r] = x]
  /\ Counted(runs[r].host, o)

\* The deadline is of no account elsewhere.
To(x, phase) == [x EXCEPT !.at = phase, !.slot = 0, !.expired = FALSE]

\* Mutant of Past.
PastTheLast(x, phase) ==
  IF x.slot < x.size THEN [x EXCEPT !.slot = @ + 1] ELSE To(x, phase)

\* On to the next slot, and to phase after the last one.
Past(x, phase) ==
  IF x.slot + 1 < x.size THEN [x EXCEPT !.slot = @ + 1] ELSE To(x, phase)

Raised(x) == [To(x, "end") EXCEPT !.failed = TRUE, !.result = "failure"]

\* AWS refuses what r asks for.
Denied(r, x) ==
  /\ Failure
  /\ runs' = [runs EXCEPT ![r] = x]

-----------------------------------------------------------------------------

\* Refused because instances that are gone still count, it is asked again five
\* minutes later, and a third time (create_instances, "Spot quota hit").
LaunchInstance(r) ==
  LET x == runs[r] IN
  /\ x.at = "launch"
  /\ \/ Then(r, "ok", [To(x, "connect") EXCEPT !.host = "up"])
     \/ Denied(r, Raised(x))
     \/ Denied(r, x)

\* Waiting for ssh, pushing credentials.
Connect(r) ==
  LET x == runs[r] IN
  /\ x.at = "connect"
  /\ \E o \in Outcomes(x.host) :
       Then(r, o, IF o = "ok" THEN To(x, "setup") ELSE Raised(x))

\* found: the driver at the run's path in S3, 0 if there is none.
SetUp(r, found) ==
  LET x == runs[r] IN
  /\ x.at = "setup"
  /\ \E o \in Outcomes(x.host) :
       Then(r, o, IF o = "ok" /\ found # 0
                  THEN [To(x, "boot") EXCEPT !.driver = found]
                  ELSE Raised(x))

\* Mutant of Boot: the uartlog is appended to.
BootAppending(r) ==
  LET x == runs[r] IN
  /\ x.at = "boot"
  /\ \E o \in Outcomes(x.host) :
       Then(r, o, IF o # "ok" THEN Raised(x)
                  ELSE Past([x EXCEPT !.session[x.slot] = "run",
                                      !.log[x.slot] = IF @ = "none" THEN "open" ELSE @,
                                      !.complete = FALSE],
                            "watch"))

\* script(1) empties the uartlog it writes to.
Boot(r) ==
  LET x == runs[r] IN
  /\ x.at = "boot"
  /\ \E o \in Outcomes(x.host) :
       Then(r, o, IF o # "ok" THEN Raised(x)
                  ELSE Past([x EXCEPT !.session[x.slot] = "run",
                                      !.log[x.slot] = "open",
                                      !.complete = FALSE],
                            "watch"))

\* screen -ls shows a session of the slot.
Present(x, s) == x.session[s] = "run" \/ s \in x.stale

\* What a poll that ended in o takes for a session that has gone.  A lost
\* one prints nothing.
TakenForGone(x, o) == o = "lost" \/ (o = "ok" /\ ~Present(x, x.slot))

\* One poll.  The deadline is looked at before the first slot only.
Poll(r) ==
  LET x == runs[r] IN
  /\ x.at = "watch"
  /\ x.slot = 0 => ~x.expired
  /\ \E o \in Outcomes(x.host) :
       Then(r, o,
         IF ~TakenForGone(x, o) THEN [x EXCEPT !.slot = 0]
         ELSE Past([x EXCEPT !.complete = (x.slot + 1 = x.size)], "scan"))

TimeOut(r) ==
  LET x == runs[r] IN
  /\ x.at = "watch" /\ x.slot = 0 /\ x.expired
  /\ Then(r, "ok", To(x, "scan"))

\* What follows the search for a hang at cycle 0.
Scanned(x, hung) ==
  To(x, IF hung /\ x.attempt < Attempts THEN "quit"
        ELSE IF x.complete THEN "collect" ELSE "kill")

Scan(r) ==
  LET x == runs[r] IN
  /\ x.at = "scan"
  /\ \E o \in Outcomes(x.host) :
       Then(r, o,
         IF o = "late" THEN Raised(x)
         ELSE IF o = "ok" /\ x.log[x.slot] = "dead0" THEN Scanned(x, TRUE)
         ELSE IF x.slot + 1 < x.size THEN [x EXCEPT !.slot = @ + 1]
         ELSE Scanned(x, FALSE))

\* screen -X quit, which does nothing when two sessions have the name.
Quitted(x) ==
  IF x.session[x.slot] = "run" /\ x.slot \in x.stale THEN x
  ELSE [x EXCEPT !.stale = @ \ {x.slot},
                 !.session[x.slot] = IF @ = "run" THEN "failed" ELSE @]

Quit(r) ==
  LET x == runs[r] IN
  /\ x.at = "quit"
  /\ \E o \in Outcomes(x.host) :
       Then(r, o, IF o = "late" THEN Raised(x)
                  ELSE Past(IF o = "ok" THEN Quitted(x) ELSE x, "reset"))

\* The FPGAs are cleared and flashed: a simulation still running there hangs in
\* its session.
Reflashed(x) ==
  [To(x, "boot") EXCEPT
     !.attempt = @ + 1,
     !.stale = @ \cup {s \in Slots : x.session[s] = "run"},
     !.session = [s \in Slots |-> IF @[s] = "run" THEN "failed" ELSE @[s]]]

\* Flashing is checked, removing the logs is not.
Reset(r) ==
  LET x == runs[r] IN
  /\ x.at = "reset"
  /\ \E o \in Outcomes(x.host) :
       \/ o = "ok" /\ Then(r, o, [Reflashed(x) EXCEPT !.log = [s \in Slots |-> "none"]])
       \/ o = "lost" /\ x.host = "up" /\ Then(r, o, Reflashed(x))
       \/ o # "ok" /\ Then(r, o, Raised(x))

\* Whatever happens to these commands is swallowed.
Kill(r) ==
  LET x == runs[r] IN
  /\ x.at = "kill"
  /\ \E o \in Outcomes(x.host) :
       Then(r, o, Past(IF o = "ok" THEN Quitted(x) ELSE x, "collect"))

\* What is made of the local log of a slot; the verdict after the last one.
Judged(x) ==
  LET all == \A s \in 0 .. x.size - 1 : x.mine[s] = "passed"
      z == Past(x, "end")
  IN IF z.at = "collect" THEN z
     ELSE [z EXCEPT !.result = IF all /\ x.complete THEN "success" ELSE "failure"]

\* A download that fails leaves the local log as it was, or had replaced it
\* already.  A log that cannot be read or decoded makes the run raise.
Collect(r) ==
  LET x == runs[r]
      got == [x EXCEPT !.mine[x.slot] = x.log[x.slot]]
  IN
  /\ x.at = "collect"
  /\ \E o \in Outcomes(x.host), y \in {x, got} :
       /\ IF x.host = "up" THEN o = "ok" => y = got ELSE y = x
       /\ \/ Then(r, o, Judged(y))
          \/ y.mine[x.slot] # "none" /\ Then(r, o, Raised(y))

\* Mutant of End: nobody waits for the termination.
EndAtOnce(r) ==
  LET x == runs[r]
      left == x.host = "none" \/ (x.failed /\ x.keep)
  IN
  /\ x.at = "end"
  /\ \/ left /\ Then(r, "ok", To(x, "over"))
     \/ /\ ~left
        /\ Then(r, "ok", [To(x, "over") EXCEPT !.host = Terminating(@)])
     \/ ~left /\ Denied(r, [To(x, "over") EXCEPT !.result = "raised"])

\* The finally block.  A refusal replaces the result by an exception.
End(r) ==
  LET x == runs[r]
      left == x.host = "none" \/ (x.failed /\ x.keep)
  IN
  /\ x.at = "end"
  /\ \/ left /\ Then(r, "ok", To(x, "over"))
     \/ /\ ~left
        /\ Then(r, "ok", [To(x, "wait") EXCEPT !.host = Terminating(@)])
     \/ ~left /\ Denied(r, [To(x, "over") EXCEPT !.result = "raised"])

\* The waiter sees the instance "terminated", or gives up after ten minutes.
Waited(r) ==
  LET x == runs[r] IN
  /\ x.at = "wait"
  /\ Then(r, "ok", [To(x, "over") EXCEPT !.gaveUp = (x.host = "ending")])

RunStep(r, found) ==
  \/ LaunchInstance(r) \/ Connect(r) \/ SetUp(r, found) \/ Boot(r) \/ Poll(r)
  \/ TimeOut(r) \/ Scan(r) \/ Quit(r) \/ Reset(r) \/ Kill(r) \/ Collect(r)
  \/ End(r) \/ Waited(r)

-----------------------------------------------------------------------------

\* The deadline passes.
Expire(r) ==
  /\ runs[r].at = "watch" /\ ~runs[r].expired
  /\ runs' = [runs EXCEPT ![r].expired = TRUE]
  /\ UNCHANGED faults

\* A simulation ends: it passes, hangs at cycle 0, or fails in another way.
SimEnds(r, s) ==
  /\ runs[r].host = "up" /\ runs[r].session[s] = "run"
  /\ \E v \in Verdicts :
       runs' = [runs EXCEPT ![r].session[s] = v, ![r].log[s] = v]
  /\ UNCHANGED faults

\* AWS has terminated the instance.
InstanceEnds(r) ==
  /\ runs[r].host = "ending"
  /\ runs' = [runs EXCEPT ![r].host = "gone"]
  /\ UNCHANGED faults

\* The instance goes while the run needs it: AWS reclaims it, or a chia down of
\* a cluster with the same tag terminates it.
LoseInstance(r) ==
  /\ runs[r].host = "up" /\ runs[r].at \in Active
  /\ Denied(r, [runs[r] EXCEPT !.host = "gone"])

\* The worker of the run dies and Ray runs the task again, elsewhere.
RunnerDies(r) ==
  LET x == runs[r]
      new == Queued(x.size, x.keep, x.shared) IN
  /\ x.at \in Active
  /\ Denied(r, [new EXCEPT !.at = "launch", !.mine = IF x.shared THEN x.mine ELSE @,
                           !.strays = IF x.host = "up" THEN x.strays + 1
                                      ELSE x.strays])

RunEnvironment(r) ==
  \/ Expire(r) \/ InstanceEnds(r) \/ LoseInstance(r) \/ RunnerDies(r)
  \/ \E s \in Slots : SimEnds(r, s)

=============================================================================
