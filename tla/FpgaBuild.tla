------------------------------- MODULE FpgaBuild -------------------------------
(***************************************************************************)
(* FPGA builds of FireSim (chia/firesim/build_node.py,                     *)
(* BitstreamBuilder.build, for the platforms of AWS): a build launches an  *)
(* instance, runs its long commands there (_run_long), has AWS make the    *)
(* FPGA image, puts the driver and then build-info.json, which names both, *)
(* in S3, points "latest" at it and terminates the instance.               *)
(*                                                                         *)
(* A long command is a script in the background that writes its exit code  *)
(* to a file; every command uses the same files.  Commands over ssh end as *)
(* in FpgaRun.                                                             *)
(***************************************************************************)
EXTENDS RemoteHost, Sequences

CONSTANTS
  Builds,      \* the builds, a set of numbers
  BuildIds,    \* build ids, which a user may use again
  Pulls        \* max_attempts of docker pull

ASSUME FpgaBuildAssumption ==
  Builds \subseteq Nat \ {0} /\ BuildIds \subseteq Nat \ {0} /\ Pulls \in Nat \ {0}

VARIABLES
  builds,   \* the state of each build
  bucket    \* what is in S3

buildVars == <<builds, bucket, faults>>

Long == {"pull", "rtl", "driver", "clone", "vivado"}

After == [pull |-> "rtl", rtl |-> "driver", driver |-> "clone",
          clone |-> "vivado", vivado |-> "mint"]

\* part: a long command is started, polled, or its exit code is read.  script:
\* the command of this step.  left: one of an earlier attempt still runs; loose:
\* there has been one.  rc: the file with the exit code.  deaf: the last poll
\* failed.  cloned: the aws-fpga repository is there.
BuildStates ==
  [at : Long \cup {"idle", "launch", "connect", "mint", "image", "upload",
                   "info", "latest", "fetch", "exit", "wait", "over", "lost"},
   part : {"start", "poll", "read"},
   script : {"none", "run", "ok", "bad"}, left : BOOLEAN, loose : BOOLEAN,
   rc : {"none", "ok", "bad"}, tries : 1 .. Pulls,
   deaf : BOOLEAN, expired : BOOLEAN, cloned : BOOLEAN,
   image : {"none", "pending", "available", "failed"},
   host : Hosts,
   result : {"none", "success", "failure"}, id : BuildIds]

Planned(id) ==
  [at |-> "idle", part |-> "start", script |-> "none", left |-> FALSE,
   loose |-> FALSE, rc |-> "none", tries |-> 1, deaf |-> FALSE,
   expired |-> FALSE, cloned |-> FALSE, image |-> "none", host |-> "none",
   result |-> "none", id |-> id]

\* drivers: the builds that put a driver at the path of an id, in their order.
\* info: the build whose build-info.json is there, 0 for none.
Buckets == [drivers : [BuildIds -> Seq(Builds)],
            info : [BuildIds -> Builds \cup {0}], latest : Builds \cup {0}]

\* A command of b ended in o, and b is now in state x.
Becomes(b, o, x) ==
  /\ builds' = [builds EXCEPT ![b] = x]
  /\ Counted(builds[b].host, o)

Failing(x) == [x EXCEPT !.at = "exit", !.result = "failure"]

Step(x, phase) == [x EXCEPT !.at = phase, !.part = "start", !.script = "none"]

-----------------------------------------------------------------------------

\* As for a run, a refusal may be followed by another request.
LaunchBuilder(b) ==
  LET x == builds[b] IN
  /\ x.at = "launch"
  /\ \/ Becomes(b, "ok", [x EXCEPT !.at = "connect", !.host = "up"])
     \/ Failure /\ builds' = [builds EXCEPT ![b] = Failing(x)]
     \/ Failure /\ UNCHANGED builds
  /\ UNCHANGED bucket

\* Waiting for ssh, pushing credentials.
ReachBuilder(b) ==
  LET x == builds[b] IN
  /\ x.at = "connect"
  /\ \E o \in Outcomes(x.host) :
       Becomes(b, o, IF o = "ok" THEN Step(x, "pull") ELSE Failing(x))
  /\ UNCHANGED bucket

\* Mutant of StartLong: the exit code of the last command stays.
StartLongOverOld(b) ==
  LET x == builds[b] IN
  /\ x.at \in Long /\ x.part = "start"
  /\ \E o \in Outcomes(x.host) :
       Becomes(b, o,
         IF o # "ok" THEN Failing(x)
         ELSE [x EXCEPT !.part = "poll", !.script = "run",
                        !.deaf = FALSE, !.expired = FALSE])
  /\ UNCHANGED bucket

\* Write the script, remove the exit code, start.  Other commands that must not
\* fail precede it.
StartLong(b) ==
  LET x == builds[b] IN
  /\ x.at \in Long /\ x.part = "start"
  /\ \E o \in Outcomes(x.host) :
       Becomes(b, o,
         IF o # "ok" THEN Failing(x)
         ELSE [x EXCEPT !.part = "poll", !.script = "run", !.rc = "none",
                        !.deaf = FALSE, !.expired = FALSE])
  /\ UNCHANGED bucket

\* The look for aws-fpga prints neither "exists" nor "missing".
SkipClone(b) ==
  LET x == builds[b] IN
  /\ x.at = "clone" /\ x.part = "start" /\ "lost" \in Outcomes(x.host)
  /\ Becomes(b, "lost", Step(x, "vivado"))
  /\ UNCHANGED bucket

\* A poll; one that fails says nothing.  After half an hour of failures the
\* command counts as failed with code 124.
PollLong(b) ==
  LET x == builds[b]
      ended == x.rc # "none" \/ x.script # "run" IN
  /\ x.at \in Long /\ x.part = "poll" /\ ~x.expired
  /\ \E o \in Outcomes(x.host) :
       \/ o = "ok" /\ Becomes(b, o, [x EXCEPT !.deaf = FALSE,
                                       !.part = IF ended THEN "read" ELSE @])
       \/ o # "ok" /\ Becomes(b, o, [x EXCEPT !.deaf = TRUE])
       \/ o # "ok" /\ x.deaf /\ Becomes(b, o, Failing(x))
  /\ UNCHANGED bucket

GiveUpLong(b) ==
  LET x == builds[b] IN
  /\ x.at \in Long /\ x.part = "poll" /\ x.expired
  /\ Becomes(b, "ok", [x EXCEPT !.part = "read"])
  /\ UNCHANGED bucket

\* Only docker pull is repeated, if its log shows a fault of the registry.  A
\* pull that was given up still runs.
Repeated(x) ==
  [Step(x, "pull") EXCEPT !.tries = @ + 1, !.left = @ \/ x.script = "run",
                          !.loose = @ \/ x.script = "run"]

Accepted(x) ==
  [Step(x, After[x.at]) EXCEPT !.cloned = @ \/ x.at = "clone"]

\* What is printed of the exit code: nothing, and a missing file, stand for 1.
ReadLong(b) ==
  LET x == builds[b] IN
  /\ x.at \in Long /\ x.part = "read"
  /\ \E o \in Outcomes(x.host) :
       \/ o = "ok" /\ x.rc = "ok" /\ Becomes(b, o, Accepted(x))
       \/ /\ ~(o = "ok" /\ x.rc = "ok")
          /\ Becomes(b, o, Failing(x))
       \/ /\ o # "late" /\ ~(o = "ok" /\ x.rc = "ok")
          /\ x.at = "pull" /\ x.tries < Pulls
          /\ Becomes(b, o, Repeated(x))
  /\ UNCHANGED bucket

\* Upload what Vivado made and ask for the image.
MakeImage(b) ==
  LET x == builds[b] IN
  /\ x.at = "mint"
  /\ \E o \in Outcomes(x.host) :
       Becomes(b, o, IF o = "ok" THEN [x EXCEPT !.at = "image", !.image = "pending"]
                     ELSE Failing(x))
  /\ UNCHANGED bucket

\* There is no limit to this loop.
PollImage(b) ==
  LET x == builds[b] IN
  /\ x.at = "image"
  /\ \E o \in Outcomes(x.host) :
       Becomes(b, o,
         IF o = "late" \/ (o = "ok" /\ x.image = "failed") THEN Failing(x)
         ELSE IF o = "ok" /\ x.image = "available" THEN [x EXCEPT !.at = "upload"]
         ELSE x)
  /\ UNCHANGED bucket

\* Mutant of Stored: build-info.json before the driver it names.
StoredInfoFirst(b, phase) ==
  LET id == builds[b].id IN
  CASE phase = "upload" -> [bucket EXCEPT !.info[id] = b]
    [] phase = "info"   -> [bucket EXCEPT !.drivers[id] = Append(@, b)]
    [] phase = "latest" -> [bucket EXCEPT !.latest = b]

\* The three objects that a build writes to S3, one after the other.  A write
\* that times out may have been done.
Stored(b, phase) ==
  LET id == builds[b].id IN
  CASE phase = "upload" -> [bucket EXCEPT !.drivers[id] = Append(@, b)]
    [] phase = "info"   -> [bucket EXCEPT !.info[id] = b]
    [] phase = "latest" -> [bucket EXCEPT !.latest = b]

Put(b) ==
  LET x == builds[b]
      next == [upload |-> "info", info |-> "latest", latest |-> "fetch"]
      on == [x EXCEPT !.at = next[x.at]]
  IN
  /\ x.at \in {"upload", "info", "latest"}
  /\ \E o \in Outcomes(x.host) :
       /\ Becomes(b, o, IF o = "ok" \/ (o = "lost" /\ x.at = "latest") THEN on
                        ELSE Failing(x))
       /\ \/ o = "ok" /\ bucket' = Stored(b, x.at)
          \/ o # "ok" /\ x.host = "up" /\ bucket' = Stored(b, x.at)
          \/ o # "ok" /\ UNCHANGED bucket

\* Copies for the user, if any were asked for (steps 10e and 11).  When they fail
\* so does the build, and what it has published stays.
Fetch(b) ==
  LET x == builds[b] IN
  /\ x.at = "fetch"
  /\ \/ Becomes(b, "ok", [x EXCEPT !.at = "exit", !.result = "success"])
     \/ \E o \in Outcomes(x.host) \ {"ok"} : Becomes(b, o, Failing(x))
  /\ UNCHANGED bucket

\* __exit__ of the instance.  An exception there makes a success a failure.
Leave(b) ==
  LET x == builds[b] IN
  /\ x.at = "exit"
  /\ \/ x.host = "none" /\ Becomes(b, "ok", [x EXCEPT !.at = "over"])
     \/ /\ x.host # "none"
        /\ Becomes(b, "ok", [x EXCEPT !.at = "wait", !.host = Terminating(@)])
     \/ /\ x.host # "none" /\ Failure
        /\ builds' = [builds EXCEPT ![b].at = "over", ![b].result = "failure"]
  /\ UNCHANGED bucket

Left(b) ==
  /\ builds[b].at = "wait"
  /\ Becomes(b, "ok", [builds[b] EXCEPT !.at = "over"])
  /\ UNCHANGED bucket

BuildStep(b) ==
  \/ LaunchBuilder(b) \/ ReachBuilder(b) \/ StartLong(b) \/ SkipClone(b)
  \/ PollLong(b) \/ GiveUpLong(b) \/ ReadLong(b) \/ MakeImage(b) \/ PollImage(b) \/ Put(b)
  \/ Fetch(b) \/ Leave(b) \/ Left(b)

-----------------------------------------------------------------------------

\* The deadline of a long command passes.
Overdue(b) ==
  /\ builds[b].at \in Long /\ builds[b].part = "poll" /\ ~builds[b].expired
  /\ builds' = [builds EXCEPT ![b].expired = TRUE]
  /\ UNCHANGED <<bucket, faults>>

\* The command of the step ends and leaves its exit code; or it is killed, and
\* leaves none.  Without aws-fpga there is no Vivado run.
ScriptEnds(b) ==
  LET x == builds[b] IN
  /\ x.host = "up" /\ x.script = "run"
  /\ \/ /\ x.at # "vivado" \/ x.cloned
        /\ builds' = [builds EXCEPT ![b].script = "ok", ![b].rc = "ok"]
     \/ builds' = [builds EXCEPT ![b].script = "bad", ![b].rc = "bad"]
     \/ builds' = [builds EXCEPT ![b].script = "bad"]
  /\ UNCHANGED <<bucket, faults>>

\* A pull that was given up ends and leaves its exit code where that of the
\* present command belongs.
LeftoverEnds(b) ==
  /\ builds[b].host = "up" /\ builds[b].left
  /\ \E c \in {"ok", "bad"} :
       builds' = [builds EXCEPT ![b].left = FALSE, ![b].rc = c]
  /\ UNCHANGED <<bucket, faults>>

ImageSettles(b) ==
  /\ builds[b].image = "pending"
  /\ \E s \in {"available", "failed"} : builds' = [builds EXCEPT ![b].image = s]
  /\ UNCHANGED <<bucket, faults>>

\* AWS has terminated the instance, or reclaims it.
LoseBuilder(b) ==
  /\ \/ builds[b].host = "ending" /\ UNCHANGED faults
     \/ builds[b].host = "up" /\ builds[b].at # "over" /\ Failure
  /\ builds' = [builds EXCEPT ![b].host = "gone"]
  /\ UNCHANGED bucket

\* The worker of the build dies, and its instance is forgotten.  Ray runs the
\* task again: that is another build, which may have the same id.
BuilderDies(b) ==
  /\ builds[b].at \notin {"idle", "over", "lost"} /\ Failure
  /\ builds' = [builds EXCEPT ![b].at = "lost"]
  /\ UNCHANGED bucket

BuildEnvironment(b) ==
  \/ Overdue(b) \/ ScriptEnds(b) \/ LeftoverEnds(b) \/ ImageSettles(b)
  \/ LoseBuilder(b) \/ BuilderDies(b)

=============================================================================
