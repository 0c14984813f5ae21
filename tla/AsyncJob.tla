------------------------------- MODULE AsyncJob -------------------------------
(***************************************************************************)
(* The background-job tools of CHIA (chia/base/tools/AsyncJobTool.py and   *)
(* AsyncBashTool.py).                                                      *)
(*                                                                         *)
(* A tool runs one job at a time in a daemon thread.  A call starts a job, *)
(* waits a bounded time for it, or asks for its status.  Calls and the     *)
(* thread of the job interleave; the lock makes the body of _job_start and *)
(* the end of _job_status atomic, but not the wait that precedes it, and   *)
(* the event is set after the lock that stores the result is released.     *)
(*                                                                         *)
(* Jobs are numbered in the order of their start.                          *)
(***************************************************************************)
EXTENDS Naturals

CONSTANTS
  Callers,  \* concurrent tool calls
  MaxJobs   \* bound: jobs started

ASSUME MaxJobsAssumption == MaxJobs \in Nat

VARIABLES
  job,      \* the number of the last job started, 0 before the first
  thread,   \* what the thread of each job is doing
  done,     \* _job_done
  result,   \* the job whose result _job_result holds, 0 for None
  pc,       \* where each call is
  finished, \* what Event.wait returned to it
  last      \* the last reply of each caller

vars == <<job, thread, done, result, pc, finished, last>>

Jobs == 1 .. MaxJobs

\* A thread is alive until it is dead, also between the end of _run and the
\* end of the thread.
Alive(j) == j # 0 /\ thread[j] \in {"working", "stored", "set"}

Said(what, j) == [what |-> what, job |-> j]

TypeOK ==
  /\ job      \in 0 .. MaxJobs
  /\ thread   \in [Jobs -> {"none", "working", "stored", "set", "dead"}]
  /\ done     \in BOOLEAN
  /\ result   \in 0 .. MaxJobs
  /\ pc       \in [Callers -> {"idle", "waiting", "woken"}]
  /\ finished \in [Callers -> BOOLEAN]
  /\ last     \in [Callers -> [what : {"nothing", "started", "refused", "running", "done"},
                               job  : 0 .. MaxJobs]]

Init ==
  /\ job      = 0
  /\ thread   = [j \in Jobs |-> "none"]
  /\ done     = FALSE
  /\ result   = 0
  /\ pc       = [c \in Callers |-> "idle"]
  /\ finished = [c \in Callers |-> FALSE]
  /\ last     = [c \in Callers |-> Said("nothing", 0)]

-----------------------------------------------------------------------------
(* _job_start: the lock is held throughout.                                *)

\* Mutant of Launch: the result of the job before is kept.
LaunchDirty(c) ==
  /\ job < MaxJobs
  /\ ~Alive(job)
  /\ job'    = job + 1
  /\ thread' = [thread EXCEPT ![job'] = "working"]
  /\ done'   = FALSE
  /\ last'   = [last EXCEPT ![c] = Said("started", job')]
  /\ UNCHANGED result

Launch(c) ==
  /\ job < MaxJobs
  /\ ~Alive(job)
  /\ job'    = job + 1
  /\ thread' = [thread EXCEPT ![job'] = "working"]
  /\ done'   = FALSE
  /\ result' = 0
  /\ last'   = [last EXCEPT ![c] = Said("started", job')]

\* BuildTool.build: start and return.
Start(c) ==
  /\ pc[c] = "idle"
  /\ Launch(c)
  /\ UNCHANGED <<pc, finished>>

\* AsyncBashTool.run: start, then wait a first slice.
Run(c) ==
  /\ pc[c] = "idle"
  /\ Launch(c)
  /\ pc' = [pc EXCEPT ![c] = "waiting"]
  /\ UNCHANGED finished

\* Mutant of Refuse: the event is cleared before the thread is looked at.
RefuseClears(c) ==
  /\ pc[c] = "idle"
  /\ Alive(job)
  /\ done' = FALSE
  /\ last' = [last EXCEPT ![c] = Said("refused", 0)]
  /\ UNCHANGED <<job, thread, result, pc, finished>>

\* A job is already running.
Refuse(c) ==
  /\ pc[c] = "idle"
  /\ Alive(job)
  /\ last' = [last EXCEPT ![c] = Said("refused", 0)]
  /\ UNCHANGED <<job, thread, done, result, pc, finished>>

-----------------------------------------------------------------------------
(* _job_status                                                             *)

Status(c) ==
  /\ pc[c] = "idle"
  /\ pc' = [pc EXCEPT ![c] = "waiting"]
  /\ UNCHANGED <<job, thread, done, result, finished, last>>

\* Event.wait ends when the event is set or the time is up, and returns the
\* state of the event.
Wait(c) ==
  /\ pc[c] = "waiting"
  /\ pc'       = [pc EXCEPT ![c] = "woken"]
  /\ finished' = [finished EXCEPT ![c] = done]
  /\ UNCHANGED <<job, thread, done, result, last>>

\* Mutant of Answer: names the job that will come next.
AnswerNext(c) ==
  /\ pc[c] = "woken"
  /\ pc' = [pc EXCEPT ![c] = "idle"]
  /\ last' = [last EXCEPT ![c] =
       IF finished[c] /\ result # 0 THEN Said("done", result)
       ELSE IF job = 0 THEN Said("nothing", 0)
       ELSE Said("running", job + 1)]
  /\ UNCHANGED <<job, thread, done, result, finished>>

\* The end of the call, under the lock.
Answer(c) ==
  /\ pc[c] = "woken"
  /\ pc' = [pc EXCEPT ![c] = "idle"]
  /\ last' = [last EXCEPT ![c] =
       IF finished[c] /\ result # 0 THEN Said("done", result)
       ELSE IF job = 0 THEN Said("nothing", 0)
       ELSE Said("running", job)]
  /\ UNCHANGED <<job, thread, done, result, finished>>

-----------------------------------------------------------------------------
(* The thread of job j.                                                    *)

\* work returns and its result is stored, under the lock.
Store(j) ==
  /\ thread[j] = "working"
  /\ thread' = [thread EXCEPT ![j] = "stored"]
  /\ result' = j
  /\ UNCHANGED <<job, done, pc, finished, last>>

\* work raises: the thread ends.
WorkRaises(j) ==
  /\ thread[j] = "working"
  /\ thread' = [thread EXCEPT ![j] = "dead"]
  /\ UNCHANGED <<job, done, result, pc, finished, last>>

SetDone(j) ==
  /\ thread[j] = "stored"
  /\ thread' = [thread EXCEPT ![j] = "set"]
  /\ done' = TRUE
  /\ UNCHANGED <<job, result, pc, finished, last>>

ThreadEnds(j) ==
  /\ thread[j] = "set"
  /\ thread' = [thread EXCEPT ![j] = "dead"]
  /\ UNCHANGED <<job, done, result, pc, finished, last>>

-----------------------------------------------------------------------------
Call(c) == Start(c) \/ Run(c) \/ Refuse(c) \/ Status(c) \/ Wait(c) \/ Answer(c)

Thread(j) == Store(j) \/ WorkRaises(j) \/ SetDone(j) \/ ThreadEnds(j)

Next == (\E c \in Callers : Call(c)) \/ (\E j \in Jobs : Thread(j))

Spec == Init /\ [][Next]_vars

\* A wait is bounded, the lock is free again after a few statements, and a
\* thread that has its result runs to its end.  Nothing is assumed of work.
Fairness ==
  /\ \A c \in Callers : WF_vars(Wait(c)) /\ WF_vars(Answer(c))
  /\ \A j \in Jobs : WF_vars(SetDone(j)) /\ WF_vars(ThreadEnds(j))

FairSpec == Spec /\ Fairness

-----------------------------------------------------------------------------
(* Properties.                                                             *)

\* At most one job is alive, and it is the last one started.
OneAtATime == \A j \in Jobs : Alive(j) => j = job

\* A status says done only of the job started last, and never before the
\* work of that job has returned: a caller whose wait was ended by one job
\* does not report it as the job another caller has started since.  (It may
\* report the later job a moment before that job's own event is set.)
DoneIsCurrent ==
  [][\A c \in Callers :
       pc[c] = "woken" /\ last'[c].what = "done" /\ pc'[c] = "idle"
         => last'[c].job = job /\ job # 0 /\ thread[job] # "working"]_vars

\* A result reaches whoever keeps asking (AsyncJobTool.py:13-18: a lost one
\* strands the result and hangs the agent for ever): a caller that polls again
\* and again after the job started last has stored its result is told done of
\* that job, again and again, whatever the other callers try meanwhile.
ResultIsReported ==
  \A c \in Callers :
    <>[](result # 0) /\ []<>(pc[c] = "waiting") => []<>(last[c] = Said("done", job))

\* AsyncJobTool.py:17-18: a status call long-polls in short, bounded chunks
\* until done=true.  A caller that polls a job which is over gets there.
OverIsDone == job # 0 /\ thread[job] = "dead" => done

=============================================================================
