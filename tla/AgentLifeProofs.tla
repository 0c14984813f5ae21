---------------------------- MODULE AgentLifeProofs ----------------------------
(***************************************************************************)
(* Theorems about AsyncJob, for any number of concurrent calls and jobs,   *)
(* and about Conversation, for any clients, machines and bounds.           *)
(*                                                                         *)
(* Jobs: a result that is kept belongs to the last job, whose work is      *)
(* over.  This is what makes the check of _job_result in _job_status       *)
(* enough, although the event was read before the lock was taken.          *)
(*                                                                         *)
(* Conversations: the worker's copy carries what the driver holds as long  *)
(* as it has captured nothing (CarriedInv); at the start of every run of a *)
(* prompt with a transcript the file on the machine is that transcript     *)
(* (RestoredInv); so the run resumes it and the file grows by one turn     *)
(* (CapturedInv), which is what the reply brings back (RepliedInv).        *)
(***************************************************************************)
EXTENDS AgentLife, SequenceTheorems, TLAPS

ResultIsCurrent == result # 0 => result = job /\ thread[job] # "working"

JobInv == TypeOK /\ OneAtATime /\ ResultIsCurrent

Replies == [what : {"nothing", "started", "refused", "running", "done"}, job : 0 .. MaxJobs]

LEMMA SaidType ==
  ASSUME NEW what \in {"nothing", "started", "refused", "running", "done"}, NEW j \in 0 .. MaxJobs
  PROVE  Said(what, j) \in Replies
BY DEF Said, Replies

LEMMA JobInvInit == Init => JobInv
<1> SUFFICES ASSUME Init PROVE JobInv
  OBVIOUS
<1>1. 0 \in 0 .. MaxJobs
  BY MaxJobsAssumption
<1>2. last \in [Callers -> Replies]
  BY <1>1, SaidType DEF Init
<1>3. TypeOK
  BY <1>1, <1>2 DEF Init, TypeOK, Replies
<1>4. OneAtATime /\ ResultIsCurrent
  BY DEF Init, OneAtATime, ResultIsCurrent, Alive
<1> QED BY <1>3, <1>4 DEF JobInv

LEMMA LaunchInv ==
  ASSUME JobInv, NEW c \in Callers, Launch(c),
         pc' \in [Callers -> {"idle", "waiting", "woken"}], UNCHANGED finished
  PROVE  JobInv'
<1> USE DEF JobInv
<1>1. job + 1 \in Jobs /\ job \in 0 .. MaxJobs
  BY MaxJobsAssumption DEF Launch, TypeOK, Jobs
<1>2. TypeOK'
  <2>1. job' = job + 1 /\ job' \in 0 .. MaxJobs /\ 0 \in 0 .. MaxJobs
    BY <1>1, MaxJobsAssumption DEF Launch, Jobs
  <2>2. last' \in [Callers -> Replies]
    BY <2>1, SaidType DEF Launch, TypeOK, Replies
  <2>3. thread' \in [Jobs -> {"none", "working", "stored", "set", "dead"}]
    BY DEF Launch, TypeOK
  <2>4. done' \in BOOLEAN /\ result' \in 0 .. MaxJobs
    BY <2>1 DEF Launch
  <2>5. finished' \in [Callers -> BOOLEAN]
    BY DEF TypeOK
  <2> QED BY <2>1, <2>2, <2>3, <2>4, <2>5 DEF TypeOK, Replies
<1>3. ASSUME NEW j \in Jobs, Alive(j)' PROVE j = job'
  <2>1. j # job + 1 => thread'[j] = thread[j]
    BY <1>1 DEF Launch, TypeOK
  <2>2. j # job + 1 => Alive(j)
    BY <1>3, <2>1 DEF Alive
  <2> QED BY <2>2 DEF Launch, OneAtATime
<1>4. ResultIsCurrent'
  BY DEF Launch, ResultIsCurrent
<1> QED BY <1>2, <1>3, <1>4 DEF OneAtATime

\* The steps of a call that only concern the call.
LEMMA CallInv ==
  ASSUME JobInv, UNCHANGED <<job, thread, done, result>>,
         pc' \in [Callers -> {"idle", "waiting", "woken"}],
         finished' \in [Callers -> BOOLEAN],
         last' \in [Callers -> Replies]
  PROVE  JobInv'
BY DEF JobInv, TypeOK, OneAtATime, ResultIsCurrent, Alive, Replies

LEMMA ThreadInv ==
  ASSUME JobInv, NEW j \in Jobs, Thread(j)
  PROVE  JobInv'
<1> USE DEF JobInv
<1>1. TypeOK'
  <2>1. thread' \in [Jobs -> {"none", "working", "stored", "set", "dead"}]
    BY DEF Thread, Store, WorkRaises, SetDone, ThreadEnds, TypeOK
  <2>2. done' \in BOOLEAN /\ UNCHANGED <<job, pc, finished, last>>
    BY DEF Thread, Store, WorkRaises, SetDone, ThreadEnds, TypeOK
  <2>3. result' \in 0 .. MaxJobs
    BY MaxJobsAssumption DEF Thread, Store, WorkRaises, SetDone, ThreadEnds, TypeOK, Jobs
  <2> QED BY <2>1, <2>2, <2>3 DEF TypeOK
<1>2. Alive(j) /\ j = job /\ job' = job
  BY MaxJobsAssumption
  DEF Thread, Store, WorkRaises, SetDone, ThreadEnds, Alive, OneAtATime, Jobs
<1>3. thread'[j] # "working"
  BY DEF Thread, Store, WorkRaises, SetDone, ThreadEnds, TypeOK
<1>4. \A i \in Jobs : i # j => thread'[i] = thread[i]
  BY DEF Thread, Store, WorkRaises, SetDone, ThreadEnds, TypeOK
<1>5. OneAtATime'
  BY <1>2, <1>4 DEF OneAtATime, Alive
<1>6. result' \in {result, j}
  BY DEF Thread, Store, WorkRaises, SetDone, ThreadEnds
<1>7. ResultIsCurrent'
  BY <1>2, <1>3, <1>6 DEF ResultIsCurrent
<1> QED BY <1>1, <1>5, <1>7

LEMMA JobInvStep == JobInv /\ [Next]_vars => JobInv'
<1> SUFFICES ASSUME JobInv, [Next]_vars PROVE JobInv'
  OBVIOUS
<1>0. TypeOK
  BY DEF JobInv
<1>1. ASSUME NEW c \in Callers, Start(c) PROVE JobInv'
  BY <1>0, <1>1, LaunchInv DEF Start, TypeOK
<1>2. ASSUME NEW c \in Callers, Run(c) PROVE JobInv'
  BY <1>0, <1>2, LaunchInv DEF Run, TypeOK
<1>3. ASSUME NEW c \in Callers, Refuse(c) PROVE JobInv'
  <2>0. Said("refused", 0) \in Replies
    BY SaidType, MaxJobsAssumption
  <2>1. last' \in [Callers -> Replies]
    BY <1>0, <1>3, <2>0 DEF Refuse, TypeOK, Replies
  <2> QED BY <1>0, <1>3, <2>1, CallInv DEF Refuse, TypeOK
<1>4. ASSUME NEW c \in Callers, Status(c) PROVE JobInv'
  BY <1>0, <1>4, CallInv DEF Status, TypeOK, Replies
<1>5. ASSUME NEW c \in Callers, Wait(c) PROVE JobInv'
  BY <1>0, <1>5, CallInv DEF Wait, TypeOK, Replies
<1>6. ASSUME NEW c \in Callers, Answer(c) PROVE JobInv'
  <2>1. Said("done", result) \in Replies /\ Said("nothing", 0) \in Replies
        /\ Said("running", job) \in Replies
    BY <1>0, SaidType, MaxJobsAssumption DEF TypeOK
  <2>2. last' \in [Callers -> Replies]
    BY <1>0, <1>6, <2>1 DEF Answer, TypeOK, Replies
  <2> QED BY <1>0, <1>6, <2>2, CallInv DEF Answer, TypeOK
<1>7. ASSUME NEW j \in Jobs, Thread(j) PROVE JobInv'
  BY <1>7, ThreadInv
<1>8. CASE UNCHANGED vars
  BY <1>8 DEF vars, JobInv, TypeOK, OneAtATime, ResultIsCurrent, Alive
<1> QED BY <1>1, <1>2, <1>3, <1>4, <1>5, <1>6, <1>7, <1>8 DEF Next, Call

LEMMA JobInvHolds == Spec => []JobInv
BY JobInvInit, JobInvStep, PTL DEF Spec

\* AsyncJobTool runs one job at a time, also in the moments between the end
\* of a job and the end of its thread.
THEOREM OneAtATimeHolds == Spec => []OneAtATime
<1>1. JobInv => OneAtATime
  BY DEF JobInv
<1> QED BY <1>1, JobInvHolds, PTL

\* No status reply ever carries the result of an earlier job, or of a job
\* that is still working, however starts and polls interleave.
THEOREM DoneIsCurrentHolds == Spec => DoneIsCurrent
<1> DEFINE Current ==
      \A c \in Callers :
        pc[c] = "woken" /\ last'[c].what = "done" /\ pc'[c] = "idle"
          => last'[c].job = job /\ job # 0 /\ thread[job] # "working"
<1>1. JobInv /\ [Next]_vars => [Current]_vars
  <2> SUFFICES ASSUME JobInv, Next, NEW c \in Callers,
                      pc[c] = "woken", last'[c].what = "done", pc'[c] = "idle"
               PROVE  last'[c].job = job /\ job # 0 /\ thread[job] # "working"
    BY Zenon
  <2>0. TypeOK /\ ResultIsCurrent
    BY DEF JobInv
  <2>1. Answer(c)
    <3>1. \A d \in Callers : Call(d) /\ ~Answer(d) => (pc'[c] = pc[c] \/ (c = d /\ pc'[c] # "idle"))
      BY <2>0 DEF Call, Start, Run, Refuse, Status, Wait, Launch, TypeOK
    <3>2. \A d \in Callers : Answer(d) /\ c # d => pc'[c] = pc[c]
      BY <2>0 DEF Answer, TypeOK
    <3>3. \A j \in Jobs : Thread(j) => pc' = pc
      BY DEF Thread, Store, WorkRaises, SetDone, ThreadEnds
    <3> QED BY <3>1, <3>2, <3>3 DEF Next, Call
  <2>2. last'[c] = IF finished[c] /\ result # 0 THEN Said("done", result)
                   ELSE IF job = 0 THEN Said("nothing", 0)
                   ELSE Said("running", job)
    BY <2>0, <2>1 DEF Answer, TypeOK
  <2>3. result # 0 /\ last'[c] = Said("done", result)
    BY <2>2 DEF Said
  <2> QED BY <2>0, <2>3 DEF ResultIsCurrent, Said
<1>2. Spec => [][Current]_vars
  BY <1>1, JobInvHolds, PTL DEF Spec
<1> QED BY <1>2 DEF DoneIsCurrent

-----------------------------------------------------------------------------
(* A job that is over                                                      *)

\* A status call finds a job over whose work has returned: its thread sets the
\* event before it ends, and no start of another job clears the event while
\* that result is kept.  Only a job whose work raised is missed (OverIsDone).
ReturnedIsDone == job # 0 /\ thread[job] = "dead" /\ result = job => done

\* The event is set from SetDone to the next start.
DoneInv == result # 0 /\ thread[result] \in {"set", "dead"} => done

LEMMA DoneInvStep ==
  ASSUME JobInv, DoneInv, [Next]_vars
  PROVE  DoneInv'
<1>0. TypeOK /\ ResultIsCurrent /\ OneAtATime
  BY DEF JobInv
<1>1. ASSUME NEW c \in Callers, Launch(c) PROVE DoneInv'
  BY <1>1 DEF Launch, DoneInv
<1>2. ASSUME NEW c \in Callers, Refuse(c) \/ Status(c) \/ Wait(c) \/ Answer(c) PROVE DoneInv'
  BY <1>2 DEF Refuse, Status, Wait, Answer, DoneInv
<1>3. ASSUME NEW j \in Jobs, Store(j) PROVE DoneInv'
  BY <1>0, <1>3 DEF Store, DoneInv, TypeOK
<1>4. ASSUME NEW j \in Jobs, WorkRaises(j) PROVE DoneInv'
  <2>1. j # 0 /\ j = job
    BY <1>0, <1>4, MaxJobsAssumption DEF WorkRaises, OneAtATime, Alive, Jobs
  <2>2. result = 0
    BY <1>0, <1>4, <2>1 DEF WorkRaises, ResultIsCurrent
  <2> QED BY <1>4, <2>2 DEF WorkRaises, DoneInv
<1>5. ASSUME NEW j \in Jobs, SetDone(j) PROVE DoneInv'
  BY <1>5 DEF SetDone, DoneInv
<1>6. ASSUME NEW j \in Jobs, ThreadEnds(j) PROVE DoneInv'
  BY <1>0, <1>6 DEF ThreadEnds, DoneInv, TypeOK
<1>7. CASE UNCHANGED vars
  BY <1>7 DEF vars, DoneInv
<1> QED BY <1>1, <1>2, <1>3, <1>4, <1>5, <1>6, <1>7 DEF Next, Call, Thread, Start, Run

\* A job whose work has returned is reported as done once its thread has ended,
\* for any number of jobs and callers (_job_start, _job_status).
THEOREM ReturnedIsDoneHolds == Spec => []ReturnedIsDone
<1>1. Init => DoneInv
  BY DEF Init, DoneInv
<1>2. JobInv /\ DoneInv /\ [Next]_vars => DoneInv'
  BY DoneInvStep
<1>3. DoneInv => ReturnedIsDone
  BY DEF DoneInv, ReturnedIsDone
<1> QED BY <1>1, <1>2, <1>3, JobInvHolds, PTL DEF Spec

--------------------------------------------------------------------------------

Files == [main : History, side : History]

Asked == [msg |-> sent, answered |-> TRUE]

\* The file of session i on the machine of the prompt.
FileAt(i) == disk[prompt.at][i]

\* A transcript has a session, which claude's object always has.
HasSession(s) == (s.held # << >> \/ cli = "claude") => s.id \in Ids

DriverInv ==
  /\ HasSession(driver)
  /\ cli = "claude" /\ driver.held # << >> => driver.begun

SentInv == prompt.phase # "idle" => sent \in 1 .. MaxPrompts

CarriedInv ==
  prompt.phase \notin {"idle", "reply", "bare"} =>
    /\ prompt.self.held = driver.held
    /\ HasSession(prompt.self)
    /\ driver.held # << >> => prompt.self.id = driver.id

RestoredInv ==
  prompt.phase = "run" /\ driver.held # << >> =>
    /\ Whole(FileAt(prompt.self.id)) = driver.held
    /\ cli = "agy" => FileAt(prompt.self.id).main = driver.held
    /\ cli = "claude" => prompt.self.begun

CapturedInv ==
  prompt.phase = "capture" =>
    /\ prompt.target \in Ids
    /\ Grows(driver.held, Whole(FileAt(prompt.target)), Asked)
    /\ driver.held # << >> =>
         /\ prompt.target = driver.id
         /\ cli = "agy" => FileAt(prompt.target).main = driver.held

\* A reply without the transcript of its answer; it names a session unless it
\* is agy's, and what it may carry is no more than the driver has.
BareInv ==
  prompt.phase = "bare" =>
    /\ prompt.self.id \in Ids \/ (prompt.self.id = 0 /\ prompt.self.held = driver.held)
    /\ driver.held # << >> => prompt.self.held = driver.held
    /\ driver.held # << >> /\ prompt.self.id # 0 => prompt.self.id = driver.id

RepliedInv ==
  prompt.phase = "reply" =>
    /\ prompt.self.id \in Ids
    /\ Grows(driver.held, prompt.self.held, Asked)

\* Only agy has side files.
SideInv == cli # "agy" => \A w \in Workers, i \in Ids : disk[w][i].side = << >>

TalkInv ==
  /\ TalkTypeOK /\ DriverInv /\ SentInv /\ SideInv
  /\ CarriedInv /\ RestoredInv /\ CapturedInv /\ RepliedInv /\ BareInv

-----------------------------------------------------------------------------
(* Transcripts and records.                                                *)

LEMMA WholeType ==
  ASSUME NEW f \in Files
  PROVE  Whole(f) \in History
BY ConcatProperties DEF Whole, Files, History

LEMMA WholeOfMain ==
  ASSUME NEW h \in History
  PROVE  /\ [NoFile EXCEPT !.main = h] \in Files
         /\ Whole([NoFile EXCEPT !.main = h]) = h
<1>1. [NoFile EXCEPT !.main = h] = [main |-> h, side |-> << >>]
  BY DEF NoFile
<1>2. h \o << >> = h
  BY ConcatEmptySeq DEF History
<1>3. << >> \in History
  BY DEF History
<1> QED BY <1>1, <1>2, <1>3 DEF Whole, Files

\* The turn goes to the main file or to the side file: the transcript grows
\* by it at the end.
LEMMA AppendAtEnd ==
  ASSUME NEW a \in Seq(Turns), NEW b \in Seq(Turns), NEW t \in Turns
  PROVE  a \o Append(b, t) = Append(a \o b, t)
<1>0. <<t>> \in Seq(Turns)
  OBVIOUS
<1>1. PICK c \in Seq(Turns) : c = <<t>>
  BY <1>0
<1>2. Append(b, t) = b \o c
  BY <1>1, AppendIsConcat
<1>3. a \o (b \o c) = (a \o b) \o c
  BY ConcatAssociative
<1>4. a \o b \in Seq(Turns)
  BY ConcatProperties
<1>5. Append(a \o b, t) = (a \o b) \o c
  BY <1>1, <1>4, AppendIsConcat
<1> QED BY <1>2, <1>3, <1>5

LEMMA WholeOfAppend ==
  ASSUME NEW f \in Files, NEW t \in Turns, NEW g \in Files,
         \/ g.main = Append(f.main, t) /\ g.side = f.side /\ f.side = << >>
         \/ g.main = f.main /\ g.side = Append(f.side, t)
  PROVE  Whole(g) = Append(Whole(f), t)
<1>0. f.main \in Seq(Turns) /\ f.side \in Seq(Turns)
  BY DEF Files, History
<1>1. CASE g.main = Append(f.main, t) /\ g.side = f.side /\ f.side = << >>
  <2>1. Append(f.main, t) \in Seq(Turns)
    BY <1>0, AppendProperties
  <2>2. Append(f.main, t) \o << >> = Append(f.main, t) /\ f.main \o << >> = f.main
    BY <1>0, <2>1, ConcatEmptySeq
  <2> QED BY <1>1, <2>2 DEF Whole
<1>2. CASE g.main = f.main /\ g.side = Append(f.side, t)
  BY <1>0, <1>2, AppendAtEnd DEF Whole
<1> QED BY <1>1, <1>2

LEMMA GrowsAppend ==
  ASSUME NEW h \in History, NEW t \in Turns
  PROVE  Grows(h, Append(h, t), t)
BY AppendProperties DEF Grows, History

LEMMA BeginType ==
  ASSUME NEW s \in Sessions
  PROVE  /\ Begin(s) \in Sessions
         /\ Begin(s).held = s.held /\ Begin(s).id = s.id
         /\ cli = "claude" => Begin(s).begun
BY DEF Begin, Sessions

LEMMA NamedType ==
  ASSUME NEW s \in Sessions, NEW i \in Ids
  PROVE  /\ Named(s, i) \in Sessions
         /\ Named(s, i).held = s.held
         /\ Named(s, i).id = IF cli = "codex" THEN i ELSE s.id
         /\ Named(s, i).begun = s.begun
BY DEF Named, Sessions, Ids

LEMMA AfterErrorType ==
  ASSUME TalkTypeOK, NEW kind \in Kinds, NEW s \in Sessions
  PROVE  /\ AfterError(kind, s) \in Prompts
         /\ AfterError(kind, s).self = s
         /\ AfterError(kind, s).at = prompt.at
         /\ AfterError(kind, s).phase \in {"restore", "failed", "raised"}
<1> DEFINE next == IF kind = "never" \/ (kind = "once" /\ prompt.attempt > 0) THEN "raised"
                   ELSE IF prompt.attempt + 1 < Retries THEN "restore" ELSE "failed"
<1>1. next \in {"restore", "failed", "raised"}
  OBVIOUS
<1>2. prompt \in Prompts /\ prompt.attempt + 1 \in Nat
  BY DEF TalkTypeOK, Prompts
<1>3. AfterError(kind, s) = [prompt EXCEPT !.self = s, !.attempt = prompt.attempt + 1, !.phase = next]
  BY DEF AfterError
<1> HIDE DEF next
<1> QED BY <1>1, <1>2, <1>3 DEF Prompts

LEMMA DiskUpdate ==
  ASSUME TalkTypeOK, NEW w \in Workers, NEW i \in Ids, NEW g \in Files,
         disk' = [disk EXCEPT ![w][i] = g]
  PROVE  /\ disk' \in [Workers -> [Ids -> Files]]
         /\ disk'[w][i] = g
         /\ \A v \in Workers, j \in Ids : disk'[v][j] \in {g, disk[v][j]}
BY DEF TalkTypeOK, Files

-----------------------------------------------------------------------------
(* The invariant holds at first and is kept by every action.               *)

LEMMA TalkInvInit == TalkInit => TalkInv
<1> SUFFICES ASSUME TalkInit PROVE TalkInv
  OBVIOUS
<1>1. << >> \in History /\ 0 \in 0 .. MaxIds /\ 1 \in Ids /\ 1 \in 0 .. MaxIds
  BY TalkBounds DEF History, Ids
<1>2. NoFile \in Files /\ NoFile.side = << >>
  BY <1>1 DEF NoFile, Files
<1>3. Fresh \in Sessions /\ Fresh.held = << >> /\ (cli = "claude" => Fresh.id = 1)
  BY <1>1 DEF Fresh, Sessions
<1>4. TalkTypeOK
  <2>1. disk \in [Workers -> [Ids -> [main : History, side : History]]]
    BY <1>2 DEF TalkInit, Files
  <2>2. prompt \in Prompts
    BY <1>1, <1>3 DEF TalkInit, Prompts
  <2>3. 0 \in 0 .. MaxPrompts /\ 0 \in 0 .. MaxCrashes
    BY TalkBounds
  <2> QED BY <1>1, <1>3, <2>1, <2>2, <2>3 DEF TalkInit, TalkTypeOK
<1>5. DriverInv
  BY <1>1, <1>3 DEF TalkInit, DriverInv, HasSession
<1>6. SideInv
  BY <1>2 DEF TalkInit, SideInv
<1>7. prompt.phase = "idle"
  BY DEF TalkInit
<1> QED BY <1>4, <1>5, <1>6, <1>7 DEF TalkInv, SentInv, CarriedInv, RestoredInv, CapturedInv, RepliedInv, BareInv

LEMMA DispatchedType ==
  ASSUME TalkTypeOK, NEW w \in Workers
  PROVE  /\ Dispatched(w) \in Prompts
         /\ Dispatched(w).phase = "restore" /\ Dispatched(w).self = driver
BY TalkBounds DEF Dispatched, TalkTypeOK, Prompts

LEMMA SendInv ==
  ASSUME TalkInv, NEW w \in Workers, Send(w)
  PROVE  TalkInv'
<1> USE DEF TalkInv
<1>1. sent' \in 1 .. MaxPrompts /\ sent' \in 0 .. MaxPrompts
  BY TalkBounds DEF Send, TalkTypeOK
<1>2. /\ prompt' \in Prompts /\ prompt'.phase = "restore" /\ prompt'.self = driver
  BY DispatchedType DEF Send
<1>3. TalkTypeOK'
  BY <1>1, <1>2 DEF Send, TalkTypeOK
<1>4. DriverInv' /\ SideInv'
  BY DEF Send, DriverInv, SideInv, HasSession
<1> QED BY <1>1, <1>2, <1>3, <1>4
        DEF Send, SentInv, CarriedInv, RestoredInv, CapturedInv, RepliedInv, BareInv, DriverInv, HasSession

LEMMA WorkerDiesInv ==
  ASSUME TalkInv, NEW w \in Workers, WorkerDies(w)
  PROVE  TalkInv'
<1> USE DEF TalkInv
<1>1. crashes' \in 0 .. MaxCrashes
  BY TalkBounds DEF WorkerDies, TalkTypeOK
<1>2. /\ prompt' \in Prompts /\ prompt'.phase = "restore" /\ prompt'.self = driver
  BY DispatchedType DEF WorkerDies
<1>3. TalkTypeOK'
  BY <1>1, <1>2 DEF WorkerDies, TalkTypeOK
<1>4. DriverInv' /\ SideInv'
  BY DEF WorkerDies, DriverInv, SideInv, HasSession
<1>5. SentInv'
  BY DEF WorkerDies, SentInv
<1> QED BY <1>2, <1>3, <1>4, <1>5
        DEF WorkerDies, CarriedInv, RestoredInv, CapturedInv, RepliedInv, BareInv, DriverInv, HasSession

LEMMA SetUpAfreshInv ==
  ASSUME TalkInv, NEW w \in Workers, SetUpAfresh(w)
  PROVE  TalkInv'
<1> USE DEF TalkInv
<1>1. NoFile \in Files /\ NoFile.side = << >>
  BY DEF NoFile, Files, History
<1>2. disk' \in [Workers -> [Ids -> Files]]
  BY <1>1 DEF SetUpAfresh, TalkTypeOK, Files
<1>3. TalkTypeOK'
  BY <1>2 DEF SetUpAfresh, TalkTypeOK, Files
<1>4. SideInv'
  BY <1>1 DEF SetUpAfresh, SideInv, TalkTypeOK
<1>5. DriverInv' /\ SentInv' /\ CarriedInv' /\ RepliedInv' /\ BareInv'
  BY DEF SetUpAfresh, DriverInv, SentInv, CarriedInv, RepliedInv, BareInv, HasSession, Asked
<1>6. prompt.phase \in {"run", "capture"} => disk'[prompt.at] = disk[prompt.at]
  BY DEF SetUpAfresh, TalkTypeOK, Prompts
<1>7. RestoredInv' /\ CapturedInv'
  BY <1>6 DEF SetUpAfresh, RestoredInv, CapturedInv, FileAt, Asked
<1> QED BY <1>3, <1>4, <1>5, <1>7

LEMMA RestoreInv ==
  ASSUME TalkInv, Restore
  PROVE  TalkInv'
<1> USE DEF TalkInv
<1> DEFINE s == prompt.self
           w == prompt.at
<1>0. /\ prompt \in Prompts /\ s \in Sessions /\ w \in Workers
      /\ s.held = driver.held /\ HasSession(s) /\ (driver.held # << >> => s.id = driver.id)
      /\ prompt.phase = "restore"
  BY DEF Restore, TalkTypeOK, Prompts, CarriedInv
<1>1. CASE s.held = << >>
  <2>1. /\ prompt' \in Prompts /\ prompt'.phase = "run" /\ prompt'.self = s /\ prompt'.at = w
        /\ disk' = disk
    BY <1>0, <1>1 DEF Restore, Prompts
  <2>2. TalkTypeOK'
    BY <2>1 DEF Restore, TalkTypeOK
  <2>3. DriverInv' /\ SentInv' /\ SideInv'
    BY <1>0, <2>1 DEF Restore, DriverInv, SentInv, SideInv, HasSession
  <2> QED BY <1>0, <1>1, <2>1, <2>2, <2>3
          DEF Restore, CarriedInv, RestoredInv, CapturedInv, RepliedInv, BareInv, HasSession
<1>2. CASE s.held # << >>
  <2>1. s.id \in Ids /\ s.held \in History
    BY <1>0, <1>2 DEF HasSession, Sessions
  <2>2. /\ prompt' \in Prompts /\ prompt'.phase = "run" /\ prompt'.self = Begin(s) /\ prompt'.at = w
    BY <1>0, <1>2, BeginType DEF Restore, Prompts
  <2>3. disk' = [disk EXCEPT ![w][s.id] = [NoFile EXCEPT !.main = s.held]]
    BY <1>0, <1>2, <2>1 DEF Restore, Pasted
  <2>4. [NoFile EXCEPT !.main = s.held] \in Files
    BY <2>1, WholeOfMain
  <2>5. /\ disk' \in [Workers -> [Ids -> Files]]
        /\ disk'[w][s.id] = [NoFile EXCEPT !.main = s.held]
        /\ \A v \in Workers, j \in Ids :
             disk'[v][j] \in {[NoFile EXCEPT !.main = s.held], disk[v][j]}
    BY <1>0, <2>1, <2>3, <2>4, DiskUpdate
  <2>6. TalkTypeOK'
    BY <2>2, <2>5 DEF Restore, TalkTypeOK, Files
  <2>7. [NoFile EXCEPT !.main = s.held].side = << >>
    BY DEF NoFile
  <2>8. SideInv'
    <3> SUFFICES ASSUME cli # "agy", NEW v \in Workers, NEW j \in Ids
                 PROVE  disk'[v][j].side = << >>
      BY DEF Restore, SideInv
    <3>1. CASE disk'[v][j] = disk[v][j]
      BY <3>1 DEF SideInv
    <3>2. CASE disk'[v][j] = [NoFile EXCEPT !.main = s.held]
      BY <2>7, <3>2
    <3> QED BY <2>5, <3>1, <3>2
  <2>9. DriverInv' /\ SentInv'
    BY <1>0 DEF Restore, DriverInv, SentInv, HasSession
  <2>10. CarriedInv'
    BY <1>0, <2>2, BeginType DEF Restore, CarriedInv, HasSession
  <2>11. RestoredInv'
    <3>1. Whole(disk'[w][s.id]) = s.held /\ disk'[w][s.id].main = s.held
      BY <2>1, <2>5, WholeOfMain DEF NoFile
    <3> QED BY <1>0, <2>2, <3>1, BeginType DEF Restore, RestoredInv, FileAt
  <2> QED BY <2>2, <2>6, <2>8, <2>9, <2>10, <2>11 DEF CapturedInv, RepliedInv, BareInv
<1> QED BY <1>1, <1>2

LEMMA WrittenFile ==
  ASSUME TalkTypeOK, SideInv, NEW w \in Workers, NEW i \in Ids, NEW t \in Turns,
         disk' = Written(w, i, t), cli' = cli
  PROVE  /\ disk' \in [Workers -> [Ids -> Files]]
         /\ Whole(disk'[w][i]) = Append(Whole(disk[w][i]), t)
         /\ cli = "agy" => disk'[w][i].main = disk[w][i].main
         /\ SideInv'
<1> DEFINE f == disk[w][i]
<1>1. f \in Files /\ f.main \in History /\ f.side \in History
  BY DEF TalkTypeOK, Files
<1>2. Append(f.main, t) \in History /\ Append(f.side, t) \in History
  BY <1>1, AppendProperties DEF History
<1>3. /\ Extended(f, t) \in Files
      /\ IF cli = "agy" THEN Extended(f, t).main = f.main /\ Extended(f, t).side = Append(f.side, t)
                        ELSE Extended(f, t).main = Append(f.main, t) /\ Extended(f, t).side = f.side
  BY <1>1, <1>2 DEF Extended, Files
<1>4. PICK g \in Files : g = Extended(f, t)
  BY <1>3
<1>5. disk' = [disk EXCEPT ![w][i] = g]
  BY <1>4 DEF Written, TalkTypeOK
<1>6. /\ disk' \in [Workers -> [Ids -> Files]] /\ disk'[w][i] = g
      /\ \A v \in Workers, j \in Ids : disk'[v][j] \in {g, disk[v][j]}
  BY <1>5 DEF TalkTypeOK, Files
<1>7. cli # "agy" => f.side = << >>
  BY DEF SideInv
<1>8. Whole(g) = Append(Whole(f), t)
  BY <1>1, <1>3, <1>4, <1>7, WholeOfAppend
<1>9. SideInv'
  <2> SUFFICES ASSUME cli # "agy", NEW v \in Workers, NEW j \in Ids
               PROVE  disk'[v][j].side = << >>
    BY DEF SideInv
  <2>1. g.side = << >>
    BY <1>3, <1>4, <1>7
  <2>2. disk[v][j].side = << >>
    BY DEF SideInv
  <2> QED BY <1>6, <2>1, <2>2
<1> QED BY <1>3, <1>4, <1>6, <1>8, <1>9

\* A run that is not refused resumes what the driver holds.
LEMMA RunResumes ==
  ASSUME TalkInv, prompt.phase = "run"
  PROVE  /\ prompt.self \in Sessions /\ prompt.at \in Workers
         /\ prompt.self.held = driver.held
         /\ cli = "claude" => Target(prompt.at, prompt.self) = prompt.self.id
         /\ driver.held # << >> =>
              /\ Target(prompt.at, prompt.self) = driver.id /\ driver.id \in Ids
              /\ prompt.self.id = driver.id
              /\ Whole(FileAt(driver.id)) = driver.held
              /\ cli = "agy" => FileAt(driver.id).main = driver.held
<1> USE DEF TalkInv
<1>1. /\ prompt.self \in Sessions /\ prompt.at \in Workers /\ prompt.self.held = driver.held
      /\ HasSession(prompt.self) /\ HasSession(driver)
      /\ (driver.held # << >> => prompt.self.id = driver.id)
  BY DEF TalkTypeOK, Prompts, CarriedInv, DriverInv
<1>2. \A i \in Ids : i # 0
  BY TalkBounds DEF Ids
<1>3. ASSUME driver.held # << >>
      PROVE  /\ driver.id \in Ids /\ prompt.self.id = driver.id
             /\ Whole(FileAt(driver.id)) = driver.held /\ Found(prompt.at, prompt.self)
             /\ cli = "agy" => FileAt(driver.id).main = driver.held
  BY <1>1, <1>2, <1>3 DEF HasSession, RestoredInv, Found, FileAt
<1>4. cli = "claude" => prompt.self.id # 0
  BY <1>1, <1>2 DEF HasSession
<1> QED BY <1>1, <1>2, <1>3, <1>4 DEF Target

LEMMA AnswersInv ==
  ASSUME TalkInv, Answers
  PROVE  TalkInv'
<1> USE DEF TalkInv
<1> DEFINE s == prompt.self
           w == prompt.at
           i == Target(w, s)
           r == Named(Begin(s), i)
<1>1. /\ prompt \in Prompts /\ prompt.phase = "run" /\ i \in Ids /\ s \in Sessions /\ w \in Workers
      /\ s.held = driver.held /\ (cli = "claude" => i = s.id)
      /\ driver.held # << >> => i = driver.id /\ s.id = driver.id /\ Whole(disk[w][i]) = driver.held
      /\ driver.held # << >> /\ cli = "agy" => disk[w][i].main = driver.held
  BY RunResumes DEF Answers, TalkTypeOK, FileAt
<1>2. Asked \in Turns
  BY <1>1 DEF SentInv, Asked, Turns
<1>3. /\ r \in Sessions /\ r.held = s.held /\ r.id = (IF cli = "codex" THEN i ELSE s.id)
  BY <1>1, BeginType, NamedType
<1>4. disk' = Written(w, i, Asked) /\ cli' = cli
  BY DEF Answers, Asked
<1>5. /\ disk' \in [Workers -> [Ids -> Files]] /\ SideInv'
      /\ Whole(disk'[w][i]) = Append(Whole(disk[w][i]), Asked)
      /\ cli = "agy" => disk'[w][i].main = disk[w][i].main
  BY <1>1, <1>2, <1>4, WrittenFile
<1>6. prompt' = [prompt EXCEPT !.phase = "capture", !.self = r, !.target = i]
  BY DEF Answers
<1>0. i \in 0 .. MaxIds
  BY <1>1, TalkBounds DEF Ids
<1> HIDE DEF i, r
<1>7. /\ prompt' \in Prompts /\ prompt'.phase = "capture" /\ prompt'.self = r /\ prompt'.at = w
      /\ prompt'.target = i
  BY <1>0, <1>1, <1>3, <1>6 DEF Prompts
<1>8. minted' \in 0 .. MaxIds
  BY <1>1, TalkBounds DEF Answers, Mint, TalkTypeOK, Ids, i
<1>9. UNCHANGED <<cli, driver, sent, crashes>>
  BY DEF Answers
<1>10. TalkTypeOK'
  BY <1>5, <1>7, <1>8, <1>9 DEF TalkTypeOK, Files
<1>11. DriverInv' /\ SentInv'
  BY <1>1, <1>9 DEF DriverInv, SentInv, HasSession
<1>12. CarriedInv'
  BY <1>1, <1>3, <1>7, <1>9 DEF CarriedInv, HasSession
<1>13. CapturedInv'
  <2>1. Whole(disk[w][i]) \in History
    BY <1>1, WholeType DEF TalkTypeOK, Files
  <2>2. Grows(Whole(disk[w][i]), Whole(disk'[w][i]), Asked)
    BY <1>2, <1>5, <2>1, GrowsAppend
  <2>3. Grows(driver.held, Whole(disk'[w][i]), Asked)
    BY <1>1, <1>5, <2>2 DEF Grows
  <2> QED BY <1>1, <1>5, <1>7, <1>9, <2>3 DEF CapturedInv, FileAt, Asked
<1> QED BY <1>5, <1>7, <1>10, <1>11, <1>12, <1>13 DEF RestoredInv, RepliedInv, BareInv

\* After an error the copy still carries what the driver holds; the file does
\* not matter any more, for the next attempt pastes it anew.
LEMMA ErrorInv ==
  ASSUME TalkInv, prompt.phase \in {"run", "capture"}, NEW kind \in Kinds, NEW r \in Sessions,
         r.held = driver.held, HasSession(r), driver.held # << >> => r.id = driver.id,
         prompt' = AfterError(kind, r), UNCHANGED <<cli, driver, sent, crashes>>,
         disk' \in [Workers -> [Ids -> Files]], SideInv', minted' \in 0 .. MaxIds
  PROVE  TalkInv'
<1> USE DEF TalkInv
<1>1. /\ prompt' \in Prompts /\ prompt'.self = r
      /\ prompt'.phase \in {"restore", "failed", "raised"}
  BY AfterErrorType
<1>2. TalkTypeOK'
  BY <1>1 DEF TalkTypeOK, Files
<1>3. DriverInv' /\ SentInv'
  BY DEF DriverInv, SentInv, HasSession
<1>4. CarriedInv'
  BY <1>1 DEF CarriedInv, HasSession
<1> QED BY <1>1, <1>2, <1>3, <1>4 DEF RestoredInv, CapturedInv, RepliedInv, BareInv

LEMMA NoWriteInv ==
  ASSUME TalkInv, NEW kind \in Kinds, IsRefused(kind) \/ DoesNotStart(kind)
  PROVE  TalkInv'
<1> USE DEF TalkInv
<1>1. /\ prompt.phase = "run" /\ UNCHANGED <<cli, driver, disk, sent, minted, crashes>>
  BY DEF IsRefused, DoesNotStart
<1>2. /\ prompt.self \in Sessions /\ prompt.self.held = driver.held /\ HasSession(prompt.self)
      /\ driver.held # << >> => prompt.self.id = driver.id
  BY <1>1 DEF CarriedInv, TalkTypeOK, Prompts
<1>3. /\ disk' \in [Workers -> [Ids -> Files]] /\ SideInv' /\ minted' \in 0 .. MaxIds
  BY <1>1 DEF TalkTypeOK, SideInv, Files
<1>4. /\ Begin(prompt.self) \in Sessions /\ Begin(prompt.self).held = driver.held
      /\ HasSession(Begin(prompt.self))
      /\ driver.held # << >> => Begin(prompt.self).id = driver.id
  BY <1>2, BeginType DEF HasSession
<1>5. CASE IsRefused(kind)
  <2>1. prompt' = AfterError(kind, Begin(prompt.self))
    BY <1>5 DEF IsRefused
  <2> QED BY <1>1, <1>3, <1>4, <2>1, ErrorInv
<1>6. CASE DoesNotStart(kind)
  <2>1. prompt' = AfterError(kind, prompt.self)
    BY <1>6 DEF DoesNotStart
  <2> QED BY <1>1, <1>2, <1>3, <2>1, ErrorInv
<1> QED BY <1>5, <1>6

LEMMA FailsInv ==
  ASSUME TalkInv, NEW kind \in Kinds, NEW written \in BOOLEAN, NEW named \in BOOLEAN,
         Fails(kind, written, named)
  PROVE  TalkInv'
<1> USE DEF TalkInv
<1> DEFINE s == prompt.self
           w == prompt.at
           i == Target(w, s)
           turn == [msg |-> sent, answered |-> FALSE]
<1>1. /\ prompt.phase = "run" /\ i \in Ids /\ s \in Sessions /\ w \in Workers
      /\ s.held = driver.held
      /\ driver.held # << >> => i = driver.id /\ s.id = driver.id
      /\ HasSession(s)
  BY RunResumes DEF Fails, CarriedInv
<1>2. turn \in Turns
  BY <1>1 DEF SentInv, Turns
<1>3. UNCHANGED <<cli, driver, sent, crashes>>
  BY DEF Fails
<1>4. disk' = Written(w, i, turn) \/ disk' = disk
  BY DEF Fails
<1>5. disk' \in [Workers -> [Ids -> Files]] /\ SideInv'
  <2>1. CASE disk' = Written(w, i, turn)
    BY <1>1, <1>2, <1>3, <2>1, WrittenFile
  <2>2. CASE disk' = disk
    BY <1>3, <2>2 DEF TalkTypeOK, SideInv, Files
  <2> QED BY <1>4, <2>1, <2>2
<1>6. minted' \in 0 .. MaxIds
  BY <1>1, TalkBounds DEF Fails, Mint, TalkTypeOK, Ids
<1>7. PICK r \in {Begin(s), Named(Begin(s), i)} : prompt' = AfterError(kind, r)
  BY DEF Fails
<1>8. /\ Begin(s) \in Sessions /\ Begin(s).held = s.held /\ Begin(s).id = s.id
  BY <1>1, BeginType
<1>9. /\ r \in Sessions /\ r.held = s.held
      /\ r.id \in {s.id, i} /\ (s.id \in Ids => r.id \in Ids)
  BY <1>1, <1>7, <1>8, NamedType
<1> HIDE DEF i
<1>10. /\ r.held = driver.held /\ HasSession(r)
       /\ driver.held # << >> => r.id = driver.id
  BY <1>1, <1>9 DEF HasSession
<1> QED BY <1>1, <1>3, <1>5, <1>6, <1>7, <1>9, <1>10, ErrorInv

\* Folding the side file in keeps the transcript.
LEMMA FoldedFile ==
  ASSUME TalkInv, prompt.phase = "capture", disk' = Folded, cli' = cli
  PROVE  disk' \in [Workers -> [Ids -> Files]] /\ SideInv'
<1> USE DEF TalkInv
<1> DEFINE i == prompt.target
           w == prompt.at
           f == Whole(disk[w][i])
           g == [NoFile EXCEPT !.main = f]
<1>1. i \in Ids /\ w \in Workers
  BY DEF TalkTypeOK, Prompts, CapturedInv
<1>2. f \in History
  BY <1>1, WholeType DEF TalkTypeOK, Files
<1>3. g \in Files /\ g.side = << >>
  BY <1>2, WholeOfMain DEF NoFile
<1>4. disk' = [disk EXCEPT ![w][i] = g]
  BY <1>1 DEF Folded, Fold, TalkTypeOK
<1> HIDE DEF f, g
<1>5. /\ disk' \in [Workers -> [Ids -> Files]]
      /\ \A v \in Workers, j \in Ids : disk'[v][j] \in {g, disk[v][j]}
  BY <1>1, <1>3, <1>4 DEF TalkTypeOK, Files
<1>6. SideInv'
  <2> SUFFICES ASSUME cli # "agy", NEW v \in Workers, NEW j \in Ids
               PROVE  disk'[v][j].side = << >>
    BY DEF SideInv
  <2>1. disk[v][j].side = << >>
    BY DEF SideInv
  <2> QED BY <1>3, <1>5, <2>1
<1> QED BY <1>5, <1>6

LEMMA CaptureInv ==
  ASSUME TalkInv, Capture
  PROVE  TalkInv'
<1> USE DEF TalkInv
<1> DEFINE i == prompt.target
           f == Whole(disk[prompt.at][i])
<1>1. /\ prompt \in Prompts /\ prompt.phase = "capture" /\ i \in Ids /\ prompt.at \in Workers
      /\ Grows(driver.held, f, Asked)
  BY DEF Capture, TalkTypeOK, Prompts, CapturedInv, FileAt
<1>2. f \in History
  BY <1>1, WholeType DEF TalkTypeOK, Files
<1>3. disk' \in [Workers -> [Ids -> Files]] /\ SideInv'
  BY <1>1, FoldedFile DEF Capture
<1>4. /\ prompt' = [prompt EXCEPT !.phase = "reply", !.self.id = i, !.self.held = f]
      /\ UNCHANGED <<cli, driver, sent, minted, crashes>>
  BY DEF Capture
<1> HIDE DEF f
<1>5. /\ prompt' \in Prompts /\ prompt'.phase = "reply"
      /\ prompt'.self.id = i /\ prompt'.self.held = f
  BY <1>1, <1>2, <1>4 DEF Prompts, Sessions, Ids
<1>6. TalkTypeOK'
  BY <1>3, <1>4, <1>5 DEF TalkTypeOK, Files
<1>7. DriverInv' /\ SentInv'
  BY <1>1, <1>4 DEF DriverInv, SentInv, HasSession
<1>8. RepliedInv'
  BY <1>1, <1>4, <1>5 DEF RepliedInv, Asked
<1> QED BY <1>3, <1>5, <1>6, <1>7, <1>8 DEF CarriedInv, RestoredInv, CapturedInv, BareInv

\* An answer without its transcript: nothing on the disk changes.
LEMMA BareReplyInv ==
  ASSUME TalkInv, CaptureMisses \/ CheckpointFails
  PROVE  TalkInv'
<1> USE DEF TalkInv
<1>1. /\ prompt \in Prompts /\ prompt.phase = "capture"
      /\ prompt.target \in Ids /\ prompt.at \in Workers /\ prompt.self \in Sessions
      /\ UNCHANGED <<cli, driver, disk, sent, minted, crashes>>
      /\ driver \in Sessions /\ prompt.self.held = driver.held
      /\ driver.held # << >> => prompt.target = driver.id
  BY DEF CaptureMisses, CheckpointFails, TalkTypeOK, Prompts, CapturedInv, CarriedInv
<1>2. PICK id \in {prompt.target, 0}, held \in History :
        /\ prompt' = [prompt EXCEPT !.phase = "bare", !.self.id = id, !.self.held = held]
        /\ id = 0 => held = driver.held
        /\ driver.held # << >> => held = driver.held
  <2>1. CASE CaptureMisses
    <3>1. PICK id \in {prompt.target, 0} : prompt' = [prompt EXCEPT !.phase = "bare", !.self.id = id]
      BY <2>1 DEF CaptureMisses
    <3>2. prompt' = [prompt EXCEPT !.phase = "bare", !.self.id = id, !.self.held = driver.held]
      BY <1>1, <3>1 DEF Prompts, Sessions
    <3> QED BY <1>1, <3>2 DEF Sessions
  <2>2. CASE CheckpointFails
    <3>1. /\ FileAt(prompt.target).main \in History
          /\ prompt' = [prompt EXCEPT !.phase = "bare", !.self.id = prompt.target,
                                     !.self.held = FileAt(prompt.target).main]
      BY <1>1, <2>2 DEF CheckpointFails, FileAt, TalkTypeOK
    <3>2. prompt.target # 0
      BY <1>1, TalkBounds DEF Ids
    <3>3. driver.held # << >> => FileAt(prompt.target).main = driver.held
      BY <1>1, <2>2 DEF CheckpointFails, CapturedInv
    <3> QED BY <3>1, <3>2, <3>3
  <2> QED BY <2>1, <2>2
<1>3. /\ prompt' \in Prompts /\ prompt'.phase = "bare"
      /\ prompt'.self.id = id /\ prompt'.self.held = held
  <2>1. id \in 0 .. MaxIds /\ held \in History
    BY <1>1, <1>2, TalkBounds DEF Ids
  <2> QED BY <1>1, <1>2, <2>1 DEF Prompts, Sessions
<1>4. TalkTypeOK'
  BY <1>1, <1>3 DEF TalkTypeOK
<1>5. DriverInv' /\ SentInv' /\ SideInv'
  BY <1>1 DEF DriverInv, SentInv, SideInv, HasSession
<1>6. BareInv'
  BY <1>1, <1>2, <1>3 DEF BareInv
<1> QED BY <1>3, <1>4, <1>5, <1>6 DEF CarriedInv, RestoredInv, CapturedInv, RepliedInv

LEMMA CaptureRaisesInv ==
  ASSUME TalkInv, CaptureRaises
  PROVE  TalkInv'
<1> USE DEF TalkInv
<1> DEFINE s == [prompt.self EXCEPT !.id = prompt.target]
<1>1. /\ prompt.phase = "capture" /\ prompt.target \in Ids /\ prompt.self \in Sessions
      /\ prompt.self.held = driver.held
      /\ driver.held # << >> => prompt.target = driver.id
      /\ UNCHANGED <<cli, driver, sent, minted, crashes>>
      /\ prompt' = AfterError("again", s)
  BY DEF CaptureRaises, CapturedInv, CarriedInv, TalkTypeOK, Prompts
<1>2. /\ s \in Sessions /\ s.held = driver.held /\ HasSession(s)
      /\ driver.held # << >> => s.id = driver.id
  BY <1>1, TalkBounds DEF Sessions, Ids, HasSession
<1> HIDE DEF s
<1>3. disk' \in [Workers -> [Ids -> Files]] /\ SideInv'
  <2>1. CASE disk' = Folded
    BY <1>1, <2>1, FoldedFile
  <2>2. CASE disk' = disk
    BY <1>1, <2>2 DEF TalkTypeOK, SideInv, Files
  <2> QED BY <2>1, <2>2 DEF CaptureRaises
<1>4. minted' \in 0 .. MaxIds /\ "again" \in Kinds
  BY <1>1 DEF TalkTypeOK, Kinds
<1> QED BY <1>1, <1>2, <1>3, <1>4, ErrorInv

\* What get() does to the driver's object.
LEMMA GetDriver ==
  ASSUME TalkInv, Get
  PROVE  /\ driver' \in Sessions /\ DriverInv'
         /\ prompt.phase = "reply" => Grows(driver.held, driver'.held, Asked)
         /\ prompt.phase # "reply" /\ ~(prompt.phase = "bare" /\ driver.held = << >>)
              => driver'.held = driver.held
<1> USE DEF TalkInv
<1>1. /\ driver' = Synced /\ cli' = cli
      /\ driver \in Sessions /\ prompt.self \in Sessions /\ HasSession(driver)
      /\ prompt.phase \in {"reply", "bare", "failed", "raised"}
  BY DEF Get, TalkTypeOK, Prompts, DriverInv
<1> DEFINE a == Adopted(prompt.self)
<1>2. /\ a \in Sessions
      /\ a.id = IF prompt.self.id # 0 THEN prompt.self.id ELSE driver.id
      /\ a.held = IF prompt.self.held # << >> THEN prompt.self.held ELSE driver.held
  BY <1>1 DEF Adopted, Sessions
<1>3. CASE prompt.phase = "raised"
  BY <1>1, <1>3 DEF Synced, DriverInv, HasSession
<1>4. CASE prompt.phase = "failed" /\ cli # "codex"
  <2>1. driver' = Begin(driver)
    BY <1>1, <1>4 DEF Synced
  <2> QED BY <1>1, <1>4, <2>1, BeginType DEF DriverInv, HasSession
<1>5. CASE prompt.phase = "failed" /\ cli = "codex"
  <2>1. driver' = Begin(a)
    BY <1>1, <1>5 DEF Synced
  <2>2. prompt.self.held = driver.held /\ (driver.held # << >> => prompt.self.id = driver.id)
    BY <1>5 DEF CarriedInv
  <2> HIDE DEF a
  <2> QED BY <1>1, <1>2, <1>5, <2>1, <2>2, BeginType DEF DriverInv, HasSession
<1>6. CASE prompt.phase = "reply"
  <2>1. driver' = Begin(a)
    BY <1>1, <1>6 DEF Synced
  <2>2. prompt.self.id \in Ids /\ Grows(driver.held, prompt.self.held, Asked)
    BY <1>6 DEF RepliedInv
  <2>3. prompt.self.held # << >> /\ prompt.self.id # 0
    BY <2>2, TalkBounds DEF Grows, Ids
  <2> HIDE DEF a
  <2>4. driver' \in Sessions /\ driver'.held = prompt.self.held /\ driver'.id = prompt.self.id
        /\ (cli = "claude" => driver'.begun)
    BY <1>2, <2>1, <2>3, BeginType
  <2> QED BY <1>1, <1>6, <2>2, <2>4 DEF DriverInv, HasSession
<1>7. CASE prompt.phase = "bare"
  <2>1. driver' = Begin(a)
    BY <1>1, <1>7 DEF Synced
  <2>2. /\ prompt.self.id \in Ids \/ (prompt.self.id = 0 /\ prompt.self.held = driver.held)
        /\ driver.held # << >> => prompt.self.held = driver.held
        /\ driver.held # << >> /\ prompt.self.id # 0 => prompt.self.id = driver.id
    BY <1>7 DEF BareInv
  <2>3. \A k \in Ids : k # 0
    BY TalkBounds DEF Ids
  <2> HIDE DEF a
  <2>4. /\ driver' \in Sessions /\ driver'.held = a.held /\ driver'.id = a.id
        /\ cli = "claude" => driver'.begun
    BY <1>2, <2>1, BeginType
  <2>5. driver.held # << >> => driver'.held = driver.held
    BY <1>2, <2>2, <2>4
  <2>6. HasSession(driver)'
    BY <1>1, <1>2, <2>2, <2>3, <2>4 DEF HasSession
  <2> QED BY <1>1, <1>7, <2>4, <2>5, <2>6 DEF DriverInv
<1> QED BY <1>1, <1>3, <1>4, <1>5, <1>6, <1>7

LEMMA GetInv ==
  ASSUME TalkInv, Get
  PROVE  TalkInv'
<1>1. driver' \in Sessions /\ DriverInv'
  BY GetDriver
<1> USE DEF TalkInv
<1>2. prompt' \in Prompts /\ prompt'.phase = "idle"
  BY DEF Get, TalkTypeOK, Prompts
<1>3. TalkTypeOK' /\ SideInv'
  BY <1>1, <1>2 DEF Get, TalkTypeOK, SideInv
<1> QED BY <1>1, <1>2, <1>3 DEF SentInv, CarriedInv, RestoredInv, CapturedInv, RepliedInv, BareInv

LEMMA TalkInvNext == TalkInv /\ [TalkNext]_talkVars => TalkInv'
<1> SUFFICES ASSUME TalkInv, [TalkNext]_talkVars PROVE TalkInv'
  OBVIOUS
<1>1. CASE \E w \in Workers : Send(w) \/ WorkerDies(w) \/ SetUpAfresh(w)
  BY <1>1, SendInv, WorkerDiesInv, SetUpAfreshInv
<1>2. CASE Restore \/ Answers \/ Capture \/ CaptureMisses \/ CheckpointFails \/ CaptureRaises \/ Get
  BY <1>2, RestoreInv, AnswersInv, CaptureInv, BareReplyInv, CaptureRaisesInv, GetInv
<1>3. CASE \E kind \in Kinds :
             \/ IsRefused(kind) \/ DoesNotStart(kind)
             \/ \E written, named \in BOOLEAN : Fails(kind, written, named)
  BY <1>3, NoWriteInv, FailsInv
<1>4. CASE UNCHANGED talkVars
  BY <1>4 DEF talkVars, TalkInv, TalkTypeOK, DriverInv, SentInv, SideInv, CarriedInv, RestoredInv,
              CapturedInv, RepliedInv, BareInv, HasSession, FileAt, Asked
<1> QED BY <1>1, <1>2, <1>3, <1>4 DEF TalkNext

-----------------------------------------------------------------------------
(* The theorems.                                                           *)

\* The invariant holds throughout, the types among it (claude.py, codex.py,
\* antigravity.py: prompt and its session methods).
THEOREM TalkInvHolds == TalkSpec => []TalkInv
BY TalkInvInit, TalkInvNext, PTL DEF TalkSpec

\* What a driver holds grows by exactly the turns it was given an answer for.
THEOREM EachAnswerOnceHolds == TalkSpec => EachAnswerOnce
<1> DEFINE Step == IF prompt.phase = "reply" /\ prompt'.phase = "idle"
                   THEN Grows(driver.held, driver'.held, [msg |-> sent, answered |-> TRUE])
                   ELSE \/ driver'.held = driver.held
                        \/ prompt.phase = "bare" /\ driver.held = << >>
<1>1. TalkInv /\ [TalkNext]_talkVars => [Step]_talkVars
  <2> SUFFICES ASSUME TalkInv, TalkNext PROVE Step
    BY Zenon DEF Step
  <2>1. CASE Get
    <3>1. /\ prompt'.phase = "idle"
          /\ prompt.phase = "reply" => Grows(driver.held, driver'.held, Asked)
          /\ prompt.phase # "reply" /\ ~(prompt.phase = "bare" /\ driver.held = << >>)
               => driver'.held = driver.held
      BY <2>1, GetDriver DEF Get, TalkInv, TalkTypeOK, Prompts
    <3> QED BY <3>1 DEF Asked
  <2>2. CASE ~Get
    <3>1. driver' = driver
      BY <2>2 DEF TalkNext, Send, WorkerDies, SetUpAfresh, Restore, Answers, Capture, CaptureMisses,
                  CheckpointFails, CaptureRaises, DoesNotStart, IsRefused, Fails
    <3>2. prompt.phase = "reply" => prompt'.phase # "idle"
      BY <2>2 DEF TalkNext, Send, WorkerDies, SetUpAfresh, Restore, Answers, Capture, CaptureMisses,
                  CheckpointFails, CaptureRaises, DoesNotStart, IsRefused, Fails, Dispatched, AfterError
    <3> QED BY <3>1, <3>2
  <2> QED BY <2>1, <2>2
<1> HIDE DEF Step
<1>2. TalkSpec => [][Step]_talkVars
  BY <1>1, TalkInvHolds, PTL DEF TalkSpec
<1> QED BY <1>2 DEF Step, EachAnswerOnce

-------------------------------------------------------------------------------

LEMMA AgentInvariant == AgentSpec => [](JobInv /\ TalkInv /\ view \in {"jobs", "talk"})
<1> DEFINE Inv == JobInv /\ TalkInv /\ view \in {"jobs", "talk"}
<1>1. AgentInit => Inv
  BY JobInvInit, TalkInvInit DEF AgentInit
<1>2. Inv /\ [AgentNext]_agentVars => Inv'
  <2> SUFFICES ASSUME Inv, [AgentNext]_agentVars PROVE Inv'
    OBVIOUS
  <2>1. [Next]_vars /\ [TalkNext]_talkVars /\ UNCHANGED view
    BY DEF AgentNext, agentVars
  <2> QED BY <2>1, JobInvStep, TalkInvNext
<1> HIDE DEF Inv
<1>3. AgentSpec => []Inv
  BY <1>1, <1>2, PTL DEF AgentSpec
<1> QED BY <1>3 DEF Inv

\* Types of the state of a tool's jobs and of a conversation.
THEOREM AgentTypes == AgentSpec => []AgentTypeOK
<1>1. JobInv /\ TalkInv /\ view \in {"jobs", "talk"} => AgentTypeOK
  BY DEF JobInv, TalkInv, AgentTypeOK
<1> QED BY <1>1, AgentInvariant, PTL

\* A step of the one is a stutter of the other: what is proved of the jobs and
\* of the conversations holds of an agent that has both.
THEOREM AgentShowsBoth == AgentSpec => Spec /\ TalkSpec
<1>1. AgentInit => Init /\ TalkInit
  BY DEF AgentInit
<1>2. [AgentNext]_agentVars => [Next]_vars /\ [TalkNext]_talkVars
  BY Zenon DEF AgentNext, agentVars
<1> QED BY <1>1, <1>2, PTL DEF AgentSpec, Spec, TalkSpec

==============================================================================
