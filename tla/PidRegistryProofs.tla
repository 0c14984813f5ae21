-------------------------- MODULE PidRegistryProofs --------------------------
(***************************************************************************)
(* Theorems about PidRegistry, for every set of tasks and pids.            *)
(*                                                                         *)
(* None of the properties is inductive.  TypeOK needs PopenOK, what the    *)
(* frame of a Popen holds in each phase.  CleanUnwind needs Accounted,     *)
(* which follows a process from the Popen through the local list to the    *)
(* kill job that waits for its death.  NoStaleEntry needs the shape of the *)
(* inbox of a task that left its scope, InboxOK, and that a task without a *)
(* live registry has neither calls nor an entry there.  Reachable needs to *)
(* know that a task in its scope has sent registrations only.              *)
(***************************************************************************)
EXTENDS PidRegistry, TLAPS

USE DEF InScope, Ended, Killers, Handles, Tracks

\* The pid in the frame of the Popen hook.
PopenOK ==
  \A t \in Tasks :
    /\ phase[t] \in {"spawned", "listed"} => opening[t] \in Pids
    /\ phase[t] \in {"queued", "running"} => opening[t] = NoPid
    /\ phase[t] = "listed" => opening[t] \in tracked[t]

TypeInv == TypeOK /\ PopenOK

-----------------------------------------------------------------------------
(* Types.                                                                  *)

LEMMA CallTypes ==
  /\ [op |-> "unregister"] \in Calls
  /\ \A p \in Pids : [op |-> "register", pid |-> p] \in Calls
BY DEF Calls

LEMMA EmptyCalls == <<>> \in Seq(Calls)
OBVIOUS

LEMMA SendType ==
  ASSUME TypeOK, NEW t \in Tasks, NEW call \in Calls, Send(t, call)
  PROVE  inbox' \in [Tasks -> Seq(Calls)]
BY DEF TypeOK, Send

LEMMA LeaveScopeType ==
  ASSUME TypeOK, NEW t \in Tasks, NEW how \in Ended, LeaveScope(t, how)
  PROVE  /\ phase' = [phase EXCEPT ![t] = how]
         /\ phase' \in [Tasks -> {"queued"} \cup InScope \cup Ended]
         /\ tracked' = [tracked EXCEPT ![t] = {}]
         /\ tracked' \in [Tasks -> SUBSET Pids]
         /\ inbox' \in [Tasks -> Seq(Calls)]
<1>1. inbox' \in [Tasks -> Seq(Calls)]
  <2>1. CASE Tracks(t)
    BY <2>1, CallTypes, SendType DEF LeaveScope
  <2>2. CASE ~Tracks(t)
    BY <2>2 DEF LeaveScope, TypeOK
  <2> QED BY <2>1, <2>2
<1> QED BY <1>1 DEF LeaveScope, TypeOK

LEMMA JobsForType ==
  ASSUME NEW t \in Tasks, NEW P \in SUBSET Pids, NEW by \in Killers
  PROVE  JobsFor(t, P, by) \in SUBSET Jobs
BY DEF JobsFor, Jobs

LEMMA UnwindType ==
  ASSUME TypeOK, NEW t \in Tasks, Unwind(t)
  PROVE  /\ phase' \in [Tasks -> {"queued"} \cup InScope \cup Ended]
         /\ tracked' \in [Tasks -> SUBSET Pids]
         /\ inbox' \in [Tasks -> Seq(Calls)]
         /\ kills' \in SUBSET Jobs
         /\ \E how \in {"killing"} \cup Ended : phase' = [phase EXCEPT ![t] = how]
         /\ \A u \in Tasks \ {t} : tracked'[u] = tracked[u]
<1>1. CASE /\ phase[t] \in {"running", "spawned", "listed"}
           /\ Tracks(t)
           /\ phase' = [phase EXCEPT ![t] = "killing"]
           /\ kills' = kills \cup JobsFor(t, tracked[t], "local")
           /\ UNCHANGED <<tracked, inbox>>
  <2>1. JobsFor(t, tracked[t], "local") \in SUBSET Jobs
    BY JobsForType DEF TypeOK
  <2> QED BY <1>1, <2>1 DEF TypeOK
<1>2. CASE LeaveScope(t, "failed") /\ UNCHANGED kills
  BY <1>2, LeaveScopeType DEF TypeOK
<1>3. CASE /\ LeaveScope(t, "cut")
           /\ kills' = {k \in kills : ~(k.task = t /\ k.by = "local")}
  BY <1>3, LeaveScopeType DEF TypeOK
<1> QED BY <1>1, <1>2, <1>3 DEF Unwind

LEMMA DieType ==
  ASSUME TypeOK, NEW t \in Tasks, Die(t)
  PROVE  /\ phase' \in [Tasks -> {"queued"} \cup InScope \cup Ended]
         /\ phase' = [phase EXCEPT ![t] = "killed"]
         /\ inbox' \in [Tasks -> Seq(Calls)]
         /\ kills' \in SUBSET Jobs
BY DEF Die, TypeOK

LEMMA TypeStep == TypeInv /\ [Next]_vars => TypeInv'
<1> SUFFICES ASSUME TypeInv, [Next]_vars PROVE TypeInv'
  OBVIOUS
<1> USE DEF TypeInv, TypeOK, PopenOK, taskVars, regVars, ctlVars
<1>1. CASE UNCHANGED vars
  BY <1>1 DEF vars
<1>2. ASSUME NEW t \in Tasks, TaskStep(t) PROVE TypeInv'
  <2>1. CASE Start(t)
    BY <2>1 DEF Start, GetRegistry
  <2>2. ASSUME NEW p \in Pids, Spawn(t, p) PROVE TypeInv'
    BY <2>2 DEF Spawn
  <2>3. CASE List(t)
    BY <2>3 DEF List
  <2>4. CASE Register(t)
    <3>1. inbox' \in [Tasks -> Seq(Calls)]
      BY <2>4, CallTypes, SendType DEF Register
    <3> QED BY <2>4, <3>1 DEF Register
  <2>5. CASE Return(t)
    <3>1. /\ LeaveScope(t, "finished")
          /\ UNCHANGED <<handle, opening, owner, registry, up, kills, ctlVars>>
      BY <2>5 DEF Return
    <3> QED BY <3>1, LeaveScopeType
  <2>6. CASE Raise(t)
    BY <2>6, UnwindType DEF Raise
  <2>7. CASE EndKill(t)
    <3>1. /\ LeaveScope(t, "failed")
          /\ UNCHANGED <<handle, opening, owner, registry, up, kills, ctlVars>>
      BY <2>7 DEF EndKill
    <3> QED BY <3>1, LeaveScopeType
  <2>8. CASE JobInterrupts(t)
    BY <2>8, UnwindType DEF JobInterrupts
  <2>9. CASE JobKills(t)
    BY <2>9, DieType DEF JobKills
  <2> QED
    BY <1>2, <2>1, <2>2, <2>3, <2>4, <2>5, <2>6, <2>7, <2>8, <2>9 DEF TaskStep
<1>3. ASSUME NEW t \in Tasks, CancelStep(t) PROVE TypeInv'
  <2>1. CASE CancelBegins(t)
    BY <2>1 DEF CancelBegins, GetRegistry
  <2>2. CASE CancelFetch(t)
    BY <2>2 DEF CancelFetch
  <2>3. CASE CancelDispatch(t)
    BY <2>3, JobsForType DEF CancelDispatch
  <2>4. CASE CancelBreaks(t)
    BY <2>4, JobsForType DEF CancelBreaks
  <2>5. CASE CancelSend(t)
    BY <2>5 DEF CancelSend
  <2>6. CASE CancelArrives(t)
    <3>1. CASE phase[t] = "queued" /\ phase' = [phase EXCEPT ![t] = "failed"]
               /\ UNCHANGED <<tracked, inbox, kills>>
      BY <2>6, <3>1 DEF CancelArrives
    <3>2. CASE Unwind(t)
      BY <2>6, <3>2, UnwindType DEF CancelArrives
    <3>3. CASE Die(t) /\ UNCHANGED tracked
      BY <2>6, <3>3, DieType DEF CancelArrives
    <3>4. CASE UNCHANGED <<phase, tracked, inbox, kills>>
      BY <2>6, <3>4 DEF CancelArrives
    <3> QED BY <2>6, <3>1, <3>2, <3>3, <3>4 DEF CancelArrives
  <2> QED BY <1>3, <2>1, <2>2, <2>3, <2>4, <2>5, <2>6 DEF CancelStep
<1>4. ASSUME NEW t \in Tasks, Serve(t) PROVE TypeInv'
  <2>1. Head(inbox[t]) \in Calls /\ Tail(inbox[t]) \in Seq(Calls)
    BY <1>4 DEF Serve
  <2>2. Head(inbox[t]).op = "register" => Head(inbox[t]).pid \in Pids
    BY <2>1 DEF Calls
  <2> QED BY <1>4, <2>1, <2>2 DEF Serve
<1>5. ASSUME NEW t \in Tasks, NEW p \in Pids, NEW by \in Killers, KillPid(t, p, by)
      PROVE TypeInv'
  BY <1>5 DEF KillPid
<1>6. ASSUME NEW t \in Tasks, NEW p \in Pids, JobDropsKill(t, p) PROVE TypeInv'
  BY <1>6 DEF JobDropsKill
<1>7. ASSUME NEW p \in Pids, Exit(p) PROVE TypeInv'
  BY <1>7 DEF Exit
<1>8. CASE RegistryDies
  <2>1. [t \in Tasks |-> <<>>] \in [Tasks -> Seq(Calls)]
    BY EmptyCalls
  <2> QED BY <1>8, <2>1 DEF RegistryDies
<1>9. CASE Sigterm
  BY <1>9 DEF Sigterm
<1>10. CASE KillAll
  BY <1>10, JobsForType DEF KillAll
<1>11. CASE DriverExits \/ DriverTimesOut
  BY <1>11 DEF DriverExits, DriverTimesOut
<1> QED
  BY <1>1, <1>2, <1>3, <1>4, <1>5, <1>6, <1>7, <1>8, <1>9, <1>10, <1>11 DEF Next

LEMMA TypeInit == Init => TypeInv
<1> SUFFICES ASSUME Init PROVE TypeInv
  OBVIOUS
<1>1. inbox \in [Tasks -> Seq(Calls)]
  BY EmptyCalls DEF Init
<1>2. TypeOK
  BY <1>1 DEF Init, TypeOK
<1>3. PopenOK
  BY DEF Init, PopenOK
<1> QED BY <1>2, <1>3 DEF TypeInv

LEMMA TypeInvariant == Spec => []TypeInv
BY TypeInit, TypeStep, PTL DEF Spec

\* Every variable keeps its type.
THEOREM TypeCorrect == Spec => []TypeOK
<1>1. TypeInv => TypeOK
  BY DEF TypeInv
<1> QED BY <1>1, TypeInvariant, PTL

-----------------------------------------------------------------------------
(* CleanUnwind.                                                            *)

\* What becomes of process p of task t: on the list, in the frame, or the
\* target of a local kill job.
Accounted(t, p) ==
  owner[p] = t =>
    /\ phase[t] # "queued"
    /\ Tracks(t) =>
         /\ phase[t] \in InScope => p \in tracked[t] \cup {opening[t]}
         /\ phase[t] = "killing"
              => \/ p = opening[t]
                 \/ Job(t, p, "local") \in kills
         /\ phase[t] = "failed" => p = opening[t]

UnwindInv == \A t \in Tasks, p \in Pids : Accounted(t, p)

\* An exception that reaches the scope hands every process to a local job.
LEMMA UnwindAccounts ==
  ASSUME TypeInv, NEW t \in Tasks, Unwind(t), UNCHANGED <<handle, opening, owner>>,
         NEW u \in Tasks, NEW q \in Pids, Accounted(u, q)
  PROVE  Accounted(u, q)'
<1> USE DEF TypeInv, TypeOK, Accounted, Job
<1>1. CASE /\ phase[t] \in {"running", "spawned", "listed"}
           /\ Tracks(t)
           /\ phase' = [phase EXCEPT ![t] = "killing"]
           /\ kills' = kills \cup JobsFor(t, tracked[t], "local")
           /\ UNCHANGED <<tracked, inbox>>
  <2>1. q \in tracked[t] => Job(t, q, "local") \in kills'
    BY <1>1 DEF JobsFor
  <2>2. Job(u, q, "local") \in kills => Job(u, q, "local") \in kills'
    BY <1>1
  <2> QED BY <1>1, <2>1, <2>2
<1>2. CASE /\ phase[t] \in {"running", "spawned", "listed"}
           /\ ~Tracks(t) /\ LeaveScope(t, "failed") /\ UNCHANGED kills
  BY <1>2 DEF LeaveScope
<1>3. CASE /\ phase[t] = "killing" /\ LeaveScope(t, "cut")
           /\ kills' = {k \in kills : ~(k.task = t /\ k.by = "local")}
  BY <1>3 DEF LeaveScope
<1> QED BY <1>1, <1>2, <1>3 DEF Unwind

\* A dying worker forgets its own jobs only.
LEMMA DieAccounts ==
  ASSUME TypeInv, NEW t \in Tasks, Die(t), phase[t] \in InScope,
         UNCHANGED <<handle, opening, tracked, owner>>,
         NEW u \in Tasks, NEW q \in Pids, Accounted(u, q)
  PROVE  Accounted(u, q)'
BY DEF Die, TypeInv, TypeOK, Accounted, Job

LEMMA UnwindStep == TypeInv /\ UnwindInv /\ [Next]_vars => UnwindInv'
<1> SUFFICES ASSUME TypeInv, UnwindInv, [Next]_vars, NEW u \in Tasks, NEW q \in Pids
             PROVE  Accounted(u, q)'
  BY DEF UnwindInv
<1>0. Accounted(u, q)
  BY DEF UnwindInv
<1> USE <1>0 DEF TypeInv, TypeOK, taskVars, regVars, ctlVars
<1>1. CASE UNCHANGED vars
  BY <1>1 DEF vars, Accounted
<1>2. ASSUME NEW t \in Tasks, TaskStep(t) PROVE Accounted(u, q)'
  <2>1. CASE Start(t)
    BY <2>1 DEF Start, Accounted
  <2>2. ASSUME NEW p \in Pids, Spawn(t, p) PROVE Accounted(u, q)'
    <3>1. opening[t] = NoPid /\ q # NoPid
      BY <2>2, NoPidAssumption DEF Spawn, PopenOK
    <3>2. CASE Tracks(t)
      BY <2>2, <3>1, <3>2 DEF Spawn, Accounted
    <3>3. CASE ~Tracks(t)
      BY <2>2, <3>3 DEF Spawn, Accounted
    <3> QED BY <3>2, <3>3
  <2>3. CASE List(t)
    BY <2>3 DEF List, Accounted
  <2>4. CASE Register(t)
    BY <2>4 DEF Register, Accounted, PopenOK
  <2>5. CASE Return(t)
    BY <2>5 DEF Return, LeaveScope, Accounted
  <2>6. CASE Raise(t)
    BY <2>6, UnwindAccounts DEF Raise
  <2>7. CASE EndKill(t)
    <3>1. Job(t, q, "local") \notin kills
      BY <2>7 DEF EndKill, Job
    <3>2. /\ phase[t] = "killing" /\ phase' = [phase EXCEPT ![t] = "failed"]
          /\ tracked' = [tracked EXCEPT ![t] = {}]
          /\ UNCHANGED <<handle, opening, owner, kills>>
      BY <2>7 DEF EndKill, LeaveScope
    <3> QED BY <3>1, <3>2 DEF Accounted
  <2>8. CASE JobInterrupts(t)
    BY <2>8, UnwindAccounts DEF JobInterrupts
  <2>9. CASE JobKills(t)
    BY <2>9, DieAccounts DEF JobKills
  <2> QED
    BY <1>2, <2>1, <2>2, <2>3, <2>4, <2>5, <2>6, <2>7, <2>8, <2>9 DEF TaskStep
<1>3. ASSUME NEW t \in Tasks, CancelStep(t) PROVE Accounted(u, q)'
  <2>1. CASE CancelBegins(t)
    BY <2>1 DEF CancelBegins, Accounted
  <2>2. CASE CancelFetch(t)
    BY <2>2 DEF CancelFetch, Accounted
  <2>3. CASE CancelDispatch(t)
    BY <2>3 DEF CancelDispatch, Accounted
  <2>4. CASE CancelBreaks(t)
    BY <2>4 DEF CancelBreaks, Accounted
  <2>5. CASE CancelSend(t)
    BY <2>5 DEF CancelSend, Accounted
  <2>6. CASE CancelArrives(t)
    <3>1. CASE phase[t] = "queued" /\ phase' = [phase EXCEPT ![t] = "failed"]
               /\ UNCHANGED <<tracked, inbox, kills>>
      BY <2>6, <3>1 DEF CancelArrives, Accounted
    <3>2. CASE Unwind(t)
      BY <2>6, <3>2, UnwindAccounts DEF CancelArrives
    <3>3. CASE phase[t] \in InScope /\ Die(t) /\ UNCHANGED tracked
      BY <2>6, <3>3, DieAccounts DEF CancelArrives
    <3>4. CASE UNCHANGED <<phase, tracked, inbox, kills>>
      BY <2>6, <3>4 DEF CancelArrives, Accounted
    <3> QED BY <2>6, <3>1, <3>2, <3>3, <3>4 DEF CancelArrives
  <2> QED BY <1>3, <2>1, <2>2, <2>3, <2>4, <2>5, <2>6 DEF CancelStep
<1>4. ASSUME NEW t \in Tasks, Serve(t) PROVE Accounted(u, q)'
  BY <1>4 DEF Serve, Accounted
<1>5. ASSUME NEW t \in Tasks, NEW p \in Pids, NEW by \in Killers, KillPid(t, p, by)
      PROVE Accounted(u, q)'
  <2>1. CASE p = q
    BY <1>5, <2>1, NobodyAssumption DEF KillPid, Accounted
  <2>2. CASE p # q
    <3>1. Job(u, q, "local") \in kills => Job(u, q, "local") \in kills'
      BY <1>5, <2>2 DEF KillPid, Job
    <3>2. owner'[q] = owner[q] /\ UNCHANGED taskVars
      BY <1>5, <2>2 DEF KillPid
    <3> QED BY <3>1, <3>2 DEF Accounted
  <2> QED BY <2>1, <2>2
<1>6. ASSUME NEW t \in Tasks, NEW p \in Pids, JobDropsKill(t, p) PROVE Accounted(u, q)'
  BY <1>6 DEF JobDropsKill, Accounted, Job
<1>7. ASSUME NEW p \in Pids, Exit(p) PROVE Accounted(u, q)'
  BY <1>7, NobodyAssumption DEF Exit, Accounted
<1>8. CASE RegistryDies
  BY <1>8 DEF RegistryDies, Accounted, Job
<1>9. CASE Sigterm
  BY <1>9 DEF Sigterm, Accounted
<1>10. CASE KillAll
  BY <1>10 DEF KillAll, Accounted
<1>11. CASE DriverExits \/ DriverTimesOut
  BY <1>11 DEF DriverExits, DriverTimesOut, Accounted
<1> HIDE <1>0 DEF TypeInv, TypeOK
<1> QED
  BY <1>1, <1>2, <1>3, <1>4, <1>5, <1>6, <1>7, <1>8, <1>9, <1>10, <1>11 DEF Next

\* A task that completed its local kill leaves at most the process whose Popen
\* was interrupted, whatever the registry, the driver and the other tasks do.
THEOREM CleanUnwindHolds == Spec => []CleanUnwind
<1>1. Init => UnwindInv
  BY NobodyAssumption DEF Init, UnwindInv, Accounted
<1>2. UnwindInv => CleanUnwind
  BY DEF UnwindInv, Accounted, CleanUnwind, Own
<1> QED BY <1>1, <1>2, TypeInvariant, UnwindStep, PTL DEF Spec

\* While a task is in its scope its worker knows all its live processes, the
\* one whose Popen is in progress excepted.
THEOREM LocalListCompleteHolds == Spec => []LocalListComplete
<1>1. Init => UnwindInv
  BY NobodyAssumption DEF Init, UnwindInv, Accounted
<1>2. UnwindInv => LocalListComplete
  BY DEF UnwindInv, Accounted, LocalListComplete, Own
<1> QED BY <1>1, <1>2, TypeInvariant, UnwindStep, PTL DEF Spec

-----------------------------------------------------------------------------
(* NoStaleEntry.                                                           *)

InboxOK(t) ==
  /\ phase[t] \in {"spawned", "listed", "killing"} => Tracks(t)
  /\ phase[t] = "queued" \/ handle[t] # "live"
       => inbox[t] = <<>> /\ registry[t] = {}
  /\ phase[t] \in {"finished", "failed", "cut"} =>
       \/ inbox[t] = <<>> /\ registry[t] = {}
       \/ inbox[t] # <<>> /\ inbox[t][Len(inbox[t])] = [op |-> "unregister"]

InboxInv == \A t \in Tasks : InboxOK(t)

\* The last call of an orderly task is still the last after one more send.
LEMMA SendInbox ==
  ASSUME TypeInv, NEW t \in Tasks, NEW call \in Calls, Send(t, call)
  PROVE  /\ handle[t] # "live" => inbox' = inbox
         /\ handle[t] = "live" => inbox'[t] # <<>> /\ inbox'[t][Len(inbox'[t])] = call
         /\ \A u \in Tasks \ {t} : inbox'[u] = inbox[u]
<1>1. CASE handle[t] = "live"
  <2>1. inbox[t] \in Seq(Calls)
    BY DEF TypeInv, TypeOK
  <2>2. inbox'[t] = Append(inbox[t], call)
    BY <1>1 DEF Send, TypeInv, TypeOK
  <2>3. /\ Append(inbox[t], call) # <<>>
        /\ Append(inbox[t], call)[Len(Append(inbox[t], call))] = call
    BY <2>1
  <2> QED BY <1>1, <2>2, <2>3 DEF Send
<1>2. CASE handle[t] # "live"
  BY <1>2 DEF Send
<1> QED BY <1>1, <1>2

LEMMA LeaveScopeInbox ==
  ASSUME TypeInv, NEW t \in Tasks, NEW how \in {"finished", "failed", "cut"},
         LeaveScope(t, how), UNCHANGED <<handle, registry>>,
         phase[t] \in InScope, NEW u \in Tasks, InboxOK(u)
  PROVE  InboxOK(u)'
<1> USE DEF TypeInv, TypeOK, InboxOK
<1>1. phase' = [phase EXCEPT ![t] = how]
  BY DEF LeaveScope
<1>2. CASE Tracks(t)
  <2>1. Send(t, [op |-> "unregister"])
    BY <1>2 DEF LeaveScope
  <2>2. /\ handle[t] # "live" => inbox' = inbox
        /\ handle[t] = "live" => inbox'[t] # <<>> /\ inbox'[t][Len(inbox'[t])] = [op |-> "unregister"]
        /\ \A v \in Tasks \ {t} : inbox'[v] = inbox[v]
    BY <2>1, CallTypes, SendInbox
  <2> QED BY <1>1, <1>2, <2>2
<1>3. CASE ~Tracks(t)
  BY <1>1, <1>3 DEF LeaveScope
<1> QED BY <1>2, <1>3

LEMMA UnwindInbox ==
  ASSUME TypeInv, NEW t \in Tasks, Unwind(t), UNCHANGED <<handle, registry>>,
         NEW u \in Tasks, InboxOK(u)
  PROVE  InboxOK(u)'
<1>1. CASE /\ phase[t] \in {"running", "spawned", "listed"}
           /\ Tracks(t)
           /\ phase' = [phase EXCEPT ![t] = "killing"]
           /\ kills' = kills \cup JobsFor(t, tracked[t], "local")
           /\ UNCHANGED <<tracked, inbox>>
  BY <1>1 DEF TypeInv, TypeOK, InboxOK
<1>2. CASE phase[t] \in InScope /\ LeaveScope(t, "failed")
  BY <1>2, LeaveScopeInbox
<1>3. CASE phase[t] \in InScope /\ LeaveScope(t, "cut")
  BY <1>3, LeaveScopeInbox
<1> QED BY <1>1, <1>2, <1>3 DEF Unwind

LEMMA DieInbox ==
  ASSUME TypeInv, NEW t \in Tasks, Die(t), UNCHANGED <<handle, registry>>,
         phase[t] \in InScope, NEW u \in Tasks, InboxOK(u)
  PROVE  InboxOK(u)'
<1>1. PICK n \in 0 .. Len(inbox[t]) : inbox' = [inbox EXCEPT ![t] = SubSeq(@, 1, n)]
  BY DEF Die
<1>2. inbox[t] = <<>> => SubSeq(inbox[t], 1, n) = <<>>
  BY <1>1 DEF TypeInv, TypeOK
<1> QED BY <1>1, <1>2 DEF Die, TypeInv, TypeOK, InboxOK

LEMMA NonEmptyLen ==
  ASSUME NEW S, NEW s \in Seq(S), s # <<>>
  PROVE  Len(s) = 1 \/ Len(s) > 1
<1> DEFINE n == Len(s)
<1>1. n \in Nat /\ n # 0
  OBVIOUS
<1> HIDE DEF n
<1>2. n = 1 \/ n > 1
  BY <1>1
<1> QED BY <1>2 DEF n

LEMMA TailElements ==
  ASSUME NEW S, NEW s \in Seq(S), s # <<>>, NEW i \in 1 .. Len(Tail(s))
  PROVE  \E j \in 1 .. Len(s) : Tail(s)[i] = s[j]
<1>1. i + 1 \in 1 .. Len(s) /\ Tail(s)[i] = s[i + 1]
  OBVIOUS
<1> QED BY <1>1

LEMMA LastOfTail ==
  ASSUME NEW S, NEW s \in Seq(S), Len(s) > 1
  PROVE  Tail(s) # <<>> /\ Tail(s)[Len(Tail(s))] = s[Len(s)]
<1>0. Len(s) \in Nat /\ s # <<>>
  OBVIOUS
<1>1. Len(Tail(s)) = Len(s) - 1 /\ Len(s) - 1 \in 1 .. Len(Tail(s))
  BY <1>0
<1>2. Tail(s)[Len(s) - 1] = s[Len(s)]
  BY <1>1
<1>3. Tail(s) # <<>>
  <2>1. Len(<<>>) = 0
    OBVIOUS
  <2>2. Tail(s) = <<>> => Len(Tail(s)) = 0
    BY <2>1, Zenon
  <2>3. Len(Tail(s)) # 0
    BY <1>0, <1>1
  <2> QED BY <2>2, <2>3, Zenon
<1> QED BY <1>1, <1>2, <1>3

LEMMA InboxStep == TypeInv /\ InboxInv /\ [Next]_vars => InboxInv'
<1> SUFFICES ASSUME TypeInv, InboxInv, [Next]_vars, NEW u \in Tasks
             PROVE  InboxOK(u)'
  BY DEF InboxInv
<1>0. InboxOK(u)
  BY DEF InboxInv
<1> USE <1>0 DEF TypeInv, TypeOK, taskVars, regVars, ctlVars
<1>1. CASE UNCHANGED vars
  BY <1>1 DEF vars, InboxOK
<1>2. ASSUME NEW t \in Tasks, TaskStep(t) PROVE InboxOK(u)'
  <2>1. CASE Start(t)
    BY <2>1 DEF Start, InboxOK
  <2>2. ASSUME NEW p \in Pids, Spawn(t, p) PROVE InboxOK(u)'
    BY <2>2 DEF Spawn, InboxOK
  <2>3. CASE List(t)
    BY <2>3 DEF List, InboxOK
  <2>4. CASE Register(t)
    <3>1. [op |-> "register", pid |-> opening[t]] \in Calls
      BY <2>4, CallTypes DEF Register, PopenOK
    <3>2. /\ handle[t] # "live" => inbox' = inbox
          /\ \A v \in Tasks \ {t} : inbox'[v] = inbox[v]
      BY <2>4, <3>1, SendInbox DEF Register
    <3>3. phase[t] = "listed" /\ phase' = [phase EXCEPT ![t] = "running"]
          /\ UNCHANGED <<handle, registry>>
      BY <2>4 DEF Register
    <3> QED BY <3>2, <3>3 DEF InboxOK
  <2>5. CASE Return(t)
    BY <2>5, LeaveScopeInbox DEF Return
  <2>6. CASE Raise(t)
    BY <2>6, UnwindInbox DEF Raise
  <2>7. CASE EndKill(t)
    BY <2>7, LeaveScopeInbox DEF EndKill
  <2>8. CASE JobInterrupts(t)
    BY <2>8, UnwindInbox DEF JobInterrupts
  <2>9. CASE JobKills(t)
    BY <2>9, DieInbox DEF JobKills
  <2> QED
    BY <1>2, <2>1, <2>2, <2>3, <2>4, <2>5, <2>6, <2>7, <2>8, <2>9 DEF TaskStep
<1>3. ASSUME NEW t \in Tasks, CancelStep(t) PROVE InboxOK(u)'
  <2>1. CASE CancelBegins(t)
    BY <2>1 DEF CancelBegins, InboxOK
  <2>2. CASE CancelFetch(t)
    BY <2>2 DEF CancelFetch, InboxOK
  <2>3. CASE CancelDispatch(t)
    BY <2>3 DEF CancelDispatch, InboxOK
  <2>4. CASE CancelBreaks(t)
    BY <2>4 DEF CancelBreaks, InboxOK
  <2>5. CASE CancelSend(t)
    BY <2>5 DEF CancelSend, InboxOK
  <2>6. CASE CancelArrives(t)
    <3>1. CASE phase[t] = "queued" /\ phase' = [phase EXCEPT ![t] = "failed"]
               /\ UNCHANGED <<tracked, inbox, kills>>
      BY <2>6, <3>1 DEF CancelArrives, InboxOK
    <3>2. CASE Unwind(t)
      BY <2>6, <3>2, UnwindInbox DEF CancelArrives
    <3>3. CASE phase[t] \in InScope /\ Die(t)
      BY <2>6, <3>3, DieInbox DEF CancelArrives
    <3>4. CASE UNCHANGED <<phase, tracked, inbox, kills>>
      BY <2>6, <3>4 DEF CancelArrives, InboxOK
    <3> QED BY <2>6, <3>1, <3>2, <3>3, <3>4 DEF CancelArrives
  <2> QED BY <1>3, <2>1, <2>2, <2>3, <2>4, <2>5, <2>6 DEF CancelStep
<1>4. ASSUME NEW t \in Tasks, Serve(t) PROVE InboxOK(u)'
  <2>1. CASE u # t
    BY <1>4, <2>1 DEF Serve, InboxOK
  <2>2. CASE u = t /\ Len(inbox[t]) = 1
    <3>1. inbox[t][1] = Head(inbox[t]) /\ inbox'[t] = <<>>
      BY <1>4, <2>2 DEF Serve
    <3>2. inbox[t][1] = [op |-> "unregister"] => registry'[t] = {}
      BY <1>4, <3>1 DEF Serve
    <3> QED BY <1>4, <2>2, <3>1, <3>2 DEF Serve, InboxOK
  <2>3. CASE u = t /\ Len(inbox[t]) > 1
    <3>1. /\ inbox[u] \in Seq(Calls) /\ Len(inbox[u]) > 1
          /\ inbox'[u] = Tail(inbox[u])
          /\ inbox[u] # <<>> /\ UNCHANGED <<phase, handle>>
      BY <1>4, <2>3 DEF Serve
    <3>2. /\ inbox'[u] # <<>>
          /\ inbox'[u][Len(inbox'[u])] = inbox[u][Len(inbox[u])]
      BY <3>1, LastOfTail
    <3>3. phase[u] \in {"finished", "failed", "cut"} =>
            inbox[u][Len(inbox[u])] = [op |-> "unregister"]
      BY <3>1 DEF InboxOK
    <3>4. /\ phase'[u] \in {"spawned", "listed", "killing"} => Tracks(u)'
          /\ ~(phase'[u] = "queued" \/ handle'[u] # "live")
      BY <3>1 DEF InboxOK
    <3>5. phase'[u] \in {"finished", "failed", "cut"} =>
            inbox'[u] # <<>> /\ inbox'[u][Len(inbox'[u])] = [op |-> "unregister"]
      BY <3>1, <3>2, <3>3, Zenon
    <3> HIDE <1>0 DEF TypeInv, TypeOK
    <3> QED BY <3>4, <3>5 DEF InboxOK
  <2>4. inbox[t] \in Seq(Calls) /\ inbox[t] # <<>>
    BY <1>4 DEF Serve
  <2>5. Len(inbox[t]) = 1 \/ Len(inbox[t]) > 1
    BY <2>4, NonEmptyLen
  <2> QED BY <2>1, <2>2, <2>3, <2>5, Zenon
<1>5. ASSUME NEW t \in Tasks, NEW p \in Pids, NEW by \in Killers, KillPid(t, p, by)
      PROVE InboxOK(u)'
  BY <1>5 DEF KillPid, InboxOK
<1>6. ASSUME NEW t \in Tasks, NEW p \in Pids, JobDropsKill(t, p) PROVE InboxOK(u)'
  BY <1>6 DEF JobDropsKill, InboxOK
<1>7. ASSUME NEW p \in Pids, Exit(p) PROVE InboxOK(u)'
  BY <1>7 DEF Exit, InboxOK
<1>8. CASE RegistryDies
  BY <1>8 DEF RegistryDies, InboxOK
<1>9. CASE Sigterm
  BY <1>9 DEF Sigterm, InboxOK
<1>10. CASE KillAll
  BY <1>10 DEF KillAll, InboxOK
<1>11. CASE DriverExits \/ DriverTimesOut
  BY <1>11 DEF DriverExits, DriverTimesOut, InboxOK
<1> HIDE <1>0 DEF TypeInv, TypeOK
<1> QED
  BY <1>1, <1>2, <1>3, <1>4, <1>5, <1>6, <1>7, <1>8, <1>9, <1>10, <1>11 DEF Next

\* A task whose scope ended in an orderly way leaves nothing in the registry.
THEOREM NoStaleEntryHolds == Spec => []NoStaleEntry
<1>1. Init => InboxInv
  BY DEF Init, InboxInv, InboxOK
<1>2. InboxInv => NoStaleEntry
  BY DEF InboxInv, InboxOK, NoStaleEntry
<1> QED BY <1>1, <1>2, TypeInvariant, InboxStep, PTL DEF Spec

-----------------------------------------------------------------------------
(* Reachable.                                                              *)

OnWay(t, p) ==
  \E i \in 1 .. Len(inbox[t]) : inbox[t][i] = [op |-> "register", pid |-> p]

HasJob(t, p) == \E k \in kills : k.task = t /\ k.pid = p

\* A killer of task t itself finds p: another task's job may be dropped.
Findable(t, p) ==
  driver # "gone" /\ phase[t] \in InScope /\ handle[t] = "live" /\ owner[p] = t =>
    \/ p \in registry[t] \/ OnWay(t, p) \/ HasJob(t, p)
    \/ p = opening[t] \/ p \in fetched[t]

\* The unregister is sent when the scope is left, so nothing wipes an entry of
\* a task in its scope.
RegistersOnly(t) ==
  phase[t] \in InScope =>
    \A i \in 1 .. Len(inbox[t]) : inbox[t][i].op = "register"

\* Before it has asked, a chia_cancel holds nothing.
FetchedInv ==
  \A t \in Tasks : cancel[t] \in {"none", "asked"} => fetched[t] = {}

ReachOK(t) == RegistersOnly(t) /\ \A p \in Pids : Findable(t, p)

ReachInv == \A t \in Tasks : ReachOK(t)

\* A step that leaves everything of a task alone but for more jobs.
LEMMA UntouchedReach ==
  ASSUME NEW u \in Tasks, ReachOK(u),
         phase'[u] \in InScope => phase[u] \in InScope,
         driver' # "gone" => driver # "gone",
         handle'[u] = handle[u], opening'[u] = opening[u], fetched'[u] = fetched[u],
         inbox'[u] = inbox[u], registry'[u] = registry[u],
         \A p \in Pids : owner'[p] = u => owner[p] = u,
         \A p \in Pids : owner'[p] = u /\ HasJob(u, p) => HasJob(u, p)'
  PROVE  ReachOK(u)'
BY DEF ReachOK, RegistersOnly, Findable, OnWay

\* A task that leaves its scope takes no one else's calls or jobs along.
LEMMA LeavingReach ==
  ASSUME TypeOK, NEW t \in Tasks, NEW how \in Ended, phase' = [phase EXCEPT ![t] = how],
         UNCHANGED <<handle, opening, registry, owner, fetched, driver>>,
         \A v \in Tasks \ {t} : inbox'[v] = inbox[v],
         \A k \in kills : k \in kills' \/ k.task = t,
         NEW u \in Tasks, ReachOK(u)
  PROVE  ReachOK(u)'
<1>1. CASE u = t
  BY <1>1 DEF TypeOK, ReachOK, RegistersOnly, Findable
<1>2. CASE u # t
  <2>1. phase'[u] = phase[u] /\ inbox'[u] = inbox[u]
    BY <1>2 DEF TypeOK
  <2>2. \A p \in Pids : HasJob(u, p) => HasJob(u, p)'
    BY <1>2 DEF HasJob
  <2> QED BY <2>1, <2>2, UntouchedReach
<1> QED BY <1>1, <1>2

\* A pid that leaves the hands of chia_cancel goes to a job.
LEMMA DispatchReach ==
  ASSUME TypeOK, NEW t \in Tasks, NEW P \in SUBSET fetched[t],
         kills' = kills \cup JobsFor(t, P, "cancel"),
         fetched' = [fetched EXCEPT ![t] = @ \ P],
         UNCHANGED <<phase, handle, opening, owner, inbox, registry, driver>>,
         NEW u \in Tasks, ReachOK(u)
  PROVE  ReachOK(u)'
<1>1. \A p \in Pids : HasJob(u, p) => HasJob(u, p)'
  BY DEF HasJob
<1>2. CASE u # t
  BY <1>1, <1>2, UntouchedReach DEF TypeOK
<1>3. CASE u = t
  <2>1. ASSUME NEW p \in P PROVE HasJob(u, p)'
    <3>1. Job(t, p, "cancel") \in kills'
      BY DEF JobsFor, Job
    <3> QED BY <1>3, <3>1 DEF HasJob, Job
  <2>2. \A p \in fetched[u] : p \in P \/ p \in fetched'[u]
    BY <1>3 DEF TypeOK
  <2> QED BY <1>1, <2>1, <2>2 DEF ReachOK, RegistersOnly, Findable, OnWay
<1> QED BY <1>2, <1>3

LEMMA FetchedStep == TypeInv /\ FetchedInv /\ [Next]_vars => FetchedInv'
<1> SUFFICES ASSUME TypeInv, FetchedInv, [Next]_vars PROVE FetchedInv'
  OBVIOUS
<1> USE DEF TypeInv, TypeOK, FetchedInv, ctlVars
<1>1. ASSUME NEW t \in Tasks, CancelStep(t) PROVE FetchedInv'
  BY <1>1 DEF CancelStep, CancelBegins, CancelFetch, CancelDispatch, CancelBreaks,
              CancelSend, CancelArrives
<1>2. ASSUME NEW t \in Tasks, TaskStep(t) \/ Serve(t) PROVE UNCHANGED ctlVars
  BY <1>2 DEF TaskStep, Start, Spawn, List, Register, Return, Raise, EndKill,
              JobInterrupts, JobKills, Serve
<1>3. CASE \/ \E t \in Tasks, p \in Pids, by \in Killers : KillPid(t, p, by)
           \/ \E t \in Tasks, p \in Pids : JobDropsKill(t, p)
           \/ \E p \in Pids : Exit(p)
           \/ UNCHANGED vars
  BY <1>3 DEF KillPid, JobDropsKill, Exit, vars
<1>4. CASE RegistryDies \/ Sigterm \/ KillAll \/ DriverExits \/ DriverTimesOut
  BY <1>4 DEF RegistryDies, Sigterm, KillAll, DriverExits, DriverTimesOut
<1> QED BY <1>1, <1>2, <1>3, <1>4 DEF Next

LEMMA LeaveScopeOthers ==
  ASSUME TypeInv, NEW t \in Tasks, NEW how \in Ended, LeaveScope(t, how)
  PROVE  /\ phase' = [phase EXCEPT ![t] = how]
         /\ \A v \in Tasks \ {t} : inbox'[v] = inbox[v]
BY DEF LeaveScope, Send, TypeInv, TypeOK

LEMMA UnwindReach ==
  ASSUME TypeInv, NEW t \in Tasks, Unwind(t),
         UNCHANGED <<handle, opening, registry, owner, fetched, driver>>,
         NEW u \in Tasks, ReachOK(u)
  PROVE  ReachOK(u)'
<1>1. CASE /\ phase[t] \in {"running", "spawned", "listed"}
           /\ Tracks(t)
           /\ phase' = [phase EXCEPT ![t] = "killing"]
           /\ kills' = kills \cup JobsFor(t, tracked[t], "local")
           /\ UNCHANGED <<tracked, inbox>>
  <2>1. phase'[u] \in InScope => phase[u] \in InScope
    BY <1>1 DEF TypeInv, TypeOK
  <2>2. \A p \in Pids : HasJob(u, p) => HasJob(u, p)'
    BY <1>1 DEF HasJob
  <2> QED BY <1>1, <2>1, <2>2, UntouchedReach
<1>2. CASE LeaveScope(t, "failed") /\ UNCHANGED kills
  BY <1>2, LeaveScopeOthers, LeavingReach DEF TypeInv
<1>3. CASE /\ LeaveScope(t, "cut")
           /\ kills' = {k \in kills : ~(k.task = t /\ k.by = "local")}
  BY <1>3, LeaveScopeOthers, LeavingReach DEF TypeInv
<1> QED BY <1>1, <1>2, <1>3 DEF Unwind

LEMMA DieReach ==
  ASSUME TypeInv, NEW t \in Tasks, Die(t),
         UNCHANGED <<handle, opening, registry, owner, fetched, driver>>,
         NEW u \in Tasks, ReachOK(u)
  PROVE  ReachOK(u)'
<1>1. \A v \in Tasks \ {t} : inbox'[v] = inbox[v]
  BY DEF Die, TypeInv, TypeOK
<1>2. \A k \in kills : k \in kills' \/ k.task = t
  BY DEF Die
<1> QED BY <1>1, <1>2, LeavingReach DEF Die, TypeInv

LEMMA RegisterReach ==
  ASSUME TypeInv, NEW t \in Tasks, Register(t), NEW u \in Tasks, ReachOK(u)
  PROVE  ReachOK(u)'
<1> DEFINE call == [op |-> "register", pid |-> opening[t]]
<1>1. /\ phase[t] = "listed" /\ phase' = [phase EXCEPT ![t] = "running"]
      /\ opening' = [opening EXCEPT ![t] = NoPid]
      /\ Send(t, call)
      /\ UNCHANGED <<handle, tracked, owner, registry, fetched, kills, driver>>
  BY DEF Register, ctlVars
<1>2. opening[t] \in Pids /\ call \in Calls
  BY <1>1, CallTypes DEF TypeInv, PopenOK
<1>3. CASE u # t
  <2>1. /\ phase'[u] = phase[u] /\ inbox'[u] = inbox[u] /\ opening'[u] = opening[u]
    BY <1>1, <1>3 DEF Send, TypeInv, TypeOK
  <2>2. \A p \in Pids : HasJob(u, p) => HasJob(u, p)'
    BY <1>1 DEF HasJob
  <2> QED BY <1>1, <2>1, <2>2, UntouchedReach
<1>4. CASE u = t /\ handle[u] # "live"
  <2>1. inbox' = inbox /\ handle'[u] # "live"
    BY <1>1, <1>4 DEF Send
  <2> QED BY <1>1, <1>4, <2>1 DEF ReachOK, RegistersOnly, Findable
<1>5. CASE u = t /\ handle[u] = "live"
  <2>1. inbox[u] \in Seq(Calls) /\ inbox'[u] = Append(inbox[u], call)
    BY <1>1, <1>5 DEF Send, TypeInv, TypeOK
  <2>2. /\ Len(inbox'[u]) = Len(inbox[u]) + 1
        /\ \A i \in 1 .. Len(inbox[u]) : inbox'[u][i] = inbox[u][i]
        /\ inbox'[u][Len(inbox[u]) + 1] = call
        /\ Len(inbox[u]) \in Nat
    BY <2>1, <1>2
  <2>3. \A i \in 1 .. Len(inbox'[u]) : i \in 1 .. Len(inbox[u]) \/ i = Len(inbox[u]) + 1
    BY <2>2
  <2>4. Len(inbox[u]) + 1 \in 1 .. Len(inbox'[u])
        /\ \A i \in 1 .. Len(inbox[u]) : i \in 1 .. Len(inbox'[u])
    BY <2>2
  <2>5. ASSUME NEW p \in Pids, OnWay(u, p) \/ p = opening[u] PROVE OnWay(u, p)'
    <3>1. inbox'[u][Len(inbox[u]) + 1] = [op |-> "register", pid |-> opening[t]]
      BY <2>2
    <3>2. \E i \in 1 .. Len(inbox'[u]) : inbox'[u][i] = [op |-> "register", pid |-> opening[t]]
      BY <2>4, <3>1, Zenon
    <3> QED BY <1>5, <2>2, <2>4, <2>5, <3>2 DEF OnWay
  <2>6. RegistersOnly(u)'
    <3>1. \A i \in 1 .. Len(inbox[u]) : inbox[u][i].op = "register"
      BY <1>1, <1>5 DEF ReachOK, RegistersOnly
    <3>2. call.op = "register"
      OBVIOUS
    <3> QED BY <2>2, <2>3, <3>1, <3>2 DEF RegistersOnly
  <2>7. ASSUME NEW p \in Pids PROVE Findable(u, p)'
    <3>1. Findable(u, p) /\ phase[u] \in InScope
      BY <1>1, <1>5 DEF ReachOK
    <3>2. HasJob(u, p) => HasJob(u, p)'
      BY <1>1 DEF HasJob
    <3> QED BY <1>1, <2>5, <3>1, <3>2 DEF Findable
  <2> QED BY <2>6, <2>7 DEF ReachOK
<1> QED BY <1>3, <1>4, <1>5

LEMMA ServeReach ==
  ASSUME TypeInv, NEW t \in Tasks, Serve(t), NEW u \in Tasks, ReachOK(u)
  PROVE  ReachOK(u)'
<1>1. /\ inbox[t] \in Seq(Calls) /\ inbox[t] # <<>>
      /\ inbox' = [inbox EXCEPT ![t] = Tail(@)]
      /\ UNCHANGED <<phase, handle, opening, owner, fetched, kills, driver>>
  BY DEF Serve, TypeInv, TypeOK, taskVars, ctlVars
<1>2. \A p \in Pids : HasJob(u, p) => HasJob(u, p)'
  BY <1>1 DEF HasJob
<1>3. CASE u # t
  <2>1. inbox'[u] = inbox[u] /\ registry'[u] = registry[u]
    BY <1>3 DEF Serve, TypeInv, TypeOK
  <2> QED BY <1>1, <1>2, <2>1, UntouchedReach
<1>4. CASE u = t /\ phase[u] \notin InScope
  BY <1>1, <1>4 DEF ReachOK, RegistersOnly, Findable
<1>5. CASE u = t /\ phase[u] \in InScope
  <2>1. inbox[u] \in Seq(Calls) /\ inbox[u] # <<>> /\ inbox'[u] = Tail(inbox[u])
    BY <1>1, <1>5 DEF TypeInv, TypeOK
  <2>2. /\ Head(inbox[u]) = inbox[u][1] /\ 1 \in 1 .. Len(inbox[u])
        /\ \A i \in 1 .. Len(inbox[u]) :
             i = 1 \/ (i - 1 \in 1 .. Len(inbox'[u]) /\ inbox'[u][i - 1] = inbox[u][i])
    BY <2>1
  <2>3. \A i \in 1 .. Len(inbox[u]) : inbox[u][i].op = "register"
    BY <1>5 DEF ReachOK, RegistersOnly
  <2>4. registry'[u] = registry[u] \cup {Head(inbox[u]).pid}
    <3>1. Head(inbox[u]).op = "register"
      BY <2>2, <2>3
    <3> QED BY <1>5, <3>1 DEF Serve, TypeInv, TypeOK
  <2>5. RegistersOnly(u)'
    <3>1. ASSUME NEW i \in 1 .. Len(inbox'[u]) PROVE inbox'[u][i].op = "register"
      <4>1. \E j \in 1 .. Len(inbox[u]) : inbox'[u][i] = inbox[u][j]
        BY <2>1, TailElements
      <4> QED BY <2>3, <4>1
    <3> QED BY <3>1 DEF RegistersOnly
  <2>6. ASSUME NEW p \in Pids, OnWay(u, p) PROVE OnWay(u, p)' \/ p \in registry'[u]
    <3>1. PICK i \in 1 .. Len(inbox[u]) : inbox[u][i] = [op |-> "register", pid |-> p]
      BY <2>6 DEF OnWay
    <3>2. CASE i = 1
      BY <2>2, <2>4, <3>1, <3>2
    <3>3. CASE i # 1
      <4>1. i - 1 \in 1 .. Len(inbox'[u])
            /\ inbox'[u][i - 1] = [op |-> "register", pid |-> p]
        BY <2>2, <3>1, <3>3
      <4>2. \E j \in 1 .. Len(inbox'[u]) : inbox'[u][j] = [op |-> "register", pid |-> p]
        BY <4>1, Zenon
      <4> QED BY <4>2 DEF OnWay
    <3> QED BY <3>2, <3>3
  <2>7. ASSUME NEW p \in Pids PROVE Findable(u, p)'
    <3>1. Findable(u, p)
      BY DEF ReachOK
    <3> QED BY <1>1, <1>2, <2>4, <2>6, <3>1 DEF Findable
  <2> QED BY <2>5, <2>7 DEF ReachOK
<1> QED BY <1>3, <1>4, <1>5

LEMMA SpawnReach ==
  ASSUME TypeInv, NEW t \in Tasks, NEW p \in Pids, Spawn(t, p),
         NEW u \in Tasks, ReachOK(u)
  PROVE  ReachOK(u)'
<1>1. /\ phase[t] = "running" /\ owner[p] = Nobody
      /\ owner' = [owner EXCEPT ![p] = t]
      /\ UNCHANGED <<handle, tracked, inbox, registry, fetched, kills, driver>>
  BY DEF Spawn, regVars, ctlVars
<1>2. \A q \in Pids : HasJob(u, q) => HasJob(u, q)'
  BY <1>1 DEF HasJob
<1>3. CASE u # t
  <2>1. /\ phase'[u] = phase[u] /\ opening'[u] = opening[u]
        /\ \A q \in Pids : owner'[q] = u => owner[q] = u
    BY <1>1, <1>3 DEF Spawn, TypeInv, TypeOK
  <2> QED BY <1>1, <1>2, <2>1, UntouchedReach
<1>4. CASE u = t
  <2>1. RegistersOnly(u)'
    BY <1>1, <1>4 DEF ReachOK, RegistersOnly
  <2>2. ASSUME NEW q \in Pids, Tracks(u) PROVE Findable(u, q)'
    <3>1. opening'[u] = p /\ opening[u] = NoPid /\ q # NoPid
      BY <1>1, <1>4, <2>2, NoPidAssumption DEF Spawn, TypeInv, TypeOK, PopenOK
    <3>2. q # p => owner'[q] = owner[q]
      BY <1>1 DEF TypeInv, TypeOK
    <3>3. OnWay(u, q)' <=> OnWay(u, q)
      BY <1>1 DEF OnWay
    <3>4. Findable(u, q)
      BY DEF ReachOK
    <3> QED BY <1>1, <1>2, <1>4, <3>1, <3>2, <3>3, <3>4 DEF Findable
  <2>3. ASSUME NEW q \in Pids, ~Tracks(u) PROVE Findable(u, q)'
    BY <1>1, <2>3 DEF Findable
  <2> QED BY <2>1, <2>2, <2>3 DEF ReachOK
<1> QED BY <1>3, <1>4

LEMMA ReachStep ==
  TypeInv /\ UnwindInv /\ InboxInv /\ FetchedInv /\ ReachInv /\ [Next]_vars => ReachInv'
<1> SUFFICES ASSUME TypeInv, UnwindInv, InboxInv, FetchedInv, ReachInv, [Next]_vars, NEW u \in Tasks
             PROVE  ReachOK(u)'
  BY DEF ReachInv
<1>0. ReachOK(u)
  BY DEF ReachInv
<1> USE <1>0 DEF taskVars, regVars, ctlVars
<1>1. CASE UNCHANGED vars
  BY <1>1, UntouchedReach DEF vars, HasJob
<1>2. ASSUME NEW t \in Tasks, TaskStep(t) PROVE ReachOK(u)'
  <2>1. CASE Start(t)
    <3>1. /\ phase[t] = "queued"
          /\ phase' = [phase EXCEPT ![t] = "running"]
          /\ \A v \in Tasks \ {t} : handle'[v] = handle[v]
          /\ UNCHANGED <<opening, inbox, registry, owner, fetched, kills, driver>>
      BY <2>1 DEF Start, TypeInv, TypeOK
    <3>2. CASE u # t
      <4>1. phase'[u] = phase[u] /\ handle'[u] = handle[u]
        BY <3>1, <3>2 DEF TypeInv, TypeOK
      <4> QED BY <3>1, <4>1, UntouchedReach DEF HasJob
    <3>3. CASE u = t
      <4>1. inbox[u] = <<>> /\ Len(<<>>) = 0
        BY <3>1, <3>3 DEF InboxInv, InboxOK
      <4>2. \A p \in Pids : owner[p] # u
        BY <3>1, <3>3 DEF UnwindInv, Accounted
      <4> QED BY <3>1, <4>1, <4>2 DEF ReachOK, RegistersOnly, Findable
    <3> QED BY <3>2, <3>3
  <2>2. ASSUME NEW p \in Pids, Spawn(t, p) PROVE ReachOK(u)'
    BY <2>2, SpawnReach
  <2>3. CASE List(t)
    BY <2>3, UntouchedReach DEF List, HasJob, TypeInv, TypeOK
  <2>4. CASE Register(t)
    BY <2>4, RegisterReach
  <2>5. CASE Return(t)
    BY <2>5, LeaveScopeOthers, LeavingReach DEF Return, TypeInv
  <2>6. CASE Raise(t)
    BY <2>6, UnwindReach DEF Raise
  <2>7. CASE EndKill(t)
    BY <2>7, LeaveScopeOthers, LeavingReach DEF EndKill, TypeInv
  <2>8. CASE JobInterrupts(t)
    BY <2>8, UnwindReach DEF JobInterrupts
  <2>9. CASE JobKills(t)
    BY <2>9, DieReach DEF JobKills
  <2> QED
    BY <1>2, <2>1, <2>2, <2>3, <2>4, <2>5, <2>6, <2>7, <2>8, <2>9 DEF TaskStep
<1>3. ASSUME NEW t \in Tasks, CancelStep(t) PROVE ReachOK(u)'
  <2>1. CASE CancelBegins(t)
    BY <2>1, UntouchedReach DEF CancelBegins, HasJob
  <2>2. CASE CancelFetch(t)
    <3>1. /\ fetched' = [fetched EXCEPT ![t] = registry[t]]
          /\ registry' = [registry EXCEPT ![t] = {}]
          /\ UNCHANGED <<phase, handle, opening, owner, inbox, kills, driver>>
      BY <2>2 DEF CancelFetch
    <3>2. fetched[t] = {}
      BY <2>2 DEF CancelFetch, FetchedInv, TypeInv, TypeOK
    <3>3. CASE u # t
      BY <3>1, <3>3, UntouchedReach DEF TypeInv, TypeOK, HasJob
    <3>4. CASE u = t
      BY <3>1, <3>2, <3>4 DEF TypeInv, TypeOK, ReachOK, RegistersOnly, Findable, OnWay, HasJob
    <3> QED BY <3>3, <3>4
  <2>3. CASE CancelDispatch(t)
    BY <2>3, DispatchReach DEF CancelDispatch, TypeInv, TypeOK
  <2>4. CASE CancelBreaks(t)
    <3>1. PICK P \in SUBSET fetched[t] :
            /\ kills' = kills \cup JobsFor(t, P, "cancel")
            /\ fetched' = [fetched EXCEPT ![t] = @ \ P]
      BY <2>4 DEF CancelBreaks
    <3> QED BY <2>4, <3>1, DispatchReach DEF CancelBreaks, TypeInv, TypeOK
  <2>5. CASE CancelSend(t)
    BY <2>5, UntouchedReach DEF CancelSend, HasJob
  <2>6. CASE CancelArrives(t)
    <3>1. CASE phase[t] = "queued" /\ phase' = [phase EXCEPT ![t] = "failed"]
               /\ UNCHANGED <<tracked, inbox, kills>>
      BY <2>6, <3>1, LeavingReach DEF CancelArrives, TypeInv
    <3>2. CASE Unwind(t)
      BY <2>6, <3>2, UnwindReach DEF CancelArrives
    <3>3. CASE Die(t)
      BY <2>6, <3>3, DieReach DEF CancelArrives
    <3>4. CASE UNCHANGED <<phase, tracked, inbox, kills>>
      BY <2>6, <3>4, UntouchedReach DEF CancelArrives, HasJob
    <3> QED BY <2>6, <3>1, <3>2, <3>3, <3>4 DEF CancelArrives
  <2> QED BY <1>3, <2>1, <2>2, <2>3, <2>4, <2>5, <2>6 DEF CancelStep
<1>4. ASSUME NEW t \in Tasks, Serve(t) PROVE ReachOK(u)'
  BY <1>4, ServeReach
<1>5. ASSUME NEW t \in Tasks, NEW p \in Pids, NEW by \in Killers, KillPid(t, p, by)
      PROVE ReachOK(u)'
  <2>1. \A q \in Pids : owner'[q] = u => owner[q] = u /\ q # p
    BY <1>5, NobodyAssumption DEF KillPid, TypeInv, TypeOK
  <2>2. ASSUME NEW q \in Pids, owner'[q] = u, HasJob(u, q) PROVE HasJob(u, q)'
    BY <1>5, <2>1, <2>2 DEF KillPid, HasJob, Job
  <2> QED BY <1>5, <2>1, <2>2, UntouchedReach DEF KillPid
<1>6. ASSUME NEW t \in Tasks, NEW p \in Pids, JobDropsKill(t, p) PROVE ReachOK(u)'
  BY <1>6 DEF JobDropsKill, ReachOK, RegistersOnly, Findable
<1>7. ASSUME NEW p \in Pids, Exit(p) PROVE ReachOK(u)'
  <2>1. \A q \in Pids : owner'[q] = u => owner[q] = u
    BY <1>7, NobodyAssumption DEF Exit, TypeInv, TypeOK
  <2> QED BY <1>7, <2>1, UntouchedReach DEF Exit, HasJob
<1>8. CASE RegistryDies
  <2>1. inbox'[u] = <<>> /\ Len(<<>>) = 0 /\ handle'[u] # "live"
    BY <1>8 DEF RegistryDies
  <2> QED BY <2>1 DEF ReachOK, RegistersOnly, Findable
<1>9. CASE Sigterm
  BY <1>9, UntouchedReach DEF Sigterm, HasJob
<1>10. CASE KillAll
  <2>1. \A p \in Pids : HasJob(u, p) => HasJob(u, p)'
    BY <1>10 DEF KillAll, HasJob
  <2>2. ASSUME NEW p \in Pids, p \in registry[u] PROVE HasJob(u, p)'
    <3>1. Job(u, p, "driver") \in JobsFor(u, registry[u], "driver")
      BY <2>2 DEF Job, JobsFor
    <3>2. Job(u, p, "driver") \in kills'
      BY <1>10, <3>1 DEF KillAll
    <3> QED BY <3>2 DEF HasJob, Job
  <2> QED BY <1>10, <2>1, <2>2 DEF KillAll, ReachOK, RegistersOnly, Findable, OnWay
<1>11. CASE DriverExits \/ DriverTimesOut
  BY <1>11, UntouchedReach DEF DriverExits, DriverTimesOut, HasJob
<1> QED
  BY <1>1, <1>2, <1>3, <1>4, <1>5, <1>6, <1>7, <1>8, <1>9, <1>10, <1>11 DEF Next

\* Until the driver has exited, a killer can find every live process of a task in
\* its scope whose registry is alive, unless a chia_cancel has taken it out of the
\* registry and has not handed it on.
THEOREM ReachableHolds == Spec => []Reachable
<1>1. Init => UnwindInv
  BY NobodyAssumption DEF Init, UnwindInv, Accounted
<1>2. Init => InboxInv
  BY DEF Init, InboxInv, InboxOK
<1>3. Init => ReachInv
  BY DEF Init, ReachInv, ReachOK, RegistersOnly, Findable
<1>4. Init => FetchedInv
  BY DEF Init, FetchedInv
<1>5. ReachInv => Reachable
  BY DEF ReachInv, ReachOK, Findable, OnWay, HasJob, Reachable, Own
<1> QED
  BY <1>1, <1>2, <1>3, <1>4, <1>5, TypeInvariant, UnwindStep, InboxStep, FetchedStep,
     ReachStep, PTL DEF Spec

=============================================================================
