---------------------------- MODULE FireSimProofs ----------------------------
(***************************************************************************)
(* Theorems about FireSim, for any runs, builds, plans and bounds.         *)
(*                                                                         *)
(* Runs: what is downloaded of a slot is its log, and a log says "passed"  *)
(* only if the session of the slot did (AlwaysOK); a run that is over has  *)
(* no instance, or a reason to have one (Fits).  The runs that the suite   *)
(* waits for are no more than its window (WindowOK), so neither are the    *)
(* instances.                                                              *)
(*                                                                         *)
(* Builds: an exit code "ok" that is read is that of the present script,   *)
(* unless a pull was given up (BuildOK).  In the bucket whatever is        *)
(* referred to has its driver there (BucketOK), so the driver that a run   *)
(* fetches is that of its build or a later one (DriverOK).                 *)
(***************************************************************************)
EXTENDS FireSim, FiniteSetTheorems, SequenceTheorems, TLAPS

Phases == Active \cup {"queued", "over", "reported"}

\* What holds of a run after f failures, whatever its phase.
AlwaysOK(x, f) ==
  /\ x \in RunStates
  /\ x.strays <= f
  /\ \A s \in Slots : x.log[s] = "passed" => x.session[s] = "passed"
  /\ ~x.shared => \A s \in Slots : x.mine[s] = "passed" => x.log[s] = "passed"
  /\ x.result = "success" => \A s \in 0 .. x.size - 1 : x.mine[s] = "passed"

\* What phase asks of a run.
Fits(x, phase) ==
  /\ phase \in {"quit", "reset"} => x.attempt < Attempts
  /\ ~x.shared /\ phase \notin {"collect", "end", "wait", "over", "reported"} =>
       \A s \in Slots : x.mine[s] # "passed"
  /\ phase \notin {"end", "wait", "over", "reported"} => x.result = "none"
  /\ phase = "queued" => x.host = "none"
  /\ phase = "wait" => x.host \in {"ending", "gone"}
  /\ phase \in {"over", "reported"} => x.host \in {"none", "gone"} \/ MayLeave(x)

RunOK(x, f) == AlwaysOK(x, f) /\ Fits(x, x.at)

Faults == 0 .. MaxFaults

\* A step of run r from x to y.
Goes(x, y) ==
  /\ RunOK(y, faults')
  /\ x.at \in Active /\ y.at \in Active \cup {"over"}

-----------------------------------------------------------------------------

LEMMA SlotsFacts == 0 \in Slots /\ Slots \subseteq Nat
BY FpgaRunAssumption DEF Slots

LEMMA ToOK ==
  ASSUME NEW f \in Faults, NEW x, AlwaysOK(x, f), NEW phase \in Phases, Fits(x, phase)
  PROVE  RunOK(To(x, phase), f) /\ To(x, phase).at = phase /\ To(x, phase).driver = x.driver
<1> DEFINE y == To(x, phase)
<1>1. x \in RunStates
  BY DEF AlwaysOK
<1>2. y \in RunStates
  BY <1>1, SlotsFacts DEF To, RunStates, Phases
<1>3. AlwaysOK(y, f)
  BY <1>1, <1>2 DEF AlwaysOK, To, RunStates
<1>4. Fits(y, phase)
  BY <1>1 DEF Fits, To, RunStates, MayLeave
<1>5. y.at = phase /\ y.driver = x.driver
  BY <1>1 DEF To, RunStates
<1> QED BY <1>3, <1>4, <1>5 DEF RunOK

LEMMA PastOK ==
  ASSUME NEW f \in Faults, NEW x, AlwaysOK(x, f), NEW phase \in Phases,
         Fits(x, phase), Fits(x, x.at)
  PROVE  RunOK(Past(x, phase), f) /\ Past(x, phase).at \in {x.at, phase}
         /\ Past(x, phase).driver = x.driver
<1>0. x \in RunStates
  BY DEF AlwaysOK
<1>1. CASE x.slot + 1 < x.size
  <2> DEFINE y == [x EXCEPT !.slot = @ + 1]
  <2>1. x.slot + 1 \in Slots
    BY <1>0, <1>1, FpgaRunAssumption DEF RunStates, Slots
  <2>2. y \in RunStates
    BY <1>0, <2>1 DEF RunStates
  <2>3. AlwaysOK(y, f)
    BY <1>0, <2>2 DEF AlwaysOK, RunStates
  <2>4. Fits(y, y.at) /\ y.at = x.at /\ y.driver = x.driver
    BY <1>0 DEF Fits, RunStates, MayLeave
  <2> QED BY <1>1, <2>3, <2>4 DEF Past, RunOK
<1>2. CASE ~(x.slot + 1 < x.size)
  BY <1>2, ToOK DEF Past
<1> QED BY <1>1, <1>2

LEMMA RaisedOK ==
  ASSUME NEW f \in Faults, NEW x, AlwaysOK(x, f)
  PROVE  RunOK(Raised(x), f) /\ Raised(x).at = "end" /\ Raised(x).driver = x.driver
<1> DEFINE y == To(x, "end")
<1>1. "end" \in Phases /\ Fits(x, "end")
  BY DEF Fits, Phases, Active
<1>2. AlwaysOK(y, f) /\ y.at = "end" /\ y.driver = x.driver
  BY <1>1, ToOK DEF RunOK
<1> HIDE DEF y
<1>3. Raised(x) = [y EXCEPT !.failed = TRUE, !.result = "failure"]
  BY DEF Raised, y
<1>4. y \in RunStates
  BY <1>2 DEF AlwaysOK
<1>5. Raised(x) \in RunStates
  BY <1>3, <1>4 DEF RunStates
<1>6. AlwaysOK(Raised(x), f) /\ Raised(x).at = "end" /\ Raised(x).driver = x.driver
  BY <1>2, <1>3, <1>4, <1>5 DEF AlwaysOK, RunStates
<1> QED BY <1>6 DEF RunOK, Fits

LEMMA CountedOK ==
  ASSUME NEW host \in Hosts, NEW o, o = "ok" \/ o \in Outcomes(host),
         Counted(host, o), faults \in Faults
  PROVE  faults' \in Faults /\ faults <= faults'
BY MaxFaultsAssumption DEF Outcomes, Counted, Faults, Hosts

LEMMA MoreFaults ==
  ASSUME NEW x, NEW f \in Faults, NEW g \in Faults, f <= g, RunOK(x, f)
  PROVE  RunOK(x, g)
BY DEF RunOK, AlwaysOK, Faults, RunStates

-----------------------------------------------------------------------------

\* The steps of a run.  Each lemma is about the record of the run alone.

StepOK(r, found) ==
  /\ faults' \in Faults /\ faults <= faults'
  /\ runs' = [runs EXCEPT ![r] = runs'[r]]
  /\ Goes(runs[r], runs'[r])
  /\ runs'[r].driver \in {runs[r].driver, found}

RunsOK == runs \in [Runs -> RunStates] /\ faults \in Faults
          /\ \A r \in Runs : RunOK(runs[r], faults)

\* To show StepOK it is enough to show what the new record is.
Becoming(r, y, found) ==
  \A f \in Faults : faults <= f =>
    RunOK(y, f) /\ y.at \in Active \cup {"over"} /\ y.driver \in {runs[r].driver, found}

LEMMA ThenOK ==
  ASSUME RunsOK, NEW r \in Runs, NEW o, o = "ok" \/ o \in Outcomes(runs[r].host),
         NEW y, NEW found,
         Then(r, o, y), runs[r].at \in Active, Becoming(r, y, found)
  PROVE  StepOK(r, found)
<1>1. runs[r] \in RunStates /\ runs[r].host \in Hosts
  BY DEF RunsOK, RunStates
<1>2. faults' \in Faults /\ faults <= faults'
  BY <1>1, CountedOK DEF Then, RunsOK
<1>3. runs' = [runs EXCEPT ![r] = y] /\ runs'[r] = y
  BY DEF Then, RunsOK
<1> QED BY <1>2, <1>3 DEF StepOK, Goes, Becoming

LEMMA DeniedOK ==
  ASSUME RunsOK, NEW r \in Runs, NEW y, NEW found,
         Denied(r, y), runs[r].at \in Active, Becoming(r, y, found)
  PROVE  StepOK(r, found)
<1>1. faults' \in Faults /\ faults <= faults'
  BY MaxFaultsAssumption DEF Denied, Failure, RunsOK, Faults
<1>2. runs' = [runs EXCEPT ![r] = y] /\ runs'[r] = y
  BY DEF Denied, RunsOK
<1> QED BY <1>1, <1>2 DEF StepOK, Goes, Becoming

LEMMA RaisingOK ==
  ASSUME RunsOK, NEW r \in Runs, NEW found
  PROVE  Becoming(r, Raised(runs[r]), found)
BY MoreFaults, RaisedOK DEF Becoming, RunsOK, RunOK, Active

LEMMA StayingOK ==
  ASSUME RunsOK, NEW r \in Runs, runs[r].at \in Active, NEW found
  PROVE  Becoming(r, runs[r], found)
BY MoreFaults DEF Becoming, RunsOK

\* Before the verdict a run may go to any phase that asks nothing new of it.
Early == {"launch", "connect", "setup", "boot", "watch", "scan", "quit", "reset", "kill"}

LEMMA Onward ==
  ASSUME NEW x, NEW f, RunOK(x, f), x.at \in Early,
         NEW phase \in (Early \ {"quit", "reset"}) \cup {"collect", "end"}
  PROVE  Fits(x, phase) /\ phase \in Phases /\ phase \in Active
BY DEF RunOK, Fits, Early, Phases, Active

LEMMA LaunchInstanceOK ==
  ASSUME RunsOK, NEW r \in Runs, LaunchInstance(r), NEW found
  PROVE  StepOK(r, found)
<1> DEFINE x == runs[r]
           y == [To(x, "connect") EXCEPT !.host = "up"]
<1>1. x.at \in Early /\ x.at \in Active
  BY DEF LaunchInstance, Early, Active
<1>2. ASSUME NEW f \in Faults, faults <= f
      PROVE  RunOK(y, f) /\ y.at = "connect" /\ y.driver = x.driver
  <2>1. RunOK(x, f)
    BY <1>2, MoreFaults DEF RunsOK
  <2>2. RunOK(To(x, "connect"), f) /\ To(x, "connect").at = "connect"
        /\ To(x, "connect").driver = x.driver
    BY <1>1, <2>1, Onward, ToOK DEF RunOK, Early
  <2> DEFINE z == To(x, "connect")
  <2> HIDE DEF z
  <2>3. RunOK(z, f) /\ z.at = "connect" /\ z.driver = x.driver
    BY <2>2 DEF z
  <2>4. z \in RunStates
    BY <2>3 DEF RunOK, AlwaysOK
  <2>5. [z EXCEPT !.host = "up"] \in RunStates
    BY <2>4 DEF RunStates, Hosts
  <2>6. AlwaysOK([z EXCEPT !.host = "up"], f)
    BY <2>3, <2>4, <2>5 DEF RunOK, AlwaysOK, RunStates
  <2>7. Fits([z EXCEPT !.host = "up"], "connect")
    BY <2>3, <2>4 DEF RunOK, Fits, RunStates
  <2> QED BY <2>3, <2>4, <2>6, <2>7 DEF RunOK, z, RunStates
<1>3. Becoming(r, y, found)
  BY <1>2 DEF Becoming, Active
<1>4. CASE Then(r, "ok", y)
  BY <1>1, <1>3, <1>4, ThenOK
<1>5. CASE Denied(r, Raised(x))
  BY <1>1, <1>5, DeniedOK, RaisingOK
<1>6. CASE Denied(r, x)
  BY <1>1, <1>6, DeniedOK, StayingOK
<1> QED BY <1>4, <1>5, <1>6 DEF LaunchInstance

\* A step that on success goes to the next phase, and raises otherwise.
LEMMA ConnectOK ==
  ASSUME RunsOK, NEW r \in Runs, Connect(r), NEW found
  PROVE  StepOK(r, found)
<1> DEFINE x == runs[r]
<1>1. x.at \in Early /\ x.at \in Active
  BY DEF Connect, Early, Active
<1>2. Becoming(r, To(x, "setup"), found)
  <2> SUFFICES ASSUME NEW f \in Faults, faults <= f
               PROVE  RunOK(To(x, "setup"), f) /\ To(x, "setup").at = "setup"
                      /\ To(x, "setup").driver = x.driver
    BY DEF Becoming, Active
  <2>1. RunOK(x, f)
    BY MoreFaults DEF RunsOK
  <2> QED BY <1>1, <2>1, Onward, ToOK DEF RunOK, Early
<1>3. PICK o \in Outcomes(x.host) : Then(r, o, IF o = "ok" THEN To(x, "setup") ELSE Raised(x))
  BY DEF Connect
<1>4. CASE o = "ok"
  BY <1>1, <1>2, <1>3, <1>4, ThenOK
<1>5. CASE o # "ok"
  BY <1>1, <1>3, <1>5, ThenOK, RaisingOK
<1> QED BY <1>4, <1>5

LEMMA LaterFaults ==
  ASSUME RunsOK, NEW r \in Runs, NEW f \in Faults, faults <= f
  PROVE  RunOK(runs[r], f) /\ AlwaysOK(runs[r], f) /\ Fits(runs[r], runs[r].at)
         /\ runs[r] \in RunStates
BY MoreFaults DEF RunsOK, RunOK

LEMMA SetUpOK ==
  ASSUME RunsOK, NEW r \in Runs, NEW found \in Nat, SetUp(r, found)
  PROVE  StepOK(r, found)
<1> DEFINE x == runs[r]
           y == [To(x, "boot") EXCEPT !.driver = found]
<1>1. x.at \in Early /\ x.at \in Active
  BY DEF SetUp, Early, Active
<1>2. ASSUME NEW f \in Faults, faults <= f
      PROVE  RunOK(y, f) /\ y.at = "boot" /\ y.driver = found
  <2> DEFINE z == To(x, "boot")
  <2>1. RunOK(z, f) /\ z.at = "boot"
    BY <1>1, <1>2, LaterFaults, Onward, ToOK DEF Early
  <2> HIDE DEF z
  <2>2. z \in RunStates
    BY <2>1 DEF RunOK, AlwaysOK
  <2>3. [z EXCEPT !.driver = found] \in RunStates
    BY <2>2 DEF RunStates
  <2>4. AlwaysOK([z EXCEPT !.driver = found], f)
    BY <2>1, <2>2, <2>3 DEF RunOK, AlwaysOK, RunStates
  <2>5. Fits([z EXCEPT !.driver = found], "boot")
    BY <2>1, <2>2 DEF RunOK, Fits, RunStates
  <2> QED BY <2>1, <2>2, <2>4, <2>5 DEF RunOK, z, RunStates
<1>3. Becoming(r, y, found)
  BY <1>2 DEF Becoming, Active
<1>4. PICK o \in Outcomes(x.host) : Then(r, o, IF o = "ok" /\ found # 0 THEN y ELSE Raised(x))
  BY DEF SetUp
<1>5. CASE o = "ok" /\ found # 0
  BY <1>1, <1>3, <1>4, <1>5, ThenOK
<1>6. CASE ~(o = "ok" /\ found # 0)
  BY <1>1, <1>4, <1>6, ThenOK, RaisingOK
<1> QED BY <1>5, <1>6

LEMMA BootOK ==
  ASSUME RunsOK, NEW r \in Runs, Boot(r), NEW found
  PROVE  StepOK(r, found)
<1> DEFINE x == runs[r]
           z == [x EXCEPT !.session[x.slot] = "run", !.log[x.slot] = "open",
                          !.complete = FALSE]
<1>1. x.at \in Early /\ x.at \in Active /\ x.at = "boot"
  BY DEF Boot, Early, Active
<1>2. ASSUME NEW f \in Faults, faults <= f
      PROVE  RunOK(Past(z, "watch"), f) /\ Past(z, "watch").at \in {"boot", "watch"}
             /\ Past(z, "watch").driver = x.driver
  <2>1. RunOK(x, f) /\ x \in RunStates
    BY <1>2, LaterFaults
  <2>2. z \in RunStates /\ z.driver = x.driver /\ z.at = "boot"
    BY <1>1, <2>1 DEF RunStates
  <2>3. AlwaysOK(z, f)
    BY <1>1, <2>1, <2>2 DEF RunOK, AlwaysOK, Fits, RunStates
  <2>4. Fits(z, "boot") /\ Fits(z, "watch")
    BY <1>1, <2>1 DEF RunOK, Fits, RunStates
  <2> HIDE DEF z
  <2> QED BY <2>2, <2>3, <2>4, PastOK DEF Phases, Active
<1>3. Becoming(r, Past(z, "watch"), found)
  <2> HIDE DEF z
  <2> QED BY <1>2 DEF Becoming, Active
<1>4. PICK o \in Outcomes(x.host) : Then(r, o, IF o # "ok" THEN Raised(x) ELSE Past(z, "watch"))
  BY DEF Boot
<1> HIDE DEF z
<1>5. CASE o = "ok"
  BY <1>1, <1>3, <1>4, <1>5, ThenOK
<1>6. CASE o # "ok"
  BY <1>1, <1>4, <1>6, ThenOK, RaisingOK
<1> QED BY <1>5, <1>6

LEMMA PollOK ==
  ASSUME RunsOK, NEW r \in Runs, Poll(r), NEW found
  PROVE  StepOK(r, found)
<1> DEFINE x == runs[r]
           y == [x EXCEPT !.slot = 0]
           z == [x EXCEPT !.complete = (x.slot + 1 = x.size)]
<1>1. x.at = "watch" /\ x.at \in Active
  BY DEF Poll, Active
<1>2. ASSUME NEW f \in Faults, faults <= f
      PROVE  /\ RunOK(y, f) /\ y.at = "watch" /\ y.driver = x.driver
             /\ RunOK(Past(z, "scan"), f) /\ Past(z, "scan").at \in {"watch", "scan"}
             /\ Past(z, "scan").driver = x.driver
  <2>1. RunOK(x, f) /\ x \in RunStates
    BY <1>2, LaterFaults
  <2>2. y \in RunStates /\ y.driver = x.driver /\ y.at = "watch"
    BY <1>1, <2>1, SlotsFacts DEF RunStates
  <2>3. AlwaysOK(y, f) /\ Fits(y, "watch")
    BY <1>1, <2>1, <2>2 DEF RunOK, AlwaysOK, Fits, RunStates
  <2>4. z \in RunStates /\ z.driver = x.driver /\ z.at = "watch"
    BY <1>1, <2>1 DEF RunStates
  <2>5. AlwaysOK(z, f)
    BY <1>1, <2>1, <2>4 DEF RunOK, AlwaysOK, RunStates
  <2>6. Fits(z, "watch") /\ Fits(z, "scan")
    BY <1>1, <2>1 DEF RunOK, Fits, RunStates
  <2> HIDE DEF y, z
  <2> QED BY <2>2, <2>3, <2>4, <2>5, <2>6, PastOK DEF Phases, Active, RunOK
<1>3. Becoming(r, y, found) /\ Becoming(r, Past(z, "scan"), found)
  <2> HIDE DEF y, z
  <2> QED BY <1>2 DEF Becoming, Active
<1>4. PICK o \in Outcomes(x.host) :
        Then(r, o, IF ~TakenForGone(x, o) THEN y ELSE Past(z, "scan"))
  BY DEF Poll
<1> HIDE DEF y, z
<1>5. CASE TakenForGone(x, o)
  BY <1>1, <1>3, <1>4, <1>5, ThenOK
<1>6. CASE ~TakenForGone(x, o)
  BY <1>1, <1>3, <1>4, <1>6, ThenOK
<1> QED BY <1>5, <1>6

\* From a phase before the verdict to another one.
LEMMA OnwardOK ==
  ASSUME RunsOK, NEW r \in Runs, NEW found, runs[r].at \in Early,
         NEW phase \in (Early \ {"quit", "reset"}) \cup {"collect", "end"}
  PROVE  Becoming(r, To(runs[r], phase), found)
<1> SUFFICES ASSUME NEW f \in Faults, faults <= f
             PROVE  LET y == To(runs[r], phase) IN
                    RunOK(y, f) /\ y.at = phase /\ y.driver = runs[r].driver
                    /\ phase \in Active
  BY DEF Becoming
<1> QED BY LaterFaults, Onward, ToOK

LEMMA TimeOutOK ==
  ASSUME RunsOK, NEW r \in Runs, TimeOut(r), NEW found
  PROVE  StepOK(r, found)
<1>1. runs[r].at \in Early /\ runs[r].at \in Active /\ Then(r, "ok", To(runs[r], "scan"))
  BY DEF TimeOut, Early, Active
<1>2. "scan" \in Early \ {"quit", "reset"}
  BY DEF Early
<1> QED BY <1>1, <1>2, OnwardOK, ThenOK

LEMMA ScannedOK ==
  ASSUME RunsOK, NEW r \in Runs, NEW found, runs[r].at = "scan", NEW hung
  PROVE  Becoming(r, Scanned(runs[r], hung), found)
<1> DEFINE x == runs[r]
<1>1. x.at \in Early /\ "kill" \in Early \ {"quit", "reset"}
  BY DEF Early
<1>2. CASE hung /\ x.attempt < Attempts
  <2> SUFFICES ASSUME NEW f \in Faults, faults <= f
               PROVE  LET y == To(x, "quit") IN
                      RunOK(y, f) /\ y.at = "quit" /\ y.driver = x.driver
    BY <1>2 DEF Becoming, Scanned, Active
  <2>1. AlwaysOK(x, f) /\ Fits(x, "scan")
    BY LaterFaults
  <2>2. Fits(x, "quit")
    BY <1>2, <2>1 DEF Fits
  <2> QED BY <2>1, <2>2, ToOK DEF Phases, Active
<1>3. CASE ~(hung /\ x.attempt < Attempts)
  BY <1>1, <1>3, OnwardOK DEF Scanned
<1> QED BY <1>2, <1>3

LEMMA ScanOK ==
  ASSUME RunsOK, NEW r \in Runs, Scan(r), NEW found
  PROVE  StepOK(r, found)
<1> DEFINE x == runs[r]
           y == [x EXCEPT !.slot = @ + 1]
<1>1. x.at = "scan" /\ x.at \in Active
  BY DEF Scan, Active
<1>2. ASSUME x.slot + 1 < x.size
      PROVE  Becoming(r, y, found)
  <2>1. y = Past(x, "scan")
    BY <1>2 DEF Past
  <2>2. ASSUME NEW f \in Faults, faults <= f
        PROVE  RunOK(y, f) /\ y.at = "scan" /\ y.driver = x.driver
    BY <1>1, <2>1, <2>2, LaterFaults, PastOK DEF Phases
  <2> HIDE DEF y
  <2> QED BY <2>2 DEF Becoming, Active
<1>3. PICK o \in Outcomes(x.host) :
        Then(r, o, IF o = "late" THEN Raised(x)
                   ELSE IF o = "ok" /\ x.log[x.slot] = "dead0" THEN Scanned(x, TRUE)
                   ELSE IF x.slot + 1 < x.size THEN y
                   ELSE Scanned(x, FALSE))
  BY DEF Scan
<1> HIDE DEF y
<1>4. CASE o = "late"
  BY <1>1, <1>3, <1>4, RaisingOK, ThenOK
<1>5. CASE o # "late" /\ o = "ok" /\ x.log[x.slot] = "dead0"
  BY <1>1, <1>3, <1>5, ScannedOK, ThenOK
<1>6. CASE o # "late" /\ ~(o = "ok" /\ x.log[x.slot] = "dead0") /\ x.slot + 1 < x.size
  BY <1>1, <1>2, <1>3, <1>6, ThenOK
<1>7. CASE o # "late" /\ ~(o = "ok" /\ x.log[x.slot] = "dead0") /\ ~(x.slot + 1 < x.size)
  BY <1>1, <1>3, <1>7, ScannedOK, ThenOK
<1> QED BY <1>4, <1>5, <1>6, <1>7

LEMMA QuittedOK ==
  ASSUME NEW f \in Faults, NEW x, RunOK(x, f)
  PROVE  RunOK(Quitted(x), f) /\ Quitted(x).at = x.at /\ Quitted(x).driver = x.driver
         /\ Quitted(x).attempt = x.attempt
<1> DEFINE y == [x EXCEPT !.stale = @ \ {x.slot},
                          !.session[x.slot] = IF @ = "run" THEN "failed" ELSE @]
<1>1. x \in RunStates
  BY DEF RunOK, AlwaysOK
<1>2. y \in RunStates
  BY <1>1 DEF RunStates, Verdicts
<1>3. AlwaysOK(y, f)
  BY <1>1, <1>2 DEF RunOK, AlwaysOK, RunStates
<1>4. Fits(y, y.at) /\ y.at = x.at /\ y.driver = x.driver /\ y.attempt = x.attempt
  BY <1>1 DEF RunOK, Fits, RunStates, MayLeave
<1> QED BY <1>3, <1>4 DEF Quitted, RunOK

\* A step that may quit the session of a slot, then goes on.
LEMMA QuittingOK ==
  ASSUME RunsOK, NEW r \in Runs, NEW found,
         NEW phase, <<runs[r].at, phase>> \in {<<"quit", "reset">>, <<"kill", "collect">>}
  PROVE  /\ Becoming(r, Past(runs[r], phase), found)
         /\ Becoming(r, Past(Quitted(runs[r]), phase), found)
<1>1. SUFFICES ASSUME NEW x, x = runs[r] \/ x = Quitted(runs[r])
               PROVE  Becoming(r, Past(x, phase), found)
  OBVIOUS
<1>2. SUFFICES ASSUME NEW f \in Faults, faults <= f
               PROVE  LET y == Past(x, phase) IN
                      RunOK(y, f) /\ y.at \in {runs[r].at, phase} /\ y.driver = runs[r].driver
  BY DEF Becoming, Active
<1>3. RunOK(x, f) /\ x.at = runs[r].at /\ x.driver = runs[r].driver
  BY <1>1, <1>2, LaterFaults, QuittedOK
<1>4. Fits(x, phase) /\ phase \in Phases
  BY <1>3 DEF RunOK, Fits, Phases, Active
<1> QED BY <1>3, <1>4, PastOK DEF RunOK

LEMMA QuitOK ==
  ASSUME RunsOK, NEW r \in Runs, Quit(r), NEW found
  PROVE  StepOK(r, found)
<1> DEFINE x == runs[r]
<1>1. x.at = "quit" /\ x.at \in Active
  BY DEF Quit, Active
<1>2. PICK o \in Outcomes(x.host) :
        Then(r, o, IF o = "late" THEN Raised(x)
                   ELSE Past(IF o = "ok" THEN Quitted(x) ELSE x, "reset"))
  BY DEF Quit
<1>3. CASE o = "late"
  BY <1>1, <1>2, <1>3, RaisingOK, ThenOK
<1>4. Becoming(r, Past(x, "reset"), found) /\ Becoming(r, Past(Quitted(x), "reset"), found)
  BY <1>1, QuittingOK
<1>5. CASE o = "ok"
  BY <1>1, <1>2, <1>4, <1>5, ThenOK
<1>6. CASE o \notin {"ok", "late"}
  BY <1>1, <1>2, <1>4, <1>6, ThenOK
<1> QED BY <1>3, <1>5, <1>6

LEMMA KillOK ==
  ASSUME RunsOK, NEW r \in Runs, Kill(r), NEW found
  PROVE  StepOK(r, found)
<1> DEFINE x == runs[r]
<1>1. x.at = "kill" /\ x.at \in Active
  BY DEF Kill, Active
<1>2. PICK o \in Outcomes(x.host) :
        Then(r, o, Past(IF o = "ok" THEN Quitted(x) ELSE x, "collect"))
  BY DEF Kill
<1>3. Becoming(r, Past(x, "collect"), found) /\ Becoming(r, Past(Quitted(x), "collect"), found)
  BY <1>1, QuittingOK
<1> QED BY <1>1, <1>2, <1>3, ThenOK

LEMMA ReflashedOK ==
  ASSUME NEW f \in Faults, NEW x, RunOK(x, f), x.at = "reset"
  PROVE  /\ RunOK(Reflashed(x), f)
         /\ RunOK([Reflashed(x) EXCEPT !.log = [s \in Slots |-> "none"]], f)
         /\ Reflashed(x).at = "boot" /\ Reflashed(x).driver = x.driver
         /\ [Reflashed(x) EXCEPT !.log = [s \in Slots |-> "none"]].at = "boot"
         /\ [Reflashed(x) EXCEPT !.log = [s \in Slots |-> "none"]].driver = x.driver
<1> DEFINE z == To(x, "boot")
           y == Reflashed(x)
           w == [y EXCEPT !.log = [s \in Slots |-> "none"]]
<1>1. x \in RunStates /\ x.attempt < Attempts /\ x.result = "none"
      /\ (~x.shared => \A s \in Slots : x.mine[s] # "passed")
  BY DEF RunOK, AlwaysOK, Fits
<1>2. RunOK(z, f) /\ z.at = "boot" /\ z.driver = x.driver
  BY Onward, ToOK DEF Early, RunOK
<1>3. z.attempt = x.attempt /\ z.session = x.session /\ z.log = x.log /\ z.mine = x.mine
      /\ z.result = x.result /\ z.shared = x.shared
  BY <1>1 DEF To, RunStates
<1>4. y = [z EXCEPT !.attempt = @ + 1,
                    !.stale = @ \cup {s \in Slots : x.session[s] = "run"},
                    !.session = [s \in Slots |-> IF @[s] = "run" THEN "failed" ELSE @[s]]]
  BY DEF Reflashed
<1> HIDE DEF z, y
<1>5. z \in RunStates
  BY <1>2 DEF RunOK, AlwaysOK
<1>6. x.attempt + 1 \in 1 .. Attempts
  BY <1>1, FpgaRunAssumption DEF RunStates
<1>7. y \in RunStates
  BY <1>3, <1>4, <1>5, <1>6 DEF RunStates, Verdicts
<1>8. AlwaysOK(y, f)
  BY <1>2, <1>3, <1>4, <1>5, <1>7 DEF RunOK, AlwaysOK, RunStates
<1>9. Fits(y, "boot") /\ y.at = "boot" /\ y.driver = x.driver /\ y.mine = x.mine
      /\ y.result = "none" /\ y.shared = x.shared
  BY <1>1, <1>2, <1>3, <1>4, <1>5 DEF RunOK, Fits, RunStates
<1>10. w \in RunStates /\ w.at = "boot" /\ w.driver = x.driver
  BY <1>7, <1>9 DEF RunStates
<1>11. AlwaysOK(w, f)
  BY <1>1, <1>7, <1>8, <1>9, <1>10 DEF AlwaysOK, RunStates
<1>12. Fits(w, "boot")
  BY <1>7, <1>9 DEF Fits, RunStates
<1> QED BY <1>8, <1>9, <1>10, <1>11, <1>12 DEF RunOK, y

LEMMA ResetOK ==
  ASSUME RunsOK, NEW r \in Runs, Reset(r), NEW found
  PROVE  StepOK(r, found)
<1> DEFINE x == runs[r]
           w == [Reflashed(x) EXCEPT !.log = [s \in Slots |-> "none"]]
<1>1. x.at = "reset" /\ x.at \in Active
  BY DEF Reset, Active
<1>2. Becoming(r, Reflashed(x), found) /\ Becoming(r, w, found)
  <2>1. ASSUME NEW f \in Faults, faults <= f
        PROVE  /\ RunOK(Reflashed(x), f) /\ RunOK(w, f)
               /\ Reflashed(x).at = "boot" /\ Reflashed(x).driver = x.driver
               /\ w.at = "boot" /\ w.driver = x.driver
    BY <1>1, <2>1, LaterFaults, ReflashedOK
  <2> HIDE DEF w
  <2> QED BY <2>1 DEF Becoming, Active
<1>3. PICK o \in Outcomes(x.host) :
        \/ o = "ok" /\ Then(r, o, w)
        \/ o = "lost" /\ x.host = "up" /\ Then(r, o, Reflashed(x))
        \/ o # "ok" /\ Then(r, o, Raised(x))
  BY DEF Reset
<1> HIDE DEF w
<1> QED BY <1>1, <1>2, <1>3, RaisingOK, ThenOK

\* What Collect makes of a run for one slot: the local log is as it was or that of
\* the instance.
Fetched(x) == [x EXCEPT !.mine[x.slot] = x.log[x.slot]]

LEMMA FetchedOK ==
  ASSUME NEW f \in Faults, NEW x, RunOK(x, f), x.at = "collect", NEW y \in {x, Fetched(x)}
  PROVE  /\ RunOK(y, f) /\ y.at = "collect" /\ y.driver = x.driver
<1>1. x \in RunStates
  BY DEF RunOK, AlwaysOK
<1>2. y \in RunStates /\ y.at = "collect" /\ y.driver = x.driver
  BY <1>1 DEF RunStates, Fetched
<1>3. AlwaysOK(y, f)
  BY <1>1, <1>2 DEF RunOK, AlwaysOK, Fits, RunStates, Fetched
<1>4. Fits(y, "collect")
  BY <1>1 DEF RunOK, Fits, RunStates, Fetched
<1> QED BY <1>2, <1>3, <1>4 DEF RunOK

LEMMA JudgedOK ==
  ASSUME NEW f \in Faults, NEW y, RunOK(y, f), y.at = "collect"
  PROVE  /\ RunOK(Judged(y), f) /\ Judged(y).at \in {"collect", "end"}
         /\ Judged(y).driver = y.driver
<1>1. y \in RunStates /\ AlwaysOK(y, f) /\ Fits(y, "collect") /\ Fits(y, "end")
  BY DEF RunOK, AlwaysOK, Fits
<1>2. PICK z : z = Past(y, "end")
  OBVIOUS
<1>3. z.mine = y.mine /\ z.size = y.size
  BY <1>1, <1>2 DEF Past, To, RunStates
<1>4. RunOK(z, f) /\ z.at \in {"collect", "end"} /\ z.driver = y.driver
  <2>1. "end" \in Phases
    BY DEF Phases, Active
  <2> QED BY <1>1, <1>2, <2>1, PastOK
<1>5. PICK all \in BOOLEAN :
        all <=> (\A s \in 0 .. y.size - 1 : y.mine[s] = "passed") /\ y.complete
  OBVIOUS
<1> DEFINE w == [z EXCEPT !.result = IF all THEN "success" ELSE "failure"]
<1>6. Judged(y) = IF z.at = "collect" THEN z ELSE w
  BY <1>2, <1>5 DEF Judged
<1>7. z \in RunStates
  BY <1>4 DEF RunOK, AlwaysOK
<1>8. w \in RunStates /\ w.at = z.at /\ w.driver = z.driver
  BY <1>7 DEF RunStates
<1>9. AlwaysOK(w, f)
  BY <1>3, <1>4, <1>5, <1>7, <1>8 DEF RunOK, AlwaysOK, RunStates
<1>10. z.at = "end" => Fits(w, "end")
  BY <1>7 DEF Fits, RunStates
<1> HIDE DEF w
<1> QED BY <1>4, <1>6, <1>8, <1>9, <1>10 DEF RunOK

LEMMA CollectOK ==
  ASSUME RunsOK, NEW r \in Runs, Collect(r), NEW found
  PROVE  StepOK(r, found)
<1> DEFINE x == runs[r]
<1>1. x.at = "collect" /\ x.at \in Active
  BY DEF Collect, Active
<1>2. PICK o \in Outcomes(x.host), y \in {x, Fetched(x)} :
        Then(r, o, Judged(y)) \/ Then(r, o, Raised(y))
  BY DEF Collect, Fetched
<1>3. ASSUME NEW f \in Faults, faults <= f
      PROVE  /\ RunOK(Judged(y), f) /\ Judged(y).at \in {"collect", "end"}
             /\ Judged(y).driver = x.driver
             /\ RunOK(Raised(y), f) /\ Raised(y).at = "end" /\ Raised(y).driver = x.driver
  <2>1. RunOK(x, f)
    BY <1>3, LaterFaults
  <2> HIDE DEF x
  <2>2. RunOK(y, f) /\ y.at = "collect" /\ y.driver = x.driver
    BY <1>1, <2>1, FetchedOK
  <2>3. Judged(y).at \in {"collect", "end"} /\ Judged(y).driver = y.driver
        /\ RunOK(Judged(y), f)
    BY <2>2, JudgedOK
  <2>4. RunOK(Raised(y), f) /\ Raised(y).at = "end" /\ Raised(y).driver = y.driver
    BY <2>2, RaisedOK DEF RunOK
  <2> QED BY <2>2, <2>3, <2>4
<1>4. Becoming(r, Judged(y), found) /\ Becoming(r, Raised(y), found)
  BY <1>3 DEF Becoming, Active
<1> QED BY <1>1, <1>2, <1>4, ThenOK

LEMMA EndedOK ==
  ASSUME NEW f \in Faults, NEW x, RunOK(x, f), x.at = "end"
  PROVE  /\ (x.host = "none" \/ (x.failed /\ x.keep)) => RunOK(To(x, "over"), f)
         /\ x.host # "none" => RunOK([To(x, "wait") EXCEPT !.host = Terminating(@)], f)
         /\ RunOK([To(x, "over") EXCEPT !.result = "raised"], f)
         /\ To(x, "over").at = "over" /\ To(x, "over").driver = x.driver
         /\ [To(x, "over") EXCEPT !.result = "raised"].at = "over"
         /\ [To(x, "over") EXCEPT !.result = "raised"].driver = x.driver
         /\ [To(x, "wait") EXCEPT !.host = Terminating(@)].at = "wait"
         /\ [To(x, "wait") EXCEPT !.host = Terminating(@)].driver = x.driver
<1> DEFINE u == [To(x, "over") EXCEPT !.result = "raised"]
           w == [To(x, "wait") EXCEPT !.host = Terminating(@)]
           z(phase) == To(x, phase)
<1>1. x \in RunStates /\ AlwaysOK(x, f)
  BY DEF RunOK, AlwaysOK
<1>2. ASSUME NEW phase \in {"over", "wait"}
      PROVE  /\ z(phase) \in RunStates /\ AlwaysOK(z(phase), f)
             /\ z(phase).at = phase /\ z(phase).driver = x.driver
             /\ z(phase).host = x.host /\ z(phase).failed = x.failed /\ z(phase).keep = x.keep
  <2>1. z(phase) \in RunStates
    BY <1>1, SlotsFacts DEF To, RunStates, Active
  <2>2. AlwaysOK(z(phase), f)
    BY <1>1, <2>1 DEF AlwaysOK, To, RunStates
  <2> QED BY <1>1, <2>1, <2>2 DEF To, RunStates
<1> HIDE DEF z
<1>3. z("over") \in RunStates /\ z("wait") \in RunStates
  BY <1>2
<1>4. [z("over") EXCEPT !.result = "raised"] \in RunStates
      /\ [z("wait") EXCEPT !.host = Terminating(@)] \in RunStates
  BY <1>3 DEF RunStates, Terminating, Hosts
<1>5. AlwaysOK([z("over") EXCEPT !.result = "raised"], f)
      /\ AlwaysOK([z("wait") EXCEPT !.host = Terminating(@)], f)
  BY <1>2, <1>4 DEF AlwaysOK, RunStates
<1>6. Fits([z("over") EXCEPT !.result = "raised"], "over")
  BY <1>2 DEF Fits, RunStates, MayLeave
<1>7. x.host # "none" => Fits([z("wait") EXCEPT !.host = Terminating(@)], "wait")
  <2>1. z("wait").host \in Hosts /\ z("wait").host = x.host /\ z("wait") \in RunStates
    BY <1>2 DEF RunStates
  <2>2. [z("wait") EXCEPT !.host = Terminating(@)].host = Terminating(x.host)
    BY <2>1 DEF RunStates
  <2>3. x.host # "none" => Terminating(x.host) \in {"ending", "gone"}
    BY <2>1 DEF Terminating, Hosts
  <2> QED BY <2>2, <2>3 DEF Fits
<1>8. (x.host = "none" \/ (x.failed /\ x.keep)) => Fits(z("over"), "over")
  BY <1>2 DEF Fits, MayLeave
<1>9. [z("over") EXCEPT !.result = "raised"].at = "over"
      /\ [z("over") EXCEPT !.result = "raised"].driver = x.driver
      /\ [z("wait") EXCEPT !.host = Terminating(@)].at = "wait"
      /\ [z("wait") EXCEPT !.host = Terminating(@)].driver = x.driver
  BY <1>2 DEF RunStates
<1>10. /\ (x.host = "none" \/ (x.failed /\ x.keep)) => RunOK(z("over"), f)
       /\ x.host # "none" => RunOK([z("wait") EXCEPT !.host = Terminating(@)], f)
       /\ RunOK([z("over") EXCEPT !.result = "raised"], f)
       /\ z("over").at = "over" /\ z("over").driver = x.driver
  BY <1>2, <1>5, <1>6, <1>7, <1>8, <1>9 DEF RunOK
<1> QED BY <1>9, <1>10 DEF z

LEMMA EndOK ==
  ASSUME RunsOK, NEW r \in Runs, End(r), NEW found
  PROVE  StepOK(r, found)
<1> DEFINE x == runs[r]
           left == x.host = "none" \/ (x.failed /\ x.keep)
           u == [To(x, "over") EXCEPT !.result = "raised"]
           w == [To(x, "wait") EXCEPT !.host = Terminating(@)]
           v == To(x, "over")
<1>1. x.at = "end" /\ x.at \in Active
  BY DEF End, Active
<1>2. /\ left => Becoming(r, v, found)
      /\ ~left => Becoming(r, w, found)
      /\ Becoming(r, u, found)
  <2>1. ASSUME NEW f \in Faults, faults <= f
        PROVE  /\ left => RunOK(v, f)
               /\ ~left => RunOK(w, f)
               /\ RunOK(u, f) /\ v.at = "over" /\ w.at = "wait" /\ u.at = "over"
               /\ v.driver = x.driver /\ w.driver = x.driver /\ u.driver = x.driver
    BY <1>1, <2>1, LaterFaults, EndedOK
  <2> HIDE DEF u, v, w, left
  <2> QED BY <2>1 DEF Becoming, Active
<1>3. \/ left /\ Then(r, "ok", v)
      \/ ~left /\ Then(r, "ok", w)
      \/ ~left /\ Denied(r, u)
  BY DEF End
<1> HIDE DEF u, v, w, left
<1> QED BY <1>1, <1>2, <1>3, ThenOK, DeniedOK

LEMMA WaitedOK ==
  ASSUME RunsOK, NEW r \in Runs, Waited(r), NEW found
  PROVE  StepOK(r, found)
<1> DEFINE x == runs[r]
           z == To(x, "over")
           y == [z EXCEPT !.gaveUp = (x.host = "ending")]
<1>1. x.at = "wait" /\ x.at \in Active /\ Then(r, "ok", y)
  BY DEF Waited, Active
<1>2. ASSUME NEW f \in Faults, faults <= f
      PROVE  RunOK(y, f) /\ y.at = "over" /\ y.driver = x.driver
  <2>1. x \in RunStates /\ AlwaysOK(x, f) /\ Fits(x, "wait")
    BY <1>1, <1>2, LaterFaults
  <2>2. z \in RunStates
    BY <2>1, SlotsFacts DEF To, RunStates
  <2>3. AlwaysOK(z, f) /\ z.at = "over" /\ z.driver = x.driver /\ z.host = x.host
    BY <2>1, <2>2 DEF AlwaysOK, To, RunStates
  <2> HIDE DEF z
  <2>4. y \in RunStates /\ y.at = "over" /\ y.driver = x.driver /\ y.host = x.host
        /\ y.gaveUp = (x.host = "ending")
    BY <2>2, <2>3 DEF RunStates
  <2>5. AlwaysOK(y, f)
    BY <2>2, <2>3, <2>4 DEF AlwaysOK, RunStates
  <2>6. Fits(y, "over")
    BY <2>1, <2>4 DEF Fits, MayLeave
  <2> HIDE DEF y
  <2> QED BY <2>4, <2>5, <2>6 DEF RunOK
<1>3. Becoming(r, y, found)
  <2> HIDE DEF y
  <2> QED BY <1>2 DEF Becoming, Active
<1> HIDE DEF y
<1> QED BY <1>1, <1>3, ThenOK

LEMMA RunStepOK ==
  ASSUME RunsOK, NEW r \in Runs, NEW found \in Nat, RunStep(r, found)
  PROVE  StepOK(r, found)
BY LaunchInstanceOK, ConnectOK, SetUpOK, BootOK, PollOK, TimeOutOK, ScanOK, QuitOK,
   ResetOK, KillOK, CollectOK, EndOK, WaitedOK DEF RunStep

-----------------------------------------------------------------------------

\* What happens to a run.

SufferOK(r) ==
  /\ faults' \in Faults /\ faults <= faults'
  /\ runs' = [runs EXCEPT ![r] = runs'[r]]
  /\ RunOK(runs'[r], faults')
  /\ runs'[r].at = runs[r].at \/ {runs[r].at, runs'[r].at} \subseteq Active
  /\ runs'[r].driver \in {runs[r].driver, 0}

LEMMA ExpireOK ==
  ASSUME RunsOK, NEW r \in Runs, Expire(r)
  PROVE  SufferOK(r)
<1> DEFINE x == runs[r]
           y == [x EXCEPT !.expired = TRUE]
<1>1. runs' = [runs EXCEPT ![r] = y] /\ faults' = faults
  BY DEF Expire, RunsOK
<1>2. RunOK(x, faults) /\ x \in RunStates /\ faults \in Faults /\ faults <= faults
  BY MaxFaultsAssumption DEF RunsOK, Faults
<1>3. y \in RunStates /\ y.at = x.at /\ y.driver = x.driver
  BY <1>2 DEF RunStates
<1>4. AlwaysOK(y, faults)
  BY <1>2, <1>3 DEF RunOK, AlwaysOK, RunStates
<1>5. Fits(y, y.at)
  BY <1>2, <1>3 DEF RunOK, Fits, RunStates, MayLeave
<1> HIDE DEF y
<1>6. runs'[r] = y
  BY <1>1 DEF RunsOK
<1> QED BY <1>1, <1>2, <1>3, <1>4, <1>5, <1>6 DEF SufferOK, RunOK

LEMMA SimEndsOK ==
  ASSUME RunsOK, NEW r \in Runs, NEW s \in Slots, SimEnds(r, s)
  PROVE  SufferOK(r)
<1> DEFINE x == runs[r]
<1>1. PICK v \in Verdicts : runs' = [runs EXCEPT ![r].session[s] = v, ![r].log[s] = v]
  BY DEF SimEnds
<1> DEFINE y == [x EXCEPT !.session[s] = v, !.log[s] = v]
<1>2. RunOK(x, faults) /\ x \in RunStates /\ faults \in Faults /\ faults <= faults
  BY MaxFaultsAssumption DEF RunsOK, Faults
<1>3. runs' = [runs EXCEPT ![r] = y] /\ faults' = faults /\ x.session[s] = "run"
  <2>1. faults' = faults /\ x.session[s] = "run"
    BY DEF SimEnds
  <2> DEFINE u == [x EXCEPT !.session[s] = v]
             g == [runs EXCEPT ![r] = u]
  <2>2. runs' = [g EXCEPT ![r].log[s] = v]
    BY <1>1 DEF RunsOK
  <2>3. u \in RunStates /\ y = [u EXCEPT !.log[s] = v]
    BY <1>2 DEF RunStates
  <2> HIDE DEF u, y
  <2>4. g \in [Runs -> RunStates] /\ g[r] = u
    BY <2>3 DEF RunsOK
  <2>5. runs' = [g EXCEPT ![r] = y]
    BY <2>2, <2>3, <2>4
  <2> QED BY <2>1, <2>5 DEF RunsOK
<1>4. y \in RunStates /\ y.at = x.at /\ y.driver = x.driver
  BY <1>2 DEF RunStates
<1>5. AlwaysOK(y, faults)
  BY <1>2, <1>3, <1>4 DEF RunOK, AlwaysOK, RunStates, Verdicts
<1>6. Fits(y, y.at)
  BY <1>2, <1>4 DEF RunOK, Fits, RunStates, MayLeave
<1> HIDE DEF y
<1>7. runs'[r] = y
  BY <1>3 DEF RunsOK
<1> QED BY <1>2, <1>3, <1>4, <1>5, <1>6, <1>7 DEF SufferOK, RunOK

LEMMA GoneOK ==
  ASSUME NEW f \in Faults, NEW x, RunOK(x, f), x.at # "queued"
  PROVE  LET y == [x EXCEPT !.host = "gone"] IN
         RunOK(y, f) /\ y.at = x.at /\ y.driver = x.driver
<1> DEFINE y == [x EXCEPT !.host = "gone"]
<1>1. x \in RunStates
  BY DEF RunOK, AlwaysOK
<1>2. y \in RunStates /\ y.at = x.at /\ y.driver = x.driver
  BY <1>1 DEF RunStates, Hosts
<1>3. AlwaysOK(y, f)
  BY <1>1, <1>2 DEF RunOK, AlwaysOK, RunStates
<1>4. Fits(y, y.at)
  BY <1>1 DEF RunOK, Fits, RunStates
<1> QED BY <1>2, <1>3, <1>4 DEF RunOK

LEMMA InstanceEndsOK ==
  ASSUME RunsOK, NEW r \in Runs, InstanceEnds(r)
  PROVE  SufferOK(r)
<1> DEFINE x == runs[r]
           y == [x EXCEPT !.host = "gone"]
<1>1. runs' = [runs EXCEPT ![r] = y] /\ faults' = faults /\ x.host = "ending"
  BY DEF InstanceEnds, RunsOK
<1>2. RunOK(x, faults) /\ x \in RunStates /\ faults \in Faults /\ faults <= faults
  BY MaxFaultsAssumption DEF RunsOK, Faults
<1>3. x.at # "queued"
  BY <1>1, <1>2 DEF RunOK, Fits
<1>4. RunOK(y, faults) /\ y.at = x.at /\ y.driver = x.driver
  BY <1>2, <1>3, GoneOK
<1> HIDE DEF y
<1>5. runs'[r] = y
  BY <1>1 DEF RunsOK
<1> QED BY <1>1, <1>2, <1>4, <1>5 DEF SufferOK

LEMMA LoseInstanceOK ==
  ASSUME RunsOK, NEW r \in Runs, LoseInstance(r)
  PROVE  SufferOK(r)
<1> DEFINE x == runs[r]
           y == [x EXCEPT !.host = "gone"]
<1>1. runs' = [runs EXCEPT ![r] = y] /\ x.at # "queued"
      /\ faults' \in Faults /\ faults <= faults'
  BY MaxFaultsAssumption DEF LoseInstance, Denied, Failure, RunsOK, Faults, Active
<1>2. RunOK(x, faults')
  BY <1>1, MoreFaults DEF RunsOK
<1>3. RunOK(y, faults') /\ y.at = x.at /\ y.driver = x.driver
  BY <1>1, <1>2, GoneOK
<1> HIDE DEF y
<1>4. runs'[r] = y
  BY <1>1 DEF RunsOK
<1> QED BY <1>1, <1>3, <1>4 DEF SufferOK

LEMMA QueuedOK ==
  ASSUME NEW f \in Faults, NEW size \in 1 .. MaxSims, NEW keep \in BOOLEAN,
         NEW shared \in BOOLEAN
  PROVE  RunOK(Queued(size, keep, shared), f) /\ Queued(size, keep, shared).driver = 0
         /\ Queued(size, keep, shared).at = "queued"
<1> DEFINE x == Queued(size, keep, shared)
<1>1. x \in RunStates
  BY FpgaRunAssumption, MaxFaultsAssumption, SlotsFacts
     DEF Queued, RunStates, Hosts, Verdicts
<1>2. AlwaysOK(x, f) /\ Fits(x, "queued")
  BY <1>1, MaxFaultsAssumption DEF AlwaysOK, Fits, Queued, Faults
<1> QED BY <1>2 DEF RunOK, Queued

LEMMA RunnerDiesOK ==
  ASSUME RunsOK, NEW r \in Runs, RunnerDies(r)
  PROVE  SufferOK(r)
<1> DEFINE x == runs[r]
           new == Queued(x.size, x.keep, x.shared)
           y == [new EXCEPT !.at = "launch", !.mine = IF x.shared THEN x.mine ELSE @,
                            !.strays = IF x.host = "up" THEN x.strays + 1
                                       ELSE x.strays]
<1>1. runs' = [runs EXCEPT ![r] = y] /\ x.at \in Active
      /\ faults' \in Faults /\ faults + 1 = faults'
  BY MaxFaultsAssumption DEF RunnerDies, Denied, Failure, RunsOK, Faults
<1>2. AlwaysOK(x, faults) /\ x \in RunStates /\ faults \in Faults /\ faults <= faults'
  BY <1>1, MaxFaultsAssumption DEF RunsOK, RunOK, Faults
<1>3. x.size \in 1 .. MaxSims /\ x.keep \in BOOLEAN /\ x.shared \in BOOLEAN
      /\ x.strays \in 0 .. MaxFaults /\ x.strays <= faults
  BY <1>2 DEF RunStates, AlwaysOK
<1>4. RunOK(new, faults') /\ new.driver = 0 /\ new.at = "queued"
  BY <1>1, <1>3, QueuedOK
<1>5. /\ new \in RunStates /\ new.shared = x.shared /\ new.result = "none"
      /\ new.host = "none"
      /\ \A s \in Slots : new.mine[s] = "passed" => x.shared
      /\ \A s \in Slots : new.log[s] = "none"
  BY <1>4 DEF RunOK, AlwaysOK, Queued
<1> HIDE DEF new
<1>6. PICK k \in 0 .. MaxFaults :
        k = (IF x.host = "up" THEN x.strays + 1 ELSE x.strays) /\ k <= faults'
  <2>1. x.strays + 1 \in 0 .. MaxFaults /\ x.strays + 1 <= faults'
    BY <1>1, <1>2, <1>3, MaxFaultsAssumption DEF Faults
  <2> QED BY <1>1, <1>2, <1>3, <2>1, MaxFaultsAssumption DEF Faults
<1>7. PICK m \in [Slots -> Verdicts \cup {"none", "open"}] :
        m = IF x.shared THEN x.mine ELSE new.mine
  BY <1>2, <1>5 DEF RunStates
<1>8. y = [new EXCEPT !.at = "launch", !.mine = m, !.strays = k]
  BY <1>5, <1>6, <1>7
<1> HIDE DEF y
<1>9. y \in RunStates /\ y.at = "launch" /\ y.driver = 0
  BY <1>4, <1>5, <1>8 DEF RunStates, Active
<1>10. AlwaysOK(y, faults')
  BY <1>4, <1>5, <1>6, <1>7, <1>8, <1>9 DEF RunOK, AlwaysOK, RunStates
<1>11. Fits(y, "launch")
  BY <1>4, <1>5, <1>7, <1>8 DEF RunOK, Fits, RunStates
<1>12. runs'[r] = y
  BY <1>1 DEF RunsOK
<1> QED BY <1>1, <1>2, <1>9, <1>10, <1>11, <1>12 DEF SufferOK, RunOK, Active

LEMMA RunEnvironmentOK ==
  ASSUME RunsOK, NEW r \in Runs, RunEnvironment(r)
  PROVE  SufferOK(r)
BY ExpireOK, SimEndsOK, InstanceEndsOK, LoseInstanceOK, RunnerDiesOK DEF RunEnvironment

-----------------------------------------------------------------------------

\* Builds.

BuildOK(x) ==
  /\ x \in BuildStates
  /\ x.left => x.loose
  /\ x.at \in Long /\ x.part \in {"poll", "read"} /\ x.rc = "ok" /\ ~x.loose =>
       x.script = "ok"

BuildsOK == builds \in [Builds -> BuildStates] /\ faults \in Faults
            /\ \A b \in Builds : BuildOK(builds[b])

\* What StepsAreOwn asks of a step from x to y.
Own(x, y) ==
  x.at \in Long /\ x.part = "read" /\ y.at = After[x.at] => x.script = "ok" \/ x.loose

Publishing == {"info", "latest"}

\* A build goes from x to y without a write to the bucket.
Moves(x, y) ==
  /\ BuildOK(y) /\ y.id = x.id /\ Own(x, y)
  /\ y.at \in Publishing => x.at = y.at

BuildMoves(b) ==
  /\ faults' \in Faults /\ faults <= faults'
  /\ builds' = [builds EXCEPT ![b] = builds'[b]]
  /\ Moves(builds[b], builds'[b])
  /\ bucket' = bucket

LEMMA AfterFacts ==
  /\ \A a \in Long : After[a] \in {"rtl", "driver", "clone", "vivado", "mint"} /\ After[a] # a
  /\ After["clone"] = "vivado"
BY DEF After, Long

LEMMA BecomesOK ==
  ASSUME BuildsOK, NEW b \in Builds, NEW o, o = "ok" \/ o \in Outcomes(builds[b].host),
         NEW y, Becomes(b, o, y), Moves(builds[b], y), UNCHANGED bucket
  PROVE  BuildMoves(b)
<1>1. builds[b] \in BuildStates /\ builds[b].host \in Hosts
  BY DEF BuildsOK, BuildStates
<1>2. faults' \in Faults /\ faults <= faults'
  BY <1>1, CountedOK DEF Becomes, BuildsOK
<1>3. builds' = [builds EXCEPT ![b] = y] /\ builds'[b] = y
  BY DEF Becomes, BuildsOK
<1> QED BY <1>2, <1>3 DEF BuildMoves

LEMMA FailingOK ==
  ASSUME NEW x, BuildOK(x)
  PROVE  Moves(x, Failing(x)) /\ Failing(x).at = "exit" /\ Failing(x) \in BuildStates
         /\ BuildOK(Failing(x)) /\ Failing(x).id = x.id
<1>1. x \in BuildStates
  BY DEF BuildOK
<1>2. Failing(x) \in BuildStates /\ Failing(x).at = "exit" /\ Failing(x).id = x.id
      /\ Failing(x).left = x.left /\ Failing(x).loose = x.loose
  BY <1>1 DEF Failing, BuildStates
<1>3. BuildOK(Failing(x))
  BY <1>2 DEF BuildOK, Long
<1> QED BY <1>2, <1>3, AfterFacts DEF Moves, Own, Publishing

\* A step to another phase.
LEMMA ToPhase ==
  ASSUME NEW x, BuildOK(x), NEW phase \in Long \cup {"mint"},
         x.at \in Long /\ x.part = "read" /\ phase = After[x.at] => x.script = "ok" \/ x.loose
  PROVE  /\ Moves(x, Step(x, phase)) /\ BuildOK(Step(x, phase))
         /\ Step(x, phase) \in BuildStates
         /\ Step(x, phase).at = phase /\ Step(x, phase).part = "start"
         /\ Step(x, phase).id = x.id /\ Step(x, phase).tries = x.tries
         /\ Step(x, phase).left = x.left /\ Step(x, phase).loose = x.loose
<1> DEFINE y == Step(x, phase)
<1>1. x \in BuildStates
  BY DEF BuildOK
<1>2. y \in BuildStates /\ y.at = phase /\ y.id = x.id /\ y.part = "start"
      /\ y.left = x.left /\ y.loose = x.loose /\ y.tries = x.tries
  BY <1>1 DEF Step, BuildStates
<1>3. BuildOK(y)
  BY <1>2 DEF BuildOK
<1>4. phase \notin Publishing
  BY DEF Publishing, Long
<1> QED BY <1>2, <1>3, <1>4 DEF Moves, Own

LEMMA LaunchBuilderOK ==
  ASSUME BuildsOK, NEW b \in Builds, LaunchBuilder(b)
  PROVE  BuildMoves(b)
<1> DEFINE x == builds[b]
           y == [x EXCEPT !.at = "connect", !.host = "up"]
<1>1. BuildOK(x) /\ x \in BuildStates /\ x.at = "launch" /\ UNCHANGED bucket
  BY DEF BuildsOK, LaunchBuilder
<1>2. Moves(x, y)
  <2>1. y \in BuildStates /\ y.at = "connect" /\ y.id = x.id /\ y.left = x.left
        /\ y.loose = x.loose
    BY <1>1 DEF BuildStates, Hosts
  <2> QED BY <1>1, <2>1 DEF Moves, BuildOK, Own, Publishing, Long
<1>3. \/ Becomes(b, "ok", y)
      \/ Failure /\ builds' = [builds EXCEPT ![b] = Failing(x)]
      \/ Failure /\ UNCHANGED builds
  BY DEF LaunchBuilder
<1> HIDE DEF y
<1>4. CASE Becomes(b, "ok", y)
  BY <1>1, <1>2, <1>4, BecomesOK
<1>5. CASE Failure /\ builds' = [builds EXCEPT ![b] = Failing(x)]
  <2>1. faults' \in Faults /\ faults <= faults'
    BY <1>5, MaxFaultsAssumption DEF Failure, BuildsOK, Faults
  <2>2. builds'[b] = Failing(x)
    BY <1>5 DEF BuildsOK
  <2> QED BY <1>1, <1>5, <2>1, <2>2, FailingOK DEF BuildMoves
<1>6. CASE Failure /\ UNCHANGED builds
  <2>1. faults' \in Faults /\ faults <= faults'
    BY <1>6, MaxFaultsAssumption DEF Failure, BuildsOK, Faults
  <2>2. Moves(x, x)
    BY <1>1, AfterFacts DEF Moves, Own, Long
  <2> QED BY <1>1, <1>6, <2>1, <2>2 DEF BuildMoves, BuildsOK
<1> QED BY <1>3, <1>4, <1>5, <1>6

LEMMA ReachBuilderOK ==
  ASSUME BuildsOK, NEW b \in Builds, ReachBuilder(b)
  PROVE  BuildMoves(b)
<1> DEFINE x == builds[b]
<1>1. BuildOK(x) /\ x.at = "connect" /\ UNCHANGED bucket
  BY DEF BuildsOK, ReachBuilder
<1>2. PICK o \in Outcomes(x.host) : Becomes(b, o, IF o = "ok" THEN Step(x, "pull") ELSE Failing(x))
  BY DEF ReachBuilder
<1>3. Moves(x, Step(x, "pull")) /\ Moves(x, Failing(x))
  <2>1. "pull" \in Long \cup {"mint"} /\ x.at \notin Long
    BY <1>1 DEF Long
  <2> QED BY <1>1, <2>1, ToPhase, FailingOK
<1>4. CASE o = "ok"
  BY <1>1, <1>2, <1>3, <1>4, BecomesOK
<1>5. CASE o # "ok"
  BY <1>1, <1>2, <1>3, <1>5, BecomesOK
<1> QED BY <1>4, <1>5

LEMMA StartLongOK ==
  ASSUME BuildsOK, NEW b \in Builds, StartLong(b)
  PROVE  BuildMoves(b)
<1> DEFINE x == builds[b]
           y == [x EXCEPT !.part = "poll", !.script = "run", !.rc = "none",
                          !.deaf = FALSE, !.expired = FALSE]
<1>1. BuildOK(x) /\ x \in BuildStates /\ x.at \in Long /\ x.part = "start" /\ UNCHANGED bucket
  BY DEF BuildsOK, StartLong
<1>2. PICK o \in Outcomes(x.host) : Becomes(b, o, IF o # "ok" THEN Failing(x) ELSE y)
  BY DEF StartLong
<1>3. Moves(x, y)
  <2>1. y \in BuildStates /\ y.at = x.at /\ y.id = x.id /\ y.left = x.left
        /\ y.loose = x.loose /\ y.rc = "none"
    BY <1>1 DEF BuildStates
  <2> QED BY <1>1, <2>1 DEF Moves, BuildOK, Own
<1> HIDE DEF y
<1>4. CASE o = "ok"
  BY <1>1, <1>2, <1>3, <1>4, BecomesOK
<1>5. CASE o # "ok"
  BY <1>1, <1>2, <1>5, FailingOK, BecomesOK
<1> QED BY <1>4, <1>5

LEMMA SkipCloneOK ==
  ASSUME BuildsOK, NEW b \in Builds, SkipClone(b)
  PROVE  BuildMoves(b)
<1> DEFINE x == builds[b]
<1>1. BuildOK(x) /\ x.part = "start" /\ UNCHANGED bucket /\ "lost" \in Outcomes(x.host)
      /\ Becomes(b, "lost", Step(x, "vivado"))
  BY DEF BuildsOK, SkipClone
<1>2. "vivado" \in Long \cup {"mint"}
  BY DEF Long
<1> QED BY <1>1, <1>2, ToPhase, BecomesOK

LEMMA PollLongOK ==
  ASSUME BuildsOK, NEW b \in Builds, PollLong(b)
  PROVE  BuildMoves(b)
<1> DEFINE x == builds[b]
<1>1. BuildOK(x) /\ x \in BuildStates /\ x.at \in Long /\ x.part = "poll" /\ UNCHANGED bucket
  BY DEF BuildsOK, PollLong
<1>2. PICK o \in Outcomes(x.host) :
        \/ \E ended \in BOOLEAN :
             Becomes(b, o, [x EXCEPT !.deaf = FALSE, !.part = IF ended THEN "read" ELSE @])
        \/ Becomes(b, o, [x EXCEPT !.deaf = TRUE])
        \/ Becomes(b, o, Failing(x))
  BY DEF PollLong
<1>3. ASSUME NEW part \in {"poll", "read"}, NEW d \in BOOLEAN
      PROVE  Moves(x, [x EXCEPT !.deaf = d, !.part = part])
  <2> DEFINE y == [x EXCEPT !.deaf = d, !.part = part]
  <2>1. y \in BuildStates /\ y.at = x.at /\ y.id = x.id /\ y.left = x.left
        /\ y.loose = x.loose /\ y.rc = x.rc /\ y.script = x.script
    BY <1>1 DEF BuildStates
  <2> HIDE DEF y
  <2>2. BuildOK(y)
    BY <1>1, <2>1 DEF BuildOK
  <2>3. Moves(x, y)
    BY <1>1, <2>1, <2>2, AfterFacts DEF Moves, Own
  <2> QED BY <2>3 DEF y
<1>4. [x EXCEPT !.deaf = TRUE] = [x EXCEPT !.deaf = TRUE, !.part = "poll"]
  BY <1>1 DEF BuildStates
<1>5. CASE Becomes(b, o, [x EXCEPT !.deaf = TRUE])
  BY <1>1, <1>3, <1>4, <1>5, BecomesOK
<1>6. CASE Becomes(b, o, Failing(x))
  BY <1>1, <1>6, FailingOK, BecomesOK
<1>7. ASSUME NEW ended \in BOOLEAN,
             Becomes(b, o, [x EXCEPT !.deaf = FALSE, !.part = IF ended THEN "read" ELSE @])
      PROVE  BuildMoves(b)
  <2>1. PICK part \in {"poll", "read"} : part = IF ended THEN "read" ELSE x.part
    BY <1>1
  <2>2. Becomes(b, o, [x EXCEPT !.deaf = FALSE, !.part = part])
    BY <1>7, <2>1
  <2> QED BY <1>1, <1>3, <2>2, BecomesOK
<1> QED BY <1>2, <1>5, <1>6, <1>7

LEMMA GiveUpLongOK ==
  ASSUME BuildsOK, NEW b \in Builds, GiveUpLong(b)
  PROVE  BuildMoves(b)
<1> DEFINE x == builds[b]
           y == [x EXCEPT !.part = "read"]
<1>1. BuildOK(x) /\ x \in BuildStates /\ x.at \in Long /\ x.part = "poll" /\ UNCHANGED bucket
      /\ Becomes(b, "ok", y)
  BY DEF BuildsOK, GiveUpLong
<1>2. y \in BuildStates /\ y.at = x.at /\ y.id = x.id /\ y.left = x.left
      /\ y.loose = x.loose /\ y.rc = x.rc /\ y.script = x.script
  BY <1>1 DEF BuildStates
<1> HIDE DEF y
<1>3. Moves(x, y)
  BY <1>1, <1>2, AfterFacts DEF Moves, Own, BuildOK
<1> QED BY <1>1, <1>3, BecomesOK

LEMMA RepeatedOK ==
  ASSUME NEW x, BuildOK(x), x.at = "pull", x.part = "read", x.tries < Pulls
  PROVE  Moves(x, Repeated(x))
<1> DEFINE z == Step(x, "pull")
<1>1. BuildOK(z) /\ z \in BuildStates /\ z.at = "pull" /\ z.part = "start" /\ z.id = x.id
      /\ z.left = x.left /\ z.loose = x.loose /\ z.tries = x.tries
  <2>1. "pull" \in Long \cup {"mint"} /\ "pull" # After["pull"]
    BY DEF Long, After
  <2> QED BY <2>1, ToPhase
<1>2. PICK running \in BOOLEAN : running <=> x.script = "run"
  OBVIOUS
<1>3. x.tries + 1 \in 1 .. Pulls
  BY FpgaBuildAssumption DEF BuildOK, BuildStates
<1> DEFINE y == Repeated(x)
<1>4. y = [z EXCEPT !.tries = @ + 1, !.left = @ \/ x.script = "run",
                    !.loose = @ \/ x.script = "run"]
  BY DEF Repeated
<1> HIDE DEF y, z
<1>5. z.left \in BOOLEAN /\ z.loose \in BOOLEAN
  BY <1>1 DEF BuildStates
<1>6. PICK l \in BOOLEAN, k \in BOOLEAN :
        l = (z.left \/ x.script = "run") /\ k = (z.loose \/ x.script = "run")
  BY <1>5
<1>7. y = [z EXCEPT !.tries = x.tries + 1, !.left = l, !.loose = k]
  BY <1>1, <1>4, <1>6
<1>8. y \in BuildStates /\ y.at = "pull" /\ y.part = "start" /\ y.id = x.id
      /\ y.left = l /\ y.loose = k
  BY <1>1, <1>3, <1>6, <1>7 DEF BuildStates
<1>9. l => k
  BY <1>1, <1>6 DEF BuildOK
<1>10. BuildOK(y)
  BY <1>8, <1>9 DEF BuildOK
<1>11. "pull" # After["pull"] /\ "pull" \notin Publishing
  BY DEF After, Publishing
<1>12. Moves(x, y)
  BY <1>8, <1>10, <1>11 DEF Moves, Own
<1> QED BY <1>12 DEF y

LEMMA AcceptedOK ==
  ASSUME NEW x, BuildOK(x), x.at \in Long, x.part = "read", x.rc = "ok"
  PROVE  Moves(x, Accepted(x))
<1> DEFINE z == Step(x, After[x.at])
           y == Accepted(x)
<1>1. After[x.at] \in Long \cup {"mint"}
  BY AfterFacts DEF Long
<1>2. x.script = "ok" \/ x.loose
  BY DEF BuildOK
<1>3. BuildOK(z) /\ z \in BuildStates /\ z.at = After[x.at] /\ z.part = "start" /\ z.id = x.id
  BY <1>1, <1>2, ToPhase
<1>4. y = [z EXCEPT !.cloned = @ \/ x.at = "clone"]
  BY DEF Accepted
<1> HIDE DEF y, z
<1>5. z.cloned \in BOOLEAN
  BY <1>3 DEF BuildStates
<1>6. PICK c \in BOOLEAN : c = (z.cloned \/ x.at = "clone")
  BY <1>5
<1>7. y = [z EXCEPT !.cloned = c]
  BY <1>4, <1>6
<1>8. y \in BuildStates /\ y.at = z.at /\ y.part = "start" /\ y.id = z.id
      /\ y.left = z.left /\ y.loose = z.loose
  BY <1>3, <1>6, <1>7 DEF BuildStates
<1>9. BuildOK(y)
  BY <1>3, <1>8 DEF BuildOK
<1>10. y.at \notin Publishing
  BY <1>1, <1>3, <1>8 DEF Publishing, Long
<1>11. Moves(x, y)
  BY <1>2, <1>3, <1>8, <1>9, <1>10 DEF Moves, Own
<1> QED BY <1>11 DEF y

LEMMA ReadLongOK ==
  ASSUME BuildsOK, NEW b \in Builds, ReadLong(b)
  PROVE  BuildMoves(b)
<1> DEFINE x == builds[b]
<1>1. BuildOK(x) /\ x.at \in Long /\ x.part = "read" /\ UNCHANGED bucket
  BY DEF BuildsOK, ReadLong
<1>2. PICK o \in Outcomes(x.host) :
        \/ x.rc = "ok" /\ Becomes(b, o, Accepted(x))
        \/ Becomes(b, o, Failing(x))
        \/ x.at = "pull" /\ x.tries < Pulls /\ Becomes(b, o, Repeated(x))
  BY DEF ReadLong
<1>3. CASE x.rc = "ok" /\ Becomes(b, o, Accepted(x))
  BY <1>1, <1>3, AcceptedOK, BecomesOK
<1>4. CASE Becomes(b, o, Failing(x))
  BY <1>1, <1>4, FailingOK, BecomesOK
<1>5. CASE x.at = "pull" /\ x.tries < Pulls /\ Becomes(b, o, Repeated(x))
  BY <1>1, <1>5, RepeatedOK, BecomesOK
<1> QED BY <1>2, <1>3, <1>4, <1>5

LEMMA MakeImageOK ==
  ASSUME BuildsOK, NEW b \in Builds, MakeImage(b)
  PROVE  BuildMoves(b)
<1> DEFINE x == builds[b]
           y == [x EXCEPT !.at = "image", !.image = "pending"]
<1>1. BuildOK(x) /\ x \in BuildStates /\ x.at = "mint" /\ UNCHANGED bucket
  BY DEF BuildsOK, MakeImage
<1>2. PICK o \in Outcomes(x.host) : Becomes(b, o, IF o = "ok" THEN y ELSE Failing(x))
  BY DEF MakeImage
<1>3. Moves(x, y)
  <2>1. y \in BuildStates /\ y.at = "image" /\ y.id = x.id /\ y.left = x.left
        /\ y.loose = x.loose
    BY <1>1 DEF BuildStates
  <2> QED BY <1>1, <2>1 DEF Moves, BuildOK, Own, Publishing, Long
<1> HIDE DEF y
<1>4. CASE o = "ok"
  BY <1>1, <1>2, <1>3, <1>4, BecomesOK
<1>5. CASE o # "ok"
  BY <1>1, <1>2, <1>5, FailingOK, BecomesOK
<1> QED BY <1>4, <1>5

LEMMA PollImageOK ==
  ASSUME BuildsOK, NEW b \in Builds, PollImage(b)
  PROVE  BuildMoves(b)
<1> DEFINE x == builds[b]
           y == [x EXCEPT !.at = "upload"]
<1>1. BuildOK(x) /\ x \in BuildStates /\ x.at = "image" /\ UNCHANGED bucket
  BY DEF BuildsOK, PollImage
<1>2. PICK o \in Outcomes(x.host) :
        \/ Becomes(b, o, Failing(x)) \/ Becomes(b, o, y) \/ Becomes(b, o, x)
  BY DEF PollImage
<1>3. Moves(x, y) /\ Moves(x, x)
  <2>1. y \in BuildStates /\ y.at = "upload" /\ y.id = x.id /\ y.left = x.left
        /\ y.loose = x.loose
    BY <1>1 DEF BuildStates
  <2> QED BY <1>1, <2>1 DEF Moves, BuildOK, Own, Publishing, Long
<1> HIDE DEF y
<1> QED BY <1>1, <1>2, <1>3, FailingOK, BecomesOK

LEMMA LeaveOK ==
  ASSUME BuildsOK, NEW b \in Builds, Leave(b)
  PROVE  BuildMoves(b)
<1> DEFINE x == builds[b]
           y == [x EXCEPT !.at = "over"]
           z == [x EXCEPT !.at = "wait", !.host = Terminating(@)]
           w == [x EXCEPT !.at = "over", !.result = "failure"]
<1>1. BuildOK(x) /\ x \in BuildStates /\ x.at = "exit" /\ UNCHANGED bucket
  BY DEF BuildsOK, Leave
<1>2. \/ Becomes(b, "ok", y)
      \/ Becomes(b, "ok", z)
      \/ Failure /\ builds' = [builds EXCEPT ![b].at = "over", ![b].result = "failure"]
  BY DEF Leave
<1>3. Moves(x, y) /\ Moves(x, z) /\ Moves(x, w) /\ w \in BuildStates
  <2>1. Terminating(x.host) \in Hosts
    BY <1>1 DEF BuildStates, Terminating, Hosts
  <2>2. /\ y \in BuildStates /\ y.at = "over" /\ y.id = x.id /\ y.left = x.left
        /\ y.loose = x.loose
    BY <1>1 DEF BuildStates
  <2>3. /\ z \in BuildStates /\ z.at = "wait" /\ z.id = x.id /\ z.left = x.left
        /\ z.loose = x.loose
    BY <1>1, <2>1 DEF BuildStates
  <2>4. /\ w \in BuildStates /\ w.at = "over" /\ w.id = x.id /\ w.left = x.left
        /\ w.loose = x.loose
    BY <1>1 DEF BuildStates
  <2> HIDE DEF y, z, w
  <2> QED BY <1>1, <2>2, <2>3, <2>4 DEF Moves, BuildOK, Own, Publishing, Long
<1>4. CASE Failure /\ builds' = [builds EXCEPT ![b].at = "over", ![b].result = "failure"]
  <2>1. faults' \in Faults /\ faults <= faults'
    BY <1>4, MaxFaultsAssumption DEF Failure, BuildsOK, Faults
  <2>2. builds' = [builds EXCEPT ![b] = w]
    <3> DEFINE u == [x EXCEPT !.at = "over"]
               g == [builds EXCEPT ![b] = u]
    <3>1. builds' = [g EXCEPT ![b].result = "failure"]
      BY <1>4 DEF BuildsOK
    <3>2. u \in BuildStates /\ w = [u EXCEPT !.result = "failure"]
      BY <1>1 DEF BuildStates
    <3> HIDE DEF u, w
    <3>3. g \in [Builds -> BuildStates] /\ g[b] = u
      BY <3>2 DEF BuildsOK
    <3>4. builds' = [g EXCEPT ![b] = w]
      BY <3>1, <3>2, <3>3
    <3> QED BY <3>4 DEF BuildsOK
  <2> HIDE DEF w
  <2>3. builds'[b] = w
    BY <2>2 DEF BuildsOK
  <2> QED BY <1>1, <1>3, <2>1, <2>2, <2>3 DEF BuildMoves
<1> HIDE DEF y, z, w
<1> QED BY <1>1, <1>2, <1>3, <1>4, BecomesOK

LEMMA LeftOK ==
  ASSUME BuildsOK, NEW b \in Builds, Left(b)
  PROVE  BuildMoves(b)
<1> DEFINE x == builds[b]
           y == [x EXCEPT !.at = "over"]
<1>1. BuildOK(x) /\ x \in BuildStates /\ x.at = "wait" /\ UNCHANGED bucket
      /\ Becomes(b, "ok", y)
  BY DEF BuildsOK, Left
<1>2. y \in BuildStates /\ y.at = "over" /\ y.id = x.id /\ y.left = x.left
      /\ y.loose = x.loose
  BY <1>1 DEF BuildStates
<1> HIDE DEF y
<1>3. Moves(x, y)
  BY <1>1, <1>2 DEF Moves, BuildOK, Own, Publishing, Long
<1> QED BY <1>1, <1>3, BecomesOK

\* What the step of a build may do to the bucket.
BuildPuts(b) ==
  /\ faults' \in Faults /\ faults <= faults'
  /\ builds' = [builds EXCEPT ![b] = builds'[b]]
  /\ BuildOK(builds'[b]) /\ builds'[b].id = builds[b].id
  /\ Own(builds[b], builds'[b])
  /\ \/ /\ builds[b].at = "upload"
        /\ \/ builds'[b].at \notin Publishing /\ bucket' = bucket
           \/ bucket' = Stored(b, "upload")
     \/ builds[b].at \in Publishing /\ bucket' \in {bucket, Stored(b, builds[b].at)}

LEMMA PutOK ==
  ASSUME BuildsOK, NEW b \in Builds, Put(b)
  PROVE  BuildPuts(b)
<1> DEFINE x == builds[b]
           next == [upload |-> "info", info |-> "latest", latest |-> "fetch"]
           on == [x EXCEPT !.at = next[x.at]]
<1>1. BuildOK(x) /\ x \in BuildStates /\ x.at \in {"upload", "info", "latest"}
  BY DEF BuildsOK, Put
<1>2. PICK o \in Outcomes(x.host) :
       /\ Becomes(b, o, IF o = "ok" \/ (o = "lost" /\ x.at = "latest") THEN on
                        ELSE Failing(x))
       /\ \/ o = "ok" /\ bucket' = Stored(b, x.at)
          \/ o # "ok" /\ bucket' \in {bucket, Stored(b, x.at)}
  BY DEF Put
<1>3. on \in BuildStates /\ on.id = x.id /\ on.at \in Publishing \cup {"fetch"}
      /\ on.left = x.left /\ on.loose = x.loose
  <2>1. next[x.at] \in Publishing \cup {"fetch"}
    BY <1>1 DEF Publishing
  <2> HIDE DEF next
  <2> QED BY <1>1, <2>1 DEF BuildStates, Publishing
<1> HIDE DEF on, next
<1>4. BuildOK(on)
  BY <1>1, <1>3 DEF BuildOK, Publishing, Long
<1>5. ASSUME NEW y, y \in {on, Failing(x)}, Becomes(b, o, y)
      PROVE  /\ faults' \in Faults /\ faults <= faults'
             /\ builds' = [builds EXCEPT ![b] = builds'[b]] /\ builds'[b] = y
             /\ BuildOK(y) /\ y.id = x.id /\ Own(x, y)
  <2>1. x.host \in Hosts /\ x.at \notin Long
    BY <1>1 DEF BuildStates, Long
  <2>2. faults' \in Faults /\ faults <= faults'
    BY <1>5, <2>1, CountedOK DEF Becomes, BuildsOK
  <2>3. builds' = [builds EXCEPT ![b] = y] /\ builds'[b] = y
    BY <1>5 DEF Becomes, BuildsOK
  <2> QED BY <1>1, <1>3, <1>4, <1>5, <2>1, <2>2, <2>3, FailingOK DEF Own
<1>6. CASE o = "ok"
  <2>1. Becomes(b, o, on) /\ bucket' = Stored(b, x.at)
    BY <1>2, <1>6
  <2> QED BY <1>1, <1>5, <2>1 DEF BuildPuts, Publishing
<1>7. CASE o = "lost" /\ x.at = "latest"
  <2>1. Becomes(b, o, on) /\ bucket' \in {bucket, Stored(b, x.at)}
    BY <1>2, <1>7
  <2> QED BY <1>5, <1>7, <2>1 DEF BuildPuts, Publishing
<1>8. CASE o # "ok" /\ ~(o = "lost" /\ x.at = "latest")
  <2>1. Becomes(b, o, Failing(x)) /\ bucket' \in {bucket, Stored(b, x.at)}
    BY <1>2, <1>8
  <2>2. builds'[b].at \notin Publishing
    BY <1>1, <1>5, <2>1, FailingOK DEF Publishing
  <2> QED BY <1>1, <1>5, <2>1, <2>2 DEF BuildPuts, Publishing
<1> QED BY <1>6, <1>7, <1>8

LEMMA FetchOK ==
  ASSUME BuildsOK, NEW b \in Builds, Fetch(b)
  PROVE  BuildMoves(b)
<1> DEFINE x == builds[b]
           y == [x EXCEPT !.at = "exit", !.result = "success"]
<1>1. BuildOK(x) /\ x \in BuildStates /\ x.at = "fetch" /\ UNCHANGED bucket
  BY DEF BuildsOK, Fetch
<1>2. \/ Becomes(b, "ok", y)
      \/ \E o \in Outcomes(x.host) : Becomes(b, o, Failing(x))
  BY DEF Fetch
<1>3. y \in BuildStates /\ y.at = "exit" /\ y.id = x.id /\ y.left = x.left
      /\ y.loose = x.loose
  BY <1>1 DEF BuildStates
<1> HIDE DEF y
<1>4. Moves(x, y)
  BY <1>1, <1>3 DEF Moves, BuildOK, Own, Publishing, Long
<1> QED BY <1>1, <1>2, <1>4, FailingOK, BecomesOK

LEMMA BuildStepOK ==
  ASSUME BuildsOK, NEW b \in Builds, BuildStep(b)
  PROVE  BuildMoves(b) \/ BuildPuts(b)
BY LaunchBuilderOK, ReachBuilderOK, StartLongOK, SkipCloneOK, PollLongOK, GiveUpLongOK,
   ReadLongOK, MakeImageOK, PollImageOK, PutOK, FetchOK, LeaveOK, LeftOK
   DEF BuildStep

\* What happens to a build.

LEMMA OverdueOK ==
  ASSUME BuildsOK, NEW b \in Builds, Overdue(b)
  PROVE  BuildMoves(b)
<1> DEFINE x == builds[b]
           y == [x EXCEPT !.expired = TRUE]
<1>1. BuildOK(x) /\ x \in BuildStates /\ x.part = "poll" /\ UNCHANGED <<bucket, faults>>
      /\ builds' = [builds EXCEPT ![b] = y]
  BY DEF BuildsOK, Overdue
<1>2. /\ y \in BuildStates /\ y.at = x.at /\ y.id = x.id /\ y.left = x.left
      /\ y.loose = x.loose /\ y.rc = x.rc /\ y.script = x.script /\ y.part = x.part
  BY <1>1 DEF BuildStates
<1> HIDE DEF y
<1>3. Moves(x, y)
  BY <1>1, <1>2, AfterFacts DEF Moves, BuildOK, Own
<1>4. builds'[b] = y /\ faults' \in Faults /\ faults <= faults'
  BY <1>1, MaxFaultsAssumption DEF BuildsOK, Faults
<1> QED BY <1>1, <1>3, <1>4 DEF BuildMoves

LEMMA ScriptEndsOK ==
  ASSUME BuildsOK, NEW b \in Builds, ScriptEnds(b)
  PROVE  BuildMoves(b)
<1> DEFINE x == builds[b]
<1>1. BuildOK(x) /\ x \in BuildStates /\ x.script = "run" /\ UNCHANGED <<bucket, faults>>
  BY DEF BuildsOK, ScriptEnds
<1>2. PICK c \in {"ok", "bad"}, rc \in {"none", "ok", "bad"} :
        /\ builds' = [builds EXCEPT ![b] = [x EXCEPT !.script = c, !.rc = rc]]
        /\ c = "bad" => rc \in {"bad", x.rc}
  <2>1. CASE builds' = [builds EXCEPT ![b].script = "bad"]
    <3>1. [x EXCEPT !.script = "bad"] = [x EXCEPT !.script = "bad", !.rc = x.rc]
      BY <1>1 DEF BuildStates
    <3>2. builds' = [builds EXCEPT ![b] = [x EXCEPT !.script = "bad", !.rc = x.rc]]
      BY <2>1, <3>1 DEF BuildsOK
    <3> QED BY <1>1, <3>2 DEF BuildStates
  <2>2. ASSUME NEW c \in {"ok", "bad"},
               builds' = [builds EXCEPT ![b].script = c, ![b].rc = c]
        PROVE  builds' = [builds EXCEPT ![b] = [x EXCEPT !.script = c, !.rc = c]]
    <3> DEFINE u == [x EXCEPT !.script = c]
               y == [x EXCEPT !.script = c, !.rc = c]
               g == [builds EXCEPT ![b] = u]
    <3>1. builds' = [g EXCEPT ![b].rc = c]
      BY <2>2 DEF BuildsOK
    <3>2. u \in BuildStates /\ y = [u EXCEPT !.rc = c]
      BY <1>1 DEF BuildStates
    <3> HIDE DEF u, y
    <3>3. g \in [Builds -> BuildStates] /\ g[b] = u
      BY <3>2 DEF BuildsOK
    <3>4. builds' = [g EXCEPT ![b] = y]
      BY <3>1, <3>2, <3>3
    <3>5. builds' = [builds EXCEPT ![b] = y]
      BY <3>4 DEF BuildsOK
    <3> QED BY <3>5 DEF y
  <2>3. \/ builds' = [builds EXCEPT ![b].script = "ok", ![b].rc = "ok"]
        \/ builds' = [builds EXCEPT ![b].script = "bad", ![b].rc = "bad"]
        \/ builds' = [builds EXCEPT ![b].script = "bad"]
    BY DEF ScriptEnds
  <2> QED BY <2>1, <2>2, <2>3
<1> DEFINE y == [x EXCEPT !.script = c, !.rc = rc]
<1>3. /\ y \in BuildStates /\ y.at = x.at /\ y.id = x.id /\ y.left = x.left
      /\ y.loose = x.loose /\ y.rc = rc /\ y.script = c /\ y.part = x.part
  BY <1>1 DEF BuildStates
<1> HIDE DEF y
<1>4. BuildOK(y)
  BY <1>1, <1>2, <1>3 DEF BuildOK
<1>5. Moves(x, y)
  BY <1>1, <1>3, <1>4, AfterFacts DEF Moves, Own
<1>6. builds' = [builds EXCEPT ![b] = y]
  BY <1>2 DEF y
<1>7. builds'[b] = y /\ faults' \in Faults /\ faults <= faults'
  BY <1>1, <1>6, MaxFaultsAssumption DEF BuildsOK, Faults
<1> QED BY <1>1, <1>5, <1>6, <1>7 DEF BuildMoves

LEMMA LeftoverEndsOK ==
  ASSUME BuildsOK, NEW b \in Builds, LeftoverEnds(b)
  PROVE  BuildMoves(b)
<1> DEFINE x == builds[b]
<1>1. BuildOK(x) /\ x \in BuildStates /\ x.left /\ UNCHANGED <<bucket, faults>>
  BY DEF BuildsOK, LeftoverEnds
<1>2. PICK c \in {"ok", "bad"} : builds' = [builds EXCEPT ![b].left = FALSE, ![b].rc = c]
  BY DEF LeftoverEnds
<1> DEFINE y == [x EXCEPT !.left = FALSE, !.rc = c]
<1>3. builds' = [builds EXCEPT ![b] = y]
  <3> DEFINE u == [x EXCEPT !.left = FALSE]
             g == [builds EXCEPT ![b] = u]
  <3>1. builds' = [g EXCEPT ![b].rc = c]
    BY <1>2 DEF BuildsOK
  <3>2. u \in BuildStates /\ y = [u EXCEPT !.rc = c]
    BY <1>1 DEF BuildStates
  <3> HIDE DEF u, y
  <3>3. g \in [Builds -> BuildStates] /\ g[b] = u
    BY <3>2 DEF BuildsOK
  <3>4. builds' = [g EXCEPT ![b] = y]
    BY <3>1, <3>2, <3>3
  <3> QED BY <3>4 DEF BuildsOK
<1>4. /\ y \in BuildStates /\ y.at = x.at /\ y.id = x.id /\ y.left = FALSE
      /\ y.loose = x.loose /\ y.rc = c
  BY <1>1 DEF BuildStates
<1> HIDE DEF y
<1>5. BuildOK(y)
  BY <1>1, <1>4 DEF BuildOK
<1>6. Moves(x, y)
  BY <1>1, <1>4, <1>5, AfterFacts DEF Moves, Own, BuildOK
<1>7. builds'[b] = y /\ faults' \in Faults /\ faults <= faults'
  BY <1>1, <1>3, MaxFaultsAssumption DEF BuildsOK, Faults
<1> QED BY <1>1, <1>3, <1>6, <1>7 DEF BuildMoves

\* A change that neither the phase nor a script sees.
LEMMA AsideOK ==
  ASSUME NEW x, BuildOK(x), NEW y \in BuildStates, y.at = x.at, y.id = x.id, y.left = x.left,
         y.loose = x.loose, y.rc = x.rc, y.script = x.script, y.part = x.part
  PROVE  Moves(x, y)
BY AfterFacts DEF Moves, BuildOK, Own

LEMMA ImageSettlesOK ==
  ASSUME BuildsOK, NEW b \in Builds, ImageSettles(b)
  PROVE  BuildMoves(b)
<1> DEFINE x == builds[b]
<1>1. PICK s \in {"available", "failed"} : builds' = [builds EXCEPT ![b].image = s]
  BY DEF ImageSettles
<1> DEFINE y == [x EXCEPT !.image = s]
<1>2. BuildOK(x) /\ x \in BuildStates /\ UNCHANGED <<bucket, faults>>
      /\ builds' = [builds EXCEPT ![b] = y]
  BY <1>1 DEF BuildsOK, ImageSettles
<1>3. /\ y \in BuildStates /\ y.at = x.at /\ y.id = x.id /\ y.left = x.left
      /\ y.loose = x.loose /\ y.rc = x.rc /\ y.script = x.script /\ y.part = x.part
  BY <1>2 DEF BuildStates
<1> HIDE DEF y
<1>4. builds'[b] = y /\ faults' \in Faults /\ faults <= faults'
  BY <1>2, MaxFaultsAssumption DEF BuildsOK, Faults
<1> QED BY <1>2, <1>3, <1>4, AsideOK DEF BuildMoves

LEMMA LoseBuilderOK ==
  ASSUME BuildsOK, NEW b \in Builds, LoseBuilder(b)
  PROVE  BuildMoves(b)
<1> DEFINE x == builds[b]
           y == [x EXCEPT !.host = "gone"]
<1>1. /\ BuildOK(x) /\ x \in BuildStates /\ UNCHANGED bucket
      /\ builds' = [builds EXCEPT ![b] = y]
      /\ faults' \in Faults /\ faults <= faults'
  BY MaxFaultsAssumption DEF BuildsOK, LoseBuilder, Failure, Faults
<1>2. /\ y \in BuildStates /\ y.at = x.at /\ y.id = x.id /\ y.left = x.left
      /\ y.loose = x.loose /\ y.rc = x.rc /\ y.script = x.script /\ y.part = x.part
  BY <1>1 DEF BuildStates, Hosts
<1> HIDE DEF y
<1>3. builds'[b] = y
  BY <1>1 DEF BuildsOK
<1> QED BY <1>1, <1>2, <1>3, AsideOK DEF BuildMoves

LEMMA BuilderDiesOK ==
  ASSUME BuildsOK, NEW b \in Builds, BuilderDies(b)
  PROVE  BuildMoves(b)
<1> DEFINE x == builds[b]
           y == [x EXCEPT !.at = "lost"]
<1>1. /\ BuildOK(x) /\ x \in BuildStates /\ UNCHANGED bucket
      /\ builds' = [builds EXCEPT ![b] = y]
      /\ faults' \in Faults /\ faults <= faults'
  BY MaxFaultsAssumption DEF BuildsOK, BuilderDies, Failure, Faults
<1>2. /\ y \in BuildStates /\ y.at = "lost" /\ y.id = x.id /\ y.left = x.left
      /\ y.loose = x.loose
  BY <1>1 DEF BuildStates
<1> HIDE DEF y
<1>3. Moves(x, y)
  BY <1>1, <1>2, AfterFacts DEF Moves, BuildOK, Own, Publishing, Long
<1>4. builds'[b] = y
  BY <1>1 DEF BuildsOK
<1> QED BY <1>1, <1>3, <1>4 DEF BuildMoves

LEMMA BuildEnvironmentOK ==
  ASSUME BuildsOK, NEW b \in Builds, BuildEnvironment(b)
  PROVE  BuildMoves(b)
BY OverdueOK, ScriptEndsOK, LeftoverEndsOK, ImageSettlesOK, LoseBuilderOK, BuilderDiesOK
   DEF BuildEnvironment

LEMMA StartBuildOK ==
  ASSUME BuildsOK, NEW b \in Builds, StartBuild(b)
  PROVE  BuildMoves(b)
<1> DEFINE x == builds[b]
           y == [x EXCEPT !.at = "launch"]
<1>1. /\ BuildOK(x) /\ x \in BuildStates /\ UNCHANGED <<bucket, faults>>
      /\ builds' = [builds EXCEPT ![b] = y] /\ x.at = "idle"
  BY DEF BuildsOK, StartBuild, runVars
<1>2. /\ y \in BuildStates /\ y.at = "launch" /\ y.id = x.id /\ y.left = x.left
      /\ y.loose = x.loose
  BY <1>1 DEF BuildStates
<1> HIDE DEF y
<1>3. Moves(x, y)
  BY <1>1, <1>2 DEF Moves, BuildOK, Own, Publishing, Long
<1>4. builds'[b] = y /\ faults' \in Faults /\ faults <= faults'
  BY <1>1, MaxFaultsAssumption DEF BuildsOK, Faults
<1> QED BY <1>1, <1>3, <1>4 DEF BuildMoves

-----------------------------------------------------------------------------

\* The bucket: what build-info.json, "latest", a build about to publish and the
\* suite refer to has its driver there.

InDrivers(b) ==
  \E i \in DOMAIN bucket.drivers[builds[b].id] : bucket.drivers[builds[b].id][i] = b

BucketOK ==
  /\ bucket \in Buckets
  /\ \A id \in BuildIds : bucket.info[id] # 0 =>
       builds[bucket.info[id]].id = id /\ InDrivers(bucket.info[id])
  /\ bucket.latest # 0 => InDrivers(bucket.latest)
  /\ \A b \in Builds : builds[b].at \in Publishing => InDrivers(b)

\* Nothing disappears from the bucket.
BucketGrows ==
  /\ bucket' \in Buckets
  /\ \A b \in Builds : builds'[b].id = builds[b].id
  /\ \A id \in BuildIds : \A i \in DOMAIN bucket.drivers[id] :
       i \in DOMAIN bucket.drivers'[id] /\ bucket.drivers'[id][i] = bucket.drivers[id][i]

LEMMA GrowsKeeps ==
  ASSUME BuildsOK, BucketGrows, NEW b \in Builds, InDrivers(b)
  PROVE  InDrivers(b)'
<1>1. builds[b].id \in BuildIds /\ builds'[b].id = builds[b].id
  BY DEF BuildsOK, BuildStates, BucketGrows
<1>2. PICK i \in DOMAIN bucket.drivers[builds[b].id] : bucket.drivers[builds[b].id][i] = b
  BY DEF InDrivers
<1>3. i \in DOMAIN bucket.drivers'[builds'[b].id] /\ bucket.drivers'[builds'[b].id][i] = b
  BY <1>1, <1>2 DEF BucketGrows
<1> QED BY <1>3 DEF InDrivers

LEMMA MovesBucket ==
  ASSUME BuildsOK, BucketOK, NEW b \in Builds, BuildMoves(b)
  PROVE  BucketGrows /\ BucketOK'
<1>1. BucketGrows
  BY DEF BucketOK, BucketGrows, BuildMoves, Moves, BuildsOK
<1>2. \A c \in Builds : builds'[c].id = builds[c].id
      /\ (builds'[c].at \in Publishing => builds[c].at \in Publishing)
  BY DEF BuildMoves, Moves, BuildsOK
<1>3. \A c \in Builds : InDrivers(c)' <=> InDrivers(c)
  BY <1>2 DEF InDrivers, BuildMoves
<1>4. bucket' = bucket /\ bucket \in Buckets
  BY DEF BuildMoves, BucketOK
<1>5. \A id \in BuildIds : bucket.info[id] # 0 => bucket.info[id] \in Builds
  BY <1>4 DEF Buckets
<1>6. bucket.latest # 0 => bucket.latest \in Builds
  BY <1>4 DEF Buckets
<1> QED BY <1>1, <1>2, <1>3, <1>4, <1>5, <1>6 DEF BucketOK

LEMMA AppendFacts ==
  ASSUME NEW S, NEW s \in Seq(S), NEW e \in S
  PROVE  /\ Append(s, e) \in Seq(S) /\ Len(s) + 1 \in DOMAIN Append(s, e)
         /\ Append(s, e)[Len(s) + 1] = e
         /\ \A i \in DOMAIN s : i \in DOMAIN Append(s, e) /\ Append(s, e)[i] = s[i]
<1>1. Len(s) \in Nat /\ DOMAIN s = 1 .. Len(s)
  BY LenProperties
<1>2. /\ Append(s, e) \in Seq(S) /\ Len(Append(s, e)) = Len(s) + 1
      /\ \A i \in 1 .. Len(s) + 1 : Append(s, e)[i] = IF i <= Len(s) THEN s[i] ELSE e
  BY AppendProperties
<1>3. DOMAIN Append(s, e) = 1 .. Len(s) + 1
  BY <1>2, LenProperties
<1> QED BY <1>1, <1>2, <1>3

LEMMA PutsBucket ==
  ASSUME BuildsOK, BucketOK, NEW b \in Builds, BuildPuts(b)
  PROVE  BucketGrows /\ BucketOK'
<1> DEFINE id == builds[b].id
<1>1. /\ bucket \in Buckets /\ id \in BuildIds /\ b # 0
      /\ bucket.drivers \in [BuildIds -> Seq(Builds)]
      /\ bucket.info \in [BuildIds -> Builds \cup {0}]
      /\ bucket.latest \in Builds \cup {0}
  BY FpgaBuildAssumption DEF BucketOK, BuildsOK, BuildStates, Buckets
<1>2. \A c \in Builds : builds'[c].id = builds[c].id /\ (c # b => builds'[c] = builds[c])
  BY DEF BuildPuts, BuildsOK
<1>3. ASSUME BucketGrows,
             builds'[b].at \in Publishing => InDrivers(b)',
             \A i \in BuildIds : bucket.info'[i] \in {bucket.info[i]} \cup
                                    (IF i = id /\ InDrivers(b) THEN {b} ELSE {}),
             bucket.latest' \in {bucket.latest} \cup (IF InDrivers(b) THEN {b} ELSE {})
      PROVE  BucketOK'
  <2>1. \A c \in Builds : InDrivers(c) => InDrivers(c)'
    BY <1>3, GrowsKeeps
  <2>2. bucket' \in Buckets
    BY <1>3 DEF BucketGrows
  <2>3. ASSUME NEW i \in BuildIds, bucket.info'[i] # 0
        PROVE  builds'[bucket.info'[i]].id = i /\ InDrivers(bucket.info[i])'
    <3>1. CASE bucket.info'[i] = bucket.info[i]
      <4>1. bucket.info[i] \in Builds /\ builds[bucket.info[i]].id = i /\ InDrivers(bucket.info[i])
        BY <1>1, <2>3, <3>1 DEF BucketOK
      <4> QED BY <1>2, <2>1, <3>1, <4>1
    <3>2. CASE i = id /\ InDrivers(b) /\ bucket.info'[i] = b
      BY <1>2, <2>1, <3>2
    <3> QED BY <1>3, <3>1, <3>2
  <2>4. bucket.latest' # 0 => InDrivers(bucket.latest)'
    <3>1. CASE bucket.latest' = bucket.latest
      BY <1>1, <2>1, <3>1 DEF BucketOK
    <3>2. CASE InDrivers(b) /\ bucket.latest' = b
      BY <2>1, <3>2
    <3> QED BY <1>3, <3>1, <3>2
  <2>5. \A c \in Builds : builds'[c].at \in Publishing => InDrivers(c)'
    BY <1>2, <1>3, <2>1 DEF BucketOK
  <2> QED BY <2>2, <2>3, <2>4, <2>5 DEF BucketOK
<1>4. builds[b].at \in Publishing => InDrivers(b)
  BY DEF BucketOK
<1>5. CASE /\ bucket' = bucket
           /\ builds'[b].at \in Publishing => builds[b].at \in Publishing
  <2>1. BucketGrows
    BY <1>1, <1>2, <1>5 DEF BucketGrows
  <2>2. builds'[b].at \in Publishing => InDrivers(b)'
    BY <1>4, <1>5, <2>1, GrowsKeeps
  <2> QED BY <1>3, <1>5, <2>1, <2>2
<1>6. CASE bucket' = Stored(b, "upload")
  <2> DEFINE ds == bucket.drivers[id]
  <2>1. bucket' = [bucket EXCEPT !.drivers[id] = Append(ds, b)]
    BY <1>6 DEF Stored
  <2>2. /\ Append(ds, b) \in Seq(Builds) /\ Len(ds) + 1 \in DOMAIN Append(ds, b)
        /\ Append(ds, b)[Len(ds) + 1] = b
        /\ \A i \in DOMAIN ds : i \in DOMAIN Append(ds, b) /\ Append(ds, b)[i] = ds[i]
    BY <1>1, AppendFacts
  <2>3. /\ bucket' \in Buckets /\ bucket.info' = bucket.info /\ bucket.latest' = bucket.latest
        /\ bucket.drivers' = [bucket.drivers EXCEPT ![id] = Append(ds, b)]
    BY <1>1, <2>1, <2>2 DEF Buckets
  <2>4. bucket.drivers'[id] = Append(ds, b)
    BY <1>1, <2>3
  <2>5. BucketGrows
    BY <1>1, <1>2, <2>2, <2>3, <2>4 DEF BucketGrows
  <2> HIDE DEF ds
  <2>6. InDrivers(b)'
    BY <1>2, <2>2, <2>4 DEF InDrivers
  <2> QED BY <1>3, <2>3, <2>5, <2>6
<1>7. CASE builds[b].at = "info" /\ bucket' = Stored(b, "info")
  <2>1. bucket' = [bucket EXCEPT !.info[id] = b]
    BY <1>7 DEF Stored
  <2>2. /\ bucket' \in Buckets /\ bucket.drivers' = bucket.drivers
        /\ bucket.latest' = bucket.latest
        /\ bucket.info' = [bucket.info EXCEPT ![id] = b]
    BY <1>1, <2>1 DEF Buckets
  <2>3. BucketGrows
    BY <1>1, <1>2, <2>2 DEF BucketGrows
  <2>4. InDrivers(b) /\ InDrivers(b)'
    BY <1>4, <1>7, <2>3, GrowsKeeps DEF Publishing
  <2>5. \A i \in BuildIds : bucket.info'[i] = IF i = id THEN b ELSE bucket.info[i]
    BY <1>1, <2>2
  <2> QED BY <1>3, <2>2, <2>3, <2>4, <2>5
<1>8. CASE builds[b].at = "latest" /\ bucket' = Stored(b, "latest")
  <2>1. bucket' = [bucket EXCEPT !.latest = b]
    BY <1>8 DEF Stored
  <2>2. /\ bucket' \in Buckets /\ bucket.drivers' = bucket.drivers
        /\ bucket.latest' = b /\ bucket.info' = bucket.info
    BY <1>1, <2>1 DEF Buckets
  <2>3. BucketGrows
    BY <1>1, <1>2, <2>2 DEF BucketGrows
  <2>4. InDrivers(b) /\ InDrivers(b)'
    BY <1>4, <1>8, <2>3, GrowsKeeps DEF Publishing
  <2> QED BY <1>3, <2>2, <2>3, <2>4
<1> QED BY <1>5, <1>6, <1>7, <1>8 DEF BuildPuts, Publishing

-----------------------------------------------------------------------------

\* The suite.

Suites == [at : {"idle", "running", "over"}, plan : Plans, queue : Seq(Runs),
           image : Builds \cup {0}]

SuiteOK ==
  /\ suite \in Suites
  /\ suite.image # 0 <=> suite.at = "running"
  /\ suite.image # 0 => InDrivers(suite.image)
  /\ suite.at # "running" => \A r \in Runs : runs[r].at = "queued"
  /\ \A i \in DOMAIN suite.queue : runs[suite.queue[i]].at = "queued"
  /\ \A i, j \in DOMAIN suite.queue : suite.queue[i] = suite.queue[j] => i = j

DriverOK ==
  \A r \in Runs : runs[r].driver # 0 =>
    /\ suite.image # 0
    /\ LET ds == bucket.drivers[builds[suite.image].id] IN
       \E i, j \in DOMAIN ds :
         i <= j /\ ds[i] = suite.image /\ ds[j] = runs[r].driver

\* The runs that the suite waits for.
Window == {r \in Runs : runs[r].at \in Active \cup {"over"}}

WindowOK == IsFiniteSet(Window) /\ Cardinality(Window) <= Parallelism

IInv == RunsOK /\ BuildsOK /\ BucketOK /\ SuiteOK /\ DriverOK /\ WindowOK

LEMMA LastOfFacts ==
  ASSUME NEW s \in Seq(Builds)
  PROVE  /\ LastOf(s) \in Nat
         /\ LastOf(s) # 0 => /\ Len(s) \in DOMAIN s /\ s[Len(s)] = LastOf(s)
                            /\ LastOf(s) \in Builds
         /\ s # << >> => LastOf(s) \in Builds /\ \A i \in DOMAIN s : i <= Len(s)
<1>1. Len(s) \in Nat /\ DOMAIN s = 1 .. Len(s) /\ 0 \notin Builds /\ Builds \subseteq Nat
  BY LenProperties, FpgaBuildAssumption
<1>2. CASE s = << >>
  BY <1>2 DEF LastOf
<1>3. CASE s # << >>
  <2>1. Len(s) \in 1 .. Len(s)
    BY <1>3, EmptySeq
  <2>2. s[Len(s)] \in Builds /\ LastOf(s) = s[Len(s)]
    BY <1>3, <2>1, ElementOfSeq DEF LastOf
  <2>3. LastOf(s) \in Nat /\ LastOf(s) \in Builds
    BY <1>1, <2>2
  <2>4. Len(s) \in DOMAIN s /\ \A i \in DOMAIN s : i <= Len(s)
    BY <1>1, <2>1
  <2> QED BY <2>2, <2>3, <2>4
<1> QED BY <1>2, <1>3

LEMMA InitRuns ==
  ASSUME FireInit
  PROVE  RunsOK /\ WindowOK /\ \A r \in Runs : runs[r].driver = 0 /\ runs[r].at = "queued"
<1>1. PICK p \in Plans : /\ runs = [r \in Runs |-> Queued(p.size[r], p.keep, p.shared)]
                         /\ faults = p.spent
  BY DEF FireInit
<1>2. p.size \in [Runs -> 1 .. MaxSims] /\ p.keep \in BOOLEAN /\ p.shared \in BOOLEAN
      /\ faults \in Faults
  BY <1>1, FireSimAssumption DEF Faults
<1>3. \A r \in Runs : RunOK(runs[r], faults) /\ runs[r].driver = 0 /\ runs[r].at = "queued"
  BY <1>1, <1>2, QueuedOK
<1>4. runs \in [Runs -> RunStates]
  BY <1>1, <1>3 DEF RunOK, AlwaysOK
<1>5. Window = {}
  BY <1>3 DEF Window, Active
<1>6. WindowOK
  BY <1>5, FS_EmptySet, FireSimAssumption DEF WindowOK
<1> QED BY <1>2, <1>3, <1>4, <1>6 DEF RunsOK

LEMMA InitBuilds ==
  ASSUME NEW p \in Plans, NEW b \in Builds
  PROVE  /\ BuildOK(BuildAtFirst(p, b))
         /\ BuildAtFirst(p, b).id = p.ids[b]
         /\ BuildAtFirst(p, b).at \notin Publishing
<1>1. p.ids[b] \in BuildIds /\ Pulls \in Nat \ {0}
  BY FireSimAssumption, FpgaBuildAssumption
<1> DEFINE new == Planned(p.ids[b])
<1>2. /\ new \in BuildStates /\ new.id = p.ids[b] /\ new.at = "idle" /\ new.left = FALSE
      /\ new.loose = FALSE
  BY <1>1 DEF Planned, BuildStates, Hosts
<1> HIDE DEF new
<1>3. \A y : y \in BuildStates /\ y.left = FALSE /\ y.at \notin Long => BuildOK(y)
  BY DEF BuildOK
<1>4. CASE BuildAtFirst(p, b) = new
  BY <1>2, <1>3, <1>4 DEF Long, Publishing
<1>5. CASE BuildAtFirst(p, b) = [new EXCEPT !.at = "over", !.result = "success", !.image = "available"]
  <2> DEFINE y == [new EXCEPT !.at = "over", !.result = "success", !.image = "available"]
  <2>1. y \in BuildStates /\ y.left = FALSE /\ y.at = "over" /\ y.id = p.ids[b]
    BY <1>2 DEF BuildStates
  <2> HIDE DEF y
  <2>2. BuildOK(y) /\ y.at \notin Publishing
    BY <1>3, <2>1 DEF Long, Publishing
  <2> QED BY <1>5, <2>1, <2>2 DEF y
<1>6. CASE BuildAtFirst(p, b) = [new EXCEPT !.at = "mint", !.host = "up", !.cloned = TRUE]
  <2> DEFINE y == [new EXCEPT !.at = "mint", !.host = "up", !.cloned = TRUE]
  <2>1. y \in BuildStates /\ y.left = FALSE /\ y.at = "mint" /\ y.id = p.ids[b]
    BY <1>2 DEF BuildStates, Hosts
  <2> HIDE DEF y
  <2>2. BuildOK(y) /\ y.at \notin Publishing
    BY <1>3, <2>1 DEF Long, Publishing
  <2> QED BY <1>6, <2>1, <2>2 DEF y
<1>7. \/ BuildAtFirst(p, b) = new
      \/ BuildAtFirst(p, b) = [new EXCEPT !.at = "over", !.result = "success", !.image = "available"]
      \/ BuildAtFirst(p, b) = [new EXCEPT !.at = "mint", !.host = "up", !.cloned = TRUE]
  BY DEF BuildAtFirst, new
<1> QED BY <1>4, <1>5, <1>6, <1>7

LEMMA InitOK == FireInit => IInv
<1> SUFFICES ASSUME FireInit PROVE IInv
  OBVIOUS
<1>1. RunsOK /\ WindowOK /\ \A r \in Runs : runs[r].driver = 0 /\ runs[r].at = "queued"
  BY InitRuns
<1>2. PICK p \in Plans :
        /\ suite = [at |-> "idle", plan |-> p, queue |-> p.queue, image |-> 0]
        /\ builds = [b \in Builds |-> BuildAtFirst(p, b)]
        /\ bucket = [drivers |-> p.made,
                     info    |-> [id \in BuildIds |-> LastOf(p.made[id])],
                     latest  |-> p.latest]
  BY DEF FireInit
<1>3. /\ p.queue \in Seq(Runs)
      /\ \A i, j \in DOMAIN p.queue : p.queue[i] = p.queue[j] => i = j
      /\ p.made \in [BuildIds -> Seq(Builds)] /\ p.latest \in Builds \cup {0}
      /\ \A id \in BuildIds : \A i \in DOMAIN p.made[id] : p.ids[p.made[id][i]] = id
      /\ p.latest # 0 =>
           \E i \in DOMAIN p.made[p.ids[p.latest]] :
             p.made[p.ids[p.latest]][i] = p.latest
      /\ p.ids \in [Builds -> BuildIds]
  BY FireSimAssumption
<1>4. \A b \in Builds : BuildOK(builds[b]) /\ builds[b].id = p.ids[b]
                         /\ builds[b].at \notin Publishing
  BY <1>2, InitBuilds
<1>5. BuildsOK
  BY <1>1, <1>2, <1>4 DEF BuildsOK, BuildOK, RunsOK
<1>6. \A id \in BuildIds : LastOf(p.made[id]) \in Builds \cup {0}
  BY <1>3, LastOfFacts DEF LastOf
<1>7. bucket \in Buckets /\ bucket.drivers = p.made /\ bucket.latest = p.latest
      /\ (\A id \in BuildIds : bucket.info[id] = LastOf(p.made[id]))
  BY <1>2, <1>3, <1>6 DEF Buckets
<1>8. ASSUME NEW id \in BuildIds, bucket.info[id] # 0
      PROVE  builds[bucket.info[id]].id = id /\ InDrivers(bucket.info[id])
  <2> DEFINE ds == p.made[id]
             b == LastOf(ds)
  <2>1. b # 0 /\ b = bucket.info[id] /\ ds \in Seq(Builds)
    BY <1>3, <1>7, <1>8
  <2>2. Len(ds) \in DOMAIN ds /\ ds[Len(ds)] = b /\ b \in Builds
    BY <2>1, LastOfFacts
  <2>3. p.ids[b] = id
    BY <1>3, <2>2
  <2> HIDE DEF ds, b
  <2>4. builds[b].id = id /\ bucket.drivers[id] = ds
    BY <1>4, <1>7, <2>2, <2>3 DEF ds
  <2> QED BY <2>1, <2>2, <2>4 DEF InDrivers
<1>9. bucket.latest # 0 => InDrivers(bucket.latest)
  BY <1>3, <1>4, <1>7 DEF InDrivers
<1>10. BucketOK
  BY <1>4, <1>7, <1>8, <1>9 DEF BucketOK
<1>11. suite \in Suites /\ suite.at = "idle" /\ suite.image = 0 /\ suite.queue = p.queue
  BY <1>2, <1>3 DEF Suites
<1>12. \A i \in DOMAIN p.queue : p.queue[i] \in Runs
  BY <1>3
<1>13. SuiteOK
  BY <1>1, <1>3, <1>11, <1>12 DEF SuiteOK
<1>14. DriverOK
  BY <1>1 DEF DriverOK
<1> QED BY <1>1, <1>5, <1>10, <1>13, <1>14 DEF IInv

LEMMA RunsKept ==
  ASSUME RunsOK, NEW r \in Runs, faults' \in Faults, faults <= faults',
         runs' = [runs EXCEPT ![r] = runs'[r]], RunOK(runs'[r], faults')
  PROVE  RunsOK' /\ \A q \in Runs : q # r => runs'[q] = runs[q]
<1>1. \A q \in Runs : RunOK(runs[q], faults')
  BY MoreFaults DEF RunsOK
<1>2. runs'[r] \in RunStates
  BY DEF RunOK, AlwaysOK
<1>3. runs' \in [Runs -> RunStates] /\ \A q \in Runs : q # r => runs'[q] = runs[q]
  BY <1>2 DEF RunsOK
<1> QED BY <1>1, <1>3 DEF RunsOK

\* The parts of the invariant that a step of a run leaves alone.
LEMMA RestKept ==
  ASSUME BuildsOK, BucketOK, faults' \in Faults, UNCHANGED <<builds, bucket, suite>>
  PROVE  BuildsOK' /\ BucketOK' /\ \A b \in Builds : InDrivers(b)' <=> InDrivers(b)
BY DEF BuildsOK, BucketOK, InDrivers

LEMMA RunProceedsOK ==
  ASSUME IInv, NEW r \in Runs, RunProceeds(r)
  PROVE  IInv'
<1> DEFINE id == builds[suite.image].id
           ds == bucket.drivers[id]
<1>1. /\ RunsOK /\ BuildsOK /\ BucketOK /\ SuiteOK /\ DriverOK /\ WindowOK
      /\ suite.image # 0 /\ UNCHANGED <<builds, bucket, suite>>
      /\ RunStep(r, LastOf(ds))
  BY DEF IInv, RunProceeds
<1>2. suite.image \in Builds /\ InDrivers(suite.image) /\ suite.at = "running"
  BY <1>1 DEF SuiteOK, Suites
<1>3. id \in BuildIds /\ ds \in Seq(Builds)
  BY <1>1, <1>2 DEF BuildsOK, BuildStates, BucketOK, Buckets
<1>4. LastOf(ds) \in Nat
  BY <1>3, LastOfFacts
<1>5. StepOK(r, LastOf(ds))
  BY <1>1, <1>4, RunStepOK
<1>6. RunsOK' /\ \A q \in Runs : q # r => runs'[q] = runs[q]
  BY <1>1, <1>5, RunsKept DEF StepOK, Goes
<1>7. BuildsOK' /\ BucketOK' /\ \A b \in Builds : InDrivers(b)' <=> InDrivers(b)
  BY <1>1, <1>5, RestKept DEF StepOK
<1>8. runs[r].at \in Active /\ runs'[r].at \in Active \cup {"over"}
  BY <1>5 DEF StepOK, Goes
<1>9. Window' = Window
  BY <1>6, <1>8 DEF Window
<1>10. WindowOK'
  BY <1>1, <1>9 DEF WindowOK
<1>11. SuiteOK'
  <2>1. \A i \in DOMAIN suite.queue : suite.queue[i] \in Runs /\ suite.queue[i] # r
    BY <1>1, <1>8 DEF SuiteOK, Suites, Active
  <2> QED BY <1>1, <1>2, <1>6, <1>7, <2>1 DEF SuiteOK
<1>12. DriverOK'
  <2>1. LET i == Len(ds) IN LastOf(ds) # 0 => i \in DOMAIN ds /\ ds[i] = LastOf(ds)
    BY <1>3, LastOfFacts
  <2>2. PICK k \in DOMAIN ds : ds[k] = suite.image
    BY <1>2 DEF InDrivers
  <2>3. LastOf(ds) # 0 => \E i, j \in DOMAIN ds : i <= j /\ ds[i] = suite.image /\ ds[j] = LastOf(ds)
    <3>1. ds # << >>
      BY <2>2
    <3>2. k <= Len(ds)
      BY <1>3, <2>2, <3>1, LastOfFacts
    <3> QED BY <2>1, <2>2, <3>2
  <2>4. \A q \in Runs : runs'[q].driver \in {runs[q].driver, LastOf(ds)}
    BY <1>5, <1>6 DEF StepOK
  <2> QED BY <1>1, <2>3, <2>4 DEF DriverOK
<1> QED BY <1>6, <1>7, <1>10, <1>11, <1>12 DEF IInv

LEMMA RunSuffersOK ==
  ASSUME IInv, NEW r \in Runs, RunSuffers(r)
  PROVE  IInv'
<1>1. /\ RunsOK /\ BuildsOK /\ BucketOK /\ SuiteOK /\ DriverOK /\ WindowOK
      /\ UNCHANGED <<builds, bucket, suite>> /\ RunEnvironment(r)
  BY DEF IInv, RunSuffers
<1>2. SufferOK(r)
  BY <1>1, RunEnvironmentOK
<1>3. RunsOK' /\ \A q \in Runs : q # r => runs'[q] = runs[q]
  BY <1>1, <1>2, RunsKept DEF SufferOK
<1>4. BuildsOK' /\ BucketOK' /\ \A b \in Builds : InDrivers(b)' <=> InDrivers(b)
  BY <1>1, <1>2, RestKept DEF SufferOK
<1>5. \A q \in Runs : runs'[q].at = runs[q].at \/ {runs[q].at, runs'[q].at} \subseteq Active
  BY <1>2, <1>3 DEF SufferOK
<1>6. Window' = Window
  BY <1>5 DEF Window
<1>7. WindowOK'
  BY <1>1, <1>6 DEF WindowOK
<1>8. \A q \in Runs : runs[q].at = "queued" => runs'[q].at = "queued"
  BY <1>5 DEF Active
<1>9. SuiteOK'
  <2>1. \A i \in DOMAIN suite.queue : suite.queue[i] \in Runs
    BY <1>1 DEF SuiteOK, Suites
  <2>2. suite.image # 0 => suite.image \in Builds
    BY <1>1 DEF SuiteOK, Suites
  <2> QED BY <1>1, <1>4, <1>8, <2>1, <2>2 DEF SuiteOK
<1>10. DriverOK'
  <2>1. \A q \in Runs : runs'[q].driver \in {runs[q].driver, 0}
    BY <1>2, <1>3 DEF SufferOK
  <2> QED BY <1>1, <2>1 DEF DriverOK
<1> QED BY <1>3, <1>4, <1>7, <1>9, <1>10 DEF IInv

\* A step of a build disturbs the runs and the suite in nothing.
LEMMA BuildChangesOK ==
  ASSUME IInv, NEW b \in Builds, BuildMoves(b) \/ BuildPuts(b), UNCHANGED <<runs, suite>>
  PROVE  IInv'
<1>1. RunsOK /\ BuildsOK /\ BucketOK /\ SuiteOK /\ DriverOK /\ WindowOK
  BY DEF IInv
<1>2. BucketGrows /\ BucketOK'
  BY <1>1, MovesBucket, PutsBucket
<1>3. /\ faults' \in Faults /\ faults <= faults'
      /\ builds' = [builds EXCEPT ![b] = builds'[b]] /\ BuildOK(builds'[b])
  BY DEF BuildMoves, BuildPuts, Moves
<1>4. RunsOK'
  BY <1>1, <1>3, MoreFaults DEF RunsOK
<1>5. BuildsOK'
  <2>1. builds'[b] \in BuildStates
    BY <1>3 DEF BuildOK
  <2>2. builds' \in [Builds -> BuildStates] /\ \A c \in Builds : c # b => builds'[c] = builds[c]
    BY <1>1, <1>3, <2>1 DEF BuildsOK
  <2> QED BY <1>1, <1>3, <2>2 DEF BuildsOK
<1>6. SuiteOK'
  <2>1. suite.image # 0 => suite.image \in Builds
    BY <1>1 DEF SuiteOK, Suites
  <2>2. suite.image # 0 => InDrivers(suite.image)'
    BY <1>1, <1>2, <2>1, GrowsKeeps DEF SuiteOK
  <2> QED BY <1>1, <2>2 DEF SuiteOK
<1>7. WindowOK'
  BY <1>1 DEF WindowOK, Window
<1>8. DriverOK'
  <2> SUFFICES ASSUME NEW r \in Runs, runs[r].driver # 0
               PROVE  /\ suite.image # 0
                      /\ LET ds == bucket.drivers'[builds'[suite.image].id] IN
                         \E i, j \in DOMAIN ds :
                           i <= j /\ ds[i] = suite.image /\ ds[j] = runs[r].driver
    BY DEF DriverOK
  <2> DEFINE id == builds[suite.image].id
  <2>1. /\ suite.image # 0
        /\ \E i, j \in DOMAIN bucket.drivers[id] :
             i <= j /\ bucket.drivers[id][i] = suite.image
             /\ bucket.drivers[id][j] = runs[r].driver
    BY <1>1 DEF DriverOK
  <2>2. suite.image \in Builds
    BY <1>1, <2>1 DEF SuiteOK, Suites
  <2>3. id \in BuildIds /\ builds'[suite.image].id = id
    BY <1>1, <1>2, <2>2 DEF BuildsOK, BuildStates, BucketGrows
  <2>4. \A i \in DOMAIN bucket.drivers[id] :
          i \in DOMAIN bucket.drivers'[id] /\ bucket.drivers'[id][i] = bucket.drivers[id][i]
    BY <1>2, <2>3 DEF BucketGrows
  <2> HIDE DEF id
  <2> QED BY <2>1, <2>3, <2>4
<1> QED BY <1>2, <1>4, <1>5, <1>6, <1>7, <1>8 DEF IInv

LEMMA RestOfQueue ==
  ASSUME NEW q \in Seq(Runs), NEW n \in 0 .. Len(q)
  PROVE  LET t == SubSeq(q, n + 1, Len(q)) IN
         /\ t \in Seq(Runs)
         /\ \A i \in DOMAIN t : i + n \in DOMAIN q /\ i + n > n /\ t[i] = q[i + n]
<1> DEFINE t == SubSeq(q, n + 1, Len(q))
<1>1. Len(q) \in Nat /\ DOMAIN q = 1 .. Len(q)
  BY LenProperties
<1>2. \A i \in n + 1 .. Len(q) : q[i] \in Runs
  BY <1>1, ElementOfSeq
<1>3. /\ t \in Seq(Runs)
      /\ Len(t) = IF n + 1 <= Len(q) THEN Len(q) - (n + 1) + 1 ELSE 0
      /\ \A i \in 1 .. Len(q) - (n + 1) + 1 : t[i] = q[n + 1 + i - 1]
  BY <1>1, <1>2, SubSeqProperties
<1> HIDE DEF t
<1>4. DOMAIN t = 1 .. Len(t) /\ Len(t) = Len(q) - n
  <2>1. n \in Nat /\ n <= Len(q)
    BY <1>1
  <2>2. Len(t) = Len(q) - n
    <3>1. Len(t) = IF n + 1 <= Len(q) THEN Len(q) - (n + 1) + 1 ELSE 0
      BY <1>3
    <3>2. Len(q) \in Nat
      BY <1>1
    <3>3. CASE n = Len(q)
      BY <2>1, <3>1, <3>2, <3>3
    <3>4. CASE n < Len(q)
      <4>1. n + 1 <= Len(q) /\ Len(q) - (n + 1) + 1 = Len(q) - n
        BY <2>1, <3>2, <3>4
      <4> QED BY <3>1, <4>1
    <3> QED BY <2>1, <3>2, <3>3, <3>4
  <2>3. DOMAIN t = 1 .. Len(t)
    BY <1>3, LenProperties
  <2> QED BY <2>2, <2>3
<1>5. ASSUME NEW i \in DOMAIN t
      PROVE  i + n \in DOMAIN q /\ i + n > n /\ t[i] = q[i + n]
  <2>1. i \in 1 .. Len(q) - n /\ i \in 1 .. Len(q) - (n + 1) + 1 /\ n + 1 + i - 1 = i + n
    BY <1>1, <1>4
  <2>2. t[i] = q[i + n]
    BY <1>3, <2>1
  <2> QED BY <1>1, <2>1, <2>2
<1> QED BY <1>3, <1>5 DEF t

LEMMA LaunchedOK ==
  ASSUME NEW f \in Faults, NEW x, RunOK(x, f), x.at = "queued"
  PROVE  LET y == [x EXCEPT !.at = "launch"] IN
         RunOK(y, f) /\ y \in RunStates /\ y.at = "launch" /\ y.driver = x.driver
<1> DEFINE y == [x EXCEPT !.at = "launch"]
<1>1. x \in RunStates
  BY DEF RunOK, AlwaysOK
<1>2. y \in RunStates /\ y.at = "launch" /\ y.driver = x.driver
  BY <1>1 DEF RunStates, Active
<1>3. AlwaysOK(y, f)
  BY <1>1, <1>2 DEF RunOK, AlwaysOK, RunStates
<1>4. Fits(y, "launch")
  BY <1>1 DEF RunOK, Fits, RunStates
<1> QED BY <1>2, <1>3, <1>4 DEF RunOK

LEMMA ReportedOK ==
  ASSUME NEW f \in Faults, NEW x, RunOK(x, f), x.at = "over"
  PROVE  LET y == [x EXCEPT !.at = "reported"] IN
         RunOK(y, f) /\ y \in RunStates /\ y.at = "reported" /\ y.driver = x.driver
<1> DEFINE y == [x EXCEPT !.at = "reported"]
<1>1. x \in RunStates
  BY DEF RunOK, AlwaysOK
<1>2. y \in RunStates /\ y.at = "reported" /\ y.driver = x.driver
  BY <1>1 DEF RunStates
<1>3. AlwaysOK(y, f)
  BY <1>1, <1>2 DEF RunOK, AlwaysOK, RunStates
<1>4. Fits(y, "reported")
  BY <1>1 DEF RunOK, Fits, RunStates, MayLeave
<1> QED BY <1>2, <1>3, <1>4 DEF RunOK

LEMMA SubmittedOK ==
  ASSUME NEW f \in Faults, NEW rs \in [Runs -> RunStates],
         \A r \in Runs : RunOK(rs[r], f),
         NEW q \in Seq(Runs), NEW n \in 0 .. Len(q),
         \A i \in DOMAIN q : rs[q[i]].at = "queued",
         NEW new, new = Submitted(rs, q, n)
  PROVE  /\ new \in [Runs -> RunStates]
         /\ \A r \in Runs :
              /\ RunOK(new[r], f) /\ new[r].driver = rs[r].driver
              /\ IF \E i \in 1 .. n : q[i] = r THEN new[r].at = "launch" ELSE new[r] = rs[r]
<1>1. DOMAIN q = 1 .. Len(q) /\ Len(q) \in Nat
  BY LenProperties
<1>2. ASSUME NEW r \in Runs
      PROVE  /\ new[r] \in RunStates
             /\ RunOK(new[r], f) /\ new[r].driver = rs[r].driver
             /\ IF \E i \in 1 .. n : q[i] = r THEN new[r].at = "launch" ELSE new[r] = rs[r]
  <2>1. CASE \E i \in 1 .. n : q[i] = r
    <3>1. rs[r].at = "queued"
      BY <1>1, <2>1
    <3>2. new[r] = [rs[r] EXCEPT !.at = "launch"]
      BY <2>1 DEF Submitted
    <3> QED BY <2>1, <3>1, <3>2, LaunchedOK
  <2>2. CASE ~ \E i \in 1 .. n : q[i] = r
    BY <2>2 DEF Submitted
  <2> QED BY <2>1, <2>2
<1>3. new = [r \in Runs |-> new[r]]
  BY DEF Submitted
<1>4. new \in [Runs -> RunStates]
  BY <1>2, <1>3
<1> QED BY <1>2, <1>4

LEMMA StartSuiteOK ==
  ASSUME IInv, StartSuite
  PROVE  IInv'
<1> DEFINE q == suite.queue
           n == IF Len(q) < Parallelism THEN Len(q) ELSE Parallelism
           b == InfoAt(suite.plan.ref)
           t == SubSeq(q, n + 1, Len(q))
<1>1. /\ RunsOK /\ BuildsOK /\ BucketOK /\ SuiteOK /\ DriverOK /\ WindowOK
      /\ suite.at = "idle" /\ UNCHANGED <<faults, builds, bucket>>
  BY DEF IInv, StartSuite
<1>2. /\ suite \in Suites /\ suite.image = 0 /\ q \in Seq(Runs) /\ suite.plan \in Plans
      /\ \A r \in Runs : runs[r].at = "queued" /\ runs[r].driver = 0
  BY <1>1 DEF SuiteOK, Suites, DriverOK
<1>3. BuildsOK' /\ BucketOK' /\ \A c \in Builds : InDrivers(c)' <=> InDrivers(c)
  BY <1>1 DEF BuildsOK, BucketOK, InDrivers
<1>4. CASE b = 0
  <2>1. suite' = [suite EXCEPT !.at = "over"] /\ UNCHANGED runs
    BY <1>4 DEF StartSuite
  <2>2. /\ suite' \in Suites /\ suite'.at = "over" /\ suite'.image = 0
        /\ suite'.queue = suite.queue
    BY <1>2, <2>1 DEF Suites
  <2>3. SuiteOK'
    BY <1>1, <1>2, <2>1, <2>2 DEF SuiteOK
  <2>4. RunsOK' /\ WindowOK' /\ DriverOK'
    BY <1>1, <1>2, <2>1 DEF RunsOK, WindowOK, Window, DriverOK
  <2> QED BY <1>3, <2>3, <2>4 DEF IInv
<1>5. CASE b # 0
  <2>1. /\ suite' = [suite EXCEPT !.at = "running", !.image = b, !.queue = t]
        /\ runs' = Submitted(runs, q, n)
    BY <1>5 DEF StartSuite
  <2>2. b \in Builds /\ InDrivers(b)
    <3>1. suite.plan.ref \in BuildIds \cup {0}
      BY <1>2, FireSimAssumption
    <3>2. CASE suite.plan.ref = 0
      BY <1>1, <1>5, <3>2 DEF InfoAt, BucketOK, Buckets
    <3>3. CASE suite.plan.ref \in BuildIds
      <4>1. b = bucket.info[suite.plan.ref]
        BY <3>3, FpgaBuildAssumption DEF InfoAt
      <4> QED BY <1>1, <1>5, <3>3, <4>1 DEF BucketOK, Buckets
    <3> QED BY <3>1, <3>2, <3>3
  <2>3. n \in 0 .. Len(q) /\ n \in Nat /\ n <= Parallelism /\ Parallelism \in Nat
        /\ DOMAIN q = 1 .. Len(q)
    BY <1>2, LenProperties, FireSimAssumption
  <2>4. \A i \in DOMAIN q : q[i] \in Runs
    BY <1>2, ElementOfSeq, LenProperties
  <2> HIDE DEF b, n
  <2>5. /\ t \in Seq(Runs)
        /\ \A i \in DOMAIN t : i + n \in DOMAIN q /\ i + n > n /\ t[i] = q[i + n]
    BY <1>2, <2>3, RestOfQueue
  <2> HIDE DEF q, t
  <2>6. /\ suite' \in Suites /\ suite'.at = "running" /\ suite'.image = b
        /\ suite'.queue = t
    BY <1>2, <2>1, <2>2, <2>5 DEF Suites
  <2>7. \A i \in DOMAIN q : runs[q[i]].at = "queued"
    BY <1>2, <2>4
  <2>8. /\ runs' \in [Runs -> RunStates]
        /\ \A r \in Runs :
             /\ RunOK(runs'[r], faults) /\ runs'[r].driver = runs[r].driver
             /\ IF \E i \in 1 .. n : q[i] = r
                THEN runs'[r].at = "launch" ELSE runs'[r] = runs[r]
    BY <1>1, <1>2, <2>1, <2>3, <2>7, SubmittedOK DEF RunsOK
  <2>9. RunsOK'
    BY <1>1, <2>8 DEF RunsOK
  <2>10. \A i, j \in DOMAIN q : q[i] = q[j] => i = j
    BY <1>1 DEF SuiteOK, q
  <2>11. \A i \in DOMAIN t : runs'[t[i]].at = "queued"
    <3> SUFFICES ASSUME NEW i \in DOMAIN t PROVE runs'[t[i]].at = "queued"
      OBVIOUS
    <3>1. t[i] = q[i + n] /\ i + n \in DOMAIN q /\ i + n > n /\ i + n \in Nat
      BY <2>3, <2>5
    <3>2. ~ \E j \in 1 .. n : q[j] = t[i]
      BY <2>3, <2>10, <3>1
    <3> QED BY <1>2, <2>4, <2>8, <3>1, <3>2
  <2>12. \A i, j \in DOMAIN t : t[i] = t[j] => i = j
    <3> SUFFICES ASSUME NEW i \in DOMAIN t, NEW j \in DOMAIN t, t[i] = t[j] PROVE i = j
      OBVIOUS
    <3>1. i + n = j + n
      BY <2>5, <2>10
    <3>2. i \in Nat /\ j \in Nat
      BY <2>5, LenProperties
    <3> QED BY <2>3, <3>1, <3>2
  <2>13. SuiteOK'
    BY <1>3, <2>2, <2>6, <2>11, <2>12, FpgaBuildAssumption DEF SuiteOK
  <2>14. DriverOK'
    BY <1>2, <2>8 DEF DriverOK
  <2>15. WindowOK'
    <3>1. Window' = {r \in Runs : \E i \in 1 .. n : q[i] = r}
      BY <1>2, <2>8 DEF Window, Active
    <3> DEFINE S == {r \in Runs : \E i \in 1 .. n : q[i] = r}
               f == [i \in 1 .. n |-> q[i]]
    <3>2. f \in Surjection(1 .. n, S)
      BY <2>3, <2>4 DEF Surjection
    <3> HIDE DEF f, S
    <3>3. ExistsSurjection(1 .. n, S)
      BY <3>2 DEF ExistsSurjection
    <3>4. IsFiniteSet(S) /\ Cardinality(S) <= n
      BY <2>3, <3>3, FS_NatSurjection, FS_SurjCardinalityBound
    <3>5. Cardinality(S) \in Nat
      BY <3>4, FS_CardinalityType
    <3> QED BY <2>3, <3>1, <3>4, <3>5 DEF WindowOK, S
  <2> QED BY <1>3, <2>9, <2>13, <2>14, <2>15 DEF IInv
<1> QED BY <1>4, <1>5

LEMMA ReportOK ==
  ASSUME IInv, NEW r \in Runs, Report(r)
  PROVE  IInv'
<1> DEFINE q == suite.queue
           n == IF q = << >> THEN 0 ELSE 1
           rs == [runs EXCEPT ![r].at = "reported"]
           t == SubSeq(q, n + 1, Len(q))
<1>1. /\ RunsOK /\ BuildsOK /\ BucketOK /\ SuiteOK /\ DriverOK /\ WindowOK
      /\ suite.at = "running" /\ runs[r].at = "over" /\ UNCHANGED <<faults, builds, bucket>>
      /\ runs' = Submitted(rs, q, n)
      /\ suite' = [suite EXCEPT !.queue = t]
  BY DEF IInv, Report
<1>2. suite \in Suites /\ q \in Seq(Runs) /\ runs \in [Runs -> RunStates] /\ faults \in Faults
  BY <1>1 DEF SuiteOK, Suites, RunsOK
<1>3. BuildsOK' /\ BucketOK' /\ \A c \in Builds : InDrivers(c)' <=> InDrivers(c)
  BY <1>1 DEF BuildsOK, BucketOK, InDrivers
<1>4. /\ n \in 0 .. Len(q) /\ n \in Nat /\ DOMAIN q = 1 .. Len(q)
      /\ \A i \in DOMAIN q : q[i] \in Runs
  <2>1. Len(q) \in Nat /\ (q # << >> => Len(q) \in Nat \ {0})
    BY <1>2, EmptySeq, LenProperties
  <2>2. DOMAIN q = 1 .. Len(q) /\ \A i \in DOMAIN q : q[i] \in Runs
    BY <1>2, ElementOfSeq, LenProperties
  <2>3. n \in 0 .. Len(q)
    BY <2>1
  <2> HIDE DEF n
  <2> QED BY <2>1, <2>2, <2>3
<1>5. /\ t \in Seq(Runs)
      /\ \A i \in DOMAIN t : i + n \in DOMAIN q /\ i + n > n /\ t[i] = q[i + n]
  <2> HIDE DEF n
  <2> QED BY <1>2, <1>4, RestOfQueue
<1>6. /\ rs \in [Runs -> RunStates] /\ rs[r].at = "reported"
      /\ \A p \in Runs : RunOK(rs[p], faults) /\ rs[p].driver = runs[p].driver
                           /\ (p # r => rs[p] = runs[p])
  <2> DEFINE y == [runs[r] EXCEPT !.at = "reported"]
  <2>1. RunOK(y, faults) /\ y \in RunStates /\ y.at = "reported" /\ y.driver = runs[r].driver
    BY <1>1, <1>2, ReportedOK DEF RunsOK
  <2>2. rs = [runs EXCEPT ![r] = y]
    BY <1>2
  <2> HIDE DEF y, rs
  <2> QED BY <1>1, <1>2, <2>1, <2>2 DEF RunsOK
<1>7. \A i \in DOMAIN q : q[i] # r /\ runs[q[i]].at = "queued" /\ rs[q[i]].at = "queued"
  <2>1. \A i \in DOMAIN q : runs[q[i]].at = "queued"
    BY <1>1 DEF SuiteOK
  <2> HIDE DEF q, rs
  <2> QED BY <1>1, <1>4, <1>6, <2>1
<1>8. \A i, j \in DOMAIN q : q[i] = q[j] => i = j
  BY <1>1 DEF SuiteOK
<1>9. /\ suite' \in Suites /\ suite'.at = "running" /\ suite'.image = suite.image
      /\ suite'.queue = t
  <2> HIDE DEF t
  <2> QED BY <1>1, <1>2, <1>5 DEF Suites
<1>10. (q = << >> /\ n = 0) \/ (q # << >> /\ n = 1 /\ 1 \in DOMAIN q)
  <2>1. q # << >> => Len(q) \in Nat \ {0}
    BY <1>2, EmptySeq
  <2> QED BY <1>4, <2>1
<1> HIDE DEF q, n, rs, t
<1>11. /\ runs' \in [Runs -> RunStates]
       /\ \A p \in Runs :
            /\ RunOK(runs'[p], faults) /\ runs'[p].driver = rs[p].driver
            /\ IF \E i \in 1 .. n : q[i] = p THEN runs'[p].at = "launch" ELSE runs'[p] = rs[p]
  <2>1. rs \in [Runs -> RunStates] /\ faults \in Faults /\ q \in Seq(Runs) /\ n \in 0 .. Len(q)
    BY <1>2, <1>4, <1>6
  <2>2. \A p \in Runs : RunOK(rs[p], faults)
    BY <1>6
  <2>3. \A i \in DOMAIN q : rs[q[i]].at = "queued"
    BY <1>7
  <2>4. runs' = Submitted(rs, q, n)
    BY <1>1
  <2> QED BY <2>1, <2>2, <2>3, <2>4, SubmittedOK
<1>12. RunsOK'
  BY <1>1, <1>11 DEF RunsOK
<1>13. \A i \in DOMAIN t : runs'[t[i]].at = "queued"
  <2> SUFFICES ASSUME NEW i \in DOMAIN t PROVE runs'[t[i]].at = "queued"
    OBVIOUS
  <2>1. t[i] = q[i + n] /\ i + n \in DOMAIN q /\ i + n > n /\ i + n \in Nat
    BY <1>4, <1>5
  <2>2. ~ \E j \in 1 .. n : q[j] = t[i]
    BY <1>4, <1>8, <2>1
  <2> QED BY <1>4, <1>7, <1>11, <2>1, <2>2
<1>14. \A i, j \in DOMAIN t : t[i] = t[j] => i = j
  <2> SUFFICES ASSUME NEW i \in DOMAIN t, NEW j \in DOMAIN t, t[i] = t[j] PROVE i = j
    OBVIOUS
  <2>1. i + n = j + n
    BY <1>5, <1>8
  <2>2. i \in Nat /\ j \in Nat
    BY <1>5, LenProperties
  <2> QED BY <1>4, <2>1, <2>2
<1>15. SuiteOK'
  <2>1. suite.image # 0 /\ suite.image \in Builds /\ InDrivers(suite.image)
    BY <1>1 DEF SuiteOK, Suites
  <2> QED BY <1>3, <1>9, <1>13, <1>14, <2>1 DEF SuiteOK
<1>16. DriverOK'
  BY <1>1, <1>6, <1>9, <1>11 DEF DriverOK
<1>17. WindowOK'
  <2>1. \A p \in Runs : p \in Window' <=>
          (p \in Window /\ p # r) \/ \E i \in 1 .. n : q[i] = p
    BY <1>6, <1>11 DEF Window, Active
  <2>2. r \in Window /\ IsFiniteSet(Window) /\ Cardinality(Window) <= Parallelism
        /\ Parallelism \in Nat /\ Cardinality(Window) \in Nat
    BY <1>1, FireSimAssumption, FS_CardinalityType DEF Window, WindowOK
  <2> DEFINE W == Window \ {r}
  <2>3. IsFiniteSet(W) /\ Cardinality(W) = Cardinality(Window) - 1
    BY <2>2, FS_RemoveElement
  <2>4. CASE n = 0
    <3>1. Window' = W
      BY <2>1, <2>4 DEF Window
    <3> HIDE DEF W
    <3> QED BY <2>2, <2>3, <3>1 DEF WindowOK
  <2>5. CASE n = 1 /\ 1 \in DOMAIN q
    <3>1. q[1] \in Runs
      BY <1>4, <2>5
    <3>2. Window' = W \cup {q[1]}
      BY <2>1, <2>5, <3>1 DEF Window
    <3> HIDE DEF W
    <3>3. IsFiniteSet(W \cup {q[1]}) /\ Cardinality(W \cup {q[1]}) <= Cardinality(W) + 1
      <4>1. Cardinality(W) \in Nat
        BY <2>3, FS_CardinalityType
      <4>2. /\ IsFiniteSet(W \cup {q[1]})
            /\ Cardinality(W \cup {q[1]}) = IF q[1] \in W THEN Cardinality(W) ELSE Cardinality(W) + 1
        BY <2>3, FS_AddElement
      <4> QED BY <4>1, <4>2
    <3>4. Cardinality(W \cup {q[1]}) \in Nat
      BY <3>3, FS_CardinalityType
    <3> QED BY <2>2, <2>3, <3>2, <3>3, <3>4 DEF WindowOK
  <2> QED BY <1>10, <2>4, <2>5
<1> QED BY <1>3, <1>12, <1>15, <1>16, <1>17 DEF IInv

\* A step of the system, as far as a build goes.
BuildChange(b) ==
  (BuildMoves(b) \/ BuildPuts(b)) /\ UNCHANGED <<runs, suite>>

LEMMA BuildChangeOK ==
  ASSUME BuildsOK, NEW b \in Builds, StartBuild(b) \/ BuildProceeds(b) \/ BuildSuffers(b)
  PROVE  BuildChange(b)
<1>1. CASE StartBuild(b)
  BY <1>1, StartBuildOK DEF BuildChange, StartBuild, runVars
<1>2. CASE BuildProceeds(b)
  BY <1>2, BuildStepOK DEF BuildChange, BuildProceeds
<1>3. CASE BuildSuffers(b)
  BY <1>3, BuildEnvironmentOK DEF BuildChange, BuildSuffers
<1> QED BY <1>1, <1>2, <1>3

LEMMA NextOK == IInv /\ [FireNext]_fireVars => IInv'
<1> SUFFICES ASSUME IInv, [FireNext]_fireVars PROVE IInv'
  OBVIOUS
<1>1. CASE StartSuite
  BY <1>1, StartSuiteOK
<1>2. ASSUME NEW r \in Runs, RunProceeds(r) PROVE IInv'
  BY <1>2, RunProceedsOK
<1>3. ASSUME NEW r \in Runs, RunSuffers(r) PROVE IInv'
  BY <1>3, RunSuffersOK
<1>4. ASSUME NEW r \in Runs, Report(r) PROVE IInv'
  BY <1>4, ReportOK
<1>5. ASSUME NEW b \in Builds, StartBuild(b) \/ BuildProceeds(b) \/ BuildSuffers(b)
      PROVE  IInv'
  <2>1. BuildChange(b)
    BY <1>5, BuildChangeOK DEF IInv
  <2> QED BY <2>1, BuildChangesOK DEF BuildChange
<1>6. CASE UNCHANGED fireVars
  BY <1>6 DEF fireVars, IInv, RunsOK, BuildsOK, BucketOK, InDrivers, SuiteOK, DriverOK,
              WindowOK, Window
<1>7. QED
  BY <1>1, <1>2, <1>3, <1>4, <1>5, <1>6 DEF FireNext

\* The inductive invariant.
THEOREM FireInvariant == FireSpec => []IInv
<1>1. FireInit => IInv
  BY InitOK
<1>2. IInv /\ [FireNext]_fireVars => IInv'
  BY NextOK
<1> QED BY <1>1, <1>2, PTL DEF FireSpec

\* Types of the state.
THEOREM FireTypes == FireSpec => []FireTypeOK
<1>1. IInv => FireTypeOK
  <2> SUFFICES ASSUME IInv PROVE FireTypeOK
    OBVIOUS
  <2>1. runs \in [Runs -> RunStates] /\ faults \in 0 .. MaxFaults
    BY DEF IInv, RunsOK, Faults
  <2>2. builds \in [Builds -> BuildStates]
    BY DEF IInv, BuildsOK
  <2>3. /\ bucket.info \in [BuildIds -> Builds \cup {0}]
        /\ bucket.latest \in Builds \cup {0}
        /\ \A id \in BuildIds : bucket.drivers[id] \in Seq(Builds)
    BY DEF IInv, BucketOK, Buckets
  <2>4. /\ suite.at \in {"idle", "running", "over"} /\ suite.plan \in Plans
        /\ suite.queue \in Seq(Runs) /\ suite.image \in Builds \cup {0}
    BY DEF IInv, SuiteOK, Suites
  <2> QED BY <2>1, <2>2, <2>3, <2>4 DEF FireTypeOK
<1> QED BY <1>1, FireInvariant, PTL

\* A run that reports success has seen each of its simulations pass, whatever
\* was lost, repeated or cut off on the way, unless its results_dir was used before.
THEOREM EarnedSuccess == FireSpec => []SuccessIsEarned
<1>1. IInv => SuccessIsEarned
  <2> SUFFICES ASSUME IInv, NEW r \in Runs, runs[r].result = "success",
                      NEW s \in 0 .. runs[r].size - 1
               PROVE  \/ runs[r].session[s] = "passed"
                      \/ runs[r].shared /\ runs[r].log[s] # "passed"
    BY DEF SuccessIsEarned
  <2> DEFINE x == runs[r]
  <2>1. AlwaysOK(x, faults)
    BY DEF IInv, RunsOK, RunOK
  <2>2. x.size \in 1 .. MaxSims /\ x.mine[s] = "passed" /\ x.shared \in BOOLEAN
    BY <2>1 DEF AlwaysOK, RunStates
  <2>3. s \in Slots
    BY <2>2, FpgaRunAssumption DEF Slots
  <2> QED BY <2>1, <2>2, <2>3 DEF AlwaysOK
<1> QED BY <1>1, FireInvariant, PTL

\* The instances under way are never more than the window of the suite allows,
\* but for those that a run that is over may leave.
THEOREM ReleasedQuota == FireSpec => []QuotaIsReleased
<1>1. IInv => QuotaIsReleased
  <2> SUFFICES ASSUME IInv PROVE QuotaIsReleased
    OBVIOUS
  <2> DEFINE S == {r \in Runs :
                    /\ runs[r].host \in {"up", "ending"}
                    /\ runs[r].at \in Active \/ ~MayLeave(runs[r])}
  <2>1. S \subseteq Window
    <3> SUFFICES ASSUME NEW r \in S PROVE r \in Window
      OBVIOUS
    <3>1. runs[r] \in RunStates /\ Fits(runs[r], runs[r].at)
      BY DEF IInv, RunsOK, RunOK
    <3>2. runs[r].at \in Active \cup {"queued", "over", "reported"}
      BY <3>1 DEF RunStates
    <3>3. runs[r].at \notin {"queued", "reported"}
      <4>1. CASE runs[r].at = "queued"
        BY <3>1, <4>1 DEF Fits
      <4>2. CASE runs[r].at = "reported"
        BY <3>1, <4>2 DEF Fits, Active
      <4> QED BY <4>1, <4>2
    <3> QED BY <3>2, <3>3 DEF Window
  <2>2. IsFiniteSet(Window) /\ Cardinality(Window) <= Parallelism
    BY DEF IInv, WindowOK
  <2>3. Cardinality(S) <= Cardinality(Window) /\ IsFiniteSet(S)
    BY <2>1, <2>2, FS_Subset
  <2>4. Cardinality(S) \in Nat /\ Cardinality(Window) \in Nat /\ Parallelism \in Nat
    BY <2>2, <2>3, FS_CardinalityType, FireSimAssumption
  <2> HIDE DEF S
  <2>5. Cardinality(S) <= Parallelism
    BY <2>2, <2>3, <2>4
  <2> QED BY <2>5 DEF QuotaIsReleased, S
<1> QED BY <1>1, FireInvariant, PTL

\* A run never uses a driver from before its FPGA image, however builds with the
\* same id and the uploads of their objects interleave with it.
THEOREM DriversNotOlder == FireSpec => []DriverNotOlder
<1>1. IInv => DriverNotOlder
  BY DEF IInv, DriverOK, DriverNotOlder
<1> QED BY <1>1, FireInvariant, PTL

\* No step of a build goes on with the exit code of another command, unless an
\* earlier pull was given up while it ran.
THEOREM OwnSteps == FireSpec => StepsAreOwn
<1> DEFINE Kept == \A b \in Builds :
       /\ builds[b].at \in Long /\ builds[b].part = "read"
       /\ builds'[b].at = After[builds[b].at]
       => builds[b].script = "ok" \/ builds[b].loose
<1>1. IInv /\ [FireNext]_fireVars => [Kept]_fireVars
  <2> SUFFICES ASSUME IInv, [FireNext]_fireVars PROVE Kept \/ UNCHANGED fireVars
    OBVIOUS
  <2>1. ASSUME UNCHANGED builds PROVE Kept
    BY <2>1, AfterFacts
  <2>2. ASSUME NEW b \in Builds, StartBuild(b) \/ BuildProceeds(b) \/ BuildSuffers(b)
        PROVE  Kept
    <3>1. BuildMoves(b) \/ BuildPuts(b)
      BY <2>2, BuildChangeOK DEF IInv, BuildChange
    <3>2. Own(builds[b], builds'[b]) /\ \A c \in Builds : c # b => builds'[c] = builds[c]
      BY <3>1 DEF BuildMoves, BuildPuts, Moves, IInv, BuildsOK
    <3> QED BY <3>2, AfterFacts DEF Own
  <2>3. ASSUME StartSuite \/ \E r \in Runs : RunProceeds(r) \/ RunSuffers(r) \/ Report(r)
        PROVE  UNCHANGED builds
    BY <2>3 DEF StartSuite, RunProceeds, RunSuffers, Report
  <2> QED BY <2>1, <2>2, <2>3 DEF FireNext
<1>2. FireSpec => [][Kept]_fireVars
  BY <1>1, FireInvariant, PTL DEF FireSpec
<1> QED BY <1>2 DEF StepsAreOwn

==============================================================================
