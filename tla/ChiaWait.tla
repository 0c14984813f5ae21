------------------------------- MODULE ChiaWait -------------------------------
(***************************************************************************)
(* A driver that collects its calls with chia_wait                         *)
(* (chia/base/chia_wait.py).                                               *)
(*                                                                         *)
(* chia_wait is ray.wait and a look at what is left: a call that has been  *)
(* out for longer than pending_timeout, that the state API lists as        *)
(* PENDING_NODE_ASSIGNMENT and whose resources lie idle is taken for one   *)
(* with a wedged raylet, cancelled and made again.  The driver calls it in *)
(* a loop with what it returned as pending, as the examples do.            *)
(*                                                                         *)
(* A task of the relay is the proxy's; the caller holds a call of an       *)
(* actor, which never waits for the assignment of a node.                  *)
(***************************************************************************)
EXTENDS Dispatch

CONSTANTS
  MaxRetries,     \* max_retries; 0 is retry=False
  CancelOnStuck,  \* cancel_on_stuck
  MinFree         \* min_free_fraction, in percent

ASSUME WaitAssumption ==
  /\ CancelOnStuck \in BOOLEAN
  /\ MaxRetries \in Nat /\ MinFree \in 0 .. 100

VARIABLES
  phase,    \* where the driver is
  pend,     \* the calls it waits for
  aged,     \* those that are out for longer than pending_timeout
  retries,  \* TrackedRef.retries
  stuck     \* those judged stuck and not dealt with yet

waitVars == <<phase, pend, aged, retries, stuck>>
allVars  == <<vars, waitVars>>

Init ==
  /\ DispatchInit
  /\ phase = "out" /\ pend = {} /\ aged = {} /\ stuck = {}
  /\ retries = [t \in Top |-> 0]

-----------------------------------------------------------------------------
\* The driver makes a call, and a TrackedRef of it.
Track(t, w) ==
  /\ phase = "out" /\ call[t].st = "idle"
  /\ ChiaRemote(t, w)
  /\ pend' = pend \cup {t}
  /\ UNCHANGED <<netVars, restarts, phase, aged, retries, stuck>>

\* pending_timeout is longer than _ROLES_TTL: the snapshot that judged the call
\* has expired by then.
Age(t) ==
  /\ t \in pend \ aged /\ call[t].st # "idle" /\ t \notin snap[NoCall].used
  /\ aged' = aged \cup {t}
  /\ UNCHANGED <<vars, phase, pend, retries, stuck>>

\* ray.wait, with a timeout ("waiting") or with the default, none ("blocked").
Wait ==
  /\ phase = "out" /\ pend # {}
  /\ phase' \in {"waiting", "blocked"}
  /\ UNCHANGED <<vars, pend, aged, retries, stuck>>

\* ray.wait returns with one call that is over (num_returns = 1), ...
WaitReady(t) ==
  /\ phase \in {"waiting", "blocked"} /\ t \in pend /\ call[t].st = "over"
  /\ pend' = pend \ {t}
  /\ phase' = IF pend' = {} THEN "out" ELSE "woken"
  /\ UNCHANGED <<vars, aged, retries, stuck>>

\* Mutant of WaitTimesOut: ray.wait is called without the timeout.
NeverTimesOut == FALSE /\ UNCHANGED allVars

\* ... or, if it was given a timeout, with none.
WaitTimesOut ==
  /\ phase = "waiting" /\ pend \cap In({"over"}) = {}
  /\ phase' = "woken"
  /\ UNCHANGED <<vars, pend, aged, retries, stuck>>

\* _resources_cover and _resources_underused: the sums over the cluster.
Spare(w) ==
  LET total == {n \in up : w.kind \in Offers[n]}
      free  == {n \in total : ~Busy(w, n)}
  IN  \/ w.kind = NoKind
      \/ /\ free # {}
         /\ 100 * Cardinality(free) >= MinFree * Cardinality(total)

\* _classify_stuck
IsStuck(t) ==
  /\ t \in pend \cap aged
  /\ call[t].st \in {"pending", "hung"} /\ call[t].route = "direct"
  /\ Spare(call[t].want)

Classify ==
  /\ phase = "woken"
  /\ stuck' = {t \in pend : IsStuck(t)}
  /\ phase' = IF stuck' = {} THEN "out" ELSE "acting"
  /\ UNCHANGED <<vars, pend, aged, retries>>

\* The state API or the query of the resources raises: nothing is stuck.
ClassifyFails ==
  /\ phase = "woken"
  /\ phase' = "out"
  /\ UNCHANGED <<vars, pend, aged, retries, stuck>>

-----------------------------------------------------------------------------
\* ray.cancel(force=True, recursive=True): the call ends, and with it the calls
\* its body has made.  One that is over already is over.
Cancelled(t, st) ==
  [c \in Calls |-> IF c = t THEN [Idle EXCEPT !.st = st, !.want = call[t].want]
                   ELSE IF c \in Nested(t) THEN Idle ELSE call[c]]

\* The call whose first attempt is cancelled and which is not made again yet.
Resending == {t \in stuck : call[t].st = "idle"}

\* The call dealt with is the last one of the loop.
Handled(t) ==
  /\ stuck' = stuck \ {t}
  /\ phase' = IF stuck' = {} THEN "out" ELSE "acting"

\* Mutant of Cancel: one retry too many.
CancelOnceMore(t) ==
  /\ phase = "acting" /\ t \in stuck /\ Resending = {}
  /\ retries[t] <= MaxRetries
  /\ call' = Cancelled(t, "idle")
  /\ UNCHANGED <<netVars, snap, restarts, waitVars>>

\* _retry_stuck, first half.  The call may run or be over by now.
Cancel(t) ==
  /\ phase = "acting" /\ t \in stuck /\ Resending = {}
  /\ retries[t] < MaxRetries
  /\ call' = Cancelled(t, "idle")
  /\ UNCHANGED <<netVars, snap, restarts, waitVars>>

\* _retry_stuck, second half: submit_fn makes the same call.
Resubmit(t) ==
  /\ phase = "acting" /\ t \in Resending
  /\ ChiaRemote(t, call[t].want)
  /\ retries' = [retries EXCEPT ![t] = @ + 1]
  /\ aged' = aged \ {t}
  /\ Handled(t)
  /\ UNCHANGED <<netVars, restarts, pend>>

\* submit_fn raises, and with it chia_wait.
ResubmitFails ==
  /\ phase = "acting" /\ Resending # {}
  /\ phase' = "crashed"
  /\ UNCHANGED <<vars, pend, aged, retries, stuck>>

\* Mutant of GiveUp: the call is neither ready nor pending.
GiveUpAndForget(t) ==
  /\ phase = "acting" /\ t \in stuck /\ Resending = {}
  /\ retries[t] >= MaxRetries
  /\ pend' = pend \ {t}
  /\ Handled(t)
  /\ UNCHANGED <<vars, aged, retries>>

\* No retries are left.
GiveUp(t) ==
  /\ phase = "acting" /\ t \in stuck /\ Resending = {}
  /\ retries[t] >= MaxRetries
  /\ call' = IF CancelOnStuck THEN Cancelled(t, "over") ELSE call
  /\ Handled(t)
  /\ UNCHANGED <<netVars, snap, restarts, pend, aged, retries>>

-----------------------------------------------------------------------------
Driver ==
  \/ Wait \/ WaitTimesOut \/ Classify \/ ClassifyFails \/ ResubmitFails
  \/ \E t \in Top : WaitReady(t) \/ Cancel(t) \/ Resubmit(t) \/ GiveUp(t)

Next ==
  \/ Driver
  \/ \E t \in Top : Age(t) \/ \E w \in Wants[t] : Track(t, w)
  \/ (Work \/ Surroundings) /\ UNCHANGED waitVars

\* Functions return, Ray schedules, the proxy serves; the clock runs on; the
\* driver goes on, and the state API does not fail for ever.
Fairness ==
  /\ WF_allVars(Work /\ UNCHANGED waitVars)
  /\ WF_allVars(Expire(NoCall) /\ UNCHANGED waitVars)
  /\ WF_allVars(\E t \in Top : Age(t))
  /\ WF_allVars(Driver)
  /\ SF_allVars(Classify)

Spec == Init /\ [][Next]_allVars /\ Fairness

-----------------------------------------------------------------------------
(* Properties                                                                *)

CallType ==
  [st : {"idle", "over"} \cup InFlight, want : (UNION {Wants[c] : c \in Calls}) \cup {Anywhere},
   route : {"none", "direct", "relay"}, owner : Nodes \cup {NoNode},
   at : Nodes \cup {NoNode}, saw : SUBSET Nodes]

\* Types of the state.
TypeOK ==
  /\ up \subseteq Nodes /\ gone \subseteq Nodes \ up /\ silent \subseteq up
  /\ snap \in [Top \cup {NoCall} -> [nodes : SUBSET Nodes, used : SUBSET Calls]]
  /\ call \in [Calls -> CallType]
  /\ restarts \in 0 .. MaxRestarts
  /\ phase \in {"out", "waiting", "blocked", "woken", "acting", "crashed"}
  /\ pend \subseteq Top /\ aged \subseteq Top /\ stuck \subseteq pend
  /\ retries \in [Top -> 0 .. MaxRetries]

\* A call is at a node its owner has no link to.
Unreachable(c) == call[c].st = "hung" /\ ~CanReach(call[c].owner, call[c].at)

\* What is left of the promise that the analysis is fail-safe, and that a stale
\* snapshot never turns a "must proxy" into a "direct" (dispatch_proxy.py:66 and
\* 87-89).  The promise does not hold: a node that joins after the snapshot was
\* taken may get a call that was judged direct without it, and the call hangs.
\* No call that is analysed hangs for want of a link otherwise: not one that the
\* relay carries, not at a node the snapshot showed, and if the analysis failed
\* not one of a tunneled worker.
HangsOnlyOnNewcomers ==
  \A c \in Calls : Unreachable(c) =>
    \/ call[c].want.unchecked
    \/ call[c].route = "direct" /\ call[c].saw = None /\ call[c].owner \notin Remote
    \/ call[c].route = "direct" /\ call[c].saw # None /\ call[c].at \notin call[c].saw

\* What chia_wait no longer returns as pending is over and stays so: no call is
\* forgotten while it runs, none is made again after it was returned as ready.
ReadyIsFinal ==
  [][\A t \in Top : t \notin pend /\ call[t].st # "idle" =>
       call[t].st = "over" /\ call'[t] = call[t]]_allVars

\* The driver is in a ray.wait that was given no timeout (chia_wait's default)
\* and that none of its calls will end: stuck calls are looked for only after
\* ray.wait has returned, whatever pending_timeout is.
StuckInWait == phase = "blocked"

\* A call that hangs for good although its resources lie idle has been retried
\* as often as was allowed (chia_wait's docstring), unless submit_fn raised, or
\* the driver is for ever in a ray.wait without a timeout: the comment in
\* chia_function.rst:217, that chia_wait returns after pending_timeout seconds
\* of no progress, does not hold then.
HungIsRetried ==
  \A t \in Top :
    <>[](t \in pend /\ call[t].st = "hung" /\ call[t].route = "direct" /\ Spare(call[t].want))
      => <>[](retries[t] = MaxRetries \/ phase = "crashed" \/ StuckInWait)

\* The calls that hold the proxy wait for calls of their own, hang at a silent
\* node, or find no free node.
Jammed ==
  /\ Cardinality(Held) >= Slots
  /\ \A c \in Held : \/ call[c].st \in {"asking", "hung"}
                     \/ call[c].st = "pending" /\ Landing(call[c].want) = {}

\* The proxy serves every call, unless those it has taken hold it for ever.
RelayServes ==
  \A c \in Calls : <>[](call[c].st = "queued") => <>[]Jammed

=============================================================================
