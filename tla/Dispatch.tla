------------------------------- MODULE Dispatch -------------------------------
(***************************************************************************)
(* Where a call of a ChiaFunction goes (chia/base/ChiaFunction.py,         *)
(* bypass.py, dispatch_proxy.py).                                          *)
(*                                                                         *)
(* The process that calls chia_remote either owns the Ray task itself, the *)
(* direct route, or hands it to the DispatchProxy, an actor on the head    *)
(* that owns the task in its place, the relay.  An owner negotiates with   *)
(* the raylet of the node that Ray picks; if it cannot reach that node the *)
(* task hangs there.  The head reaches every node, the machines of the LAN *)
(* reach each other and the head, a tunneled machine the head only.        *)
(*                                                                         *)
(* should_proxy decides on a snapshot of the alive nodes, up to _ROLES_TTL *)
(* seconds old; Ray places the task later, on the nodes there are then.    *)
(* Ray is external: Place, Finish and the faults of nodes are its part.    *)
(***************************************************************************)
EXTENDS Naturals, FiniteSets

CONSTANTS
  Nodes,        \* Ray nodes, by id: an id is never used again
  Head,         \* the head node
  Remote,       \* the nodes behind a reverse tunnel; the others are on the LAN
  Kinds,        \* custom resources that mark a type of node
  Offers,       \* the kinds of each node; it has one unit of each
  Calls,        \* the calls, each by its TrackedRef or its get()
  Parent,       \* the call whose body makes it, NoCall for the driver's
  Home,         \* the node of the driver
  Wants,        \* the options each call may be made with
  Slots,        \* max_concurrency of the proxy
  Start,        \* the nodes that are up at first
  Frail,        \* bound: the nodes that may die or fall silent
  Shaky,        \* bound: the calls whose analysis may raise
  MaxRestarts,  \* bound: restarts of the proxy, max_task_retries
  NoNode, NoKind, NoCall

Top == {c \in Calls : Parent[c] = NoCall}

ASSUME NodeAssumption ==
  /\ NoNode \notin Nodes /\ NoKind \notin Kinds /\ NoCall \notin Calls
  /\ {Head, Home} \subseteq Start /\ Start \subseteq Nodes
  /\ Frail \subseteq Nodes \ {Head, Home}
  /\ Remote \subseteq Nodes \ {Head}
  /\ Offers \in [Nodes -> SUBSET Kinds]
ASSUME CallAssumption ==
  /\ Parent \in [Calls -> Calls \cup {NoCall}]
  /\ \A c \in Calls : Parent[c] # NoCall => Parent[c] \in Top
ASSUME WantAssumption ==
  Wants \in [Calls ->
    SUBSET [node : Nodes \cup {NoNode}, kind : Kinds \cup {NoKind},
            spread : BOOLEAN, unchecked : BOOLEAN]]
ASSUME BoundAssumption == Shaky \subseteq Calls /\ {Slots, MaxRestarts} \subseteq Nat /\ Slots > 0

VARIABLES
  up,        \* nodes alive in the eyes of the head, ray.nodes()
  gone,      \* nodes that died
  silent,    \* nodes whose raylet no longer answers
  snap,      \* _nodes_cache of each process, the driver under NoCall, and
             \* the calls that were judged by it
  call,      \* the calls
  restarts   \* restarts of the proxy

netVars == <<up, gone, silent>>
vars == <<up, gone, silent, snap, call, restarts>>

\* No snapshot, no targets.  A snapshot that exists is never empty.
None     == {}
NoSnap   == [nodes |-> None, used |-> {}]
Anywhere == [node |-> NoNode, kind |-> NoKind, spread |-> FALSE, unchecked |-> FALSE]
Idle     == [st |-> "idle", want |-> Anywhere, route |-> "none",
             owner |-> NoNode, at |-> NoNode, saw |-> None]

-----------------------------------------------------------------------------
(* The states of a call.  "queued" is at the proxy, waiting for a slot;      *)
(* "pending" and "hung" are PENDING_NODE_ASSIGNMENT; "asking" is running and *)
(* blocked in the get() of a nested call.                                    *)

In(S)       == {c \in Calls : call[c].st \in S}
OnNode      == {"running", "asking"}
InFlight    == {"queued", "pending", "hung", "running", "asking"}
Relayed     == {c \in In(InFlight) : call[c].route = "relay"}
Held        == Relayed \ In({"queued"})
Nested(c)   == {d \in In(InFlight) : Parent[d] = c}
NodeOf(c)   == IF Parent[c] = NoCall THEN Home ELSE call[Parent[c]].at

\* The links of the tunnels, cluster/tunnel.py: the head is the hub.
CanReach(m, n) == m = n \/ Head \in {m, n} \/ {m, n} \cap Remote = {}

\* The nodes Ray may pick, and those of them with a free unit of the kind.
Fits(w, n)    == /\ w.node \in {NoNode, n}
                 /\ w.kind = NoKind \/ w.kind \in Offers[n]
Busy(w, n)    == /\ w.kind # NoKind
                 /\ \E d \in In(OnNode) : call[d].at = n /\ call[d].want.kind = w.kind
Landing(w)    == {n \in up : Fits(w, n) /\ ~Busy(w, n)}

-----------------------------------------------------------------------------
(* should_proxy                                                              *)

\* _target_reachable, for a worker on node n that sees the nodes of view.
TargetReachable(n, t, view) ==
  \/ n = Head
  \/ t = n
  \/ t \in view /\ n \notin Remote /\ t \notin Remote

\* _resolve_targets: the nodes the call could land on, None if it cannot tell.
\* A strategy other than a hard affinity is not analysed.
Targets(w, view) ==
  CASE w.node # NoNode              -> {w.node}
    [] w.node = NoNode /\ w.spread  -> None
    [] OTHER -> {n \in view : w.kind # NoKind /\ w.kind \in Offers[n]}

\* Mutant of DirectlyReachable: no target known is every target reachable.
VacuouslyReachable(n, w, view) ==
  n = Head \/ \A t \in Targets(w, view) : TargetReachable(n, t, view)

\* _directly_reachable
DirectlyReachable(n, w, view) ==
  \/ n = Head
  \/ /\ Targets(w, view) # None
     /\ \A t \in Targets(w, view) : TargetReachable(n, t, view)

-----------------------------------------------------------------------------
(* chia_remote                                                               *)

\* _alive_nodes: the cached snapshot of process p, or a new one.
AliveNodes(p) == IF snap[p].nodes = None THEN up ELSE snap[p].nodes

\* The call goes to Ray or to the proxy.  A nested call blocks its caller.
Send(c, w, route, saw) ==
  call' = [d \in Calls |->
    IF d = c
      THEN [st    |-> IF route = "relay" THEN "queued" ELSE "pending",
            want  |-> w,
            route |-> route,
            owner |-> IF route = "relay" THEN Head ELSE NodeOf(c),
            at    |-> NoNode,
            saw   |-> saw]
      ELSE IF d = Parent[c] THEN [call[d] EXCEPT !.st = "asking"] ELSE call[d]]

\* A bypassed call and one with num_returns > 1 are sent without a question.
SendUnchecked(c, w) ==
  /\ w.unchecked
  /\ Send(c, w, "direct", None)
  /\ UNCHANGED snap

\* The analysis raises: the environment of the worker decides.
SendByEnv(c, w) ==
  /\ c \in Shaky /\ ~w.unchecked
  /\ Send(c, w, IF NodeOf(c) \in Remote THEN "relay" ELSE "direct", None)
  /\ UNCHANGED snap

SendJudged(c, w) ==
  LET view == AliveNodes(Parent[c])
  IN  /\ ~w.unchecked
      /\ Send(c, w, IF DirectlyReachable(NodeOf(c), w, view) THEN "direct" ELSE "relay", view)
      /\ snap' = [snap EXCEPT ![Parent[c]] = [nodes |-> view, used |-> @.used \cup {c}]]

ChiaRemote(c, w) == SendUnchecked(c, w) \/ SendByEnv(c, w) \/ SendJudged(c, w)

\* The body of a call makes another one and waits for it.
Nest(c, w) ==
  /\ call[c].st = "idle" /\ Parent[c] # NoCall /\ call[Parent[c]].st = "running"
  /\ ChiaRemote(c, w)
  /\ UNCHANGED <<netVars, restarts>>

\* _ROLES_TTL seconds have passed since process p looked.
Expire(p) ==
  /\ snap[p] # NoSnap
  /\ snap' = [snap EXCEPT ![p] = NoSnap]
  /\ UNCHANGED <<netVars, call, restarts>>

-----------------------------------------------------------------------------
(* The proxy and Ray.                                                        *)

\* Mutant of Serve: the calls that wait take slots too.
ServeOnlyAlone(c) ==
  /\ call[c].st = "queued" /\ Cardinality(Relayed) <= Slots
  /\ call' = [call EXCEPT ![c].st = "pending"]
  /\ UNCHANGED <<netVars, snap, restarts>>

\* DispatchProxy.submit: at most max_concurrency calls are in it.
Serve(c) ==
  /\ call[c].st = "queued" /\ Cardinality(Held) < Slots
  /\ call' = [call EXCEPT ![c].st = "pending"]
  /\ UNCHANGED <<netVars, snap, restarts>>

Place(c, n) ==
  /\ call[c].st = "pending" /\ n \in Landing(call[c].want)
  /\ call' = [call EXCEPT ![c].at = n,
                          ![c].st = IF n \notin silent /\ CanReach(call[c].owner, n)
                                      THEN "running" ELSE "hung"]
  /\ UNCHANGED <<netVars, snap, restarts>>

\* Call c is over; the caller of a nested call goes on.
Over(c) ==
  [d \in Calls |->
    IF d = c THEN [Idle EXCEPT !.st = "over", !.want = call[c].want]
    ELSE IF d = Parent[c] /\ call[d].st = "asking" /\ Nested(d) \subseteq {c}
      THEN [call[d] EXCEPT !.st = "running"]
      ELSE call[d]]

\* The function returns or raises, or the node it is pinned to is gone.
Finish(c) ==
  /\ \/ call[c].st = "running"
     \/ call[c].st = "pending" /\ call[c].want.node \in gone
  /\ call' = Over(c)
  /\ UNCHANGED <<netVars, snap, restarts>>

NodeJoins(n) ==
  /\ n \notin up \cup gone
  /\ up' = up \cup {n}
  /\ UNCHANGED <<gone, silent, snap, call, restarts>>

NodeFallsSilent(n) ==
  /\ n \in (Frail \cap up) \ silent
  /\ silent' = silent \cup {n}
  /\ UNCHANGED <<up, gone, snap, call, restarts>>

\* Ray places the tasks of the node anew and does not ask should_proxy again.
\* What a lost body owned ends with it; the proxy goes on for it.
NodeDies(n) ==
  LET lost == {c \in In({"hung"} \cup OnNode) : call[c].at = n}
  IN  /\ n \in Frail \cap up
      /\ up' = up \ {n} /\ gone' = gone \cup {n} /\ silent' = silent \ {n}
      /\ call' = [c \in Calls |->
           IF c \in lost THEN [call[c] EXCEPT !.st = "pending", !.at = NoNode]
           ELSE IF Parent[c] \in lost /\ call[c].st \in InFlight /\ call[c].route = "direct"
             THEN Idle ELSE call[c]]
      /\ snap' = [p \in DOMAIN snap |-> IF p \in lost THEN NoSnap ELSE snap[p]]
      /\ UNCHANGED restarts

\* max_restarts and max_task_retries: the callers send their calls again.  The
\* tasks of the old actor end with it, and what their bodies had asked for.
ProxyRestarts ==
  /\ restarts < MaxRestarts /\ Held # {}
  /\ restarts' = restarts + 1
  /\ call' = [c \in Calls |->
       IF Parent[c] \in Held /\ call[c].st \in InFlight THEN Idle
       ELSE IF c \in Relayed THEN [call[c] EXCEPT !.st = "queued", !.at = NoNode]
       ELSE call[c]]
  /\ snap' = [p \in DOMAIN snap |-> IF p \in Held THEN NoSnap ELSE snap[p]]
  /\ UNCHANGED netVars

-----------------------------------------------------------------------------
DispatchInit ==
  /\ up = Start /\ gone = {} /\ silent = {}
  /\ snap = [p \in Top \cup {NoCall} |-> NoSnap]
  /\ call = [c \in Calls |-> Idle]
  /\ restarts = 0

\* What goes on without the driver.  Work always comes to rest.
Work ==
  \E c \in Calls : Serve(c) \/ Finish(c) \/ \E n \in Nodes : Place(c, n)

Surroundings ==
  \/ \E c \in Calls : \E w \in Wants[c] : Nest(c, w)
  \/ \E p \in DOMAIN snap : Expire(p)
  \/ \E n \in Nodes : NodeJoins(n) \/ NodeFallsSilent(n) \/ NodeDies(n)
  \/ ProxyRestarts

=============================================================================
