------------------------------- MODULE ClusterUp -------------------------------
(***************************************************************************)
(* Bringing a CHIA cluster up, extending it and taking it down             *)
(* (chia/cluster/node_setup.py, tunnel.py, docker.py, cli/up.py).          *)
(*                                                                         *)
(* `chia up` and `chia up --add` run on the head.  They assign the workers *)
(* of the YAML file to machines, start one `ssh -N` process for each       *)
(* worker on a tunneled machine, and then start Ray in every worker, the   *)
(* machines in parallel.  The ssh processes outlive the command.           *)
(*                                                                         *)
(* A tunnel binds its address on the head and on the machine; the first    *)
(* one of a machine, the relay, also binds the shared relay address there. *)
(* It exits if it cannot.  The machine's sshd may hold the addresses of an *)
(* ssh process that is gone for a while: sessions.                         *)
(*                                                                         *)
(* Address n stands for 127.0.0.(n+1), 0 for a machine on the LAN.  Ports  *)
(* are functions of the address and of the worker's rank on its machine.   *)
(***************************************************************************)
EXTENDS Integers, Sequences, FiniteSets, Functions

CONSTANTS
  Machines,    \* worker IPs
  Tunneled,    \* those that need an SSH tunnel
  Types,       \* the node types, in the order of the YAML file
  Usable,      \* the machines each type can run on, in order
  PerType,     \* types with balance_level "worker"
  Docker,      \* types whose workers run in containers
  MaxWorkers   \* bound: num_workers of a type

TypeSet == Range(Types)

ASSUME TypesAssumption   == Types \in Seq(TypeSet) /\ IsInjective(Types)
ASSUME MachineAssumption == Tunneled \subseteq Machines
ASSUME UsableAssumption  == Usable \in [TypeSet -> Seq(Machines) \ {<<>>}]
ASSUME KindAssumption    == PerType \subseteq TypeSet /\ Docker \subseteq TypeSet
ASSUME BoundAssumption   == MaxWorkers \in Nat

VARIABLES
  yaml,      \* num_workers of each type
  head,      \* does the head run Ray?
  nodes,     \* worker nodes registered and alive
  procs,     \* ssh -N processes on the head
  sessions,  \* tunnels whose addresses are bound on the machine
  op,        \* the command in progress
  cut,       \* history: machines with a tunnel that died by itself
  added      \* history: has --add run since the last `chia up`?

vars == <<yaml, head, nodes, procs, sessions, op, cut, added>>

-----------------------------------------------------------------------------
(* Assignment of workers to machines and of addresses to workers.          *)

\* How many of the workers placed so far count against machine m.
Load(placed, m, type) ==
  Cardinality({i \in DOMAIN placed :
    placed[i].ip = m /\ (type \in PerType => placed[i].type = type)})

\* The first of the least loaded machines.
Place(placed, w) ==
  LET pool   == Usable[w.type]
      Least(i) == \A j \in DOMAIN pool :
                    \/ Load(placed, pool[i], w.type) < Load(placed, pool[j], w.type)
                    \/ Load(placed, pool[i], w.type) = Load(placed, pool[j], w.type) /\ i <= j
      chosen == pool[CHOOSE i \in DOMAIN pool : Least(i)]
  IN  Append(placed, [ip |-> chosen, type |-> w.type, idx |-> w.idx])

\* The workers of the YAML file, type by type.
Listed(n) ==
  LET first[k \in 0 .. Len(Types)] ==
        IF k = 0 THEN <<>>
        ELSE first[k - 1] \o [i \in 1 .. n[Types[k]] |-> [type |-> Types[k], idx |-> i - 1]]
  IN  first[Len(Types)]

\* assign_nodes
Assigned(n) ==
  LET first[k \in 0 .. Len(Listed(n))] ==
        IF k = 0 THEN <<>> ELSE Place(first[k - 1], Listed(n)[k])
  IN  first[Len(Listed(n))]

\* allocate_worker_tunnels: one address per worker on a tunneled machine, in
\* the order of the assignment.
Addressed(s) ==
  [i \in DOMAIN s |->
     [ip |-> s[i].ip, type |-> s[i].type, idx |-> s[i].idx,
      addr |-> IF s[i].ip \in Tunneled
                 THEN Cardinality({j \in 1 .. i : s[j].ip \in Tunneled}) ELSE 0]]

Desired == Addressed(Assigned(yaml))

\* What --add compares: the address Ray knows the worker under and its
\* resources, which stand for its type.
Key(w) == [addr |-> w.addr, ip |-> IF w.addr = 0 THEN {w.ip} ELSE {}, type |-> w.type]

\* compute_new_assignments: as many workers of a key as are registered are
\* taken to be the registered ones, the first in order.
Missing(s) ==
  LET Known(k)   == Cardinality({n \in nodes : Key(n) = k})
      Earlier(i) == Cardinality({j \in 1 .. i - 1 : Key(s[j]) = Key(s[i])})
  IN  {i \in DOMAIN s : Earlier(i) >= Known(Key(s[i]))}

Workers == [ip : Machines, type : TypeSet, idx : Nat, addr : Nat]
Tunnels == [addr : Nat \ {0}, ip : Machines, relay : BOOLEAN]

Idle == [cmd |-> "none", todo |-> {}, seen |-> {}, setup |-> {}, all |-> {}, failed |-> {}]

TypeOK ==
  /\ yaml \in [TypeSet -> 0 .. MaxWorkers]
  /\ head \in BOOLEAN
  /\ nodes \subseteq Workers
  /\ procs \subseteq Tunnels
  /\ sessions \subseteq Tunnels
  /\ op \in [cmd : {"none", "up", "add"}, todo : SUBSET Workers, seen : SUBSET Machines,
            setup : SUBSET Workers, all : SUBSET Workers, failed : SUBSET Workers]
  /\ op.setup \subseteq op.all /\ op.failed \subseteq op.all \ op.setup
  /\ cut \subseteq Machines
  /\ added \in BOOLEAN

Init ==
  /\ yaml \in [TypeSet -> 0 .. MaxWorkers]
  /\ head = FALSE
  /\ nodes = {}
  /\ procs = {}
  /\ sessions = {}
  /\ op = Idle
  /\ cut = {}
  /\ added = FALSE

-----------------------------------------------------------------------------
(* The commands.                                                           *)

\* Mutant of Begin: every worker of the file is set up again.
BeginEvery(cmd, chosen) ==
  op' = [Idle EXCEPT !.cmd   = cmd,
                     !.todo  = {w \in chosen : w.addr # 0},
                     !.setup = Range(Desired),
                     !.all   = chosen]

\* The tunnels come first, in the order of the assignment, then the workers.
Begin(cmd, chosen) ==
  op' = [Idle EXCEPT !.cmd   = cmd,
                     !.todo  = {w \in chosen : w.addr # 0},
                     !.setup = chosen,
                     !.all   = chosen]

\* chia up: setup_head_node stops the head's Ray and starts a new one, which
\* knows no worker; then the rest of bring_up_cluster.  The start can fail.
Up ==
  /\ op.cmd = "none"
  /\ nodes' = {}
  /\ \/ head' = TRUE /\ Begin("up", Range(Desired))
     \/ head' = FALSE /\ UNCHANGED op
  /\ cut'   = {}
  /\ added' = FALSE
  /\ UNCHANGED <<yaml, procs, sessions>>

\* chia up --add: the running cluster is queried once, at the start.
Add ==
  /\ op.cmd = "none"
  /\ head
  /\ Missing(Desired) # {}
  /\ Begin("add", {Desired[i] : i \in Missing(Desired)})
  /\ added' = TRUE
  /\ UNCHANGED <<yaml, head, nodes, procs, sessions, cut>>

\* Mutant of Replaced: processes are looked for by the machine they lead to.
ReplacedOnMachine(w) == {p \in procs : p.ip = w.ip}

\* _kill_orphaned_tunnel: whatever ssh process has the address is killed.
Replaced(w) == {p \in procs : p.addr = w.addr}

\* The addresses follow the order of the assignment.
NextTunnel == CHOOSE w \in op.todo : \A v \in op.todo : w.addr <= v.addr

\* start_tunnel and wait_for_tunnel for the next worker.  The addresses of a
\* killed ssh process may still be bound when the new one asks for them; any
\* other failure of ssh is possible too.  A failure ends the command and
\* leaves the other tunnels as they are.
StartTunnel ==
  /\ op.todo # {}
  /\ LET w    == NextTunnel
         new  == [addr |-> w.addr, ip |-> w.ip, relay |-> w.ip \notin op.seen]
         gone == Replaced(w)
     IN \E freed \in SUBSET (sessions \cap gone) :
          LET bound == sessions \ freed
              Clash(b) == b.ip = new.ip /\ (b.addr = new.addr \/ (b.relay /\ new.relay))
          IN \/ /\ \A b \in bound : ~Clash(b)
                /\ procs'    = (procs \ gone) \cup {new}
                /\ sessions' = bound \cup {new}
                /\ op' = [op EXCEPT !.todo = @ \ {w}, !.seen = @ \cup {w.ip}]
             \/ /\ procs'    = procs \ gone
                /\ sessions' = bound
                /\ op' = Idle
  /\ UNCHANGED <<yaml, head, nodes, cut, added>>

\* The pre-tunnel commands before the first tunnel, or the sysctl and iptables
\* commands after the last, raise: the command ends, the tunnels stay.
HostCommandFails ==
  /\ \E w \in op.all : w.addr # 0
  /\ op.setup = op.all
  /\ op.seen = {} \/ op.todo = {}
  /\ op' = Idle
  /\ UNCHANGED <<yaml, head, nodes, procs, sessions, cut, added>>

\* A machine's workers are set up one after the other.
NextOn(m) ==
  {w \in op.setup : w.ip = m /\ \A v \in op.setup : v.ip = m =>
     \A i, j \in DOMAIN Desired : Desired[i] = w /\ Desired[j] = v => i <= j}

\* The registered workers whose Ray setup_worker_node stops.  A container's
\* script runs `ray stop` in the container, which may be running already.  On
\* a bare machine `ray stop` reaches every Ray process: only `chia up` runs it,
\* for the first worker of the machine.
Stopped(w) ==
  IF w.type \in Docker
    THEN {n \in nodes : n.ip = w.ip /\ n.type = w.type /\ n.idx = w.idx}
    ELSE {n \in nodes : n.ip = w.ip /\ op.cmd = "up"
                        /\ \A v \in op.all : v.ip = w.ip => v \in op.setup}

\* A bare worker has no name: the new node is one more.
Registered(w) ==
  IF w.type \in Docker THEN w
  ELSE [w EXCEPT !.idx = CHOOSE i \in 0 .. Cardinality(nodes) :
                           \A n \in nodes : ~(n.ip = w.ip /\ n.type = w.type /\ n.idx = i)]

\* setup_worker_node: the Ray start of a tunneled worker needs its tunnel.
SetupWorker(m) ==
  /\ op.cmd # "none" /\ op.todo = {}
  /\ \E w \in NextOn(m) :
       \/ /\ w.addr # 0 => \E p \in procs : p.addr = w.addr /\ p.ip = w.ip
          /\ nodes' = (nodes \ Stopped(w)) \cup {Registered(w)}
          /\ op'    = [op EXCEPT !.setup = @ \ {w}]
       \/ /\ \E stopped \in {{}, Stopped(w)} : nodes' = nodes \ stopped
          /\ op' = [op EXCEPT !.setup = @ \ {w}, !.failed = @ \cup {w}]
  /\ UNCHANGED <<yaml, head, procs, sessions, cut, added>>

\* Mutant of Abandoned: the tunnel of each worker that failed is stopped.
AbandonedEach == {w \in op.failed : w.addr # 0}

\* _stop_failed_worker_tunnels: the tunneled workers of this command on
\* machines where all of them failed.
Abandoned ==
  {w \in op.all : w.addr # 0 /\ \A v \in op.all : v.ip = w.ip => v \in op.failed}

Finish ==
  /\ op.cmd # "none" /\ op.todo = {} /\ op.setup = {}
  /\ procs' = {p \in procs : \A w \in Abandoned : p.addr # w.addr}
  /\ op'    = Idle
  /\ UNCHANGED <<yaml, head, nodes, sessions, cut, added>>

\* chia down: every ssh process to one of the machines is killed.
Down ==
  /\ op.cmd = "none"
  /\ head' = FALSE
  /\ nodes' = {}
  /\ procs' = {}
  /\ UNCHANGED <<yaml, sessions, op, cut, added>>

-----------------------------------------------------------------------------
(* The world.                                                              *)

\* A command has read the file when it begins; between two it may be edited,
\* also while the cluster is up.
EditYaml(n) ==
  /\ op.cmd = "none"
  /\ yaml' = n
  /\ UNCHANGED <<head, nodes, procs, sessions, op, cut, added>>

\* A network outage, or ssh finds a dead peer.
TunnelDies(p) ==
  /\ p \in procs
  /\ procs' = procs \ {p}
  /\ cut'   = cut \cup {p.ip}
  /\ UNCHANGED <<yaml, head, nodes, sessions, op, added>>

\* sshd notices that the other end is gone.
SessionEnds(s) ==
  /\ s \in sessions \ procs
  /\ sessions' = sessions \ {s}
  /\ UNCHANGED <<yaml, head, nodes, procs, op, cut, added>>

\* A worker crashes, or its heartbeats no longer reach the head.
NodeDies(n) ==
  /\ n \in nodes
  /\ nodes' = nodes \ {n}
  /\ UNCHANGED <<yaml, head, procs, sessions, op, cut, added>>

-----------------------------------------------------------------------------
Command ==
  \/ Up \/ Add \/ StartTunnel \/ HostCommandFails \/ Finish \/ Down
  \/ \E m \in Machines : SetupWorker(m)

World ==
  \/ \E n \in [TypeSet -> 0 .. MaxWorkers] : EditYaml(n)
  \/ \E p \in procs : TunnelDies(p)
  \/ \E s \in sessions : SessionEnds(s)
  \/ \E n \in nodes : NodeDies(n)

Next == Command \/ World

Spec == Init /\ [][Next]_vars

-----------------------------------------------------------------------------
(* Properties.                                                             *)

\* Setting up one worker of a machine never stops the Ray of a sibling that the
\* same `chia up` has set up before it (skip_ray_stop, node_setup.py:625-628).
UpSparesSiblings ==
  [][\A m \in Machines : op.cmd = "up" /\ SetupWorker(m) => nodes \subseteq nodes']_vars

\* A registered worker has its tunnel, and its machine the relay.
Connected(n) ==
  /\ \E p \in procs : p.addr = n.addr /\ p.ip = n.ip
  /\ \E p \in procs : p.ip = n.ip /\ p.relay

\* From `chia up` to the first --add, the workers that survive a partly failed
\* bring-up keep their tunnel and the shared reverse forwards of their machine
\* (_stop_failed_worker_tunnels, node_setup.py:39-62).
UpKeepsSurvivors ==
  ~added /\ op.cmd = "none" =>
    \A n \in nodes : n.addr # 0 /\ n.ip \notin cut => Connected(n)

\* node_setup.py:44-51: the clean-up after failed workers spares the tunnel with
\* the reverse forwards that a registered worker on the machine depends on.
CleanupSparesRelay ==
  [][Finish => \A n \in nodes, p \in procs :
       n.addr # 0 /\ p.ip = n.ip /\ p.relay => p \in procs']_vars

\* The file, edited since n was set up, gives n's address to a worker of
\* another type.
DealtAnew(n) == \E w \in Range(Desired) : w.addr = n.addr /\ w.type # n.type

\* --add leaves the tunnel of a registered worker alone (add_nodes_to_cluster,
\* node_setup.py:164-315), however the file was edited in the meantime, unless
\* the edit has moved that worker's address to one of another type: the
\* addresses are dealt out anew from the whole file, and the process that has
\* one is killed for the next owner.
AddSparesTunnels ==
  [][op.cmd = "add" =>
       \A n \in nodes : n.addr # 0 /\ n.ip \notin cut /\ ~DealtAnew(n) =>
         \A p \in procs : p.addr = n.addr /\ p.ip = n.ip => p \in procs' \/ n.ip \in cut']_vars

\* config.py:965-971: a type balanced by "worker" spreads its workers as
\* evenly as possible over its machines, whatever the other types do.
EvenSpread ==
  LET On(m, type) == Cardinality({i \in DOMAIN Desired : Desired[i].ip = m /\ Desired[i].type = type})
  IN  \A type \in PerType : \A m1, m2 \in Range(Usable[type]) : On(m1, type) - On(m2, type) <= 1

\* docs/user_guides/logical_workers.rst:335-338: --add only brings up workers
\* that are not already registered, without downtime.
AddSparesRegistered ==
  [][\A m \in Machines : op.cmd = "add" /\ SetupWorker(m) => nodes \subseteq nodes']_vars

=============================================================================
