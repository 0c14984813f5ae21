------------------------------ MODULE CloudNodes ------------------------------
(***************************************************************************)
(* The cloud phases of chia up, chia up --add and chia down                *)
(* (cli/up.py, cli/down.py, cluster/aws_nodes.py, cluster/gcp_nodes.py,    *)
(* cluster/config.py).                                                     *)
(*                                                                         *)
(* Each command is a process: a user and a cron job may run several at     *)
(* once, and nothing locks the cluster.  A command learns what there is    *)
(* from the tags of the instances.  A reference @t:i of the YAML file is   *)
(* replaced by the i-th address of type t; the file refers to every        *)
(* instance it asks for.                                                   *)
(*                                                                         *)
(* AWS identifies an instance by its id, GCP by its name: no two live      *)
(* instances have the same, and a name may be used again.                  *)
(***************************************************************************)
EXTENDS Machines

CONSTANTS
  Cmds,    \* the commands
  Kinds,   \* what each of them may be: "up", "add" or "down"
  After,   \* bound: the commands that are over before each one begins
  Aws,     \* node types, numbered in the order of the file
  Gcp,
  Count    \* the number of nodes of each type

Types == Aws \cup Gcp

ASSUME NodeTypeAssumption ==
  /\ Types \subseteq Nat \ {NoType} /\ Aws \cap Gcp = {} /\ IsFiniteSet(Types)
  /\ Count \in [Types -> Nat]
ASSUME CommandAssumption ==
  /\ Nobody \notin Cmds
  /\ Kinds \in [Cmds -> SUBSET {"up", "add", "down"}]
  /\ After \in [Cmds -> SUBSET Cmds]

VARIABLES
  cmd,     \* the commands
  ready,   \* instances on which the setup commands have succeeded
  joined,  \* instances that are workers of the Ray cluster
  ray      \* is there a Ray cluster on the head?

nodeVars == <<cmd, ready, joined, ray>>

CloudTypes(k) == IF k = "aws" THEN Aws ELSE Gcp
Of(S, k)      == {v \in S : vm[v].type \in CloudTypes(k)}
OfType(S, t)  == {v \in S : vm[v].type = t}
Own(c)        == {v \in Vms : vm[v].by = c}
Have(c)       == cmd[c].found \cup Own(c)

Set(c, new)   == cmd' = [cmd EXCEPT ![c] = new]
Over(c)       == [cmd[c] EXCEPT !.at = "over", !.cloud = "aws", !.plan = {}, !.found = {}]
Exit(c)       == Set(c, Over(c))

\* The next phase, of the first cloud, or the same one of the second.
Go(c, at, new) == Set(c, [new EXCEPT !.at = at, !.cloud = "aws"])
Proceed(c, at, new) ==
  IF cmd[c].cloud = "aws" THEN Set(c, [new EXCEPT !.cloud = "gcp"]) ELSE Go(c, at, new)

NodesInit ==
  /\ cmd = [c \in Cmds |-> [kind |-> "none", at |-> "new", cloud |-> "aws", plan |-> {},
                            found |-> {}, seen |-> {}, failed |-> FALSE]]
  /\ ready = {} /\ joined = {} /\ ray = FALSE

\* The command line of command c.
Begin(c, kind) ==
  /\ cmd[c].at = "new" /\ \A d \in After[c] : cmd[d].at = "over"
  /\ kind \in Kinds[c]
  /\ Go(c, IF kind = "down" THEN "look" ELSE "plan", [cmd[c] EXCEPT !.kind = kind])
  /\ UNCHANGED <<vm, ready, joined, ray>>

-----------------------------------------------------------------------------
(* provision_aws_nodes, provision_gcp_nodes and their _missing_ variants     *)

\* _discover_*_nodes_with_indexes: only what runs has an address.
Discovered(k) == Of(Running, k)

\* A defect the runs must catch: the instances are numbered on from the last.
MissingAtTheEnd(t, found) ==
  LET used == {vm[v].idx : v \in OfType(found, t)}
      next == IF used = {} THEN 0 ELSE 1 + CHOOSE i \in used : \A j \in used : j <= i
  IN  next .. next + Count[t] - Cardinality(used) - 1

\* The lowest unused indexes of type t, as many as there are too few.
Missing(t, found) ==
  LET used == {vm[v].idx : v \in OfType(found, t)}
      free == (0 .. Count[t] - 1) \ used
      n    == Count[t] - Cardinality(used)
  IN  {i \in free : Cardinality({j \in free : j < i}) < n}

Plan(c) ==
  LET k     == cmd[c].cloud
      found == IF cmd[c].kind = "add" THEN Discovered(k) ELSE {}
  IN  /\ cmd[c].at = "plan"
      /\ Set(c, [cmd[c] EXCEPT
           !.at    = "launch",
           !.found = @ \cup found,
           !.plan  = UNION {{<<t, i>> : i \in Missing(t, found)} : t \in CloudTypes(k)}])
      /\ UNCHANGED <<vm, ready, joined, ray>>

\* One after the other, in the order of the types and of the indexes.
Due(c) == CHOOSE p \in cmd[c].plan : \A q \in cmd[c].plan :
            p[1] < q[1] \/ (p[1] = q[1] /\ p[2] <= q[2])

Taken(p) == \E v \in Live : <<vm[v].type, vm[v].idx>> = p

Launch(c) ==
  /\ cmd[c].at = "launch" /\ cmd[c].plan # {} /\ Unused # {}
  /\ cmd[c].cloud = "gcp" => ~Taken(Due(c))
  /\ vm' = Launched(Due(c)[1], Due(c)[2], c)
  /\ Set(c, [cmd[c] EXCEPT !.plan = @ \ {Due(c)}])
  /\ UNCHANGED <<ready, joined, ray>>

\* What ending the instances of set S of cloud k by id or by name ends.
Hit(S, k) ==
  IF k = "aws" THEN S
  ELSE {v \in Live : \E w \in S : vm[w].type = vm[v].type /\ vm[w].idx = vm[v].idx}

\* A defect the runs must catch: the name is noted before the insert, so that
\* a name that is taken is rolled back with the others.
RollbackOfTheRefused(c, S) ==
  LET mine == Of(Own(c), cmd[c].cloud)
      due  == {v \in Live : cmd[c].cloud = "gcp" /\ <<vm[v].type, vm[v].idx>> \in cmd[c].plan}
  IN  /\ cmd[c].at = "launch"
      /\ cmd[c].plan # {} \/ cmd[c].cloud = "gcp"
      /\ S \subseteq mine /\ (cmd[c].cloud = "aws" => S = mine)
      /\ vm' = Terminated(Hit(S \cup due, cmd[c].cloud))
      /\ Exit(c)
      /\ UNCHANGED <<ready, joined, ray>>

\* A launch fails, or on GCP the operation it started: what was launched in
\* this cloud is ended.  GCP may refuse a delete and keep the rest.
Rollback(c, S) ==
  LET mine == Of(Own(c), cmd[c].cloud)
  IN  /\ cmd[c].at = "launch"
      /\ cmd[c].plan # {} \/ cmd[c].cloud = "gcp"
      /\ S \subseteq mine /\ (cmd[c].cloud = "aws" => S = mine)
      /\ vm' = Terminated(Hit(S, cmd[c].cloud))
      /\ Exit(c)
      /\ UNCHANGED <<ready, joined, ray>>

\* _wait_and_collect_ips, the operations and _collect_ips.
Collect(c) ==
  /\ cmd[c].at = "launch" /\ cmd[c].plan = {}
  /\ Of(Own(c), cmd[c].cloud) \cap Pending = {}
  /\ Proceed(c, "expand", [cmd[c] EXCEPT !.at = "plan"])
  /\ UNCHANGED <<vm, ready, joined, ray>>

-----------------------------------------------------------------------------
(* cmd_up and _cmd_up_add, after the instances                               *)

\* _expand_node_placeholders: the addresses of a type are sorted by index.
Before(v, w) == vm[v].idx < vm[w].idx \/ (vm[v].idx = vm[w].idx /\ v < w)
Machine(S, t, i) ==
  CHOOSE v \in OfType(S, t) : Cardinality({w \in OfType(S, t) : Before(w, v)}) = i
Expandable(S) == \A t \in Types : Cardinality(OfType(S, t)) >= Count[t]
Referenced(S) == UNION {{Machine(S, t, i) : i \in 0 .. Count[t] - 1} : t \in Types}

Expand(c) ==
  /\ cmd[c].at = "expand"
  /\ IF Expandable(Have(c)) THEN Go(c, "setup", cmd[c]) ELSE Exit(c)
  /\ UNCHANGED <<vm, ready, joined, ray>>

\* _run_cloud_setup: on what this command has launched.  If it fails anywhere
\* in a cloud the command ends; the instances stay.
Setup(c, ok) ==
  LET new == Of(Own(c), cmd[c].cloud)
  IN  /\ cmd[c].at = "setup"
      /\ ok \subseteq new \cap Running
      /\ ready' = ready \cup ok
      /\ IF ok = new THEN Proceed(c, "join", cmd[c]) ELSE Exit(c)
      /\ UNCHANGED <<vm, joined, ray>>

\* bring_up_cluster, a new cluster, and add_nodes_to_cluster, of those it does
\* not have.  Some workers may fail; see ClusterUp.
Join(c, ok) ==
  LET wanted == Referenced(Have(c))
  IN  /\ cmd[c].at = "join"
      /\ ok \subseteq wanted \cap Running
      /\ \/ cmd[c].kind = "up" /\ joined' = ok /\ ray' = TRUE
         \/ cmd[c].kind = "add" /\ ray /\ joined' = joined \cup ok /\ UNCHANGED ray
      /\ Exit(c)
      /\ UNCHANGED <<vm, ready>>

\* The user declines or interrupts, a wait or a query raises, there is no
\* cluster to add to: nothing is rolled back.
Abandon(c) ==
  /\ cmd[c].at \notin {"new", "over"}
  /\ Set(c, [Over(c) EXCEPT !.seen = {}])
  /\ UNCHANGED <<vm, ready, joined, ray>>

-----------------------------------------------------------------------------
(* cmd_down                                                                  *)

\* The file cannot be expanded if there are too few instances of a type, and
\* the command ends with that; if there are none at all it need not be.
Look(c) ==
  LET found == Discovered("aws") \cup Discovered("gcp")
  IN  /\ cmd[c].at = "look"
      /\ IF found # {} /\ ~Expandable(found)
           THEN Exit(c) /\ UNCHANGED <<joined, ray>>
           ELSE Go(c, "list", cmd[c]) /\ joined' = {} /\ ray' = FALSE
      /\ UNCHANGED <<vm, ready>>

\* A defect the runs must catch: only what runs is listed, as for --add.
ListRunning(c) ==
  /\ cmd[c].at = "list"
  /\ Set(c, [cmd[c] EXCEPT
       !.at    = "end",
       !.seen  = @ \cup Of(Live, cmd[c].cloud),
       !.found = Discovered(cmd[c].cloud)])
  /\ UNCHANGED <<vm, ready, joined, ray>>

\* Running, stopped and pending instances of AWS, any of GCP.
List(c) ==
  LET live == Of(Live, cmd[c].cloud)
  IN  /\ cmd[c].at = "list"
      /\ Set(c, [cmd[c] EXCEPT
           !.at    = "end",
           !.seen  = @ \cup live,
           !.found = IF cmd[c].cloud = "aws" THEN {v \in live : vm[v].st # "stopping"} ELSE live])
      /\ UNCHANGED <<vm, ready, joined, ray>>

\* AWS ends all or refuses.  GCP ends one after the other: the first name that
\* is no longer there, or that it refuses, spares the others.
End(c, S) ==
  LET k == cmd[c].cloud
      all == S = cmd[c].found /\ \A v \in S : k = "gcp" => Hit({v}, k) # {}
  IN  /\ cmd[c].at = "end"
      /\ S \subseteq cmd[c].found /\ (k = "aws" => S \in {{}, cmd[c].found})
      /\ vm' = Terminated(Hit(S, k))
      /\ Proceed(c, "over", [cmd[c] EXCEPT !.at = "list", !.found = {}, !.failed = @ \/ ~all])
      /\ UNCHANGED <<ready, joined, ray>>

-----------------------------------------------------------------------------
NodesStep ==
  \E c \in Cmds :
    \/ \E kind \in {"up", "add", "down"} : Begin(c, kind)
    \/ Plan(c) \/ Launch(c) \/ Collect(c) \/ Expand(c)
    \/ Look(c) \/ List(c) \/ Abandon(c)
    \/ \E S \in SUBSET Vms : Rollback(c, S) \/ Setup(c, S) \/ Join(c, S) \/ End(c, S)

-----------------------------------------------------------------------------
(* Properties                                                                *)

NodesTypeOK ==
  /\ cmd \in [Cmds -> [kind : {"none", "up", "add", "down"},
                       at : {"new", "plan", "launch", "expand", "setup", "join", "look", "list", "end", "over"},
                       cloud : {"aws", "gcp"}, plan : SUBSET (Types \X Nat),
                       found : SUBSET Vms, seen : SUBSET Vms, failed : BOOLEAN]]
  /\ ready \subseteq Vms /\ joined \subseteq Vms /\ ray \in BOOLEAN

\* A step of command c.
StepOf(c) == cmd'[c] # cmd[c]

\* chia up and --add end no instance but those they launched, whatever else
\* runs; only a name whose instance was lost may by now be somebody else's
\* ("for rollback on partial failure", gcp_nodes.py).
RollbackSparesOthers ==
  [][\A c \in Cmds : StepOf(c) /\ cmd[c].kind # "down" =>
       \A v \in Live \ Live' :
         \/ vm[v].by = c
         \/ \E w \in Of(Own(c), "gcp") \ Live : v \in Hit({w}, "gcp")]_<<vm, nodeVars>>

\* @t:i is the instance with index i of type t, unless there are two instances
\* of that type with the same, lower index ("so the combined map stays
\* contiguous", provision_missing_aws_nodes).
PlaceholderMeansIndex ==
  \A c \in Cmds : cmd[c].at \in {"setup", "join"} =>
    \A t \in Types : \A i \in 0 .. Count[t] - 1 :
      \/ vm[Machine(Have(c), t, i)].idx = i
      \/ \E v, w \in OfType(Have(c), t) : v # w /\ vm[v].idx = vm[w].idx /\ vm[v].idx < i

\* No instance becomes a worker before its setup commands have succeeded,
\* unless --add found it there, set up or not, launched by another command.
SetupBeforeJoin ==
  [][\A c \in Cmds : StepOf(c) =>
       \A v \in joined' \ joined :
         v \in ready \/ (cmd[c].kind = "add" /\ vm[v].by # c)]_<<vm, nodeVars>>

\* When chia down has come to its end and no call of a cloud has failed, an instance that
\* was there when it listed them is gone, unless it was one of AWS and being
\* stopped.
DownSkipsNone ==
  \A c \in Cmds : cmd[c].at = "over" /\ ~cmd[c].failed =>
    \A v \in cmd[c].seen \cap Live :
      vm[v].type \in Aws /\ vm[v].st \in {"stopping", "stopped"}

=============================================================================
