# CHIA in TLA+

CHIA runs Python functions as Ray tasks on a cluster it brings up itself:
machines on the LAN, cloud instances behind SSH tunnels, containers. This
directory holds specifications of the parts of it where several processes, a
failure or a restart decide whether the program is right, the TLC
configurations that check them, and theorems about them checked by TLAPS. Paths
below are relative to `src/`.

## Inventory

| Part | Code | State | Operations | What is hard |
|---|---|---|---|---|
| Process-leak prevention | `chia/base/pid_registry.py` | thread-local list of pids, table of the registry actor, SIGTERM handler | tracking scope, Popen hook, register / unregister / get_and_remove / kill_all, `chia_cancel`, driver clean-up | interrupts between two bytecodes, asynchronous calls, actor and worker deaths, pid reuse |
| Output cache | `chia/base/cache.py` | LRU index, byte count, pickle files | write, read, evict, flush, warm start, stop | a killed or failed write, files that disagree with the index, restarts |
| Background-job tools | `chia/base/tools/AsyncJobTool.py`, `AsyncBashTool.py`, `chia/chipyard/circt.py` | lock, event, result, thread | start, status, the job thread | two callers and a thread, a raising job |
| Cluster bring-up | `chia/cluster/node_setup.py`, `tunnel.py`, `docker.py`, `config.py`, `chia/cli/up.py`, `down.py` | Ray nodes, ssh processes that outlive the command, containers | assign, `up`, `up --add`, `down` | partial failure, commands over the leftovers of earlier ones, shared tunnels |
| Cloud provisioning | `chia/cluster/aws_nodes.py`, `gcp_nodes.py`, `chia/cli/up.py`, `down.py` | instances and their tags | provision, provision missing, roll back, set up, tear down | a failing phase, instances lost or stopped meanwhile, concurrent commands |
| Stuck-task detection | `chia/base/chia_wait.py` | tracked refs | wait, classify, retry | a timeout against a late answer, bounded retries |
| Dispatch | `chia/base/ChiaFunction.py`, `bypass.py`, `dispatch_proxy.py` | bypass state of a worker, node snapshot, slots of the proxy | remote call, trampolines, get, proxy | a stale snapshot, links that do not exist, nested calls, restarts |
| Tool servers | `chia/base/tools/ChiaTool.py` | port registry, server actors | start, stop | a port taken twice, a server that starts after its time-out |
| Placement and key-value store | `chia/base/colocated.py`, `chia_kv_store.py` | a placement group; a dictionary actor | create, close; get, set | creation by two processes |
| Scoped stop and containers | `chia/cluster/ray_stop.py`, `docker.py` | Ray processes of several clusters on a machine, containers with fixed names | stop, count what is left, set up and remove a container | commands of several clusters at once, whose process it is, who removes the container |
| Tailnet | `chia/cluster/tailnet.py` | an overlay network's nodes | join, relay | an external service |
| Worker provisioner | `chia/cluster/worker_provisioner.py`, `chia/aws/ec2.py` | three lists of instances and containers | provision, provision_pool, teardown_pool, teardown | leaks after failures, lists that disagree |
| LLM backends | `chia/models/claude.py`, `codex.py`, `copilot.py`, `antigravity.py` | session fields of the driver's object and of the workers' copies, the clients' session files | prompt, restore, run, capture, sync on `get()` | a prompt that runs on another machine, repeated attempts, a worker's death |
| FireSim | `chia/firesim/run_node.py`, `build_node.py`, `suite_runner.py`, `chia/aws/host.py` | phase of a build and of a run, screen sessions and logs on instances, objects in S3, the window of a suite | build, run, suite | ssh that fails without an exception, long commands polled through a file, instances that die, results of an earlier attempt |
| Other backends, databases, other hardware flows, GitHub, AWS helpers, tracing, analysis, command line | `chia/models`, `chia/database`, `chia/chipyard`, `chia/esp`, `chia/simulators`, `chia/vlsi`, `chia/github`, `chia/aws`, `chia/trace`, `chia/analysis`, `chia/cli` | mostly none of their own | external tools and services | parsing and process I/O |

How they meet: `ChiaFunction`'s trampolines run every remote task inside the
tracking scope of the PID registry; `get()` writes to the output cache; a
bypass provider reads it; `chia_wait` and users call `chia_cancel`; tools run
as actors on the nodes that the cluster bring-up registered; the Popen hook sees
the subprocesses of tools and flows that run inside a task. `chia_wait` watches
calls that `ChiaFunction` sent, so `ChiaWait` extends `Dispatch`; `chia up` and a
`WorkerProvisioner` draw on one cloud account, so `CloudAccount` extends both
their modules, which share `Machines`. The commands of one cluster meet the
workers of the cluster itself (`ClusterUp`) and, on shared machines, those of
other clusters (`SharedHosts`); `ClusterLife` extends both. An LLM agent has a
conversation (`Conversation`) and background jobs (`AsyncJob`); `AgentLife` extends
both. FPGA builds (`FpgaBuild`) and simulations (`FpgaRun`) meet in S3 and both work
on EC2 instances over ssh (`RemoteHost`); `FireSim` extends both. The other modelled
parts interact through Ray only and are specified one by one.

What makes each part correct: no process outlives a cancelled task unknown to
everybody (registry); the cache never
returns a value that was replaced or removed, and keeps its budget (cache); a
result is reported for the job that produced it, and every job that ends becomes
done (tools); a command that adds or cleans up leaves what is healthy alone
(cluster), and of two clusters on one machine each stops its own and the last
removes the container (shared hosts); a call hangs for want of a link only where the caller could not know,
and a hung call is found and made again (dispatch, stuck tasks); no instance and
no container is forgotten, and no roll-back ends what is not one's own (cloud,
provisioner); a conversation grows by the turn of each answer, wherever the next
prompt runs (LLM backends); a simulation is a success only if it passed, with a
driver no older than its image, and every instance is given back (FireSim). Some of
these hold with exceptions only; the properties name them, and the section on
disagreements says which document is contradicted.

## Modules

| Module | Contents |
|---|---|
| `PidRegistry` / `MCPidRegistry` / `PidRegistryProofs` | tracking scope, registry actor, cancellation, driver clean-up |
| `LossyStore` | what the cache promises to its callers |
| `CacheStore` / `MCCacheStore` / `CacheStoreProofs` | the cache actor and its files; refines `LossyStore` |
| `AsyncJob` / `MCAsyncJob` | the background-job tool |
| `Conversation` | a conversation with an LLM that moves between machines |
| `AgentLife` / `MCAgentLife` / `AgentLifeProofs` | the conversation and the jobs of an agent; extends `AsyncJob` and `Conversation` |
| `ClusterUp` / `MCClusterUp` / `ClusterUpProofs` | bring-up, extension and teardown of a cluster |
| `SharedHosts` / `SharedHostsProofs` | the commands of several clusters on the same machines and in the same containers; the proofs also join them with those of `ClusterUp` |
| `ClusterLife` / `MCClusterLife` | both sides of a command; extends `ClusterUp` and `SharedHosts` |
| `RemoteHost` | how a command on an EC2 instance may end |
| `FpgaRun` | FPGA simulations on an instance of their own; extends `RemoteHost` |
| `FpgaBuild` | FPGA builds and what they publish; extends `RemoteHost` |
| `FireSim` / `MCFireSim` / `FireSimProofs` | a suite of runs and the builds it draws on; extends `FpgaRun` and `FpgaBuild` |
| `Dispatch` | where a call goes: direct or through the proxy on the head |
| `ChiaWait` / `MCChiaWait` / `ChiaWaitProofs` | a driver that collects calls with `chia_wait`; extends `Dispatch` |
| `Machines` | the instances of a cloud account |
| `CloudNodes` | the cloud phases of `chia up`, `--add` and `chia down`; extends `Machines` |
| `WorkerPools` | a program's `WorkerProvisioner`; extends `Machines` |
| `CloudAccount` / `MCCloudAccount` / `CloudAccountProofs` | an account and what uses it; extends `CloudNodes` and `WorkerPools` |

Definitions under a comment "Mutant of X" or "A defect the runs must catch" are
broken variants of the definition after them. Each property of a passing run has one that
violates it (listed under `mutants` in `PROJECT.json`), which shows that the
property says something about X.

### PidRegistry

A task goes from `queued` through `running` to an end. `phase` also splits a
Popen: `spawned` is after the real `Popen.__init__` (line 234), `listed` after
the append to `_tls.tracked_pids` (242), and `Register` is the
`register.remote` (248). An exception may come in any of the three, since Ray
raises a cancellation asynchronously. `Unwind` is the scope's `except
BaseException`, `killing` the phase inside `_kill_local_pids`, `LeaveScope` the
`finally`. `cut` is the end of a task whose local kill was itself interrupted,
`killed` that of a task whose worker died.

Calls to the registry go through `inbox`, one FIFO queue per caller as Ray
guarantees for actor calls of one process; `Serve` applies one. The actor serves
nothing while it is inside `kill_all` (`driver = "killing"`). A kill is a job that
ends with `KillPid`: `_wait_for_death` sees the process gone, or SIGKILL ends it. A
pid is a (node, pid) pair, and that of a process that has exited may be given to
another, of any task; a kill job ends whatever has its pid then.

The registry has a name, and a process that looks for it when there is none makes
one (`GetRegistry`). It keeps the handle it found: `handle` of a task and `main` of
the driver may be that of the actor of today, that of one that has died, or none.
Calls to a dead one are lost, or raise when they are waited for. A task that finds
no registry runs untracked.

`chia_cancel` is five steps: the look for the registry (`CancelBegins`), which in the
driver installs the SIGTERM handler the first time; the answer of `get_and_remove`
(`CancelFetch`), from which on the pids are in `fetched` and nowhere else; the
dispatch of their kills (`CancelDispatch`); `ray.cancel` (`CancelSend`); and its
arrival (`CancelArrives`). Between any two the task, the actor and the SIGTERM handler
may go on, and an exception in the second or third (`CancelBreaks`) leaves the
pids not dispatched to nobody. The handler has a time-out of its own
(`DriverTimesOut`), which `StopEnds` does not rely on.

The environment actions, `CancelArrives`, `JobInterrupts`, `JobKills`,
`JobDropsKill`, `RegistryDies`, `Die` and `Exit`, are what Ray and the operating
system do. `RegistryDies` may happen at any time: the actor is not detached and
ends with its creator.

Not in the model: two processes that create the actor at once (Ray's named
actors resolve it), threads started by a task (the hook is thread-local, so
their subprocesses are not tracked), grandchildren outside the process
group, and the call of `kill_all` that `chia job stop --kill-tracked-pids` makes
before the job is stopped (`chia/cli/job.py`).

### CacheStore and LossyStore

The actor is single-threaded, so a method is one action. The exceptions are
the places where it can stop half-way: `StoreRaises` (the write fails after the
victims are gone) and `StoreDies` (the actor is killed during the evictions or
during the write). The `OrderedDict` is the set `index` with the relation
`older`; the modification times are the relation `written`, which survives a
restart while `older` does not. `Victims` states the eviction loop: the shortest
front of the order that makes room, or everything. `_unlink` puts up with a missing
file and with no other error: an eviction, `evict` and `flush` may raise in their
midst (`EvictionRaises`, `EvictRaises`, `FlushRaises`), with the entries gone and the
files not.

`faults` is chosen once: when it is false, opening, reading and deleting an intact
file works and only damage and crashes happen; when it is true any of them may
fail and leave the file as it is. `NothingEscapes` and the refinement are about
the first case.

`LossyStore` is a map that may forget but never invents, and in which forgetting
is final. `IsLossyStore` is the refinement: `store` is the intact files. It says
that no overwritten, evicted or flushed value is ever returned again, restarts
included.

### AsyncJob

`Launch` is the locked body of `_job_start`, `Wait` the `Event.wait` outside the
lock, `Answer` the locked end of `_job_status`. The thread goes through
`working`, `stored` (result stored under the lock), `set` (event set after it)
and `dead`; `is_alive` is true in the first three. `DoneIsCurrent` is weaker
than one might expect: a caller whose wait ended with job 1 may report job 2 as
done between job 2's `stored` and `set`; then a later status says "running"
again. The model showed this; no document rules it out. `ResultIsReported` asks that
a result that is there is told to whoever keeps asking, whatever starts other
callers try in the meantime.

### Conversation and AgentLife

`driver` holds the session fields of the driver's object: the session to resume,
the transcript carried along (`_session_transcript`, or `_session_state` of
`codex.py` and `copilot.py`) and, for Claude, whether `_call_counter` is above zero.
A prompt works on a copy (`prompt.self`), at a machine that Ray picks; `disk` is
what the client of each machine has on file. An attempt is `Restore`, a run
(`Answers`, `IsRefused`, `Fails`, `DoesNotStart`) and, after an answer, `Capture`;
`AfterError` is the `except` clauses and the next round of the loop. `Get` is the
callback that `get()` runs: the worker's copy is thrown away, and only what the
reply holds comes back.

`cli` is one of three clients. `claude` names its session beforehand and must be
told whether to create or to resume it; `codex` (`copilot` does the same) learns
the name from the output, also of a run that failed, and refuses to resume what is
not there; `agy` starts a new session then, and writes to a side file that
`Capture` folds in. What they do with their files is external, taken from how the code calls
them and from its comments.

A failed attempt may or may not have written the question, `written`, and its
name, `named`. `WorkerDies` is Ray's repetition of the task with the same
arguments; `SetUpAfresh` a machine or container that lost its files. Before
the first answer nothing is carried, and what failed attempts wrote may be part
of the session: `Grows` leaves that open and asks for the rest.

After an answer `Capture` may not find or not open the file (`CaptureMisses`), take
`agy`'s main file without its side file (`CheckpointFails`), or raise, and then the
loop sends the answered prompt once more (`CaptureRaises`). Such an answer comes without its
transcript, `bare`: what the driver holds then stays what it was, so the turn is
missing from the conversation and the ones before it are not.

Assumed: the driver gets one reply before it sends the next prompt, as the examples
do; the output of an answer names its session, but for `agy`'s.

`AgentLife` composes the two: an agent's conversation and its jobs have no
state in common, so a behaviour shows the one or the other (`view`).

### ClusterUp

`Assigned` is `assign_nodes`, `Addressed` is `allocate_worker_tunnels`,
`Missing` is `compute_new_assignments`. A command (`op`) starts its tunnels in
order (`StartTunnel`), then sets up its workers, one machine at a time in order
and the machines in parallel (`SetupWorker`), then cleans up (`Finish`). The
first tunnel of a machine *in a command* is the relay. `procs` are the `ssh -N`
processes on the head, `sessions` the addresses held by the machines' sshd, which
may outlast a dead ssh process. A command may stop early (`StartTunnel`'s
second disjunct, `HostCommandFails`, a head that does not start) and leaves
everything it started.

Not in the model: cloud phases and concurrent commands (see `CloudNodes`),
tailnet clusters, port numbers and `kill_orphaned_tunnels: false`
(the default is true).

### SharedHosts and ClusterLife

`ray` is the set of pairs of a cluster and a place where its Ray runs; a place is
a machine or a container. A cluster runs one command (`task`), which is at one
step at each place (`at`); a worker's steps follow the order of
`setup_worker_node` and `tear_down_worker_node`, workers are handled in parallel,
and the head comes first in an `up` and last in a `down`. Each step is a script or
a docker command that runs by itself over SSH, and nothing but what is on the
machines relates two clusters.

Set-up: `Inspect` is the look of `setup_container` at what has the name,
`RemoveStopped` and `RunContainer` its two ways to go on, `Wipe` the `ray stop`
that a file may have among the commands that start Ray (`Blanket`), `StartRay`
the start. Teardown: `ScopedStop` and `CountForeign` are `selective_ray_stop` and
`count_foreign_ray_processes`, `BlanketStop` the stop of `--no-scoped`,
`DockerStop` and `DockerRm` the removal of a container in which nothing foreign is
left. `Unread` is a script that ends with 0 and prints no `CHIA_RAYSTOP` line: nothing was
stopped, the count is None, and None is no reason to keep the container. `Fails` is a failure at one place that leaves the others alone; a cluster is
`clean` when its last command was a `chia down` that met none. Between two steps
Ray may die (`RayDies`), a machine restart (`BoxStops`) and a command be
interrupted. `old[c]` is a history variable: what has been running since before
the command of `c`.

`OthersAreSpared` is weaker than one might wish. A container is removed in three
steps after a count of what is in it, so Ray that another cluster starts in
between is lost with it; the property protects what ran before the command, and
not from a `chia down` that could not read the count.

`ClusterLife` puts the two sides together: a behaviour of its specification is one
of the one or the other (`view`), as the two share no state.

The Ray of a cluster stands for its raylet, whose command line carries the address
of the head. Processes that carry none are neither stopped nor counted as foreign
(`ray_stop.py:362-365`) and end with their raylet; they are not in the model. Nor are
tunneled workers of two clusters with equal loopback addresses, or two commands at
once for one cluster (see `CloudNodes`).

### Dispatch and ChiaWait

A call is a record: its state, the options it was made with (`want`), the route
`should_proxy` chose, the node that owns the task, the node Ray picked and the
snapshot that judged it (`saw`). `SendUnchecked` is a bypassed call and one with
`num_returns > 1`, `SendByEnv` the fallback when the analysis raises,
`SendJudged` the analysis on the process's snapshot; `Expire` is the end of its
five seconds. A call of the relay is `queued` until a slot of the proxy's
`max_concurrency` is free (`Serve`) and holds the slot until it is over
(`Held`). Ray (`Place`, `Finish`, `NodeJoins`, `NodeFallsSilent`, `NodeDies`) is
external: it places a task on a node that has the resource free, and the task
hangs there if its owner has no link to the node or the raylet is silent.

The body of a call may make one more call and wait for it (`Nest`,
`st = "asking"`); deeper nesting is left out. A body has one process, so one
snapshot. One unit of each kind of resource per node. `SendByEnv` and the
snapshot end with the worker process: a node that dies takes them along.

In `ChiaWait`, `phase` is where the driver stands: outside, inside `ray.wait` with a
timeout (`waiting`) or without one (`blocked`), woken, or in the loop over stuck
calls. Each call of `chia_wait` chooses whether it has a timeout. `Age` is the passing of
`pending_timeout`, longer than the life of a snapshot. `_retry_stuck` is two
actions, `Cancel` and `Resubmit`, since the call may have started, or finished,
between the judgement and the cancellation, and since `submit_fn` may raise in
between (`ResubmitFails`). A call of the relay is an actor task to its caller and
never counts as `PENDING_NODE_ASSIGNMENT`: `chia_wait` does not retry it.

### Machines, CloudNodes, WorkerPools and CloudAccount

`Machines` says what the clouds do: an instance is created pending, boots, may be
reclaimed or stopped from outside (`Mortal`), and is gone at once when it is
ended. The two clouds differ in one thing that matters, and the model keeps it:
EC2 knows an instance by its id, Compute Engine by its name, of which there is
never more than one (`Taken`) and which may come back (`Hit`).

In `CloudNodes` every command is a process with a phase `at` and the cloud it is
busy with, AWS before GCP; nothing but the account and the Ray cluster is
shared between two commands. `Plan` is the discovery and the choice of the free
indexes, `Launch` one instance, `Rollback` the exception handler around the
launches, `Collect` the wait for addresses, `Expand` the placeholders, `Setup`
the set-up commands, `Join` the cluster bring-up (see `ClusterUp` for what it
does inside). `Look`, `List` and `End` are `chia down`. `Abandon` is everything
that ends a command without a clean-up: a declined question, an interrupt, a
query that raises.

`WorkerPools` has the three records of a `WorkerProvisioner`, which the code
keeps in step by hand: `inst`, `flat`, and the lists of containers as `keyed` and
`listed`. One container stands for those of a pool, since every provisioning
gives the same names again. A docker command may fail, which the code ignores for
`docker rm -f`, and may be given up after 120 seconds, which raises: a container that
was not removed although its name is dropped is one of the `strays`, a `docker run`
that was given up is `late` and may still start the container (`LateRun`), and a removal that raises
leaves the name in `_container_names` only (`left`). `ContainersAreListed` says of every
container that runs in which of these records it is. `Provision` is `provision` and `provision_pool` (one
of the two numbers is 0).

Abstractions: two instances of the same index keep the order of their launches
(AWS returns them in some order); the discovery of `chia down` is one step for
both clouds; the head always starts; the types have set-up commands; the file
refers to every instance it asks for; a program does not use EC2 while a cluster
is changed, for the two have no instance in common.

### RemoteHost, FpgaRun, FpgaBuild and FireSim

`SSHClient.run` ends in one of three ways (`Outcomes`): the command ran; ssh failed,
which is exit code 255 and no output, and an exception only with `check=True`; or
the time-out passed, which always raises. Every step that talks to an instance
takes each of them, the step does with it what its caller in the code does, and a
command on an instance that has gone never runs. Failures are bounded by
`MaxFaults`, those of the ssh of live instances, of AWS and of machines together.

`FpgaRun`: one record per run, with the phase `at`, the slot a loop has come to, the
attempt, and, as the instance has it, the session, the leftover session and the log of
each slot. `SetUp` is `_infrasetup_host`, `Boot` `_start_sim_slot`, `Poll` one
`_check_sim_complete`, `Scan` the search for a hang at cycle 0, `Quit` and `Reset` what
precedes the next attempt, `Kill` what a time-out brings, `Collect` the download of
a slot, which may fail before or after the log was replaced, with the verdict
(`Judged`) or an exception of its `open` or `read`, `End` the `finally` and `Waited` the wait in
`terminate_ec2_instances`. `LaunchInstance` may be refused and ask again, as
`launch_ec2_instances` does for a quota that lags. A flow of this kind is interesting for what it takes for
granted, and the model keeps that: a poll that failed looks like a session that has
gone (`TakenForGone`), `screen -X quit` does nothing when two sessions have the
name, an unchecked removal may leave the log of the attempt before, and a download
that fails leaves what a directory held (`shared`).

`FpgaBuild`: one record per build. A long command is `StartLong`, `PollLong` until
the file with its exit code is there, and `ReadLong`; the same three serve the docker
pull with its repetitions, the elaboration, the driver, the clone of aws-fpga and
Vivado, because `_run_long` uses the same files for all. `LeftoverEnds` is the
end of a pull that had been given up. `Put` writes the driver, `build-info.json` and the
latest pointer, and a write of which ssh reports a failure may have been done; `Fetch`
is what follows on the head, and fails a build that has published everything.
`bucket` keeps for each build id the drivers in the order of their upload, which is
what `DriverNotOlder` compares with the image.

`FireSim` adds the suite: `StartSuite` resolves the build once and submits the first
window, `Report` is `ray.wait` returning a run, after which the next one is submitted.
`Plans` says what users ask for. `Ray` may run a run again whose worker died
(`RunnerDies`); the instance of the first is lost track of (`strays`), which the
code does not prevent: `QuotaIsReleased` counts the instances a run holds, and says so. A
build whose worker dies is `lost`, and a spare one may begin afresh under the same id
(`BuilderDies`, `StartBuild`).

What the properties leave open, they say: a run whose download failed may
report the success of an earlier run in the same `results_dir` (`SuccessIsEarned`;
`SuccessMeansPassed`, without the exception, is violated),
and a build may take the exit code of a pull it had given up for that of another
command (`StepsAreOwn`).

Abstractions: all slots of a run are on one instance and get the driver at once;
the time-outs and half hours are choices; Docker, Vivado, the tools of AWS and the
simulations are the environment, of which nothing is assumed.

## Runs

| Run | Bounds | States | What it shows |
|---|---|---|---|
| `pid_registry` | 1 task, 2 pids, inbox of 2, any number of registries one after another | 316,974 | a live process can be found, entries do not go stale, completed local kills are complete, a delivered cancellation ends the task and kills the listed processes, the driver's handler ends |
| `pid_leak` (violation) | 1 task, 1 pid | | `chia_cancel` misses a process whose registration is still on its way |
| `cache_store` | 3 tags, values of size 1, 2, 3, budgets 2 and 4, symmetric | 28,851 | accounting, recency, refinement |
| `async_calls` | 2 callers, 3 jobs; or 3 prompts with each of 3 clients, 2 machines, 2 attempts per prompt, 1 death of a worker, 2 sessions | 1.10 million | results belong to the last job and reach who asks; a conversation grows by exactly the turn of each answer |
| `async_raise` (violation) | 1 caller, 1 job | | a job that raised is never done |
| `cluster_up` | a tunneled and a LAN machine, 2 types of up to 2 workers; or 2 clusters with workers in one container and on one machine, one of them with `ray stop` in its commands, heads on another machine; the file may be edited between commands | 1.34 million | survivors and tunnels of registered workers; of two clusters each spares the other, and the last one to leave a container removes it |
| `cluster_add` (violation) | one LAN machine, 2 identical containers | | `--add` stops a healthy container's Ray |
| `cluster_relay` (violation) | one tunneled machine, 2 workers | | a failed `--add` stops the relay of registered workers |
| `dispatch_wait` | 4 nodes, one of them tunneled and joining later, 2 calls of the driver and a nested one, 1 slot, 1 retry, 1 restart of the proxy, waits with and without a timeout | 398,158 | calls hang only at newcomers, ready calls rest, hung calls are retried unless the wait has no end, the proxy serves unless jammed |
| `cloud_account` | 2 AWS nodes and a GCP node; an `up`, an `--add` beside it, an `--add` or a `down` after the `up`; 4 instances, 2 of them mortal; or a program with pools of 1 worker, one of them in a container, and 2 instances | 1.14 million | roll-backs end only their own, placeholders mean the index, a `down` that succeeds leaves nothing; no instance or container of a provisioner is forgotten |
| `fpga_flow` | a suite of 2 runs of 1 simulation, a run of 2 simulations in a used directory, a run beside a build that publishes under its id or another, one build, or one that is built again if its worker dies; 2 attempts, 2 pulls, a window of 1, 2 failures (1 where another part has used one) | 519,943 | successes are earned, drivers fit, the quota is released, exit codes are a command's own, runs are reported and builds end |
| `fpga_reuse` (violation) | as `fpga_flow` | | an earlier run's log in `results_dir` makes a lost run a success |

Why the bounds are enough. Tasks meet only in pids that are used again and in
`kill_all`, so the registry is checked with one task and proved for any number; two
pids are one process known and one in a Popen, or one process and the next that is
given its pid. Two calls in an inbox are a registration overtaken by an unregister.
Three
tags with sizes 1 to 3 under budgets 2 and 4 give stores with no, one and two
victims, an item larger than the budget and a warm start over it. Two callers
and three jobs let a caller hold a flag of a job two starts ago. Three prompts on two
machines let the conversation come back to a machine that has an older copy of
it, with a failed attempt in between; two sessions are the one carried and one that a
failed attempt has made (a further new one is not tried: `Ids`). In `ClusterUp`,
the tunneled machine gets up to four workers, so a relay and tunnels that depend
on it, of two types, one in containers and one bare; commands repeat without
bound. In `SharedHosts` two clusters are what a lost or a forgotten container
needs; their commands repeat and overlap without bound, one of the two has the
blanket stop in its commands, and the proofs cover any number of clusters. In `dispatch_wait` the calls of the driver are one that may be
unchecked and one whose strategy is not analysed and so takes the relay; its
nested call is pinned to the LAN node, from the LAN node itself or from the
tunneled one; one slot is enough for a call to jam the proxy with a nested one,
and one node that wedges or dies (`Frail`) for a retry, a second placement and a
lost snapshot. Only two of the calls may lose their analysis (`Shaky`). In
`cloud_account` the index of a lost instance is free while a later one is taken,
two commands launch the same index, a GCP name is refused, or taken again after
its instance was lost; commands are ordered by `After` so that at most two run at
once. Two instances (`Spots`) let a program provision a pool over the leftovers
of an earlier one, or two pools at once, and one pool with containers (`Boxed`) is all that they
need, as pools do not share a container. In `fpga_flow` two failures are what a wrong success
would need (a log that stays and a poll that is lost), two attempts a session and a log
of the one before, two simulations a slot that has passed beside one that hangs, two
pulls a leftover beside the present command, and two builds of one id an image
whose driver is replaced, or a build and its repetition; a window of 1 makes a second run wait for the instance of
the first.

`CHECK_DEADLOCK FALSE` is set everywhere: a driver that has exited, a job bound
that is reached and a finite set of pids are all legitimate ends.

### Fairness

Only what the code's own scheduling does is fair. `PidRegistry`: the steps of
the hook and of the local kill (`List`, `Register`, `EndKill`), the actor's
loop (`Serve`, `KillAll`), kill jobs (`KillPid`), the end of the driver's handler
(`DriverExits`, not its time-out), and Ray's delivery of a cancellation. Each is a thread that has nothing to wait for but a bounded
poll. Nothing is assumed of the user's function, of the processes (they may
ignore SIGTERM) or of the caller of `chia_cancel`. `AsyncJob`: bounded waits
end, the lock is free again after a few statements, a thread that has its result
finishes; `work` may run for ever. Nothing is assumed of a conversation. `ChiaWait`: functions return, Ray
places what it can place and the proxy serves (`Work`, weakly as a whole); the
clock runs on (`Expire` of the driver's snapshot, `Age`); the driver goes on with
its loop (`Driver`), and the state API does not fail for ever (strong fairness of
`Classify`, which is enabled again and again). Nothing is assumed of nodes,
restarts or new calls. `FireSim`: runs and builds go on with
their code, every wait of which is bounded but that for an image, deadlines pass, and
`ray.wait` returns; nothing is assumed of simulations, commands or AWS, nor of the poll
for an image, which is why `FlowsEnd` excuses a build that stays there. `CacheStore`, `ClusterUp` and `CloudAccount` have no
fairness and no liveness property: a cloud may refuse everything for ever.

## Disagreements between the code and its documentation

Five runs end in a violation; `findings` in `PROJECT.json` quotes the lines.

1. `chia_cancel` looks the pids up before it cancels the task. A process whose
   registration has not arrived by then is missed, be it spawned before the look (as
   in the trace) or after it; with `force=True` nobody kills it.
2. A `work` that raises leaves `done=False, running=True` for ever; a job whose work
   returns never does (`ReturnedIsDone` in `AgentLifeProofs`).
3. `chia up --add` matches identical workers by number: if worker 0 died, or failed
   in the `chia up`, the healthy worker 1 is set up again and its Ray stopped.
4. The clean-up after a failed `--add` considers only the new workers of a
   machine and may stop the relay that registered workers depend on. That of `chia up`
   does not (`UpCleanupSparesMachine` in `ClusterUpProofs`).
5. A run's `success` is "true only if every slot exited 0" (`run_node.py:580-583`): a
   download that fails is passed over, and the log of an earlier run in the same
   `results_dir` is judged in its place.

Others the models showed, which have no run of their own. The first ones are exceptions
that a property states, so that the rest of the promise could be checked and proved:

- "`ray job stop` kills all tracked subprocesses before exiting"
  (`pid_registry.py:197-198`, also 91-93 and 108): not if the driver never looked
  for the registry itself, if its handle is that of an actor that has died, or if a
  `chia_cancel` has just taken the pids out (`fetched`, the last case of `Reachable`);
  an exception in `chia_cancel` (line 467) loses those pids for good.
- "you can grow a running cluster ... without downtime"
  (`docs/user_guides/logical_workers.rst:335-338`): the addresses of tunneled workers are
  dealt out anew from the edited file; more workers of an earlier type move those of
  the later ones, and `--add` kills the live tunnel of a registered worker for the
  new owner of its address (`DealtAnew`, the exception in `AddSparesTunnels`).
- "caching can never turn a 'must proxy' into an incorrect 'direct'"
  (`dispatch_proxy.py:87-89`) and "proxy unless we can *prove* every possible landing node is
  directly reachable" (line 66): a tunneled node that joins after the
  snapshot was taken is not looked at, and a call judged direct may land there and
  hang (the exception in `HangsOnlyOnNewcomers`).
- "Return when at least num_returns tasks are ready, or after pending_timeout seconds
  of no progress" (`docs/user_guides/chia_function.rst:217`): stuck calls are looked for only
  after `ray.wait` has returned. With the default `timeout=None`, also in the example
  below that comment, and nothing else to finish, it does not return
  (`StuckInWait`, the exception in `HungIsRetried`).
- "remove the container only if no other cluster's Ray remains in it"
  (`node_setup.py:1067-1070`): a scoped stop that ends with 0 and without its line
  gives the count None, and the container is removed (`Unread`, the exception in
  `OthersAreSpared`).
- "so we can key the S3 path by AGFI" (`build_node.py:1263-1264`): the path of a driver is
  keyed by the id of the build, so a later build with the same id puts its driver in
  the place of the one a run is about to fetch (why `DriverNotOlder` allows a later
  one).
- `flush` deletes the pickles the index knows ("Clear ALL entries: delete every
  pickle", `cache.py:251`); an entry dropped after a failed open or read leaves its
  file, and a restart brings the flushed value back.
- "On any SSH error or timeout, treats the state as unknown and returns False (keep
  polling)" (`run_node.py:368`): an ssh that fails prints nothing and raises nothing,
  and `_check_sim_complete` answers True. A simulation under way is then collected
  and reported as failed (`TakenForGone`; `build_node.py:449` has the right test).
- A run with more simulations than one instance has FPGAs passes the number of
  the simulation as that of an FPGA (`run_node.py:230`).
- A build whose instance AWS would not terminate, or whose artifact cannot be copied to
  the head, is reported as failed although it has published everything (`Leave`,
  `Fetch`): the exception takes the place of the result.
- A look for aws-fpga that ssh loses prints neither of the two words the code
  searches for, and the clone is left out (`SkipClone`); Vivado then fails.
- `WorkerProvisioner.teardown` ("Remove all provisioned workers across all
  pools", `worker_provisioner.py:228`) visits the pools that have local
  containers and the flat list of the last EC2 provisioning: the instances of an
  EC2 pool provisioned before that stay, and are still in `_pool_instances`
  (`InstancesStayKnown` says no more than that). A container whose `docker rm -f`
  failed unseen, or whose `docker run` was given up and succeeded later, stays too,
  and is in no list (`strays`, the exception in `ContainersAreListed`).
- `teardown_pool` removes a pool from both lists before AWS has agreed to end
  it, and an error other than one of capacity leaves the launch loop before
  anything is recorded: the exceptions of `InstancesStayKnown`.
- A provisioning that fails calls `teardown`, which ends the containers and
  instances of the other pools too.
- After a failed `up` the command advises `chia down` (`up.py:338`), but `down`
  ends with a `ConfigError` when some, but not all, instances of a type run
  (`down.py:73`, `Look`): nothing is terminated.
- `--add` never fills the index of a stopped GCP instance: the instance keeps
  its name, and is not discovered (`gcp_nodes.py:676`).
- `chia down` passes over an AWS instance that is being stopped.
- A cluster named `evolve` shares its tag with the instances of every
  `WorkerProvisioner` (`worker_provisioner.py:937`); the model keeps the two
  apart.
- `_sync_transcript` of `claude.py` advances the counter of the driver also after a
  failed prompt (line 581). When the first prompt fails, no transcript is carried,
  and every later prompt asks to resume a session that only the first machine may
  have: elsewhere it fails, for ever. `codex.py` and `copilot.py` get there by
  adopting the name of a session without its state.
- Read in the same code, but outside the model: `_run_claude_streaming`, the
  default, waits for the client without `timeout_seconds` (`proc.wait()`); two
  prompts at once on one object each carry the same transcript, and the reply
  collected last is the one kept; restoring a Codex or
  Copilot session overwrites the index of all sessions of that machine.
- "Docker workers have isolated PID namespaces, so ray stop is always safe"
  (`node_setup.py:625`), and "`ray stop` is also safe on a shared host"
  (`docs/user_guides/cluster_config_reference.rst:850`): the workers of two
  clusters of one user may be in one container or on one machine, and the
  `ray stop` in the commands of the second ends the Ray of the first (`Wipe`, the
  exception in `OthersAreSpared`).
- "CHIA only supports one head node per physical machine" (`quickstart.rst:147`),
  while the cluster reference has a section on several heads on one machine, and
  the tests of `chia/cluster/test/multi_cluster` and `test/down` run two; the
  model has them all on one.

## Proofs

TLAPS checks the following for every value of the constants, from the named
assumptions on them (sizes are positive numbers, `Nobody` is no task, ...).

`PidRegistryProofs`. Type correctness needs `PopenOK`, which ties the pid in the
frame of the Popen hook to the phase. `CleanUnwind` is not inductive: it speaks
only of tasks that have ended. Its invariant `UnwindInv` follows each live
process from the Popen in progress to the local list, and from there to the kill
job that waits for it; `LocalListComplete`, which is in no run, is a part of it. `NoStaleEntry` needs
`InboxInv`: the inbox of a task that left its scope is empty or ends in its
unregister, so the last call served clears the entry. `Reachable` needs `ReachInv`: a live
process of a task whose registry is alive is known to it, on its way there, in the
hands of a `chia_cancel` or the target of a job of its own
task (a job of another may be dropped), and the inbox of a task in its scope
holds registrations only, so nothing wipes its entries; that a task that starts has
neither calls nor processes is `InboxInv` and `UnwindInv`. Pids may be used again
throughout.

`CacheStoreProofs`. `StoreInv` joins four facts: the shape of the state, total
order of the index, total order of the files, and `NothingEscapes`. The first
total order (`OrderIsTotal`, which is proved and in no run) needs the second at a warm start, and the refinement needs
`NothingEscapes` at a store, because an unindexed file would be overwritten
without having been a victim. `CacheIsLossyStore` is the refinement itself.
`Accounting` is about a sum over the index, which the model computes with a fold
of the community modules. What a fold yields for every finite set is a statement
by induction, and the library's induction theorems cannot be applied (they take an
operator); so the lemmas about `Sum` do it with sets: the strict subsets of a finite set
are well-founded, hence a set of counterexamples has a least member, and that one
has none. They show that the fold's recursive function exists and is unique, and
from that what adding to and removing from the index does to the sum. `SizeInv` joins
to `StoreInv` that `Accounting` holds and that the index and the intact files are
finite: a store's victims are finite, and the total is a number (`CacheTypes`).
`RecentSurvives` needs `LastUsed`, that what a call used last is the last of the order;
the eviction takes the shortest front that makes room, so it stops before that entry
if both fit. `StoreFits`, in no run, says what the eviction is for: a store that succeeds
leaves the cache in its budget, although a warm start may have left it above.

`ClusterUpProofs`. The assignment is computed by recursive functions, and the
library's induction theorems cannot be applied, so `RecursionExists` shows by the
least counterexample that a function with given first value and step exists;
what `Assigned` does at each worker follows from its step the same way.
`EvenSpreadHolds` needs that the pool's least loaded machine is taken every time
(`PlaceSpreads`), and every later proof that an address, and a container's name,
belongs to one worker (`DesiredProperties`; types are taken as distinct).
`UpInv` says of a `chia up` that no worker is registered but those it has set
up, that each worker is still to do, done or failed, and that the tunnels and the
relay it started are there unless the machine was cut off; a machine whose
workers did not all fail is none of those `Abandoned` cleans up, which gives
`UpKeepsSurvivors`. For `--add`, `AddInv` says that a running one has nothing to do for a
worker with the address and the type of a registered one, unless it has set that one
up itself: `Missing` takes a registered worker for present however the file was edited,
and no two of a file share an address (`RegisteredIsNotMissing`). An address that an edit
gave to a worker of another type (`DealtAnew`) is out of its reach.
`AddressesAreOwn` states of the assignment, for any file, what the commands rely on:
no address and no name is dealt out twice. `UpCleanupSparesMachine` is the part of
`CleanupSparesRelay` that does hold: the clean-up stops a tunnel by its address,
and in a `chia up` what has the address of a tunnel it started leads to that worker's
machine (`LeadsHome`), on which all workers have failed. In an `--add` they may be
only those of the command.

`AgentLifeProofs`, the jobs. `JobInv` adds to `OneAtATime` that a stored result belongs to
the last job and that its work has returned; `DoneIsCurrent`, an action property,
follows from it. `ReturnedIsDone` is what remains true of the violated `OverIsDone`: a job whose
work has returned is done when its thread has ended, because the event is
set from then until the next start (`DoneInv`); only a job that raised is missed.
These are stated for `Spec` of `AsyncJob` alone, as the theorem about conversations is
for `TalkSpec`: `AgentLife` shows one of the two at a time, and `AgentShowsBoth`
carries the theorems of both over to it.

`AgentLifeProofs`, the conversations. `EachAnswerOnce` is an action property; it follows from an
invariant, `TalkInv`, that says at each phase where the conversation is: what a
worker carries is what the driver holds (`CarriedInv`); after a restore the file of
the session, side file included, is that too (`RestoredInv`); after an
answer it is that and the one new turn (`CapturedInv`), and so is the reply that has
its transcript (`RepliedInv`), while one that has not holds what was carried. Failed attempts and machines set up afresh disturb none of them,
because every attempt begins with a restore and the file of a prompt under way
is not touched from outside.

`ChiaWaitProofs`. `Inv` keeps with every call in flight what was decided about it
(`Sound`): a call of the relay is the head's, a judged direct call is directly
reachable in the snapshot it was judged by, an unanalysed direct one is not a
tunneled node's, and a call hangs at a node that fits it. `HangsOnlyOnNewcomers`
follows from the four, and no step but a new `chia_remote` touches them,
although nodes die, the proxy restarts and calls are made again. `WaitInv` adds
that a call the driver does not wait for is idle or over, and that a call waiting
to be resent has a retry left: from the first follows `ReadyIsFinal`, from the
second that no call is retried more often than `MaxRetries` (`TypeOK`).
Two more invariants are in no run. `SlotsKept`: the proxy works on at most `Slots`
calls; every step but `Serve` is shown to take no slot, also the one that sends all of the calls of a
lost proxy back. `BlockedHasCallee`: a body that waits for a nested call has one
in flight. Nodes that die, the proxy and `chia_wait` all forget calls, and each of
them ends or restarts the caller of what it forgets (`FaultBlocks`, `CancelledBlocks`);
a caller can wait for long, as `Jammed` says, but never for nothing.

`SharedHostsProofs`. `LastOneRemoves` and `OthersAreSpared` follow from one
invariant, `HostsInv`. A container that exists has a keeper, a cluster that uses
it and either was not torn down cleanly or has still to deal with it (`BoxIsKept`).
A keeper gives a container up only at `CountForeign`, when it sees Ray of another
cluster, which by `RayIsKept` is a keeper then: no two clusters can both leave it
to the other. `EndsAlone` says that a `chia down` about to remove a container has
nothing old of another cluster in it, and so has a set-up about to remove a
stopped one, unless it read no count. `AtWork` ties the steps to the command. Most actions change one
place, and their proofs are uses of `StepAtPlace`.
`LifeShowsBoth` carries the theorems of this module and of `ClusterUpProofs` over to
`ClusterLife`, which a run checks: its specification implies those of both views,
as a step of the one is a stutter of the other.

`CloudAccountProofs`. An instance keeps its tags and never lives again (`Kept`),
whoever acts; so what a command or a program has noted of it stays true
(`NotesStay`). The two users of an account do not meet, and each has an invariant
of its own. `PoolsInv` adds to the types that a container runs only if a list, `left` or
`strays` has it (`ContainersAreListed` is that), and that until a provisioning is over the
flat list names all it launched and has not ended: the later records may forget,
the roll-back relies on this one. `ClusterInv` says of every command what its
notes are worth: the file can be expanded with them (`TagsOK`), the set-up of the
first cloud is over when the second begins (`ReadyOK`), what a `chia down` has
seen and passed over is idle (`SeenOK`); and that no two live instances of GCP
have the same name (`NamesUnique`), which is why a delete by name reaches a
stranger only if its own instance was lost. `Ranks`, by counting, shows that a
reference of an expandable file leads to an instance that is there. The set of
instances is taken as finite.
`PlaceholderMeansIndex` needs a second invariant, `IndexInv`: every index dealt out is one of the file
(`Tagged`), and for a type a command has planned, each index is that of an instance it
found or launched, or still in its plan (`CoverOK`); it was checked by TLC on the
bounds of `cloud_account` first. A rank among the instances sorted by index is then
the index, unless one below occurs twice (`RankIsIndex`). From the same invariant:
what a command has after provisioning is enough to expand the file
(`ProvisionedIsEnough`, in no run), whatever has been lost since.

`FireSimProofs`. The invariant has six parts. `RunsOK` says of each run what is true
in every phase (`AlwaysOK`: what was downloaded of a slot is its log, and a log that
says "passed" is that of the session that is there) and what the phase adds
(`Fits`: before logs are collected nothing downloaded says "passed", a run that is
over has no instance or a reason to have one). `SuccessIsEarned` follows from the
first. `WindowOK` counts the runs the suite waits for; a run with an instance and
no excuse is among them, which gives `QuotaIsReleased`, also when Ray runs a task
again. `BuildsOK` ties an exit code that has been left to the script that
left it, which gives `StepsAreOwn`. `BucketOK` says that what `build-info.json`,
"latest" and a build about to publish refer to has its driver in S3, and `SuiteOK`
the same of the suite; as nothing disappears from S3, a run that fetches the
last driver finds one at or after that of its image (`DriverOK`, `DriverNotOlder`).
A plan's queue holds each workload once, and "latest" points at a build whose
driver is there: both are in `FireSimAssumption`.

Every invariant and every action property of a passing run is proved, and so is the
refinement. Model-checked only are the liveness properties, as fairness and ENABLED are
out of the prover's reach: `CancelEndsTask`, `CancelKillsTracked` and `StopEnds` of
the registry, `ResultIsReported` of the jobs, `HungIsRetried` and `RelayServes` of the
dispatch, `FlowsEnd` of FireSim. The five violated properties are false and have counterexamples.

## Not modelled

- Tool servers (`ChiaTool`), colocated placement and the key-value store: one
  Ray actor or placement group each; the port registry of tool servers is the
  one part with state of its own, and is next in the plan.
- Tailnet clusters: a node's state is Tailscale's. Of the scoped stop, how an
  address is read from a command line or an environment (`ray_stop.py`).
- Of SSH, quoting, keys and the retries of `SSHClient.run`. `RemoteHost` has the ways
  a command may end; the other models take it as one that runs, or fails.
- Of FireSim, the xb10 platform, incremental and partial-reconfiguration builds,
  file-system images, the upload of results, runs over several instances and
  metasimulation.
- Of the LLM backends, the ones that keep no conversation, what the clients print
  and how it is read, and the configuration of tools.
- Databases, the other hardware flows, simulators, the GitHub client, tracing
  and analysis: they run external programs or services and read what they
  print; what state there is belongs to those.
- Within the modelled parts: security groups and firewall rules, tailnet joins in
  `up`, the wait for Ray's resources and the choice of instance types in
  `provision`, `require_demand_absent` in `chia_wait`, the hooks and the cache
  write of a `ChiaFunction`.

## Plan

`ToolServer` (`ChiaTool.start_router`, the port registry).
