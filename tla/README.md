# BunkerVM: specifications, checks and proofs

BunkerVM runs the commands of AI agents in Firecracker microVMs. This directory
holds TLA+ models of its control logic, the TLC configurations that check them
on small instances, and theorems about them checked by TLAPS. `PROJECT.json`
maps every definition to the lines of the source it stands for, and lists the
runs, the mutants that show each property can fail, the hazards the properties
are for, the findings and the theorems. Paths below are relative to `bunkervm/`.

    tlc -workers 2 -config vmpool_calls.cfg MCVMPool     # one run
    tlapm VMPoolProofs.tla                               # one module of proofs

## The system

| Component | State it keeps | Operations | What is hard | What makes it correct |
|---|---|---|---|---|
| `multi_vm.VMPool` | registry name -> VM, next index | start, stop, stop_all, restart, client, status | the lock covers single dictionary operations only; boots take seconds outside it | indices (CID, TAP, subnet) unshared; no VM without an owner; the limit |
| `engine/daemon.EngineDaemon` | table id -> sandbox, running flag, HTTP server | create, destroy, reset, find, client; start, stop, signals, cleanup | a second table under a second lock; shutdown against requests in progress | table and registry agree; a stop ends the process; no VM outlives it |
| `engine/api` | none: one thread per request | HTTP routes to the daemon | requests overlap | every request is answered |
| `engine/config`, `engine/discovery`, engine part of `cli`, `engine/wsl_bridge` | PID file, port | write, read, clear the PID; discover; start; stop | several processes, kills, stale and torn files | a stale file blocks nobody; an accepted stop stops |
| `vm_manager.VMManager` | Firecracker process, sockets, rootfs copy, TAP device, flags about them | start, stop, restart, create_snapshot, start_from_snapshot | no lock, yet shared by dashboard and MCP threads; every step can fail | one process per manager; stop removes what start made |
| `snapshot.SnapshotManager` | a directory per snapshot | create, get, list, delete | five steps while the VM is paused, each may fail | a checkpoint's snapshot is complete and of one moment |
| `runtime.Sandbox`, `local_backend` | client, checkpoints, step counter, session, record flag | start, run, exec, checkpoint, restore, stop, save_session | failures half way, one counter moved back and forth, three backends | restore returns to the recorded state |
| `sandbox_client`, guest `exec_agent` | none / one thread per request in the guest | exec, files, list, status, health | a broken connection is retried while its first attempt still runs | an answer is the request's own; attempts are bounded |
| `mcp_server`, `dashboard`, `__main__` | the VM of the process, tools and requests in progress | tools, `/api/exec`, status, reset; boot, exit | two threads share client and manager; the process may be killed anywhere | a reset gives a new VM; what is logged happened |
| `audit` | log file, sequence number | log, read_recent | every process appends to one file; writes may fail | no effect without its entry |
| `engine/client`, `engine_client`, `run_code` of `runtime` | the id of the sandbox in use | find, verify, create, use, reset, destroy | several programs share one engine and one name; answers are lost or late | nobody runs in another's sandbox; what is left behind is bounded |
| `watch`, `cli` (`_hook`, `review`) | event log per directory, hook settings | record, load, group, compare; install, uninstall | hooks of parallel calls append to one file and may be cut | a flag is about a real change; a cut line costs its neighbour at most |
| `bootstrap` | bundle directory, temporary file | ensure_ready | several processes without a lock, interrupted downloads and extractions | a bundle handed out is whole |
| `report`, `agent_runtime`, rest of `cli`, `config`, `safety`, `engine/platform`, log ring of the engine, guest init and orchestrator, installers | display, parsing, wiring | | little control logic | |

How they interact. An HTTP request reaches a thread of the daemon; the daemon
calls the pool, the pool one VM manager per VM; `get_client` hands out a
`SandboxClient`, which talks to the exec agent of the guest over vsock. The
programs on the other side of the REST API, MCP servers and scripts, know a
sandbox by its id and find one by its name. The
same `VMManager` is used without engine by `__main__`, where the MCP tool
`sandbox_reset` and the dashboard's `POST /api/reset` share one object, and by
`runtime.Sandbox`, which chooses per start between the engine, a VM of its own
and, when asked to, a local directory. Each of these calls `ensure_ready` before
its first boot. The engine is found through a PID file
and its port by the CLI, by `discover_engine` and by the WSL bridge.

## Modules

| Module | Models | Built on |
|---|---|---|
| `VMPool` | `multi_vm.py` | the manager's effect, abstracted (`ManagerStarts`, `ManagerFails`, `ManagerStops`) |
| `Engine` | `engine/daemon.py`, `engine/api.py` while the daemon serves | `Pool == INSTANCE VMPool`: every pool call is a sequence of VMPool steps |
| `SandboxLife` | the promise of the engine about ids | implemented by `Engine` (`ImplementsLife`) |
| `EngineLifecycle` | boot, PID file, port, signals, stop threads, the commands of `cli.py`, discovery, WSL bridge | |
| `VMManager` | `vm_manager.py`, one object, several threads | |
| `TimeTravel` | class `Sandbox` of `runtime.py` with `snapshot.py` and `local_backend.py` | |
| `SandboxClient` | `sandbox_client._request` and the threads of the guest's `exec_agent.py` | |
| `MCPServer` | `mcp_server.py`, the guest requests of `dashboard.py`, `__main__.py` with a VM of its own, `audit.py` | EXTENDS `SandboxClient`: every step is one of the transport or leaves it alone |
| `EngineClients` | `engine_client.py`, `engine/client.py`, `run_code` through the engine, several programs at once | the engine's handlers, abstracted to a table |
| `WatchSession` | record, load and comparison of `watch.py`, `cli.py` `_hook` and `review` | |
| `Bootstrap` | `bootstrap.py`, several processes at once | |
| `VMPoolProofs`, `EngineProofs`, `EngineLifecycleProofs`, `VMManagerProofs`, `MCPServerProofs`, `EngineClientsProofs`, `HostToolsProofs`, `TimeTravelProofs` | theorems | `EngineProofs` on `VMPoolProofs`; `MCPServerProofs` also has those of `SandboxClient`; `HostToolsProofs` those of `Bootstrap` and of `WatchSession` |
| the `MC...` modules | constants and symmetry sets for TLC | |

Where a definition X has a neighbour whose comment begins with "Mutant:", that
neighbour is X with a plausible bug and is used by no specification; putting it
in X's place makes TLC refute the property named in `PROJECT.json`.

### VMPool

`instances` is `_instances` (a name maps to the index of its VM), `nextIndex`
is `_next_index`. `procs` and `files` are the world: the indices whose
Firecracker process is alive, and whose files are at each path. `call[t]` is
the stack frame of the pool call that thread `t` is in. A step is one lock
region, or one call of the VM manager between two lock regions: start is
`StartReserve` (lines 92-137, under the lock), `StartBoot` or `StartFail`
(outside it), `StartRegister` (under it again). `Crash` may kill a process at
any time. A manager call is one step here; its inside is `VMManager`.

### Engine

`sandboxes` is `_sandboxes`, `req[t]` the frame of the handler in thread `t`,
`server` the state of the HTTP server and the process. Every region of the
daemon's own lock is a step and every step of a pool call is a step of
`VMPool`, so all interleavings of the two locks occur. The pool name of sandbox
`id` is `engine-<id>`, the id itself in the model. Ids are taken to be fresh
(eight hex digits of a uuid4). A stop is a thread of its own, as in the code:
`StopBegin` tests `_running`, `StopFlag` clears it, then the sandboxes are
destroyed one by one, the pool is swept, and the server shut down; the main
thread then leaves `serve_forever` and runs the final clean-up (`Cleanup` and
the same sweep steps). Handler threads are daemon threads, so at the exit of
the process every step of theirs is disabled.

### EngineLifecycle

`main[p]` is the program counter of the main thread of process `p`, `running`
its flag, `stopper[c]` the stop thread a POST of client `c` started,
`client[c]` the command line (or discovery, or bridge) call. The PID file holds
a process, nothing, or `Torn`: it is truncated and written in two steps, and a
reader in between, or a kill, leaves an unreadable file. Reading the file,
judging the PID and removing the file are separate steps everywhere, as in
`EngineConfig.read_pid`. Signals are Python's: the handler runs in the main
thread between two of its steps (`SignalStops`), kills are `Killed`.

### VMManager

One object without a lock. The fields are `process`, `configPath`,
`rootfsCopy` and `tapCreated`, the world `live`, `sockets`, `configs`, `disk`,
`tap` and `snapshot`; the difference between the two is what the model is
about. Each step of `start`, `start_from_snapshot` and `stop` is an action that
can fail where the code can raise; the two ways to boot share `SetupNetwork` and
nothing else. A launch id stands for one attempt to boot.

### TimeTravel

The state of a guest is the sequence of commands whose effect is in it, kept
twice: `mem` for the Python namespace (and memory), `disk` for the files. A
checkpoint carries one field the code does not have, `was`, the guest's state
when it was taken, so that "restore returns to the recorded state" can be
said. Snapshots of all sandboxes of a user live in one `store`, by name.
`Torn` gives what a snapshot that failed half way leaves behind. One call of a
sandbox is one action: a Sandbox object has no lock and the model takes each to
be used by one thread, while several sandboxes interleave (the runs use one:
the names of recorded snapshots begin with the session id). Of callers the model assumes (`Free`)
that they do not name two checkpoints of a list alike; given twice, a name's
snapshot is replaced and the earlier checkpoint returns to the later state.
`Picked(q, I)` is the list of the elements of `q` at the indices `I` in their
order, the list comprehension of `restore`; it is defined by rank and not by
recursion, so that it can be reasoned about.

### SandboxClient

`call[c]` is the frame of `_request` in host thread `c`: which request, which
attempt, connecting or waiting, and at the end the result. `jobs` are the
handler threads in the guest, each for one attempt; `ran` is history: the
attempts that took effect. `vm` is the VM behind the socket path, `boots` how many
there have been. What is lost on the way is lost between two actions: a
handler goes on when its client has stopped listening (`ConnectionLost`,
`GiveUp`), and its answer then reaches nobody (`Receive`). The branches of the
code's `except` clauses are kept apart: a refused or broken connection is
retried, a timeout, a cut body and a failed handshake are not, a 5xx is retried
until the last attempt and then returned, a 4xx is returned at once.

### MCPServer

Extends the transport by the process around it. `phase` and `proc` are how far
the current process has come and its number, `tool[c]` the tool or dashboard
request that thread `c` is in, `log` the entries of the audit file and `seq` the
counter each process numbers them with. FastMCP runs the tools one at a time
(thread `Mcp`), the dashboard's server has a thread per request. A tool is the
steps of its function: entry, safety check, request, entry of the result. A reset
is stop, start (which returns at once when a VM runs), launch and health wait,
so that it interleaves with other requests and other resets. `ServerGone` is a
kill at any point; what was asked for goes on in the guest and the next process
appends to the same log. A number that was taken and whose write failed is
`Lost`.

### EngineClients

`listed` is the engine's table, `wire` its handler threads, `at`, `goal` and
`own` the frame of each client: where in its program, what for, and the id it
keeps. `origin` and `ran` are history: who asked for a sandbox under what name,
and who ran in it. The actions of a client are its continuations: it sends a
request, and the answer of the handler calls the next (`GoesOn`). A lost
connection or a limit that is reached (`Lose`) continues the client while its
handler goes on, unheard. Sandboxes that somebody else destroys, killed
clients and an engine that ends with all its sandboxes and is started again are
actions of their own. The handlers are those of `Engine`, coarser: found and
served in one step, made in two (name check and boot, then the entry).

### WatchSession

`suite` is the test suite the agent works on, `hook[a]` the event that the hook
process of tool call `a` still has to append, `log` the lines of each
directory's file, a line being the sequence of pieces that were appended
without a newline in between. A call edits a test or runs a command that selects
some tests; `was` in the event records the selected tests as they were, for the
properties. `Review` is `load_events`, the selection of test runs, the grouping
by command and the largest change, as operators. A list of events is the set of
their line numbers, in whose order the code goes through them: the first and
the last run of a group are those with the smallest and the largest.

### Bootstrap

A call of `ensure_ready` per process. `tmp` is the temporary file at its path,
named by the call that created it; `data` what a temporary file holds, also one
that is no longer at the path and is still being written or read; `bundle[i]`
is file `i` of the bundle: absent, opened and not yet written, of the release, or
a link to the local build. `cut` and `clash` are history: an extraction ended when
every file was there already, and calls were at the bundle at once.

## Runs

Every passing run is exhaustive for its bounds. Times are for two workers.

| Run | Instance | Shows |
|---|---|---|
| `vmpool_calls` | 2 threads, 2 names both may use, 1 VM, 3 starts, all operations | `TypeOK`, `IndexUnique`, `LimitSlack`: 42 011 states |
| `engine_tables` | 2 requests, 1 stop thread, the main thread, 2 ids, 1 user name, 1 VM | `SandboxBacked`, `VMAccounted`, `NoOrphans`, `OwnFiles`, `ImplementsLife`: 637 000 states, 1 min |
| `engine_progress` | 1 request, 1 stop thread, the main thread, 2 ids | liveness: `StopStops`, `Answered` |
| `life_commands` | 2 processes, 2 commands of every kind, signals and kills | `TypeOK`, `NeverDeaf`, `StaleFileIgnored`: 405 000 states |
| `manager_calls` | 1 thread, 4 launches, all operations, network and work path | `OneVM`, `RunningVMEquipped`, `StopForgets`: 1 210 states |
| `travel_failures` | 1 recording sandbox on its own VM or a directory, 2 starts, a named checkpoint, every step may fail | `StepsIncrease`, `CheckpointsRestorable`: 959 000 states, 1 min |
| `travel_restore` | 1 recording sandbox, 3 starts on any backend, Python and shell commands, checkpoints by hand | `LoadExact`, `RestoresNamespace`: 286 000 states |
| `server_calls` | the tools and 1 dashboard request, 1 call each, 2 attempts, 2 processes, 3 VMs, 1 lost write | `AnswerIsOwn`, `AuditTruthful`, `EffectsAudited`, `ResetFresh`: 2 390 000 states, 2 min |
| `client_sandboxes` | 2 MCP servers, 1 run_code, 2 ids, 1 fault | `SandboxesApart`, `LeaksBounded`, `KeepsSandbox`: 2 126 000 states, 2 min |
| `watch_sessions` | 3 tool calls, 2 at once, 2 tests, 2 commands, 2 directories, 1 failed or cut hook | `NoFalseAlarm`, `ShortcutsFlagged`, `LogComplete`: 848 000 states, 1½ min |
| `bundle_ready` | 3 calls, 3 files, 1 kill | `ReadyIsWhole`, `TempRemoved`: 2 min |
| `life_signal` | 1 process, 1 command, a signal | refutes `SignalEnds`, see Findings |

Why the bounds are enough. Two threads are enough for every pair of lock
regions to interleave; the arguments of the properties mention at most two
threads or VMs, and `LimitSlack` is written so that one more thread would only
add one more to both sides (and is proved for all). One VM in the pool makes
"full" and "not full" both reachable with two names. Three starts let an index
be freed and another be taken. In `engine_tables` two ids suffice for a reset
(which takes a new id) against another request; a third id would only repeat
it. In `travel_restore` three steps
allow two checkpoints, a restore to the first and
a new step on top of it, the case that could record a step under an old
snapshot's name; three starts let a recorded list be met by a start on another
backend and by one on its own again. `travel_failures` has two steps and two
starts, since every one of their calls may fail in several ways, and a name a
caller gives twice. All five properties are proved for any number of steps,
starts and names.

In `server_calls` one call per thread is enough for what could go wrong between
two: a tool against a dashboard request or reset, and each against an attempt
of its own that still runs; two attempts are the code's `_MAX_RETRIES`. Three
VMs let the two processes have one each and a reset take the third. In
`client_sandboxes` two servers and a script are every pair of kinds; two ids let a
client meet a sandbox that is not its own, and one fault is what the arguments
of the properties are about (`LeaksBounded` counts them; all three are proved for
any number). In `watch_sessions` three calls are a
first run, an edit and a last run, with one directory or command too many for
them; one fault can cut any of them. In `bundle_ready` three calls are a
downloader, one that overtakes it and one that looks; three files are the
bundle's own number.

`CHECK_DEADLOCK FALSE` is set where the system stops on purpose: the engine
process exits, a manager, sandbox, session or server has used up its launches,
steps, calls or processes, every client has ended, and every engine process has
ended. `vmpool_calls` checks for deadlock.

Fairness. `Engine` and `EngineLifecycle` have a `FairSpec` (runs
`engine_progress` and `life_signal`), with weak fairness of the steps of
each thread and process: the operating system runs every thread that can run,
and VM boots and HTTP calls have time limits in the code (`wait_for_health`,
the socket timeouts of the client). Nothing makes a client send a request, a VM
crash, or a signal arrive; those actions have no fairness. The other modules
state safety only.

## Findings

Run `life_signal` refutes a statement of the repository, quoted in
`PROJECT.json`: the signal handler is said to shut down gracefully; it calls
`server.shutdown()` in the thread that has to return from `serve_forever`, and
the daemon hangs with its port open. The run holds under weak fairness of every
thread, so the daemon is not merely slow.

### Divergences the models have, without a run of their own

The models contain these behaviours; the properties above are stated so as not
to depend on them, and say where. They are worth a look by whoever changes the
code next.

- Pool: concurrent starts exceed `max_vms` (bounded by `LimitSlack`). The index
  is an octet of the subnet and is never reused: the 257th start of a pool's life
  has no valid address (`multi_vm.py:135`; `Addressable`). `restart`
  uses a manager after another thread's stop has removed it and boots a VM
  nobody can stop. Names that differ only in `/`, blank and `-` share all files.
  A name is free before the old VM's files are unlinked.
- Engine: a create in progress at shutdown is in neither table when the final
  clean-up looks, and its VM outlives the engine (`daemon.py:234`). Concurrent
  creates of one name both succeed. A reset whose name or
  slot is taken between its halves loses the sandbox.
- Lifecycle: a signal during the boot clears `_running` and the boot goes on, to
  an engine that answers every stop and ignores it. `engine stop` and
  `read_pid` may remove the PID file of a live engine; so does
  `discover_engine`, documented as free of side effects. Of two concurrent
  starts, the loser may leave its PID in the file. The WSL bridge takes an
  engine that is shutting down for a running one, and passes `timeout=0` where
  no limit is meant.
- Manager: with two threads, overlapping resets both launch a VM and the first
  process is overwritten in `_process` (`mcp_server.py:531`,
  `dashboard.py:556`): `OneVM` holds for one thread. Configuration files of
  failed starts, a half-made TAP device and a
  partial rootfs copy are not removed by `stop`; without a work path, `stop`
  deletes the rootfs of the snapshot the VM was restored from.
- Sandbox: a failed automatic snapshot is only logged, and a later restore of
  that step replays commands on the present files. Sandboxes that do not
  record share checkpoint names (`manual-cp1`). A checkpoint taken by hand after
  recording has ended, when the sandbox came back on another backend, is not
  rebuilt by a replay: the commands before it are in no list
  (`RestoresNamespace` is about recorded steps; `LoadExact` is about both). A failed snapshot leaves the VM
  paused. After the first `stop`, `record=True` is forgotten. A start that
  fails its health wait leaves `_client` set, and the next start returns at
  once. A replay on the local backend deletes `/tmp/_ns.pkl` of the host. An
  error dictionary from `write_file` is not looked at, so `run` may execute the
  script of the call before.
- Transport: a command may run twice, and a retry that comes after a reset runs in
  the fresh VM. Work in the guest goes on after the server is gone. A read that
  times out raises at once, whatever attempts are left.
- MCP server: the dashboard's `/api/exec` is neither audited nor checked for
  safety. Sequence numbers start again in every process, and a trailing write
  that is lost cannot be noticed. A 4xx or 5xx answer is logged as an
  `exec_result` of -1. Two servers without names share a socket path.
- Engine clients: MCP servers share the sandbox `mcp-sandbox`, and the first to
  exit destroys it under the other. After `reset` a client keeps the id of the
  sandbox that is gone, so the recreated one outlives it unless it is found by
  name. A create whose answer is lost leaves a sandbox (`LeaksBounded`).
- Watch: an output cut at its limit loses the summary at its end; an error in
  collecting counts as one test, so "fewer tests" may be flagged for a typing
  error (`Comparable`). Only the largest change is reported. Each directory
  has a log of its own. As many tests added as deleted keep the total. Hooks of
  parallel calls may append in inverted order. A settings file that does not
  parse is taken for empty and overwritten.
- Bootstrap: `ready` asks for existence only; a call during another's extraction
  returns a partial bundle (`clash`), and one that was cut at the last file looks
  ready for ever (`cut`). An extraction writes through the links of an earlier
  local build into that build.

## Proofs

Theorems hold for every value of the constants that meets the `ASSUME` of the
module (`PoolAssumption`, `EngineAssumption`, `LifecycleAssumption`,
`ManagerAssumption`, `RetriesAssumption`, `BoundsAssumption`, `McpAssumption`,
`ClientsAssumption`, `BootstrapAssumption`, `TimeTravelAssumption`,
`SessionAssumption`: finite sets, `None` not one of the
others, at least one attempt or file, numbers natural, requests, stop threads
and the main thread distinct, no client both a server and a script, no
generated id equal to the shared name). TLC evaluates them in the runs.

`VMPoolProofs`, for any number of threads, names and VMs:

- `PoolTypeCorrect`: `PoolSpec => []TypeOK`. Inductive because it says what a
  frame looks like at each step: a thread that kills or boots holds an index.
- `IndicesNeverShared`: `PoolSpec => []IndexUnique`. `IndexUnique` alone is not
  inductive, since a new index could be one that is already in use. `IndexInv`
  adds that every index in use, registered or only reserved, is below the
  counter; the reservation moves it under the lock and everything after the
  reservation only carries the index along.
- `PoolBound`: `PoolSpec => []LimitSlack`. Registered and starting VMs together
  number at most `max_vms` plus the threads less one: a reservation happens with
  fewer than `max_vms` registered and by a thread that was not starting; a
  registration moves one unit from one set to the other.

`EngineProofs`, for any number of requests, stop threads, ids and names:

- `EngineTypeCorrect`: `Spec => []TypeOK`; `ListedHasVM`, `NoVMForgotten`,
  `NoProcessLost` and `FilesAreOwn`: `SandboxBacked`, `VMAccounted`, `NoOrphans`
  and `OwnFiles` always hold.
- `EngineUsesPool`: `Spec => Pool!PoolSpec`. Every step of the daemon is a step of
  the pool, with the operations it uses, or leaves the pool alone.
- `EngineIndices`: `Spec => []Pool!IndexUnique`: the pool's theorem, for the VMs of
  the daemon's sandboxes.
- `EngineImplementsLife`: `Spec => ImplementsLife`: each step moves at most one id,
  and by one of the four moves of `SandboxLife`.

They rest on one inductive invariant, `Inv`, which was checked with TLC on the
instance of `engine_tables`. None of the four safety properties is inductive:
each is about the two tables, and what keeps them together is where the
requests are. `RequestsOK` ties the handler to the pool call its thread is in
(`ReqFits`, `CallFits`: only a request at `booting` is in the boot of a VM, of its
own id, and only one that is stopping or sweeping kills one). `IdsOK` says that an
id is held by one request at most from its generation until it is listed, and that
an id nobody has generated is unknown to the pool. The rest is the properties with
a step of foresight: `Backed` also for the sandbox about to be listed, `Reachable`
only through calls that really hold a manager, `FilesOK` also for the VM about to
be registered. That two indices never meet
is not proved again: `Facts` is `VMPoolProofs` for the constants of the daemon's
pool, and `IndexInv`, its inductive invariant, is a conjunct of `Inv`, kept by its
lemma for every step of the pool. The first lemmas of the module say that
`Facts` and `Pool` agree definition by definition.

`EngineLifecycleProofs`, for any number of engine processes and commands:

- `LifecycleTypeCorrect`: `Spec => []TypeOK`, with it that whoever has the port is
  a live process past its bind.
- `StoppedDaemonEnds`: `Spec => []NeverDeaf`. What has to be kept out is a daemon
  that starts to serve with its flag cleared: `FlagOK` says that before there is a
  server only a signal clears the flag, `ThreadsOK` that a stop thread belongs to
  a process that serves or is past serving, and vanishes with it.
- `RefusedOnlyByLive`: `Spec => StaleFileIgnored`. `PidOK` is the part that is easy
  to miss: a process has not written its own PID when it reads and judges the
  file, so the live process that makes it refuse is another one.

`VMManagerProofs`:

- `ManagerTypeCorrect`: `Spec => []TypeOK`, for any number of threads. The
  strengthening `IdInv` ties the frame to the call: a call on its way to a boot
  is not `stop` and holds a launch id.
- `NoProcessLost`, `RunningKeepsFiles`, `StopForgetsAll`: `OneVM`,
  `RunningVMEquipped` and `StopForgets` for a single thread (`OneThread`), with
  or without network and work path, for any number of launches. The assumption
  is needed: with two threads, TLC finds `OneVM` violated by overlapping resets
(see Divergences). None of the three is
  inductive: launching overwrites `_process`, harmless only because no process
  is alive between the check (or the kill) and the launch (`NoVMBetween`);
  the working copy is the new VM's own only because the same call made it
  (`CopyMade`). `Inv` is the conjunction, and was first checked with TLC.

`MCPServerProofs`, of the transport (`SandboxClient`), for any number of threads,
attempts, requests and VMs:

- `AnswersAreOwn`: `ClientSpec => []AnswerIsOwn`; `AttemptsAreBounded`:
  `ClientSpec => []AttemptsBounded`. Neither is inductive. An answer is taken by a
  waiting thread, so what has to be kept out is an answer to an attempt the thread
  has given up. `Past` says that of a thread's request only attempts before
  the one about to be sent are in a guest, `OwnRequest` that a request number
  belongs to one thread and is used once, `OneJob` that an attempt has one
  handler. `Connect` is the only step that can break `Past`, and `Again` the one
  that restores it by counting up.

and of the server, for any number of threads, VMs, processes and lost writes:

- `ServerImplementsClient`: `Spec => ClientSpec`. Every step of the server is a
  step of the transport or leaves it unchanged; the proof goes through the
  actions and needs `ToolInv` only, which ties a tool to its request. From it and
  the transport's theorem, `ServerAnswersAreOwn`.
- `ServerTypeCorrect`: `Spec => []TypeOK`.
- `AuditIsTruthful`: `Spec => []AuditTruthful`. An `exec_result` with a code is
  written by the thread whose request ran (`Called`, and `AnswerIsOwn` of the
  transport). A blocked command never runs *later* because its number was never
  issued and is below the thread's counter (`Numbered`, `BlockedForGood`).
- `EffectsAreAudited`: `Spec => []EffectsAudited`. `EffectInv` moves the statement
  from what ran to every request on its way (`Noted`): noted at its beginning, or
  the number of the entry is lost; the log only grows and a lost number stays lost,
  also over kills, because a process numbers its entries by a counter of its own.
- `ResetGivesFresh`: `Spec => []ResetFresh`. `FreshInv`: the entries of the log
  are about VMs that were booted, and from the moment a reset has stopped what
  ran until it writes its entry, a VM that runs was booted after every entry of
  the log, be it booted by this reset or by one that overlaps it.

`EngineClientsProofs`, for any number of clients, ids and faults:

- `ClientsTypeCorrect`: `Spec => []TypeOK`; `NobodyMeets`:
  `Spec => []SandboxesApart`; `ClientsKeepTheirs`: `Spec => KeepsSandbox`.
  All rest on one inductive invariant (`Inv`). Its heart is about the handlers,
  which outlive their clients: what each was asked for (`Shape`), that the client
  it answers to still waits for just that (`Live`), and that a sandbox that
  boots is not known to anybody (`Booting`). With `ClientsOK` (what a client at a
  point of its program holds) and `EngineOK` (an id keeps its name) a
  continuation is proved once for all answers (`Moves`), whether the answer
  came, was lost or was late.

- `LeftBehind`: `Spec => []LeaksBounded`. The property counts when all clients have
  ended; `LeakInv` counts at every step: sandboxes nobody owns, and create
  requests whose client no longer listens, are together no more than the faults.
  A fault adds one at most, and a sandbox that comes of such a request takes its
  place.

`TimeTravelProofs`, for any number of sandboxes, commands, names, steps and
starts:

- `TravelTypeCorrect`: `Spec => []TypeOK`; `StepsInOrder`:
  `Spec => []StepsIncrease`. A trimmed list is a list and ascends because
  `Picked` goes by rank: the first lemmas of the module say that every
  rank up to the number of indices is that of one index, that a smaller rank is
  of a smaller index, and that an index above the others appends.
- `SnapshotsKept`: `Spec => []CheckpointsRestorable`; `LoadsExactly`:
  `Spec => LoadExact`. A snapshot must not be overwritten while a checkpoint
  names it. `SessionInv` and `NamesInv` say why: a name is a session's own, and in
  a session the step it was made of is not ahead of the counter, so that the name of
  the next step is new (`Given`) although restores move the counter back, because
  they drop the checkpoints that are ahead of it. `GoodInv` then carries each
  checkpoint's snapshot along, whatever a failing call tears meanwhile. The
  theorems assume `Apart`, that sandboxes record or that there is one only:
  without recording, names of two sandboxes are the same (see Divergences), and
  the properties are false.
- `ReplaysRebuild`: `Spec => RestoresNamespace` if no call fails (`~Failures`). For
  a sandbox that records, or has recorded, `ReplayInv` says that the namespace is
  what the Python commands of its list make of a fresh one, up to every step for the
  checkpoints and over the whole list for the guest. A failed snapshot or a lost
  answer breaks it in the code too: the command had its effect and the list does not
  say so.

`HostToolsProofs`, about `Bootstrap` for any number of calls, files and kills:

- `BootstrapTypeCorrect`: `Spec => []TypeOK`.
- `TempAlwaysRemoved`: `Spec => []TempRemoved`. `TempOK` says why: while there is a
  file at the path and nobody was killed, some call is between its download and
  the end of its extraction, and every way out of there removes the file, or
  finds that somebody has.
- `ReadyBundleWhole`: `Spec => ReadyIsWhole`. `BundleOK`: as long as no calls met
  and none was cut at the last file, what a call has passed in the bundle is still
  as the call made it (`DoneBy`), and a full bundle nobody is at is whole. A step that
  changes the bundle is made alone or is a clash (`BundleStep`).

`HostToolsProofs`, about `WatchSession` for any number of tool calls, tests,
commands, directories and hooks that fail or are cut:

- `SessionTypeCorrect`: `SessionSpec => []SessionTypeOK`. `PutLog` says what an
  append makes of a log; an open last line has something on it, so that the next
  piece has a line to go to.
- `FlagsAreTrue`: `SessionSpec => []NoFalseAlarm`; `ShortcutsAreFlagged`:
  `SessionSpec => []ShortcutsFlagged`. `ReviewInv` ties the log to the suite: the
  counts of every test run that a hook or a line holds are those of the tests as
  they were (`Fits`), whatever hooks and cuts did to the order of the lines. The
  rest is about the operators of the review: a group has a first and a last run,
  of one command (`GroupEnds`, from `Smallest` and `Largest`), and if a group
  changed, one changed most (`ChangeFlagged`); sets of tests that differ and
  include each other differ in size.
- `LogIsComplete`: `SessionSpec => []LogComplete`. `NumberInv` says that a call's
  event is with its hook or in one line, never in two places. `CountInv` counts at
  every step: the calls that are nowhere any more, the logs whose last line is open
  (the next piece is lost in it), and those among them whose open line still is an
  event (the next piece spoils it) are together no more than the failed hooks
  and twice the cut ones. An append to an open line pays with its log for what it
  loses.

Every invariant of the passing runs, the invariant-like action properties and the
refinements are thus proved. Only model-checked, because out of the prover's
reach, is liveness under fairness (`StopStops`, `Answered`, and `SignalEnds`, which
its run refutes).

## What is not modelled

`PROJECT.json` lists every component with its status. Left out for good:
argument parsing and printing of the CLI, the dashboard's pages, merging of
configuration files, regular expressions of the safety check, probes of the
host platform, the session report (sums over a finished file), guest boot
scripts, installers and build scripts; none has
state a run could go wrong in. `agent_runtime` wires other
components together sequentially. In the modelled components, left out are
logging, formatting, CORS, JSON, the repair of `/dev/kvm` permissions,
uploads and downloads of the runtime, `run_code` without engine (start, run and
stop of `TimeTravel`'s sandbox), the file-trace diff that the exec agent and the
local backend add to an answer, and the ring buffer of the engine's log.

Left out so far although it has behaviour: the hook settings of `watch`
(install and uninstall read and rewrite a file the user edits, without a lock).

The models have about 2 100 lines of definitions (comments left out, the
mutants and properties counted) for about 4 000 mapped lines of source.

## Plan

In order of importance; within a group the first items come first.

1. More of the system
   - the hook settings of `watch`: install and uninstall in a settings file the
     user also edits.
   - `EngineClients` as an environment of `Engine` in place of its abstract table.
   - the inside of `create_snapshot` in `VMManager`, so that a reset may overlap
     a snapshot.
2. Runs are kept few: one question each. A run that refutes a statement makes room
   when the statement or the code is corrected.
