# Verification of the IXIA MCP server

This directory holds the formal model of `ixia_mcp`, an MCP server that lets agents drive Keysight
IxNetwork test sessions: TLA+ modules translated from `src/ixia_mcp`, TLC configurations that check
them on small instances, and TLAPS proofs that hold for every size. `PROJECT.json` links every
definition to the lines it models and lists the runs, mutants, findings, hazards and theorems.

## 1. The system

| Component | State it keeps | Operations | Talks to |
|---|---|---|---|
| Connection pool (`client.py`) | the dictionary of connections, its `_lock`; per connection the IxNetwork handles, `last_used_at`, its own `lock` | `connect`, `get`, `disconnect`, `disconnect_all`, `disconnect_stale`, `list_connections` | IxNetwork API servers (create/attach, `Session.remove()`) |
| Server process (`server.py`) | event loop, default executor, reaper task, signal handlers, atexit callback | start, serve (HTTP or stdio), reap every 300 s, shut down | uvicorn, asyncio, the pool |
| Per-request defaults (`request_context.py`, middleware in `server.py`) | a context variable with the `X-IXIA-*` headers | set and reset around each HTTP request; read by `connect` | the pool |
| Session tools (`tools/session.py`) | none | `ixia_connect`, `ixia_disconnect`, `ixia_get_session_info` | the pool; executor or event loop |
| Traffic tools (`tools/traffic.py`) | none of their own; traffic items in the IxNetwork session | list, create, configure, generate, start, stop, delete, track | IxNetwork, under the connection's lock |
| Protocol tools (`tools/protocols.py`) | protocol stacks in the session | add, remove, configure ethernet/ipv4/ipv6/bgp | same |
| Topology tools (`tools/topology.py`, `_helpers.py`) | topologies, device groups, network groups | list, create, update, delete, start/stop protocols | same |
| Port tools (`tools/ports.py`) | virtual ports and their hardware | list, status, add, release, remove | same |
| Statistics, configuration (`tools/statistics.py`, `config.py`) | none; the whole session configuration | four views, clear; save, load | same |
| Input models (`models.py`) | none | validation of tool arguments | the tools |

Every tool but `ixia_connect` and `ixia_disconnect` has the same wrapper: on an executor thread,
`manager.get(id)` (under the pool's `_lock`), then `with conn.lock:` the calls to IxNetwork.
`ixia_disconnect` and the reaper run *on the event loop*.

What is hard: the pool is shared by executor threads, the event loop and signal handlers; removal
does not take the connection's own lock; the reaper judges by a clock it read earlier; a signal can
interrupt the main thread inside the pool's critical sections under stdio; shutdown is a relay of
four stages; and the tools change a session step by step without any way back when one step fails.

### What makes each component correct

| Component | Must hold |
|---|---|
| Connection pool | a connection has one owner at a time; its session is cleaned up once, after nobody can look it up any more; only idle connections are reaped |
| Server process | no session is left behind, at run time or at exit; no lock is left locked; the event loop never waits for IxNetwork through a lock; requests are answered; the process exits when told to |
| Per-request defaults | one request's headers never reach another request's connect; explicit parameter before header before environment |
| Session tools | `ixia_disconnect` answers only when the session is released; an id refused with "No active connection" belongs to a released session |
| Traffic tools | each call is atomic to other calls, reports what it did, and is idempotent if declared so |
| Protocol tools | every stack stays within reach of the tools, whatever adds, removals and failures happened; the answers are true |
| Topology, port, configuration tools | a retry does no more than one call could have done, and finishes what it can; success by name means every object of the name; there is a way out of every half-done call |
| Statistics, input models | nothing of their own |

## 2. Plan

The pool and the process around it come first: every tool depends on them, they are concurrent, and
their failures lose hardware sessions that other people need. The tools follow, those whose effect on
a session is the most intricate first.

| # | Module | State | Models | Status |
|---|---|---|---|---|
| 1 | `ConnectionLifecycle` | `life` | abstract: what the pool promises about one connection | done |
| 2 | `ConnectionManager` | the dictionary, `_lock`, idle times, who owns which connection | `client.py`, split at its lock; implements 1 | done, proved |
| 3 | `McpServer` (extends 2) | main thread, frames of signal handlers, tool calls, executor, connection locks | `server.py`, `tools/session.py`, the wrapper of all tools; implements 2 | done, safety proved |
| 3a | `ReaperHistory` (extends 3) | the connections used since the reaper read the clock | a history of `McpServer` for what may happen while the reaper waits for the lock | done, proved |
| 4 | `TrafficSession` | the traffic part of a session, the last answer | abstract: every traffic tool as one atomic operation | done |
| 5 | `TrafficItems` (extends 4) | tool calls in progress | `tools/traffic.py`, one action per REST call; implements 4 | done, proved |
| 6 | `ProtocolMap`, `ProtocolLayers` | set of protocols | abstract: a device group as a set of protocols | done |
| 7 | `ProtocolStacks` | tree of stacks | `tools/protocols.py`; implements 6 | done, proved |
| 8 | `SessionConfig`, `PortTools`, `TopologyTools`, `SessionTools` | virtual ports, topologies, device groups | `tools/ports.py`, `tools/topology.py`, `tools/_helpers.py`, load of `tools/config.py` | done, proved |
| 9 | `RequestDefaults` | context variables of requests, the copies that tasks and executor threads run with | `request_context.py`, the middleware of `server.py`, the order of resolution in `client.py` | done, proved |

`...Proofs` modules hold the theorems of the module they are named after (`McpServerReleaseProofs` and
`SessionRetryProofs` continue `McpServerProofs` and `SessionToolsProofs`), `MC...` modules the symmetry
sets and constants for TLC.

Left in the plan:

- an abstract specification of `SessionTools`: for unique names, a set of names that every call changes
  atomically or not at all does *not* describe it (adding ports and renaming topologies are not atomic), so
  that it has to say which half-done states there are. `RetryConverges` and `CleanSlate`, which are proved,
  say what can be done about them.

## 3. The modules and the code

### ConnectionLifecycle and ConnectionManager: `client.py`

A public method of `ConnectionManager` does one thing under `_lock` and then, if it took connections
out, cleans them up outside. The model splits it the same way: `Acquire`; one body action (`Insert`,
`Get`, `Disconnect`, `DisconnectAll`, `DisconnectStale`), which also releases `_lock`; one `Cleanup` per
connection, with the three ways `_cleanup_connection` can end. The local variables that hold a
connection on its way are `made[t]` (built by `connect`, not inserted) and `taken[t]` (popped or
snapshot, not cleaned up). `Abandon` is the exception of `sys.exit` in a signal handler unwinding the
methods below it: `with self._lock` releases the lock, the local lists are lost.

`idle[c]` is the time since `last_used_at` was written, in ticks, up to a value from which all
comparisons agree. `DisconnectStale(t, e)` compares with a clock reading `e` ticks old, because
`disconnect_stale` reads `time.time()` before it waits for the lock.

`ConnectionManager` lets its threads call any method at any time; `McpServer` says who really does.
`ConnectionLifecycle` is the promise: none, made, open, withdrawn, released, never back. A connection's
stage is derived from who owns it (`StageOf`).

### McpServer: `server.py`, `tools/session.py`, the wrapper of every tool

The threads of the manager are the tool calls, which run on executor threads, and the *frames* of the
main thread: frame 0 for a call made by the event loop (`ixia_disconnect`, the reaper) or by `atexit`,
frame *i* for the *i*-th nested run of `_shutdown_handler`. Only the topmost frame runs.

| Code | Model |
|---|---|
| `asyncio.to_thread(_run)` in a tool; the default executor | `Submit`, `StartWork`, `Reply`; at most `MaxWorkers` at work, first come first served |
| a client's cancellation | `Cancel`: a queued work item is dropped, a running one goes on and `Discard` ends it |
| `connect` | `OpenOk` / `OpenFail`, `WorkerAcquire`, `WorkerInsert` |
| `get`, then `with conn.lock:` | `WorkerAcquire`, `WorkerGet`, `LockConn`, `OpDone` |
| `ixia_disconnect` on the event loop | `SubmitDisconnect`, `MainAcquire`, `MainBody`, `MainCleanup`, `DisconnectReturn` |
| `_reaper` | `ReaperWake`, the same three, `StaleReturn`; HTTP only |
| uvicorn's signal handling | `UvicornSignal`, `ServeReturns` (which re-raises the signal) |
| `_shutdown_handler` | `DeliverSignal` at any point of the main thread, the same three, `HandlerExit` |
| end of `asyncio.run`, thread join, `atexit` | `CancelTasks`, `StartAtexit`, `AtexitReturn`, or cut short by `HandlerExit` |

uvicorn, asyncio and the interpreter are modelled from how `server.py` uses them; these definitions are
marked external in `PROJECT.json`.

`ReaperHistory` adds a history variable, `used`: from the moment the reaper enters `disconnect_stale`, where it
reads the clock, the connections that executor threads build and those that `get()` hands out. It changes
nothing of what the server does.

### TrafficSession and TrafficItems: `tools/traffic.py`

`TrafficSession` has the traffic part of an IxNetwork session (items in order, names that may repeat,
endpoints, `Suspend`, which items have fresh streams, whether stateless traffic runs), the effect of each
REST call, and each tool call as one atomic step whose answer is tied to its effect (`Outcomes`).
`TrafficItems` has the calls as the code makes them: the lookup, then one action per REST call, each of
which may raise before or after it took effect (`Rest`). Between the first and the last step the
connection's lock is held; `McpServer`'s `OpsSerialised` is what justifies `Free`. The mapping (`Seen`)
shows the session as it was when the call in progress began.

### ProtocolMap, ProtocolLayers and ProtocolStacks: `tools/protocols.py`

`ProtocolStacks` is the tree of stacks of one device group, numbered in the order `find()` returns them.
Add always makes a new stack, on the first parent; remove looks for the protocol on the first Ethernet,
then on its first Ipv4, then on its first Ipv6, and removes all it finds, one by one; configure changes
the first. Of the settings only `EnableVlans` is told apart (`vlans`), because one call of
`ixia_configure_ethernet` writes it for up to three reasons: for `vlan_enabled`, and set to true for a VLAN id
and for a priority, before it looks whether there is a VLAN object to put them in (`EthernetWritten`). The
answer "No changes specified." depends on what was appended to `changes`, not on what was written
(`NoChanges`). `ProtocolLayers` is what a user thinks of: a set of protocols, each on top of its parent. The
mapping forgets duplicates and settings (`Layers`).

### SessionConfig, PortTools, TopologyTools, SessionTools: `tools/ports.py`, `topology.py`, `config.py`

`SessionConfig` has the part of an IxNetwork session these tools work on: virtual ports (assigned to
hardware or not), topologies, device groups (started or not, with a prefix pool or not), each with a number
in the order of creation and a name that need not be unique. `find(Name=...)` is `Named`, `[0]` is `First`.

Here a tool call is one step, described by all its *outcomes*: the configurations it may leave, each with
its answer (`ok`, `nothing` to do, `not found`, `error`). The connection's lock justifies the one step
(`OpsSerialised`, which is proved); what makes it hard is that any of the REST calls in it may raise, before
or after it took effect, and that nothing is taken back. So `ForNamedPorts` has an outcome for every place
where its loop over names and ports may stop, `AddPorts` for every number of ports added before the failure
and for every set of them that `AssignPorts` got hardware for, and `UpdateTopology` for the name already
changed. The answer decides what a client does next: the properties compare the outcomes of a call with
those of its repetition.

A loaded file may hold any configuration, duplicate names included (`Loadable`); that is how configurations
come about that the tools do not build themselves. `Fits` is a bound: calls are made as long as there are
numbers.

### RequestDefaults: `request_context.py`, the middleware of `server.py`, `client.py`

A value is known only by where it comes from: the arguments or the headers of a certain request, the command
line, the environment, a constant. `context` has the context variable of every task: the one that runs the
middleware of a request, the task of the stateless server that is started for it, the one that handles the
message, the executor thread that connects; and of the task that runs the event loop, which under stdio is
also the one server's. A task or thread starts with a *copy* of the context of the one that starts it
(`Copy`). A request may end, and reset its variable, while its connect still waits for a thread (`End`).
`Resolve` is `_first_not_none` in `connect`. How the MCP library starts its tasks is modelled from the
options `server.py` gives it (`stateless_http=True`).

## 4. What the runs show

| Run | Instance | Shows |
|---|---|---|
| `manager_safety` | 3 connections, 3 threads, 2 sessions, expiry after 2 ticks, a clock reading up to 1 tick old | types; `OneOwner`; implements `ConnectionLifecycle` |
| `server_http` | HTTP, 2 requests, 2 executor threads, 2 connections, 1 signal, expiry after 1 tick, a clock reading up to 1 tick old | types; `KnownIsPooledOrReleased`; `AnsweredMeansReleased`; `ExitClean`; `ReaperSparesUsed`; implements `ConnectionManager` |
| `server_signals` | stdio, the same with 2 signals | `OpsSerialised`; `NoLeakedLock`; `CalmExitClean`: without a signal nothing is left at exit, although nothing is reaped |
| `server_live` | HTTP, 2 requests, 2 executor threads, 1 connection, 1 signal; tools may hang for ever | `MainThreadReturns`, `IdleReclaimed`, `OrphansReclaimed`; and if IxNetwork answers, `RequestsAnswered`, `ShutdownCompletes` |
| `traffic_items` | 2 agents, 2 names, 2 items, up to 2 properties written per call | types; implements `TrafficSession`; `RetryHarmless` |
| `protocol_stacks` | ethernet, ipv4, ipv6, bgpv6; at most 5 stacks | types; `OnlyFirstGrows`; implements `ProtocolLayers` |
| `session_config` | 2 ports, topologies and device groups with 2 names each, lists of up to 2 names, loaded files with up to 1 object of each kind | types; `RetryAddsNothing`; `RetryConverges`; `OkMeansAll`; `CleanSlate` |
| `request_defaults` | 2 requests at a time, host and user as texts, port as an integer, command line and environment for some of them, both transports | types; `OwnDefaults` |
| four `claim_...` runs | as small as shows it | section 6 |

What the properties of `session_config` say:

- `RetryAddsNothing`: a repeated call of a tool with `idempotentHint` leads nowhere that one call could not
  have led to, whatever became of the first attempt; for delete and rename, as long as names are unique.
- `RetryConverges`: repeating a release, a removal of all ports, a start or stop of protocols, a load or an
  update without a new name until it succeeds leads exactly where the first call could have led.
- `OkMeansAll`: success by name covers all objects of the name, those that failed calls left there too.
- `CleanSlate`: after an add that failed anywhere, removing ports and making the same call again gives names
  that lead to ports with hardware, whatever else is there. Removing all ports is never stuck. Removing those
  of the names works only if the failed call added a port of each name, or there was one before; the property
  says what follows if it does.

Bounds, and why they are enough:

- *Two requests* are the least at which one can hold what another waits for. With *two connections* a
  disconnect can hit or miss the connection another call is about. Three threads on the pool are two
  removals racing over a connection that a third has just made.
- *One session* suffices in `McpServer` where no property asks who shares one; `claim_disconnect_keeps_others`
  has two.
- *`MaxSignals` = 2* lets a handler interrupt a handler. The third would do to the second what that did
  to the first. (Liveness and HTTP runs have one.)
- *`MaxLag` = 1* lets every idle time be judged by a clock reading that was overtaken by a `get()`.
- *Connections are never reused*: `uuid4` makes ids distinct, so the number of connections bounds the
  number of connects of a behaviour.
- *Two items with two names* include equal names, an index that shifts when the first item goes and a
  call about an item that is gone.
- *Two ports, topologies and groups* include two objects of one name, one object before and one after a
  failure, and a group in the first or in the second of two topologies of one name. A list of two names may
  have an entry twice. Port names are the numbers that default names use, so that an add without names can
  collide with what is there.
- *Two requests at a time* are the least at which headers can be mixed up; slots are used again, and there
  is no bound on how many requests come. Three fields are a text with a server default, an integer, and one
  that only has a constant; which of them the command line and the environment give is fixed.
- *Five stacks* of four protocols are a whole two-branch tree with a duplicate, or a chain with two. BGP over
  IPv4 goes the way of BGP over IPv6, one find() earlier.
- *Expiry after 1 tick* in `server_http` exposes every connection that is a tick old by the reaper's own
  reading, so that one used in between is spared only because `get()` stamps it.
- `Symmetry` is used in runs without temporal formulas that need liveness checking; no action tells
  connections, threads, sessions, agents, names or items apart. In `McpServer` frames are numbers and not
  part of the symmetry.

Deadlock is checked in every run; `McpServer` has `Terminated` for a process that has exited.

## 5. Fairness

| Assumption | Why the code justifies it |
|---|---|
| strong, `TimePasses` | the clock runs; strong because with `MaxLag` = 0 the model's clock stands still while `disconnect_stale` waits for the lock, which is the bound's doing |
| strong, `ReaperWake` | the timer of `asyncio.sleep(300)` is a callback among others; the loop runs again and again |
| strong, `MainRuns(i)` | the scheduler runs the main thread; `_lock` is held only for a few instructions and is got in the end; an exception of the cleanup is dropped. That `Session.remove()` returns or raises is an assumption on the REST library: the code sets no timeout |
| weak, `WorkerInsert`, `WorkerGet` | a thread inside a critical section that waits for nothing leaves it |
| `ToolFairness`: the executor's queue is worked off, `WorkerStep`, `Reply`, `ServeReturns`, the teardown | IxNetwork answers or the REST client raises; the loop delivers results |

`LoopFairSpec` has the first four only: it assumes nothing of the calls to IxNetwork that a tool makes
under its connection's lock. `ToolFairness` is a premise of the two properties that need it,
`RequestsAnswered` and `ShutdownCompletes`, so that one run of `LoopFairSpec` checks all five. No request is
assumed to come, no client to disconnect, no signal to arrive. `ShutdownCompletes` is for HTTP. Under stdio
the thread that reads standard input is not the program's and may keep the process waiting, and a signal at
the wrong moment does stop it for ever (section 6).

## 6. Where the code does not do what is said of it

Each is a run that TLC must find violated.

| Run | Said | Done |
|---|---|---|
| `claim_disconnect_keeps_others` | a test named `test_disconnect_one_keeps_other` connects twice with the same parameters | both connections share one session; cleaning one up removes it |
| `claim_reaps_only_unused` | "Remove connections idle longer than ..." | `last_used_at` is written when a call begins; one that runs longer than the threshold has its session removed under it |
| `claim_nothing_abandoned` | "disconnecting all IxNetwork sessions" at shutdown | under stdio `sys.exit` in the handler unwinds `ixia_disconnect` after the pop and before the cleanup; nobody cleans the connection up |
| `claim_handler_finishes` | `disconnect_all` is "used during shutdown" | under stdio the handler waits for the non-reentrant `_lock` that the frame below it holds; the process hangs |

## 7. Observations without a run

Seen while modelling; no property states them, and the model, where it has the detail, behaves like the
code.

- `ixia_delete_traffic_item` is declared idempotent. By index, or among items of one name, a repeated
  call deletes the next item (`traffic.py:476`, `492`). `RetryHarmless` leaves delete out for that reason.
- An index names another item once *someone else* has deleted one before it; a retry of any call by index
  then hits the wrong item (`traffic.py:84`). `RetryHarmless` is about repetitions with nothing in between.
- `ixia_create_traffic_item` that failed after the item was made leaves it without endpoints, and a retry
  makes a second of the name (`traffic.py:445`). It is not declared idempotent.
- Starting all traffic leaves suspended items silent (`traffic.py:335`), and an empty item name counts as
  none, so that stop then stops everything (`traffic.py:377`).
- `OnlyFirstGrows` holds of what the tools build. In a loaded configuration a protocol may stand on a
  second Ethernet, where removal does not find it (`protocols.py:198`).
- After a repeated add, configure changes the older stack (`protocols.py:272`).
- A VLAN id or priority enables VLANs even if the call asked for them to be disabled, and the answer then
  reports them disabled (`protocols.py:287`, `290`). It also enables them if the call omits `vlan_enabled`,
  although "omitted fields remain unchanged" (`protocols.py:253`); and an id without a VLAN object to put it in
  enables VLANs and is answered "No changes specified." (`protocols.py:292`, `314`). The model does the same.
- `ixia_start_traffic` of one item answers "is already running (was not suspended)" also of an item that is
  not sent, because traffic was never started or was stopped (`traffic.py:331`, `347`).
- An empty list of port names counts as none, and then every port is removed or released
  (`ports.py:251`, `304`).
- A retried `ixia_add_ports` after a failed assignment leaves unassigned ports of the same names, of which
  the topology tools take the first (`ports.py:204`, `topology.py:429`); removing them is the way out
  (`CleanSlate`). Adding without names twice gives two ports "Port 1" (`ports.py:183`).
- `ixia_remove_ports` by names that stopped half-way cannot be finished by a retry: the first name that is
  gone by now answers "No port named ... found." (`ports.py:309`). A name given twice does the same to a
  first call.
- Repeated deletes and renames, declared idempotent, hit the next object of the name, if there is one
  (`topology.py:473`, `515`, `661`); otherwise a retried rename finds nothing by the old name, and what it
  was to change besides (ports, multiplier, enabled) stays undone.
- `ixia_update_topology` renames before it looks the ports up (`topology.py:515`).
- A network group whose prefix pool fails stays without one, and a retry adds another (`topology.py:722`).
- An `X-IXIA-*` header that should be an integer and is not counts as not sent, so that the server's default
  is used without a word (`server.py:64`); an empty header of text counts as given.
- Idle times are differences of `time.time()`, which may be set (`client.py:174`).

## 8. What is proved

All proofs are for any values of the constants; the only assumptions are the named `ASSUME`s of the
modules (`ManagerAssumption`: the bounds are natural numbers and "no thread" is not a thread;
`ProtocolAssumption`: the protocols are in `_PROTOCOL_MAP`, each with what it is stacked on;
`StacksAssumption`; `ServerAssumption`: requests and frames are the manager's threads and not each other,
the bounds are numbers; `FieldAssumption`: what is given or an integer is a field; `ConfigAssumption` and
`SessionAssumption`: the bounds are numbers, default names are port names, "no name" is not a name;
`TrafficAssumption`: "no name" and the empty name are not names, a call that writes writes something).

`ConnectionManagerProofs`, for any number of threads, connections and sessions:

- `ManagerTyped` and `ManagerOwned`: `OneOwner` with the types is inductive as it stands. `Exclusive`
  alone is not: without `Accounted` a connection could be built a second time.
- `ManagerImplementsLifecycle`: under `OneOwner` the owner decides the stage (`StageByOwner`), so that each
  action moves exactly the connections whose owner it changes (`StageUnchanged`), by one stage.

`ProtocolStacksProofs`, for any set of protocols and any number of stacks:

- The invariant is `IInv`: the tree is well-formed and `OnlyFirstGrows`. A new stack has the highest number,
  so what was first stays first (`AddInv`). A stack goes together with everything above it, so the parents
  of what stays are kept and stay first (`DropInv`).
- `StacksTyped`, `StacksReachable`: its two parts.
- `StacksImplementLayers`: every step on the tree is a step on the set of its protocols. There is something
  to stand on exactly if the parent protocol is there (`ParentThere`, which needs that a non-empty set of
  numbers has a least one); the search of the removal finds every stack of its protocol (`AllRemoved`);
  what goes with them are the layers above, and if all go, those layers are gone (`DropKinds`).

`McpServerProofs`, for any number of requests, executor threads, signals, connections and sessions:

- The invariant is `IInv`: the manager's types; `StackInv`, a frame of the main thread is in a method of the
  manager exactly while it has something to do there; `QueueInv`, the executor's queue has each waiting work
  item once; `WorkInv`, a tool call has the connection it needs and holds its lock while it works on it; and
  `NoLeakedLock`. `OpsSerialised` alone is not inductive: that two calls do not run on one connection follows
  from `WorkInv`, by which each of them would be the holder of the lock. `NoLeakedLock` needs `StackInv` for
  the frames that a `SystemExit` unwinds, and `QueueInv` because a cancelled item must not start later.
- `ServerTyped`, `LockNeverLeaked`, `OpsExclude`: its consequences.
- `ServerImplementsManager`: each step of the server is one of `ConnectionManager` or leaves its variables
  alone (`ServerStepManager`).
- `ServerOwned`: from it and `ManagerOwned`, without another proof, `OneOwner` in the running server.

`McpServerReleaseProofs`, for the same and both transports:

- The invariant is `ReleaseInv`: `IInv`, `OneOwner`, and three parts that say who may hold a connection when.
  `Making`: a connection being built is known to the tool call that builds it and to nobody else; no client
  knows its id yet. `Disconnecting`: frame 0 runs one `ixia_disconnect` at most, which has the connection in
  hand or cleaned up once its body is over, and while the process serves nothing is abandoned. `Orderly`, as
  long as `Calm`: shutdown ends with no thread at work, then with an empty pool. The claims alone are not
  inductive, since what becomes of a connection depends on which frame has it and whether that frame goes on.
- `DisconnectReleases`: `AnsweredMeansReleased`, without further premises. A signal that unwinds
  `ixia_disconnect` also keeps it from answering.
- `KnownNotForgotten`: `KnownIsPooledOrReleased` holds while the process serves and, if `Calm`, to its end.
  `Calm` means that no signal has run `_shutdown_handler` on top of the main thread's work: under HTTP uvicorn
  takes the first one and raises it again when `serve()` is over, and under stdio there was none. Neither
  premise can be dropped: `claim_nothing_abandoned` (section 6) is what a signal at the wrong moment does.
- `CalmExitsClean`: under the same premise `ExitClean`, which is `CalmExitClean`. Connects that are under way at shutdown end before
  `atexit` runs `disconnect_all`, because the threads are joined first.

  In the run `server_http`, which checks both claims without a premise, every state is `Calm`; under stdio
  `server_signals` checks the second with it.
- `ReaperSpares`: `ReaperSparesUsed`, of `ReaperHistory`. The reaper's clock reading is never older than the
  time for which `disconnect_stale` has been under way, and what is used in that time is stamped later. The
  invariant says so (`UsedYoung`: the idle time of a connection in `used` is at most the age of the reading),
  and that while the reaper is in `disconnect_stale` no other call of the main thread is (`ReaperAlone`); it
  rests on `StepUnaged`, that no step of the manager makes a connection older but the clock's.

`TrafficItemsProofs`, for any number of agents, items and names and any number of properties a call writes:

- The invariant is `IInv`: the types, one call at a time (from the connection's lock), and `Progress`, which
  says for each stage of a call what it found and what it has made of the session since. The last part is
  what ties the answer to the effect.
- `TrafficTyped`: its first part. Removing an item is `RemoveFirst` of the community modules, which removes
  the element at the least of its positions (`LeastOf`, `RemoveFirstSeq`).
- `TrafficImplementsAtomic`: a step in the middle of a call is not seen from outside, and the last one is the
  atomic call, in each way it may end; for generate, which goes on after an item that failed, with the set of
  items that were generated.
- `TrafficRetryHarmless`: with `StillSettled`, that nothing has undone what the call answered last has done.

`RequestDefaultsProofs`, for any number of requests and fields:

- The invariant is the types with `ContextInv`: at each stage the context of the task or thread that the call
  has reached is `Wanted(r)`, the headers of its own request or, under stdio, none. `OwnDefaults` alone says
  nothing of the way there, on which other requests set and reset their variables.
- `DefaultsTyped`, `DefaultsOwn`: its parts and consequence.

`SessionToolsProofs`, for any names, any number of ports, topologies and groups and any loaded file:

- The invariant is `Sound`, `ConfigTypeOK` of any configuration, so that it can be said of each outcome: a
  new object gets a number above all others (`NextAtAbove`, which needs that a non-empty bounded set has a
  largest number), a changed one keeps its number, a topology goes together with its groups.
- `ConfigTyped`, and `OkCoversAll`: `OkMeansAll` is true of every outcome of every call in a sound
  configuration (`NamesOk`, `StartStopOk`).

`SessionRetryProofs`, for the same: `RetryAddsNothing`, `RetryConverges` and `CleanSlate` compare a call with
the calls that follow it, and are true of every outcome in every `Sound` configuration.

- `RetryAddsNothingAlways`. Release and remove stop somewhere in a list of names and in the ports of one
  name; whatever the place, dealing with ports twice is dealing with them once (`GoneTwice`), a repeated call
  finds the same ports under the same numbers or does not find those removed (`SamePorts`), and of two places
  to stop one covers the other (`PartsNested`): so the two calls together end where one could have stopped
  (`NamesAddNothing`). Start and stop go the same way, with device groups in the order of their topologies
  (`RunningTwice`, `InTurnNested`, `StartStopAgain`). Deleting and renaming find no other object of the name
  if names are unique (`TopologyUnique`, `GroupUnique`): the premise of `RetryAddsNothing`, without which it is
  false (section 7).
- `RetryConvergesAlways`. Success means all that was wanted (`NamedSucceeds`, `StartStopEnds`), whatever part
  of it was done before.
- `CleanSlateAlways`. What a failed add leaves is sound (`AddPortsSound`), a successful removal leaves no port of
  the names, or none at all (`RemovedGone`, from `NamedSucceeds`), and of those that a successful add makes each
  has hardware (`AddedAssigned`). Removing all ports can always succeed (`RemoveAllSucceeds`).

Only model-checked is all liveness of `McpServer` (`MainThreadReturns`, `IdleReclaimed`, `OrphansReclaimed`,
`RequestsAnswered`, `ShutdownCompletes`): the prover does not reach formulas with fairness. Every other
property of a passing run is stated by a theorem. The four claims of section 6 are false, and only TLC shows
that.

## 9. What is not modelled

- Which ports a topology has: only the reading tools show it. A topology tool's ports are only looked up, so that a removed
  port's topologies are as before.
- `ixia_save_config` writes a file on the IxNetwork server and leaves the session alone. What loading a
  configuration does to traffic items and protocol stacks: `SessionTools`, `TrafficItems` and
  `ProtocolStacks` each have their own part of a session, and no property relates the parts.
- Network groups but for whether one of a device group has a prefix pool.
- Statistics: reads, without state of their own. Input models: declarations; the conditions they impose
  are in the sets of inputs of the tools' modules.
- The values of settings, but for `EnableVlans`: that a configure tool sets a stack, not what it sets. Names are compared as
  wholes, although `find(Name=...)` takes a regular expression. Whether the attribute names exist in the
  REST library is not something the source decides.
- The reading tools: they change nothing; that they exclude the others is in `OpsSerialised`.
- A crash of the process without shutdown: nothing is persisted, and the sessions it had stay on the
  API servers.
