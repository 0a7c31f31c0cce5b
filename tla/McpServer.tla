------------------------------ MODULE McpServer ------------------------------
(***************************************************************************)
(* The server process of src/ixia_mcp/server.py: one event loop on the main *)
(* thread, executor threads for the blocking tools, signal handlers that    *)
(* run on top of whatever the main thread is doing, the reaper, and         *)
(* shutdown.  All of them meet in the ConnectionManager.                    *)
(*                                                                         *)
(* Threads of the manager are the requests (a tool call runs on an executor *)
(* thread of its own) and the frames of the main thread: frame 0 is the     *)
(* call the main program makes (ixia_disconnect, the reaper's               *)
(* disconnect_stale, disconnect_all from atexit), frame i > 0 the call made *)
(* by the i-th nested run of the signal handler.  Only the topmost frame    *)
(* runs.                                                                    *)
(***************************************************************************)
EXTENDS ConnectionManager, SequencesExt

CONSTANTS
  Req,          \* slots for tool calls in progress
  Transport,    \* "http" (streamable-http) or "stdio"
  MaxWorkers,   \* threads of the default executor
  MaxSignals,   \* bound: SIGTERM/SIGINT delivered in one run of the process
  NoReq,        \* the connection's own lock is free
  NoConn        \* the tool call has no connection (yet)

Level == 0 .. MaxSignals

ASSUME ServerAssumption ==
  /\ MaxWorkers \in Nat \ {0}
  /\ MaxSignals \in Nat
  /\ Transport \in {"http", "stdio"}
  /\ Thread = Level \cup Req
  /\ Req \cap Level = {}
  /\ NoReq \notin Req
  /\ NoConn \notin Conn

VARIABLES
  \* The main thread
  phase,      \* how far the process is from serving to exited
  stopping,   \* uvicorn's should_exit
  signals,    \* signals delivered so far
  call,       \* the method of the manager that frame i is running
  at,         \* how far frame i is in it
  lag,        \* ticks since disconnect_stale read the clock
  \* The tool calls
  h,          \* the coroutine of the tool call, on the event loop
  tool,       \* which tool it is
  arg,        \* the connection it is about
  queue,      \* work items waiting for an executor thread
  worker,     \* the executor thread running it
  connLock,   \* the holder of a connection's own lock
  known       \* connections whose id a client has received

mainVars == <<phase, stopping, signals, call, at, lag>>
toolVars == <<h, tool, arg, queue, worker, connLock, known>>
vars == <<managerVars, mainVars, toolVars>>

\* Executor threads at work; `queued` and `done` work items occupy none.
Working == {"opening", "want", "hold", "wait", "run"}

ServerTypeOK ==
  /\ ManagerTypeOK
  /\ phase \in {"serving", "closing", "joining", "atexit", "exited"}
  /\ stopping \in BOOLEAN
  /\ signals \in Level
  /\ call \in [Level -> {"none", "disconnect", "stale", "all"}]
  /\ at \in [Level -> {"none", "want", "hold", "clean"}]
  /\ lag \in 0 .. MaxLag
  /\ h \in [Req -> {"none", "await", "cancelled"}]
  /\ tool \in [Req -> {"none", "connect", "op", "disconnect"}]
  /\ arg \in [Req -> Conn \cup {NoConn}]
  /\ queue \in Seq(Req)
  /\ worker \in [Req -> Working \cup {"idle", "queued", "done"}]
  /\ connLock \in [Conn -> Req \cup {NoReq}]
  /\ known \subseteq Conn

Init ==
  /\ ManagerInit
  /\ phase = "serving"
  /\ stopping = FALSE
  /\ signals = 0
  /\ call = [i \in Level |-> "none"]
  /\ at = [i \in Level |-> "none"]
  /\ lag = 0
  /\ h = [r \in Req |-> "none"]
  /\ tool = [r \in Req |-> "none"]
  /\ arg = [r \in Req |-> NoConn]
  /\ queue = <<>>
  /\ worker = [r \in Req |-> "idle"]
  /\ connLock = [c \in Conn |-> NoReq]
  /\ known = {}

-----------------------------------------------------------------------------
(* The main thread's stack of frames.                                       *)

NoFrames == \A i \in Level : call[i] = "none"

\* The event loop runs callbacks: the main thread is in none of the manager's
\* (blocking) methods.
LoopRuns == phase = "serving" /\ NoFrames

Top(i) == call[i] # "none" /\ \A j \in Level : j > i => call[j] = "none"

\* The main thread enters method m of the manager, in frame i.
Enter(i, m) ==
  /\ call' = [call EXCEPT ![i] = m]
  /\ at' = [at EXCEPT ![i] = "want"]

\* Frames up to i are gone: returned, or unwound.
Leave(i) ==
  /\ call' = [j \in Level |-> IF j <= i THEN "none" ELSE call[j]]
  /\ at' = [j \in Level |-> IF j <= i THEN "none" ELSE at[j]]

-----------------------------------------------------------------------------
(* Tool calls: the event loop's side.                                       *)

\* The event loop starts the handler of a request the transport accepted.
Accepting(r) ==
  /\ LoopRuns
  /\ ~stopping
  /\ h[r] = "none"
  /\ worker[r] = "idle"

\* asyncio.to_thread: hand the body of the tool to the executor and wait.
Submit(r, name, c) ==
  /\ Accepting(r)
  /\ h' = [h EXCEPT ![r] = "await"]
  /\ tool' = [tool EXCEPT ![r] = name]
  /\ arg' = [arg EXCEPT ![r] = c]
  /\ worker' = [worker EXCEPT ![r] = "queued"]
  /\ queue' = Append(queue, r)
  /\ UNCHANGED <<managerVars, mainVars, connLock, known>>

\* ixia_connect.
SubmitConnect(r) == Submit(r, "connect", NoConn)

\* Any of the 39 tools that work on a connection: they all look it up with
\* get() and then hold its lock around the calls to IxNetwork.
SubmitOp(r, c) == c \in known /\ Submit(r, "op", c)

\* ixia_disconnect runs manager.disconnect() on the event loop itself.
SubmitDisconnect(r, c) ==
  /\ Accepting(r)
  /\ c \in known
  /\ h' = [h EXCEPT ![r] = "await"]
  /\ tool' = [tool EXCEPT ![r] = "disconnect"]
  /\ arg' = [arg EXCEPT ![r] = c]
  /\ Enter(0, "disconnect")
  /\ UNCHANGED <<managerVars, phase, stopping, signals, lag,
                 queue, worker, connLock, known>>

\* The slot of the tool call r is free again.
Forget(r) ==
  /\ h' = [h EXCEPT ![r] = "none"]
  /\ tool' = [tool EXCEPT ![r] = "none"]
  /\ arg' = [arg EXCEPT ![r] = NoConn]
  /\ worker' = [worker EXCEPT ![r] = "idle"]

\* to_thread returns or raises; the tool answers.  The answer to ixia_connect
\* carries the connection's id.
Reply(r) ==
  /\ LoopRuns
  /\ h[r] = "await"
  /\ worker[r] = "done"
  /\ known' = known \cup ({arg[r]} \ {NoConn})
  /\ Forget(r)
  /\ UNCHANGED <<managerVars, mainVars, queue, connLock>>

\* The client goes away or cancels the request.  CancelledError is no
\* Exception, so no answer is made; a work item still queued is dropped, one
\* that is running goes on to its end with nobody waiting for it.
Cancel(r) ==
  /\ LoopRuns
  /\ h[r] = "await"
  /\ IF worker[r] = "queued"
       THEN /\ Forget(r)
            /\ \E k \in 1 .. Len(queue) : queue[k] = r /\ queue' = RemoveAt(queue, k)
       ELSE /\ h' = [h EXCEPT ![r] = "cancelled"]
            /\ UNCHANGED <<tool, arg, worker, queue>>
  /\ UNCHANGED <<managerVars, mainVars, connLock, known>>

\* The work item of a cancelled request has ended.
Discard(r) ==
  /\ phase # "exited"
  /\ h[r] = "cancelled"
  /\ worker[r] = "done"
  /\ Forget(r)
  /\ UNCHANGED <<managerVars, mainVars, queue, connLock, known>>

-----------------------------------------------------------------------------
(* Tool calls: the executor's side.                                         *)

\* Work item r goes on to stage s of its body.
WorkerAt(r, s) == worker' = [worker EXCEPT ![r] = s]

\* An executor thread takes the oldest work item.
StartWork ==
  /\ phase # "exited"
  /\ queue # <<>>
  /\ Cardinality({r \in Req : worker[r] \in Working}) < MaxWorkers
  /\ LET r == Head(queue)
     IN WorkerAt(r, IF tool[r] = "connect" THEN "opening" ELSE "want")
  /\ queue' = Tail(queue)
  /\ UNCHANGED <<managerVars, mainVars, h, tool, arg, connLock, known>>

\* Mutant: connect() hands out the connection without inserting it.
OpenOkUnpooled(r, c, s) ==
  /\ phase # "exited"
  /\ worker[r] = "opening"
  /\ Open(r, c, s)
  /\ arg' = [arg EXCEPT ![r] = c]
  /\ WorkerAt(r, "done")
  /\ UNCHANGED <<mainVars, h, tool, queue, connLock, known>>

\* connect(): the connection is built, attached to any session, shared or not.
OpenOk(r, c, s) ==
  /\ phase # "exited"
  /\ worker[r] = "opening"
  /\ Open(r, c, s)
  /\ arg' = [arg EXCEPT ![r] = c]
  /\ WorkerAt(r, "want")
  /\ UNCHANGED <<mainVars, h, tool, queue, connLock, known>>

\* connect(): SessionAssistant(...) or .Ixnetwork raises.
OpenFail(r) ==
  /\ phase # "exited"
  /\ worker[r] = "opening"
  /\ WorkerAt(r, "done")
  /\ UNCHANGED <<managerVars, mainVars, h, tool, arg, queue, connLock, known>>

\* connect() or get() waits for the manager's _lock.
WorkerAcquire(r) ==
  /\ phase # "exited"
  /\ worker[r] = "want"
  /\ Acquire(r)
  /\ WorkerAt(r, "hold")
  /\ UNCHANGED <<mainVars, h, tool, arg, queue, connLock, known>>

\* connect(): insert and return.
WorkerInsert(r) ==
  /\ phase # "exited"
  /\ worker[r] = "hold"
  /\ tool[r] = "connect"
  /\ Insert(r, arg[r])
  /\ WorkerAt(r, "done")
  /\ UNCHANGED <<mainVars, h, tool, arg, queue, connLock, known>>

\* Mutant: get() raises KeyError with _lock held.
WorkerGetKeepsLock(r) ==
  /\ phase # "exited"
  /\ worker[r] = "hold"
  /\ tool[r] = "op"
  /\ IF arg[r] \in pool THEN Get(r, arg[r]) ELSE UNCHANGED managerVars
  /\ WorkerAt(r, IF arg[r] \in pool THEN "wait" ELSE "done")
  /\ UNCHANGED <<mainVars, h, tool, arg, queue, connLock, known>>

\* get(): with the connection in hand the tool goes for its lock; KeyError
\* ends the work item.
WorkerGet(r) ==
  /\ phase # "exited"
  /\ worker[r] = "hold"
  /\ tool[r] = "op"
  /\ Get(r, arg[r])
  /\ WorkerAt(r, IF arg[r] \in pool THEN "wait" ELSE "done")
  /\ UNCHANGED <<mainVars, h, tool, arg, queue, connLock, known>>

\* Mutant: the tool does not wait for the connection's lock.
LockConnUnguarded(r) ==
  /\ phase # "exited"
  /\ worker[r] = "wait"
  /\ connLock' = [connLock EXCEPT ![arg[r]] = r]
  /\ WorkerAt(r, "run")
  /\ UNCHANGED <<managerVars, mainVars, h, tool, arg, queue, known>>

\* Mutant: last_used_at is written again under the connection's lock.
LockConnStamps(r) ==
  /\ phase # "exited"
  /\ worker[r] = "wait"
  /\ connLock[arg[r]] = NoReq
  /\ connLock' = [connLock EXCEPT ![arg[r]] = r]
  /\ idle' = [idle EXCEPT ![arg[r]] = 0]
  /\ WorkerAt(r, "run")
  /\ UNCHANGED <<pool, mlock, sess, made, taken, cleanup, lost,
                 mainVars, h, tool, arg, queue, known>>

\* `with conn.lock`: nothing looks again whether the connection is still in
\* the pool.
LockConn(r) ==
  /\ phase # "exited"
  /\ worker[r] = "wait"
  /\ connLock[arg[r]] = NoReq
  /\ connLock' = [connLock EXCEPT ![arg[r]] = r]
  /\ WorkerAt(r, "run")
  /\ UNCHANGED <<managerVars, mainVars, h, tool, arg, queue, known>>

\* Mutant: the connection's lock is not released.
OpDoneKeepsLock(r) ==
  /\ phase # "exited"
  /\ worker[r] = "run"
  /\ WorkerAt(r, "done")
  /\ UNCHANGED <<managerVars, mainVars, h, tool, arg, queue, connLock, known>>

\* The calls to IxNetwork return or raise; either way the lock is released.
OpDone(r) ==
  /\ phase # "exited"
  /\ worker[r] = "run"
  /\ connLock' = [connLock EXCEPT ![arg[r]] = NoReq]
  /\ WorkerAt(r, "done")
  /\ UNCHANGED <<managerVars, mainVars, h, tool, arg, queue, known>>

-----------------------------------------------------------------------------
(* The main thread inside the manager.                                      *)

\* Mutant: the reaper waits for a moment without tool calls.
ReaperWakeWhenQuiet ==
  /\ Transport = "http"
  /\ LoopRuns
  /\ \A r \in Req : h[r] # "await"
  /\ Enter(0, "stale")
  /\ lag' = 0
  /\ UNCHANGED <<managerVars, toolVars, phase, stopping, signals>>

\* Mutant: the reaper stops with the first signal, not when serve() returns.
ReaperWakeUntilSignal ==
  /\ Transport = "http"
  /\ LoopRuns
  /\ ~stopping
  /\ Enter(0, "stale")
  /\ lag' = 0
  /\ UNCHANGED <<managerVars, toolVars, phase, stopping, signals>>

\* `await asyncio.sleep(300)` is over: the reaper calls disconnect_stale(),
\* which reads the clock.  There is a reaper under HTTP only.
ReaperWake ==
  /\ Transport = "http"
  /\ LoopRuns
  /\ Enter(0, "stale")
  /\ lag' = 0
  /\ UNCHANGED <<managerVars, toolVars, phase, stopping, signals>>

MainAcquire(i) ==
  /\ Top(i)
  /\ at[i] = "want"
  /\ Acquire(i)
  /\ at' = [at EXCEPT ![i] = "hold"]
  /\ UNCHANGED <<toolVars, phase, stopping, signals, call, lag>>

\* The body of the method that frame i runs, under _lock.
MainBody(i) ==
  /\ Top(i)
  /\ at[i] = "hold"
  /\ \/ call[i] = "all" /\ DisconnectAll(i)
     \/ call[i] = "stale" /\ DisconnectStale(i, lag)
     \/ /\ call[i] = "disconnect"
        /\ \E r \in Req : /\ tool[r] = "disconnect"
                          /\ Disconnect(i, arg[r])
  /\ at' = [at EXCEPT ![i] = "clean"]
  /\ lag' = 0
  /\ UNCHANGED <<toolVars, phase, stopping, signals, call>>

\* Mutant: the cleanup waits for the connection's own lock.
MainCleanupLocked(i, c) ==
  /\ Top(i)
  /\ at[i] = "clean"
  /\ connLock[c] = NoReq
  /\ \E outcome \in Cleaned : Cleanup(i, c, outcome)
  /\ UNCHANGED <<toolVars, mainVars>>

\* The cleanup loop of that method.
MainCleanup(i, c) ==
  /\ Top(i)
  /\ at[i] = "clean"
  /\ \E outcome \in Cleaned : Cleanup(i, c, outcome)
  /\ UNCHANGED <<toolVars, mainVars>>

\* Mutant: the method returns before the cleanup loop has ended.
FinishedEarly(i) == Top(i) /\ at[i] = "clean"

\* Frame i has nothing left to clean up.
Finished(i) == Top(i) /\ at[i] = "clean" /\ taken[i] = {}

\* disconnect() returns or raises KeyError: ixia_disconnect answers.
DisconnectReturn(r) ==
  /\ Finished(0)
  /\ call[0] = "disconnect"
  /\ tool[r] = "disconnect"
  /\ Leave(0)
  /\ Forget(r)
  /\ UNCHANGED <<managerVars, phase, stopping, signals, lag,
                 queue, connLock, known>>

\* disconnect_stale() returns; the reaper sleeps again.
StaleReturn ==
  /\ Finished(0)
  /\ call[0] = "stale"
  /\ Leave(0)
  /\ UNCHANGED <<managerVars, toolVars, phase, stopping, signals, lag>>

-----------------------------------------------------------------------------
(* Signals and shutdown.                                                    *)

\* uvicorn's handlers are installed while it serves.
UvicornHandles == Transport = "http" /\ phase = "serving" /\ \A i \in Level \ {0} : call[i] = "none"

\* uvicorn notes the signal and stops taking requests.
UvicornSignal ==
  /\ UvicornHandles
  /\ signals < MaxSignals
  /\ signals' = signals + 1
  /\ stopping' = TRUE
  /\ UNCHANGED <<managerVars, toolVars, phase, call, at, lag>>

\* serve() returns once every request was answered (a second signal makes it
\* stop waiting), puts the process's own handlers back and raises the signal
\* it noted: _shutdown_handler calls disconnect_all().
ServeReturns ==
  /\ Transport = "http"
  /\ LoopRuns
  /\ stopping
  /\ signals > 1 \/ \A r \in Req : h[r] # "await"
  /\ Enter(1, "all")
  /\ UNCHANGED <<managerVars, toolVars, phase, stopping, signals, lag>>

\* A signal while _shutdown_handler is installed: Python runs it on the main
\* thread, between two bytecodes of, or inside, whatever runs there.
DeliverSignal(i) ==
  /\ phase # "exited"
  /\ ~UvicornHandles
  /\ signals < MaxSignals
  /\ i > 0
  /\ \A j \in Level : j >= i => call[j] = "none"
  /\ i > 1 => call[i - 1] # "none"
  /\ signals' = signals + 1
  /\ Enter(i, "all")
  /\ UNCHANGED <<managerVars, toolVars, phase, stopping, lag>>

\* What the exception of sys.exit(0) interrupts: the event loop; its teardown;
\* the wait for the executor threads; the atexit call.
Interrupted == [serving |-> "closing", closing |-> "joining",
                joining |-> "atexit",  atexit |-> "exited"]

\* Mutant: the handler returns instead of calling sys.exit(0).
HandlerReturns(i) ==
  /\ i > 0
  /\ Finished(i)
  /\ call' = [call EXCEPT ![i] = "none"]
  /\ at' = [at EXCEPT ![i] = "none"]
  /\ UNCHANGED <<managerVars, toolVars, phase, stopping, signals, lag>>

\* disconnect_all() returns to _shutdown_handler, which calls sys.exit(0): the
\* frames below are unwound.
HandlerExit(i) ==
  /\ i > 0
  /\ Finished(i)
  /\ Abandon({j \in Level : j < i})
  /\ phase' = Interrupted[phase]
  /\ IF phase = "joining"
       THEN /\ call' = [j \in Level |-> IF j = 0 THEN "all" ELSE "none"]
            /\ at' = [j \in Level |-> IF j = 0 THEN "want" ELSE "none"]
       ELSE Leave(i)
  /\ lag' = 0
  /\ UNCHANGED <<toolVars, stopping, signals>>

\* Standard input ends: mcp.run() returns.
StdinEof ==
  /\ Transport = "stdio"
  /\ LoopRuns
  /\ phase' = "closing"
  /\ UNCHANGED <<managerVars, toolVars, stopping, signals, call, at, lag>>

\* The event loop is torn down: every handler still waiting is cancelled, and
\* with it the work items nobody started.
CancelTasks ==
  /\ phase = "closing"
  /\ NoFrames
  /\ phase' = "joining"
  /\ h' = [r \in Req |-> IF worker[r] = "queued" THEN "none"
                         ELSE IF h[r] = "await" THEN "cancelled" ELSE h[r]]
  /\ tool' = [r \in Req |-> IF worker[r] = "queued" THEN "none" ELSE tool[r]]
  /\ arg' = [r \in Req |-> IF worker[r] = "queued" THEN NoConn ELSE arg[r]]
  /\ worker' = [r \in Req |-> IF worker[r] = "queued" THEN "idle" ELSE worker[r]]
  /\ queue' = <<>>
  /\ UNCHANGED <<managerVars, stopping, signals, call, at, lag, connLock, known>>

\* Mutant: the atexit callback runs while executor threads are at work.
StartAtexitEarly ==
  /\ phase = "joining"
  /\ NoFrames
  /\ phase' = "atexit"
  /\ Enter(0, "all")
  /\ UNCHANGED <<managerVars, toolVars, stopping, signals, lag>>

\* All executor threads have ended: the interpreter runs the atexit callbacks,
\* that is disconnect_all().
StartAtexit ==
  /\ phase = "joining"
  /\ NoFrames
  /\ \A r \in Req : worker[r] \in {"idle", "done"}
  /\ phase' = "atexit"
  /\ Enter(0, "all")
  /\ UNCHANGED <<managerVars, toolVars, stopping, signals, lag>>

AtexitReturn ==
  /\ phase = "atexit"
  /\ Finished(0)
  /\ Leave(0)
  /\ phase' = "exited"
  /\ UNCHANGED <<managerVars, toolVars, stopping, signals, lag>>

Terminated == phase = "exited" /\ UNCHANGED vars

\* A tick of the clock.  Bound: the main thread gets _lock within MaxLag ticks
\* of disconnect_stale reading the clock.
TimePasses ==
  /\ phase # "exited"
  /\ IF call[0] = "stale" /\ at[0] \in {"want", "hold"}
       THEN lag < MaxLag /\ lag' = lag + 1
       ELSE UNCHANGED lag
  /\ Tick
  /\ UNCHANGED <<toolVars, phase, stopping, signals, call, at>>

-----------------------------------------------------------------------------
(* The system.                                                              *)

LoopStep(r) ==
  \/ SubmitConnect(r)
  \/ \E c \in Conn : SubmitOp(r, c) \/ SubmitDisconnect(r, c)
  \/ Reply(r)
  \/ Cancel(r)

WorkerStep(r) ==
  \/ \E c \in Conn, s \in Session : OpenOk(r, c, s)
  \/ OpenFail(r)
  \/ WorkerAcquire(r)
  \/ WorkerInsert(r)
  \/ WorkerGet(r)
  \/ LockConn(r)
  \/ OpDone(r)
  \/ Discard(r)

MainStep ==
  \/ ReaperWake
  \/ \E i \in Level : \/ MainAcquire(i)
                      \/ MainBody(i)
                      \/ \E c \in Conn : MainCleanup(i, c)
  \/ \E r \in Req : DisconnectReturn(r)
  \/ StaleReturn

ShutdownStep ==
  \/ UvicornSignal
  \/ ServeReturns
  \/ \E i \in Level : DeliverSignal(i) \/ HandlerExit(i)
  \/ StdinEof
  \/ CancelTasks
  \/ StartAtexit
  \/ AtexitReturn

Next ==
  \/ \E r \in Req : LoopStep(r) \/ WorkerStep(r)
  \/ StartWork
  \/ MainStep
  \/ ShutdownStep
  \/ TimePasses
  \/ Terminated

Spec == Init /\ [][Next]_vars

\* What the main thread does inside a method of the manager, frame i on top.
MainRuns(i) ==
  \/ MainAcquire(i)
  \/ MainBody(i)
  \/ \E c \in Conn : MainCleanup(i, c)
  \/ i = 0 /\ (StaleReturn \/ AtexitReturn \/ \E r \in Req : DisconnectReturn(r))
  \/ HandlerExit(i)

\* The main thread and every critical section make progress: the scheduler
\* runs each thread, callbacks that stay ready get their turn in the event
\* loop, and a lock that is free again and again is got in the end.  Of
\* IxNetwork this assumes one thing: that Session.remove() returns or raises in
\* _cleanup_connection, for which the code sets no timeout.  Nothing is assumed
\* of the calls that a tool makes under its connection's lock.
LoopFairness ==
  /\ SF_vars(TimePasses)
  /\ SF_vars(ReaperWake)
  /\ \A i \in Level : SF_vars(MainRuns(i))
  /\ \A r \in Req : WF_vars(WorkerInsert(r) \/ WorkerGet(r))

LoopFairSpec == Spec /\ LoopFairness

\* Besides, the executor works off its queue, every call to IxNetwork returns
\* or raises, and the event loop delivers what the executor made.
ToolFairness ==
  /\ WF_vars(StartWork)
  /\ SF_vars(ServeReturns)
  /\ WF_vars(CancelTasks \/ StartAtexit)
  /\ \A r \in Req : SF_vars(WorkerStep(r)) /\ SF_vars(Reply(r))

-----------------------------------------------------------------------------
(* Safety.                                                                  *)

\* A call to IxNetwork on a connection is made with no other tool call on that
\* connection at work, whatever the connection's fate in the pool
\* (`with conn.lock` in all 39 tools, e.g. session.py:120).
OpsSerialised ==
  \A r, q \in Req :
    worker[r] = "run" /\ worker[q] = "run" /\ arg[r] = arg[q] => r = q

\* A connection that was taken out of the pool is not forgotten before it is
\* cleaned up (server.py:114).
NothingAbandoned == lost = {}

\* _lock is held only by a thread that is inside a method of the manager and
\* about to use it: no return, exception or unwound frame leaves it locked
\* (`with self._lock`, client.py:113, 120, 146, 157, 172).
NoLeakedLock ==
  /\ \A r \in Req : mlock = r <=> worker[r] = "hold"
  /\ \A i \in Level : mlock = i <=> at[i] = "hold"

\* Once a client was told an id, the connection is in the pool, or the main
\* thread is about to clean it up, or it has been cleaned up: a tool call that
\* is refused with "No active connection" never leaves a session behind that
\* nobody will tear down (client.py:124, session.py:93).
KnownIsPooledOrReleased ==
  \A c \in known : \/ c \in pool
                   \/ c \in UNION {taken[i] : i \in Level}
                   \/ cleanup[c] # "no"

\* When ixia_disconnect answers, with success or with an error, the
\* connection's cleanup has been done (session.py:93, client.py:152).
AnsweredMeansReleased ==
  [][\A r \in Req : DisconnectReturn(r) => cleanup[arg[r]] # "no"]_vars

\* "Shutting down - disconnecting all IxNetwork sessions" (server.py:114): when
\* the process exits, every connection it built has been cleaned up, those of
\* connects that were under way when shutdown began included.
ExitClean ==
  phase = "exited" => \A c \in Conn : sess[c] # NoSession => cleanup[c] # "no"

\* No signal has run _shutdown_handler on top of the main thread's work: uvicorn took
\* the only one under HTTP, and there was none under stdio.
Calm == IF Transport = "http" THEN signals <= 1 ELSE signals = 0

\* A process that no such signal hit leaves no session behind.  Under stdio, where
\* nothing is reaped (server.py:167), this is all there is for idle connections and
\* for those whose ixia_connect was cancelled.
CalmExitClean == Calm => ExitClean

\* The server uses the manager only as ConnectionManager says: each of its
\* steps is one step of the manager or none.  So all that holds of the manager
\* under arbitrary threads holds in the server.
ImplementsManager == ManagerSpec

-----------------------------------------------------------------------------
(* Liveness.                                                                *)

\* The main thread always comes back from the manager, even when every
\* executor thread is stuck in a call to IxNetwork: no method holds _lock
\* across such a call, and none waits for a connection's own lock
\* (client.py:113, 120, 146, 157, 172).
MainThreadReturns == \A i \in Level : call[i] # "none" ~> call[i] = "none"

\* Under HTTP a connection that stays unused is removed, unless the server is
\* already shutting down (server.py:151).
IdleReclaimed ==
  \A c \in Conn : c \in pool ~> (c \notin pool \/ idle[c] = 0 \/ phase # "serving")

\* c is the work of an ixia_connect that was cancelled: nobody has its id.
Orphan(c) ==
  /\ c \in pool \ known
  /\ \A r \in Req : arg[r] = c => h[r] = "cancelled"

\* Under HTTP a connection whose ixia_connect was cancelled while it was being
\* built is removed, though nobody can disconnect it (client.py:113).
OrphansReclaimed ==
  \A c \in Conn : Orphan(c) ~> (c \notin pool \/ phase # "serving")

\* Every tool call is answered or cancelled, if IxNetwork answers.
RequestsAnswered == ToolFairness => \A r \in Req : h[r] = "await" ~> h[r] # "await"

\* After a signal the server does exit.
ShutdownCompletes == ToolFairness => (signals > 0 ~> phase = "exited")

-----------------------------------------------------------------------------
(* Claims of the documentation that the code does not keep.                 *)

\* "test_disconnect_one_keeps_other" (tests/test_client.py:170), which connects
\* twice with the same parameters: tearing one connection down leaves the
\* session of every other connection in the pool alone.
DisconnectKeepsOthers ==
  [][\A c \in pool, d \in Conn :
       cleanup[d] = "no" /\ cleanup'[d] = "removed" => sess[d] # sess[c]]_vars

\* disconnect_stale: "Remove connections idle longer than *max_idle_seconds*."
\* (client.py:165): no connection a tool call is working on is removed.
ReapsOnlyUnused ==
  [][\A r \in Req :
       call[0] = "stale" /\ MainBody(0) /\ worker[r] = "run" /\ arg[r] \in pool
         => arg[r] \in pool']_vars

=============================================================================
