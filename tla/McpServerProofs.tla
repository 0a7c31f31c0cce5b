--------------------------- MODULE McpServerProofs ---------------------------
(***************************************************************************)
(* Proofs about McpServer, for any number of tool calls, executor threads,  *)
(* signals, connections and sessions: types, the exclusion of calls on one  *)
(* connection, no lock left behind, and that the server uses the manager as *)
(* ConnectionManager says, so that what is proved of it holds in the server.*)
(***************************************************************************)
EXTENDS McpServer, ConnectionManagerProofs, SequenceTheorems

\* A frame is in a method of the manager exactly while it has something to do
\* there; an exited process has no frames.
StackInv ==
  /\ \A i \in Level : call[i] = "none" <=> at[i] = "none"
  /\ phase = "exited" => NoFrames

MainTypeOK ==
  /\ phase \in {"serving", "closing", "joining", "atexit", "exited"}
  /\ stopping \in BOOLEAN
  /\ signals \in Level
  /\ call \in [Level -> {"none", "disconnect", "stale", "all"}]
  /\ at \in [Level -> {"none", "want", "hold", "clean"}]
  /\ lag \in 0 .. MaxLag

ToolTypeOK ==
  /\ h \in [Req -> {"none", "await", "cancelled"}]
  /\ tool \in [Req -> {"none", "connect", "op", "disconnect"}]
  /\ arg \in [Req -> Conn \cup {NoConn}]
  /\ queue \in Seq(Req)
  /\ worker \in [Req -> Working \cup {"idle", "queued", "done"}]
  /\ connLock \in [Conn -> Req \cup {NoReq}]
  /\ known \subseteq Conn

\* The executor's queue has each waiting work item once.
QueueInv ==
  /\ \A k \in 1 .. Len(queue) : worker[queue[k]] = "queued"
  /\ \A j, k \in 1 .. Len(queue) : queue[j] = queue[k] => j = k

\* A tool call has the connection it needs, and holds its lock while it works on it.
WorkInv(r) ==
  /\ tool[r] = "disconnect" => worker[r] = "idle" /\ arg[r] \in Conn
  /\ tool[r] = "op" => arg[r] \in Conn
  /\ worker[r] \in {"wait", "run"} => tool[r] = "op"
  /\ worker[r] = "run" => connLock[arg[r]] = r

MainInv == MainTypeOK /\ StackInv
ToolInv == ToolTypeOK /\ QueueInv /\ \A r \in Req : WorkInv(r)

IInv == ManagerTypeOK /\ MainInv /\ ToolInv /\ NoLeakedLock

-----------------------------------------------------------------------------
(* The queue.                                                               *)

\* What RemoveAt of SequencesExt leaves of a sequence.
LEMMA RemoveAtElements ==
  ASSUME NEW S, NEW s \in Seq(S), NEW k \in 1 .. Len(s)
  PROVE  /\ RemoveAt(s, k) \in Seq(S)
         /\ Len(RemoveAt(s, k)) = Len(s) - 1
         /\ \A i \in 1 .. Len(s) - 1 : RemoveAt(s, k)[i] = IF i < k THEN s[i] ELSE s[i + 1]
  <1>0. Len(s) \in Nat
    OBVIOUS
  <1> DEFINE a == SubSeq(s, 1, k - 1)
             b == SubSeq(s, k + 1, Len(s))
  <1>1. /\ a \in Seq(S) /\ Len(a) = k - 1
        /\ \A i \in 1 .. k - 1 : a[i] = s[i]
    BY <1>0
  <1>2. /\ b \in Seq(S) /\ Len(b) = Len(s) - k
        /\ \A i \in 1 .. Len(s) - k : b[i] = s[i + k]
    BY <1>0
  <1> HIDE DEF a, b
  <1>3. /\ a \o b \in Seq(S) /\ Len(a \o b) = Len(s) - 1
        /\ \A i \in 1 .. Len(s) - 1 : (a \o b)[i] = IF i < k THEN a[i] ELSE b[i - (k - 1)]
    BY <1>0, <1>1, <1>2
  <1>4. \A i \in 1 .. Len(s) - 1 : (a \o b)[i] = IF i < k THEN s[i] ELSE s[i + 1]
    <2> SUFFICES ASSUME NEW i \in 1 .. Len(s) - 1
                 PROVE  (a \o b)[i] = IF i < k THEN s[i] ELSE s[i + 1]
      OBVIOUS
    <2>1. CASE i < k
      <3>1. i \in 1 .. k - 1
        BY <1>0, <2>1
      <3> QED
        BY <1>1, <1>3, <2>1, <3>1
    <2>2. CASE ~(i < k)
      <3>1. i - (k - 1) \in 1 .. Len(s) - k /\ i - (k - 1) + k = i + 1
        BY <1>0, <2>2
      <3>2. b[i - (k - 1)] = s[i + 1]
        BY <1>2, <3>1
      <3> QED
        BY <1>3, <2>2, <3>2
    <2> QED
      BY <2>1, <2>2
  <1> QED
    BY <1>3, <1>4 DEF RemoveAt, a, b

\* A work item that is not waiting is not in the queue, so that its worker may
\* change without the queue.
LEMMA OtherWorker ==
  ASSUME ToolInv, NEW r \in Req, worker[r] # "queued", queue' = queue,
         \A q \in Req : q # r => worker'[q] = worker[q]
  PROVE  QueueInv'
  <1>1. \A k \in 1 .. Len(queue) : queue[k] \in Req /\ queue[k] # r
    BY DEF ToolInv, ToolTypeOK, QueueInv
  <1> QED
    BY <1>1 DEF ToolInv, QueueInv

-----------------------------------------------------------------------------
(* Each step of the server is one of the manager, or none.                  *)

\* Frames and tool calls are threads of the manager.
LEMMA LevelsAreThreads ==
  /\ Level \subseteq Thread /\ Req \subseteq Thread /\ 0 \in Level
  BY ServerAssumption DEF Level

\* A step of the server is one step of ConnectionManager or leaves its variables
\* alone.
LEMMA ServerStepManager == IInv /\ [Next]_vars => [ManagerNext]_managerVars
  <1> SUFFICES ASSUME IInv, [Next]_vars PROVE [ManagerNext]_managerVars
    OBVIOUS
  <1> USE LevelsAreThreads
  <1>1. ASSUME NEW r \in Req, LoopStep(r) PROVE UNCHANGED managerVars
    BY <1>1 DEF LoopStep, SubmitConnect, SubmitOp, Submit, SubmitDisconnect, Reply, Cancel
  <1>2. ASSUME NEW r \in Req, WorkerStep(r) PROVE [ManagerNext]_managerVars
    <2>1. CASE \E c \in Conn, s \in Session : OpenOk(r, c, s)
      BY <2>1 DEF OpenOk, ManagerNext
    <2>2. CASE WorkerAcquire(r)
      BY <2>2 DEF WorkerAcquire, ManagerNext
    <2>3. CASE WorkerInsert(r)
      <3>1. arg[r] \in Conn
        BY <2>3 DEF WorkerInsert, Insert, IInv, ManagerTypeOK
      <3> QED
        BY <2>3, <3>1 DEF WorkerInsert, ManagerNext
    <2>4. CASE WorkerGet(r)
      <3>1. arg[r] \in Conn
        BY <2>4 DEF WorkerGet, IInv, ToolInv, WorkInv
      <3> QED
        BY <2>4, <3>1 DEF WorkerGet, ManagerNext
    <2>5. CASE OpenFail(r) \/ LockConn(r) \/ OpDone(r) \/ Discard(r)
      BY <2>5 DEF OpenFail, LockConn, OpDone, Discard
    <2> QED
      BY <1>2, <2>1, <2>2, <2>3, <2>4, <2>5 DEF WorkerStep
  <1>3. CASE StartWork
    BY <1>3 DEF StartWork
  <1>4. CASE MainStep
    <2>1. ASSUME NEW i \in Level, MainAcquire(i) PROVE ManagerNext
      BY <2>1 DEF MainAcquire, ManagerNext
    <2>2. ASSUME NEW i \in Level, MainBody(i) PROVE ManagerNext
      <3>1. CASE DisconnectAll(i)
        BY <3>1 DEF ManagerNext
      <3>2. CASE DisconnectStale(i, lag)
        BY <3>2 DEF ManagerNext, IInv, MainInv, MainTypeOK
      <3>3. CASE \E r \in Req : tool[r] = "disconnect" /\ Disconnect(i, arg[r])
        BY <3>3 DEF ManagerNext, IInv, ToolInv, WorkInv
      <3> QED
        BY <2>2, <3>1, <3>2, <3>3 DEF MainBody
    <2>3. ASSUME NEW i \in Level, NEW c \in Conn, MainCleanup(i, c) PROVE ManagerNext
      BY <2>3 DEF MainCleanup, ManagerNext
    <2>4. CASE ReaperWake \/ StaleReturn \/ \E r \in Req : DisconnectReturn(r)
      BY <2>4 DEF ReaperWake, StaleReturn, DisconnectReturn
    <2> QED
      BY <1>4, <2>1, <2>2, <2>3, <2>4 DEF MainStep
  <1>5. CASE ShutdownStep
    <2>1. ASSUME NEW i \in Level, HandlerExit(i) PROVE ManagerNext
      <3>1. Abandon({j \in Level : j < i})
        BY <2>1 DEF HandlerExit
      <3>2. {j \in Level : j < i} \in SUBSET Thread
        OBVIOUS
      <3> QED
        BY <3>1, <3>2 DEF ManagerNext
    <2>2. CASE \/ UvicornSignal \/ ServeReturns \/ \E i \in Level : DeliverSignal(i)
               \/ StdinEof \/ CancelTasks \/ StartAtexit \/ AtexitReturn
      BY <2>2 DEF UvicornSignal, ServeReturns, DeliverSignal, StdinEof, CancelTasks,
                  StartAtexit, AtexitReturn
    <2> QED
      BY <1>5, <2>1, <2>2 DEF ShutdownStep
  <1>6. CASE TimePasses
    BY <1>6 DEF TimePasses, ManagerNext
  <1>7. CASE UNCHANGED vars
    BY <1>7 DEF vars
  <1> QED
    BY <1>1, <1>2, <1>3, <1>4, <1>5, <1>6, <1>7 DEF Next, Terminated

-----------------------------------------------------------------------------
(* The main thread.                                                         *)

\* The frames after one returns, or is unwound.
LEMMA AfterLeave ==
  ASSUME MainInv, NEW i \in Level, Top(i), Leave(i)
  PROVE  /\ call' \in [Level -> {"none"}] /\ at' \in [Level -> {"none"}]
  BY DEF MainInv, MainTypeOK, StackInv, Top, Leave, Level

\* Every step keeps the invariant of the main thread and its frames.
LEMMA ServerStepMain == IInv /\ [Next]_vars => MainInv'
  <1> SUFFICES ASSUME IInv, [Next]_vars PROVE MainInv'
    OBVIOUS
  <1> USE LevelsAreThreads
  <1>0. MainInv
    BY DEF IInv
  <1>1. CASE UNCHANGED mainVars
    BY <1>0, <1>1 DEF mainVars, MainInv, MainTypeOK, StackInv, NoFrames
  <1>2. ASSUME NEW m \in {"disconnect", "stale", "all"}, NEW i \in Level, call[i] = "none",
               Enter(i, m), phase' \in {"serving", "closing", "joining", "atexit"},
               stopping' \in BOOLEAN, signals' \in Level, lag' \in 0 .. MaxLag
        PROVE  MainInv'
    BY <1>0, <1>2 DEF Enter, MainInv, MainTypeOK, StackInv
  <1>3. ASSUME NEW i \in Level, Top(i), Leave(i), phase' \in {phase, "exited"},
               UNCHANGED <<stopping, signals, lag>>
        PROVE  MainInv'
    BY <1>0, <1>3, AfterLeave DEF MainInv, MainTypeOK, StackInv, NoFrames
  <1>4. ASSUME NEW i \in Level, Top(i), at[i] # "none",
               \E s \in {"want", "hold", "clean"} : at' = [at EXCEPT ![i] = s],
               UNCHANGED <<phase, stopping, signals, call>>, lag' \in 0 .. MaxLag
        PROVE  MainInv'
    BY <1>0, <1>4 DEF MainInv, MainTypeOK, StackInv, NoFrames
  <1>5. 0 \in 0 .. MaxLag
    BY ManagerAssumption
  <1>6. ASSUME NEW r \in Req, LoopStep(r) PROVE MainInv'
    <2>1. ASSUME NEW c \in Conn, SubmitDisconnect(r, c) PROVE MainInv'
      BY <1>0, <1>2, <2>1 DEF SubmitDisconnect, Accepting, LoopRuns, NoFrames, MainInv, MainTypeOK
    <2>2. CASE SubmitConnect(r) \/ (\E c \in Conn : SubmitOp(r, c)) \/ Reply(r) \/ Cancel(r)
      BY <1>1, <2>2 DEF SubmitConnect, SubmitOp, Submit, Reply, Cancel
    <2> QED
      BY <1>6, <2>1, <2>2 DEF LoopStep
  <1>7. CASE StartWork \/ \E r \in Req : WorkerStep(r)
    BY <1>1, <1>7 DEF StartWork, WorkerStep, OpenOk, OpenFail, WorkerAcquire, WorkerInsert,
                      WorkerGet, LockConn, OpDone, Discard
  <1>8. CASE MainStep
    <2>1. CASE ReaperWake
      BY <1>0, <1>2, <1>5, <2>1 DEF ReaperWake, LoopRuns, NoFrames, MainInv, MainTypeOK
    <2>2. ASSUME NEW i \in Level, MainAcquire(i) PROVE MainInv'
      BY <1>0, <1>4, <2>2 DEF MainAcquire, MainInv, MainTypeOK
    <2>3. ASSUME NEW i \in Level, MainBody(i) PROVE MainInv'
      BY <1>4, <1>5, <2>3 DEF MainBody
    <2>4. ASSUME NEW i \in Level, NEW c \in Conn, MainCleanup(i, c) PROVE MainInv'
      BY <1>1, <2>4 DEF MainCleanup
    <2>5. CASE StaleReturn \/ \E r \in Req : DisconnectReturn(r)
      BY <1>3, <2>5 DEF StaleReturn, DisconnectReturn, Finished
    <2> QED
      BY <1>8, <2>1, <2>2, <2>3, <2>4, <2>5 DEF MainStep
  <1>9. CASE ShutdownStep
    <2>1. CASE UvicornSignal
      <3>1. signals' \in Level
        BY <1>0, <2>1, ServerAssumption DEF UvicornSignal, MainInv, MainTypeOK, Level
      <3> QED
        BY <1>0, <2>1, <3>1 DEF UvicornSignal, MainInv, MainTypeOK, StackInv, NoFrames
    <2>2. CASE ServeReturns
      BY <1>0, <2>2 DEF ServeReturns, LoopRuns, NoFrames, Enter, MainInv, MainTypeOK, StackInv
    <2>3. ASSUME NEW i \in Level, DeliverSignal(i) PROVE MainInv'
      <3>1. signals' \in Level
        BY <1>0, <2>3, ServerAssumption DEF DeliverSignal, MainInv, MainTypeOK, Level
      <3>2. call[i] = "none"
        BY <2>3 DEF DeliverSignal, Level
      <3> QED
        BY <1>0, <1>2, <2>3, <3>1, <3>2 DEF DeliverSignal, MainInv, MainTypeOK
    <2>4. ASSUME NEW i \in Level, HandlerExit(i) PROVE MainInv'
      <3>0. Top(i) /\ phase # "exited"
        BY <1>0, <2>4 DEF HandlerExit, Finished, Top, MainInv, StackInv, NoFrames
      <3>1. CASE phase = "joining"
        <4>1. phase' = "atexit"
          BY <2>4, <3>1 DEF HandlerExit, Interrupted
        <4>2. /\ call' \in [Level -> {"none", "all"}] /\ at' \in [Level -> {"none", "want"}]
              /\ \A j \in Level : call'[j] = "none" <=> at'[j] = "none"
          BY <2>4, <3>1 DEF HandlerExit
        <4> QED
          BY <1>0, <1>5, <2>4, <4>1, <4>2 DEF HandlerExit, MainInv, MainTypeOK, StackInv
      <3>2. CASE phase # "joining"
        <4>1. phase' \in {"closing", "joining", "exited"}
          BY <1>0, <2>4, <3>0, <3>2 DEF HandlerExit, Interrupted, MainInv, MainTypeOK
        <4>2. call' \in [Level -> {"none"}] /\ at' \in [Level -> {"none"}]
          BY <1>0, <2>4, <3>0, <3>2, AfterLeave DEF HandlerExit
        <4> QED
          BY <1>0, <1>5, <2>4, <4>1, <4>2 DEF HandlerExit, MainInv, MainTypeOK, StackInv, NoFrames
      <3> QED
        BY <3>1, <3>2
    <2>5. CASE StdinEof
      BY <1>0, <2>5 DEF StdinEof, MainInv, MainTypeOK, StackInv
    <2>6. CASE CancelTasks
      BY <1>0, <2>6 DEF CancelTasks, MainInv, MainTypeOK, StackInv
    <2>7. CASE StartAtexit
      BY <1>0, <1>2, <2>7 DEF StartAtexit, NoFrames, MainInv, MainTypeOK
    <2>8. CASE AtexitReturn
      BY <1>3, <2>8 DEF AtexitReturn, Finished
    <2> QED
      BY <1>9, <2>1, <2>2, <2>3, <2>4, <2>5, <2>6, <2>7, <2>8 DEF ShutdownStep
  <1>10. CASE TimePasses
    <2>1. lag' \in 0 .. MaxLag
      BY <1>0, <1>10, ManagerAssumption DEF TimePasses, MainInv, MainTypeOK
    <2> QED
      BY <1>0, <1>10, <2>1 DEF TimePasses, MainInv, MainTypeOK, StackInv, NoFrames
  <1>11. CASE UNCHANGED vars
    BY <1>1, <1>11 DEF vars, mainVars
  <1> QED
    BY <1>6, <1>7, <1>8, <1>9, <1>10, <1>11 DEF Next, Terminated

-----------------------------------------------------------------------------
(* The tool calls.                                                          *)

\* The work item r changes its stage and nothing else of the calls changes.
LEMMA StageChange ==
  ASSUME ToolInv, NEW r \in Req, worker[r] # "queued", NEW s \in Working \cup {"done"},
         WorkerAt(r, s), UNCHANGED <<h, tool, arg, queue, connLock, known>>,
         tool[r] # "disconnect", s = "wait" => tool[r] = "op", s # "run"
  PROVE  ToolInv'
  <1>1. QueueInv'
    BY OtherWorker DEF WorkerAt, ToolInv, ToolTypeOK
  <1>2. ToolTypeOK'
    BY DEF ToolInv, ToolTypeOK, WorkerAt
  <1>3. \A q \in Req : WorkInv(q)'
    BY DEF ToolInv, ToolTypeOK, WorkInv, WorkerAt
  <1> QED
    BY <1>1, <1>2, <1>3 DEF ToolInv

\* A slot of a call that is not queued gets free.
LEMMA SlotFree ==
  ASSUME ToolInv, NEW r \in Req, worker[r] \in {"idle", "done"}, Forget(r),
         UNCHANGED <<queue, connLock>>, known' \subseteq Conn
  PROVE  ToolInv'
  <1>1. QueueInv'
    BY OtherWorker DEF Forget, ToolInv, ToolTypeOK
  <1>2. ToolTypeOK'
    BY <1>1 DEF ToolInv, ToolTypeOK, Forget
  <1>3. \A q \in Req : WorkInv(q)'
    BY DEF ToolInv, ToolTypeOK, WorkInv, Forget
  <1> QED
    BY <1>1, <1>2, <1>3 DEF ToolInv

\* A request comes (session.py:55, 89, 120).
LEMMA SubmitTools ==
  ASSUME ToolInv, NEW r \in Req, NEW name \in {"connect", "op"}, NEW c \in Conn \cup {NoConn},
         name = "op" => c \in Conn, Submit(r, name, c)
  PROVE  ToolInv'
  <1>1. ToolTypeOK'
    BY DEF Submit, ToolInv, ToolTypeOK
  <1>2. QueueInv'
    <2>1. Len(queue) \in Nat /\ \A k \in 1 .. Len(queue) : queue[k] \in Req /\ queue[k] # r
      BY DEF Submit, Accepting, ToolInv, ToolTypeOK, QueueInv
    <2>2. /\ Len(queue') = Len(queue) + 1
          /\ \A k \in 1 .. Len(queue) : queue'[k] = queue[k]
          /\ queue'[Len(queue) + 1] = r
      BY <2>1 DEF Submit, ToolInv, ToolTypeOK
    <2>3. worker'[r] = "queued" /\ \A q \in Req : q # r => worker'[q] = worker[q]
      BY DEF Submit, ToolInv, ToolTypeOK
    <2>4. \A k \in 1 .. Len(queue') : k \in 1 .. Len(queue) \/ k = Len(queue) + 1
      BY <2>1, <2>2
    <2> QED
      BY <2>1, <2>2, <2>3, <2>4 DEF ToolInv, QueueInv
  <1>3. \A q \in Req : WorkInv(q)'
    BY DEF Submit, Accepting, ToolInv, ToolTypeOK, WorkInv
  <1> QED
    BY <1>1, <1>2, <1>3 DEF ToolInv

\* A client gives up: a work item may leave the middle of the queue.
LEMMA CancelTools ==
  ASSUME ToolInv, NEW r \in Req, Cancel(r)
  PROVE  ToolInv'
  <1>1. CASE worker[r] = "queued"
    <2>1. PICK k \in 1 .. Len(queue) : queue[k] = r /\ queue' = RemoveAt(queue, k)
      BY <1>1 DEF Cancel
    <2>2. /\ queue' \in Seq(Req) /\ Len(queue) \in Nat /\ Len(queue') = Len(queue) - 1
          /\ \A i \in 1 .. Len(queue) - 1 : queue'[i] = IF i < k THEN queue[i] ELSE queue[i + 1]
      <3>1. queue \in Seq(Req) /\ Len(queue) \in Nat
        BY DEF ToolInv, ToolTypeOK
      <3>2. /\ RemoveAt(queue, k) \in Seq(Req)
            /\ Len(RemoveAt(queue, k)) = Len(queue) - 1
            /\ \A i \in 1 .. Len(queue) - 1 :
                 RemoveAt(queue, k)[i] = IF i < k THEN queue[i] ELSE queue[i + 1]
        BY <3>1, RemoveAtElements
      <3> QED
        BY <2>1, <3>1, <3>2
    <2>3. Forget(r) /\ UNCHANGED <<connLock, known>>
      BY <1>1 DEF Cancel
    <2>4. ToolTypeOK'
      BY <2>2, <2>3 DEF ToolInv, ToolTypeOK, Forget
    <2>5. \A i \in 1 .. Len(queue) : queue[i] \in Req /\ (i # k => queue[i] # r)
      BY <2>1 DEF ToolInv, ToolTypeOK, QueueInv
    <2>6. \A q \in Req : q # r => worker'[q] = worker[q]
      BY <2>3 DEF Forget, ToolInv, ToolTypeOK
    <2>7. \A i \in 1 .. Len(queue') : \E j \in 1 .. Len(queue) \ {k} :
            queue'[i] = queue[j] /\ j = IF i < k THEN i ELSE i + 1
      BY <2>2
    <2>8. QueueInv'
      <3>0. Len(queue) \in Nat /\ Len(queue') \in Nat
        BY <2>1, <2>2
      <3>1. ASSUME NEW i \in 1 .. Len(queue') PROVE worker'[queue'[i]] = "queued"
        <4>1. PICK j \in 1 .. Len(queue) \ {k} : queue'[i] = queue[j]
          BY <2>7
        <4>2. queue[j] \in Req /\ queue[j] # r
          BY <2>5
        <4>3. worker[queue[j]] = "queued"
          BY DEF ToolInv, QueueInv
        <4> QED
          BY <2>6, <4>1, <4>2, <4>3
      <3>2. ASSUME NEW i \in 1 .. Len(queue'), NEW l \in 1 .. Len(queue'), queue'[i] = queue'[l]
            PROVE  i = l
        <4>1. PICK x \in 1 .. Len(queue) \ {k} :
                queue'[i] = queue[x] /\ x = IF i < k THEN i ELSE i + 1
          BY <2>7
        <4>2. PICK y \in 1 .. Len(queue) \ {k} :
                queue'[l] = queue[y] /\ y = IF l < k THEN l ELSE l + 1
          BY <2>7
        <4>3. x = y
          BY <3>2, <4>1, <4>2 DEF ToolInv, QueueInv
        <4>4. i \in Int /\ l \in Int /\ k \in Int
          BY <3>0
        <4> QED
          BY <4>1, <4>2, <4>3, <4>4
      <3> QED
        BY <3>1, <3>2 DEF QueueInv
    <2>9. \A q \in Req : WorkInv(q)'
      BY <2>3 DEF Forget, ToolInv, ToolTypeOK, WorkInv
    <2> QED
      BY <2>4, <2>8, <2>9 DEF ToolInv
  <1>2. CASE worker[r] # "queued"
    <2>1. /\ h' = [h EXCEPT ![r] = "cancelled"]
          /\ UNCHANGED <<tool, arg, worker, queue, connLock, known>>
      BY <1>2 DEF Cancel
    <2>2. ToolTypeOK' /\ QueueInv'
      BY <2>1 DEF ToolInv, ToolTypeOK, QueueInv
    <2>3. \A q \in Req : WorkInv(q)'
      BY <2>1 DEF ToolInv, WorkInv
    <2> QED
      BY <2>2, <2>3 DEF ToolInv
  <1> QED
    BY <1>1, <1>2

\* An executor thread takes the oldest work item.
LEMMA StartWorkTools ==
  ASSUME ToolInv, StartWork
  PROVE  ToolInv'
  <1> DEFINE r == Head(queue)
  <1>1. /\ r \in Req /\ r = queue[1] /\ Len(queue) \in Nat \ {0}
        /\ Tail(queue) \in Seq(Req) /\ Len(Tail(queue)) = Len(queue) - 1
        /\ \A k \in 1 .. Len(queue) - 1 : Tail(queue)[k] = queue[k + 1]
    BY HeadTailProperties, EmptySeq DEF StartWork, ToolInv, ToolTypeOK
  <1>2. PICK s \in {"opening", "want"} : worker' = [worker EXCEPT ![r] = s]
    BY DEF StartWork, WorkerAt
  <1>3. queue' = Tail(queue) /\ UNCHANGED <<h, tool, arg, connLock, known>>
    BY DEF StartWork
  <1>4. worker[r] = "queued"
    BY <1>1 DEF ToolInv, QueueInv
  <1> HIDE DEF r
  <1>5. ToolTypeOK'
    BY <1>1, <1>2, <1>3 DEF ToolInv, ToolTypeOK, Working
  <1>6. \A k \in 1 .. Len(queue) - 1 : queue[k + 1] \in Req /\ queue[k + 1] # r
    BY <1>1 DEF ToolInv, ToolTypeOK, QueueInv
  <1>7. QueueInv'
    BY <1>1, <1>2, <1>3, <1>6 DEF ToolInv, ToolTypeOK, QueueInv
  <1>8. \A q \in Req : WorkInv(q)'
    BY <1>1, <1>2, <1>3, <1>4 DEF ToolInv, ToolTypeOK, WorkInv
  <1> QED
    BY <1>5, <1>7, <1>8 DEF ToolInv

\* The steps of a tool call on its executor thread.
LEMMA WorkerTools ==
  ASSUME IInv, NEW r \in Req, WorkerStep(r)
  PROVE  ToolInv'
  <1>0. ToolInv /\ (worker[r] # "idle" => tool[r] # "disconnect")
    BY DEF IInv, ToolInv, WorkInv
  <1> USE DEF Working
  <1>1. ASSUME NEW c \in Conn, NEW s \in Session, OpenOk(r, c, s) PROVE ToolInv'
    <2>1. QueueInv'
      BY <1>0, <1>1, OtherWorker DEF OpenOk, WorkerAt, ToolInv, ToolTypeOK
    <2>2. ToolTypeOK'
      BY <1>0, <1>1 DEF OpenOk, WorkerAt, ToolInv, ToolTypeOK
    <2>3. \A q \in Req : WorkInv(q)'
      BY <1>0, <1>1 DEF OpenOk, WorkerAt, ToolInv, ToolTypeOK, WorkInv
    <2> QED
      BY <2>1, <2>2, <2>3 DEF ToolInv
  <1>2. CASE OpenFail(r)
    BY <1>0, <1>2, StageChange DEF OpenFail
  <1>3. CASE WorkerAcquire(r)
    BY <1>0, <1>3, StageChange DEF WorkerAcquire
  <1>4. CASE WorkerInsert(r)
    BY <1>0, <1>4, StageChange DEF WorkerInsert
  <1>5. CASE WorkerGet(r)
    <2>1. PICK s \in {"wait", "done"} : WorkerAt(r, s)
      BY <1>5 DEF WorkerGet
    <2> QED
      BY <1>0, <1>5, <2>1, StageChange DEF WorkerGet
  <1>6. CASE LockConn(r)
    <2>0. arg[r] \in Conn
      BY <1>0, <1>6 DEF LockConn, ToolInv, WorkInv
    <2>1. QueueInv'
      BY <1>0, <1>6, OtherWorker DEF LockConn, WorkerAt, ToolInv, ToolTypeOK
    <2>2. ToolTypeOK'
      BY <1>0, <1>6 DEF LockConn, WorkerAt, ToolInv, ToolTypeOK
    <2>3. \A q \in Req : WorkInv(q)'
      BY <1>0, <1>6, <2>0, ServerAssumption DEF LockConn, WorkerAt, ToolInv, ToolTypeOK, WorkInv
    <2> QED
      BY <2>1, <2>2, <2>3 DEF ToolInv
  <1>7. CASE OpDone(r)
    <2>1. QueueInv'
      BY <1>0, <1>7, OtherWorker DEF OpDone, WorkerAt, ToolInv, ToolTypeOK
    <2>2. ToolTypeOK'
      BY <1>0, <1>7 DEF OpDone, WorkerAt, ToolInv, ToolTypeOK
    <2>3. \A q \in Req : WorkInv(q)'
      BY <1>0, <1>7 DEF OpDone, WorkerAt, ToolInv, ToolTypeOK, WorkInv
    <2> QED
      BY <2>1, <2>2, <2>3 DEF ToolInv
  <1>8. CASE Discard(r)
    BY <1>0, <1>8, SlotFree DEF Discard, ToolInv, ToolTypeOK
  <1> QED
    BY <1>1, <1>2, <1>3, <1>4, <1>5, <1>6, <1>7, <1>8 DEF WorkerStep

\* Every step keeps the invariant of the tool calls.
LEMMA ServerStepTools == IInv /\ [Next]_vars => ToolInv'
  <1> SUFFICES ASSUME IInv, [Next]_vars PROVE ToolInv'
    OBVIOUS
  <1>0. ToolInv
    BY DEF IInv
  <1>1. CASE UNCHANGED toolVars
    BY <1>0, <1>1 DEF toolVars, ToolInv, ToolTypeOK, QueueInv, WorkInv
  <1>2. ASSUME NEW r \in Req, LoopStep(r) PROVE ToolInv'
    <2>1. CASE SubmitConnect(r)
      BY <1>0, <2>1, SubmitTools DEF SubmitConnect
    <2>2. ASSUME NEW c \in Conn, SubmitOp(r, c) PROVE ToolInv'
      BY <1>0, <2>2, SubmitTools DEF SubmitOp
    <2>3. ASSUME NEW c \in Conn, SubmitDisconnect(r, c) PROVE ToolInv'
      <3>1. /\ UNCHANGED <<queue, worker, connLock, known>> /\ worker[r] = "idle"
            /\ h' = [h EXCEPT ![r] = "await"] /\ tool' = [tool EXCEPT ![r] = "disconnect"]
            /\ arg' = [arg EXCEPT ![r] = c]
        BY <2>3 DEF SubmitDisconnect, Accepting
      <3>2. ToolTypeOK' /\ QueueInv'
        BY <1>0, <3>1 DEF ToolInv, ToolTypeOK, QueueInv
      <3>3. \A q \in Req : WorkInv(q)'
        BY <1>0, <3>1 DEF ToolInv, ToolTypeOK, WorkInv
      <3> QED
        BY <3>2, <3>3 DEF ToolInv
    <2>4. CASE Reply(r)
      <3>1. known' \subseteq Conn
        BY <1>0, <2>4 DEF Reply, ToolInv, ToolTypeOK
      <3> QED
        BY <1>0, <2>4, <3>1, SlotFree DEF Reply
    <2>5. CASE Cancel(r)
      BY <1>0, <2>5, CancelTools
    <2> QED
      BY <1>2, <2>1, <2>2, <2>3, <2>4, <2>5 DEF LoopStep
  <1>3. ASSUME NEW r \in Req, WorkerStep(r) PROVE ToolInv'
    BY <1>3, WorkerTools
  <1>4. CASE StartWork
    BY <1>0, <1>4, StartWorkTools
  <1>5. CASE MainStep
    <2>1. ASSUME NEW r \in Req, DisconnectReturn(r) PROVE ToolInv'
      BY <1>0, <2>1, SlotFree DEF DisconnectReturn, ToolInv, ToolTypeOK, WorkInv
    <2>2. CASE ReaperWake \/ StaleReturn
      BY <1>1, <2>2 DEF ReaperWake, StaleReturn
    <2>3. ASSUME NEW i \in Level, MainAcquire(i) \/ MainBody(i) \/ \E c \in Conn : MainCleanup(i, c)
          PROVE  ToolInv'
      BY <1>1, <2>3 DEF MainAcquire, MainBody, MainCleanup
    <2> QED
      BY <1>5, <2>1, <2>2, <2>3 DEF MainStep
  <1>6. CASE CancelTasks
    <2>1. ToolTypeOK'
      BY <1>0, <1>6 DEF CancelTasks, ToolInv, ToolTypeOK
    <2>2. QueueInv'
      BY <1>6 DEF CancelTasks, QueueInv
    <2>3. \A q \in Req : WorkInv(q)'
      BY <1>0, <1>6 DEF CancelTasks, ToolInv, ToolTypeOK, WorkInv
    <2> QED
      BY <2>1, <2>2, <2>3 DEF ToolInv
  <1>7. CASE ShutdownStep /\ ~CancelTasks
    BY <1>1, <1>7 DEF ShutdownStep, UvicornSignal, ServeReturns, DeliverSignal, HandlerExit,
                      StdinEof, StartAtexit, AtexitReturn
  <1>8. CASE TimePasses \/ UNCHANGED vars
    BY <1>1, <1>8 DEF TimePasses, vars, toolVars
  <1> QED
    BY <1>2, <1>3, <1>4, <1>5, <1>6, <1>7, <1>8 DEF Next, Terminated

-----------------------------------------------------------------------------
(* The manager's lock.                                                      *)

\* A thread gets the lock, or gives it back.
LEMMA WorkerLock ==
  ASSUME IInv, NEW r \in Req, NEW s \in Working \cup {"done"}, WorkerAt(r, s), UNCHANGED at,
         \/ worker[r] # "hold" /\ s # "hold" /\ mlock' = mlock
         \/ worker[r] # "hold" /\ s = "hold" /\ Acquire(r)
         \/ mlock = r /\ s # "hold" /\ mlock' = NoThread
  PROVE  NoLeakedLock'
  BY LevelsAreThreads, ManagerAssumption, ServerAssumption
  DEF IInv, NoLeakedLock, WorkerAt, Acquire, ToolInv, ToolTypeOK

\* Frames that are entered or left, none of them with the lock.
LEMMA FramesLock ==
  ASSUME IInv, UNCHANGED <<mlock, worker>>,
         \A i \in Level : at'[i] = "hold" <=> at[i] = "hold"
  PROVE  NoLeakedLock'
  BY DEF IInv, NoLeakedLock

\* A slot gets free; its thread is not in the manager.
LEMMA SlotLock ==
  ASSUME IInv, UNCHANGED <<mlock, at>>,
         \A r \in Req : worker'[r] = "hold" <=> worker[r] = "hold"
  PROVE  NoLeakedLock'
  BY DEF IInv, NoLeakedLock

\* No step leaves the manager's lock locked by nobody.
LEMMA ServerStepLock == IInv /\ [Next]_vars => NoLeakedLock'
  <1> SUFFICES ASSUME IInv, [Next]_vars PROVE NoLeakedLock'
    OBVIOUS
  <1>0. MainInv /\ ToolInv
    BY DEF IInv
  <1> USE LevelsAreThreads
  <1>1. ASSUME NEW i \in Level, call[i] = "none", NEW m, Enter(i, m), UNCHANGED <<mlock, worker>>
        PROVE  NoLeakedLock'
    BY <1>0, <1>1, FramesLock DEF Enter, MainInv, MainTypeOK, StackInv
  <1>2. ASSUME Finished(0), Leave(0), UNCHANGED <<mlock, worker>>
        PROVE  NoLeakedLock'
    <2>1. at[0] = "clean" /\ \A i \in Level : i # 0 => at[i] = "none"
      BY <1>0, <1>2 DEF Finished, Top, MainInv, MainTypeOK, StackInv, Level
    <2>2. at' \in [Level -> {"none"}]
      BY <1>0, <1>2, AfterLeave DEF Finished
    <2> QED
      BY <1>2, <2>1, <2>2, FramesLock
  <1>3. ASSUME NEW r \in Req, LoopStep(r) PROVE NoLeakedLock'
    <2>1. ASSUME NEW c \in Conn, SubmitDisconnect(r, c) PROVE NoLeakedLock'
      BY <1>1, <2>1 DEF SubmitDisconnect, Accepting, LoopRuns, NoFrames, managerVars
    <2>2. ASSUME NEW c \in Conn \cup {NoConn}, NEW name, Submit(r, name, c) PROVE NoLeakedLock'
      BY <1>0, <2>2, SlotLock DEF Submit, Accepting, managerVars, mainVars, ToolInv, ToolTypeOK
    <2>3. CASE Reply(r)
      BY <1>0, <2>3, SlotLock DEF Reply, Forget, managerVars, mainVars, ToolInv, ToolTypeOK
    <2>4. CASE Cancel(r)
      BY <1>0, <2>4, SlotLock DEF Cancel, Forget, managerVars, mainVars, ToolInv, ToolTypeOK
    <2> QED
      BY <1>3, <2>1, <2>2, <2>3, <2>4 DEF LoopStep, SubmitConnect, SubmitOp
  <1>4. ASSUME NEW r \in Req, WorkerStep(r) PROVE NoLeakedLock'
    <2> USE DEF Working
    <2>1. ASSUME NEW c \in Conn, NEW s \in Session, OpenOk(r, c, s) PROVE NoLeakedLock'
      BY <2>1, WorkerLock DEF OpenOk, Open, mainVars
    <2>2. CASE OpenFail(r)
      BY <2>2, WorkerLock DEF OpenFail, mainVars, managerVars
    <2>3. CASE WorkerAcquire(r)
      BY <2>3, WorkerLock DEF WorkerAcquire, mainVars
    <2>4. CASE WorkerInsert(r)
      BY <2>4, WorkerLock DEF WorkerInsert, Insert, mainVars
    <2>5. CASE WorkerGet(r)
      BY <2>5, WorkerLock DEF WorkerGet, Get, mainVars
    <2>6. CASE LockConn(r)
      BY <1>0, <2>6, SlotLock DEF LockConn, WorkerAt, mainVars, managerVars, ToolInv, ToolTypeOK
    <2>7. CASE OpDone(r)
      BY <2>7, WorkerLock DEF OpDone, mainVars, managerVars
    <2>8. CASE Discard(r)
      BY <1>0, <2>8, SlotLock DEF Discard, Forget, mainVars, managerVars, ToolInv, ToolTypeOK
    <2> QED
      BY <1>4, <2>1, <2>2, <2>3, <2>4, <2>5, <2>6, <2>7, <2>8 DEF WorkerStep
  <1>5. CASE StartWork
    <2>1. PICK s \in {"opening", "want"} : WorkerAt(Head(queue), s)
      BY <1>5 DEF StartWork
    <2>2. Head(queue) \in Req /\ worker[Head(queue)] = "queued"
      BY <1>0, <1>5 DEF StartWork, ToolInv, ToolTypeOK, QueueInv
    <2> QED
      BY <1>0, <1>5, <2>1, <2>2, SlotLock DEF StartWork, WorkerAt, mainVars, managerVars, ToolInv, ToolTypeOK
  <1>6. CASE MainStep
    <2>1. CASE ReaperWake
      BY <1>1, <2>1 DEF ReaperWake, LoopRuns, NoFrames, managerVars, toolVars
    <2>2. ASSUME NEW i \in Level, MainAcquire(i) PROVE NoLeakedLock'
      <3>1. mlock = NoThread /\ mlock' = i /\ at' = [at EXCEPT ![i] = "hold"] /\ worker' = worker
        BY <2>2 DEF MainAcquire, Acquire, toolVars
      <3> QED
        BY <1>0, <3>1, ManagerAssumption, ServerAssumption
        DEF IInv, NoLeakedLock, MainInv, MainTypeOK
    <2>3. ASSUME NEW i \in Level, MainBody(i) PROVE NoLeakedLock'
      <3>1. mlock = i /\ mlock' = NoThread
        BY <2>3 DEF MainBody, DisconnectAll, DisconnectStale, Disconnect, Withdraw
      <3>2. at' = [at EXCEPT ![i] = "clean"] /\ worker' = worker
        BY <2>3 DEF MainBody, toolVars
      <3> QED
        BY <1>0, <3>1, <3>2, ManagerAssumption, ServerAssumption
        DEF IInv, NoLeakedLock, MainInv, MainTypeOK
    <2>4. ASSUME NEW i \in Level, NEW c \in Conn, MainCleanup(i, c) PROVE NoLeakedLock'
      BY <2>4, FramesLock DEF MainCleanup, Cleanup, toolVars, mainVars
    <2>5. ASSUME NEW r \in Req, DisconnectReturn(r) PROVE NoLeakedLock'
      <3>1. worker' = worker
        BY <1>0, <2>5 DEF DisconnectReturn, Forget, ToolInv, ToolTypeOK, WorkInv
      <3> QED
        BY <1>2, <2>5, <3>1 DEF DisconnectReturn, managerVars
    <2>6. CASE StaleReturn
      BY <1>2, <2>6 DEF StaleReturn, managerVars, toolVars
    <2> QED
      BY <1>6, <2>1, <2>2, <2>3, <2>4, <2>5, <2>6 DEF MainStep
  <1>7. CASE ShutdownStep
    <2>1. CASE UvicornSignal \/ StdinEof
      BY <2>1, FramesLock DEF UvicornSignal, StdinEof, managerVars, toolVars
    <2>2. CASE ServeReturns
      BY <1>0, <2>2, FramesLock
      DEF ServeReturns, LoopRuns, NoFrames, Enter, managerVars, toolVars, MainInv, MainTypeOK, StackInv
    <2>3. ASSUME NEW i \in Level, DeliverSignal(i) PROVE NoLeakedLock'
      <3>1. call[i] = "none"
        BY <2>3 DEF DeliverSignal, Level
      <3> QED
        BY <1>1, <2>3, <3>1 DEF DeliverSignal, managerVars, toolVars
    <2>4. ASSUME NEW i \in Level, HandlerExit(i) PROVE NoLeakedLock'
      <3>1. /\ at[i] = "clean" /\ \A j \in Level : j > i => at[j] = "none"
        BY <1>0, <2>4 DEF HandlerExit, Finished, Top, MainInv, StackInv
      <3>2. /\ mlock' = IF mlock \in {j \in Level : j < i} THEN NoThread ELSE mlock
            /\ worker' = worker
        BY <2>4 DEF HandlerExit, Abandon, toolVars
      <3>3. \A j \in Level : at'[j] # "hold"
        <4>1. \/ at' = [j \in Level |-> IF j = 0 THEN "want" ELSE "none"]
              \/ at' = [j \in Level |-> IF j <= i THEN "none" ELSE at[j]]
          BY <2>4 DEF HandlerExit, Leave
        <4>2. \A j \in Level : j <= i \/ j > i
          BY DEF Level
        <4> QED
          BY <3>1, <4>1, <4>2
      <3>4. \A j \in Level : j < i \/ j = i \/ j > i
        BY DEF Level
      <3>5. \A j \in Level : mlock' # j
        BY <3>1, <3>2, <3>4, ManagerAssumption DEF IInv, NoLeakedLock
      <3>6. \A r \in Req : mlock' = r <=> mlock = r
        BY <3>2, ManagerAssumption, ServerAssumption
      <3> QED
        BY <3>2, <3>3, <3>5, <3>6 DEF IInv, NoLeakedLock
    <2>5. CASE CancelTasks
      BY <1>0, <2>5, SlotLock DEF CancelTasks, managerVars, ToolInv, ToolTypeOK
    <2>6. CASE StartAtexit
      BY <1>1, <2>6 DEF StartAtexit, NoFrames, managerVars, toolVars
    <2>7. CASE AtexitReturn
      BY <1>2, <2>7 DEF AtexitReturn, managerVars, toolVars
    <2> QED
      BY <1>7, <2>1, <2>2, <2>3, <2>4, <2>5, <2>6, <2>7 DEF ShutdownStep
  <1>8. CASE TimePasses
    BY <1>8, FramesLock DEF TimePasses, Tick, toolVars
  <1>9. CASE UNCHANGED vars
    BY <1>9, FramesLock DEF vars, managerVars, mainVars, toolVars
  <1> QED
    BY <1>3, <1>4, <1>5, <1>6, <1>7, <1>8, <1>9 DEF Next, Terminated

-----------------------------------------------------------------------------
(* The theorems.                                                            *)

\* The server starts in the invariant, with an empty manager.
LEMMA ServerInitInv == Init => IInv /\ ManagerInit
  <1> SUFFICES ASSUME Init PROVE IInv /\ ManagerInit
    OBVIOUS
  <1>1. ManagerInit /\ ManagerTypeOK
    BY InitTyped DEF Init
  <1>2. MainInv
    <2>1. lag \in 0 .. MaxLag /\ signals \in Level
      BY ManagerAssumption, LevelsAreThreads DEF Init
    <2>2. MainTypeOK
      BY <2>1 DEF Init, MainTypeOK
    <2>3. StackInv
      BY DEF Init, StackInv
    <2> QED
      BY <2>2, <2>3 DEF MainInv
  <1>3. ToolInv
    BY DEF Init, ToolInv, ToolTypeOK, QueueInv, WorkInv
  <1>4. NoLeakedLock
    <2>1. /\ mlock = NoThread
          /\ worker = [r \in Req |-> "idle"] /\ at = [i \in Level |-> "none"]
      BY DEF Init, ManagerInit
    <2> QED
      BY <2>1, ManagerAssumption, LevelsAreThreads DEF NoLeakedLock
  <1> QED
    BY <1>1, <1>2, <1>3, <1>4 DEF IInv

\* The invariant is inductive.
LEMMA ServerStepInv == IInv /\ [Next]_vars => IInv'
  <1> SUFFICES ASSUME IInv, [Next]_vars PROVE IInv'
    OBVIOUS
  <1>1. ManagerTypeOK'
    BY ServerStepManager, StepTyped DEF IInv
  <1> QED
    BY <1>1, ServerStepMain, ServerStepTools, ServerStepLock DEF IInv

\* The variables of the server keep their types.
THEOREM ServerTyped == Spec => []ServerTypeOK
  <1>1. IInv => ServerTypeOK
    BY DEF IInv, MainInv, MainTypeOK, ToolInv, ToolTypeOK, ServerTypeOK
  <1> QED
    BY <1>1, ServerInitInv, ServerStepInv, PTL DEF Spec

\* No return, exception or unwound frame leaves the manager's lock locked, for any
\* nesting of signal handlers (`with self._lock`, client.py:113, 120, 146, 157, 172).
THEOREM LockNeverLeaked == Spec => []NoLeakedLock
  <1>1. IInv => NoLeakedLock
    BY DEF IInv
  <1> QED
    BY <1>1, ServerInitInv, ServerStepInv, PTL DEF Spec

\* Tool calls on one connection exclude each other, for any number of threads
\* (`with conn.lock`, e.g. session.py:120).
THEOREM OpsExclude == Spec => []OpsSerialised
  <1>1. IInv => OpsSerialised
    BY DEF IInv, ToolInv, WorkInv, OpsSerialised
  <1> QED
    BY <1>1, ServerInitInv, ServerStepInv, PTL DEF Spec

\* Every step of the server is one step of the manager or none.
THEOREM ServerImplementsManager == Spec => ImplementsManager
  BY ServerInitInv, ServerStepInv, ServerStepManager, PTL
  DEF Spec, ImplementsManager, ManagerSpec

\* So in the server, too, every connection has exactly one owner
\* (client.py:113, 146, 157, 172).
THEOREM ServerOwned == Spec => []OneOwner
  BY ServerImplementsManager, ManagerOwned, PTL DEF ImplementsManager

=============================================================================
