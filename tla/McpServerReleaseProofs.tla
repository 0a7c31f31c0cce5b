------------------------ MODULE McpServerReleaseProofs ------------------------
(***************************************************************************)
(* Proofs about McpServer: what becomes of the connections that clients     *)
(* know, for any number of tool calls, executor threads, signals,           *)
(* connections and sessions and both transports.  ixia_disconnect answers   *)
(* after the cleanup whatever signals arrive; no known connection is        *)
(* forgotten and none outlives the process as long as no signal reaches     *)
(* _shutdown_handler but the one that serve() raises again.                 *)
(* The reaper leaves alone what is used while it waits for the lock.        *)
(***************************************************************************)
EXTENDS McpServerProofs, ReaperHistory

\* A connection that is being built is known to the tool call that builds it and to
\* nobody else, and the main thread's frames hold connections only to clean them up.
Making ==
  /\ \A r \in Req :
       /\ taken[r] = {} /\ made[r] \subseteq {arg[r]}
       /\ worker[r] = "opening" => tool[r] = "connect"
       /\ made[r] # {} => worker[r] \in {"want", "hold"} /\ tool[r] = "connect"
       /\ arg[r] # NoConn => sess[arg[r]] # NoSession
       /\ \A q \in Req : arg[q] \in made[r] => q = r
  /\ \A i \in Level : made[i] = {} /\ (taken[i] # {} => at[i] = "clean")
  /\ \A c \in known : sess[c] # NoSession /\ \A r \in Req : c \notin made[r]

\* While the process serves, one ixia_disconnect at most is under way, frame 0 runs it,
\* and nothing was abandoned yet; after its body the connection is cleaned up or about to be.
Disconnecting ==
  /\ lost # {} => phase # "serving"
  /\ call[0] = "disconnect" => phase = "serving"
  /\ \A r \in Req : tool[r] \in {"op", "disconnect"} => arg[r] \in known
  /\ \A r \in Req : tool[r] = "disconnect" => phase # "serving" \/ call[0] = "disconnect"
  /\ \A r, q \in Req :
       tool[r] = "disconnect" /\ tool[q] = "disconnect" /\ phase = "serving" => r = q
  /\ \A r \in Req :
       tool[r] = "disconnect" /\ call[0] = "disconnect" /\ at[0] = "clean" =>
         arg[r] \in taken[0] \/ cleanup[arg[r]] # "no"

\* As long as the process is Calm nothing is abandoned, and shutdown ends with an empty pool.
Orderly ==
  /\ lost = {}
  /\ \A i \in Level \ {0} : call[i] # "none" => i = 1 /\ phase = "serving" /\ call[0] = "none"
  /\ signals = 0 => \A i \in Level \ {0} : call[i] = "none"
  /\ signals = 0 /\ Transport = "http" => ~stopping /\ phase = "serving"
  /\ phase \in {"atexit", "exited"} => \A r \in Req : worker[r] \in {"idle", "done"}
  /\ phase = "atexit" => call[0] = "all" /\ (at[0] = "clean" => pool = {})
  /\ phase = "exited" => pool = {}

-----------------------------------------------------------------------------
(* Connections being built.                                                 *)

\* A step that neither builds nor inserts nor removes a connection.
LEMMA SlotsMaking ==
  ASSUME IInv, Making, UNCHANGED <<made, taken, sess>>,
         \A i \in Level : taken[i] # {} => at'[i] = "clean",
         \A r \in Req : worker'[r] = "opening" => tool'[r] = "connect",
         \A r \in Req : made[r] # {} =>
           worker'[r] \in {"want", "hold"} /\ tool'[r] = "connect" /\ arg'[r] = arg[r],
         \A r \in Req : arg'[r] \in {arg[r], NoConn} \cup known,
         \A c \in known' : c \in known \/ (sess[c] # NoSession /\ \A r \in Req : c \notin made[r])
  PROVE  Making'
  <1>1. \A r \in Req : made[r] \subseteq Conn
    BY LevelsAreThreads DEF IInv, ManagerTypeOK
  <1>2. NoConn \notin Conn
    BY ServerAssumption
  <1>3. \A r, q \in Req : arg'[q] \in made[r] => arg'[q] = arg[q]
    BY <1>1, <1>2 DEF Making
  <1> QED
    BY <1>3 DEF Making

\* The stage of one work item changes and nothing else of the calls.
LEMMA StageMaking ==
  ASSUME IInv, Making, NEW r \in Req, NEW s, WorkerAt(r, s),
         UNCHANGED <<made, taken, sess, at, tool, arg, known>>,
         made[r] = {} \/ s \in {"want", "hold"}, s = "opening" => tool[r] = "connect"
  PROVE  Making'
  <1>1. \A q \in Req : /\ made[q] # {} => worker'[q] \in {"want", "hold"}
                       /\ worker'[q] = "opening" => tool[q] = "connect"
    BY DEF WorkerAt, Making, IInv, ToolInv, ToolTypeOK
  <1> QED
    BY <1>1, SlotsMaking DEF Making

\* The slot of a call that builds nothing gets free.
LEMMA ForgetMaking ==
  ASSUME IInv, Making, NEW r \in Req, Forget(r), made[r] = {}, UNCHANGED <<made, taken, sess>>,
         \A i \in Level : taken[i] # {} => at'[i] = "clean",
         \A c \in known' : c \in known \/ (sess[c] # NoSession /\ \A q \in Req : c \notin made[q])
  PROVE  Making'
  <1>1. /\ \A q \in Req \ {r} : worker'[q] = worker[q] /\ tool'[q] = tool[q] /\ arg'[q] = arg[q]
        /\ arg'[r] = NoConn /\ worker'[r] = "idle"
    BY DEF Forget, IInv, ToolInv, ToolTypeOK
  <1> QED
    BY <1>1, SlotsMaking DEF Making

\* The event loop's side of the calls.
LEMMA LoopMaking ==
  ASSUME IInv, Making, NEW r \in Req, LoopStep(r)
  PROVE  Making'
  <1>0. made[r] # {} => worker[r] \in {"want", "hold"}
    BY DEF Making
  <1>1. ASSUME NEW name, NEW c \in known \cup {NoConn}, Submit(r, name, c) PROVE Making'
    <2>1. /\ \A q \in Req \ {r} : worker'[q] = worker[q] /\ tool'[q] = tool[q] /\ arg'[q] = arg[q]
          /\ arg'[r] = c /\ worker'[r] = "queued" /\ made[r] = {}
          /\ UNCHANGED <<made, taken, sess, at, known>>
      BY <1>0, <1>1 DEF Submit, Accepting, managerVars, mainVars, IInv, ToolInv, ToolTypeOK
    <2> QED
      BY <2>1, SlotsMaking DEF Making
  <1>2. ASSUME NEW c \in Conn, SubmitDisconnect(r, c) PROVE Making'
    <2>1. /\ \A q \in Req \ {r} : worker'[q] = worker[q] /\ tool'[q] = tool[q] /\ arg'[q] = arg[q]
          /\ arg'[r] = c /\ c \in known /\ worker'[r] = "idle" /\ made[r] = {}
          /\ UNCHANGED <<made, taken, sess, known>>
      BY <1>0, <1>2 DEF SubmitDisconnect, Accepting, managerVars, IInv, ToolInv, ToolTypeOK
    <2>2. \A i \in Level : taken[i] = {}
      BY <1>2 DEF SubmitDisconnect, Accepting, LoopRuns, NoFrames, Making, IInv, MainInv, StackInv
    <2> QED
      BY <2>1, <2>2, SlotsMaking DEF Making
  <1>3. CASE Reply(r)
    <2>1. made[r] = {} /\ Forget(r) /\ UNCHANGED <<made, taken, sess, at>>
      BY <1>0, <1>3 DEF Reply, managerVars, mainVars
    <2>2. \A c \in known' : c \in known \/ (sess[c] # NoSession /\ \A q \in Req : c \notin made[q])
      BY <1>3, <2>1 DEF Reply, Making
    <2> QED
      BY <2>1, <2>2, ForgetMaking DEF Making
  <1>4. CASE Cancel(r)
    <2>1. UNCHANGED <<made, taken, sess, at, known>>
      BY <1>4 DEF Cancel, managerVars, mainVars
    <2>2. CASE worker[r] = "queued"
      BY <1>0, <1>4, <2>1, <2>2, ForgetMaking DEF Cancel, Making
    <2>3. CASE worker[r] # "queued"
      BY <1>4, <2>1, <2>3, SlotsMaking DEF Cancel, Making
    <2> QED
      BY <2>2, <2>3
  <1> QED
    BY <1>1, <1>2, <1>3, <1>4 DEF LoopStep, SubmitConnect, SubmitOp

\* The executor's side.
LEMMA WorkerMaking ==
  ASSUME IInv, Making, NEW r \in Req, WorkerStep(r)
  PROVE  Making'
  <1>0. /\ made[r] # {} => worker[r] \in {"want", "hold"} /\ tool[r] = "connect"
        /\ made \in [Thread -> SUBSET Conn] /\ r \in Thread
    BY LevelsAreThreads DEF Making, IInv, ManagerTypeOK
  <1>1. ASSUME NEW c \in Conn, NEW s \in Session, OpenOk(r, c, s) PROVE Making'
    <2>1. /\ sess[c] = NoSession /\ made[r] = {} /\ c # NoConn
          /\ made' = [made EXCEPT ![r] = {c}] /\ sess' = [sess EXCEPT ![c] = s]
          /\ UNCHANGED <<taken, at, tool, known>>
      BY <1>0, <1>1, ServerAssumption DEF OpenOk, Open, mainVars
    <2>2. \A q \in Req : made'[q] = (IF q = r THEN {c} ELSE made[q])
      BY <1>0, <2>1, LevelsAreThreads
    <2>3. \A i \in Level : made'[i] = made[i]
      BY <1>0, <2>1, LevelsAreThreads, ServerAssumption
    <2>4. \A d \in Conn : sess[d] # NoSession => sess'[d] # NoSession /\ d # c
      BY <2>1, ManagerAssumption DEF IInv, ManagerTypeOK
    <2>5. sess'[c] # NoSession
      BY <2>1, ManagerAssumption DEF IInv, ManagerTypeOK
    <2>6. \A q \in Req : /\ arg'[q] = (IF q = r THEN c ELSE arg[q])
                         /\ worker'[q] = (IF q = r THEN "want" ELSE worker[q])
      BY <1>1 DEF OpenOk, WorkerAt, IInv, ToolInv, ToolTypeOK
    <2>7. \A q \in Req : arg[q] \in Conn \cup {NoConn} /\ arg[q] # c
      BY <2>1 DEF Making, IInv, ToolInv, ToolTypeOK
    <2>8. known \subseteq Conn
      BY DEF IInv, ToolInv, ToolTypeOK
    <2>9. tool[r] = "connect"
      BY <1>1 DEF OpenOk, Making
    <2>10. \A q \in Req :
             /\ taken'[q] = {} /\ made'[q] \subseteq {arg'[q]}
             /\ worker'[q] = "opening" => tool'[q] = "connect"
             /\ made'[q] # {} => worker'[q] \in {"want", "hold"} /\ tool'[q] = "connect"
             /\ arg'[q] # NoConn => sess'[arg'[q]] # NoSession
      BY <2>1, <2>2, <2>4, <2>5, <2>6, <2>7, <2>9 DEF Making
    <2>11. \A q, p \in Req : arg'[p] \in made'[q] => p = q
      BY <2>1, <2>2, <2>6, <2>7 DEF Making
    <2>12. \A d \in known' : sess'[d] # NoSession /\ \A q \in Req : d \notin made'[q]
      BY <2>1, <2>2, <2>4, <2>8 DEF Making
    <2> QED
      BY <2>1, <2>3, <2>10, <2>11, <2>12 DEF Making
  <1>2. CASE OpenFail(r)
    BY <1>0, <1>2, StageMaking DEF OpenFail, managerVars, mainVars
  <1>3. CASE WorkerAcquire(r)
    BY <1>3, StageMaking DEF WorkerAcquire, Acquire, mainVars
  <1>4. CASE WorkerInsert(r)
    <2>1. /\ made' = [made EXCEPT ![r] = @ \ {arg[r]}] /\ WorkerAt(r, "done")
          /\ UNCHANGED <<sess, taken, at, tool, arg, known>>
      BY <1>4 DEF WorkerInsert, Insert, mainVars
    <2>2. made'[r] = {} /\ \A t \in Thread : made'[t] \subseteq made[t]
      BY <1>0, <2>1 DEF Making
    <2>3. \A q \in Req : worker'[q] = (IF q = r THEN "done" ELSE worker[q])
      BY <2>1 DEF WorkerAt, IInv, ToolInv, ToolTypeOK
    <2>4. \A q \in Req :
             /\ taken'[q] = {} /\ made'[q] \subseteq {arg'[q]}
             /\ worker'[q] = "opening" => tool'[q] = "connect"
             /\ made'[q] # {} => worker'[q] \in {"want", "hold"} /\ tool'[q] = "connect"
             /\ arg'[q] # NoConn => sess'[arg'[q]] # NoSession
             /\ \A p \in Req : arg'[p] \in made'[q] => p = q
      BY <2>1, <2>2, <2>3, LevelsAreThreads DEF Making
    <2> QED
      BY <2>1, <2>2, <2>4, LevelsAreThreads DEF Making
  <1>5. CASE WorkerGet(r)
    BY <1>0, <1>5, StageMaking DEF WorkerGet, Get, mainVars
  <1>6. CASE LockConn(r)
    BY <1>0, <1>6, StageMaking DEF LockConn, managerVars, mainVars
  <1>7. CASE OpDone(r)
    BY <1>0, <1>7, StageMaking DEF OpDone, managerVars, mainVars
  <1>8. CASE Discard(r)
    BY <1>0, <1>8, ForgetMaking DEF Discard, managerVars, mainVars, Making
  <1> QED
    BY <1>1, <1>2, <1>3, <1>4, <1>5, <1>6, <1>7, <1>8 DEF WorkerStep

\* A method of the manager takes the connections S out of the pool, in frame i.
LEMMA WithdrawMaking ==
  ASSUME IInv, Making, NEW i \in Level, NEW S, taken' = [taken EXCEPT ![i] = @ \cup S],
         at' = [at EXCEPT ![i] = "clean"], UNCHANGED <<made, sess, toolVars>>
  PROVE  Making'
  <1>1. \A r \in Req : taken'[r] = taken[r]
    BY ServerAssumption, LevelsAreThreads DEF IInv, ManagerTypeOK
  <1>2. \A j \in Level : taken'[j] # {} => at'[j] = "clean"
    BY LevelsAreThreads DEF IInv, ManagerTypeOK, MainInv, MainTypeOK, Making
  <1> QED
    BY <1>1, <1>2 DEF Making, toolVars

\* Frames take no more than they had, and keep their place while they have something.
LEMMA FramesMaking ==
  ASSUME IInv, Making, UNCHANGED <<made, sess, toolVars>>,
         \A t \in Thread : taken'[t] \subseteq taken[t],
         \A i \in Level : taken'[i] # {} => at'[i] = "clean"
  PROVE  Making'
  BY LevelsAreThreads DEF Making, toolVars

\* A frame is entered where there was none.
LEMMA EnterMaking ==
  ASSUME IInv, Making, UNCHANGED <<made, taken, sess, toolVars>>, NEW i, NEW m, Enter(i, m),
         i \in Level => call[i] = "none"
  PROVE  Making'
  <1>1. i \in Level => taken[i] = {}
    BY DEF Making, IInv, MainInv, StackInv
  <1>2. \A j \in Level : j # i => at'[j] = at[j]
    BY DEF Enter, IInv, MainInv, MainTypeOK
  <1> QED
    BY <1>1, <1>2, FramesMaking DEF Making

\* The frames that return have nothing left.
LEMMA LeaveMaking ==
  ASSUME IInv, Making, UNCHANGED <<made, taken, sess>>, Finished(0), Leave(0)
  PROVE  \A i \in Level : taken[i] # {} => at'[i] = "clean"
  <1>1. \A i \in Level : i > 0 => call[i] = "none"
    BY DEF Finished, Top
  <1>2. \A i \in Level : taken[i] = {}
    BY <1>1 DEF Finished, Making, IInv, MainInv, StackInv, Level
  <1> QED
    BY <1>2

\* Every step keeps what is known of connections being built.
LEMMA StepMaking == IInv /\ Making /\ [Next]_vars => Making'
  <1> SUFFICES ASSUME IInv, Making, [Next]_vars PROVE Making'
    OBVIOUS
  <1>1. ASSUME NEW r \in Req, LoopStep(r) PROVE Making'
    BY <1>1, LoopMaking
  <1>2. ASSUME NEW r \in Req, WorkerStep(r) PROVE Making'
    BY <1>2, WorkerMaking
  <1>3. CASE StartWork
    <2> DEFINE r == Head(queue)
    <2>1. /\ WorkerAt(r, IF tool[r] = "connect" THEN "opening" ELSE "want")
          /\ UNCHANGED <<made, taken, sess, at, tool, arg, known>>
      BY <1>3 DEF StartWork, managerVars, mainVars
    <2>2. r \in Req /\ worker[r] = "queued"
      <3>1. queue \in Seq(Req) /\ queue # <<>>
        BY <1>3 DEF StartWork, IInv, ToolInv, ToolTypeOK
      <3>2. 1 \in 1 .. Len(queue) /\ r = queue[1] /\ r \in Req
        BY <3>1
      <3> QED
        BY <3>2 DEF IInv, ToolInv, QueueInv
    <2>3. made[r] = {}
      BY <2>2 DEF Making
    <2> HIDE DEF r
    <2> QED
      BY <2>1, <2>2, <2>3, StageMaking
  <1>4. CASE MainStep
    <2>1. CASE ReaperWake
      BY <1>4, <2>1, LevelsAreThreads, EnterMaking DEF ReaperWake, LoopRuns, NoFrames, managerVars
    <2>2. ASSUME NEW i \in Level, MainAcquire(i) PROVE Making'
      <3>1. \A j \in Level : taken[j] # {} => at'[j] = "clean"
        BY <2>2 DEF MainAcquire, Making, IInv, MainInv, MainTypeOK
      <3> QED
        BY <2>2, <3>1, FramesMaking DEF MainAcquire, Acquire
    <2>3. ASSUME NEW i \in Level, MainBody(i) PROVE Making'
      <3>1. /\ at' = [at EXCEPT ![i] = "clean"] /\ UNCHANGED <<made, sess, toolVars>>
            /\ \E S : taken' = [taken EXCEPT ![i] = @ \cup S]
        BY <2>3 DEF MainBody, DisconnectAll, DisconnectStale, Disconnect, Withdraw
      <3> QED
        BY <3>1, WithdrawMaking
    <2>4. ASSUME NEW i \in Level, NEW c \in Conn, MainCleanup(i, c) PROVE Making'
      <3>1. /\ taken' = [taken EXCEPT ![i] = @ \ {c}] /\ UNCHANGED <<made, sess, at, toolVars>>
        BY <2>4 DEF MainCleanup, Cleanup, mainVars
      <3>2. \A t \in Thread : taken'[t] \subseteq taken[t]
        BY <3>1 DEF IInv, ManagerTypeOK
      <3> QED
        BY <3>1, <3>2, FramesMaking, LevelsAreThreads DEF Making
    <2>5. ASSUME NEW r \in Req, DisconnectReturn(r) PROVE Making'
      <3>1. made[r] = {}
        BY <2>5 DEF DisconnectReturn, Making
      <3>2. /\ Finished(0) /\ Leave(0) /\ Forget(r) /\ UNCHANGED <<made, taken, sess, known>>
        BY <2>5 DEF DisconnectReturn, managerVars
      <3> QED
        BY <3>1, <3>2, LeaveMaking, ForgetMaking
    <2>6. CASE StaleReturn
      <3>1. /\ Finished(0) /\ Leave(0) /\ UNCHANGED <<made, taken, sess, toolVars>>
        BY <2>6 DEF StaleReturn, managerVars
      <3> QED
        BY <3>1, LeaveMaking, FramesMaking
    <2> QED
      BY <1>4, <2>1, <2>2, <2>3, <2>4, <2>5, <2>6 DEF MainStep
  <1>5. CASE ShutdownStep
    <2>1. CASE UvicornSignal \/ StdinEof
      BY <2>1, FramesMaking DEF UvicornSignal, StdinEof, managerVars, Making
    <2>2. CASE ServeReturns
      BY <2>2, EnterMaking DEF ServeReturns, LoopRuns, NoFrames, managerVars
    <2>3. ASSUME NEW i \in Level, DeliverSignal(i) PROVE Making'
      <3>1. call[i] = "none"
        BY <2>3 DEF DeliverSignal, Level
      <3> QED
        BY <2>3, <3>1, EnterMaking DEF DeliverSignal, managerVars
    <2>4. ASSUME NEW i \in Level, HandlerExit(i) PROVE Making'
      <3>1. /\ taken' = [t \in Thread |-> IF t \in {j \in Level : j < i} THEN {} ELSE taken[t]]
            /\ UNCHANGED <<made, sess, toolVars>>
        BY <2>4 DEF HandlerExit, Abandon
      <3>2. \A t \in Thread : taken'[t] \subseteq taken[t]
        BY <3>1
      <3>3. \A j \in Level : taken'[j] = {}
        <4>1. \A j \in Level : j > i => taken[j] = {}
          BY <2>4 DEF HandlerExit, Finished, Top, Making, IInv, MainInv, StackInv
        <4>2. taken[i] = {}
          BY <2>4 DEF HandlerExit, Finished
        <4>3. \A j \in Level : j < i \/ j = i \/ j > i
          BY DEF Level
        <4> QED
          BY <3>1, <4>1, <4>2, <4>3, LevelsAreThreads
      <3> QED
        BY <3>1, <3>2, <3>3, FramesMaking
    <2>5. CASE CancelTasks
      <3>1. \A r \in Req : /\ worker[r] = "queued" => arg'[r] = NoConn /\ worker'[r] = "idle"
                           /\ worker[r] # "queued" => /\ arg'[r] = arg[r] /\ tool'[r] = tool[r]
                                                      /\ worker'[r] = worker[r]
        BY <2>5 DEF CancelTasks
      <3> QED
        BY <2>5, <3>1, SlotsMaking DEF CancelTasks, managerVars, Making
    <2>6. CASE StartAtexit
      BY <2>6, EnterMaking DEF StartAtexit, NoFrames, managerVars
    <2>7. CASE AtexitReturn
      <3>1. /\ Finished(0) /\ Leave(0) /\ UNCHANGED <<made, taken, sess, toolVars>>
        BY <2>7 DEF AtexitReturn, managerVars
      <3> QED
        BY <3>1, LeaveMaking, FramesMaking
    <2> QED
      BY <1>5, <2>1, <2>2, <2>3, <2>4, <2>5, <2>6, <2>7 DEF ShutdownStep
  <1>6. CASE TimePasses
    BY <1>6, FramesMaking DEF TimePasses, Tick, Making
  <1>7. CASE UNCHANGED vars
    BY <1>7, FramesMaking DEF vars, managerVars, mainVars, Making
  <1> QED
    BY <1>1, <1>2, <1>3, <1>4, <1>5, <1>6, <1>7 DEF Next, Terminated

-----------------------------------------------------------------------------
(* ixia_disconnect.                                                         *)

\* A step that leaves the main thread and what it holds alone.
LEMMA ToolsDisconnecting ==
  ASSUME Disconnecting, UNCHANGED <<phase, lost, call, at, taken, cleanup>>,
         known \subseteq known',
         \A r \in Req : tool'[r] \in {"op", "disconnect"} => arg'[r] \in known',
         \A r \in Req : tool'[r] = "disconnect" => tool[r] = "disconnect" /\ arg'[r] = arg[r]
  PROVE  Disconnecting'
  BY DEF Disconnecting

\* A step of the main thread outside ixia_disconnect, or after serving.
LEMMA MainDisconnecting ==
  ASSUME Disconnecting, UNCHANGED toolVars, lost' = {} \/ phase' # "serving",
         phase' = "serving" => phase = "serving",
         \/ call'[0] # "disconnect"
         \/ /\ call'[0] = call[0] /\ at'[0] = at[0] /\ phase' = phase
            /\ UNCHANGED <<taken, cleanup>>,
         call[0] = "disconnect" /\ phase' = "serving" => call'[0] = "disconnect"
  PROVE  Disconnecting'
  BY DEF Disconnecting, toolVars

\* A connection that clients know is in the pool, in the hands of a frame, abandoned or
\* cleaned up.
LEMMA KnownAccounted ==
  ASSUME IInv, Making, OneOwner, NEW c \in known
  PROVE  \/ c \in pool \/ c \in lost \/ cleanup[c] # "no"
         \/ \E i \in Level : c \in taken[i]
  <1>1. c \in Conn /\ sess[c] # NoSession
    BY DEF Making, IInv, ToolInv, ToolTypeOK
  <1>2. \A t \in Thread : c \in made[t] \cup taken[t] => t \in Level /\ c \in taken[t]
    BY ServerAssumption DEF Making
  <1> QED
    BY <1>1, <1>2 DEF OneOwner, Accounted

\* Every step keeps what is known of ixia_disconnect.
LEMMA StepDisconnecting ==
  IInv /\ Making /\ OneOwner /\ Disconnecting /\ [Next]_vars => Disconnecting'
  <1> SUFFICES ASSUME IInv, Making, OneOwner, Disconnecting, [Next]_vars PROVE Disconnecting'
    OBVIOUS
  <1> USE LevelsAreThreads
  <1>0. /\ tool \in [Req -> {"none", "connect", "op", "disconnect"}]
        /\ arg \in [Req -> Conn \cup {NoConn}] /\ known \subseteq Conn
        /\ call \in [Level -> {"none", "disconnect", "stale", "all"}]
        /\ at \in [Level -> {"none", "want", "hold", "clean"}]
    BY DEF IInv, MainInv, MainTypeOK, ToolInv, ToolTypeOK
  <1>1. ASSUME NEW r \in Req, LoopStep(r) PROVE Disconnecting'
    <2>1. ASSUME NEW name \in {"connect", "op"}, NEW c \in Conn \cup {NoConn}, Submit(r, name, c),
                 name = "op" => c \in known
          PROVE  Disconnecting'
      BY <1>0, <2>1, ToolsDisconnecting DEF Submit, managerVars, mainVars, Disconnecting
    <2>2. ASSUME NEW c \in Conn, SubmitDisconnect(r, c) PROVE Disconnecting'
      <3>1. /\ phase = "serving" /\ call[0] = "none" /\ c \in known
            /\ UNCHANGED <<lost, phase, known, taken, cleanup>>
            /\ tool' = [tool EXCEPT ![r] = "disconnect"] /\ arg' = [arg EXCEPT ![r] = c]
            /\ call'[0] = "disconnect" /\ at'[0] = "want"
        BY <1>0, <2>2 DEF SubmitDisconnect, Accepting, LoopRuns, NoFrames, Enter, managerVars
      <3>2. \A q \in Req : tool[q] # "disconnect"
        BY <3>1 DEF Disconnecting
      <3> QED
        BY <1>0, <3>1, <3>2 DEF Disconnecting
    <2>3. CASE Reply(r) \/ Cancel(r)
      <3>1. /\ Forget(r) \/ UNCHANGED <<tool, arg>>
            /\ known \subseteq known'
            /\ UNCHANGED <<managerVars, mainVars>>
        BY <2>3 DEF Reply, Cancel
      <3> QED
        BY <1>0, <3>1, ToolsDisconnecting DEF Forget, managerVars, mainVars, Disconnecting
    <2> QED
      BY <1>1, <2>1, <2>2, <2>3 DEF LoopStep, SubmitConnect, SubmitOp
  <1>2. ASSUME NEW r \in Req, WorkerStep(r) PROVE Disconnecting'
    <2>1. ASSUME NEW c \in Conn, NEW s \in Session, OpenOk(r, c, s) PROVE Disconnecting'
      <3>1. tool[r] = "connect"
        BY <2>1 DEF OpenOk, Making
      <3> QED
        BY <1>0, <2>1, <3>1, ToolsDisconnecting DEF OpenOk, Open, mainVars, Disconnecting
    <2>2. CASE Discard(r)
      BY <1>0, <2>2, ToolsDisconnecting DEF Discard, Forget, managerVars, mainVars, Disconnecting
    <2>3. CASE OpenFail(r) \/ WorkerAcquire(r) \/ WorkerInsert(r) \/ WorkerGet(r)
               \/ LockConn(r) \/ OpDone(r)
      <3>1. UNCHANGED <<phase, lost, call, at, taken, cleanup, tool, arg, known>>
        BY <2>3 DEF OpenFail, WorkerAcquire, Acquire, WorkerInsert, Insert, WorkerGet, Get,
                    LockConn, OpDone, managerVars, mainVars
      <3> QED
        BY <3>1, ToolsDisconnecting DEF Disconnecting
    <2> QED
      BY <1>2, <2>1, <2>2, <2>3 DEF WorkerStep
  <1>3. CASE StartWork
    BY <1>3, ToolsDisconnecting DEF StartWork, managerVars, mainVars, Disconnecting
  <1>4. CASE MainStep
    <2>1. CASE ReaperWake
      BY <1>0, <2>1, MainDisconnecting
      DEF ReaperWake, LoopRuns, NoFrames, Enter, managerVars, Disconnecting
    <2>2. ASSUME NEW i \in Level, MainAcquire(i) PROVE Disconnecting'
      <3>1. /\ UNCHANGED <<toolVars, phase, call, lost, taken, cleanup>>
            /\ at'[0] # "clean" \/ at'[0] = at[0]
        BY <1>0, <2>2 DEF MainAcquire, Acquire
      <3> QED
        BY <3>1 DEF Disconnecting, toolVars
    <2>3. ASSUME NEW i \in Level, MainBody(i) PROVE Disconnecting'
      <3>0. /\ UNCHANGED <<toolVars, phase, call, lost, cleanup>>
            /\ at' = [at EXCEPT ![i] = "clean"]
        BY <2>3 DEF MainBody, DisconnectAll, DisconnectStale, Disconnect, Withdraw
      <3>1. CASE i # 0 \/ call[0] # "disconnect"
        <4>1. i # 0 => at'[0] = at[0] /\ taken'[0] = taken[0]
          BY <1>0, <2>3, <3>0
          DEF MainBody, DisconnectAll, DisconnectStale, Disconnect, Withdraw, IInv, ManagerTypeOK
        <4> QED
          BY <3>0, <3>1, <4>1 DEF Disconnecting, toolVars
      <3>2. CASE i = 0 /\ call[0] = "disconnect"
        <4>1. PICK r \in Req : tool[r] = "disconnect" /\ Disconnect(0, arg[r])
          BY <2>3, <3>2 DEF MainBody
        <4>2. phase = "serving" /\ lost = {} /\ arg[r] \in known
          BY <3>2, <4>1 DEF Disconnecting
        <4>3. \A q \in Req : tool[q] = "disconnect" => q = r
          BY <4>1, <4>2 DEF Disconnecting
        <4>4. \A j \in Level : taken[j] = {}
          <5>1. at[0] = "hold" /\ \A j \in Level : j > 0 => call[j] = "none"
            BY <2>3, <3>2 DEF MainBody, Top
          <5>2. \A j \in Level : at[j] # "clean"
            BY <5>1 DEF IInv, MainInv, StackInv, Level
          <5> QED
            BY <5>2 DEF Making
        <4>5. arg[r] \in pool \/ cleanup[arg[r]] # "no"
          BY <4>2, <4>4, KnownAccounted
        <4>6. taken'[0] = taken[0] \cup ({arg[r]} \cap pool)
          BY <4>1 DEF Disconnect, Withdraw, IInv, ManagerTypeOK
        <4>7. arg[r] \in taken'[0] \/ cleanup'[arg[r]] # "no"
          BY <3>0, <4>5, <4>6
        <4> QED
          BY <3>0, <4>3, <4>7 DEF Disconnecting, toolVars
      <3> QED
        BY <3>1, <3>2
    <2>4. ASSUME NEW i \in Level, NEW c \in Conn, MainCleanup(i, c) PROVE Disconnecting'
      <3>1. PICK outcome \in Cleaned :
              /\ UNCHANGED <<toolVars, mainVars, lost>>
              /\ taken' = [taken EXCEPT ![i] = @ \ {c}]
              /\ cleanup' = [cleanup EXCEPT ![c] = outcome]
        BY <2>4 DEF MainCleanup, Cleanup
      <3>2. \A d \in Conn : d \in taken[0] \/ cleanup[d] # "no" =>
                           d \in taken'[0] \/ cleanup'[d] # "no"
        BY <3>1 DEF Cleaned, IInv, ManagerTypeOK
      <3> QED
        BY <1>0, <3>1, <3>2 DEF Disconnecting, toolVars, mainVars
    <2>5. ASSUME NEW r \in Req, DisconnectReturn(r) PROVE Disconnecting'
      <3>1. /\ Leave(0) /\ Forget(r) /\ UNCHANGED <<lost, phase, known>>
            /\ tool[r] = "disconnect" /\ call[0] = "disconnect"
        BY <2>5 DEF DisconnectReturn, managerVars
      <3>2. \A q \in Req : q # r => tool[q] # "disconnect"
        BY <3>1 DEF Disconnecting
      <3>3. call'[0] = "none"
        BY <3>1 DEF Leave, Level
      <3> QED
        BY <1>0, <3>1, <3>2, <3>3 DEF Forget, Disconnecting
    <2>6. CASE StaleReturn
      BY <2>6, MainDisconnecting DEF StaleReturn, Leave, Level, managerVars, Disconnecting
    <2> QED
      BY <1>4, <2>1, <2>2, <2>3, <2>4, <2>5, <2>6 DEF MainStep
  <1>5. CASE ShutdownStep
    <2>1. CASE UvicornSignal
      BY <2>1, MainDisconnecting DEF UvicornSignal, managerVars, Disconnecting
    <2>2. CASE ServeReturns
      BY <1>0, <2>2, MainDisconnecting DEF ServeReturns, Enter, managerVars, Disconnecting
    <2>3. ASSUME NEW i \in Level, DeliverSignal(i) PROVE Disconnecting'
      BY <1>0, <2>3, MainDisconnecting DEF DeliverSignal, Enter, Level, managerVars, Disconnecting
    <2>4. ASSUME NEW i \in Level, HandlerExit(i) PROVE Disconnecting'
      <3>0. phase \in {"serving", "closing", "joining", "atexit"}
        BY <2>4 DEF HandlerExit, Finished, Top, IInv, MainInv, MainTypeOK, StackInv, NoFrames
      <3>1. phase' # "serving" /\ UNCHANGED toolVars
        BY <2>4, <3>0 DEF HandlerExit, Interrupted
      <3>2. call'[0] # "disconnect"
        <4>1. i > 0 /\ 0 <= i
          BY <2>4 DEF HandlerExit, Level
        <4>2. \/ call' = [j \in Level |-> IF j = 0 THEN "all" ELSE "none"]
              \/ call' = [j \in Level |-> IF j <= i THEN "none" ELSE call[j]]
          BY <2>4 DEF HandlerExit, Leave
        <4> QED
          BY <4>1, <4>2
      <3> QED
        BY <3>1, <3>2 DEF Disconnecting, toolVars
    <2>5. CASE StdinEof
      BY <2>5, MainDisconnecting DEF StdinEof, LoopRuns, NoFrames, managerVars, Disconnecting
    <2>6. CASE CancelTasks
      <3>1. /\ phase' = "joining" /\ UNCHANGED <<call, known>> /\ call[0] = "none"
            /\ \A r \in Req : tool'[r] # "none" => tool'[r] = tool[r] /\ arg'[r] = arg[r]
        BY <2>6 DEF CancelTasks, NoFrames
      <3> QED
        BY <3>1 DEF Disconnecting
    <2>7. CASE StartAtexit
      BY <1>0, <2>7, MainDisconnecting DEF StartAtexit, NoFrames, Enter, managerVars, Disconnecting
    <2>8. CASE AtexitReturn
      BY <2>8, MainDisconnecting DEF AtexitReturn, Leave, Level, managerVars, Disconnecting
    <2> QED
      BY <1>5, <2>1, <2>2, <2>3, <2>4, <2>5, <2>6, <2>7, <2>8 DEF ShutdownStep
  <1>6. CASE TimePasses
    BY <1>6, ToolsDisconnecting DEF TimePasses, Tick, toolVars, Disconnecting
  <1>7. CASE UNCHANGED vars
    BY <1>7, ToolsDisconnecting DEF vars, managerVars, mainVars, toolVars, Disconnecting
  <1> QED
    BY <1>1, <1>2, <1>3, <1>4, <1>5, <1>6, <1>7 DEF Next, Terminated

-----------------------------------------------------------------------------
(* The calm server.                                                         *)

\* A step of the tools.
LEMMA ToolsOrderly ==
  ASSUME Orderly, UNCHANGED <<lost, phase, stopping, signals, call, at>>,
         pool' = pool \/ phase \notin {"atexit", "exited"},
         phase \in {"atexit", "exited"} =>
           \A r \in Req : worker'[r] = worker[r] \/ worker'[r] \in {"idle", "done"}
  PROVE  Orderly'
  BY DEF Orderly

\* Signals are not taken back.
LEMMA CalmBefore == IInv /\ [Next]_vars /\ Calm' => Calm
  <1> SUFFICES ASSUME IInv, [Next]_vars, Calm' PROVE Calm
    OBVIOUS
  <1>1. signals \in Nat
    BY ServerAssumption DEF IInv, MainInv, MainTypeOK, Level
  <1>2. signals' = signals \/ signals' = signals + 1
    BY DEF Next, LoopStep, SubmitConnect, SubmitOp, SubmitDisconnect, Submit, Reply, Cancel,
           WorkerStep, OpenOk, OpenFail, WorkerAcquire, WorkerInsert, WorkerGet, LockConn, OpDone,
           Discard, StartWork, MainStep, ReaperWake, MainAcquire, MainBody, MainCleanup,
           DisconnectReturn, StaleReturn, ShutdownStep, UvicornSignal, ServeReturns,
           DeliverSignal, HandlerExit, StdinEof, CancelTasks, StartAtexit, AtexitReturn,
           TimePasses, Terminated, vars, mainVars
  <1> QED
    BY <1>1, <1>2 DEF Calm

\* As long as the server stays calm, it stays orderly.
LEMMA StepOrderly == IInv /\ Making /\ Orderly /\ Calm /\ [Next]_vars /\ Calm' => Orderly'
  <1> SUFFICES ASSUME IInv, Making, Orderly, Calm, [Next]_vars, Calm' PROVE Orderly'
    OBVIOUS
  <1> USE LevelsAreThreads
  <1>0. /\ call \in [Level -> {"none", "disconnect", "stale", "all"}]
        /\ at \in [Level -> {"none", "want", "hold", "clean"}]
        /\ phase \in {"serving", "closing", "joining", "atexit", "exited"}
        /\ signals \in Nat /\ pool \subseteq Conn
        /\ worker \in [Req -> Working \cup {"idle", "queued", "done"}]
    BY ServerAssumption DEF IInv, MainInv, MainTypeOK, ToolInv, ToolTypeOK, ManagerTypeOK, Level
  <1>1. ASSUME NEW r \in Req, LoopStep(r) PROVE Orderly'
    <2>1. ASSUME NEW c \in Conn, SubmitDisconnect(r, c) PROVE Orderly'
      <3>1. /\ phase = "serving" /\ UNCHANGED <<lost, phase, stopping, signals, pool>>
            /\ \A i \in Level : call[i] = "none" /\ (i # 0 => call'[i] = "none")
        BY <1>0, <2>1 DEF SubmitDisconnect, Accepting, LoopRuns, NoFrames, Enter, managerVars
      <3> QED
        BY <3>1 DEF Orderly
    <2>2. CASE SubmitConnect(r) \/ (\E c \in Conn : SubmitOp(r, c)) \/ Reply(r) \/ Cancel(r)
      <3>1. phase = "serving" /\ UNCHANGED <<managerVars, mainVars>>
        BY <2>2 DEF SubmitConnect, SubmitOp, Submit, Accepting, LoopRuns, Reply, Cancel
      <3> QED
        BY <3>1, ToolsOrderly DEF managerVars, mainVars
    <2> QED
      BY <1>1, <2>1, <2>2 DEF LoopStep
  <1>2. ASSUME NEW r \in Req, WorkerStep(r) PROVE Orderly'
    <2>1. CASE Discard(r)
      <3>1. \A q \in Req : worker'[q] = worker[q] \/ worker'[q] = "idle"
        BY <1>0, <2>1 DEF Discard, Forget
      <3> QED
        BY <2>1, <3>1, ToolsOrderly DEF Discard, managerVars, mainVars
    <2>2. CASE ~Discard(r)
      <3>1. worker[r] \notin {"idle", "done"} /\ UNCHANGED <<mainVars, lost>>
        BY <1>2, <2>2
        DEF WorkerStep, OpenOk, Open, OpenFail, WorkerAcquire, Acquire, WorkerInsert, Insert,
            WorkerGet, Get, LockConn, OpDone, managerVars
      <3>2. phase \notin {"atexit", "exited"}
        BY <3>1 DEF Orderly
      <3> QED
        BY <3>1, <3>2, ToolsOrderly DEF mainVars
    <2> QED
      BY <2>1, <2>2
  <1>3. CASE StartWork
    <2>1. queue \in Seq(Req) /\ queue # <<>>
      BY <1>3 DEF StartWork, IInv, ToolInv, ToolTypeOK
    <2>2. 1 \in 1 .. Len(queue) /\ queue[1] \in Req
      BY <2>1
    <2>3. worker[queue[1]] = "queued"
      BY <2>2 DEF IInv, ToolInv, QueueInv
    <2>4. phase \notin {"atexit", "exited"}
      BY <2>2, <2>3 DEF Orderly
    <2> QED
      BY <1>3, <2>4, ToolsOrderly DEF StartWork, managerVars, mainVars
  <1>4. CASE MainStep
    <2>1. CASE ReaperWake
      <3>1. /\ phase = "serving" /\ UNCHANGED <<lost, phase, stopping, signals, pool>>
            /\ \A i \in Level : call[i] = "none" /\ (i # 0 => call'[i] = "none")
        BY <1>0, <2>1 DEF ReaperWake, LoopRuns, NoFrames, Enter, managerVars
      <3> QED
        BY <3>1 DEF Orderly
    <2>2. ASSUME NEW i \in Level, MainAcquire(i) PROVE Orderly'
      <3>1. /\ UNCHANGED <<toolVars, lost, phase, stopping, signals, pool, call>>
            /\ at'[0] = "clean" => at[0] = "clean"
        BY <1>0, <2>2 DEF MainAcquire, Acquire
      <3> QED
        BY <3>1 DEF Orderly, toolVars
    <2>3. ASSUME NEW i \in Level, MainBody(i) PROVE Orderly'
      <3>1. /\ UNCHANGED <<toolVars, lost, phase, stopping, signals, call>> /\ pool' \subseteq pool
            /\ call[i] = "all" => pool' = {}
            /\ call[i] # "none" /\ at' = [at EXCEPT ![i] = "clean"]
        BY <2>3 DEF MainBody, Top, DisconnectAll, DisconnectStale, Disconnect, Withdraw
      <3>2. phase = "atexit" => pool' = {} \/ at'[0] # "clean"
        <4>1. CASE i = 0
          BY <3>1, <4>1 DEF Orderly
        <4>2. CASE i # 0
          BY <3>1, <4>2 DEF Orderly
        <4> QED
          BY <4>1, <4>2
      <3> QED
        BY <3>1, <3>2 DEF Orderly, toolVars
    <2>4. ASSUME NEW i \in Level, NEW c \in Conn, MainCleanup(i, c) PROVE Orderly'
      BY <2>4, ToolsOrderly DEF MainCleanup, Cleanup, toolVars, mainVars
    <2>5. CASE StaleReturn \/ \E r \in Req : DisconnectReturn(r)
      <3>1. /\ UNCHANGED <<lost, phase, stopping, signals, pool>> /\ call[0] # "all"
            /\ call' = [j \in Level |-> IF j <= 0 THEN "none" ELSE call[j]]
        BY <2>5 DEF StaleReturn, DisconnectReturn, Leave, managerVars
      <3>2. \A q \in Req : worker'[q] = worker[q] \/ worker'[q] = "idle"
        BY <1>0, <2>5 DEF StaleReturn, DisconnectReturn, Forget, toolVars
      <3>3. \A j \in Level : call'[j] # "none" => call'[j] = call[j] /\ j # 0
        BY <3>1 DEF Level
      <3>4. phase # "atexit" /\ call'[0] = "none"
        BY <3>1 DEF Orderly, Level
      <3> QED
        BY <3>1, <3>2, <3>3, <3>4 DEF Orderly
    <2> QED
      BY <1>4, <2>1, <2>2, <2>3, <2>4, <2>5 DEF MainStep
  <1>5. CASE ShutdownStep
    <2>1. CASE UvicornSignal
      <3>1. /\ signals' # 0 /\ phase = "serving" /\ UNCHANGED <<lost, phase, pool, call, at>>
        BY <1>0, <2>1 DEF UvicornSignal, UvicornHandles, managerVars
      <3> QED
        BY <3>1 DEF Orderly
    <2>2. CASE ServeReturns
      <3>1. /\ signals # 0 /\ phase = "serving" /\ \A i \in Level : call[i] = "none"
            /\ UNCHANGED <<lost, phase, stopping, signals, pool>>
        BY <2>2 DEF ServeReturns, LoopRuns, NoFrames, managerVars, Orderly
      <3>2. \A i \in Level : i # 1 => call'[i] = "none"
        BY <1>0, <2>2, <3>1 DEF ServeReturns, Enter
      <3> QED
        BY <3>1, <3>2 DEF Orderly
    <2>3. ASSUME NEW i \in Level, DeliverSignal(i) PROVE FALSE
      <3>1. Transport = "http" /\ signals = 0
        BY <1>0, <2>3 DEF DeliverSignal, Calm
      <3> QED
        BY <2>3, <3>1 DEF DeliverSignal, UvicornHandles, Orderly
    <2>4. ASSUME NEW i \in Level, HandlerExit(i) PROVE Orderly'
      <3>1. i = 1 /\ phase = "serving" /\ call[0] = "none" /\ signals # 0
        BY <2>4 DEF HandlerExit, Finished, Top, Orderly
      <3>2. phase' = "closing" /\ UNCHANGED <<stopping, signals, pool>>
        BY <2>4, <3>1 DEF HandlerExit, Abandon, Interrupted
      <3>3. lost' = {}
        <4>1. \A j \in Level : j < i => j = 0
          BY <3>1 DEF Level
        <4>2. taken[0] = {}
          BY <3>1 DEF Making, IInv, MainInv, StackInv
        <4>3. lost' = lost \cup UNION {taken[j] : j \in {j \in Level : j < i}}
          BY <2>4 DEF HandlerExit, Abandon
        <4> QED
          BY <4>1, <4>2, <4>3 DEF Orderly
      <3>4. call' \in [Level -> {"none"}]
        BY <2>4, <3>1, AfterLeave DEF HandlerExit, Finished, IInv
      <3> QED
        BY <3>1, <3>2, <3>3, <3>4 DEF Orderly
    <2>5. CASE StdinEof
      <3>1. /\ Transport # "http" /\ phase' = "closing" /\ \A i \in Level : call'[i] = "none"
            /\ UNCHANGED <<lost, signals, pool>>
        BY <2>5 DEF StdinEof, LoopRuns, NoFrames, managerVars
      <3> QED
        BY <3>1 DEF Orderly
    <2>6. CASE CancelTasks
      <3>1. /\ phase = "closing" /\ phase' = "joining" /\ \A i \in Level : call'[i] = "none"
            /\ UNCHANGED <<lost, stopping, signals, pool>>
        BY <2>6 DEF CancelTasks, NoFrames, managerVars
      <3> QED
        BY <3>1 DEF Orderly
    <2>7. CASE StartAtexit
      <3>1. /\ phase = "joining" /\ phase' = "atexit" /\ call'[0] = "all" /\ at'[0] = "want"
            /\ \A i \in Level \ {0} : call'[i] = "none"
            /\ \A r \in Req : worker'[r] \in {"idle", "done"}
            /\ UNCHANGED <<lost, stopping, signals, pool>>
        BY <1>0, <2>7 DEF StartAtexit, NoFrames, Enter, managerVars, toolVars
      <3> QED
        BY <3>1 DEF Orderly
    <2>8. CASE AtexitReturn
      <3>1. /\ phase = "atexit" /\ phase' = "exited" /\ at[0] = "clean"
            /\ UNCHANGED <<lost, stopping, signals, pool, worker>>
            /\ \A i \in Level : call'[i] = "none"
        BY <2>8, AfterLeave DEF AtexitReturn, Finished, managerVars, toolVars, IInv
      <3> QED
        BY <3>1 DEF Orderly
    <2> QED
      BY <1>5, <2>1, <2>2, <2>3, <2>4, <2>5, <2>6, <2>7, <2>8 DEF ShutdownStep
  <1>6. CASE TimePasses
    BY <1>6, ToolsOrderly DEF TimePasses, Tick, toolVars
  <1>7. CASE UNCHANGED vars
    BY <1>7, ToolsOrderly DEF vars, managerVars, mainVars, toolVars
  <1> QED
    BY <1>1, <1>2, <1>3, <1>4, <1>5, <1>6, <1>7 DEF Next, Terminated

-----------------------------------------------------------------------------
(* The theorems.                                                            *)

\* The invariant of the server, with the owners of its connections.
ReleaseInv == IInv /\ OneOwner /\ Making /\ Disconnecting /\ (Calm => Orderly)

\* It holds at the start.
LEMMA ReleaseInit == Init => ReleaseInv
  <1> SUFFICES ASSUME Init PROVE ReleaseInv
    OBVIOUS
  <1>1. IInv /\ OneOwner
    BY ServerInitInv, InitOwned
  <1>2. Making
    BY LevelsAreThreads DEF Init, ManagerInit, Making
  <1>3. Disconnecting
    BY LevelsAreThreads DEF Init, ManagerInit, Disconnecting
  <1>4. Orderly
    BY LevelsAreThreads DEF Init, ManagerInit, Orderly
  <1> QED
    BY <1>1, <1>2, <1>3, <1>4 DEF ReleaseInv

\* The invariant is inductive.
LEMMA ReleaseStep == ReleaseInv /\ [Next]_vars => ReleaseInv'
  <1> SUFFICES ASSUME ReleaseInv, [Next]_vars PROVE ReleaseInv'
    OBVIOUS
  <1>1. OneOwner'
    BY ServerStepManager, StepOwned DEF ReleaseInv, IInv
  <1> QED
    BY <1>1, ServerStepInv, StepMaking, StepDisconnecting, CalmBefore, StepOrderly DEF ReleaseInv

\* When ixia_disconnect answers, the connection's cleanup has been done, whatever signals
\* came in between (session.py:93, client.py:152).
THEOREM DisconnectReleases == Spec => AnsweredMeansReleased
  <1>1. ReleaseInv => \A r \in Req : DisconnectReturn(r) => cleanup[arg[r]] # "no"
    BY DEF ReleaseInv, Disconnecting, DisconnectReturn, Finished
  <1>2. ReleaseInv /\ [Next]_vars
          => [\A r \in Req : DisconnectReturn(r) => cleanup[arg[r]] # "no"]_vars
    BY <1>1
  <1> QED
    BY <1>2, ReleaseInit, ReleaseStep, PTL DEF Spec, AnsweredMeansReleased

\* While the process serves, and until it exits unless a signal runs _shutdown_handler on
\* top of the main thread's work, no connection whose id a client was told is forgotten
\* (client.py:124, session.py:93; with such a signal it may be: server.py:114).
THEOREM KnownNotForgotten == Spec => [](phase = "serving" \/ Calm => KnownIsPooledOrReleased)
  <1>1. ReleaseInv => (phase = "serving" \/ Calm => KnownIsPooledOrReleased)
    <2> SUFFICES ASSUME ReleaseInv, phase = "serving" \/ Calm, NEW c \in known
                 PROVE  \/ c \in pool \/ c \in UNION {taken[i] : i \in Level}
                        \/ cleanup[c] # "no"
      BY DEF KnownIsPooledOrReleased
    <2>1. lost = {}
      BY DEF ReleaseInv, Orderly, Disconnecting
    <2> QED
      BY <2>1, KnownAccounted DEF ReleaseInv
  <1> QED
    BY <1>1, ReleaseInit, ReleaseStep, PTL DEF Spec

\* A process that no such signal hit leaves no session behind, those of connects under way
\* at shutdown included (server.py:114).
THEOREM CalmExitsClean == Spec => []CalmExitClean
  <1>1. ReleaseInv => (Calm => ExitClean)
    <2> SUFFICES ASSUME ReleaseInv, Calm, phase = "exited", NEW c \in Conn, sess[c] # NoSession,
                        cleanup[c] = "no"
                 PROVE  FALSE
      BY DEF ExitClean
    <2>1. c \notin pool /\ c \notin lost
      BY DEF ReleaseInv, Orderly
    <2>2. \A r \in Req : made[r] = {} /\ taken[r] = {}
      BY DEF ReleaseInv, Orderly, Making
    <2>3. \A i \in Level : made[i] = {} /\ taken[i] = {}
      BY DEF ReleaseInv, Making, IInv, MainInv, StackInv, NoFrames
    <2> QED
      BY <2>1, <2>2, <2>3, ServerAssumption DEF ReleaseInv, OneOwner, Accounted
  <1> QED
    BY <1>1, ReleaseInit, ReleaseStep, PTL DEF Spec, CalmExitClean

-----------------------------------------------------------------------------
(* What the reaper leaves alone.                                            *)

\* While the reaper is in disconnect_stale no signal handler runs on top of it: the
\* process serves HTTP, so that signals go to uvicorn.
ReaperAlone ==
  call[0] = "stale" =>
    Transport = "http" /\ phase = "serving" /\ \A i \in Level \ {0} : call[i] = "none"

\* Since its last use a connection has aged no more than the clock reading has.
UsedYoung ==
  call[0] = "stale" /\ at[0] \in {"want", "hold"} => \A c \in used \cap Conn : idle[c] <= lag

HistoryInv == IInv /\ OneOwner /\ Unaged /\ ReaperAlone /\ UsedYoung

\* Only the reaper enters disconnect_stale, from the event loop.
LEMMA StepAlone == IInv /\ ReaperAlone /\ [Next]_vars => ReaperAlone'
  <1> SUFFICES ASSUME IInv, ReaperAlone, [Next]_vars, call'[0] = "stale"
               PROVE  /\ Transport = "http" /\ phase' = "serving"
                      /\ \A i \in Level \ {0} : call'[i] = "none"
    BY DEF ReaperAlone
  <1>0. call \in [Level -> {"none", "disconnect", "stale", "all"}] /\ 0 \in Level
    BY LevelsAreThreads DEF IInv, MainInv, MainTypeOK
  <1>1. CASE UNCHANGED <<call, phase>>
    BY <1>1 DEF ReaperAlone
  <1>2. CASE ReaperWake
    BY <1>0, <1>2 DEF ReaperWake, Enter, LoopRuns, NoFrames
  <1>3. ASSUME NEW i \in Level, DeliverSignal(i)
        PROVE  FALSE
    <2>1. i # 0 /\ call'[0] = call[0]
      BY <1>0, <1>3 DEF DeliverSignal, Enter, Level
    <2> QED
      BY <1>3, <2>1 DEF ReaperAlone, DeliverSignal, UvicornHandles
  <1>4. ASSUME NEW i \in Level, HandlerExit(i)
        PROVE  FALSE
    <2>1. 0 < i /\ 0 <= i
      BY <1>4 DEF HandlerExit, Level
    <2> QED
      BY <1>0, <1>4, <2>1 DEF HandlerExit, Leave
  <1>5. CASE ServeReturns \/ StdinEof \/ CancelTasks \/ StartAtexit \/ AtexitReturn \/ StaleReturn
             \/ \E r \in Req : DisconnectReturn(r) \/ \E c \in Conn : SubmitDisconnect(r, c)
    <2>1. 1 # 0
      OBVIOUS
    <2> QED
      BY <1>0, <1>5, <2>1
      DEF ServeReturns, StdinEof, CancelTasks, StartAtexit, AtexitReturn, StaleReturn, DisconnectReturn,
          SubmitDisconnect, Accepting, LoopRuns, NoFrames, Enter, Leave
  <1>6. ASSUME NEW r \in Req, LoopStep(r) \/ WorkerStep(r),
               ~ \E c \in Conn : SubmitDisconnect(r, c)
        PROVE  UNCHANGED <<call, phase>>
    BY <1>6
    DEF LoopStep, SubmitConnect, SubmitOp, Submit, Reply, Cancel, mainVars,
        WorkerStep, OpenOk, OpenFail, WorkerAcquire, WorkerInsert, WorkerGet, LockConn, OpDone, Discard
  <1>7. CASE StartWork \/ UvicornSignal \/ TimePasses \/ Terminated \/ UNCHANGED vars
    <2>1. UNCHANGED <<call, phase>>
      BY <1>7 DEF StartWork, UvicornSignal, TimePasses, Terminated, vars, mainVars
    <2> QED
      BY <1>1, <2>1
  <1>8. ASSUME NEW i \in Level,
               MainAcquire(i) \/ MainBody(i) \/ \E c \in Conn : MainCleanup(i, c)
        PROVE  UNCHANGED <<call, phase>>
    BY <1>8 DEF MainAcquire, MainBody, MainCleanup, mainVars
  <1> QED
    BY <1>1, <1>2, <1>3, <1>4, <1>5, <1>6, <1>7, <1>8 DEF Next, MainStep, ShutdownStep

\* What is used while the reaper waits has not aged yet; time ages what was used before by
\* no more than it ages the reading.
LEMMA StepYoung ==
  IInv /\ Unaged /\ ReaperAlone /\ UsedYoung /\ [HistoryNext]_historyVars => UsedYoung'
  <1> SUFFICES ASSUME IInv, Unaged, ReaperAlone, UsedYoung, [HistoryNext]_historyVars,
                      call'[0] = "stale", at'[0] \in {"want", "hold"}, NEW c \in Conn, c \in used'
               PROVE  idle'[c] <= lag'
    BY DEF UsedYoung
  <1>0. /\ call \in [Level -> {"none", "disconnect", "stale", "all"}] /\ 0 \in Level
        /\ at \in [Level -> {"none", "want", "hold", "clean"}]
        /\ lag \in Nat /\ idle \in [Conn -> Nat]
    BY LevelsAreThreads, ManagerAssumption
    DEF IInv, MainInv, MainTypeOK, ManagerTypeOK, IdleCap
  <1>1. CASE UNCHANGED historyVars
    BY <1>1 DEF historyVars, vars, mainVars, managerVars, UsedYoung
  <1>2. CASE HistoryNext
    <2>1. call[0] = "stale" /\ c \in used \cup Stamped
      BY <1>2 DEF HistoryNext
    <2>2. phase = "serving" /\ Transport = "http" /\ \A i \in Level : call[i] # "none" => i = 0
      BY <2>1 DEF ReaperAlone
    <2>3. ~ LoopRuns
      BY <1>0, <2>1 DEF LoopRuns, NoFrames
    <2>4. ASSUME UNCHANGED <<idle, lag, sess>>, at[0] \in {"want", "hold"},
                 \A q \in Req : worker[q] = "hold" => worker'[q] # "wait"
          PROVE  idle'[c] <= lag'
      BY <2>1, <2>4 DEF Stamped, UsedYoung
    <2>5. CASE StartWork \/ UvicornSignal \/ Terminated
      <3>1. UNCHANGED <<idle, lag, sess, at>>
        BY <2>5 DEF StartWork, UvicornSignal, Terminated, vars, managerVars, mainVars
      <3>2. \A q \in Req : worker[q] = "hold" => worker'[q] # "wait"
        BY <2>5 DEF StartWork, WorkerAt, UvicornSignal, Terminated, vars, toolVars, IInv, ToolInv, ToolTypeOK
      <3> QED
        BY <2>4, <3>1, <3>2
    <2>6. ASSUME NEW r \in Req, WorkerStep(r)
          PROVE  idle'[c] <= lag'
      <3>0. worker \in [Req -> Working \cup {"idle", "queued", "done"}]
        BY DEF IInv, ToolInv, ToolTypeOK
      <3>1. UNCHANGED <<lag, at>>
        BY <2>6 DEF WorkerStep, OpenOk, OpenFail, WorkerAcquire, WorkerInsert, WorkerGet, LockConn, OpDone,
                    Discard, mainVars
      <3>2. ASSUME NEW d \in Conn, NEW s \in Session, OpenOk(r, d, s)
            PROVE  idle'[c] <= lag'
        <4>1. idle' = idle /\ Stamped \subseteq {d} /\ idle[d] = 0
          BY <3>0, <3>2 DEF OpenOk, Open, Stamped, Unaged, WorkerAt, IInv, ManagerTypeOK
        <4> QED
          BY <1>0, <2>1, <3>1, <4>1 DEF UsedYoung
      <3>3. CASE WorkerGet(r)
        <4>1. sess' = sess /\ Stamped \subseteq {arg[r]} \cap pool
          BY <3>0, <3>3 DEF WorkerGet, Get, Stamped, WorkerAt
        <4>2. \A d \in Conn : idle'[d] = IF d = arg[r] /\ d \in pool THEN 0 ELSE idle[d]
          BY <1>0, <3>3 DEF WorkerGet, Get
        <4> QED
          BY <1>0, <2>1, <3>1, <4>1, <4>2 DEF UsedYoung
      <3>4. CASE OpenFail(r) \/ WorkerAcquire(r) \/ WorkerInsert(r) \/ LockConn(r) \/ OpDone(r)
                 \/ Discard(r)
        <4>1. UNCHANGED <<idle, sess>>
          BY <3>4 DEF OpenFail, WorkerAcquire, Acquire, WorkerInsert, Insert, LockConn, OpDone, Discard,
                      managerVars
        <4>2. \A q \in Req : worker[q] = "hold" => worker'[q] # "wait"
          BY <3>0, <3>4 DEF OpenFail, WorkerAcquire, WorkerInsert, LockConn, OpDone, Discard, Forget, WorkerAt
        <4> QED
          BY <2>4, <3>1, <4>1, <4>2
      <3> QED
        BY <2>6, <3>2, <3>3, <3>4 DEF WorkerStep
    <2>7. ASSUME NEW i \in Level,
                 MainAcquire(i) \/ MainBody(i) \/ \E d \in Conn : MainCleanup(i, d)
          PROVE  idle'[c] <= lag'
      <3>1. i = 0
        BY <2>2, <2>7 DEF MainAcquire, MainBody, MainCleanup, Top
      <3>2. MainAcquire(0)
        BY <1>0, <2>7, <3>1 DEF MainBody, MainCleanup, mainVars
      <3>3. at[0] = "want" /\ UNCHANGED <<idle, lag, sess, worker>>
        BY <3>2 DEF MainAcquire, Acquire, toolVars
      <3> QED
        BY <2>4, <3>3
    <2>8. CASE TimePasses
      <3>1. at[0] \in {"want", "hold"} /\ lag' = lag + 1 /\ UNCHANGED <<sess, worker>>
        BY <2>1, <2>8 DEF TimePasses, Tick, toolVars
      <3>2. idle'[c] \in Nat /\ idle'[c] <= idle[c] + 1
        BY <1>0, <2>8, ManagerAssumption DEF TimePasses, Tick, Older, IdleCap
      <3>3. c \in used
        BY <2>1, <3>1 DEF Stamped
      <3>4. idle[c] <= lag
        BY <2>1, <3>1, <3>3 DEF UsedYoung
      <3> QED
        BY <1>0, <3>1, <3>2, <3>4
    <2>9. ASSUME NEW r \in Req, LoopStep(r) \/ DisconnectReturn(r)
          PROVE  FALSE
      BY <2>1, <2>3, <2>9
      DEF LoopStep, SubmitConnect, SubmitOp, Submit, SubmitDisconnect, Accepting, Reply, Cancel, DisconnectReturn
    <2>10. ASSUME NEW i \in Level, DeliverSignal(i) \/ HandlerExit(i)
           PROVE  FALSE
      <3>1. CASE DeliverSignal(i)
        BY <2>2, <3>1 DEF DeliverSignal, UvicornHandles
      <3>2. CASE HandlerExit(i)
        BY <2>2, <3>2 DEF HandlerExit, Finished, Top, Level
      <3> QED
        BY <2>10, <3>1, <3>2
    <2>11. ~ (ReaperWake \/ ServeReturns \/ StdinEof \/ CancelTasks \/ StartAtexit \/ AtexitReturn)
      BY <2>2, <2>3 DEF ReaperWake, ServeReturns, StdinEof, CancelTasks, StartAtexit, AtexitReturn
    <2>12. ~ StaleReturn
      BY <1>0 DEF StaleReturn, Leave
    <2> QED
      BY <1>2, <2>5, <2>6, <2>7, <2>8, <2>9, <2>10, <2>11, <2>12
      DEF HistoryNext, Next, MainStep, ShutdownStep
  <1> QED
    BY <1>1, <1>2

\* The history changes nothing of the server.
LEMMA HistoryStep == [HistoryNext]_historyVars => [Next]_vars
  BY DEF HistoryNext, historyVars

\* Whatever tool calls do while the reaper waits for the lock, it removes none of the
\* connections they have built or looked up (client.py:170, 174).
THEOREM ReaperSpares == HistorySpec => ReaperSparesUsed
  <1>1. HistoryInit => HistoryInv
    <2>1. Init => IInv /\ OneOwner
      BY ServerInitInv, InitOwned
    <2>2. Init => Unaged /\ call[0] = "none"
      BY LevelsAreThreads DEF Init, ManagerInit, Unaged
    <2> QED
      BY <2>1, <2>2 DEF HistoryInit, HistoryInv, ReaperAlone, UsedYoung
  <1>2. HistoryInv /\ [HistoryNext]_historyVars => HistoryInv'
    <2> SUFFICES ASSUME HistoryInv, [HistoryNext]_historyVars PROVE HistoryInv'
      OBVIOUS
    <2>1. [Next]_vars
      BY HistoryStep
    <2>2. OneOwner' /\ Unaged'
      BY <2>1, ServerStepManager, StepOwned, StepUnaged DEF HistoryInv, IInv
    <2> QED
      BY <2>1, <2>2, ServerStepInv, StepAlone, StepYoung DEF HistoryInv
  <1>3. ASSUME HistoryInv, call[0] = "stale", MainBody(0)
        PROVE  used \cap pool \subseteq pool'
    <2>1. at[0] = "hold" /\ DisconnectStale(0, lag)
      BY <1>3 DEF MainBody
    <2>2. \A c \in used \cap Conn : idle[c] <= lag
      BY <1>3, <2>1 DEF HistoryInv, UsedYoung
    <2>3. pool \subseteq Conn /\ lag \in Nat /\ idle \in [Conn -> Nat] /\ MaxIdle \in Nat
      BY <1>3, ManagerAssumption DEF HistoryInv, IInv, MainInv, MainTypeOK, ManagerTypeOK, IdleCap
    <2>4. pool' = pool \ Expired(lag)
      BY <2>1 DEF DisconnectStale, Withdraw
    <2> QED
      BY <2>2, <2>3, <2>4 DEF Expired
  <1>4. HistoryInv => [call[0] = "stale" /\ MainBody(0) => used \cap pool \subseteq pool']_historyVars
    BY <1>3
  <1> QED
    BY <1>1, <1>2, <1>4, PTL DEF HistorySpec, ReaperSparesUsed

=============================================================================
