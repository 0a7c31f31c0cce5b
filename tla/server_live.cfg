\* Liveness of the HTTP server, with and without calls to IxNetwork that hang.
CONSTANTS
  r1 = r1
  r2 = r2
  Conn = {c1}
  Session = {s1}
  Req <- MCReq
  Thread <- MCThread
  Transport = "http"
  MaxWorkers = 2
  MaxSignals = 1
  MaxIdle = 0
  MaxLag = 0
  NoThread = NoThread
  NoSession = NoSession
  NoReq = NoReq
  NoConn = NoConn
SPECIFICATION LoopFairSpec
PROPERTIES
  MainThreadReturns
  IdleReclaimed
  OrphansReclaimed
  RequestsAnswered
  ShutdownCompletes
