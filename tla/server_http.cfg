\* HTTP, one signal: two requests, two connections, the reaper's clock may lag,
\* with the history of what is used while the reaper waits.
CONSTANTS
  r1 = r1
  r2 = r2
  Conn = {c1, c2}
  Session = {s1}
  Req <- MCReq
  Thread <- MCThread
  Transport = "http"
  MaxWorkers = 2
  MaxSignals = 1
  MaxIdle = 0
  MaxLag = 1
  NoThread = NoThread
  NoSession = NoSession
  NoReq = NoReq
  NoConn = NoConn
SPECIFICATION HistorySpec
SYMMETRY MCSymmetry
INVARIANTS
  ServerTypeOK
  KnownIsPooledOrReleased
  ExitClean
PROPERTIES
  AnsweredMeansReleased
  ImplementsManager
  ReaperSparesUsed
