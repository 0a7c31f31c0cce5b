\* stdio, two signals: handlers interrupt the main thread anywhere, and each other.
CONSTANTS
  r1 = r1
  r2 = r2
  Conn = {c1, c2}
  Session = {s1}
  Req <- MCReq
  Thread <- MCThread
  Transport = "stdio"
  MaxWorkers = 2
  MaxSignals = 2
  MaxIdle = 0
  MaxLag = 0
  NoThread = NoThread
  NoSession = NoSession
  NoReq = NoReq
  NoConn = NoConn
SPECIFICATION Spec
SYMMETRY MCSymmetry
INVARIANTS
  OpsSerialised
  NoLeakedLock
  CalmExitClean
