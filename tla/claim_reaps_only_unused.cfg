\* client.py:165.
CONSTANTS
  r1 = r1
  r2 = r2
  Conn = {c1}
  Session = {s1}
  Req <- MCReq
  Thread <- MCThread
  Transport = "http"
  MaxWorkers = 2
  MaxSignals = 0
  MaxIdle = 0
  MaxLag = 0
  NoThread = NoThread
  NoSession = NoSession
  NoReq = NoReq
  NoConn = NoConn
SPECIFICATION Spec
PROPERTY ReapsOnlyUnused
