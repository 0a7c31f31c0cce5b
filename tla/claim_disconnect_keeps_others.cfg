\* tests/test_client.py:170.
CONSTANTS
  r1 = r1
  r2 = r2
  Conn = {c1, c2}
  Session = {s1, s2}
  Req <- MCReq
  Thread <- MCThread
  Transport = "http"
  MaxWorkers = 2
  MaxSignals = 0
  MaxIdle = 5
  MaxLag = 0
  NoThread = NoThread
  NoSession = NoSession
  NoReq = NoReq
  NoConn = NoConn
SPECIFICATION Spec
PROPERTY DisconnectKeepsOthers
