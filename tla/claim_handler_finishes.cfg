\* client.py:156 under stdio.
CONSTANTS
  r1 = r1
  r2 = r2
  Conn = {c1}
  Session = {s1}
  Req <- MCReq
  Thread <- MCThread
  Transport = "stdio"
  MaxWorkers = 2
  MaxSignals = 1
  MaxIdle = 0
  MaxLag = 0
  NoThread = NoThread
  NoSession = NoSession
  NoReq = NoReq
  NoConn = NoConn
SPECIFICATION LoopFairSpec
PROPERTY MainThreadReturns
