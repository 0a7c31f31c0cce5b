\* Three connections, three threads, two sessions; a connection expires after two
\* ticks and the clock reading of disconnect_stale may be one tick old.
CONSTANTS
  Conn = {c1, c2, c3}
  Thread = {t1, t2, t3}
  Session = {s1, s2}
  MaxIdle = 1
  MaxLag = 1
  NoThread = NoThread
  NoSession = NoSession
SPECIFICATION ManagerSpec
SYMMETRY MCSymmetry
INVARIANTS
  ManagerTypeOK
  OneOwner
PROPERTIES
  ImplementsLifecycle
