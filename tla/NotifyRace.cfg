SPECIFICATION Spec
CONSTANTS
  t1 = t1
  t2 = t2
  t3 = t3
  Threads = {t1, t2, t3}
  None = None
  Spinners = {}
  Monitors = {1, 2, 3}
  MaxMonitors = 3
  MaxDepth = 1
  Hashes = {h1}
  Scenarios <- Interrupted
INVARIANT NotifyPrecedence
