SPECIFICATION Spec
CONSTANTS
  t1 = t1
  t2 = t2
  t3 = t3
  Threads = {t1, t2, t3}
  None = None
  Spinners = {t1}
  Monitors = {1, 2, 3}
  MaxMonitors = 3
  MaxDepth = 3
  Hashes = {h1, h2}
  Scenarios <- All
INVARIANTS MutualExclusion NoStranding QueuesAgree MonitorsAccounted HashStable Asserts
SYMMETRY Symmetry
