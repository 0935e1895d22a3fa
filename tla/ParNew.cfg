SPECIFICATION Spec
CONSTANTS
  n_threads = 2
  a = a
  b = b
  c = c
  d = d
  Tasks = {a, b, c, d}
  N = 4
  Tags = 8
  None = None
  GangWorkers = {g1, g2}
  MaxTasks = 2
  Scenarios <- MCScenarios
  NTasks = 1
  NJavaThreads = 1
  TrimSize = 1
  Desired = 2
  StealTries = 1
  MaxSteals = 1
  BUSY = BUSY
SYMMETRY Symmetry
INVARIANTS ScannedOnce TerminatesWhenDone CopiedWhole Asserts
