CONSTANTS
  t1 = t1  t2 = t2  t3 = t3
  NULL = NULL  LBIT = LBIT
  Threads <- MCThreads
  JavaThreads = {}
  VMThreads = {}
  Calls <- SmallCalls
  NativeMonitorFlags = {}
  NativeMonitorTimeout = FALSE
SPECIFICATION FairSpec
PROPERTIES ImplementsMonitor QueueDiscipline Progress
