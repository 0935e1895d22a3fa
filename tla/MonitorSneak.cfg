CONSTANTS
  t1 = t1  t2 = t2  t3 = t3
  NULL = NULL  LBIT = LBIT
  Threads <- MCThreads
  JavaThreads = {t2, t3}
  VMThreads = {t1}
  Calls <- SafepointCalls
  NativeMonitorFlags = {}
  NativeMonitorTimeout = FALSE
SPECIFICATION Spec
INVARIANT ExeuntLocked
