CONSTANTS
  t1 = t1  t2 = t2  t3 = t3
  NULL = NULL  LBIT = LBIT
  Threads <- MCThreads
  JavaThreads = {t2, t3}
  VMThreads = {t1}
  Calls <- SafepointCalls
  NativeMonitorFlags = {1, 16}
  NativeMonitorTimeout = TRUE
SPECIFICATION Spec
INVARIANTS LockByteHeld MutualExclusion Asserts OnExactlyOneList Succeeded
