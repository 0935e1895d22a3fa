CONSTANTS
  me = me  u1 = u1  u2 = u2  u3 = u3
  t1 = t1  t2 = t2
  e1 = e1  e2 = e2  e3 = e3  e4 = e4
  Self = me
  Unparkers <- MCUnparkers
  FREE = FREE
  NULL = NULL
  Threads <- MCThreads
  Events <- MCEvents
  MaxInUse = 3
SPECIFICATION ParkingSpec
INVARIANTS NoLostWakeup NoLostPermit InterruptSeen OnePlace
PROPERTIES ImplementsEvent Wakeup ParkReturns LockFree
