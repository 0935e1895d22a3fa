SPECIFICATION Spec
CONSTANTS
  t1 = t1  t2 = t2  t3 = t3
  o1 = o1  o2 = o2
  Threads = {t1, t2, t3}
  Objects = {o1, o2}
  None = None
  Epochs = 3
  RebiasLimit = 2
  RevokeLimit = 3
  MaxDepth = 2
  Programs <- MCPrograms
SYMMETRY Symmetry
INVARIANTS LockRecords Asserts
PROPERTY RevokedForGood
