CONSTANTS
  m = m  a = a  r1 = r1
  VM = VM  FREE = FREE
  JavaThreads <- MainAndOne
  Initial <- JustMain
  Main = m
  Scenarios <- MCScenarios
  Readers <- MCReaders
SPECIFICATION FGSpec
INVARIANTS StopTheWorld Assertions FastGetConsistent
