CONSTANTS
  m = m  a = a
  VM = VM  FREE = FREE
  JavaThreads <- MainAndOne
  Initial <- JustMain
  Main = m
  Scenarios <- Plain
SPECIFICATION FairSpec
PROPERTY SafepointEnds
