CONSTANTS
  j1 = j1  j2 = j2  w = w
  VM = VM  FREE = FREE  None = None
  Requesters <- All
  JavaRequesters <- Java
  Modes <- MCModes
  QueueLimit = 2
SPECIFICATION FairSpec
INVARIANTS ExactlyOnceInOrder OopsReached ReturnsAfterEvaluation
PROPERTIES Served Terminates
CHECK_DEADLOCK FALSE
