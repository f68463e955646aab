SPECIFICATION FairSpec
CONSTANTS
  NumTasks = 3
  Waiters = {1, 3}
  MayPanic = TRUE
  ParentMayCancel = TRUE
INVARIANTS Containment NothingSwallowed
PROPERTIES NurseryReturns
CHECK_DEADLOCK FALSE
