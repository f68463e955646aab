SPECIFICATION FairSpec
CONSTANTS
  NumTasks = 3
  Waiters = {1}
  MayPanic = TRUE
  ParentMayCancel = FALSE
PROPERTIES NoDeadlock
CHECK_DEADLOCK FALSE
