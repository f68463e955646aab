CONSTANTS
  MaxCalls = 2
  InnerCap = 1
  OutCap = 1
  Stateful = {"entry"}
SPECIFICATION FairSpec
INVARIANTS FailureReported RememberedSucceeded QuietAfterEnd
PROPERTIES CancelStopsAgents
CHECK_DEADLOCK FALSE
