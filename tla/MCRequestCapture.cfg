CONSTANTS
  MaxCalls = 2
  InnerCap = 3
  OutCap = 4
  Stateful = {"delegate"}
SPECIFICATION CSpec
INVARIANT CapturedOnce
CHECK_DEADLOCK FALSE
