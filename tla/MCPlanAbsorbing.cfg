SPECIFICATION PlanSpec
CONSTANTS
  e1 = e1
  e2 = e2
  e3 = e3
  Gates = {e1, e2}
  Decisions = {"approve", "reject", "revise"}
  Bodies = {b1}
  Requires <- AlwaysPolicies
  Serialised = FALSE
  KvMayFail = FALSE
  MaxRestarts = 0
PROPERTIES StatusForward
CHECK_DEADLOCK FALSE
