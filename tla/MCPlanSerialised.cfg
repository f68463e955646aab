SPECIFICATION FairPlanSpec
CONSTANTS
  e1 = e1
  e2 = e2
  e3 = e3
  Gates = {e1, e2, e3}
  Decisions = {"approve", "reject", "revise"}
  Bodies = {b1, b2}
  Requires <- MixedPolicies
  Serialised = TRUE
  KvMayFail = TRUE
  MaxRestarts = 1
INVARIANTS ConsentedDispatch ConsentedRecord DispatchedOnce OutcomeOnRecord
PROPERTIES StatusForward ExecutingFinishes
CHECK_DEADLOCK FALSE
