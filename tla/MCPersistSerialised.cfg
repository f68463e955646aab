SPECIFICATION Spec
CONSTANTS
  Callers = {c1, c2}
  Bodies = {b1}
  Serialised = TRUE
  KvMayFail = TRUE
  TtlMayFire = TRUE
  MaxCalls = 6
INVARIANTS ObserverFollowsRecord
PROPERTIES StatusMonotone RecoveryNeedsTwoFaults
CHECK_DEADLOCK FALSE
