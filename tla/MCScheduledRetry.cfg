SPECIFICATION RFairSpec
CONSTANTS
  NumTokens = 2
  Controllers = {k1, k2}
  MaxToggles = 4
  Uses <- SmallUses
  Milli = 2
  MaxTime = 2
INVARIANTS WakeupsKept CheckpointHonoured CancelStopsAttempts SleepsEnough AttemptsGranted
PROPERTIES TokenWaitersReturn SleepEnds
CHECK_DEADLOCK FALSE
