SPECIFICATION FairSpec
CONSTANTS
  Gates = {g1}
  Calls = {c1, c2}
  Decisions = {"approve", "reject", "revise"}
  GuardedEmits = 2
  MaxCrashes = 2
INVARIANTS
  AnnouncedIsAnswerable OneWinner PassedWithConsent
  GateReleasesEntry AuditTruthful SweepLeavesNoOrphan
PROPERTIES ImplementsContract TerminalAuditStable GateReturns
CHECK_DEADLOCK FALSE
