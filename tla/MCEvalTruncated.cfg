SPECIFICATION Spec
CONSTANTS
  NumCases = 2
  NumSamples = 2
  MaxToggles = 0
INVARIANTS CompletedHasAllSamples
CHECK_DEADLOCK FALSE
