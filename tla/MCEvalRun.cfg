SPECIFICATION FairSpec
CONSTANTS
  NumCases = 2
  NumSamples = 2
  MaxToggles = 3
INVARIANTS AnnouncedIsStored CompletedIsComplete CancelStopsSamples TerminalEventLast
PROPERTIES RunReturns
CHECK_DEADLOCK FALSE
