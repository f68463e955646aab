SPECIFICATION FairSpec
CONSTANTS
  Emitters = {"run", "child"}
  Capacity = 2
  MaxEvents = 5
  MaxConnects = 3
INVARIANTS SequenceOrder NoGap
PROPERTIES CatchesUp
CHECK_DEADLOCK FALSE
