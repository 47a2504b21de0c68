SPECIFICATION Spec
CONSTANTS
  Gone = Gone
  Instances <- MCInstances
  MaxOpen = 2
  MaxFaults = 1
INVARIANTS
  AnswersAreRecent
  FallbackAgrees
PROPERTIES
  CatchesUp
CHECK_DEADLOCK FALSE
