\* Torn writes, failed reads, restarts and moves: nothing wedges.
CONSTANTS
  press = press
  press2 = press2
  lam = lam
  lamA = lamA
  wpress = wpress
  wpress2 = wpress2
  wlam = wlam
  NoStation = NoStation
  NoSequence = NoSequence
  Orders <- MCOrders
  Stations = {press, press2, lam}
  Workers = {wpress, wlam}
  Planners = {planner}
  Matches <- OneTitleEach
  Assigned <- FaultAssigned
  Blocked = {}
  MoveAllowed <- PressMoves
  MoveLists <- BatchMove
  Saves <- Syncs
  SequenceKeys = {}
  SequenceChoices = {}
  InitialMaps <- NothingListed
  InitialRoutes <- FaultRoutes
  InitialSequences <- NoInitialSequences
SPECIFICATION Spec
INVARIANTS
  CanProceed
PROPERTIES
  ProgressIsEarned
