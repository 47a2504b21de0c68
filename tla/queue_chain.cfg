\* One operator per apparatus, no faults: the queue against its promise.
CONSTANTS
  press = press
  press2 = press2
  lam = lam
  lamA = lamA
  wpress = wpress
  wpress2 = wpress2
  wlam = wlam
  NoStation = NoStation
  NoSequence = NoSequence
  Orders <- MCOrders
  Plan <- MCPlan
  Stations = {press, lam, lamA}
  Workers = {wpress, wlam}
  Planners = {}
  Matches <- LamAlias
  Assigned <- ChainAssigned
  Blocked = {}
  MoveAllowed = {}
  MoveLists = {}
  Saves <- Resaves
  SequenceKeys <- ChainKeys
  SequenceChoices <- ChainChoices
  InitialMaps <- BothListed
  InitialRoutes <- MCRoutes
  InitialSequences <- ChainInitialSequences
SPECIFICATION NormalSpec
INVARIANTS
  TypeOK
  WorkedInSequence
  CanProceed
  OneKeyPerApparatus
PROPERTIES
  ProgressIsKept
  ImplementsLedger
