\* Two operators share the press.
CONSTANTS
  press = press
  press2 = press2
  lam = lam
  lamA = lamA
  wpress = wpress
  wpress2 = wpress2
  wlam = wlam
  NoStation = NoStation
  NoSequence = NoSequence
  Orders <- MCOrders
  Stations = {press, lam}
  Workers = {wpress, wpress2}
  Planners = {}
  Matches <- OneTitleEach
  Assigned <- SharedAssigned
  Blocked = {}
  MoveAllowed = {}
  MoveLists = {}
  Saves <- Resaves
  SequenceKeys = {}
  SequenceChoices <- ChainChoices
  InitialMaps <- BothListed
  InitialRoutes <- MCRoutes
  InitialSequences <- ChainInitialSequences
SPECIFICATION NormalSpec
PROPERTIES
  ActsOnActionable
