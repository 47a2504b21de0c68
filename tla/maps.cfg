\* Maps compiled, moved and run, and the live feed.  A quiet store and a
\* connected feed rest.
SPECIFICATION Spec
CONSTANTS
  Colors <- MCColors
  Laminators <- MCLaminators
  NodeIds <- MCNodeIds
  Names <- MCNames
  InitialMaps <- MCInitialMaps
  Drafts <- MCDrafts
  Moves <- MCMoves
  Sequences <- MCSequences
  Tables <- MCTables
  Feeds = {operator}
  Inputs <- MCInputs
  Answers <- MCAnswers
  Capacity = 1
  MaxWrites = 2
  MaxErrors = 1
  MaxConnects = 1
PROPERTIES
  RunFollowsProgram
  FeedsCatchUp
CHECK_DEADLOCK FALSE
