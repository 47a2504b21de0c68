SPECIFICATION Spec
CONSTANTS
  Handlers = {h1, h2}
  None = None
  t0 = t0
  t1 = t1
  Mixes <- MCMixes
  Tokens <- MCTokens
  OldToken = t0
  Ttl = 2
  Suppliers <- MCSuppliers
  Customers <- MCCustomers
  Absentees <- MCAbsentees
  Items = {"i1"}
  Codes = {"a", "b", "c"}
  Phones = {"p1", "p2"}
  FirstPhone = "p1"
  Window = 2
  MaxCodeRegens = 2
  Capabilities <- MCCapabilities
  CustomRoles = {"custom"}
  Names = {"", "Ali"}
  People = {"p1", "p2"}
  Devices = {"d0", "d1"}
  OldDevice = "d0"
  OldOwner = "p1"
  Groups = {"g1", "g2", "g3"}
  Root = "root"
  FirstTree <- MCTree
  FirstGroups = {}
  GroupItems = {"i1"}
SYMMETRY Alike
INVARIANTS
  TypeOK
  SessionsEndProperly
  AcknowledgedHolds
  RegenBudget
PROPERTIES
  BarredStaysOut
CHECK_DEADLOCK FALSE
