SPECIFICATION Spec
CONSTANTS
  None = None
  s1 = s1
  s2 = s2
  c1 = c1
  c2 = c2
  barcode = barcode
  Handlers = {h1, h2}
  Suppliers = {s1, s2}
  Barred = {s2}
  Linked = {s1, s2}
  Assigned = {s1}
  LinksReadable = TRUE
  Customers = {c1, c2}
  Quantities = {2}
  Decisions <- MCDecisions
  IssueRequests <- MCIssueRequests
  Responses <- MCResponses
  DirectDb = FALSE
  SearchLimit = 1
  HistoryLimit = 3
  MaxRequests = 3
  MaxReceipts = 2
  MaxNotes = 2
  MaxFaults = 1
  MaxDesk = 1
SYMMETRY Alike
INVARIANTS
  TypeOK
  NeverMoreThanSent
  SourceIssuedOnce
  BookedIsVisible
  StateBackedByReturn
  ListsAddUp
  ViewsAgree
PROPERTIES
  ConfirmIsWhole
  FailedIssueLeavesNothing
  AnswerIsSeenByAll
CHECK_DEADLOCK FALSE
