SPECIFICATION FairSpec
CONSTANTS
  film = film
  store = store
  Blank = Blank
  NoBarcode = NoBarcode
  NoOwner = NoOwner
  NoBatch = NoBatch
  RollBarcode = RollBarcode
  Items <- MCItems
  Warehouses <- MCWarehouses
  Owners = {o1}
  ReceiptRequests <- MCReceiptRequests
  BatchRequests <- MCBatchRequests
  Grosses <- MCGrosses
  SplitRequests <- MCSplitRequests
  Salt <- MCSalt
  MinQty = 1
  RollQty = 2
  MaxEntries = 3
  MaxJobs = 2
  MaxClock = 2
  MaxEvents = 2
  MaxFaults = 1
  ClockBits = 4
  WordBits = 16
INVARIANTS
  TypeOK
  BookedStockIsLabelled
  NumbersAreUnique
  SplitsConserve
PROPERTIES
  QuietAfterStop
  JobsAreSettled
CHECK_DEADLOCK FALSE
