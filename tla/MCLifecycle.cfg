CONSTANTS
  ann = ann
  bob = bob
  root = root
  b1 = b1
  NULL = NULL
  Workers = {ann}
  Admins = {root}
  Rank <- MCRankOne
  Batches = {b1}
  MaxTasks = 3
  BatchTypeLists <- PackNotes
  LooseTypes <- Receiving
  Priorities <- OnePriority
  TypeRequests <- ReceivingOrAll
  GrantChoices <- NonePickAll
  AvailabilityChoices <- OnOrBreak
  EstimatedMinutes <- MCMinutes
  MaxClock = 3
  MaxSkew = 1
SPECIFICATION ShiftSpec
INVARIANTS TypeOK TimeAccounting ClocksAgree OneActivePerWorker BatchAgrees ScanGate
PROPERTIES AttributionStable ClaimsOnce ClaimsGranted
CONSTRAINT BoundedSeconds
