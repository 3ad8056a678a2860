CONSTANTS
  ann = ann
  bob = bob
  root = root
  b1 = b1
  NULL = NULL
  Workers = {ann, bob}
  Admins = {root}
  Rank <- MCRank
  Batches = {b1}
  MaxTasks = 3
  BatchTypeLists <- PackNote
  LooseTypes <- Receiving
  Priorities <- OnePriority
  TypeRequests <- AnyGranted
  GrantChoices <- PickOrAll
  AvailabilityChoices <- OnOrBreak
  EstimatedMinutes <- MCMinutes
  MaxClock = 0
  MaxSkew = 0
SPECIFICATION DispatchSpec
INVARIANTS CrossCheck AssigneesOnDuty DispatchIsLoop DispatchExhaustive
