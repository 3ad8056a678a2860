CONSTANTS
  ann = ann
  bob = bob
  root = root
  b1 = b1
  NULL = NULL
  Workers = {ann, bob}
  Admins = {root}
  Rank <- MCRank
  Batches = {b1}
  MaxTasks = 2
  BatchTypeLists <- PackNote
  LooseTypes <- PickAgain
  Priorities <- OnePriority
  TypeRequests <- AnyGranted
  GrantChoices <- PickAndPack
  AvailabilityChoices <- AlwaysOn
  EstimatedMinutes <- MCMinutes
  MaxClock = 0
  MaxSkew = 0
  MaxCases = 2
SPECIFICATION ESpec
INVARIANTS ChargedForOwnStage
