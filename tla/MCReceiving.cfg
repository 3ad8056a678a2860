CONSTANTS
  ann = ann
  root = root
  NULL = NULL
  Workers = {ann}
  Admins = {root}
  Rank <- MCRank
  Batches = {}
  MaxTasks = 3
  BatchTypeLists <- NoTypeLists
  LooseTypes <- Receiving
  Priorities <- NearTop
  TypeRequests <- AnyGranted
  GrantChoices <- ReceiveOnly
  AvailabilityChoices <- OnOrBreak
  EstimatedMinutes <- MCMinutes
  MaxClock = 0
  MaxSkew = 0
  MaxDrafts = 2
  LineCounts = {2}
SPECIFICATION CountSpec
INVARIANTS ReviewedAreFinished OnlyRecountsWaitOffDuty OneRecountPerRejection
