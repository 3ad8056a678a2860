CONSTANTS
  ann = ann
  bob = bob
  b1 = b1
  r1 = r1
  r2 = r2
  NULL = NULL
  AUDIT = AUDIT
  Workers = {ann, bob}
  Tasks = {1, 2, 3}
  TaskType <- MCTypes
  TaskBatch <- MCBatches
  Requests = {r1, r2}
  Programs <- Everyone
SPECIFICATION RequestsSpec
INVARIANTS LastTaskCompletesBatch DeadlocksExplained
PROPERTIES ClaimsOnce EveryRequestAnswered
