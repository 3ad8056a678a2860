SPECIFICATION Spec
CONSTANTS
    MaxEvents = 2
    MaxAttempts = 1
    PendingCeiling = 2
    DlqCeiling = 2
    EventType <- TwoTypes
    FilterChoices <- AllEvents
    MaxReplays = 0
    MaxFaults = 0
    MaxNotices = 0
INVARIANTS NoEventDropped
