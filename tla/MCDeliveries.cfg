SPECIFICATION Spec
CONSTANTS
    MaxEvents = 2
    MaxAttempts = 2
    PendingCeiling = 2
    DlqCeiling = 1
    EventType <- TwoTypes
    FilterChoices <- AllEvents
    MaxReplays = 1
    MaxFaults = 1
    MaxNotices = 1
INVARIANTS NothingAbandoned OneLiveRow PauseHolds PurgeWaits
PROPERTIES InOrder
