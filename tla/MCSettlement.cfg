SPECIFICATION FairSpec
CONSTANTS
    MaxEvents = 2
    MaxAttempts = 2
    PendingCeiling = 2
    DlqCeiling = 1
    EventType <- TwoTypes
    FilterChoices <- AllOrShipments
    MaxReplays = 0
    MaxFaults = 1
    MaxNotices = 1
PROPERTIES EventuallySettled
