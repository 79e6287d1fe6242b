CONSTANTS
    Jobs = {j1}
    NoJob = NoJob
    Nobody = Nobody
    Webhook = TRUE
    Retention = TRUE
    MaxGen = 1
    MaxDup = 0
    MaxLives = 2
    SaveFaults = 0
    CallFaults = 1
    PostFaults = 1
SPECIFICATION FairSpec
CHECK_DEADLOCK FALSE
PROPERTIES
    RecordingEnds
    FinishedIsDelivered
