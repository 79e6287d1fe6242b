CONSTANTS
    Jobs = {j1}
    NoJob = NoJob
    Nobody = Nobody
    Webhook = FALSE
    Retention = TRUE
    MaxGen = 2
    MaxDup = 0
    MaxLives = 1
    SaveFaults = 0
    CallFaults = 0
    PostFaults = 0
SPECIFICATION Spec
CHECK_DEADLOCK FALSE
PROPERTIES
    SweepSparesRecording
