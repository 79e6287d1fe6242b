CONSTANTS
    Jobs = {j1}
    NoJob = NoJob
    Nobody = Nobody
    Webhook = TRUE
    Retention = FALSE
    MaxGen = 2
    MaxDup = 1
    MaxLives = 2
    SaveFaults = 0
    CallFaults = 0
    PostFaults = 1
SPECIFICATION Spec
CHECK_DEADLOCK FALSE
INVARIANTS
    RecordingRegistered
    NotedIsSettled
    IndicatorTruthful
    OneEnding
