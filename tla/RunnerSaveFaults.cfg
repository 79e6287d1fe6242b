CONSTANTS
    Jobs = {j1}
    NoJob = NoJob
    Nobody = Nobody
    Webhook = TRUE
    Retention = FALSE
    MaxGen = 2
    MaxDup = 0
    MaxLives = 2
    SaveFaults = 1
    CallFaults = 0
    PostFaults = 1
SPECIFICATION Spec
CHECK_DEADLOCK FALSE
INVARIANTS
    OneRecorder
    StampedWasDelivered
    SignalledOnce
    NoneMissed
    StopSettles
PROPERTIES
    ImplementsJobLife
