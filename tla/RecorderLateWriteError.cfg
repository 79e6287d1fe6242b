CONSTANTS
    JoinTimeout = 2
    EmptyGrace = 2
    MaxDuration = 5
    MaxSignals = 2
    MaxMembers = 2
    Never = Never
SPECIFICATION Spec
INVARIANTS
    WriteErrorReported
CHECK_DEADLOCK FALSE
