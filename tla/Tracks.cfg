CONSTANTS
    Participants = {p1, p2}
    NoKey = NoKey
    Never = Never
    MaxAttach = 2
    MaxTotal = 3
    MaxTime = 4
    MaxReloads = 1
    MaxLost = 1
SPECIFICATION FairSpec
CHECK_DEADLOCK FALSE
INVARIANTS
    SpansTrue
    FilesApart
    AudioListed
    StopComplete
PROPERTIES
    StopReturns
