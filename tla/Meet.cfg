CONSTANTS
    JoinTimeout = 4
    EmptyGrace = 2
    MaxDuration = 4
    Reclick = 2
    Reknock = 3
    CaptionTries = 2
    MaxSignals = 2
    MaxOthers = 1
    Never = Never
    Unknown = Unknown
SPECIFICATION FairSpec
CHECK_DEADLOCK FALSE
INVARIANTS
    EmptyRoomJustified
    ResultIsComplete
    SignalFinalizes
PROPERTIES
    TilesKeepTheCall
    KnocksSpaced
    Terminates
