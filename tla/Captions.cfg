CONSTANTS
    Long = 3
    Settle = 2
    MaxPolls = 5
    MaxFailed = 1
    MaxIds = 2
    MaxTurns = 3
SPECIFICATION Spec
CHECK_DEADLOCK FALSE
INVARIANTS
    TypeOK
    AllSaidOnce
    HintsInOrder
