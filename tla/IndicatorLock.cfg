CONSTANTS
    Msgs = {m1, m2}
    Callers = {c1, c2, c3}
    Objects = {o1, o2, o3}
    NoMsg = NoMsg
    NoCaller = NoCaller
    Nil = Nil
SPECIFICATION FairSpec
CHECK_DEADLOCK FALSE
INVARIANTS
    MutualExclusion
    EntryLifetime
PROPERTIES
    ImplementsMutex
    QueuedGetsLock
