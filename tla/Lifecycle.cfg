SPECIFICATION FairLifecycleSpec
CONSTANTS
    Calls = {c1, c2}
    Names = {0, 1}
    Threads = {t1, t2}
    Stuck = {t2}
    MaxNotifs = 3
INVARIANTS
    NothingIsLeft
    CloseTellsTruth
    TurnsAreSound
PROPERTIES
    EveryWaitEnds
CHECK_DEADLOCK FALSE
