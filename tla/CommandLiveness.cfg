SPECIFICATION FairSpec
CONSTANT Parts = {"resize", "builds", "staging"}
INVARIANTS
    BuildsAreServed
    RootIsExact
PROPERTIES
    
    EverythingEnds
CHECK_DEADLOCK FALSE
