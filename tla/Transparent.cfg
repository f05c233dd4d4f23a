SPECIFICATION Spec
INVARIANTS
    HelperExact
    AddressesAreKept
    NoReplyLost
    OriginIsTrue
    

    
CHECK_DEADLOCK FALSE
