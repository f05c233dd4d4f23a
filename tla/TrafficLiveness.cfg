SPECIFICATION FairBridgeSpec
CONSTANTS
    t1 = t1
    Parts = {"one", "trips"}
    Tunnels = {t1, t2}
    RecvCap = 1
    DeliveryCap = 1
    MaxUp = 1
    MaxDown = 0
    SockCap = 1
    Faults = {"io", "timeout", "close", "exit"}
    Conns = {c1}
    Slots = {}
    Flows = {"mitm"}
    MITMEnabled = TRUE
    MaxTrips = 2
    TripCap = 1
PROPERTIES
    
    HandshakeEnds
CHECK_DEADLOCK FALSE
