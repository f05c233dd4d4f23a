SPECIFICATION BridgeSpec
CONSTANTS
    t1 = t1
    Parts = {"one", "closing", "pair", "trips"}
    Tunnels = {t1, t2}
    RecvCap = 1
    DeliveryCap = 1
    MaxUp = 3
    MaxDown = 0
    SockCap = 1
    Faults = {"io", "timeout", "exit"}
    Conns = {c1}
    Slots = {q1}
    Flows = {"mitm", "tls", "http", "opaque"}
    MITMEnabled = TRUE
    MaxTrips = 3
    TripCap = 1
INVARIANTS
    TunnelLifetime
    TripsAreMatched
    AuthorizedFirst
PROPERTIES
    ImplementsStreams
CHECK_DEADLOCK FALSE
