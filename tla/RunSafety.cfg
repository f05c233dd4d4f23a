SPECIFICATION Spec
CONSTANTS
    Runs = {r1, r2}
    NoRun = NoRun
    Interactive = {r1}
    Terminal = {r1}
    MaxOutput = 1
    MaxInput = 0
    MaxRequests = 0
    SockCap = 3
INVARIANTS
    ResultIsOwn
    SlotTracksCommand
    ChannelsNeverBlock
    RunInv
    PtyOutputComplete
PROPERTY
    ImplementsRunService
CHECK_DEADLOCK FALSE
