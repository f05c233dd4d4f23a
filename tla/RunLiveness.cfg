SPECIFICATION FairSpec
CONSTANTS
    Runs = {r1, r2}
    NoRun = NoRun
    Interactive = {}
    Terminal = {}
    MaxOutput = 0
    MaxInput = 0
    MaxRequests = 1
    SockCap = 4
PROPERTIES
    HelperDeathEndsCalls
    AbandonedRunFreesSlot
CHECK_DEADLOCK FALSE
