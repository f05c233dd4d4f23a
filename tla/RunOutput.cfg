SPECIFICATION Spec
CONSTANTS
    Runs = {r1, r2}
    NoRun = NoRun
    Interactive = {}
    Terminal = {}
    MaxOutput = 1
    MaxInput = 0
    MaxRequests = 0
    SockCap = 4
INVARIANT
    OutputIsCaptured
CHECK_DEADLOCK FALSE
