SPECIFICATION Spec
CONSTANTS
    Runs = {r1, r2}
    NoRun = NoRun
    Interactive = {r1, r2}
    Terminal = {r1}
    MaxOutput = 0
    MaxInput = 1
    MaxRequests = 0
    SockCap = 2
INVARIANTS
    StdinIsContiguous
CHECK_DEADLOCK FALSE
