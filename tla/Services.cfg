SPECIFICATION HostSpec
CONSTANTS
    PolicyRules = 2
    Requests = {r1}
    MaxGen = 3
    Kinds = {"http", "mitm", "connect", "dns"}
    DefaultPolicy = {"a"}
    ManagerMode = "enforce"
    Tasks = {t1, t2}
    Tick = 12
    Lifetime = 192
    MaxServed = 3
    DockerRules = 1
INVARIANTS
    OwnPolicyRules
    AuditIsTrue
    LogIsExact
    
    DockerVerdictsAgree

    
CHECK_DEADLOCK FALSE
