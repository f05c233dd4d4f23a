----------------------------- MODULE MCServices -----------------------------
(***************************************************************************)
(* Model-checking instances of the services of the manager: those of       *)
(* MCHost, and what a network policy says to a visit ("policy"), the log   *)
(* and the audit state ("log") and the docker socket proxy ("docker").     *)
(***************************************************************************)
EXTENDS MCHost

CONSTANTS
    PolicyRules,   \* Policy
    Tasks,         \* AccessLog
    DockerRules    \* DockerSocket

VARIABLES
    rules, visit, verdicts,
    tasks, registered, audit, deferOutput, entries, lines, closing,
    req, policy, mode, variant, phase, events

policyVars == <<rules, visit, verdicts>>
logVars == <<tasks, registered, audit, deferOutput, entries, lines, closing>>
dockerVars == <<req, policy, mode, variant, phase, events>>
hostVars == <<vars, policyVars, logVars, dockerVars>>

Rules == INSTANCE Policy WITH MaxRules <- PolicyRules

Log == INSTANCE AccessLog

Docker == INSTANCE DockerSocket WITH MaxRules <- DockerRules

PolicyOff == rules = 0 /\ visit = 0 /\ verdicts = 0
LogOff == /\ tasks = 0 /\ registered = 0 /\ audit = 0 /\ deferOutput = 0 /\ entries = 0 /\ lines = 0
          /\ closing = 0
DockerOff == req = 0 /\ policy = 0 /\ mode = 0 /\ variant = 0 /\ phase = 0 /\ events = 0

HostInit ==
    \/ Init /\ PolicyOff /\ LogOff /\ DockerOff
    \/ /\ part \in {"policy", "log", "docker"} /\ RequestsOff /\ CertsOff
       /\ IF part = "policy" THEN Rules!Init ELSE PolicyOff
       /\ IF part = "log" THEN Log!Init ELSE LogOff /\ clock = 0
       /\ IF part = "docker" THEN Docker!Init ELSE DockerOff /\ sent = 0

HostNext ==
    \/ Next /\ UNCHANGED <<policyVars, logVars, dockerVars>>
    \/ /\ part = "policy" /\ Rules!Next
       /\ UNCHANGED <<vars, logVars, dockerVars>>
    \/ /\ part = "log" /\ Log!Next
       /\ UNCHANGED <<part, requestVars, sent, certVars, policyVars, dockerVars>>
    \/ /\ part = "docker" /\ Docker!Next
       /\ UNCHANGED <<part, requestVars, clock, certVars, policyVars, logVars>>

HostSpec == HostInit /\ [][HostNext]_hostVars

-----------------------------------------------------------------------------
\* The evaluations of one visit do not contradict each other, a request refused
\* for the size of its body is allowed with some body, and adding a rule denies
\* nothing that was allowed: Policy.
PolicyIsCoherent ==
    /\ [](part = "policy" => Rules!StagesAgree /\ Rules!SizeIsTheOnlyObstacle)
    /\ [][part = "policy" => \A q \in DOMAIN verdicts : verdicts[q].allowed => verdicts'[q].allowed]_hostVars

\* The views of a sandbox's accesses tell the same story, and the lines written
\* and held back are the logged events, once each: AccessLog.
LogIsExact == part = "log" => Log!ViewsAgree /\ Log!LinesAreExact

\* The verdicts on variants of one request fit together: the API version changes
\* nothing, the first rule that matches decides, audit mode lets through only
\* what the policy denies, and what the proxy cannot judge is never forwarded:
\* DockerSocket.
DockerVerdictsAgree ==
    part = "docker" =>
        /\ Docker!VersionIsIgnored /\ Docker!RulesAreOrdered
        /\ Docker!AuditOnlyRelaxes /\ Docker!FailsClosed
=============================================================================
