------------------------------- MODULE MCHost -------------------------------
(***************************************************************************)
(* Model-checking instances of what the manager does for the payloads.  A  *)
(* behaviour explores one part: the requests of payloads while sandboxes   *)
(* come and go under one name ("requests") or the certificates of          *)
(* interception ("certs").  The other part's variables are 0.  MCServices  *)
(* adds the decisions the manager takes from a policy, and its log.        *)
(***************************************************************************)
EXTENDS Naturals

CONSTANTS
    Requests, MaxGen, Kinds, DefaultPolicy, ManagerMode, \* ManagerServices
    Tick, Lifetime, MaxServed                           \* MITMCerts

\* The kinds of request that reach the manager, one callback for each.
ASSUME KindsAssumption == Kinds \subseteq {"http", "mitm", "connect", "dns"}

VARIABLES
    part,
    sandboxes, registry, requests, sent, log,
    clock, ca, leafCache, serials, served

requestVars == <<sandboxes, registry, requests, log>>
certVars == <<ca, leafCache, serials, served>>
vars == <<part, requestVars, sent, clock, certVars>>

Services == INSTANCE ManagerServices

Certs == INSTANCE MITMCerts

RequestsOff == sandboxes = 0 /\ registry = 0 /\ requests = 0 /\ log = 0
CertsOff == ca = 0 /\ leafCache = 0 /\ serials = 0 /\ served = 0

Init ==
    \/ part = "requests" /\ Services!Init /\ clock = 0 /\ CertsOff
    \/ part = "certs" /\ Certs!Init /\ sent = 0 /\ RequestsOff

Next ==
    \/ part = "requests" /\ Services!Next /\ UNCHANGED <<part, clock, certVars>>
    \/ part = "certs" /\ Certs!Next /\ UNCHANGED <<part, sent, requestVars>>

Spec == Init /\ [][Next]_vars

-----------------------------------------------------------------------------
\* Nothing goes out that the policy of the payload's own sandbox denies:
\* ManagerServices.
OwnPolicyRules == part = "requests" => Services!OwnPolicyRules

\* The log says of a request what happened to it, and whoever got an answer is in
\* the audit state of their sandbox: ManagerServices.
AuditIsTrue == part = "requests" => Services!EventTellsOutcome /\ Services!AnsweredIsAudited

\* All connections to a host get the same leaf, for that host: MITMCerts.
OneLeafPerHost == part = "certs" => Certs!OneLeafPerHost
=============================================================================
