---------------------------- MODULE DockerSocket -----------------------------
(***************************************************************************)
(* The Docker socket proxy of a sandbox: how a request is mapped to an     *)
(* operation (docker_socket_mapping.go), a build inspected                 *)
(* (docker_socket_build.go), the ordered rules consulted                   *)
(* (docker_socket_policy.go) and the request refused or forwarded to the   *)
(* daemon (docker_socket_proxy.go).  One request is served, then the same  *)
(* request once more after one thing about it, or the policy, has changed. *)
(***************************************************************************)
EXTENDS Integers, Sequences, FiniteSets, FiniteSetsExt

CONSTANTS MaxRules   \* rules of a policy

VARIABLES req, policy, mode, variant, phase, events, sent

vars == <<req, policy, mode, variant, phase, events, sent>>

\* A path is the sequence of its segments, "v" a version prefix and a final ""
\* a trailing slash.
Paths ==
  {<<"build">>, <<"build", "">>, <<"images", "create">>, <<"images", "json">>, <<"images", "x", "json">>,
   <<"containers", "x", "exec">>, <<"exec", "x", "start">>, <<"containers", "x", "archive">>,
   <<"containers", "create">>, <<"v", "build">>, <<>>}

NoBuild == [dockerfile |-> "unset", remote |-> FALSE, export |-> "none", body |-> "none"]

\* The query and the body of a build: the body is a tar archive with these
\* files, or something else.
Builds ==
  {b \in [dockerfile : {"unset", "docker/x", "../x"}, remote : BOOLEAN, export : {"none", "falsey", "export", "bad"},
          body : {"none", "Dockerfile", "docker/x", "garbled", "toolarge", "readerror"}] :
     b.dockerfile = "../x" \/ b.export \in {"falsey", "bad"} => ~ b.remote /\ b.body = "Dockerfile"}

DockerRequests ==
  {[method |-> meth, path |-> p, build |-> NoBuild] : meth \in {"GET", "POST"}, p \in Paths}
  \cup {[method |-> "POST", path |-> <<"build">>, build |-> b] : b \in Builds}

\* Rules as they are configured; an empty dimension matches everything.
Rules ==
  [action : {"allow", "deny"}, operations : {{}, {"build", "exec_start"}},
   paths : {{}, {<<"build">>, <<"containers", "create">>}}, build : {"any", "present", "local_only", "approved"}]

\* The rules that are added to a policy.
AddedRules == {r \in Rules : r.build \in {"any", "local_only"}}

normalizeDockerRuleAction(action) == IF action = "" THEN "deny" ELSE action

hasDockerSocketPolicyOverride(p) == p.defaultAction # "" \/ p.rules # <<>>

\* The policy of the manager holds for a sandbox that brings none.
effectiveDockerSocketConfig(manager, sandbox) ==
  LET p == IF hasDockerSocketPolicyOverride(sandbox) THEN sandbox ELSE manager
  IN [p EXCEPT !.defaultAction = normalizeDockerRuleAction(@)]

----------------------------------------------------------------------------
(* Mapping.                                                                *)
TrimSlashes(path) ==
  LET last == Max({0} \cup {i \in 1..Len(path) : path[i] # ""}) IN SubSeq(path, 1, last)

normalizeDockerAPIPath(path) ==
  TrimSlashes(IF path # <<>> /\ path[1] = "v" THEN Tail(path) ELSE path)

matchPathPattern(path, pattern) ==
  /\ Len(path) = Len(pattern)
  /\ \A i \in 1..Len(path) : IF pattern[i] = "*" THEN path[i] # "" ELSE path[i] = pattern[i]

mapDockerRequest(r) ==
  LET path == normalizeDockerAPIPath(r.path)
      is(method, pattern) == r.method = method /\ matchPathPattern(path, pattern)
  IN CASE is("POST", <<"images", "create">>) -> "image_pull"
       [] r.method = "GET" /\ Len(path) >= 3 /\ path[1] = "images" /\ path[Len(path)] = "json" -> "image_inspect"
       [] is("POST", <<"build">>) -> "build"
       [] is("POST", <<"containers", "*", "exec">>) -> "exec_create"
       [] is("POST", <<"exec", "*", "start">>) -> "exec_start"
       [] is("GET", <<"containers", "*", "archive">>) -> "archive_read"
       [] OTHER -> "unknown"

isPhase1DockerOperationSupported(op) == op \in {"image_pull", "image_inspect", "build"}

----------------------------------------------------------------------------
(* Inspection of a build.                                                  *)
normalizeDockerBuildPath(p) == CASE p = "unset" -> "Dockerfile" [] p = "../x" -> "" [] OTHER -> p

\* setDockerBuildBodyKind: what the query and the body declare must agree.
bodyKinds(b) ==
  (IF b.remote THEN {"remote"} ELSE {}) \cup (IF b.export = "export" THEN {"export"} ELSE {})
    \cup (IF b.body # "none" THEN {"tar"} ELSE {})

validateDockerBuildContextBody(b) ==
  b.body \in {"none", normalizeDockerBuildPath(b.dockerfile)}

\* The inspected request, or nothing.
inspectDockerBuildRequest(b) ==
  IF /\ normalizeDockerBuildPath(b.dockerfile) # ""
     /\ b.export # "bad"
     /\ validateDockerBuildContextBody(b)
     /\ Cardinality(bodyKinds(b)) = 1
  THEN {[dockerfile |-> normalizeDockerBuildPath(b.dockerfile), remote |-> b.remote,
         kind |-> CHOOSE k \in bodyKinds(b) : TRUE]}
  ELSE {}

----------------------------------------------------------------------------
(* The rules: a Build matcher needs a build; local_only wants an archive,  *)
(* "approved" stands for a list of patterns that match docker/x.           *)
matchesBuild(matcher, build) ==
  \/ matcher = "any"
  \/ /\ build # {}
     /\ \A b \in build :
          CASE matcher = "present" -> TRUE
            [] matcher = "local_only" -> ~ b.remote /\ b.kind = "tar"
            [] matcher = "approved" -> b.dockerfile = "docker/x"

matches(rule, op, path, build) ==
  /\ rule.operations # {} => op \in rule.operations
  /\ rule.paths # {} => path \in rule.paths
  /\ matchesBuild(rule.build, build)

\* Mutant: the last rule that matches decides.
evaluateLast(p, op, path, build) ==
  LET hits == {i \in 1..Len(p.rules) : matches(p.rules[i], op, path, build)}
  IN IF hits = {} THEN p.defaultAction ELSE p.rules[Max(hits)].action

evaluate(p, op, path, build) ==
  LET hits == {i \in 1..Len(p.rules) : matches(p.rules[i], op, path, build)}
  IN IF hits = {} THEN p.defaultAction ELSE p.rules[Min(hits)].action

----------------------------------------------------------------------------
(* Serving.                                                                *)
Policies ==
  LET rules == UNION {[1..n -> Rules] : n \in 0..MaxRules}
      manager == [defaultAction |-> "", rules |-> <<>>]
  IN {effectiveDockerSocketConfig(manager, [defaultAction |-> d, rules |-> r]) : d \in {"", "allow"}, r \in rules}

Init ==
  /\ req \in DockerRequests
  /\ policy \in Policies
  /\ mode = "enforce"
  /\ variant = "none"
  /\ phase = 1
  /\ events = <<>>
  /\ sent = <<>>

\* serveDockerSocketProxy up to its verdict: what the policy thinks, and
\* whether the request is refused whatever the mode.
verdict(r, p) ==
  LET op == mapDockerRequest(r)
      build == IF op = "build" THEN inspectDockerBuildRequest(r.build) ELSE {}
      refused == [refused |-> TRUE, allowed |-> FALSE]
  IN CASE ~ isPhase1DockerOperationSupported(op) -> refused
       [] op = "build" /\ r.build.body \in {"toolarge", "readerror"} -> refused
       [] op = "build" /\ build = {} -> refused
       [] OTHER -> [refused |-> FALSE,
                    allowed |-> evaluate(p, op, normalizeDockerAPIPath(r.path), build) = "allow"]

Record(result, v) ==
  events' = Append(events, [result |-> result, allowed |-> result # "denied", policyAllowed |-> v.allowed])

\* The denied are answered and recorded without a call; the others are
\* forwarded, and recorded by how the call ended.
serveDockerSocketProxy ==
  /\ phase \in {1, 3}
  /\ LET v == verdict(req, policy)
     IN IF v.refused \/ (~ v.allowed /\ mode # "audit")
        THEN Record("denied", v) /\ sent' = Append(sent, FALSE)
        ELSE /\ sent' = Append(sent, TRUE)
             /\ \E result \in {"allowed", "upstream_error"} : Record(result, v)
  /\ phase' = phase + 1
  /\ UNCHANGED <<req, policy, mode, variant>>

Vary(name) == phase = 2 /\ phase' = 3 /\ variant' = name /\ UNCHANGED <<events, sent>>

\* The client asks for another version of the API.
AddVersion ==
  /\ Vary("version")
  /\ req.path # <<>> => req.path[1] # "v"
  /\ req' = [req EXCEPT !.path = <<"v">> \o @]
  /\ UNCHANGED <<policy, mode>>

AppendRule ==
  /\ Vary("append")
  /\ \E rule \in AddedRules : policy' = [policy EXCEPT !.rules = Append(@, rule)]
  /\ UNCHANGED <<req, mode>>

PrependRule ==
  /\ Vary("prepend")
  /\ \E rule \in AddedRules : policy' = [policy EXCEPT !.rules = <<rule>> \o @]
  /\ UNCHANGED <<req, mode>>

\* The sandbox is created in audit mode instead.
Audit ==
  /\ Vary("audit")
  /\ mode' = "audit"
  /\ UNCHANGED <<req, policy>>

Next == serveDockerSocketProxy \/ AddVersion \/ AppendRule \/ PrependRule \/ Audit

Spec == Init /\ [][Next]_vars

----------------------------------------------------------------------------
Twice == phase = 4

(* The version a client puts before the path changes nothing of what        *)
(* becomes of its request.                                                  *)
VersionIsIgnored == Twice /\ variant = "version" => sent[1] = sent[2]

(* The first rule that matches decides: a rule appended to the policy only  *)
(* matters for requests that had come to the default action, and a rule put *)
(* in front never turns a verdict into the opposite of its own action.      *)
RulesAreOrdered ==
  Twice =>
    /\ variant = "append" /\ sent[1] # sent[2] =>
         sent[1] = (policy.defaultAction = "allow") /\ sent[2] = (policy.rules[Len(policy.rules)].action = "allow")
    /\ variant = "prepend" /\ sent[1] # sent[2] => sent[2] = (Head(policy.rules).action = "allow")

(* Audit mode lets through what a policy denies, and nothing that the proxy *)
(* cannot judge: what was sent in enforce mode is still sent, and each      *)
(* request sent for the audit alone is recorded as one the policy denies.   *)
AuditOnlyRelaxes ==
  Twice /\ variant = "audit" =>
    /\ sent[1] => sent[2]
    /\ ~ sent[1] /\ sent[2] => ~ events[2].policyAllowed /\ events[2].allowed

(* What does not map to a supported operation, and a build that cannot be   *)
(* read, held, or understood, never reaches the daemon, whatever the rules  *)
(* and the mode.                                                            *)
FailsClosed ==
  phase \in {2, 4} /\ sent[Len(sent)] =>
    /\ mapDockerRequest(req) \in {"image_pull", "image_inspect", "build"}
    /\ mapDockerRequest(req) = "build" =>
         /\ req.build.dockerfile # "../x"
         /\ req.build.body \in {"none", "Dockerfile", "docker/x"}
         /\ ~ (req.build.remote /\ req.build.export = "export")

=============================================================================
