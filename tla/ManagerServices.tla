--------------------------- MODULE ManagerServices ---------------------------
(***************************************************************************)
(* The host side of mediation: manager.go, the proxy, CONNECT and DNS      *)
(* services, the registry and the recording of access events.  Sandboxes   *)
(* of the same name follow one another; the handlers of their requests are *)
(* goroutines nobody waits for, and they find policy, mode and audit state *)
(* by the name of the sandbox, in separate lookups.                        *)
(***************************************************************************)
EXTENDS Integers, Sequences, FiniteSets

CONSTANTS Requests,       \* requests of payloads, each served by a goroutine
          MaxGen,         \* sandboxes created under the one name
          Kinds,          \* kinds of request looked at
          DefaultPolicy,  \* ProxyOptions.NetworkPolicy: the hosts it allows
          ManagerMode     \* ProxyOptions.PolicyMode

VARIABLES sandboxes,  \* sandboxes[g]: phase and options of the g-th sandbox
          registry,   \* sandboxRegistry, and the audit state of the name
          requests,   \* requests[r]: how far its handler is
          sent,       \* what went out: request and host
          log         \* entries given to the AccessLogger

vars == <<sandboxes, registry, requests, sent, log>>

Gens == 1..MaxGen

\* SandboxOptions: the hosts Policy allows (none: a zero Policy), PolicyMode
\* ("" inherits) and TrafficMode.
Options ==
  {[policy |-> {"a"}, mode |-> "", traffic |-> "proxy"],
   [policy |-> {"a", "b"}, mode |-> "enforce", traffic |-> "transparent"],
   [policy |-> {}, mode |-> "audit", traffic |-> "transparent"],
   [policy |-> {}, mode |-> "enforce", traffic |-> "proxy"]}

\* What a request is about, and what is unusual about it.
Inputs ==
  {in \in [kind : Kinds, hosts : {<<"a">>, <<"b">>, <<"a", "b">>},
           what : {"ok", "badurl", "toolarge", "mismatch", "noauthority", "badquery", "garbled"}] :
     /\ Len(in.hosts) = 2 => in.kind = "dns"
     /\ in.what # "ok" => in.hosts = <<"a">>
     /\ in.what = "badurl" => in.kind = "http"
     /\ in.what = "toolarge" => in.kind \in {"http", "mitm"}
     /\ in.what \in {"mismatch", "noauthority"} => in.kind = "mitm"
     /\ in.what \in {"badquery", "garbled"} => in.kind = "dns"}

\* Before NewSandbox, and before a request arrives.
NoSandbox == [phase |-> "none", opts |-> [policy |-> {}, mode |-> "", traffic |-> "proxy"], cancelled |-> FALSE]
NoRequest ==
  [pc |-> "idle", gen |-> 0, in |-> [kind |-> "none", hosts |-> <<>>, what |-> "ok"],
   policy |-> {}, mode |-> "", events |-> <<>>, next |-> "", answer |-> ""]

effectiveMode(opts) == IF opts.mode = "" THEN ManagerMode ELSE opts.mode

Init ==
  /\ sandboxes = [g \in Gens |-> NoSandbox]
  /\ registry = [policy |-> 0, sandbox |-> 0, audit |-> {}]
  /\ requests = [r \in Requests |-> NoRequest]
  /\ sent = {}
  /\ log = {}

Become(g, phase) == sandboxes' = [sandboxes EXCEPT ![g].phase = phase]

\* NewSandbox up to registerSandbox: the policy is the compiled one of the
\* options, and the audit state of the name starts empty.
Register(g) ==
  /\ sandboxes[g].phase = "none"
  /\ \A h \in Gens : h < g => sandboxes[h].phase = "closed"
  /\ \E opts \in Options :
        sandboxes' = [sandboxes EXCEPT ![g] = [phase |-> "registered", opts |-> opts, cancelled |-> FALSE]]
  /\ registry.policy = 0
  /\ registry' = [policy |-> g, sandbox |-> 0, audit |-> {}]
  /\ UNCHANGED <<requests, sent, log>>

Attach(g) ==
  /\ sandboxes[g].phase = "registered"
  /\ Become(g, "attached")
  /\ registry' = [registry EXCEPT !.sandbox = g]
  /\ UNCHANGED <<requests, sent, log>>

\* Sandbox.Close: the runtime is closed, which cancels the context of the
\* handlers, and only then the sandbox is unregistered.
StopRuntime(g) ==
  /\ sandboxes[g].phase = "attached"
  /\ sandboxes' = [sandboxes EXCEPT ![g].phase = "stopped", ![g].cancelled = TRUE]
  /\ UNCHANGED <<registry, requests, sent, log>>

\* Mutant: Close unregisters the sandbox and leaves the runtime for later.
UnregisterFirst(g) ==
  /\ sandboxes[g].phase \in {"attached", "stopped"}
  /\ Become(g, "closed")
  /\ registry' = [policy |-> 0, sandbox |-> 0, audit |-> {}]
  /\ UNCHANGED <<requests, sent, log>>

Unregister(g) ==
  /\ sandboxes[g].phase = "stopped"
  /\ Become(g, "closed")
  /\ registry' = [policy |-> 0, sandbox |-> 0, audit |-> {}]
  /\ UNCHANGED <<requests, sent, log>>

----------------------------------------------------------------------------
(* One request.                                                            *)
Set(r, f) == requests' = [requests EXCEPT ![r] = f]

\* The steps a handler takes: it returns an answer, sends the request out, or
\* records events and then goes on with next, an answer or "forward".
Finish(req, answer) == [req EXCEPT !.pc = "done", !.answer = answer]
Forward(req) == [req EXCEPT !.pc = "forward"]
Record(req, evs, next) == [req EXCEPT !.pc = "record", !.events = evs, !.next = next]

Arrive(r) ==
  /\ requests[r].pc = "idle"
  /\ \E g \in Gens, in \in Inputs :
        /\ sandboxes[g].phase = "attached"
        /\ Set(r, [requests[r] EXCEPT !.pc = "policy", !.gen = g, !.in = in])
  /\ UNCHANGED <<sandboxes, registry, sent, log>>

policyForSandbox(r) ==
  /\ requests[r].pc = "policy"
  /\ Set(r, IF registry.policy = 0 THEN Finish(requests[r], "error")
            ELSE [requests[r] EXCEPT !.pc = "mode", !.policy = sandboxes[registry.policy].opts.policy])
  /\ UNCHANGED <<sandboxes, registry, sent, log>>

policyModeForSandbox(r) ==
  /\ requests[r].pc = "mode"
  /\ Set(r, [requests[r] EXCEPT
               !.pc = "decide",
               !.mode = IF registry.sandbox = 0 THEN ManagerMode
                        ELSE effectiveMode(sandboxes[registry.sandbox].opts)])
  /\ UNCHANGED <<sandboxes, registry, sent, log>>

event(req, host, result) ==
  [host |-> host, result |-> result, allowed |-> host \in req.policy /\ req.in.what # "noauthority"]

\* The events of a request that gets this result, one for each host.
eventsFor(req, result) == [i \in 1..Len(req.in.hosts) |-> event(req, req.in.hosts[i], result)]

Refuse(req) == Record(req, eventsFor(req, "denied"), "denied")

\* What the policy and its mode say: in audit mode nothing is denied.
blocked(req) == ~ eventsFor(req, "")[1].allowed /\ req.mode # "audit"

HandleProxyRequest(req) ==
  IF req.in.what = "badurl" THEN Finish(req, "error")
  ELSE IF req.in.what = "toolarge" \/ blocked(req) THEN Refuse(req) ELSE Forward(req)

\* A body too large, a host that is not the authority's, and a missing
\* authority are refused in audit mode too.
HandleMITMRequest(req) == IF req.in.what # "ok" \/ blocked(req) THEN Refuse(req) ELSE Forward(req)

\* The event of an allowed CONNECT is recorded before the dial.
HandleConnectRequest(req) ==
  IF blocked(req) THEN Refuse(req) ELSE Record(req, eventsFor(req, "allowed"), "forward")

\* The places of the hosts of a lookup that are denied.
deniedHosts(req) ==
  {i \in 1..Len(req.in.hosts) : req.in.hosts[i] \notin req.policy /\ req.mode # "audit"}

firstDenied(req) == CHOOSE i \in deniedHosts(req) : \A j \in deniedHosts(req) : i <= j

handleDNSRequest(req) ==
  IF req.in.what = "badquery" THEN Finish(req, "error")
  ELSE IF deniedHosts(req) # {}
       THEN Record(req, <<event(req, req.in.hosts[firstDenied(req)], "denied")>>, "denied")
       ELSE Forward(req)

Decide(r) ==
  /\ requests[r].pc = "decide"
  /\ Set(r, CASE requests[r].in.kind = "http" -> HandleProxyRequest(requests[r])
              [] requests[r].in.kind = "mitm" -> HandleMITMRequest(requests[r])
              [] requests[r].in.kind = "connect" -> HandleConnectRequest(requests[r])
              [] requests[r].in.kind = "dns" -> handleDNSRequest(requests[r]))
  /\ UNCHANGED <<sandboxes, registry, sent, log>>

----------------------------------------------------------------------------
(* The way out: transport.RoundTrip, dialTunnel, or the DNS servers in     *)
(* turn.  Each of them starts with the context of the request.             *)
\* Mutant: the entry is made before the round trip, as for a CONNECT.
ResultEarly(req, ok) ==
  CASE req.in.kind = "connect" -> Finish(req, IF ok THEN "ok" ELSE "error")
    [] req.in.kind = "dns" /\ ok -> [req EXCEPT !.pc = "strip"]
    [] OTHER -> Record(req, eventsFor(req, "allowed"), IF ok THEN "ok" ELSE "error")

Result(req, ok) ==
  CASE req.in.kind = "connect" -> Finish(req, IF ok THEN "ok" ELSE "error")
    [] req.in.kind = "dns" /\ ok -> [req EXCEPT !.pc = "strip"]
    [] OTHER -> Record(req, eventsFor(req, IF ok THEN "allowed" ELSE "upstream_error"), IF ok THEN "ok" ELSE "error")

RoundTrip(r) ==
  /\ requests[r].pc = "forward"
  /\ ~ sandboxes[requests[r].gen].cancelled
  /\ sent' = sent \cup {<<r, requests[r].in.hosts[i]>> : i \in DOMAIN requests[r].in.hosts}
  /\ \E ok \in BOOLEAN : Set(r, Result(requests[r], ok))
  /\ UNCHANGED <<sandboxes, registry, log>>

\* Refused connections, unknown names, and a context that is cancelled.
RoundTripFails(r) ==
  /\ requests[r].pc = "forward"
  /\ Set(r, Result(requests[r], FALSE))
  /\ UNCHANGED <<sandboxes, registry, sent, log>>

\* In transparent mode the answer is unpacked to remove its AAAA records.
stripAAAARecords(r) ==
  /\ requests[r].pc = "strip"
  /\ LET transparent == registry.sandbox # 0 /\ sandboxes[registry.sandbox].opts.traffic = "transparent"
     IN Set(r, IF transparent /\ requests[r].in.what = "garbled" THEN Finish(requests[r], "error")
               ELSE Record(requests[r], eventsFor(requests[r], "allowed"), "ok"))
  /\ UNCHANGED <<sandboxes, registry, sent, log>>

\* One call of recordAccessEvent: under the lock, and only for a name that
\* is registered.  After the last one the handler goes on.
recordAccessEvent(r) ==
  /\ requests[r].pc = "record"
  /\ LET req == [requests[r] EXCEPT !.events = Tail(@)]
         entry == [req |-> r, event |-> Head(requests[r].events)]
     IN /\ registry' = IF registry.policy # 0 THEN [registry EXCEPT !.audit = @ \cup {entry}] ELSE registry
        /\ log' = IF registry.policy # 0 THEN log \cup {entry} ELSE log
        /\ Set(r, IF req.events # <<>> THEN req
                  ELSE IF req.next = "forward" THEN Forward(req) ELSE Finish(req, req.next))
  /\ UNCHANGED <<sandboxes, sent>>

Next ==
  \/ \E g \in Gens : Register(g) \/ Attach(g) \/ StopRuntime(g) \/ Unregister(g)
  \/ \E r \in Requests :
        \/ Arrive(r) \/ policyForSandbox(r) \/ policyModeForSandbox(r) \/ Decide(r)
        \/ RoundTrip(r) \/ RoundTripFails(r) \/ stripAAAARecords(r) \/ recordAccessEvent(r)

Spec == Init /\ [][Next]_vars

----------------------------------------------------------------------------
optionsOf(r) == sandboxes[requests[r].gen].opts

(* Nothing goes out for a payload that the policy of its own sandbox        *)
(* denies, unless that sandbox is in audit mode: although policy and mode   *)
(* are looked up by name and one after the other, while the sandbox is      *)
(* closed and another one takes its name.                                   *)
OwnPolicyRules ==
  \A s \in sent :
     s[2] \in optionsOf(s[1]).policy \/ effectiveMode(optionsOf(s[1])) = "audit"

(* What the log says of a request is what happened to it: nothing of a      *)
(* request with a "denied" entry has gone out, and what has an "allowed"    *)
(* entry has gone out (a CONNECT is allowed before its dial).               *)
EventTellsOutcome ==
  \A e \in log :
     /\ e.event.result = "denied" => \A s \in sent : s[1] # e.req
     /\ e.event.result = "allowed" /\ requests[e.req].in.kind # "connect" => <<e.req, e.event.host>> \in sent

(* Whoever got an answer, a refusal or a success, is in the audit state of  *)
(* the sandbox for as long as the sandbox is registered.                    *)
AnsweredIsAudited ==
  \A r \in Requests :
     /\ requests[r].pc = "done"
     /\ requests[r].answer \in {"denied", "ok"}
     /\ registry.policy = requests[r].gen
     => \E e \in registry.audit : e.req = r

(* A sandbox that supplies no policy is judged by the manager's default     *)
(* policy.                                                                  *)
DefaultIsInherited ==
  \A e \in log :
     /\ e.event.result = "denied"
     /\ requests[e.req].in.what = "ok"
     /\ optionsOf(e.req).policy = {}
     => e.event.host \notin DefaultPolicy
=============================================================================
