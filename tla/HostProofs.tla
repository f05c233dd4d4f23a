----------------------------- MODULE HostProofs -----------------------------
(***************************************************************************)
(* The services of the manager are right for any number of requests, of    *)
(* sandboxes that follow one another, of connections and of rules: the     *)
(* handlers and the registry (ManagerServices) and the leaf certificates   *)
(* (MITMCerts).                                                            *)
(***************************************************************************)
EXTENDS MCHost, Sequences, TLAPS

-----------------------------------------------------------------------------
(* Certificates: what was served is what the cache still holds.            *)

LeafInv ==
    /\ \A h \in DOMAIN leafCache : leafCache[h].host = h
    /\ \A s \in served : s.asked \in DOMAIN leafCache /\ s.leaf = leafCache[s.asked]

CertsInv == part = "certs" => LeafInv

LEMMA LeafStep ==
  ASSUME LeafInv, Certs!Next
  PROVE  LeafInv'
<1>1. CASE Certs!Pass
  BY <1>1, Zenon DEF Certs!Pass, LeafInv
<1>2. ASSUME NEW s \in Certs!Spellings, Certs!LeafForHost(s)
      PROVE  LeafInv'
  <2> DEFINE leaf == Certs!newLeaf(s.host, serials + 1)
  <2>1. leaf.host = s.host
    BY Zenon DEF Certs!newLeaf
  <2> HIDE DEF leaf
  <2>2. CASE /\ s.host \in DOMAIN leafCache
             /\ served' = served \cup {[leaf |-> leafCache[s.host], asked |-> s.host, at |-> clock, chain |-> ca]}
             /\ leafCache' = leafCache
    BY <2>2 DEF LeafInv
  <2>3. CASE /\ s.host \notin DOMAIN leafCache
             /\ served' = served \cup {[leaf |-> leaf, asked |-> s.host, at |-> clock, chain |-> ca]}
             /\ leafCache' = [h \in DOMAIN leafCache \cup {s.host} |-> IF h = s.host THEN leaf ELSE leafCache[h]]
    BY <2>1, <2>3 DEF LeafInv
  <2> QED
    BY <1>2, <2>2, <2>3, Zenon DEF Certs!LeafForHost, Certs!Serve, leaf
<1> QED
  BY <1>1, <1>2, Zenon DEF Certs!Next

\* LeafForHost answers every connection to a host with the same leaf, and one
\* for that host, whatever the spellings and the times of the connections.
THEOREM LeavesSafe == Spec => []OneLeafPerHost
<1>1. Init => CertsInv
  BY Zenon DEF Init, Certs!Init, CertsInv, LeafInv
<1>2. CertsInv /\ [Next]_vars => CertsInv'
  <2> SUFFICES ASSUME CertsInv, [Next]_vars, part' = "certs"
               PROVE  LeafInv'
    BY Zenon DEF CertsInv
  <2>1. CASE part = "certs" /\ Certs!Next
    BY <2>1, LeafStep, Zenon DEF CertsInv
  <2>2. CASE UNCHANGED vars
    BY <2>2, Zenon DEF CertsInv, LeafInv, vars, certVars
  <2> QED
    BY <2>1, <2>2, Zenon DEF Next
<1>3. CertsInv => OneLeafPerHost
  BY Zenon DEF CertsInv, LeafInv, OneLeafPerHost, Certs!OneLeafPerHost
<1> QED
  BY <1>1, <1>2, <1>3, PTL DEF Spec

-----------------------------------------------------------------------------
(* Requests.  A handler looks up the policy, the mode and the audit state   *)
(* of its sandbox by name and at different times, but it sends nothing once *)
(* the context of its sandbox is cancelled, and until then the registry     *)
(* names that sandbox.                                                      *)

Gens == Services!Gens
Hosts == {"a", "b"}
Modes == {"", "enforce", "audit"}
Answers == {"denied", "ok", "error"}
OptionsType == [policy : SUBSET Hosts, mode : Modes, traffic : {"proxy", "transparent"}]
SandboxType ==
    [phase : {"none", "registered", "attached", "stopped", "closed"}, opts : OptionsType, cancelled : BOOLEAN]
EventType == [host : Hosts, result : {"denied", "allowed", "upstream_error"}, allowed : BOOLEAN]
EntryType == [req : Requests, event : EventType]
InputType == [kind : {"none", "http", "mitm", "connect", "dns"}, hosts : Seq(Hosts),
              what : {"ok", "badurl", "toolarge", "mismatch", "noauthority", "badquery", "garbled"}]
RequestType ==
    [pc : {"idle", "policy", "mode", "decide", "forward", "strip", "record", "done"}, gen : Gens \cup {0},
     in : InputType, policy : SUBSET Hosts, mode : Modes \cup {ManagerMode}, events : Seq(EventType),
     next : Answers \cup {"", "forward"}, answer : Answers \cup {""}]
RegistryType == [policy : Gens \cup {0}, sandbox : Gens \cup {0}, audit : SUBSET EntryType]

ServicesType ==
    /\ sandboxes \in [Gens -> SandboxType]
    /\ registry \in RegistryType
    /\ requests \in [Requests -> RequestType]
    /\ sent \subseteq Requests \X Hosts
    /\ log \subseteq EntryType

\* The registry names the sandbox that is there, from its registration until
\* after its context was cancelled.
RegistryFor(g, box, reg) ==
    /\ box.phase = "registered" => reg.policy = g /\ reg.sandbox = 0
    /\ box.phase \in {"attached", "stopped"} => reg.policy = g /\ reg.sandbox = g
    /\ box.cancelled <=> box.phase \in {"stopped", "closed"}
RegistryInv(boxes, reg) == \A g \in Gens : RegistryFor(g, boxes[g], reg)

\* A handler holds what its own sandbox was created with, unless that sandbox
\* is cancelled.
LookedUp(q, box) ==
    ~ box.cancelled =>
        /\ q.pc \in {"mode", "decide", "record", "forward", "strip"} => q.policy = box.opts.policy
        /\ q.pc \in {"decide", "record", "forward", "strip"} => q.mode = Services!effectiveMode(box.opts)

\* Nothing of request r has gone out.
Unsent(r, out) == \A s \in out : s[1] # r

\* What a handler is about to do and to record fits what it has done.
Recording(r, q, out) ==
    /\ q.events # <<>>
    /\ q.next \in {"denied", "forward", "ok", "error"}
    /\ q.next = "denied" => Unsent(r, out) /\ \A i \in DOMAIN q.events : q.events[i].result = "denied"
    /\ q.next = "forward" => Unsent(r, out) /\ q.in.kind = "connect"
    /\ q.next = "ok" => \A i \in DOMAIN q.events : <<r, q.events[i].host>> \in out
    /\ q.next = "error" => \A i \in DOMAIN q.events : q.events[i].result = "upstream_error"
    /\ q.next # "denied" => \A i \in DOMAIN q.events : q.events[i].result # "denied"

\* The entries of a request.
Logged(r, q, out, lg) ==
    \A e \in lg : e.req = r =>
        /\ q.pc \in {"record", "forward", "strip", "done"}
        /\ e.event.result = "denied" =>
             Unsent(r, out) /\ (q.pc = "record" => q.next = "denied") /\ q.pc \in {"record", "done"}
        /\ e.event.result = "allowed" /\ q.in.kind # "connect" => <<r, e.event.host>> \in out

\* Whoever was answered, and a CONNECT that goes on to its dial, is audited.
Audited(r, q, reg) ==
    /\ reg.policy = q.gen
    /\ \/ q.pc = "done" /\ q.answer \in {"denied", "ok"}
       \/ q.pc = "forward" /\ q.in.kind = "connect"
    => \E e \in reg.audit : e.req = r

Handler(r, q, boxes, reg, out, lg) ==
    IF q.pc = "idle" THEN Unsent(r, out) /\ \A e \in lg : e.req # r
    ELSE /\ q.gen \in Gens /\ boxes[q.gen].phase \in {"attached", "stopped", "closed"} /\ q.in \in Services!Inputs
         /\ LookedUp(q, boxes[q.gen])
         /\ q.pc = "forward" \/ (q.pc = "record" /\ q.next = "forward") =>
              \A i \in DOMAIN q.in.hosts : q.in.hosts[i] \in q.policy \/ q.mode = "audit"
         /\ q.pc \in {"policy", "mode", "decide", "forward"} => Unsent(r, out)
         /\ q.pc = "strip" => \A i \in DOMAIN q.in.hosts : <<r, q.in.hosts[i]>> \in out
         /\ q.pc = "record" => Recording(r, q, out)
         /\ Logged(r, q, out, lg)
         /\ Audited(r, q, reg)
         /\ \A s \in out : s[1] = r =>
              \/ s[2] \in boxes[q.gen].opts.policy
              \/ Services!effectiveMode(boxes[q.gen].opts) = "audit"

ServicesInv ==
    /\ ServicesType
    /\ RegistryInv(sandboxes, registry)
    /\ \A r \in Requests : Handler(r, requests[r], sandboxes, registry, sent, log)

RequestsInv == part = "requests" => ServicesInv

-----------------------------------------------------------------------------
\* Inputs are typed, and all of them but a lookup are about one host.
LEMMA InputFacts ==
  ASSUME NEW in \in Services!Inputs
  PROVE  /\ in \in InputType
         /\ Len(in.hosts) \in {1, 2} /\ DOMAIN in.hosts = 1 .. Len(in.hosts) /\ 1 \in DOMAIN in.hosts
         /\ in.kind \in {"http", "mitm", "connect", "dns"}
         /\ in.kind # "dns" => \A i \in DOMAIN in.hosts : i = 1
<1> DEFINE lists == {<<"a">>, <<"b">>, <<"a", "b">>}
           whats == {"ok", "badurl", "toolarge", "mismatch", "noauthority", "badquery", "garbled"}
<1>1. in \in [kind : Kinds, hosts : lists, what : whats] /\ (Len(in.hosts) = 2 => in.kind = "dns")
  BY Zenon DEF Services!Inputs
<1>8. in.kind \in {"http", "mitm", "connect", "dns"}
  BY <1>1, KindsAssumption, Zenon
<1>2. \A hs \in lists : hs \in Seq(Hosts) /\ (Len(hs) = 1 \/ Len(hs) = 2)
  <2>1. <<"a">> \in Seq(Hosts) /\ Len(<<"a">>) = 1
    BY DEF Hosts
  <2>2. <<"b">> \in Seq(Hosts) /\ Len(<<"b">>) = 1
    BY DEF Hosts
  <2>3. <<"a", "b">> \in Seq(Hosts) /\ Len(<<"a", "b">>) = 2
    BY DEF Hosts
  <2> QED
    BY <2>1, <2>2, <2>3, Zenon
<1> HIDE DEF lists
<1>3. in \in InputType
  BY <1>1, <1>2, <1>8, Zenon DEF InputType
<1>4. in.hosts \in Seq(Hosts) /\ (Len(in.hosts) = 1 \/ (Len(in.hosts) = 2 /\ in.kind = "dns"))
  BY <1>1, <1>2, Zenon
<1>5. Len(in.hosts) \in Nat /\ DOMAIN in.hosts = 1 .. Len(in.hosts)
  BY <1>4
<1> DEFINE n == Len(in.hosts)
<1>6. n \in Nat /\ (n = 1 \/ (n = 2 /\ in.kind = "dns"))
  BY <1>4, <1>5, Zenon
<1> HIDE DEF n
<1>7. 1 \in 1 .. n /\ (in.kind # "dns" => \A i \in 1 .. n : i = 1)
  BY <1>6
<1> QED
  BY <1>3, <1>5, <1>6, <1>7, <1>8, Zenon DEF n

\* What a step of another request or of a sandbox leaves alone for a handler.
LeftAlone(r, q, boxes, reg, out, lg, boxes2, reg2, out2, lg2) ==
    /\ \A s \in out2 : s[1] = r => s \in out
    /\ out \subseteq out2
    /\ \A e \in lg2 : e.req = r => e \in lg
    /\ q.pc # "idle" =>
         /\ reg2.policy = q.gen => reg.policy = q.gen /\ reg.audit \subseteq reg2.audit
         /\ boxes2[q.gen].opts = boxes[q.gen].opts
         /\ boxes2[q.gen].phase \in {"attached", "stopped", "closed"}
         /\ boxes[q.gen].cancelled => boxes2[q.gen].cancelled

LEMMA HandlerFrame ==
  ASSUME NEW r, NEW q, NEW boxes, NEW reg, NEW out, NEW lg, NEW boxes2, NEW reg2, NEW out2, NEW lg2,
         Handler(r, q, boxes, reg, out, lg), LeftAlone(r, q, boxes, reg, out, lg, boxes2, reg2, out2, lg2)
  PROVE  Handler(r, q, boxes2, reg2, out2, lg2)
<1> USE DEF LeftAlone
<1>1. Unsent(r, out) => Unsent(r, out2)
  BY Zenon DEF Unsent
<1>2. CASE q.pc = "idle"
  BY <1>1, <1>2, Zenon DEF Handler
<1>3. CASE q.pc # "idle"
  <2>1. LookedUp(q, boxes2[q.gen])
    BY <1>3, Zenon DEF Handler, LookedUp
  <2>2. q.pc = "record" => Recording(r, q, out2)
    BY <1>1, <1>3, Zenon DEF Handler, Recording
  <2>3. Logged(r, q, out2, lg2)
    BY <1>1, <1>3, Zenon DEF Handler, Logged
  <2>4. Audited(r, q, reg2)
    BY <1>3, Zenon DEF Handler, Audited
  <2> QED
    BY <1>1, <1>3, <2>1, <2>2, <2>3, <2>4, Zenon DEF Handler
<1> QED
  BY <1>2, <1>3, Zenon

\* NewSandbox and Close, at each of their steps, leave the handlers what they rely on.
LEMMA SandboxStep ==
  ASSUME ServicesInv, NEW g \in Gens,
         Services!Register(g) \/ Services!Attach(g) \/ Services!StopRuntime(g) \/ Services!Unregister(g)
  PROVE  ServicesInv'
<1>1. /\ UNCHANGED <<requests, sent, log>>
      /\ g # 0 /\ sandboxes \in [Gens -> SandboxType] /\ registry \in RegistryType
  BY DEF Services!Register, Services!Attach, Services!StopRuntime, Services!Unregister, ServicesInv, ServicesType,
         Gens, Services!Gens
<1>2. /\ \A h \in Gens : h # g => sandboxes'[h] = sandboxes[h]
      /\ sandboxes' \in [Gens -> SandboxType] /\ registry' \in RegistryType
      /\ \/ /\ sandboxes[g].phase = "none" /\ sandboxes'[g].phase = "registered" /\ ~ sandboxes'[g].cancelled
            /\ registry.policy = 0 /\ registry'.policy = g /\ registry'.sandbox = 0
         \/ /\ sandboxes[g].phase = "registered" /\ sandboxes'[g].phase = "attached"
            /\ sandboxes'[g].cancelled = sandboxes[g].cancelled
            /\ registry'.policy = registry.policy /\ registry'.sandbox = g /\ registry'.audit = registry.audit
         \/ /\ sandboxes[g].phase = "attached" /\ sandboxes'[g].phase = "stopped" /\ sandboxes'[g].cancelled
            /\ sandboxes'[g].opts = sandboxes[g].opts /\ registry' = registry
         \/ /\ sandboxes[g].phase = "stopped" /\ sandboxes'[g].phase = "closed"
            /\ sandboxes'[g].cancelled = sandboxes[g].cancelled
            /\ sandboxes'[g].opts = sandboxes[g].opts
            /\ registry'.policy = 0 /\ registry'.sandbox = 0
  <2>1. CASE Services!Register(g)
    <3>1. PICK opts \in Services!Options :
            sandboxes' = [sandboxes EXCEPT ![g] = [phase |-> "registered", opts |-> opts, cancelled |-> FALSE]]
      BY <2>1, Zenon DEF Services!Register
    <3>2. opts \in OptionsType
      <4>1. [policy |-> {"a"}, mode |-> "", traffic |-> "proxy"] \in OptionsType
        BY Zenon DEF OptionsType, Hosts, Modes
      <4>2. [policy |-> {"a", "b"}, mode |-> "enforce", traffic |-> "transparent"] \in OptionsType
        BY Zenon DEF OptionsType, Hosts, Modes
      <4>3. [policy |-> {}, mode |-> "audit", traffic |-> "transparent"] \in OptionsType
        BY Zenon DEF OptionsType, Hosts, Modes
      <4>4. [policy |-> {}, mode |-> "enforce", traffic |-> "proxy"] \in OptionsType
        BY Zenon DEF OptionsType, Hosts, Modes
      <4> QED
        BY <4>1, <4>2, <4>3, <4>4, Zenon DEF Services!Options
    <3>3. /\ sandboxes[g].phase = "none" /\ registry.policy = 0
          /\ registry' = [policy |-> g, sandbox |-> 0, audit |-> {}]
      BY <2>1, Zenon DEF Services!Register
    <3> QED
      BY <1>1, <3>1, <3>2, <3>3, Zenon DEF SandboxType, RegistryType
  <2>2. CASE Services!Attach(g)
    BY <1>1, <2>2, Zenon DEF Services!Attach, Services!Become, SandboxType, RegistryType
  <2>3. CASE Services!StopRuntime(g)
    BY <1>1, <2>3, Zenon DEF Services!StopRuntime, SandboxType, RegistryType
  <2>4. CASE Services!Unregister(g)
    BY <1>1, <2>4, Zenon DEF Services!Unregister, Services!Become, SandboxType, RegistryType
  <2> QED
    BY <2>1, <2>2, <2>3, <2>4, Zenon
<1>3. ServicesType'
  BY <1>1, <1>2, Zenon DEF ServicesInv, ServicesType
<1>4. RegistryInv(sandboxes', registry')
  <2> SUFFICES ASSUME NEW h \in Gens PROVE RegistryFor(h, sandboxes'[h], registry')
    BY Zenon DEF RegistryInv
  <2>1. RegistryFor(h, sandboxes[h], registry) /\ RegistryFor(g, sandboxes[g], registry)
    BY Zenon DEF ServicesInv, RegistryInv
  <2>4. h # 0
    BY DEF Gens, Services!Gens
  <2>2. CASE h = g
    BY <1>2, <2>1, <2>2, Zenon DEF RegistryFor
  <2>3. CASE h # g
    <3>1. sandboxes'[h] = sandboxes[h]
      BY <1>2, <2>3, Zenon
    <3> QED
      BY <1>1, <1>2, <2>1, <2>3, <2>4, <3>1, Zenon DEF RegistryFor
  <2> QED
    BY <2>2, <2>3, Zenon
<1>5. ASSUME NEW r \in Requests
      PROVE  Handler(r, requests[r], sandboxes', registry', sent, log)
  <2> DEFINE q == requests[r]
  <2>1. Handler(r, q, sandboxes, registry, sent, log)
    BY Zenon DEF ServicesInv
  <2> HIDE DEF q
  <2>2. ASSUME q.pc # "idle"
        PROVE  /\ registry'.policy = q.gen => registry.policy = q.gen /\ registry.audit \subseteq registry'.audit
               /\ sandboxes'[q.gen].opts = sandboxes[q.gen].opts
               /\ sandboxes'[q.gen].phase \in {"attached", "stopped", "closed"}
               /\ sandboxes[q.gen].cancelled => sandboxes'[q.gen].cancelled
    <3>1. q.gen \in Gens /\ q.gen # 0 /\ sandboxes[q.gen].phase \in {"attached", "stopped", "closed"}
      BY <2>1, <2>2 DEF Handler, Gens, Services!Gens
    <3> QED
      BY <1>2, <3>1, Zenon
  <2>3. LeftAlone(r, q, sandboxes, registry, sent, log, sandboxes', registry', sent, log)
    BY <2>2, Zenon DEF LeftAlone
  <2> QED
    BY <2>1, <2>3, HandlerFrame, Zenon DEF q
<1> QED
  BY <1>1, <1>3, <1>4, <1>5, Zenon DEF ServicesInv

\* A step of one handler: the others keep what they rely on.
LEMMA RequestStep ==
  ASSUME ServicesInv, NEW r \in Requests, NEW q2 \in RequestType,
         requests' = [requests EXCEPT ![r] = q2], sandboxes' = sandboxes,
         registry' \in RegistryType, registry'.policy = registry.policy, registry'.sandbox = registry.sandbox,
         registry.audit \subseteq registry'.audit,
         sent \subseteq sent', sent' \subseteq Requests \X Hosts, \A s \in sent' : s \in sent \/ s[1] = r,
         log' \subseteq EntryType, \A e \in log' : e \in log \/ e.req = r,
         Handler(r, q2, sandboxes, registry', sent', log')
  PROVE  ServicesInv'
<1>1. requests' \in [Requests -> RequestType] /\ requests'[r] = q2
      /\ \A d \in Requests : d # r => requests'[d] = requests[d]
  BY Zenon DEF ServicesInv, ServicesType
<1>2. ServicesType'
  BY <1>1, Zenon DEF ServicesInv, ServicesType
<1>3. RegistryInv(sandboxes', registry')
  BY Zenon DEF ServicesInv, RegistryInv, RegistryFor
<1>4. ASSUME NEW d \in Requests
      PROVE  Handler(d, requests'[d], sandboxes', registry', sent', log')
  <2>1. CASE d = r
    BY <1>1, <2>1, Zenon
  <2>2. CASE d # r
    <3>1. PICK q : q = requests[d]
      BY Zenon
    <3>2. Handler(d, q, sandboxes, registry, sent, log)
      BY <3>1, Zenon DEF ServicesInv
    <3>3. \A s \in sent' : s[1] = d => s \in sent
      BY <2>2, Zenon
    <3>6. \A e \in log' : e.req = d => e \in log
      BY <2>2, Zenon
    <3>4. q.pc # "idle" => sandboxes[q.gen].phase \in {"attached", "stopped", "closed"}
      BY <3>2, Zenon DEF Handler
    <3>7. LeftAlone(d, q, sandboxes, registry, sent, log, sandboxes, registry', sent', log')
      BY <3>3, <3>4, <3>6, Zenon DEF LeftAlone
    <3>5. Handler(d, q, sandboxes, registry', sent', log')
      BY <3>2, <3>7, HandlerFrame, Zenon
    <3> QED
      BY <1>1, <2>2, <3>1, <3>5, Zenon
  <2> QED
    BY <2>1, <2>2, Zenon
<1> QED
  BY <1>2, <1>3, <1>4, Zenon DEF ServicesInv

\* A step of one handler that sends and records nothing.
LEMMA QuietRequestStep ==
  ASSUME ServicesInv, NEW r \in Requests, NEW q2 \in RequestType,
         requests' = [requests EXCEPT ![r] = q2], UNCHANGED <<sandboxes, registry, sent, log>>,
         Handler(r, q2, sandboxes, registry, sent, log)
  PROVE  ServicesInv'
<1>1. /\ sandboxes' = sandboxes /\ registry' = registry /\ sent' = sent /\ log' = log
      /\ registry \in RegistryType /\ sent \subseteq Requests \X Hosts /\ log \subseteq EntryType
  BY Zenon DEF ServicesInv, ServicesType
<1> QED
  BY <1>1, RequestStep, Zenon

-----------------------------------------------------------------------------
(* The steps of a handler, as records.                                      *)

\* What a handler keeps once it has its policy and its mode.
Same(q, q2) == q2.gen = q.gen /\ q2.in = q.in /\ q2.policy = q.policy /\ q2.mode = q.mode

LEMMA FinishFacts ==
  ASSUME NEW q \in RequestType, NEW a \in Answers
  PROVE  /\ Services!Finish(q, a) \in RequestType /\ Same(q, Services!Finish(q, a))
         /\ Services!Finish(q, a).pc = "done" /\ Services!Finish(q, a).answer = a
  BY Zenon DEF RequestType, Same, Services!Finish

LEMMA ForwardFacts ==
  ASSUME NEW q \in RequestType
  PROVE  /\ Services!Forward(q) \in RequestType /\ Same(q, Services!Forward(q))
         /\ Services!Forward(q).pc = "forward"
  BY Zenon DEF RequestType, Same, Services!Forward

LEMMA RecordFacts ==
  ASSUME NEW q \in RequestType, NEW evs \in Seq(EventType), NEW next \in Answers \cup {"forward"}
  PROVE  /\ Services!Record(q, evs, next) \in RequestType /\ Same(q, Services!Record(q, evs, next))
         /\ Services!Record(q, evs, next).pc = "record"
         /\ Services!Record(q, evs, next).events = evs /\ Services!Record(q, evs, next).next = next
  BY Zenon DEF RequestType, Same, Services!Record

\* A handler's events name the hosts of its request, and have the result it asked for.
LEMMA EventsFacts ==
  ASSUME NEW q \in RequestType, q.in \in Services!Inputs, NEW result \in {"denied", "allowed", "upstream_error"}
  PROVE  /\ Services!eventsFor(q, result) \in Seq(EventType) /\ Services!eventsFor(q, result) # <<>>
         /\ DOMAIN Services!eventsFor(q, result) = DOMAIN q.in.hosts
         /\ \A i \in DOMAIN q.in.hosts : /\ Services!eventsFor(q, result)[i].result = result
                                         /\ Services!eventsFor(q, result)[i].host = q.in.hosts[i]
<1> DEFINE evs == Services!eventsFor(q, result)
           n == Len(q.in.hosts)
<1>1. q.in.hosts \in Seq(Hosts) /\ n \in Nat /\ DOMAIN q.in.hosts = 1 .. n /\ 1 \in 1 .. n
  <2>1. q.in \in InputType /\ n \in {1, 2} /\ DOMAIN q.in.hosts = 1 .. n /\ 1 \in DOMAIN q.in.hosts
    BY InputFacts, Zenon
  <2> QED
    BY <2>1 DEF InputType
<1>2. evs = [i \in 1 .. n |-> Services!event(q, q.in.hosts[i], result)]
  BY Zenon DEF Services!eventsFor
<1>3. ASSUME NEW i \in 1 .. n
      PROVE  /\ Services!event(q, q.in.hosts[i], result) \in EventType
             /\ Services!event(q, q.in.hosts[i], result).result = result
             /\ Services!event(q, q.in.hosts[i], result).host = q.in.hosts[i]
  <2>1. q.in.hosts[i] \in Hosts
    BY <1>1
  <2> QED
    BY <2>1, Zenon DEF Services!event, EventType
<1> HIDE DEF evs, n
<1>4. evs \in [1 .. n -> EventType] /\ DOMAIN evs = 1 .. n
  BY <1>2, <1>3, Zenon
<1>5. evs \in Seq(EventType)
  BY <1>1, <1>4
<1>6. evs # <<>>
  BY <1>1, <1>4
<1>7. \A i \in 1 .. n : evs[i].result = result /\ evs[i].host = q.in.hosts[i]
  BY <1>2, <1>3, Zenon
<1> QED
  BY <1>1, <1>4, <1>5, <1>6, <1>7, Zenon DEF evs

\* What every handler knows that has a sandbox.
LEMMA Serving ==
  ASSUME ServicesInv, NEW r \in Requests, requests[r].pc # "idle"
  PROVE  \E q \in RequestType :
            /\ q = requests[r] /\ Handler(r, q, sandboxes, registry, sent, log)
            /\ q.gen \in Gens /\ q.gen # 0 /\ q.in \in Services!Inputs /\ LookedUp(q, sandboxes[q.gen])
            /\ sandboxes[q.gen].cancelled \/ (registry.policy = q.gen /\ registry.sandbox = q.gen)
<1>1. PICK q \in RequestType : q = requests[r]
  BY Zenon DEF ServicesInv, ServicesType
<1>2. Handler(r, q, sandboxes, registry, sent, log)
  BY <1>1, Zenon DEF ServicesInv
<1>3. /\ q.gen \in Gens /\ q.in \in Services!Inputs /\ LookedUp(q, sandboxes[q.gen])
      /\ sandboxes[q.gen].phase \in {"attached", "stopped", "closed"}
  BY <1>1, <1>2, Zenon DEF Handler
<1>4. RegistryFor(q.gen, sandboxes[q.gen], registry)
  BY <1>3, Zenon DEF ServicesInv, RegistryInv
<1>5. sandboxes[q.gen].cancelled \/ (registry.policy = q.gen /\ registry.sandbox = q.gen)
  BY <1>3, <1>4, Zenon DEF RegistryFor
<1>6. q.gen # 0
  BY <1>3 DEF Gens, Services!Gens
<1> QED
  BY <1>1, <1>2, <1>3, <1>5, <1>6, Zenon

\* A handler may return an error at any time.
LEMMA ErrorStep ==
  ASSUME ServicesInv, NEW r \in Requests, requests[r].pc # "idle",
         requests' = [requests EXCEPT ![r] = Services!Finish(requests[r], "error")],
         UNCHANGED <<sandboxes, registry, sent, log>>
  PROVE  ServicesInv'
<1>1. PICK q \in RequestType : q = requests[r] /\ Handler(r, q, sandboxes, registry, sent, log)
  BY Serving, Zenon
<1>2. PICK q2 : q2 = Services!Finish(q, "error")
  BY Zenon
<1>3. q2 \in RequestType /\ Same(q, q2) /\ q2.pc = "done" /\ q2.answer = "error"
  <2>1. "error" \in Answers
    BY Zenon DEF Answers
  <2> QED
    BY <1>2, <2>1, FinishFacts, Zenon
<1>4. LookedUp(q2, sandboxes[q.gen]) /\ Audited(r, q2, registry)
  BY <1>3, Zenon DEF LookedUp, Audited
<1>5. Logged(r, q2, sent, log)
  BY <1>1, <1>3, Zenon DEF Handler, Logged, Same
<1>6. Handler(r, q2, sandboxes, registry, sent, log)
  BY <1>1, <1>3, <1>4, <1>5, Zenon DEF Handler, Same
<1> QED
  BY <1>1, <1>2, <1>3, <1>6, QuietRequestStep, Zenon

\* A payload's request reaches the manager.
LEMMA ArriveStep ==
  ASSUME ServicesInv, NEW r \in Requests, Services!Arrive(r)
  PROVE  ServicesInv'
<1>1. PICK q \in RequestType : q = requests[r] /\ Handler(r, q, sandboxes, registry, sent, log)
  BY Zenon DEF ServicesInv, ServicesType
<1>2. PICK g \in Gens, in \in Services!Inputs :
         /\ sandboxes[g].phase = "attached"
         /\ requests' = [requests EXCEPT ![r] = [requests[r] EXCEPT !.pc = "policy", !.gen = g, !.in = in]]
  BY Zenon DEF Services!Arrive, Services!Set, Gens
<1>3. PICK q2 : q2 = [q EXCEPT !.pc = "policy", !.gen = g, !.in = in]
  BY Zenon
<1>4. in \in InputType
  BY InputFacts, Zenon
<1>5. q2 \in RequestType /\ q2.pc = "policy" /\ q2.gen = g /\ q2.in = in
  BY <1>3, <1>4, Zenon DEF RequestType
<1>6. q.pc = "idle" /\ UNCHANGED <<sandboxes, registry, sent, log>>
  BY <1>1, Zenon DEF Services!Arrive
<1>7. Unsent(r, sent) /\ \A e \in log : e.req # r
  BY <1>1, <1>6, Zenon DEF Handler
<1>8. LookedUp(q2, sandboxes[g]) /\ Audited(r, q2, registry) /\ Logged(r, q2, sent, log)
  BY <1>5, <1>7, Zenon DEF LookedUp, Audited, Logged
<1>9. Handler(r, q2, sandboxes, registry, sent, log)
  BY <1>2, <1>5, <1>7, <1>8, Zenon DEF Handler, Unsent
<1> QED
  BY <1>1, <1>2, <1>3, <1>5, <1>6, <1>9, QuietRequestStep, Zenon

\* The handler looks its policy up by the name of its sandbox.
LEMMA PolicyStep ==
  ASSUME ServicesInv, NEW r \in Requests, Services!policyForSandbox(r)
  PROVE  ServicesInv'
<1>1. requests[r].pc = "policy" /\ UNCHANGED <<sandboxes, registry, sent, log>>
  BY Zenon DEF Services!policyForSandbox
<1>2. CASE registry.policy = 0
  BY <1>1, <1>2, ErrorStep, Zenon DEF Services!policyForSandbox, Services!Set
<1>3. CASE registry.policy # 0
  <2>1. PICK q \in RequestType :
            /\ q = requests[r] /\ Handler(r, q, sandboxes, registry, sent, log)
            /\ sandboxes[q.gen].cancelled \/ (registry.policy = q.gen /\ registry.sandbox = q.gen)
    BY <1>1, Serving, Zenon
  <2>2. PICK q2 : q2 = [q EXCEPT !.pc = "mode", !.policy = sandboxes[registry.policy].opts.policy]
    BY Zenon
  <2>3. sandboxes[registry.policy].opts.policy \subseteq Hosts
    <3>1. registry.policy \in Gens
      BY <1>3, Zenon DEF ServicesInv, ServicesType, RegistryType
    <3>2. sandboxes[registry.policy] \in SandboxType
      BY <3>1, Zenon DEF ServicesInv, ServicesType
    <3> QED
      BY <3>2, Zenon DEF SandboxType, OptionsType
  <2>4. /\ q2 \in RequestType /\ q2.pc = "mode" /\ q2.gen = q.gen /\ q2.in = q.in
        /\ q2.policy = sandboxes[registry.policy].opts.policy
    BY <2>2, <2>3, Zenon DEF RequestType
  <2>5. LookedUp(q2, sandboxes[q.gen]) /\ Audited(r, q2, registry)
    BY <2>1, <2>4, Zenon DEF LookedUp, Audited
  <2>6. q.pc = "policy"
    BY <1>1, <2>1, Zenon
  <2>7. Logged(r, q2, sent, log)
    BY <2>1, <2>4, <2>6, Zenon DEF Handler, Logged
  <2>8. Handler(r, q2, sandboxes, registry, sent, log)
    BY <2>1, <2>4, <2>5, <2>6, <2>7, Zenon DEF Handler
  <2>9. requests' = [requests EXCEPT ![r] = q2]
    BY <1>3, <2>1, <2>2, Zenon DEF Services!policyForSandbox, Services!Set
  <2> QED
    BY <1>1, <2>4, <2>8, <2>9, QuietRequestStep, Zenon
<1> QED
  BY <1>2, <1>3, Zenon

\* And then, perhaps much later, the mode of its sandbox.
LEMMA ModeStep ==
  ASSUME ServicesInv, NEW r \in Requests, Services!policyModeForSandbox(r)
  PROVE  ServicesInv'
<1>1. requests[r].pc = "mode" /\ UNCHANGED <<sandboxes, registry, sent, log>>
  BY Zenon DEF Services!policyModeForSandbox
<1>2. PICK q \in RequestType :
            /\ q = requests[r] /\ Handler(r, q, sandboxes, registry, sent, log) /\ q.gen # 0
            /\ LookedUp(q, sandboxes[q.gen])
            /\ sandboxes[q.gen].cancelled \/ (registry.policy = q.gen /\ registry.sandbox = q.gen)
  BY <1>1, Serving, Zenon
<1>3. PICK m : m = IF registry.sandbox = 0 THEN ManagerMode
                   ELSE Services!effectiveMode(sandboxes[registry.sandbox].opts)
  BY Zenon
<1>4. m \in Modes \cup {ManagerMode}
  <2>1. CASE registry.sandbox = 0
    BY <1>3, <2>1, Zenon
  <2>2. CASE registry.sandbox # 0
    <3>1. registry.sandbox \in Gens
      BY <2>2, Zenon DEF ServicesInv, ServicesType, RegistryType
    <3>2. sandboxes[registry.sandbox] \in SandboxType
      BY <3>1, Zenon DEF ServicesInv, ServicesType
    <3>3. sandboxes[registry.sandbox].opts.mode \in Modes
      BY <3>2, Zenon DEF SandboxType, OptionsType
    <3> QED
      BY <1>3, <2>2, <3>3, Zenon DEF Services!effectiveMode
  <2> QED
    BY <2>1, <2>2, Zenon
<1>5. PICK q2 : q2 = [q EXCEPT !.pc = "decide", !.mode = m]
  BY Zenon
<1>6. /\ q2 \in RequestType /\ q2.pc = "decide" /\ q2.gen = q.gen /\ q2.in = q.in
      /\ q2.policy = q.policy /\ q2.mode = m
  BY <1>4, <1>5, Zenon DEF RequestType
<1>7. q.pc = "mode"
  BY <1>1, <1>2, Zenon
<1>8. LookedUp(q2, sandboxes[q.gen]) /\ Audited(r, q2, registry)
  BY <1>2, <1>3, <1>6, <1>7, Zenon DEF LookedUp, Audited
<1>9. Logged(r, q2, sent, log)
  BY <1>2, <1>6, <1>7, Zenon DEF Handler, Logged
<1>10. Handler(r, q2, sandboxes, registry, sent, log)
  BY <1>2, <1>6, <1>7, <1>8, <1>9, Zenon DEF Handler
<1>11. requests' = [requests EXCEPT ![r] = q2]
  BY <1>2, <1>3, <1>5, Zenon DEF Services!policyModeForSandbox, Services!Set
<1> QED
  BY <1>1, <1>6, <1>10, <1>11, QuietRequestStep, Zenon

-----------------------------------------------------------------------------
(* The decision.                                                            *)

\* Every host of the request is one that the policy looked up allows, or the
\* mode looked up is audit.
Permitted(q) == \A i \in DOMAIN q.in.hosts : q.in.hosts[i] \in q.policy \/ q.mode = "audit"

\* Until it decides, a handler has sent and recorded nothing.
LEMMA Deciding ==
  ASSUME ServicesInv, NEW r \in Requests, requests[r].pc = "decide"
  PROVE  \E q \in RequestType :
            /\ q = requests[r] /\ q.pc = "decide" /\ Handler(r, q, sandboxes, registry, sent, log)
            /\ q.in \in Services!Inputs /\ LookedUp(q, sandboxes[q.gen])
            /\ Unsent(r, sent) /\ \A e \in log : e.req # r
<1>1. PICK q \in RequestType : /\ q = requests[r] /\ Handler(r, q, sandboxes, registry, sent, log)
                               /\ q.in \in Services!Inputs /\ LookedUp(q, sandboxes[q.gen])
  BY Serving, Zenon
<1>2. q.pc = "decide"
  BY <1>1, Zenon
<1>3. Unsent(r, sent) /\ Logged(r, q, sent, log)
  BY <1>1, <1>2, Zenon DEF Handler
<1>4. \A e \in log : e.req # r
  BY <1>2, <1>3, Zenon DEF Logged
<1> QED
  BY <1>1, <1>2, <1>3, <1>4, Zenon

\* The handler is about to record what it decided.
LEMMA DecidedStep ==
  ASSUME ServicesInv, NEW r \in Requests, requests[r].pc = "decide",
         NEW evs \in Seq(EventType), evs # <<>>, NEW next \in {"denied", "forward"},
         next = "denied" => \A i \in DOMAIN evs : evs[i].result = "denied",
         next = "forward" => /\ requests[r].in.kind = "connect" /\ Permitted(requests[r])
                             /\ \A i \in DOMAIN evs : evs[i].result # "denied",
         requests' = [requests EXCEPT ![r] = Services!Record(requests[r], evs, next)],
         UNCHANGED <<sandboxes, registry, sent, log>>
  PROVE  ServicesInv'
<1>1. PICK q \in RequestType :
            /\ q = requests[r] /\ q.pc = "decide" /\ Handler(r, q, sandboxes, registry, sent, log)
            /\ LookedUp(q, sandboxes[q.gen]) /\ Unsent(r, sent) /\ \A e \in log : e.req # r
  BY Deciding, Zenon
<1>2. PICK q2 : q2 = Services!Record(q, evs, next)
  BY Zenon
<1>3. q2 \in RequestType /\ Same(q, q2) /\ q2.pc = "record" /\ q2.events = evs /\ q2.next = next
  <2>1. next \in Answers \cup {"forward"}
    BY Zenon DEF Answers
  <2> QED
    BY <1>2, <2>1, RecordFacts
<1>4. LookedUp(q2, sandboxes[q.gen]) /\ Audited(r, q2, registry) /\ Logged(r, q2, sent, log)
  BY <1>1, <1>3, Zenon DEF LookedUp, Audited, Logged, Same
<1>5. Recording(r, q2, sent)
  BY <1>1, <1>3, Zenon DEF Recording, Same
<1>6. next = "forward" => Permitted(q2)
  BY <1>1, <1>3, Zenon DEF Permitted, Same
<1>7. Handler(r, q2, sandboxes, registry, sent, log)
  BY <1>1, <1>3, <1>4, <1>5, <1>6 DEF Handler, Same, Permitted
<1> QED
  BY <1>1, <1>2, <1>3, <1>7, QuietRequestStep, Zenon

\* A request is refused, with an event for each of its hosts.
LEMMA RefuseStep ==
  ASSUME ServicesInv, NEW r \in Requests, requests[r].pc = "decide",
         requests' = [requests EXCEPT ![r] = Services!Refuse(requests[r])],
         UNCHANGED <<sandboxes, registry, sent, log>>
  PROVE  ServicesInv'
<1>1. PICK q \in RequestType : q = requests[r] /\ q.in \in Services!Inputs
  BY Deciding, Zenon
<1>2. PICK evs : evs = Services!eventsFor(q, "denied")
  BY Zenon
<1>3. /\ evs \in Seq(EventType) /\ evs # <<>>
      /\ \A i \in DOMAIN evs : evs[i].result = "denied"
  BY <1>1, <1>2, EventsFacts, ZenonT(40)
<1>4. requests' = [requests EXCEPT ![r] = Services!Record(requests[r], evs, "denied")]
  BY <1>1, <1>2, Zenon DEF Services!Refuse
<1> QED
  BY <1>3, <1>4, DecidedStep, Zenon

\* A request goes out without an event of its own.
LEMMA PassStep ==
  ASSUME ServicesInv, NEW r \in Requests, requests[r].pc = "decide",
         requests[r].in.kind # "connect", Permitted(requests[r]),
         requests' = [requests EXCEPT ![r] = Services!Forward(requests[r])],
         UNCHANGED <<sandboxes, registry, sent, log>>
  PROVE  ServicesInv'
<1>1. PICK q \in RequestType :
            /\ q = requests[r] /\ q.pc = "decide" /\ Handler(r, q, sandboxes, registry, sent, log)
            /\ LookedUp(q, sandboxes[q.gen]) /\ Unsent(r, sent) /\ \A e \in log : e.req # r
  BY Deciding, Zenon
<1>2. PICK q2 : q2 = Services!Forward(q)
  BY Zenon
<1>3. q2 \in RequestType /\ Same(q, q2) /\ q2.pc = "forward"
  BY <1>2, ForwardFacts, Zenon
<1>4. LookedUp(q2, sandboxes[q.gen]) /\ Audited(r, q2, registry) /\ Logged(r, q2, sent, log)
  BY <1>1, <1>3, Zenon DEF LookedUp, Audited, Logged, Same
<1>5. Permitted(q2)
  BY <1>1, <1>3, Zenon DEF Permitted, Same
<1>6. Handler(r, q2, sandboxes, registry, sent, log)
  BY <1>1, <1>3, <1>4, <1>5 DEF Handler, Same, Permitted
<1> QED
  BY <1>1, <1>2, <1>3, <1>6, QuietRequestStep, Zenon

\* What is not blocked is permitted, where the request is about one host.
LEMMA NotBlocked ==
  ASSUME NEW q \in RequestType, q.in \in Services!Inputs, q.in.kind # "dns", ~ Services!blocked(q)
  PROVE  Permitted(q)
<1>1. \A i \in DOMAIN q.in.hosts : i = 1
  BY InputFacts, Zenon
<1>2. 1 \in 1 .. Len(q.in.hosts)
  BY InputFacts, Zenon
<1>3. Services!eventsFor(q, "")[1] = Services!event(q, q.in.hosts[1], "")
  BY <1>2, Zenon DEF Services!eventsFor
<1>4. Services!event(q, q.in.hosts[1], "").allowed => q.in.hosts[1] \in q.policy
  BY Zenon DEF Services!event
<1>5. q.in.hosts[1] \in q.policy \/ q.mode = "audit"
  BY <1>3, <1>4, Zenon DEF Services!blocked
<1> QED
  BY <1>1, <1>5, Zenon DEF Permitted

\* The handlers of the four kinds decide by the policy and the mode they looked up.
LEMMA DecideStep ==
  ASSUME ServicesInv, NEW r \in Requests, Services!Decide(r)
  PROVE  ServicesInv'
<1> DEFINE q == requests[r]
<1>1. /\ q.pc = "decide" /\ q \in RequestType /\ q.in \in Services!Inputs
      /\ UNCHANGED <<sandboxes, registry, sent, log>>
  <2>1. q.pc = "decide" /\ UNCHANGED <<sandboxes, registry, sent, log>>
    BY Zenon DEF Services!Decide
  <2> QED
    BY <2>1, Deciding, Zenon
<1>2. /\ q.in.kind \in {"http", "mitm", "connect", "dns"}
      /\ DOMAIN q.in.hosts = 1 .. Len(q.in.hosts) /\ Len(q.in.hosts) \in {1, 2}
  BY <1>1, InputFacts, Zenon
<1>3. /\ q.in.kind = "http" => requests' = [requests EXCEPT ![r] = Services!HandleProxyRequest(q)]
      /\ q.in.kind = "mitm" => requests' = [requests EXCEPT ![r] = Services!HandleMITMRequest(q)]
      /\ q.in.kind = "connect" => requests' = [requests EXCEPT ![r] = Services!HandleConnectRequest(q)]
      /\ q.in.kind = "dns" => requests' = [requests EXCEPT ![r] = Services!handleDNSRequest(q)]
  BY Zenon DEF Services!Decide, Services!Set
<1> HIDE DEF q
<1>4. /\ requests' = [requests EXCEPT ![r] = Services!Finish(q, "error")] => ServicesInv'
      /\ requests' = [requests EXCEPT ![r] = Services!Refuse(q)] => ServicesInv'
  BY <1>1, ErrorStep, RefuseStep, Zenon DEF q
<1>5. requests' = [requests EXCEPT ![r] = Services!Forward(q)] /\ q.in.kind # "connect" /\ Permitted(q) => ServicesInv'
  BY <1>1, PassStep, Zenon DEF q
<1>6. CASE q.in.kind = "http"
  BY <1>1, <1>3, <1>4, <1>5, <1>6, NotBlocked, Zenon DEF Services!HandleProxyRequest
<1>7. CASE q.in.kind = "mitm"
  BY <1>1, <1>3, <1>4, <1>5, <1>7, NotBlocked DEF Services!HandleMITMRequest
<1>8. CASE q.in.kind = "connect"
  <2>1. CASE Services!blocked(q)
    BY <1>3, <1>4, <1>8, <2>1, Zenon DEF Services!HandleConnectRequest
  <2>2. CASE ~ Services!blocked(q)
    <3>1. Permitted(q)
      BY <1>1, <1>8, <2>2, NotBlocked, Zenon
    <3>2. PICK evs : evs = Services!eventsFor(q, "allowed")
      BY Zenon
    <3>3. /\ evs \in Seq(EventType) /\ evs # <<>>
          /\ \A i \in DOMAIN evs : evs[i].result = "allowed"
      BY <1>1, <3>2, EventsFacts, Zenon
    <3>4. requests' = [requests EXCEPT ![r] = Services!Record(q, evs, "forward")]
      BY <1>3, <1>8, <2>2, <3>2, Zenon DEF Services!HandleConnectRequest
    <3> QED
      BY <1>1, <1>8, <3>1, <3>3, <3>4, DecidedStep, Zenon DEF q
  <2> QED
    BY <2>1, <2>2, Zenon
<1>9. CASE q.in.kind = "dns"
  <2> DEFINE denied == Services!deniedHosts(q)
  <2>1. denied = {i \in 1 .. Len(q.in.hosts) : q.in.hosts[i] \notin q.policy /\ q.mode # "audit"}
    BY Zenon DEF Services!deniedHosts
  <2> HIDE DEF denied
  <2>2. CASE q.in.what = "badquery"
    BY <1>3, <1>4, <1>9, <2>2, Zenon DEF Services!handleDNSRequest
  <2>3. CASE q.in.what # "badquery" /\ denied = {}
    <3>1. Permitted(q)
      BY <1>2, <2>1, <2>3, Zenon DEF Permitted
    <3>2. requests' = [requests EXCEPT ![r] = Services!Forward(q)]
      BY <1>3, <1>9, <2>3, Zenon DEF Services!handleDNSRequest, denied
    <3> QED
      BY <1>5, <1>9, <3>1, <3>2, Zenon
  <2>4. CASE q.in.what # "badquery" /\ denied # {}
    <3>1. PICK k : k = Services!firstDenied(q)
      BY Zenon
    <3>2. \E i \in denied : \A j \in denied : i <= j
      BY <1>2, <2>1, <2>4, SMTT(30)
    <3>3. k \in denied
      BY <3>1, <3>2, Zenon DEF Services!firstDenied, denied
    <3>4. q.in.hosts[k] \in Hosts
      <4>1. q.in.hosts \in Seq(Hosts)
        BY <1>1, Zenon DEF RequestType, InputType
      <4> QED
        BY <1>2, <2>1, <3>3, <4>1
    <3>5. PICK ev : ev = Services!event(q, q.in.hosts[k], "denied")
      BY Zenon
    <3>6. ev \in EventType /\ ev.result = "denied"
      BY <3>4, <3>5, Zenon DEF Services!event, EventType
    <3>7. /\ <<ev>> \in Seq(EventType) /\ <<ev>> # <<>>
          /\ \A i \in DOMAIN <<ev>> : <<ev>>[i].result = "denied"
      BY <3>6
    <3>8. requests' = [requests EXCEPT ![r] = Services!Record(q, <<ev>>, "denied")]
      BY <1>3, <1>9, <2>4, <3>1, <3>5, Zenon DEF Services!handleDNSRequest, denied
    <3>9. PICK evs : evs = <<ev>>
      BY Zenon
    <3> QED
      BY <1>1, <3>7, <3>8, <3>9, DecidedStep, ZenonT(40) DEF q
  <2> QED
    BY <2>2, <2>3, <2>4, Zenon
<1> QED
  BY <1>2, <1>6, <1>7, <1>8, <1>9, Zenon

-----------------------------------------------------------------------------
(* The way out, and the record of it.                                       *)

\* A round trip that may have sent the request, and its result.
LEMMA ResultStep ==
  ASSUME ServicesInv, NEW r \in Requests, requests[r].pc = "forward", NEW ok \in BOOLEAN,
         sent \subseteq sent', sent' \subseteq Requests \X Hosts, \A s \in sent' : s \in sent \/ s[1] = r,
         \A s \in sent' : s[1] = r => \/ s[2] \in Services!optionsOf(r).policy
                                      \/ Services!effectiveMode(Services!optionsOf(r)) = "audit",
         ok => \A i \in DOMAIN requests[r].in.hosts : <<r, requests[r].in.hosts[i]>> \in sent',
         requests' = [requests EXCEPT ![r] = Services!Result(requests[r], ok)],
         UNCHANGED <<sandboxes, registry, log>>
  PROVE  ServicesInv'
<1>1. PICK q \in RequestType :
            /\ q = requests[r] /\ Handler(r, q, sandboxes, registry, sent, log)
            /\ q.in \in Services!Inputs /\ LookedUp(q, sandboxes[q.gen])
  BY Serving
<1>2. q.pc = "forward"
  BY <1>1, Zenon
<1>3. PICK opts : opts = sandboxes[q.gen].opts
  BY Zenon
<1>4. /\ q.gen \in Gens /\ sandboxes[q.gen].phase \in {"attached", "stopped", "closed"}
      /\ Logged(r, q, sent, log) /\ Audited(r, q, registry)
  BY <1>1, <1>2, Zenon DEF Handler
<1>5. \A s \in sent' : s[1] = r => s[2] \in opts.policy \/ Services!effectiveMode(opts) = "audit"
  BY <1>1, <1>3, Zenon DEF Services!optionsOf
<1>6. \A e \in log : e.req = r =>
         /\ e.event.result # "denied"
         /\ e.event.result = "allowed" /\ q.in.kind # "connect" => <<r, e.event.host>> \in sent'
  BY <1>2, <1>4, Zenon DEF Logged
<1>7. ASSUME NEW q2 \in RequestType, Same(q, q2), q2.pc \in {"done", "strip", "record"},
             requests' = [requests EXCEPT ![r] = q2],
             q2.pc = "done" /\ q2.answer = "ok" => q.in.kind = "connect",
             q2.pc = "done" => q2.answer # "denied",
             q2.pc = "strip" => ok,
             q2.pc = "record" => Recording(r, q2, sent') /\ q2.next # "forward"
      PROVE  ServicesInv'
  <2>1. Logged(r, q2, sent', log)
    BY <1>6, <1>7 DEF Logged, Same
  <2>2. LookedUp(q2, sandboxes[q.gen]) /\ Audited(r, q2, registry)
    BY <1>1, <1>2, <1>4, <1>7, Zenon DEF LookedUp, Audited, Same
  <2>3. q2.pc = "strip" => \A i \in DOMAIN q2.in.hosts : <<r, q2.in.hosts[i]>> \in sent'
    BY <1>1, <1>7, Zenon DEF Same
  <2>4. Handler(r, q2, sandboxes, registry, sent', log)
    BY <1>1, <1>3, <1>4, <1>5, <1>7, <2>1, <2>2, <2>3, Zenon DEF Handler, Same
  <2>5. registry \in RegistryType /\ log \subseteq EntryType
    BY Zenon DEF ServicesInv, ServicesType
  <2> QED
    BY <1>7, <2>4, <2>5, RequestStep, ZenonT(40)
<1>8. "ok" \in Answers /\ "error" \in Answers
  BY Zenon DEF Answers
<1>9. CASE q.in.kind = "connect"
  <2>1. PICK a \in Answers : a = IF ok THEN "ok" ELSE "error"
    BY <1>8
  <2>2. PICK q2 : q2 = Services!Finish(q, a)
    OBVIOUS
  <2>3. q2 \in RequestType /\ Same(q, q2) /\ q2.pc = "done" /\ q2.answer = a
    BY <2>2, FinishFacts, Zenon
  <2>4. requests' = [requests EXCEPT ![r] = q2]
    BY <1>1, <1>9, <2>1, <2>2, Zenon DEF Services!Result
  <2> QED
    BY <1>7, <1>9, <2>1, <2>3, <2>4, ZenonT(40)
<1>10. CASE q.in.kind = "dns" /\ ok
  <2>1. PICK q2 : q2 = [q EXCEPT !.pc = "strip"]
    BY Zenon
  <2>2. q2 \in RequestType /\ Same(q, q2) /\ q2.pc = "strip"
    BY <2>1, Zenon DEF RequestType, Same
  <2>3. requests' = [requests EXCEPT ![r] = q2]
    BY <1>1, <1>10, <2>1 DEF Services!Result
  <2> QED
    BY <1>7, <1>10, <2>2, <2>3, Zenon
<1>11. CASE q.in.kind # "connect" /\ ~ (q.in.kind = "dns" /\ ok)
  <2>1. PICK res \in {"allowed", "upstream_error"} : res = IF ok THEN "allowed" ELSE "upstream_error"
    OBVIOUS
  <2>2. PICK next \in {"ok", "error"} : next = IF ok THEN "ok" ELSE "error"
    BY Zenon
  <2>3. PICK evs : evs = Services!eventsFor(q, res)
    BY Zenon
  <2>4. /\ evs \in Seq(EventType) /\ evs # <<>> /\ DOMAIN evs = DOMAIN q.in.hosts
        /\ \A i \in DOMAIN evs : evs[i].result = res /\ evs[i].host = q.in.hosts[i]
    BY <1>1, <2>3, EventsFacts
  <2>5. PICK q2 : q2 = Services!Record(q, evs, next)
    OBVIOUS
  <2>6. q2 \in RequestType /\ Same(q, q2) /\ q2.pc = "record" /\ q2.events = evs /\ q2.next = next
    <3>1. next \in Answers \cup {"forward"}
      BY <1>8, Zenon
    <3> QED
      BY <2>4, <2>5, <3>1, RecordFacts
  <2>7. Recording(r, q2, sent')
    BY <1>1, <2>1, <2>2, <2>4, <2>6, Zenon DEF Recording
  <2>8. requests' = [requests EXCEPT ![r] = q2]
    BY <1>1, <1>11, <2>1, <2>2, <2>3, <2>5, Zenon DEF Services!Result
  <2> QED
    BY <1>7, <2>2, <2>6, <2>7, <2>8, ZenonT(40)
<1> QED
  BY <1>9, <1>10, <1>11, Zenon

\* transport.RoundTrip, dialTunnel and the DNS servers: what goes out is permitted
\* by the sandbox's own policy, because its context is not cancelled.
LEMMA RoundTripStep ==
  ASSUME ServicesInv, NEW r \in Requests, Services!RoundTrip(r) \/ Services!RoundTripFails(r)
  PROVE  ServicesInv'
<1>1. requests[r].pc = "forward"
  BY Zenon DEF Services!RoundTrip, Services!RoundTripFails
<1>2. PICK q \in RequestType :
            /\ q = requests[r] /\ Handler(r, q, sandboxes, registry, sent, log)
            /\ q.in \in Services!Inputs /\ LookedUp(q, sandboxes[q.gen])
  BY <1>1, Serving, Zenon
<1>3. PICK opts : opts = sandboxes[q.gen].opts
  OBVIOUS
<1>4. opts = Services!optionsOf(r) /\ q.pc = "forward"
  BY <1>1, <1>2, <1>3, Zenon DEF Services!optionsOf
<1>5. /\ \A s \in sent : s[1] = r => s[2] \in opts.policy \/ Services!effectiveMode(opts) = "audit"
      /\ Permitted(q)
  BY <1>2, <1>3, <1>4, Zenon DEF Handler, Permitted
<1>6. sent \subseteq Requests \X Hosts
  BY Zenon DEF ServicesInv, ServicesType
<1>7. CASE Services!RoundTrip(r)
  <2>1. /\ sent' = sent \cup {<<r, q.in.hosts[i]>> : i \in DOMAIN q.in.hosts}
        /\ ~ sandboxes[q.gen].cancelled /\ UNCHANGED <<sandboxes, registry, log>>
    BY <1>2, <1>7, Zenon DEF Services!RoundTrip
  <2>2. PICK ok \in BOOLEAN : requests' = [requests EXCEPT ![r] = Services!Result(requests[r], ok)]
    BY <1>7, Zenon DEF Services!RoundTrip, Services!Set
  <2>3. \A i \in DOMAIN q.in.hosts : q.in.hosts[i] \in Hosts
    <3>1. q.in.hosts \in Seq(Hosts)
      BY Zenon DEF RequestType, InputType
    <3> QED
      BY <3>1
  <2>4. q.policy = opts.policy /\ q.mode = Services!effectiveMode(opts)
    BY <1>2, <1>3, <1>4, <2>1, Zenon DEF LookedUp
  <2>5. sent \subseteq sent' /\ sent' \subseteq Requests \X Hosts
    BY <1>6, <2>1, <2>3
  <2>6. \A s \in sent' : s \in sent \/ s[1] = r
    BY <2>1
  <2>7. \A s \in sent' : s[1] = r => s[2] \in opts.policy \/ Services!effectiveMode(opts) = "audit"
    BY <1>5, <2>1, <2>4 DEF Permitted
  <2>8. \A i \in DOMAIN requests[r].in.hosts : <<r, requests[r].in.hosts[i]>> \in sent'
    BY <1>2, <2>1, Zenon
  <2> QED
    BY <1>1, <1>4, <2>1, <2>2, <2>5, <2>6, <2>7, <2>8, ResultStep, ZenonT(40)
<1>8. CASE Services!RoundTripFails(r)
  <2>1. /\ requests' = [requests EXCEPT ![r] = Services!Result(requests[r], FALSE)]
        /\ UNCHANGED <<sandboxes, registry, log>> /\ sent' = sent
    BY <1>8, Zenon DEF Services!RoundTripFails, Services!Set
  <2> QED
    BY <1>1, <1>4, <1>5, <1>6, <2>1, ResultStep, Zenon
<1> QED
  BY <1>7, <1>8, Zenon

\* The answer of a lookup has come, and is unpacked in transparent mode.
LEMMA StripStep ==
  ASSUME ServicesInv, NEW r \in Requests, Services!stripAAAARecords(r)
  PROVE  ServicesInv'
<1>1. requests[r].pc = "strip" /\ UNCHANGED <<sandboxes, registry, sent, log>>
  BY Zenon DEF Services!stripAAAARecords
<1>2. \/ requests' = [requests EXCEPT ![r] = Services!Finish(requests[r], "error")]
      \/ requests' = [requests EXCEPT ![r] =
                        Services!Record(requests[r], Services!eventsFor(requests[r], "allowed"), "ok")]
  BY Zenon DEF Services!stripAAAARecords, Services!Set
<1>3. CASE requests' = [requests EXCEPT ![r] = Services!Finish(requests[r], "error")]
  BY <1>1, <1>3, ErrorStep, Zenon
<1>4. CASE requests' = [requests EXCEPT ![r] =
                          Services!Record(requests[r], Services!eventsFor(requests[r], "allowed"), "ok")]
  <2>1. PICK q \in RequestType :
            /\ q = requests[r] /\ Handler(r, q, sandboxes, registry, sent, log)
            /\ q.in \in Services!Inputs /\ LookedUp(q, sandboxes[q.gen])
    BY <1>1, Serving, Zenon
  <2>2. PICK evs : evs = Services!eventsFor(q, "allowed")
    BY Zenon
  <2>3. /\ evs \in Seq(EventType) /\ evs # <<>> /\ DOMAIN evs = DOMAIN q.in.hosts
        /\ \A i \in DOMAIN evs : evs[i].result = "allowed" /\ evs[i].host = q.in.hosts[i]
    BY <2>1, <2>2, EventsFacts
  <2>4. PICK q2 : q2 = Services!Record(q, evs, "ok")
    BY Zenon
  <2>5. q2 \in RequestType /\ Same(q, q2) /\ q2.pc = "record" /\ q2.events = evs /\ q2.next = "ok"
    <3>1. "ok" \in Answers \cup {"forward"}
      BY Zenon DEF Answers
    <3> QED
      BY <2>3, <2>4, <3>1, RecordFacts
  <2>6. q.pc = "strip" /\ \A i \in DOMAIN q.in.hosts : <<r, q.in.hosts[i]>> \in sent
    BY <1>1, <2>1, Zenon DEF Handler
  <2>7. Recording(r, q2, sent)
    BY <2>3, <2>5, <2>6, Zenon DEF Recording
  <2>8. LookedUp(q2, sandboxes[q.gen]) /\ Audited(r, q2, registry)
    BY <2>1, <2>5, <2>6, Zenon DEF LookedUp, Audited, Same
  <2>9. Logged(r, q2, sent, log)
    BY <2>1, <2>5, <2>6, Zenon DEF Handler, Logged, Same
  <2>10. Handler(r, q2, sandboxes, registry, sent, log)
    BY <2>1, <2>5, <2>6, <2>7, <2>8, <2>9, Zenon DEF Handler, Same
  <2> QED
    BY <1>1, <1>4, <2>1, <2>2, <2>4, <2>5, <2>10, QuietRequestStep, ZenonT(40)
<1> QED
  BY <1>2, <1>3, <1>4, Zenon

\* One event is recorded, for a name that is registered, and the handler goes on.
LEMMA RecordStep ==
  ASSUME ServicesInv, NEW r \in Requests, Services!recordAccessEvent(r)
  PROVE  ServicesInv'
<1>1. requests[r].pc = "record" /\ sandboxes' = sandboxes /\ sent' = sent
  BY Zenon DEF Services!recordAccessEvent
<1>2. PICK q \in RequestType :
            /\ q = requests[r] /\ Handler(r, q, sandboxes, registry, sent, log)
            /\ q.gen # 0 /\ q.in \in Services!Inputs /\ LookedUp(q, sandboxes[q.gen])
  BY <1>1, Serving, Zenon
<1>3. q.pc = "record"
  BY <1>1, <1>2, Zenon
<1>4. Recording(r, q, sent) /\ Logged(r, q, sent, log) /\ (q.next = "forward" => Permitted(q))
  BY <1>2, <1>3, Zenon DEF Handler, Permitted
<1>5. PICK ev \in EventType : ev = Head(q.events) /\ \E i \in DOMAIN q.events : ev = q.events[i]
  <2>1. q.events \in Seq(EventType) /\ q.events # <<>>
    BY <1>4, Zenon DEF RequestType, Recording
  <2> QED
    BY <2>1
<1>6. /\ q.next = "denied" => ev.result = "denied"
      /\ q.next = "ok" => <<r, ev.host>> \in sent
      /\ q.next = "error" => ev.result = "upstream_error"
      /\ q.next # "denied" => ev.result # "denied"
  BY <1>4, <1>5, Zenon DEF Recording
<1>7. PICK entry \in EntryType : entry = [req |-> r, event |-> ev]
  BY Zenon DEF EntryType
<1>8. entry.req = r /\ entry.event = ev
  BY <1>7
<1>9. PICK rest : rest = [q EXCEPT !.events = Tail(@)]
  BY Zenon
<1>10. /\ registry' = IF registry.policy # 0 THEN [registry EXCEPT !.audit = @ \cup {entry}] ELSE registry
       /\ log' = IF registry.policy # 0 THEN log \cup {entry} ELSE log
       /\ requests' = [requests EXCEPT ![r] =
                         IF rest.events # <<>> THEN rest
                         ELSE IF rest.next = "forward" THEN Services!Forward(rest)
                         ELSE Services!Finish(rest, rest.next)]
  BY <1>2, <1>5, <1>7, <1>9 DEF Services!recordAccessEvent, Services!Set
<1>11. /\ registry' \in RegistryType /\ registry'.policy = registry.policy
       /\ registry'.sandbox = registry.sandbox /\ registry.audit \subseteq registry'.audit
       /\ registry.policy # 0 => entry \in registry'.audit
  <2>1. registry \in RegistryType
    BY Zenon DEF ServicesInv, ServicesType
  <2> QED
    BY <1>10, <2>1, Zenon DEF RegistryType
<1>12. log' \subseteq EntryType /\ \A e \in log' : e \in log \/ e = entry
  <2>1. log \subseteq EntryType
    BY Zenon DEF ServicesInv, ServicesType
  <2> QED
    BY <1>10, <2>1, Zenon
<1>13. /\ rest \in RequestType /\ Same(q, rest) /\ rest.pc = "record" /\ rest.next = q.next
       /\ rest.events = Tail(q.events)
  <2>1. q.events \in Seq(EventType) /\ q.events # <<>>
    BY <1>4, Zenon DEF RequestType, Recording
  <2>2. Tail(q.events) \in Seq(EventType)
    BY <2>1
  <2> QED
    BY <1>3, <1>9, <2>2, Zenon DEF RequestType, Same
<1>14. \A e \in log' : e.req = r =>
          /\ e.event.result = "denied" => Unsent(r, sent) /\ q.next = "denied"
          /\ e.event.result = "allowed" /\ q.in.kind # "connect" => <<r, e.event.host>> \in sent
  <2>1. ev.result = "denied" => q.next = "denied" /\ Unsent(r, sent)
    BY <1>4, <1>6, Zenon DEF Recording
  <2>2. ev.result = "allowed" /\ q.in.kind # "connect" => <<r, ev.host>> \in sent
    BY <1>4, <1>6, Zenon DEF Recording
  <2> QED
    BY <1>3, <1>4, <1>8, <1>12, <2>1, <2>2, Zenon DEF Logged
<1>15. ASSUME NEW q2 \in RequestType, Same(q, q2), q2.pc \in {"record", "forward", "done"},
              requests' = [requests EXCEPT ![r] = q2],
              q2.pc = "record" => q2.next = q.next /\ Recording(r, q2, sent),
              q2.pc = "forward" => q.next = "forward"
       PROVE  ServicesInv'
  <2>1. Logged(r, q2, sent, log')
    BY <1>14, <1>15, Zenon DEF Logged, Same
  <2>2. LookedUp(q2, sandboxes[q.gen])
    BY <1>2, <1>3, <1>15, Zenon DEF LookedUp, Same
  <2>3. Audited(r, q2, registry')
    BY <1>2, <1>8, <1>11, <1>15, Zenon DEF Audited, Same
  <2>4. q2.pc = "forward" \/ (q2.pc = "record" /\ q2.next = "forward") => Permitted(q2)
    BY <1>4, <1>15, Zenon DEF Permitted, Same
  <2>5. q2.pc = "forward" => Unsent(r, sent)
    BY <1>4, <1>15, Zenon DEF Recording
  <2>6. Handler(r, q2, sandboxes, registry', sent, log')
    BY <1>2, <1>3, <1>15, <2>1, <2>2, <2>3, <2>4, <2>5 DEF Handler, Same, Permitted
  <2>7. sent \subseteq Requests \X Hosts
    BY Zenon DEF ServicesInv, ServicesType
  <2>8. \A e \in log' : e \in log \/ e.req = r
    BY <1>8, <1>12, Zenon
  <2> QED
    BY <1>1, <1>11, <1>12, <1>15, <2>6, <2>7, <2>8, RequestStep, ZenonT(40)
<1>16. CASE rest.events # <<>>
  <2>1. q.events \in Seq(EventType) /\ q.events # <<>>
    BY <1>4, Zenon DEF RequestType, Recording
  <2>2. \A i \in DOMAIN rest.events : i + 1 \in DOMAIN q.events /\ rest.events[i] = q.events[i + 1]
    BY <1>13, <2>1
  <2>3. Recording(r, rest, sent)
    BY <1>4, <1>13, <1>16, <2>2, Zenon DEF Recording, Same
  <2>4. requests' = [requests EXCEPT ![r] = rest]
    BY <1>10, <1>16, Zenon
  <2> QED
    BY <1>13, <1>15, <2>3, <2>4, Zenon
<1>17. CASE rest.events = <<>> /\ q.next = "forward"
  <2>1. PICK q2 : q2 = Services!Forward(rest)
    OBVIOUS
  <2>2. q2 \in RequestType /\ Same(rest, q2) /\ q2.pc = "forward"
    BY <1>13, <2>1, ForwardFacts, Zenon
  <2>3. requests' = [requests EXCEPT ![r] = q2]
    BY <1>10, <1>13, <1>17, <2>1, Zenon
  <2> QED
    BY <1>13, <1>15, <1>17, <2>2, <2>3, Zenon DEF Same
<1>18. CASE rest.events = <<>> /\ q.next # "forward"
  <2>1. PICK q2 : q2 = Services!Finish(rest, rest.next)
    OBVIOUS
  <2>2. rest.next \in Answers
    BY <1>4, <1>13, <1>18 DEF Recording, Answers
  <2>3. q2 \in RequestType /\ Same(rest, q2) /\ q2.pc = "done"
    BY <1>13, <2>1, <2>2, FinishFacts, Zenon
  <2>4. requests' = [requests EXCEPT ![r] = q2]
    BY <1>10, <1>13, <1>18, <2>1, Zenon
  <2> QED
    BY <1>13, <1>15, <2>3, <2>4, Zenon DEF Same
<1> QED
  BY <1>16, <1>17, <1>18, Zenon

-----------------------------------------------------------------------------
LEMMA RequestsInit == Init => RequestsInv
<1> SUFFICES ASSUME Services!Init PROVE ServicesInv
  BY Zenon DEF Init, RequestsInv
<1>1. Services!NoSandbox \in SandboxType /\ Services!NoSandbox.phase = "none" /\ ~ Services!NoSandbox.cancelled
  BY Zenon DEF Services!NoSandbox, SandboxType, OptionsType, Modes
<1>2. Services!NoRequest \in RequestType /\ Services!NoRequest.pc = "idle"
  BY DEF Services!NoRequest, RequestType, InputType, Modes
<1>3. /\ sandboxes = [g \in Gens |-> Services!NoSandbox]
      /\ registry = [policy |-> 0, sandbox |-> 0, audit |-> {}]
      /\ requests = [r \in Requests |-> Services!NoRequest]
      /\ sent = {} /\ log = {}
  BY Zenon DEF Services!Init, Gens
<1>4. registry \in RegistryType
  BY <1>3, Zenon DEF RegistryType
<1>5. ServicesType
  BY <1>1, <1>2, <1>3, <1>4, Zenon DEF ServicesType
<1>6. RegistryInv(sandboxes, registry)
  BY <1>1, <1>3, Zenon DEF RegistryInv, RegistryFor
<1>7. ASSUME NEW r \in Requests PROVE Handler(r, requests[r], sandboxes, registry, sent, log)
  BY <1>2, <1>3, Zenon DEF Handler, Unsent
<1> QED
  BY <1>5, <1>6, <1>7, Zenon DEF ServicesInv

LEMMA RequestsNext == RequestsInv /\ [Next]_vars => RequestsInv'
<1> SUFFICES ASSUME RequestsInv, [Next]_vars, part' = "requests"
             PROVE  ServicesInv'
  BY DEF RequestsInv
<1>1. CASE part = "requests" /\ Services!Next
  <2>1. ServicesInv
    BY <1>1, Zenon DEF RequestsInv
  <2>2. ASSUME NEW g \in Gens,
               Services!Register(g) \/ Services!Attach(g) \/ Services!StopRuntime(g) \/ Services!Unregister(g)
        PROVE  ServicesInv'
    BY <2>1, <2>2, SandboxStep, Zenon
  <2>3. ASSUME NEW r \in Requests,
               \/ Services!Arrive(r) \/ Services!policyForSandbox(r) \/ Services!policyModeForSandbox(r)
               \/ Services!Decide(r) \/ Services!RoundTrip(r) \/ Services!RoundTripFails(r)
               \/ Services!stripAAAARecords(r) \/ Services!recordAccessEvent(r)
        PROVE  ServicesInv'
    BY <2>1, <2>3, ArriveStep, PolicyStep, ModeStep, DecideStep, RoundTripStep, StripStep, RecordStep, Zenon
  <2> QED
    BY <1>1, <2>2, <2>3, Zenon DEF Services!Next, Gens
<1>2. CASE UNCHANGED vars
  <2>1. part' = part /\ sandboxes' = sandboxes /\ registry' = registry /\ requests' = requests /\ sent' = sent /\ log' = log
    BY <1>2, Zenon DEF vars, requestVars
  <2>2. ServicesInv
    BY <2>1, Zenon DEF RequestsInv
  <2> QED
    BY <2>1, <2>2, Zenon DEF ServicesInv, ServicesType
<1> QED
  BY <1>1, <1>2, Zenon DEF Next

\* Nothing goes out for a payload that the policy of its own sandbox denies, unless
\* that sandbox is in audit mode: for any number of requests, each handled in steps
\* that look up by name, and of sandboxes that take that name one after another.
THEOREM OwnPolicySafe == Spec => []OwnPolicyRules
<1>1. RequestsInv => OwnPolicyRules
  <2> SUFFICES ASSUME ServicesInv, NEW s \in sent
               PROVE  \/ s[2] \in Services!optionsOf(s[1]).policy
                      \/ Services!effectiveMode(Services!optionsOf(s[1])) = "audit"
    BY Zenon DEF RequestsInv, OwnPolicyRules, Services!OwnPolicyRules
  <2>1. PICK r \in Requests : s[1] = r
    BY DEF ServicesInv, ServicesType
  <2>2. Handler(r, requests[r], sandboxes, registry, sent, log)
    BY Zenon DEF ServicesInv
  <2>3. requests[r].pc # "idle"
    BY <2>1, <2>2, Zenon DEF Handler, Unsent
  <2> QED
    BY <2>1, <2>2, <2>3, Zenon DEF Handler, Services!optionsOf
<1> QED
  BY RequestsInit, RequestsNext, <1>1, PTL DEF Spec

\* The log and the audit state tell what happened: nothing of a denied request has
\* gone out, what is logged as allowed has (but for a CONNECT, which is recorded
\* before its dial), and whoever was answered is in the audit state of their
\* sandbox while it is registered.
THEOREM AuditSafe == Spec => []AuditIsTrue
<1>1. RequestsInv => AuditIsTrue
  <2> SUFFICES ASSUME ServicesInv
               PROVE  Services!EventTellsOutcome /\ Services!AnsweredIsAudited
    BY Zenon DEF RequestsInv, AuditIsTrue
  <2>1. ASSUME NEW e \in log
        PROVE  /\ e.event.result = "denied" => \A s \in sent : s[1] # e.req
               /\ e.event.result = "allowed" /\ requests[e.req].in.kind # "connect" => <<e.req, e.event.host>> \in sent
    <3>1. PICK r \in Requests : e.req = r
      BY DEF ServicesInv, ServicesType, EntryType
    <3>2. Handler(r, requests[r], sandboxes, registry, sent, log)
      BY Zenon DEF ServicesInv
    <3>3. Logged(r, requests[r], sent, log)
      BY <3>1, <3>2, Zenon DEF Handler
    <3> QED
      BY <3>1, <3>3, Zenon DEF Logged, Unsent
  <2>2. ASSUME NEW r \in Requests, requests[r].pc = "done", requests[r].answer \in {"denied", "ok"},
               registry.policy = requests[r].gen
        PROVE  \E e \in registry.audit : e.req = r
    <3>1. Handler(r, requests[r], sandboxes, registry, sent, log)
      BY Zenon DEF ServicesInv
    <3>2. Audited(r, requests[r], registry)
      BY <2>2, <3>1, Zenon DEF Handler
    <3> QED
      BY <2>2, <3>2, Zenon DEF Audited
  <2> QED
    BY <2>1, <2>2, Zenon DEF Services!EventTellsOutcome, Services!AnsweredIsAudited
<1> QED
  BY RequestsInit, RequestsNext, <1>1, PTL DEF Spec
=============================================================================
