----------------------------- MODULE RoundTrips -----------------------------
(***************************************************************************)
(* The one-shot requests of the helper over the bridge, and the ingress     *)
(* handlers that make them.  Connections are CONNECT requests that are      *)
(* intercepted ("mitm") and redirected connections that carry TLS ("tls"),  *)
(* cleartext HTTP ("http") or something else ("opaque"); each is authorized *)
(* by the host and the first three are then served.  Slots are the          *)
(* goroutines that serve one HTTP request or DNS query after the other.     *)
(* Each round trip has an id of its own and a channel of capacity one in    *)
(* `pending`; ReadLoop delivers a response to the channel its id names, or  *)
(* drops it.  What a request asks for is abstracted to its kind, a response *)
(* to its class of status and whether it carries an error.  The ghost       *)
(* field `who` of an envelope says whose request it belongs to.             *)
(***************************************************************************)
EXTENDS Naturals, Sequences, FiniteSets

CONSTANTS
    Conns,            \* intercepted and redirected connections
    Slots,            \* goroutines that serve requests
    Flows,            \* the kinds of connection that are accepted
    MITMEnabled,      \* Bridge.MITMEnabled
    MaxTrips,         \* bound: round trips of one behaviour
    TripCap           \* envelopes a socket buffer of their bridge holds

VARIABLES
    tripToHelper, tripToHost, tripHostEnd, tripHelperEnd,   \* the bridge: BridgeConn
    nextID,           \* RuntimeBridge.nextID
    pendingIDs,       \* RuntimeBridge.pending: the ids that have a channel
    ch,               \* the channel of an id: a sequence of length at most one
    trip,             \* the round trip a goroutine is in
    conn,             \* how far the handler of a connection is
    flow,             \* what kind of connection it is
    origin,           \* where the request of a slot came from
    reply,            \* what the slot answered last
    handling,         \* the requests a goroutine of the host is handling
    tunnels,          \* Client.tunnels: approved requests, with a connection to their destination
    runFailed,        \* failCurrentRun was called by a handler
    approved          \* ghost: connections the host approved

Conn == INSTANCE BridgeConn WITH
    SockCap <- TripCap, toHelper <- tripToHelper, toHost <- tripToHost,
    hostEnd <- tripHostEnd, helperEnd <- tripHelperEnd

tripConnVars == <<tripToHelper, tripToHost, tripHostEnd, tripHelperEnd>>
tripVars == <<nextID, pendingIDs, ch, trip>>
ingressVars == <<conn, flow, origin, reply>>
tripHostVars == <<handling, tunnels, runFailed, approved>>
allTripVars == <<tripConnVars, tripVars, ingressVars, tripHostVars>>

Callers == Conns \cup Slots

Parameters ==
    /\ Conns \cap Slots = {}
    /\ Conns \cap {"none", "proxy", "dns"} = {}
    /\ Flows \subseteq {"mitm", "tls", "http", "opaque"}
    /\ MITMEnabled \in BOOLEAN
    /\ MaxTrips \in Nat
    /\ TripCap \in Nat \ {0}

ASSUME TripsAssumption == Parameters

RequestKinds == {"ProxyRequest", "ConnectRequest", "DNSRequest", "LeafCertRequest", "MITMRequest"}
Statuses == {"zero", "2xx", "other"}
Responses == [status : Statuses, err : BOOLEAN]
nil == [status |-> "nil", err |-> FALSE]         \* no response of the ProxyHost
failure == [status |-> "error", err |-> TRUE]    \* a round trip returns an error
Envelopes == [kind : RequestKinds \cup {"TunnelFrame"}, id : Nat, who : Callers, status : Statuses, err : BOOLEAN]
NoTrip == [st |-> "idle", id |-> 0, kind |-> "none"]
ConnStates == {"none", "authorize", "cert", "handshake", "serve", "closed"}
Replies == {"none", "ok", "denied", "400", "405", "413", "502"}

TripsInit ==
    /\ Conn!ConnInit
    /\ nextID = 0 /\ pendingIDs = {} /\ ch = [i \in 1 .. MaxTrips |-> <<>>]
    /\ trip = [a \in Callers |-> NoTrip]
    /\ conn = [c \in Conns |-> "none"] /\ flow \in [Conns -> Flows]
    /\ origin = [q \in Slots |-> "none"] /\ reply = [q \in Slots |-> "none"]
    /\ handling = {} /\ tunnels = {} /\ runFailed = FALSE /\ approved = {}

-----------------------------------------------------------------------------
(* A round trip: register, send, wait, unregister.                         *)

HelperRuns == tripHelperEnd = "open"

\* Mutant: ids are reused once they are free.
RegisterReusesID(a, kind) ==
    /\ nextID < MaxTrips
    /\ nextID' = CHOOSE i \in 1 .. MaxTrips : i \notin pendingIDs /\ \A j \in 1 .. i - 1 : j \in pendingIDs
    /\ pendingIDs' = pendingIDs \cup {nextID'}
    /\ trip' = [trip EXCEPT ![a] = [st |-> "send", id |-> nextID', kind |-> kind]]
    /\ UNCHANGED ch

\* The first statements of every round trip: a fresh id and its channel.
Register(a, kind) ==
    /\ nextID < MaxTrips
    /\ nextID' = nextID + 1
    /\ pendingIDs' = pendingIDs \cup {nextID'}
    /\ trip' = [trip EXCEPT ![a] = [st |-> "send", id |-> nextID', kind |-> kind]]
    /\ UNCHANGED ch

\* The deferred delete, on every way out of a round trip.
Unregister(a) ==
    /\ pendingIDs' = pendingIDs \ {trip[a].id}
    /\ ch' = [ch EXCEPT ![trip[a].id] = <<>>]
    /\ trip' = [trip EXCEPT ![a] = NoTrip]
    /\ UNCHANGED nextID

\* b.Send of the request.
TripSend(a) ==
    /\ HelperRuns /\ trip[a].st = "send"
    /\ Conn!HelperSend([kind |-> trip[a].kind, id |-> trip[a].id, who |-> a, status |-> "zero", err |-> FALSE])
    /\ trip' = [trip EXCEPT ![a].st = "wait"]
    /\ UNCHANGED <<tripToHelper, tripHostEnd, tripHelperEnd, nextID, pendingIDs, ch, ingressVars, tripHostVars>>

\* case <-ch: there is a response.
Answered(a) == trip[a].st = "wait" /\ ch[trip[a].id] # <<>>

\* The error returns: the send fails, or ctx is done (its deadline, or the
\* client went away).  DNS queries are made with a context that never ends.
TripFails(a) ==
    \/ trip[a].st = "send" /\ ~Conn!HelperCanSend
    \/ trip[a].st = "wait" /\ trip[a].kind # "DNSRequest"

\* What the five functions make of the response they got: an error, or it.
ProxyRoundTrip(r) == r
AuthorizeConnectResult(r) == r
DNSRoundTrip(r) == IF r.err THEN failure ELSE r
RequestLeafCert(r) == IF r.err THEN failure ELSE r
MITMRoundTrip(r) == IF r.err /\ r.status = "zero" THEN failure ELSE r

\* deliver: the channel takes one response; an unknown id or a second
\* response is dropped.
deliverTrip ==
    LET env == Head(tripToHelper) IN
    /\ HelperRuns /\ tripToHelper # <<>>
    /\ tripToHelper' = Tail(tripToHelper)
    /\ ch' = IF env.kind # "TunnelFrame" /\ env.id \in pendingIDs /\ ch[env.id] = <<>>
             THEN [ch EXCEPT ![env.id] = <<env>>] ELSE ch
    /\ UNCHANGED <<tripToHost, tripHostEnd, tripHelperEnd, nextID, pendingIDs, trip, ingressVars, tripHostVars>>

\* ReadLoop reads EOF: Run returns and the helper's process ends.
ReadLoopEnds ==
    /\ HelperRuns /\ tripHostEnd = "closed" /\ tripToHelper = <<>>
    /\ tripHelperEnd' = "closed"
    /\ UNCHANGED <<tripToHelper, tripToHost, tripHostEnd, tripVars, ingressVars, tripHostVars>>

-----------------------------------------------------------------------------
(* Connections: HandleMITMConnect, ServeTransparentTCPConn.                *)

SetConn(c, st) == conn' = [conn EXCEPT ![c] = st] /\ UNCHANGED <<flow, origin, reply>>

\* The target cannot be parsed, or a redirected connection has no known
\* destination: it is closed before the host hears of it.
Reject(c) ==
    /\ HelperRuns /\ conn[c] = "none"
    /\ SetConn(c, "closed")
    /\ UNCHANGED <<tripConnVars, tripVars, tripHostVars>>

\* HandleMITMConnect and authorizeTransparentTCPConn call authorizeConnect.
Authorize(c) ==
    /\ HelperRuns /\ conn[c] = "none"
    /\ Register(c, "ConnectRequest")
    /\ SetConn(c, "authorize")
    /\ UNCHANGED <<tripConnVars, tripHostVars>>

\* Mutant: any answer approves.
ApprovesAny(r) == r.status # "zero"

\* The response approves the connection.
Approves(r) == ~r.err /\ (IF r.status = "zero" THEN "other" ELSE r.status) = "2xx"

\* What follows the approval: a certificate for an intercepted connection
\* (a redirected one is only intercepted if MITM is enabled), HTTP service
\* for a cleartext one, a reset for what is neither.
AfterApproval(c) ==
    CASE flow[c] = "mitm" -> "cert"
      [] flow[c] = "tls" -> IF MITMEnabled THEN "handshake" ELSE "closed"
      [] flow[c] = "http" -> "serve"
      [] flow[c] = "opaque" -> "closed"

\* The verdict is in: 200 or an error to the payload, or a reset.
Authorized(c) ==
    /\ HelperRuns /\ conn[c] = "authorize" /\ Answered(c)
    /\ Unregister(c)
    /\ SetConn(c, IF Approves(AuthorizeConnectResult(ch[trip[c].id][1])) THEN AfterApproval(c) ELSE "closed")
    /\ UNCHANGED <<tripConnVars, tripHostVars>>

\* Mutant: the wait has no deadline.
ConnTripFailsOnSend(c) ==
    /\ HelperRuns /\ conn[c] \in {"authorize", "cert"} /\ trip[c].st = "send" /\ ~Conn!HelperCanSend
    /\ Unregister(c)
    /\ SetConn(c, "closed")
    /\ UNCHANGED <<tripConnVars, tripHostVars>>

\* authorizeConnect or RequestLeafCert returns an error, within
\* connectHandshakeTimeout: the connection is closed.
ConnTripFails(c) ==
    /\ HelperRuns /\ conn[c] \in {"authorize", "cert"} /\ TripFails(c)
    /\ Unregister(c)
    /\ SetConn(c, "closed")
    /\ UNCHANGED <<tripConnVars, tripHostVars>>

\* The leaf certificate: asked for before the TLS handshake of an
\* intercepted CONNECT, and by GetCertificate in that of a redirected
\* connection.
AskLeafCert(c) ==
    /\ HelperRuns /\ trip[c].st = "idle"
    /\ conn[c] = IF flow[c] = "mitm" THEN "cert" ELSE "handshake"
    /\ Register(c, "LeafCertRequest")
    /\ SetConn(c, "cert")
    /\ UNCHANGED <<tripConnVars, tripHostVars>>

\* With the certificate the handshake is completed (or it fails).
GotLeafCert(c) ==
    /\ HelperRuns /\ conn[c] = "cert" /\ Answered(c)
    /\ Unregister(c)
    /\ \E completes \in BOOLEAN :
         SetConn(c, IF completes /\ RequestLeafCert(ch[trip[c].id][1]) # failure THEN "serve" ELSE "closed")
    /\ UNCHANGED <<tripConnVars, tripHostVars>>

\* A redirected connection whose handshake does not get as far as asking
\* for a certificate (no SNI and no destination, a bad ClientHello, silence)
\* ends by its deadline.
HandshakeFails(c) ==
    /\ HelperRuns /\ conn[c] = "handshake"
    /\ SetConn(c, "closed")
    /\ UNCHANGED <<tripConnVars, tripVars, tripHostVars>>

\* The client closes; the requests that are being served have their context
\* cancelled (SlotTripFails).
ConnCloses(c) ==
    /\ HelperRuns /\ conn[c] = "serve"
    /\ SetConn(c, "closed")
    /\ UNCHANGED <<tripConnVars, tripVars, tripHostVars>>

-----------------------------------------------------------------------------
(* Requests: serveHTTPForward, mitmHandler, DNS queries.                   *)

\* The round trip of a request begins.
Forward(q, o, kind) ==
    /\ Register(q, kind)
    /\ origin' = [origin EXCEPT ![q] = o]
    /\ reply' = [reply EXCEPT ![q] = "none"]

\* The request is answered without a round trip.
Refuse(q, r) == reply' = [reply EXCEPT ![q] = r] /\ UNCHANGED <<tripVars, origin>>

CanServe(q) == HelperRuns /\ trip[q].st = "idle" /\ UNCHANGED <<tripConnVars, conn, flow, tripHostVars>>

\* The URL or the Host is missing (400), the body is too large (413) or
\* cannot be read (502); everything else is forwarded.
serveHTTPForward(q, o) ==
    \/ Forward(q, o, "ProxyRequest")
    \/ \E r \in {"400", "413", "502"} : Refuse(q, r)

\* As above, but the host is told of a body that is too large, and decides.
mitmHandler(q, o) == Forward(q, o, "MITMRequest") \/ Refuse(q, "502")

\* A request at the proxy listener that is not a CONNECT.
ProxyHandler(q) == CanServe(q) /\ serveHTTPForward(q, "proxy")

\* A request on a redirected cleartext connection; CONNECT is refused.
TransparentHTTPHandler(q) ==
    /\ CanServe(q)
    /\ \E c \in Conns :
         /\ conn[c] = "serve" /\ flow[c] = "http"
         /\ serveHTTPForward(q, c) \/ Refuse(q, "405")

\* A decrypted request (or HTTP/2 stream).
ServeMITMConn(q) ==
    /\ CanServe(q)
    /\ \E c \in Conns : conn[c] = "serve" /\ flow[c] # "http" /\ mitmHandler(q, c)

\* A DNS query of the payload.
DNSQuery(q) == CanServe(q) /\ Forward(q, "dns", "DNSRequest")

\* What the handler writes for the response it got.
ReplyFor(kind, r) ==
    LET result == CASE kind = "DNSRequest" -> DNSRoundTrip(r)
                    [] kind = "MITMRequest" -> MITMRoundTrip(r)
                    [] OTHER -> ProxyRoundTrip(r)
    IN  IF result = failure THEN "502"
        ELSE IF kind = "DNSRequest" \/ r.status = "2xx" THEN "ok" ELSE "denied"

SlotAnswered(q) ==
    /\ HelperRuns /\ Answered(q)
    /\ reply' = [reply EXCEPT ![q] = ReplyFor(trip[q].kind, ch[trip[q].id][1])]
    /\ origin' = [origin EXCEPT ![q] = "none"]
    /\ Unregister(q)
    /\ UNCHANGED <<tripConnVars, conn, flow, tripHostVars>>

SlotTripFails(q) ==
    /\ HelperRuns /\ TripFails(q)
    /\ reply' = [reply EXCEPT ![q] = "502"]
    /\ origin' = [origin EXCEPT ![q] = "none"]
    /\ Unregister(q)
    /\ UNCHANGED <<tripConnVars, conn, flow, tripHostVars>>

-----------------------------------------------------------------------------
(* The host: ReadLoop starts a goroutine per request, which answers it.    *)

HostRead ==
    /\ tripHostEnd = "open" /\ tripToHost # <<>>
    /\ handling' = handling \cup {Head(tripToHost)}
    /\ tripToHost' = Tail(tripToHost)
    /\ UNCHANGED <<tripToHelper, tripHostEnd, tripHelperEnd, tripVars, ingressVars, tunnels, runFailed, approved>>

\* What the handlers send for the answer of the ProxyHost, which may be nil.
EmptyResponse == [status |-> "other", err |-> TRUE]
WithStatus(r) == IF r.status = "zero" THEN [r EXCEPT !.status = "other"] ELSE r
HandleProxyRequest(r) == IF r = nil THEN EmptyResponse ELSE WithStatus(r)
HandleMITMRequest(r) == IF r = nil THEN EmptyResponse ELSE WithStatus(r)
HandleDNSRequest(r) == IF r = nil THEN [EmptyResponse EXCEPT !.status = "zero"] ELSE r
HandleLeafCertRequest(r) == IF r = nil THEN [EmptyResponse EXCEPT !.status = "zero"] ELSE r
HandleConnectRequest(r, dialed) ==
    LET normal == IF r = nil THEN EmptyResponse ELSE WithStatus(r)
    IN  IF normal.status = "2xx" /\ ~dialed THEN EmptyResponse ELSE normal

Handle(kind, r, dialed) ==
    CASE kind = "ConnectRequest" -> HandleConnectRequest(r, dialed)
      [] kind = "DNSRequest" -> HandleDNSRequest(r)
      [] kind = "LeafCertRequest" -> HandleLeafCertRequest(r)
      [] kind = "MITMRequest" -> HandleMITMRequest(r)
      [] OTHER -> HandleProxyRequest(r)

\* The answer is sent; an approved ConnectRequest has its destination
\* dialled first, and a tunnel registered and started.
HostAnswer(e) ==
    /\ e \in handling /\ tripHostEnd = "open"
    /\ \E r \in Responses \cup {nil}, dialed \in BOOLEAN :
         LET a == Handle(e.kind, r, dialed)
             tunnel == e.kind = "ConnectRequest" /\ a.status = "2xx"
         IN  /\ Conn!HostSend([e EXCEPT !.status = a.status, !.err = a.err])
             /\ tunnels' = IF tunnel THEN tunnels \cup {e} ELSE tunnels
             /\ approved' = IF tunnel /\ ~a.err THEN approved \cup {e.who} ELSE approved
    /\ handling' = handling \ {e}
    /\ UNCHANGED <<tripToHost, tripHostEnd, tripHelperEnd, tripVars, ingressVars, runFailed>>

\* The answer cannot be sent: the current run fails, except for a
\* ConnectRequest, whose tunnel is shut down.
HostAnswerFails(e) ==
    /\ e \in handling /\ ~Conn!HostCanSend
    /\ handling' = handling \ {e}
    /\ runFailed' = (runFailed \/ e.kind # "ConnectRequest")
    /\ UNCHANGED <<tripConnVars, tripVars, ingressVars, tunnels, approved>>

\* relayOutboundToTunnel: the destination of a tunnel speaks.
TunnelSpeaks(e) ==
    /\ e \in tunnels
    /\ Conn!HostSend([e EXCEPT !.kind = "TunnelFrame"])
    /\ UNCHANGED <<tripToHost, tripHostEnd, tripHelperEnd, tripVars, ingressVars, tripHostVars>>

\* Client.Close: the contexts end, the tunnels and the bridge are closed.
HostCloses ==
    /\ tripHostEnd = "open"
    /\ tripHostEnd' = "closed" /\ tunnels' = {}
    /\ UNCHANGED <<tripToHelper, tripToHost, tripHelperEnd, tripVars, ingressVars, handling, runFailed, approved>>

-----------------------------------------------------------------------------
HelperTripNext ==
    \/ deliverTrip
    \/ ReadLoopEnds
    \/ \E a \in Callers : TripSend(a)
    \/ \E c \in Conns : \/ Reject(c) \/ Authorize(c) \/ Authorized(c) \/ ConnTripFails(c)
                        \/ AskLeafCert(c) \/ GotLeafCert(c) \/ HandshakeFails(c) \/ ConnCloses(c)
    \/ \E q \in Slots : ProxyHandler(q) \/ TransparentHTTPHandler(q) \/ ServeMITMConn(q) \/ DNSQuery(q)
                        \/ SlotAnswered(q) \/ SlotTripFails(q)

HostTripNext ==
    \/ HostRead
    \/ \E e \in handling : HostAnswer(e) \/ HostAnswerFails(e)
    \/ \E e \in tunnels : TunnelSpeaks(e)
    \/ HostCloses

TripsNext == HelperTripNext \/ HostTripNext

TripsSpec == TripsInit /\ [][TripsNext]_allTripVars

\* Goroutines run, and the deadline of a handshake comes; nothing is assumed
\* of the host's answers, of the payload or of the end of the bridge.
TripsFairness ==
    /\ WF_allTripVars(deliverTrip) /\ WF_allTripVars(ReadLoopEnds) /\ WF_allTripVars(HostRead)
    /\ \A c \in Conns :
         /\ SF_allTripVars(TripSend(c)) /\ WF_allTripVars(Authorized(c))
         /\ WF_allTripVars(ConnTripFails(c)) /\ WF_allTripVars(AskLeafCert(c))
         /\ WF_allTripVars(GotLeafCert(c)) /\ WF_allTripVars(HandshakeFails(c))

-----------------------------------------------------------------------------
\* The types of the variables; a channel of pending holds at most one response.
TripsTypeOK ==
    /\ nextID \in 0 .. MaxTrips /\ pendingIDs \subseteq 1 .. MaxTrips
    /\ \A i \in 1 .. MaxTrips : Len(ch[i]) <= 1
    /\ trip \in [Callers -> [st : {"idle", "send", "wait"}, id : Nat, kind : RequestKinds \cup {"none"}]]
    /\ conn \in [Conns -> ConnStates] /\ reply \in [Slots -> Replies]
    /\ \A e \in handling : e \in Envelopes
    /\ \A i \in DOMAIN tripToHelper : tripToHelper[i] \in Envelopes

\* A round trip only ever gets the response to its own request: not that of
\* a concurrent one, and not the late answer to an earlier one of the same
\* goroutine that was given up.
ResponseIsOwn ==
    \A a \in Callers : Answered(a) =>
        LET env == ch[trip[a].id][1] IN env.who = a /\ env.kind = trip[a].kind

\* pending holds exactly the round trips in progress: none is left behind
\* by an error return, and none in progress loses its channel.
PendingIsLive ==
    pendingIDs = {trip[a].id : a \in {b \in Callers : trip[b].st # "idle"}}

\* Nothing of a connection reaches the host before the host approved it: no
\* certificate is asked for and no request forwarded over an intercepted or
\* redirected connection whose authorization is open, denied or timed out.
AuthorizedFirst ==
    /\ \A c \in Conns : conn[c] \in {"cert", "handshake", "serve"} => c \in approved
    /\ \A q \in Slots : trip[q].st # "idle" /\ origin[q] \in Conns => origin[q] \in approved

\* The handshake of a connection ends within its deadline, in service or in
\* a close, although the host may never answer.
HandshakeEnds ==
    \A c \in Conns : conn[c] = "authorize" ~> (conn[c] \in {"serve", "closed"} \/ tripHelperEnd = "closed")

\* A round trip that waits is accounted for while the bridge is up: its request
\* is on the bridge or being handled, or its response is on the bridge or in
\* its channel.  No handler returns without an answer, be the answer of the
\* host's policy empty, an error or a status 0, and deliver drops no response
\* that somebody waits for.
RequestAccountedFor ==
    tripHostEnd = "open" /\ tripHelperEnd = "open" =>
      \A a \in Callers : trip[a].st = "wait" =>
        \/ ch[trip[a].id] # <<>>
        \/ \E e \in handling : e.id = trip[a].id
        \/ \E i \in DOMAIN tripToHost : tripToHost[i].id = trip[a].id
        \/ \E i \in DOMAIN tripToHelper : tripToHelper[i].id = trip[a].id /\ tripToHelper[i].kind = trip[a].kind

\* What roundTrip and deliver owe each other: a request that waits is answered
\* on its own channel by its own response, and nothing else is.
TripsAreMatched == TripsTypeOK /\ ResponseIsOwn /\ PendingIsLive /\ RequestAccountedFor
=============================================================================
