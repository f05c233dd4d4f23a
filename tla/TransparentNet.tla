--------------------------- MODULE TransparentNet ---------------------------
(***************************************************************************)
(* The origin of a redirected connection.  A managed connect ends at the    *)
(* helper's ingress; the supervisor then records, under the connection's    *)
(* local address, where the payload wanted to go, as a name if a DNS answer *)
(* that is still fresh gave that address.  The ingress, which may accept    *)
(* the connection before that, polls for the record for a second and takes  *)
(* it away.  Local addresses are reused.                                    *)
(***************************************************************************)
EXTENDS Naturals, FiniteSetsExt

CONSTANTS
    Conns,            \* connections of the payload
    Addrs,            \* local addresses, canonicalTCPOriginKey
    IPs, Hosts,       \* destinations, and names in DNS
    TTLs,             \* TTLs of DNS answers, 0 included
    DefaultTTL,       \* 30 seconds
    MaxTime           \* bound: the clock

VARIABLES
    clock,
    hostByIP,         \* dnsCache.hostByIP: a name and when it expires
    answer,           \* the last answer for an IP: the name, and its own expiry
    rawTCPOrigins,    \* transparentNet.rawTCPOrigins
    conn              \* each connection, on the supervisor's and the ingress's side

vars == <<clock, hostByIP, answer, rawTCPOrigins, conn>>

NoName == [host |-> "", expires |-> 0]
NoDest == [ip |-> "", host |-> ""]
Unused == [at |-> "unused", ingress |-> "none", addr |-> "", ip |-> "", dest |-> NoDest, late |-> FALSE, fresh |-> TRUE]

Init ==
    /\ clock = 0
    /\ hostByIP = [ip \in IPs |-> NoName] /\ answer = [ip \in IPs |-> NoName]
    /\ rawTCPOrigins = [a \in Addrs |-> NoDest]
    /\ conn = [c \in Conns |-> Unused]

Tick ==
    /\ clock < MaxTime /\ clock' = clock + 1
    /\ UNCHANGED <<hostByIP, answer, rawTCPOrigins, conn>>

-----------------------------------------------------------------------------
(* DNS answers.                                                            *)

\* parseDNSResolution: the smallest positive TTL of the answers, or 0.
parseDNSResolution(ttls) == IF ttls \subseteq {0} THEN 0 ELSE Min(ttls \ {0})

Lifetime(ttl) == IF ttl = 0 THEN DefaultTTL ELSE ttl

\* remember: every address of the answer is the name's, until the answer
\* expires.  ttl gives the TTL of each record of the answer.
remember(host, ttl) ==
    LET ips == DOMAIN ttl
        expires == clock + Lifetime(parseDNSResolution({ttl[ip] : ip \in ips}))
    IN  /\ hostByIP' = [ip \in IPs |-> IF ip \in ips THEN [host |-> host, expires |-> expires] ELSE hostByIP[ip]]
        /\ answer' = [ip \in IPs |-> IF ip \in ips THEN [host |-> host, expires |-> clock + Lifetime(ttl[ip])] ELSE answer[ip]]
        /\ UNCHANGED <<clock, rawTCPOrigins, conn>>

\* lookupResolvedHost: the name, or "" (an expired one is deleted by Record).
lookupResolvedHost(ip) == IF clock <= hostByIP[ip].expires THEN hostByIP[ip].host ELSE ""

-----------------------------------------------------------------------------
(* Connections.                                                            *)

\* The kernel connects the supervisor's socket to the ingress.
Connect(c, a, ip) ==
    /\ conn[c] = Unused
    /\ \A d \in Conns : conn[d].addr = a => conn[d].at = "closed" /\ conn[d].ingress = "closed"
    /\ conn' = [conn EXCEPT ![c] = [Unused EXCEPT !.at = "connected", !.ingress = "waiting", !.addr = a, !.ip = ip]]
    /\ UNCHANGED <<clock, hostByIP, answer, rawTCPOrigins>>

\* recordRawTCPOrigin.  It may come after the ingress gave up (late), and is then
\* left for the next connection from the same address.
recordRawTCPOrigin(c) ==
    LET ip == conn[c].ip
        host == lookupResolvedHost(ip)
    IN  /\ conn[c].at = "connected"
        /\ rawTCPOrigins' = [rawTCPOrigins EXCEPT ![conn[c].addr] = [ip |-> ip, host |-> host]]
        /\ hostByIP' = IF clock > hostByIP[ip].expires THEN [hostByIP EXCEPT ![ip] = NoName] ELSE hostByIP
        /\ conn' = [conn EXCEPT ![c].at = "recorded", ![c].late = (conn[c].ingress # "waiting"),
                                ![c].fresh = (host # "" => host = answer[ip].host /\ clock <= answer[ip].expires)]
        /\ UNCHANGED <<clock, answer>>

\* connect fails after all, or its local address is not found.
RecordSkipped(c) ==
    /\ conn[c].at = "connected"
    /\ conn' = [conn EXCEPT ![c].at = "recorded"]
    /\ UNCHANGED <<clock, hostByIP, answer, rawTCPOrigins>>

\* Mutant: the record stays.
takeKeepsOrigin(a) == rawTCPOrigins

\* takeRawTCPOrigin.
takeRawTCPOrigin(a) == [rawTCPOrigins EXCEPT ![a] = NoDest]

\* waitRawTCPOrigin finds the record, and the connection is served.
WaitFinds(c) ==
    LET a == conn[c].addr IN
    /\ conn[c].ingress = "waiting" /\ rawTCPOrigins[a] # NoDest
    /\ conn' = [conn EXCEPT ![c].ingress = "served", ![c].dest = rawTCPOrigins[a]]
    /\ rawTCPOrigins' = takeRawTCPOrigin(a)
    /\ UNCHANGED <<clock, hostByIP, answer>>

\* A second without a record: the connection is reset.
WaitTimesOut(c) ==
    /\ conn[c].ingress = "waiting" /\ rawTCPOrigins[conn[c].addr] = NoDest
    /\ conn' = [conn EXCEPT ![c].ingress = "closed"]
    /\ UNCHANGED <<clock, hostByIP, answer, rawTCPOrigins>>

Close(c) ==
    /\ \/ conn[c].at = "recorded" /\ conn' = [conn EXCEPT ![c].at = "closed"]
       \/ conn[c].ingress = "served" /\ conn' = [conn EXCEPT ![c].ingress = "closed"]
    /\ UNCHANGED <<clock, hostByIP, answer, rawTCPOrigins>>

Next ==
    \/ Tick
    \/ \E host \in Hosts, ips \in SUBSET IPs \ {{}} : \E ttl \in [ips -> TTLs] : remember(host, ttl)
    \/ \E c \in Conns :
        \/ recordRawTCPOrigin(c) \/ RecordSkipped(c) \/ WaitFinds(c) \/ WaitTimesOut(c) \/ Close(c)
        \/ \E a \in Addrs, ip \in IPs : Connect(c, a, ip)

Spec == Init /\ [][Next]_vars

-----------------------------------------------------------------------------
\* A connection is served for the destination the payload connected to: a record
\* is of the connection that takes it, unless the record of an earlier connection
\* from the same address came after its ingress had given up (waitRawTCPOrigin).
OriginIsOwn ==
    \A c \in Conns :
        \/ conn[c].dest = NoDest \/ conn[c].dest.ip = conn[c].ip
        \/ \E d \in Conns \ {c} : conn[d].addr = conn[c].addr /\ conn[d].late

\* A name is given to a connection only while the DNS answer that gave the
\* name for its address is fresh, whatever else was in the same answer.
NameIsFresh == \A c \in Conns : conn[c].fresh
=============================================================================
