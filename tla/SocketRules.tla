---------------------------- MODULE SocketRules ----------------------------
(***************************************************************************)
(* What the supervisor decides about one socket: whether socket() makes a   *)
(* managed one, where its connect is redirected to, and which address       *)
(* getpeername and the source of a DNS reply show.  An address is read from *)
(* the payload's memory, kept as text, and encoded again when it is shown.  *)
(***************************************************************************)
EXTENDS Naturals

VARIABLES
    targets,          \* RuntimeTargets: which ingresses there are
    sock,             \* the arguments and the outcome of socket()
    addr,             \* the sockaddr of connect or sendto, as the payload wrote it
    outcome,          \* what connect, or sendto, returned
    shown             \* the sockaddr getpeername, or recvfrom, wrote

vars == <<targets, sock, addr, outcome, shown>>

AF_UNIX == 1
AF_INET == 2
AF_INET6 == 10
\* sockaddr_in and sockaddr_in6; the first holds no IPv6 address.
Sockaddrs == {s \in [family : {AF_INET, AF_INET6}, v4 : BOOLEAN, port : {0, 53, 443}] :
                s.family = AF_INET => s.v4}
None == [family |-> 0, v4 |-> FALSE, port |-> 0]
Refused == [None EXCEPT !.v4 = TRUE]

-----------------------------------------------------------------------------
isManagedSocketFamily(family) == family \in {AF_INET, AF_INET6}

targetsSupportFamilyIngress(family) ==
    (family = AF_INET /\ targets.v4) \/ (family = AF_INET6 /\ targets.v6)

\* classifyManagedSocket: the kind, "none" if the kernel keeps the socket, or
\* the error.
classifyManagedSocket(family, type, protocol) ==
    CASE ~isManagedSocketFamily(family) -> "none"
      [] isManagedSocketFamily(family) /\ type = "stream" ->
            IF targetsSupportFamilyIngress(family) THEN "tcp" ELSE "none"
      [] isManagedSocketFamily(family) /\ type = "dgram" ->
            IF protocol \notin {"default", "udp"} THEN "none" ELSE IF targets.dns THEN "udp" ELSE "EHOSTUNREACH"
      [] OTHER -> "none"

\* selectIngressAddrForFamily, as the family of the ingress; 0: there is none.
selectIngressAddrForFamily(family) ==
    IF family = AF_INET6 THEN (IF targets.v6 THEN AF_INET6 ELSE 0) ELSE (IF targets.v4 THEN AF_INET ELSE 0)

\* routeTCPDestination, parseTCPAddr and sockaddrMatchesFamily.
routeTCPDestination(family, port) ==
    CASE port = 53 -> "EPERM"
      [] port # 53 /\ selectIngressAddrForFamily(family) = 0 -> "EIO"
      [] port # 53 /\ selectIngressAddrForFamily(family) \notin {0, family} -> "EAFNOSUPPORT"
      [] OTHER -> "ok"

\* DecodeSockaddr: the text of a mapped address is the IPv4 address's.
DecodeSockaddr(s) == [family |-> s.family, host |-> IF s.v4 THEN "ipv4" ELSE "ipv6", port |-> s.port]

\* Mutant: the family of the text.
peernameFamilyOfText(host, family) == IF host = "ipv4" THEN AF_INET ELSE AF_INET6

\* peernameFamily: the socket's.
peernameFamily(host, family) ==
    IF isManagedSocketFamily(family) THEN family ELSE IF host = "ipv4" THEN AF_INET ELSE AF_INET6

\* encodeRawSockaddr and writeSockaddr, or Refused.
encodeRawSockaddr(family, host, port) ==
    IF family = AF_INET /\ host = "ipv6" THEN Refused ELSE [family |-> family, v4 |-> host = "ipv4", port |-> port]

-----------------------------------------------------------------------------
Init ==
    /\ targets \in [v4 : BOOLEAN, v6 : BOOLEAN, dns : BOOLEAN]
    /\ sock = [family |-> 0, kind |-> "new"]
    /\ addr = None /\ outcome = "" /\ shown = None

Socket ==
    /\ sock.kind = "new"
    /\ \E family \in {AF_UNIX, AF_INET, AF_INET6}, type \in {"stream", "dgram", "raw"}, protocol \in {"default", "udp", "other"} :
        sock' = [family |-> family, kind |-> classifyManagedSocket(family, type, protocol)]
    /\ UNCHANGED <<targets, addr, outcome, shown>>

\* redirectConnect with handleConnect or handleDNSConnect; "continue": the
\* kernel does the call.  The kernel refuses a sockaddr of the other family,
\* which the supervisor does not look at.
Connect ==
    /\ sock.kind \in {"tcp", "udp"} /\ outcome = ""
    /\ addr' \in Sockaddrs
    /\ outcome' = LET d == DecodeSockaddr(addr') IN
                  IF sock.kind = "tcp" THEN routeTCPDestination(sock.family, d.port)
                  ELSE IF d.port # 53 THEN "continue" ELSE "ok"
    /\ UNCHANGED <<targets, sock, shown>>

\* resolveDNSDestination with the address of a sendto.
SendTo ==
    /\ sock.kind = "udp" /\ outcome = ""
    /\ addr' \in Sockaddrs
    /\ outcome' = IF DecodeSockaddr(addr').port # 53 THEN "continue" ELSE "sent"
    /\ UNCHANGED <<targets, sock, shown>>

\* emulateGetpeername; the source of the reply to a query sent on a
\* connected socket is the same address.
Getpeername ==
    /\ outcome = "ok" /\ shown = None
    /\ shown' = LET d == DecodeSockaddr(addr) IN
                IF d.port <= 0 THEN Refused
                ELSE encodeRawSockaddr(peernameFamily(d.host, sock.family), d.host, d.port)
    /\ UNCHANGED <<targets, sock, addr, outcome>>

\* writeRecvfromSockaddr and writeMsghdrSockaddr after a sendto.
RecvFrom ==
    /\ outcome = "sent" /\ shown = None
    /\ shown' = LET d == DecodeSockaddr(addr) IN encodeRawSockaddr(d.family, d.host, d.port)
    /\ UNCHANGED <<targets, sock, addr, outcome>>

Next == Socket \/ Connect \/ SendTo \/ Getpeername \/ RecvFrom

Spec == Init /\ [][Next]_vars

-----------------------------------------------------------------------------
\* The ingress of a managed stream socket's family is there when the socket
\* connects: only TCP to port 53 is refused.
RouteExists == outcome \notin {"EIO", "EAFNOSUPPORT"}

\* getpeername shows the sockaddr that was given to connect, for an address of
\* the socket's family: an IPv4 address mapped to IPv6 stays a sockaddr_in6.
\* Port 0, which no connection has, counts as not connected.
PeernameIsOriginal ==
    outcome = "ok" /\ addr.family = sock.family /\ shown # None =>
        shown = IF addr.port = 0 THEN Refused ELSE addr

\* A DNS reply comes from the sockaddr the query was sent to, which is what a
\* resolver compares.
ReplyIsFromServer == outcome = "sent" /\ shown # None => shown = addr
=============================================================================
