---------------------------- MODULE MCTransparent ----------------------------
(***************************************************************************)
(* Model-checking instances of transparent networking.  A behaviour         *)
(* explores one part: the socket table as one thread sees it ("table"), as  *)
(* two threads ("threads") and as a process and its child ("family"), what  *)
(* connect and getpeername make of addresses ("rules"), DNS queries         *)
(* ("dns"), origins and names of connections ("net"), and what a connection *)
(* is served as ("detect").  The other parts' variables are 0.              *)
(***************************************************************************)
EXTENDS Naturals

VARIABLES
    part,
    files, kindOf, conn, told, forked, registry, helper, reserved, nextFD, connecting,
    targets, sock, addr, outcome, shown,
    entry, call, queries, sent, got, overlapped,
    clock, hostByIP, answer, rawTCPOrigins,
    stream, buffered, served, name

tableVars == <<files, kindOf, told, forked, registry, helper, reserved, nextFD, connecting>>
rulesVars == <<targets, sock, addr, outcome, shown>>
dnsVars == <<entry, call, queries, sent, got, overlapped>>
netVars == <<clock, hostByIP, answer, rawTCPOrigins>>
detectVars == <<stream, buffered, served, name>>
vars == <<part, tableVars, conn, rulesVars, dnsVars, netVars, detectVars>>

Table == INSTANCE SocketTable WITH
    Main <- {"a"}, Forked <- {}, Ops <- {"socket", "connect", "close", "dup", "dup2"},
    MinTCP <- 1, MinUDP <- 2, MaxFD <- 2, MaxOpen <- 0, MaxSockets <- 2

Together == INSTANCE SocketTable WITH
    Main <- {"a", "b"}, Forked <- {}, Ops <- {"socket", "connect", "close", "udp"},
    MinTCP <- 0, MinUDP <- 3, MaxFD <- 5, MaxOpen <- 0, MaxSockets <- 3

Family == INSTANCE SocketTable WITH
    Main <- {"a"}, Forked <- {"b"},
    Ops <- {"socket", "connect", "close", "dup2", "dup2plain", "udp", "fork"},
    MinTCP <- 1, MinUDP <- 1, MaxFD <- 1, MaxOpen <- 1, MaxSockets <- 1

Rules == INSTANCE SocketRules

DNS == INSTANCE DNSEmulation WITH
    Threads <- {"a", "b"}, MaxSend <- 2, MaxRecv <- 2, MaxQueries <- 2

Net == INSTANCE TransparentNet WITH
    Conns <- {"c1", "c2"}, Addrs <- {"p1"}, IPs <- {"i1", "i2"}, Hosts <- {"h1"}, TTLs <- {0, 1, 2},
    DefaultTTL <- 2, MaxTime <- 3

Detect == INSTANCE ProtocolDetect WITH
    Streams <- {"clienthello", "record", "preface", "method", "store", "fetch", "natsverb", "amqp", "opmsg",
                "greeting", "sslrequest", "startup", "resp", "sshbanner", "other"}

TableOff == /\ files = 0 /\ kindOf = 0 /\ told = 0 /\ forked = 0 /\ registry = 0 /\ helper = 0
            /\ reserved = 0 /\ nextFD = 0 /\ connecting = 0
RulesOff == targets = 0 /\ sock = 0 /\ addr = 0 /\ outcome = 0 /\ shown = 0
DNSOff == entry = 0 /\ call = 0 /\ queries = 0 /\ sent = 0 /\ got = 0 /\ overlapped = 0
NetOff == clock = 0 /\ hostByIP = 0 /\ answer = 0 /\ rawTCPOrigins = 0
DetectOff == stream = 0 /\ buffered = 0 /\ served = 0 /\ name = 0

Init ==
    \/ part = "table" /\ Table!Init /\ RulesOff /\ DNSOff /\ NetOff /\ DetectOff
    \/ part = "threads" /\ Together!Init /\ RulesOff /\ DNSOff /\ NetOff /\ DetectOff
    \/ part = "family" /\ Family!Init /\ RulesOff /\ DNSOff /\ NetOff /\ DetectOff
    \/ part = "rules" /\ Rules!Init /\ conn = 0 /\ TableOff /\ DNSOff /\ NetOff /\ DetectOff
    \/ part = "dns" /\ DNS!Init /\ conn = 0 /\ TableOff /\ RulesOff /\ NetOff /\ DetectOff
    \/ part = "net" /\ Net!Init /\ TableOff /\ RulesOff /\ DNSOff /\ DetectOff
    \/ part = "detect" /\ Detect!Init /\ conn = 0 /\ TableOff /\ RulesOff /\ DNSOff /\ NetOff

Next ==
    \/ part = "table" /\ Table!Next /\ UNCHANGED <<part, rulesVars, dnsVars, netVars, detectVars>>
    \/ part = "threads" /\ Together!Next /\ UNCHANGED <<part, rulesVars, dnsVars, netVars, detectVars>>
    \/ part = "family" /\ Family!Next /\ UNCHANGED <<part, rulesVars, dnsVars, netVars, detectVars>>
    \/ part = "rules" /\ Rules!Next /\ UNCHANGED <<part, conn, tableVars, dnsVars, netVars, detectVars>>
    \/ part = "dns" /\ DNS!Next /\ UNCHANGED <<part, conn, tableVars, rulesVars, netVars, detectVars>>
    \/ part = "net" /\ Net!Next /\ UNCHANGED <<part, tableVars, rulesVars, dnsVars, detectVars>>
    \/ part = "detect" /\ Detect!Next /\ UNCHANGED <<part, conn, tableVars, rulesVars, dnsVars, netVars>>

Spec == Init /\ [][Next]_vars

-----------------------------------------------------------------------------
\* Supervisor and kernel mean the same by a descriptor: an open managed one is
\* found by every thread of its process, what is found is about its file, a
\* connect that was reported successful has connected it, and no call but dup2
\* puts another file at a number in use: SocketTable.
DescriptorsAgree ==
    /\ [](part = "table" => Table!LookupIsOwn)
    /\ [](part = "threads" => Together!EntryIsThere /\ Together!ConnectIsReal)
    /\ [][part = "threads" =>
            \A p \in Together!Procs, fd \in Together!FDs :
               files[p][fd] # 0 => files'[p][fd] \in {0, files[p][fd]}]_vars

\* Every entry of the registry has a descriptor of the supervisor of its own,
\* also across a fork, and no other is open: SocketTable.
HelperExact ==
    /\ part = "table" => Table!HelperExact
    /\ part = "family" => Family!HelperExact

\* An address survives its way through the supervisor: a managed socket has a
\* route for it, getpeername shows what connect was given, and a DNS reply comes
\* from where the query was sent: SocketRules.
AddressesAreKept ==
    part = "rules" => Rules!RouteExists /\ Rules!PeernameIsOriginal /\ Rules!ReplyIsFromServer

\* Every reply to a send that ended with its last message is received once and
\* in order: DNSEmulation.
NoReplyLost == part = "dns" => DNS!NoReplyLost

\* A connection is served for the destination it was made to, unless a record of
\* its address came late, and under a name only while that name's answer is
\* fresh: TransparentNet.
OriginIsTrue == part = "net" => Net!OriginIsOwn /\ Net!NameIsFresh

\* A stream that is cut short is not taken for another protocol:
\* ProtocolDetect.
PartialIsNotWrong == part = "detect" => Detect!PartialIsNotWrong
=============================================================================
