---------------------------- MODULE DNSEmulation ----------------------------
(***************************************************************************)
(* DNS over managed UDP sockets: the handlers of connect, send*, recv*,      *)
(* poll and ioctl, which never let a packet reach the network.  A send does *)
(* the whole round trip to the host and queues the reply in the socket's    *)
(* registry entry, a receive takes it from there.  Every handler works on   *)
(* the copy of the entry it looked up and writes the whole copy back; turns *)
(* are per thread (NotifyQueue), so handlers of threads that share a socket *)
(* interleave.  Queries are numbered, and a reply is its query's number.    *)
(***************************************************************************)
EXTENDS Naturals, Sequences, SequencesExt

CONSTANTS
    Threads,          \* threads of the payload, which share a socket
    MaxSend,          \* messages of a sendmmsg
    MaxRecv,          \* messages of a recvmmsg
    MaxQueries        \* bound: queries of one behaviour, and replies received

VARIABLES
    entry,            \* the SocketState of the socket
    call,             \* the handler that works for a thread
    queries,          \* queries made so far
    sent,             \* the queries of the sends that ended with their last message
    got,              \* the replies the payload received
    overlapped        \* two calls on the socket were handled at once

vars == <<entry, call, queries, sent, got, overlapped>>

NoCall == [op |-> "none", state |-> [pending |-> <<>>, connected |-> FALSE], left |-> 0, done |-> <<>>]

Init ==
    /\ entry = [pending |-> <<>>, connected |-> FALSE]
    /\ call = [t \in Threads |-> NoCall] /\ queries = 0
    /\ sent = <<>> /\ got = <<>> /\ overlapped = FALSE

-----------------------------------------------------------------------------
\* lookupManagedUDPSocket: a handler starts with a copy of the entry.
Begin(t, op, n) ==
    /\ call[t] = NoCall
    /\ call' = [call EXCEPT ![t] = [op |-> op, state |-> entry, left |-> n, done |-> <<>>]]
    /\ overlapped' = (overlapped \/ \E u \in Threads : call[u] # NoCall)

Return(t) == call' = [call EXCEPT ![t] = NoCall] /\ UNCHANGED overlapped
Insert(state) == entry' = state

\* resolveDNSDestination: the address of the call, or the connected one; a
\* call without either fails (EDESTADDRREQ).
resolveDNSDestination(addressed) == addressed \/ entry.connected

SendBegin(t, addressed, n) ==
    /\ queries < MaxQueries
    /\ resolveDNSDestination(addressed)
    /\ Begin(t, "send", n)
    /\ UNCHANGED <<entry, queries, sent, got>>

emulateDNSSendTo(t) == \E addressed \in BOOLEAN : SendBegin(t, addressed, 1)
emulateDNSWrite(t) == SendBegin(t, FALSE, 1)
emulateDNSSendMsg(t) == \E addressed \in BOOLEAN : SendBegin(t, addressed, 1)
emulateDNSSendMMsg(t) == \E addressed \in BOOLEAN, n \in 1 .. MaxSend : SendBegin(t, addressed, n)

\* dnsRoundTrip: the host answered, the copy has one reply more.
RoundTrip(t) ==
    LET c == call[t] IN
    /\ c.op = "send" /\ c.left > 0 /\ queries < MaxQueries
    /\ queries' = queries + 1
    /\ call' = [call EXCEPT ![t].state.pending = Append(@, queries'),
                            ![t].left = @ - 1, ![t].done = Append(@, queries')]
    /\ UNCHANGED <<entry, sent, got, overlapped>>

\* The query is refused or fails, or the next message cannot be read: a send
\* of several messages that sent some returns their number at once, and the
\* copy with their replies is dropped.
SendStops(t) ==
    LET c == call[t] IN
    /\ c.op = "send" /\ c.left > 0
    /\ Return(t)
    /\ UNCHANGED <<entry, queries, sent, got>>

SendEnd(t) ==
    LET c == call[t] IN
    /\ c.op = "send" /\ c.left = 0
    /\ Insert(c.state)
    /\ sent' = sent \o c.done
    /\ Return(t)
    /\ UNCHANGED <<queries, got>>

\* What poll, ppoll and ioctl(FIONREAD) report of a socket.
PollReady == entry.pending # <<>>

\* takePendingDNSResponse: EAGAIN without a reply, also on a blocking socket.
RecvBegin(t, peek, n) ==
    /\ PollReady /\ Len(got) < MaxQueries
    /\ Begin(t, IF peek THEN "peek" ELSE "recv", n)
    /\ UNCHANGED <<entry, queries, sent, got>>

emulateDNSRead(t) == RecvBegin(t, FALSE, 1)
emulateDNSRecvFrom(t) == \E peek \in BOOLEAN : RecvBegin(t, peek, 1)
emulateDNSRecvMsg(t) == \E peek \in BOOLEAN : RecvBegin(t, peek, 1)
emulateDNSRecvMMsg(t) == \E peek \in BOOLEAN, n \in 1 .. MaxRecv : RecvBegin(t, peek, n)

Taken(c) == SubSeq(c.state.pending, 1, IF c.left <= Len(c.state.pending) THEN c.left ELSE Len(c.state.pending))

\* Mutant: what was only looked at is removed too.
RecvEndPops(t, k) ==
    LET c == call[t] IN
    /\ c.op \in {"recv", "peek"} /\ k \in 1 .. Len(Taken(c))
    /\ got' = IF c.op = "recv" THEN got \o SubSeq(c.state.pending, 1, k) ELSE got
    /\ Insert([c.state EXCEPT !.pending = SubSeq(@, k + 1, Len(@))])
    /\ Return(t)
    /\ UNCHANGED <<queries, sent>>

\* k replies are written to the payload's memory (a later one may fail) and
\* leave the entry, unless MSG_PEEK is set.
RecvEnd(t, k) ==
    LET c == call[t] IN
    /\ c.op \in {"recv", "peek"} /\ k \in 1 .. Len(Taken(c))
    /\ IF c.op = "recv"
       THEN /\ got' = got \o SubSeq(c.state.pending, 1, k)
            /\ Insert([c.state EXCEPT !.pending = SubSeq(@, k + 1, Len(@))])
       ELSE UNCHANGED <<got, entry>>
    /\ Return(t)
    /\ UNCHANGED <<queries, sent>>

\* The payload's memory cannot be written: the reply stays.
RecvFails(t) ==
    /\ call[t].op \in {"recv", "peek"}
    /\ Return(t)
    /\ UNCHANGED <<entry, queries, sent, got>>

\* handleDNSConnect to port 53, and handleDNSDisconnect (AF_UNSPEC).
ConnectBegin(t) ==
    /\ \E op \in {"connect", "disconnect"} : Begin(t, op, 0)
    /\ UNCHANGED <<entry, queries, sent, got>>

ConnectEnd(t) ==
    LET c == call[t] IN
    /\ c.op \in {"connect", "disconnect"}
    /\ Insert([c.state EXCEPT !.connected = (c.op = "connect")])
    /\ Return(t)
    /\ UNCHANGED <<queries, sent, got>>

Next ==
    \E t \in Threads :
        \/ RoundTrip(t) \/ SendStops(t) \/ SendEnd(t) \/ RecvFails(t) \/ ConnectBegin(t) \/ ConnectEnd(t)
        \/ emulateDNSSendTo(t) \/ emulateDNSWrite(t) \/ emulateDNSSendMsg(t) \/ emulateDNSSendMMsg(t)
        \/ emulateDNSRead(t) \/ emulateDNSRecvFrom(t) \/ emulateDNSRecvMsg(t) \/ emulateDNSRecvMMsg(t)
        \/ \E n \in 1 .. MaxRecv : RecvEnd(t, n)

Spec == Init /\ [][Next]_vars

-----------------------------------------------------------------------------
\* What the payload has received from the socket and what is queued for it are
\* the replies to the queries of its sends, each once and in order: a reply stays
\* until a receive takes it, across connects, disconnects, peeks and failed calls
\* of any thread.  Sends that stop early lose their replies, and calls that are
\* handled at once undo each other.
NoReplyLost == ~overlapped => sent = got \o entry.pending
=============================================================================
