--------------------------- MODULE ProtocolDetect ---------------------------
(***************************************************************************)
(* What the ingress takes a redirected connection for.  The bytes that have *)
(* arrived when it has seen enough, or when the sniff timeout (a second) or *)
(* the end of the stream comes first, decide whether it is served as TLS or *)
(* HTTP, or reset as an opaque protocol with the name that goes to the log. *)
(* A stream is a class of byte strings: the recognizers that accept it once *)
(* enough of it is there.                                                  *)
(***************************************************************************)
EXTENDS Naturals, Sequences, SequencesExt

CONSTANT Streams      \* classes of streams, a subset of DOMAIN Shape

VARIABLES
    stream,           \* the class of what the client sends
    buffered,         \* bytes that have arrived, reader.Buffered()
    served,           \* "sniff", then what it is served as
    name              \* the protocol of the authorization and the log

vars == <<stream, buffered, served, name>>

\* The bytes each recognizer needs.
Need ==
    [tls |-> 3, http2 |-> 24, http1 |-> 4, amqp |-> 8, mongodb |-> 16, nats |-> 4, memcached |-> 4,
     mysql |-> 5, pgssl |-> 8, pgstart |-> 9, redis |-> 1, ssh |-> 4]

\* The recognizers that accept a stream: "get " and "delete " are verbs of
\* memcached and, whatever the case of their letters, methods of HTTP; a
\* MongoDB message with the right request id looks like a MySQL greeting.
Shape ==
    [clienthello |-> {"tls"}, record |-> {}, preface |-> {"http2"}, method |-> {"http1"},
     store |-> {"memcached"}, fetch |-> {"http1", "memcached"}, natsverb |-> {"nats"}, amqp |-> {"amqp"},
     opmsg |-> {"mongodb"}, opmsg10 |-> {"mongodb", "mysql"}, greeting |-> {"mysql"},
     sslrequest |-> {"pgssl"}, startup |-> {"pgstart"}, resp |-> {"redis"}, sshbanner |-> {"ssh"}, other |-> {}]

\* The first byte is 0x16, of a TLS handshake record.
Handshake(s) == s \in {"clienthello", "record"}

Accepts(p, s, n) == p \in Shape[s] /\ n >= Need[p]

\* detectOpaqueTCPProtocol: the first recognizer that accepts.
Recognizers == <<"amqp", "mongodb", "nats", "memcached", "mysql", "pgssl", "pgstart", "redis", "ssh", "tls">>
detectOpaqueTCPProtocol(s, n) ==
    LET accepting == SelectSeq(Recognizers, LAMBDA p : Accepts(p, s, n))
    IN  IF n = 0 THEN "" ELSE IF accepting = <<>> THEN "unknown" ELSE Head(accepting)

\* Mutant: the prefix of a method is enough.
detectPartialMethod(s, n) ==
    CASE n = 0 -> "opaque"
      [] n > 0 /\ Handshake(s) -> IF Accepts("tls", s, n) THEN "tls" ELSE "opaque"
      [] OTHER -> IF n < 4 \/ Accepts("http2", s, n) \/ Accepts("http1", s, n) THEN "http" ELSE "opaque"

\* detectTransparentTCPProtocol.
detectTransparentTCPProtocol(s, n) ==
    CASE n = 0 -> "opaque"
      [] n > 0 /\ Handshake(s) -> IF Accepts("tls", s, n) THEN "tls" ELSE "opaque"
      [] OTHER -> IF Accepts("http2", s, n) \/ Accepts("http1", s, n) THEN "http" ELSE "opaque"

\* The bytes Peek waits for.
Enough(s) == IF Handshake(s) THEN 3 ELSE 24

-----------------------------------------------------------------------------
Init ==
    /\ stream \in Streams
    /\ buffered = 0 /\ served = "sniff" /\ name = ""

\* Some of the stream arrives: up to a length that matters.
Arrive ==
    /\ served = "sniff" /\ buffered < Enough(stream)
    /\ \E n \in {1, 3, 4, 5, 8, 9, 16, 24} : n > buffered /\ buffered' = n
    /\ UNCHANGED <<stream, served, name>>

\* Enough is there, or the deadline or the end of the stream comes first;
\* ServeTransparentTCPConn with opaqueProtocolMetadata.
Sniff ==
    /\ served = "sniff"
    /\ served' = detectTransparentTCPProtocol(stream, buffered)
    /\ name' = IF served' = "tls" THEN "https" ELSE IF served' = "http" THEN "http"
               ELSE detectOpaqueTCPProtocol(stream, buffered)
    /\ UNCHANGED <<stream, buffered>>

Next == Arrive \/ Sniff

Spec == Init /\ [][Next]_vars

-----------------------------------------------------------------------------
\* The name of a stream of which 24 bytes or more are there.
Final(s) ==
    CASE detectTransparentTCPProtocol(s, 24) = "tls" -> "https"
      [] detectTransparentTCPProtocol(s, 24) = "http" -> "http"
      [] OTHER -> detectOpaqueTCPProtocol(s, 24)

\* Whatever part of a stream the deadline leaves, the connection gets the
\* name the whole stream would have, or none: a slow client is never logged,
\* or authorized, under another protocol.
PartialIsNotWrong == served # "sniff" => name \in {"", "unknown", Final(stream)}

=============================================================================
