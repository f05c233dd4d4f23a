---------------------------- MODULE TunnelProofs -----------------------------
(***************************************************************************)
(* TunnelProtocol, for any number of tunnels and chunks, any capacities    *)
(* and any faults.  A tunnel lives between its approval and the end of the *)
(* bridge; and TunnelProtocol implements TunnelStream: each direction of a *)
(* tunnel is a byte stream with an end, whatever the relays, the bridge and*)
(* the tables of the two ends do.  The lemmas on the queues of the bridge  *)
(* are those of RunStepProofs, for the envelopes of this protocol.         *)
(***************************************************************************)
EXTENDS TunnelProtocol, TLAPS

\* The places of a queue after a send.
LEMMA AppendPlaces ==
  ASSUME NEW S, NEW q \in Seq(S), NEW e \in S
  PROVE  /\ DOMAIN Append(q, e) = DOMAIN q \cup {Len(q) + 1}
         /\ \A i \in DOMAIN q : i < Len(q) + 1 /\ Append(q, e)[i] = q[i]
         /\ Append(q, e)[Len(q) + 1] = e
         /\ Len(q) + 1 \notin DOMAIN q
  OBVIOUS

\* The places of a queue after a receive.
LEMMA TailPlaces ==
  ASSUME NEW S, NEW q \in Seq(S), q # <<>>
  PROVE  /\ 1 \in DOMAIN q /\ q[1] = Head(q)
         /\ \A i \in DOMAIN Tail(q) : i + 1 \in DOMAIN q /\ Tail(q)[i] = q[i + 1]
         /\ \A i \in DOMAIN q : i # 1 => i - 1 \in DOMAIN Tail(q) /\ Tail(q)[i - 1] = q[i]
         /\ DOMAIN q \subseteq Nat \ {0} /\ DOMAIN Tail(q) \subseteq Nat \ {0}
  OBVIOUS

\* The only value of a channel that holds one.
LEMMA TakeOnly ==
  ASSUME NEW S, NEW q \in Seq(S), Len(q) <= 1, q # <<>>
  PROVE  /\ Tail(q) = <<>> /\ Head(q) = q[1] /\ 1 \in DOMAIN q
         /\ \A i \in DOMAIN Tail(q) : FALSE
  OBVIOUS

\* An empty queue.
LEMMA EmptyQueue ==
  ASSUME NEW kind, NEW other, NEW id
  PROVE  /\ ~Has(<<>>, kind, id)
         /\ Once(<<>>, kind, id)
         /\ Before(<<>>, kind, other, id)
  BY DEF Has, Once, Before

\* A queue has what it had and what was appended.
LEMMA HasAppend ==
  ASSUME NEW S, NEW q \in Seq(S), NEW e \in S, NEW kind, NEW id
  PROVE  Has(Append(q, e), kind, id) <=> Has(q, kind, id) \/ Is(e, kind, id)
  BY AppendPlaces DEF Has

\* A receive takes the first envelope and no other.
LEMMA HasTail ==
  ASSUME NEW S, NEW q \in Seq(S), q # <<>>, NEW kind, NEW id
  PROVE  Has(q, kind, id) <=> Has(Tail(q), kind, id) \/ Is(Head(q), kind, id)
  BY TailPlaces, Zenon DEF Has

\* A first envelope of its kind is the only one.
LEMMA OnceAppend ==
  ASSUME NEW S, NEW q \in Seq(S), NEW e \in S, NEW kind, NEW id,
         Once(q, kind, id), Is(e, kind, id) => ~Has(q, kind, id)
  PROVE  Once(Append(q, e), kind, id)
  BY AppendPlaces DEF Once, Has

\* A receive leaves an envelope single, and removes a single one for good.
LEMMA OnceTail ==
  ASSUME NEW S, NEW q \in Seq(S), q # <<>>, NEW kind, NEW id, Once(q, kind, id)
  PROVE  /\ Once(Tail(q), kind, id)
         /\ Is(Head(q), kind, id) => ~Has(Tail(q), kind, id)
<1>1. Once(Tail(q), kind, id)
  BY TailPlaces DEF Once
<1>2. ASSUME Is(Head(q), kind, id), Has(Tail(q), kind, id) PROVE FALSE
  BY TailPlaces, <1>2 DEF Once, Has
<1> QED
  BY <1>1, <1>2, Zenon

\* An envelope that follows all the others may be appended.
LEMMA BeforeAppend ==
  ASSUME NEW S, NEW q \in Seq(S), NEW e \in S, NEW first, NEW second, NEW id,
         first # second, Before(q, first, second, id),
         Is(e, first, id) => ~Has(q, second, id)
  PROVE  Before(Append(q, e), first, second, id)
  BY AppendPlaces DEF Before, Has, Is

\* A receive keeps the order; what must come first is gone when what must come
\* second is received.
LEMMA BeforeTail ==
  ASSUME NEW S, NEW q \in Seq(S), q # <<>>, NEW first, NEW second, NEW id,
         Before(q, first, second, id)
  PROVE  /\ Before(Tail(q), first, second, id)
         /\ Is(Head(q), second, id) => ~Has(q, first, id)
<1>1. Before(Tail(q), first, second, id)
  BY TailPlaces, SMTT(30) DEF Before
<1>2. ASSUME Is(Head(q), second, id), Has(q, first, id) PROVE FALSE
  BY TailPlaces, <1>2 DEF Before, Has
<1> QED
  BY <1>1, <1>2, Zenon

\* An empty stretch of numbers is an absence of envelopes.
LEMMA NumberedNone ==
  ASSUME NEW S, NEW q \in Seq(S), NEW kind, NEW id, NEW lo \in Nat, NEW hi \in Nat,
         ~Has(q, kind, id)
  PROVE  Numbered(q, kind, id, lo, hi) <=> lo = hi
  BY DEF Numbered, Has

\* Appending the next number, or anything of another kind.
LEMMA NumberedAppend ==
  ASSUME NEW S, NEW q \in Seq(S), NEW e \in S, NEW kind, NEW id,
         NEW lo \in Nat, NEW hi \in Nat, Numbered(q, kind, id, lo, hi)
  PROVE  /\ ~Is(e, kind, id) => Numbered(Append(q, e), kind, id, lo, hi)
         /\ Is(e, kind, id) /\ e.n = hi + 1 =>
              Numbered(Append(q, e), kind, id, lo, hi + 1)
<1>1. ASSUME ~Is(e, kind, id) PROVE Numbered(Append(q, e), kind, id, lo, hi)
  <2>1. \A i \in DOMAIN Append(q, e) : Is(Append(q, e)[i], kind, id) =>
          i \in DOMAIN q /\ Append(q, e)[i] = q[i]
    BY <1>1, AppendPlaces
  <2>2. \A m \in lo + 1 .. hi : \E i \in DOMAIN Append(q, e) :
          Is(Append(q, e)[i], kind, id) /\ Append(q, e)[i].n = m
    BY AppendPlaces DEF Numbered
  <2> QED
    BY <2>1, <2>2, Zenon DEF Numbered
<1>2. ASSUME Is(e, kind, id), e.n = hi + 1
      PROVE  Numbered(Append(q, e), kind, id, lo, hi + 1)
  <2> DEFINE p == Append(q, e)
  <2>1. /\ DOMAIN p = DOMAIN q \cup {Len(q) + 1}
        /\ \A i \in DOMAIN q : i < Len(q) + 1 /\ p[i] = q[i]
        /\ p[Len(q) + 1] = e
        /\ \A i \in DOMAIN q : ~(Len(q) + 1 < i)
    BY AppendPlaces
  <2> HIDE DEF p
  <2>2. lo <= hi + 1
    BY DEF Numbered
  <2>3. ASSUME NEW i \in DOMAIN p, Is(p[i], kind, id) PROVE p[i].n \in lo + 1 .. hi + 1
    BY <1>2, <2>1, <2>3 DEF Numbered
  <2>4. ASSUME NEW i \in DOMAIN p, NEW j \in DOMAIN p,
               Is(p[i], kind, id), Is(p[j], kind, id), i < j
        PROVE  p[i].n < p[j].n
    <3>1. i \in DOMAIN q
      BY <2>1, <2>4
    <3>2. CASE j \in DOMAIN q
      BY <2>1, <2>4, <3>1, <3>2, Zenon DEF Numbered
    <3>3. CASE j = Len(q) + 1
      <4>1. q[i].n \in lo + 1 .. hi
        BY <2>1, <2>4, <3>1, Zenon DEF Numbered
      <4> QED
        BY <1>2, <2>1, <3>1, <3>3, <4>1
    <3> QED
      BY <2>1, <3>2, <3>3, Zenon
  <2>5. ASSUME NEW m \in lo + 1 .. hi + 1
        PROVE  \E i \in DOMAIN p : Is(p[i], kind, id) /\ p[i].n = m
    <3>1. CASE m = hi + 1
      BY <1>2, <2>1, <3>1, Zenon
    <3>2. CASE m \in lo + 1 .. hi
      BY <2>1, <3>2, Zenon DEF Numbered
    <3> QED
      BY <3>1, <3>2
  <2>6. Numbered(p, kind, id, lo, hi + 1)
    BY <2>2, <2>3, <2>4, <2>5, Zenon DEF Numbered
  <2> QED
    BY <2>6, Zenon DEF p
<1> QED
  BY <1>1, <1>2, Zenon

\* Receiving the first number, or anything of another kind.
LEMMA NumberedTail ==
  ASSUME NEW S, NEW q \in Seq(S), q # <<>>, NEW kind, NEW id,
         NEW lo \in Nat, NEW hi \in Nat, Numbered(q, kind, id, lo, hi)
  PROVE  /\ ~Is(Head(q), kind, id) => Numbered(Tail(q), kind, id, lo, hi)
         /\ Is(Head(q), kind, id) =>
              Head(q).n = lo + 1 /\ Numbered(Tail(q), kind, id, lo + 1, hi)
<1>1. ASSUME ~Is(Head(q), kind, id) PROVE Numbered(Tail(q), kind, id, lo, hi)
  <2>1. \A i \in DOMAIN Tail(q) : Is(Tail(q)[i], kind, id) => Tail(q)[i].n \in lo + 1 .. hi
    BY TailPlaces DEF Numbered
  <2>2. \A i, j \in DOMAIN Tail(q) :
          Is(Tail(q)[i], kind, id) /\ Is(Tail(q)[j], kind, id) /\ i < j =>
            Tail(q)[i].n < Tail(q)[j].n
    BY TailPlaces, SMTT(30) DEF Numbered
  <2>3. ASSUME NEW m \in lo + 1 .. hi
        PROVE  \E i \in DOMAIN Tail(q) : Is(Tail(q)[i], kind, id) /\ Tail(q)[i].n = m
    <3>1. PICK i \in DOMAIN q : Is(q[i], kind, id) /\ q[i].n = m
      BY Zenon DEF Numbered
    <3>2. i # 1
      BY <1>1, <3>1, TailPlaces, Zenon
    <3> QED
      BY <3>1, <3>2, TailPlaces, Zenon
  <2> QED
    BY <2>1, <2>2, <2>3, Zenon DEF Numbered
<1>2. ASSUME Is(Head(q), kind, id)
      PROVE  Head(q).n = lo + 1 /\ Numbered(Tail(q), kind, id, lo + 1, hi)
  <2>1. 1 \in DOMAIN q /\ Is(q[1], kind, id) /\ q[1] = Head(q)
    BY <1>2, TailPlaces, Zenon
  <2>2. q[1].n \in lo + 1 .. hi
    BY <2>1, Zenon DEF Numbered
  <2>3. q[1].n = lo + 1
    <3>1. lo + 1 \in lo + 1 .. hi
      BY <2>2
    <3>2. PICK i \in DOMAIN q : Is(q[i], kind, id) /\ q[i].n = lo + 1
      BY <3>1, Zenon DEF Numbered
    <3>3. i # 1 => q[1].n < q[i].n
      BY <2>1, <3>2, TailPlaces DEF Numbered
    <3> QED
      BY <2>2, <3>2, <3>3
  <2>4. \A i \in DOMAIN Tail(q) : Is(Tail(q)[i], kind, id) =>
          Tail(q)[i].n \in (lo + 1) + 1 .. hi
    <3> SUFFICES ASSUME NEW i \in DOMAIN Tail(q), Is(Tail(q)[i], kind, id)
                 PROVE  Tail(q)[i].n \in (lo + 1) + 1 .. hi
      BY Zenon
    <3>1. i + 1 \in DOMAIN q /\ Tail(q)[i] = q[i + 1] /\ 1 < i + 1
      BY TailPlaces
    <3>2. q[i + 1].n \in lo + 1 .. hi /\ q[1].n < q[i + 1].n
      BY <2>1, <3>1, Zenon DEF Numbered
    <3> QED
      BY <2>3, <3>1, <3>2
  <2>5. \A i, j \in DOMAIN Tail(q) :
          Is(Tail(q)[i], kind, id) /\ Is(Tail(q)[j], kind, id) /\ i < j =>
            Tail(q)[i].n < Tail(q)[j].n
    BY TailPlaces DEF Numbered
  <2>6. ASSUME NEW m \in (lo + 1) + 1 .. hi
        PROVE  \E i \in DOMAIN Tail(q) : Is(Tail(q)[i], kind, id) /\ Tail(q)[i].n = m
    <3>1. PICK i \in DOMAIN q : Is(q[i], kind, id) /\ q[i].n = m
      BY DEF Numbered
    <3>2. i # 1
      BY <2>3, <3>1
    <3> QED
      BY <3>1, <3>2, TailPlaces, Zenon
  <2>7. lo + 1 <= hi
    BY <2>2
  <2> QED
    BY <2>1, <2>3, <2>4, <2>5, <2>6, <2>7, Zenon DEF Numbered
<1> QED
  BY <1>1, <1>2, Zenon

-----------------------------------------------------------------------------
\* The host has approved t: nothing of a tunnel is anywhere before that.
Approves(t) == connect[t] \in {"activate", "done"}

HasApproval(q, t) == \E i \in DOMAIN q : Is(q[i], "ConnectResponse", t) /\ q[i].n = Approved

\* The handshake of t goes one way: its request is on the bridge before the host
\* knows of it, its approval when the host has registered it, and what is relayed
\* after both.
Handshake(t) ==
    /\ handle[t] \in {"idle", "request"} =>
         connect[t] = "none" /\ ~Has(toHost, "ConnectRequest", t)
    /\ handle[t] \in {"request", "wait"} => t \in pending
    /\ Has(toHost, "ConnectRequest", t) => connect[t] = "none"
    /\ Once(toHost, "ConnectRequest", t)
    /\ HasApproval(toHelper, t) => Approves(t)
    /\ \A i \in DOMAIN respCh[t] : respCh[t][i].n = Approved => Approves(t)
    /\ handle[t] \in {"reply", "abort", "relay"} \/ upRelay[t] # "off" \/ downRelay[t] # "off" => Approves(t)
    /\ \A kind \in TunnelKinds :
         /\ Has(toHost, kind, t) \/ Has(toHelper, kind, t) => Approves(t)
         /\ Before(toHelper, "ConnectResponse", kind, t)
    /\ t \in overflow \/ recvCh[t] # <<>> => Approves(t)
    /\ outRelay[t] # "off" \/ inRelay[t] # "off" => connect[t] = "done"
    /\ connect[t] = "activate" \/ outRelay[t] # "off" =>
         handle[t] # "wait" \/ respCh[t] # <<>> \/ helperEnd = "closed"
           \/ Has(toHelper, "ConnectResponse", t)

HandshakeInv == \A t \in Tunnels : Handshake(t)

\* What the tables of both sides say of t, and that what is in no table is shut.
TableInv ==
    /\ hostLoop # "decode" => ~HostCanSend
    /\ \A t \in Tunnels :
        /\ connect[t] \in {"none", "dial", "refused"} => table[t] = "none"
        /\ connect[t] \in {"respond", "activate", "done"} /\ table[t] = "none" => t \in closed
        /\ table[t] = "pending" => connect[t] \in {"respond", "activate"}
        /\ handle[t] # "idle" => t \in registered \cup shut
        /\ upRelay[t] # "off" \/ downRelay[t] # "off" => handle[t] \in {"relay", "done"}
        /\ helperEnd = "closed" => t \in shut /\ handle[t] = "done" /\ upRelay[t] = "off"
                                     /\ downRelay[t] = "off"

\* One direction of t.  The sender, whose relay is in state r1, has read `sent`
\* chunks; q2 is the bridge and q1 the queue of the receiver, whose relay is in
\* state r2, is writing chunk and has written got.  ended and fin are the tunnels
\* whose sender has closed its half and whose receiver has been told so.
StreamInv(t, r1, sent, ended, q2, q1, r2, chunk, got, fin) ==
    /\ \E mid, hi \in 0 .. sent :
         /\ Numbered(q1, "TunnelFrame", t, IF r2 = "write" THEN Len(got) + 1 ELSE Len(got), mid)
         /\ Numbered(q2, "TunnelFrame", t, mid, hi)
         /\ r1 \in {"read", "eof"} => hi = sent
         /\ r1 = "send" => hi + 1 = sent
         /\ Has(q1, "WriteClose", t) \/ Has(q2, "WriteClose", t) \/ t \in fin => hi = sent
    /\ \A i \in DOMAIN q1 : q1[i].id = t
    /\ r2 = "write" => chunk = Len(got) + 1
    /\ Has(q1, "WriteClose", t) \/ Has(q2, "WriteClose", t) \/ t \in fin => t \in ended
    /\ t \in ended => r1 \notin {"read", "send"}
    /\ r1 = "eof" => t \in ended
    /\ Before(q1, "TunnelFrame", "WriteClose", t)
    /\ Before(q2, "TunnelFrame", "WriteClose", t)
    /\ Has(q1, "WriteClose", t) => ~Has(q2, "TunnelFrame", t)
    /\ t \in fin => ~Has(q1, "TunnelFrame", t) /\ ~Has(q2, "TunnelFrame", t) /\ r2 # "write"

\* A receiver gets what was sent until it is shut down or its relay fails; from
\* then on it gets nothing.
Up(t) ==
    /\ upRelay[t] = "off" /\ helperEnd = "open" => paySent[t] = 0 /\ t \notin payEnded
    /\ t \in payEnded => upRelay[t] \notin {"read", "send"}
    /\ t \notin closed /\ inRelay[t] \in {"off", "select", "write"} =>
         StreamInv(t, upRelay[t], paySent[t], payEnded, toHost, recvCh[t],
                   inRelay[t], inChunk[t], destGot[t], destFin)

Down(t) ==
    /\ outRelay[t] = "off" => destSent[t] = 0 /\ t \notin destEnded
    /\ t \in destEnded => outRelay[t] \notin {"read", "send"}
    /\ t \notin shut /\ downRelay[t] \in {"off", "select", "write"} =>
         StreamInv(t, outRelay[t], destSent[t], destEnded, toHelper, tunnelCh[t],
                   downRelay[t], downChunk[t], payGot[t], payFin)

StreamsInv == \A t \in Tunnels : Up(t) /\ Down(t)

-----------------------------------------------------------------------------
\* Type correctness.

ConnTypeOK ==
    /\ toHelper \in Seq(Envelope) /\ toHost \in Seq(Envelope)
    /\ hostEnd \in {"open", "closing", "closed"}
    /\ helperEnd \in {"open", "closed"}

HostTypeOK ==
    /\ hostLoop \in {"decode", "fail", "done"}
    /\ closePc \in {"open", "conn", "closed"}
    /\ connect \in [Tunnels -> ConnectStates]
    /\ table \in [Tunnels -> {"none", "pending", "active"}]
    /\ recvCh \in [Tunnels -> Seq(Envelope)]
    /\ \A t \in Tunnels : Len(recvCh[t]) <= RecvCap
    /\ closed \subseteq Tunnels
    /\ terminalOnce \subseteq Tunnels
    /\ overflow \subseteq Tunnels
    /\ outRelay \in [Tunnels -> OutRelayStates]
    /\ inRelay \in [Tunnels -> InRelayStates]
    /\ inChunk \in [Tunnels -> Nat]
    /\ destSent \in [Tunnels -> Nat]
    /\ destEnded \subseteq Tunnels
    /\ destGot \in [Tunnels -> Seq(Nat)]
    /\ destFin \subseteq Tunnels

HelperTypeOK ==
    /\ handle \in [Tunnels -> HandleStates]
    /\ pending \subseteq Tunnels
    /\ respCh \in [Tunnels -> Seq(Envelope)]
    /\ \A t \in Tunnels : Len(respCh[t]) <= 1
    /\ registered \subseteq Tunnels
    /\ tunnelCh \in [Tunnels -> Seq(Envelope)]
    /\ \A t \in Tunnels : Len(tunnelCh[t]) <= DeliveryCap
    /\ shut \subseteq Tunnels
    /\ upRelay \in [Tunnels -> UpRelayStates]
    /\ downRelay \in [Tunnels -> DownRelayStates]
    /\ downChunk \in [Tunnels -> Nat]
    /\ paySent \in [Tunnels -> Nat]
    /\ payEnded \subseteq Tunnels
    /\ payGot \in [Tunnels -> Seq(Nat)]
    /\ payFin \subseteq Tunnels

LEMMA TypeParts ==
  /\ TypeOK <=> ConnTypeOK /\ HostTypeOK /\ HelperTypeOK
  /\ TypeOK' <=> ConnTypeOK' /\ HostTypeOK' /\ HelperTypeOK'
<1>1. TypeOK <=> ConnTypeOK /\ HostTypeOK /\ HelperTypeOK
  BY Zenon DEF TypeOK, ConnTypeOK, HostTypeOK, HelperTypeOK
<1>2. TypeOK' <=> ConnTypeOK' /\ HostTypeOK' /\ HelperTypeOK'
  BY Zenon DEF TypeOK, ConnTypeOK, HostTypeOK, HelperTypeOK
<1> QED
  BY <1>1, <1>2, Zenon

\* What a step leaves alone keeps its type.
LEMMA TypeFrame ==
  /\ ConnTypeOK /\ UNCHANGED connVars => ConnTypeOK'
  /\ HostTypeOK /\ UNCHANGED hostVars => HostTypeOK'
  /\ HelperTypeOK /\ UNCHANGED helperVars => HelperTypeOK'
<1>1. ConnTypeOK /\ UNCHANGED connVars => ConnTypeOK'
  BY Zenon DEF ConnTypeOK, connVars
<1>2. HostTypeOK /\ UNCHANGED hostVars => HostTypeOK'
  BY Zenon DEF HostTypeOK, hostVars, relayVars, destVars
<1>3. HelperTypeOK /\ UNCHANGED helperVars => HelperTypeOK'
  BY Zenon DEF HelperTypeOK, helperVars, helperRelayVars, payVars
<1> QED
  BY <1>1, <1>2, <1>3, Zenon

\* Env builds envelopes of helperproto.
LEMMA EnvType == \A kind \in Kinds, t \in Tunnels, n \in Nat : Env(kind, t, n) \in Envelope
  BY Zenon DEF Env, Envelope

\* Client.send and RuntimeBridge.Send keep the types.
LEMMA SendType ==
  ASSUME ConnTypeOK, NEW kind \in Kinds, NEW t \in Tunnels, NEW n \in Nat
  PROVE  /\ HostSend(Env(kind, t, n)) => (toHelper \in Seq(Envelope))'
         /\ HelperSend(Env(kind, t, n)) => (toHost \in Seq(Envelope))'
         /\ HelperTrySend(Env(kind, t, n)) => (toHost \in Seq(Envelope))'
<1>1. Env(kind, t, n) \in Envelope
  BY EnvType, Zenon
<1>2. HostSend(Env(kind, t, n)) => (toHelper \in Seq(Envelope))'
  BY <1>1 DEF ConnTypeOK, HostSend
<1>3. HelperSend(Env(kind, t, n)) => (toHost \in Seq(Envelope))'
  BY <1>1 DEF ConnTypeOK, HelperSend
<1> QED
  BY <1>2, <1>3, Zenon DEF ConnTypeOK, HelperTrySend

\* What ReadLoop and the relays take from a queue.
LEMMA TakeType ==
  ASSUME NEW q \in Seq(Envelope), q # <<>>
  PROVE  /\ Head(q) \in Envelope /\ Tail(q) \in Seq(Envelope) /\ Len(Tail(q)) = Len(q) - 1
         /\ Len(q) \in Nat
         /\ Head(q).kind \in Kinds /\ Head(q).id \in Tunnels /\ Head(q).n \in Nat
<1>1. Head(q) \in Envelope
  OBVIOUS
<1>2. Head(q).kind \in Kinds /\ Head(q).id \in Tunnels /\ Head(q).n \in Nat
  BY <1>1, Zenon DEF Envelope
<1> QED
  BY <1>1, <1>2

LEMMA TerminalType ==
  ASSUME ConnTypeOK, HostTypeOK, NEW t \in Tunnels, sendTerminalClose(t)
  PROVE  (toHelper \in Seq(Envelope))' /\ (terminalOnce \subseteq Tunnels)'
  BY SendType, Zenon DEF ConnTypeOK, HostTypeOK, sendTerminalClose, Kinds

LEMMA TypeHostTunnel ==
  ASSUME ConnTypeOK, HostTypeOK, NEW t \in Tunnels, HostTunnelStep(t)
  PROVE  ConnTypeOK' /\ HostTypeOK'
<1>1. CASE ConnectRefuse(t)
  BY <1>1, SendType, Zenon DEF ConnectRefuse, ConnTypeOK, HostTypeOK, ConnectStates, Kinds, Refused, relayVars, destVars
<1>2. CASE ConnectRegister(t)
  BY <1>2, Zenon DEF ConnectRegister, registerPendingTunnel, ConnTypeOK, HostTypeOK, ConnectStates, connVars, relayVars, destVars
<1>3. CASE ConnectRespond(t)
  BY <1>3, SendType, Zenon DEF ConnectRespond, closeTerminal, unregisterTunnel, shutdown, ConnTypeOK, HostTypeOK,
     ConnectStates, Kinds, Approved, relayVars, destVars
<1>4. CASE ConnectActivate(t)
  BY <1>4, Zenon DEF ConnectActivate, activateTunnel, start, shutdown, ConnTypeOK, HostTypeOK, ConnectStates,
     OutRelayStates, InRelayStates, connVars, destVars
<1>5. CASE OutRead(t)
  <2>1. (destSent \in [Tunnels -> Nat])'
    <3>1. destSent' = destSent \/ destSent' = [destSent EXCEPT ![t] = destSent[t] + 1]
      BY <1>5, Zenon DEF OutRead
    <3>2. destSent \in [Tunnels -> Nat]
      BY Zenon DEF HostTypeOK
    <3> QED
      BY <3>1, <3>2
  <2>2. (outRelay \in [Tunnels -> OutRelayStates])' /\ (destEnded \subseteq Tunnels)'
    BY <1>5, Zenon DEF OutRead, HostTypeOK, OutRelayStates
  <2> QED
    BY <1>5, <2>1, <2>2, TypeFrame, Zenon DEF OutRead, HostTypeOK
<1>6. CASE OutSend(t)
  BY <1>6, SendType, Zenon DEF OutSend, ConnTypeOK, HostTypeOK, OutRelayStates, Kinds, destVars
<1>7. CASE OutError(t)
  BY <1>7, TerminalType, Zenon DEF OutError, ConnTypeOK, HostTypeOK, OutRelayStates, destVars
<1>8. CASE OutExit(t)
  BY <1>8, Zenon DEF OutExit, closeTerminal, unregisterTunnel, shutdown, ConnTypeOK, HostTypeOK, OutRelayStates, connVars, destVars
<1>9. CASE InReceive(t)
  <2>1. recvCh[t] \in Seq(Envelope) /\ recvCh[t] # <<>> /\ Len(recvCh[t]) <= RecvCap
    BY <1>9, Zenon DEF InReceive, HostTypeOK
  <2>2. Head(recvCh[t]).n \in Nat /\ Tail(recvCh[t]) \in Seq(Envelope)
        /\ Len(Tail(recvCh[t])) <= RecvCap
    BY <2>1, TakeType, TunnelProtoAssumption
  <2>3. /\ (recvCh \in [Tunnels -> Seq(Envelope)])'
        /\ (\A u \in Tunnels : Len(recvCh[u]) <= RecvCap)'
    BY <1>9, <2>2, Zenon DEF InReceive, HostTypeOK
  <2>4. (inChunk \in [Tunnels -> Nat])' /\ (inRelay \in [Tunnels -> InRelayStates])'
        /\ (destFin \subseteq Tunnels)'
    BY <1>9, <2>2, Zenon DEF InReceive, HostTypeOK, InRelayStates
  <2> QED
    BY <1>9, <2>3, <2>4, TypeFrame, Zenon DEF InReceive, HostTypeOK
<1>10. CASE InClosed(t)
  BY <1>10 DEF InClosed, ConnTypeOK, HostTypeOK, InRelayStates, connVars, destVars
<1>11. CASE InWrite(t)
  <2>1. (destGot \in [Tunnels -> Seq(Nat)])'
    <3>1. destGot' = destGot \/ destGot' = [destGot EXCEPT ![t] = Append(destGot[t], inChunk[t])]
      BY <1>11, Zenon DEF InWrite
    <3>2. Append(destGot[t], inChunk[t]) \in Seq(Nat)
      BY DEF HostTypeOK
    <3> QED
      BY <3>1, <3>2, Zenon DEF HostTypeOK
  <2>2. (inChunk \in [Tunnels -> Nat])' /\ (inRelay \in [Tunnels -> InRelayStates])'
    BY <1>11, Zenon DEF InWrite, HostTypeOK, InRelayStates
  <2> QED
    BY <1>11, <2>1, <2>2, TypeFrame, Zenon DEF InWrite, HostTypeOK
<1>12. CASE InError(t)
  BY <1>12, TerminalType, Zenon DEF InError, ConnTypeOK, HostTypeOK, InRelayStates, destVars
<1>13. CASE InExit(t)
  BY <1>13, Zenon DEF InExit, closeTerminal, unregisterTunnel, shutdown, ConnTypeOK, HostTypeOK, InRelayStates, connVars, destVars
<1>14. CASE OverflowSend(t)
  BY <1>14, TerminalType, Zenon DEF OverflowSend, ConnTypeOK, HostTypeOK, relayVars, destVars
<1> QED
  BY <1>1, <1>2, <1>3, <1>4, <1>5, <1>6, <1>7, <1>8, <1>9, <1>10, <1>11, <1>12, <1>13, <1>14, Zenon
  DEF HostTunnelStep

LEMMA TypeHostNext ==
  ASSUME ConnTypeOK, HostTypeOK, HostNext
  PROVE  ConnTypeOK' /\ HostTypeOK'
<1>1. CASE HostDecode
  <2> DEFINE env == Head(toHost)
  <2>1. env \in Envelope /\ Tail(toHost) \in Seq(Envelope) /\ env.id \in Tunnels
    BY <1>1, TakeType, Zenon DEF HostDecode, ConnTypeOK
  <2>2. ConnTypeOK'
    <3>1. (toHost \in Seq(Envelope))' /\ (hostEnd \in {"open", "closing", "closed"})'
      BY <1>1, <2>1, Zenon DEF HostDecode, ConnTypeOK, AfterRead
    <3> QED
      BY <1>1, <3>1, Zenon DEF HostDecode, ConnTypeOK
  <2> HIDE DEF env
  <2>3. (connect \in [Tunnels -> ConnectStates])'
    <3>1. connect' = connect \/ connect' = [connect EXCEPT ![env.id] = "dial"]
      BY <1>1, Zenon DEF HostDecode, env
    <3> QED
      BY <2>1, <3>1, Zenon DEF HostTypeOK, ConnectStates
  <2>4. \/ UNCHANGED <<recvCh, table, closed, overflow>>
        \/ deliver(env)
    BY <1>1, Zenon DEF HostDecode, HandleTunnel, env
  <2>5. /\ (recvCh \in [Tunnels -> Seq(Envelope)])'
        /\ (\A t \in Tunnels : Len(recvCh[t]) <= RecvCap)'
        /\ (table \in [Tunnels -> {"none", "pending", "active"}])'
        /\ (closed \subseteq Tunnels)' /\ (overflow \subseteq Tunnels)'
    <3>1. CASE UNCHANGED <<recvCh, table, closed, overflow>>
      BY <3>1, Zenon DEF HostTypeOK
    <3>2. CASE deliver(env)
      <4>1. Append(recvCh[env.id], env) \in Seq(Envelope)
            /\ Len(Append(recvCh[env.id], env)) = Len(recvCh[env.id]) + 1
        BY <2>1 DEF HostTypeOK
      <4>2. recvCh' = recvCh \/ (Len(recvCh[env.id]) < RecvCap
              /\ recvCh' = [recvCh EXCEPT ![env.id] = Append(recvCh[env.id], env)])
        BY <3>2, Zenon DEF deliver
      <4>3. /\ (recvCh \in [Tunnels -> Seq(Envelope)])'
            /\ (\A t \in Tunnels : Len(recvCh[t]) <= RecvCap)'
        <5>1. CASE recvCh' = recvCh
          BY <5>1, Zenon DEF HostTypeOK
        <5>2. CASE Len(recvCh[env.id]) < RecvCap
                   /\ recvCh' = [recvCh EXCEPT ![env.id] = Append(recvCh[env.id], env)]
          <6>1. Len(Append(recvCh[env.id], env)) <= RecvCap
            BY <2>1, <4>1, <5>2, TunnelProtoAssumption DEF HostTypeOK
          <6> QED
            BY <2>1, <4>1, <5>2, <6>1, Zenon DEF HostTypeOK
        <5> QED
          BY <4>2, <5>1, <5>2, Zenon
      <4> QED
        BY <2>1, <3>2, <4>3, Zenon DEF deliver, closeTerminal, unregisterTunnel, shutdown, HostTypeOK
    <3> QED
      BY <2>4, <3>1, <3>2, Zenon
  <2> QED
    BY <1>1, <2>2, <2>3, <2>5, Zenon DEF HostDecode, HostTypeOK, relayVars, destVars
<1>2. CASE HostDecodeError
  BY <1>2, Zenon DEF HostDecodeError, AfterRead, ConnTypeOK, HostTypeOK, relayVars, destVars
<1>3. CASE HostLoopEnd
  BY <1>3, Zenon DEF HostLoopEnd, ShutdownTunnels, ConnTypeOK, HostTypeOK, connVars, relayVars, destVars
<1>4. CASE CloseTunnels
  BY <1>4, Zenon DEF CloseTunnels, ShutdownTunnels, ConnTypeOK, HostTypeOK, connVars, relayVars, destVars
<1>5. CASE CloseConn
  BY <1>5, Zenon DEF CloseConn, ConnTypeOK, HostTypeOK, relayVars, destVars
<1> QED
  BY <1>1, <1>2, <1>3, <1>4, <1>5, TypeHostTunnel, Zenon DEF HostNext

LEMMA TypeHelperTunnel ==
  ASSUME ConnTypeOK, HelperTypeOK, NEW t \in Tunnels, HelperTunnelStep(t)
  PROVE  ConnTypeOK' /\ HelperTypeOK'
<1>1. CASE ConnectBegin(t)
  BY <1>1, Zenon DEF ConnectBegin, RegisterTunnel, ConnTypeOK, HelperTypeOK, HandleStates, connVars, helperRelayVars, payVars
<1>2. CASE ConnectSend(t)
  BY <1>2, SendType, Zenon DEF ConnectSend, ConnectFails, UnregisterTunnel, ConnTypeOK, HelperTypeOK, HandleStates,
     Kinds, payVars
<1>3. CASE ConnectAnswered(t)
  <2>1. respCh[t] \in Seq(Envelope) /\ respCh[t] # <<>> /\ Len(respCh[t]) <= 1
    BY <1>3, Zenon DEF ConnectAnswered, HelperTypeOK
  <2>2. Tail(respCh[t]) \in Seq(Envelope) /\ Len(Tail(respCh[t])) <= 1
    BY <2>1
  <2>3. /\ (respCh \in [Tunnels -> Seq(Envelope)])'
        /\ (\A u \in Tunnels : Len(respCh[u]) <= 1)'
    BY <1>3, <2>2, Zenon DEF ConnectAnswered, HelperTypeOK
  <2>4. /\ (handle \in [Tunnels -> HandleStates])' /\ (pending \subseteq Tunnels)'
        /\ (registered \subseteq Tunnels)' /\ (shut \subseteq Tunnels)'
    BY <1>3, Zenon DEF ConnectAnswered, ConnectFails, UnregisterTunnel, HelperTypeOK, HandleStates
  <2> QED
    BY <1>3, <2>3, <2>4, TypeFrame, Zenon DEF ConnectAnswered, HelperTypeOK, payVars
<1>4. CASE ConnectTimeout(t)
  BY <1>4, Zenon DEF ConnectTimeout, ConnectFails, UnregisterTunnel, ConnTypeOK, HelperTypeOK, HandleStates, connVars, payVars
<1>5. CASE ConnectReply(t)
  BY <1>5, Zenon DEF ConnectReply, ConnTypeOK, HelperTypeOK, HandleStates, UpRelayStates, DownRelayStates, connVars, payVars
<1>6. CASE ConnectAbort(t)
  BY <1>6, SendType, Zenon DEF ConnectAbort, SendTunnelClose, UnregisterTunnel, ConnTypeOK, HelperTypeOK, HandleStates,
     Kinds, payVars
<1>7. CASE ConnectDone(t)
  BY <1>7, Zenon DEF ConnectDone, UnregisterTunnel, ConnTypeOK, HelperTypeOK, HandleStates, connVars, payVars
<1>8. CASE UpRead(t)
  <2>1. (paySent \in [Tunnels -> Nat])'
    <3>1. paySent' = paySent \/ paySent' = [paySent EXCEPT ![t] = paySent[t] + 1]
      BY <1>8, Zenon DEF UpRead
    <3>2. paySent \in [Tunnels -> Nat]
      BY Zenon DEF HelperTypeOK
    <3> QED
      BY <3>1, <3>2
  <2>2. (upRelay \in [Tunnels -> UpRelayStates])' /\ (payEnded \subseteq Tunnels)'
    BY <1>8, Zenon DEF UpRead, HelperTypeOK, UpRelayStates
  <2> QED
    BY <1>8, <2>1, <2>2, TypeFrame, Zenon DEF UpRead, HelperTypeOK
<1>9. CASE UpSend(t)
  BY <1>9, SendType, Zenon DEF UpSend, SendTunnelClose, ConnTypeOK, HelperTypeOK, UpRelayStates, Kinds, payVars
<1>10. CASE UpError(t)
  BY <1>10, SendType, Zenon DEF UpError, SendTunnelClose, ConnTypeOK, HelperTypeOK, UpRelayStates, Kinds, payVars
<1>11. CASE UpExit(t)
  BY <1>11, Zenon DEF UpExit, ConnTypeOK, HelperTypeOK, UpRelayStates, connVars, payVars
<1>12. CASE DownReceive(t)
  <2>1. tunnelCh[t] \in Seq(Envelope) /\ tunnelCh[t] # <<>> /\ Len(tunnelCh[t]) <= DeliveryCap
    BY <1>12, Zenon DEF DownReceive, HelperTypeOK
  <2>2. Head(tunnelCh[t]).n \in Nat /\ Tail(tunnelCh[t]) \in Seq(Envelope)
        /\ Len(Tail(tunnelCh[t])) <= DeliveryCap
    BY <2>1, TakeType, TunnelProtoAssumption
  <2>3. /\ (tunnelCh \in [Tunnels -> Seq(Envelope)])'
        /\ (\A u \in Tunnels : Len(tunnelCh[u]) <= DeliveryCap)'
    BY <1>12, <2>2, Zenon DEF DownReceive, HelperTypeOK
  <2>4. (downChunk \in [Tunnels -> Nat])' /\ (downRelay \in [Tunnels -> DownRelayStates])'
        /\ (payFin \subseteq Tunnels)'
    BY <1>12, <2>2, Zenon DEF DownReceive, HelperTypeOK, DownRelayStates
  <2> QED
    BY <1>12, <2>3, <2>4, TypeFrame, Zenon DEF DownReceive, HelperTypeOK
<1>13. CASE DownCancelled(t)
  BY <1>13, Zenon DEF DownCancelled, ConnTypeOK, HelperTypeOK, DownRelayStates, connVars, payVars
<1>14. CASE DownWrite(t)
  <2>1. (payGot \in [Tunnels -> Seq(Nat)])'
    <3>1. payGot' = payGot \/ payGot' = [payGot EXCEPT ![t] = Append(payGot[t], downChunk[t])]
      BY <1>14, Zenon DEF DownWrite
    <3>2. Append(payGot[t], downChunk[t]) \in Seq(Nat)
      BY DEF HelperTypeOK
    <3> QED
      BY <3>1, <3>2, Zenon DEF HelperTypeOK
  <2>2. (downChunk \in [Tunnels -> Nat])' /\ (downRelay \in [Tunnels -> DownRelayStates])'
    BY <1>14, Zenon DEF DownWrite, HelperTypeOK, DownRelayStates
  <2> QED
    BY <1>14, <2>1, <2>2, TypeFrame, Zenon DEF DownWrite, HelperTypeOK
<1>15. CASE DownWriteFails(t)
  BY <1>15, Zenon DEF DownWriteFails, ConnTypeOK, HelperTypeOK, DownRelayStates, connVars, payVars
<1>16. CASE DownError(t)
  BY <1>16, SendType, Zenon DEF DownError, SendTunnelClose, ConnTypeOK, HelperTypeOK, DownRelayStates, Kinds, payVars
<1>17. CASE DownExit(t)
  BY <1>17, Zenon DEF DownExit, ConnTypeOK, HelperTypeOK, DownRelayStates, connVars, payVars
<1> QED
  BY <1>1, <1>2, <1>3, <1>4, <1>5, <1>6, <1>7, <1>8, <1>9, <1>10, <1>11, <1>12, <1>13, <1>14, <1>15,
     <1>16, <1>17, Zenon
  DEF HelperTunnelStep

LEMMA TypeHelperNext ==
  ASSUME ConnTypeOK, HelperTypeOK, HelperNext
  PROVE  ConnTypeOK' /\ HelperTypeOK'
<1>1. CASE HelperDecode
  <2> DEFINE env == Head(toHelper)
  <2>1. env \in Envelope /\ Tail(toHelper) \in Seq(Envelope) /\ env.id \in Tunnels
    BY <1>1, TakeType, Zenon DEF HelperDecode, ConnTypeOK
  <2>2. ConnTypeOK'
    <3>1. (toHelper \in Seq(Envelope))'
      BY <1>1, <2>1, Zenon DEF HelperDecode
    <3> QED
      BY <1>1, <3>1, Zenon DEF HelperDecode, ConnTypeOK
  <2> HIDE DEF env
  <2>3. deliverResponse(env) \/ DeliverTunnel(env)
    BY <1>1, Zenon DEF HelperDecode, env
  <2>4. /\ (respCh \in [Tunnels -> Seq(Envelope)])'
        /\ (\A t \in Tunnels : Len(respCh[t]) <= 1)'
    <3>1. respCh' = respCh \/ respCh' = [respCh EXCEPT ![env.id] = <<env>>]
      BY <2>3, Zenon DEF deliverResponse, DeliverTunnel
    <3>0. <<env>> \in Seq(Envelope) /\ Len(<<env>>) <= 1
      BY <2>1
    <3>2. PICK r \in Seq(Envelope) : r = <<env>> /\ Len(r) <= 1
      BY <3>0, Zenon
    <3>3. respCh \in [Tunnels -> Seq(Envelope)] /\ \A t \in Tunnels : Len(respCh[t]) <= 1
      BY Zenon DEF HelperTypeOK
    <3>4. respCh' = respCh \/ respCh' = [respCh EXCEPT ![env.id] = r]
      BY <3>1, <3>2, Zenon
    <3>5. CASE respCh' = [respCh EXCEPT ![env.id] = r]
      <4>1. \A t \in Tunnels : respCh'[t] = respCh[t] \/ respCh'[t] = r
        BY <3>3, <3>5, Zenon
      <4>2. (respCh \in [Tunnels -> Seq(Envelope)])'
        BY <3>3, <3>5, Zenon
      <4> QED
        BY <3>2, <3>3, <4>1, <4>2, Zenon
    <3> QED
      BY <3>3, <3>4, <3>5, Zenon
  <2>5. /\ (tunnelCh \in [Tunnels -> Seq(Envelope)])'
        /\ (\A t \in Tunnels : Len(tunnelCh[t]) <= DeliveryCap)'
    <3>1. tunnelCh' = tunnelCh \/ (Len(tunnelCh[env.id]) < DeliveryCap
            /\ tunnelCh' = [tunnelCh EXCEPT ![env.id] = Append(tunnelCh[env.id], env)])
      BY <2>3, Zenon DEF deliverResponse, DeliverTunnel
    <3>2. CASE tunnelCh' = tunnelCh
      BY <3>2, Zenon DEF HelperTypeOK
    <3>3. CASE Len(tunnelCh[env.id]) < DeliveryCap
               /\ tunnelCh' = [tunnelCh EXCEPT ![env.id] = Append(tunnelCh[env.id], env)]
      <4>1. Append(tunnelCh[env.id], env) \in Seq(Envelope)
            /\ Len(Append(tunnelCh[env.id], env)) = Len(tunnelCh[env.id]) + 1
        BY <2>1 DEF HelperTypeOK
      <4>2. Len(Append(tunnelCh[env.id], env)) <= DeliveryCap
        BY <2>1, <4>1, <3>3, TunnelProtoAssumption, SMTT(30) DEF HelperTypeOK
      <4> QED
        BY <2>1, <3>3, <4>1, <4>2, Zenon DEF HelperTypeOK
    <3> QED
      BY <3>1, <3>2, <3>3, Zenon
  <2> QED
    BY <1>1, <2>2, <2>4, <2>5, Zenon DEF HelperDecode, HelperTypeOK, helperRelayVars, payVars
<1>2. CASE HelperExit
  <2>1. <<>> \in Seq(Envelope) /\ Len(<<>>) <= 1 /\ Len(<<>>) <= DeliveryCap
    BY TunnelProtoAssumption
  <2> QED
    BY <1>2, <2>1, Zenon DEF HelperExit, ConnTypeOK, HelperTypeOK, HandleStates, UpRelayStates, DownRelayStates, payVars
<1> QED
  BY <1>1, <1>2, TypeHelperTunnel, Zenon DEF HelperNext

\* Every step keeps the types, and no channel outgrows its capacity.
LEMMA TypeNext == TypeOK /\ [Next]_vars => TypeOK'
<1> SUFFICES ASSUME ConnTypeOK, HostTypeOK, HelperTypeOK, [Next]_vars
             PROVE  ConnTypeOK' /\ HostTypeOK' /\ HelperTypeOK'
  BY TypeParts, Zenon
<1>1. CASE HostNext /\ UNCHANGED helperVars
  BY <1>1, TypeHostNext, TypeFrame, Zenon
<1>2. CASE HelperNext /\ UNCHANGED hostVars
  BY <1>2, TypeHelperNext, TypeFrame, Zenon
<1>3. CASE UNCHANGED vars
  BY <1>3, TypeFrame, Zenon DEF vars
<1> QED
  BY <1>1, <1>2, <1>3, Zenon DEF Next

-----------------------------------------------------------------------------
\* The tables.

tableVars == <<hostLoop, hostEnd, helperEnd, connect, table, closed, handle, registered, shut,
               upRelay, downRelay>>

LEMMA TableFrame ==
  TableInv /\ LoopEndReleasesTunnels /\ UNCHANGED tableVars => TableInv' /\ LoopEndReleasesTunnels'
  BY Zenon DEF TableInv, LoopEndReleasesTunnels, HostCanSend, tableVars

LEMMA TableHostTunnel ==
  ASSUME TypeOK, TableInv, LoopEndReleasesTunnels, NEW t \in Tunnels, HostTunnelStep(t), UNCHANGED helperVars
  PROVE  TableInv' /\ LoopEndReleasesTunnels'
<1>0. UNCHANGED <<hostLoop, hostEnd, helperEnd>>
  BY Zenon DEF HostTunnelStep, ConnectRefuse, ConnectRegister, ConnectRespond, ConnectActivate, OutRead, OutSend, OutError, OutExit, InReceive, InClosed, InWrite, InError, InExit, OverflowSend, connVars
<1>1. UNCHANGED <<handle, registered, shut, upRelay, downRelay>>
  BY Zenon DEF helperVars, helperRelayVars
<1>2. connect \in [Tunnels -> ConnectStates] /\ table \in [Tunnels -> {"none", "pending", "active"}]
  BY Zenon DEF TypeOK
<1>3. CASE UNCHANGED <<connect, table, closed>>
  BY <1>0, <1>1, <1>3, TableFrame, Zenon DEF tableVars
<1>4. CASE ConnectRefuse(t)
  BY <1>0, <1>1, <1>2, <1>4 DEF ConnectRefuse, TableInv, LoopEndReleasesTunnels, HostCanSend
<1>5. CASE ConnectRegister(t)
  BY <1>0, <1>1, <1>2, <1>5, ZenonT(40) DEF ConnectRegister, registerPendingTunnel, TableInv, LoopEndReleasesTunnels, HostCanSend
<1>6. CASE ConnectRespond(t)
  BY <1>0, <1>1, <1>2, <1>6 DEF ConnectRespond, closeTerminal, unregisterTunnel, shutdown, TableInv,
     LoopEndReleasesTunnels, HostSend, HostCanSend
<1>7. CASE ConnectActivate(t)
  BY <1>0, <1>1, <1>2, <1>7 DEF ConnectActivate, activateTunnel, shutdown, TableInv,
     LoopEndReleasesTunnels, HostCanSend
<1>8. CASE closeTerminal(t) /\ connect' = connect
  BY <1>0, <1>1, <1>2, <1>8 DEF closeTerminal, unregisterTunnel, shutdown, TableInv,
     LoopEndReleasesTunnels, HostCanSend
<1> QED
  BY <1>3, <1>4, <1>5, <1>6, <1>7, <1>8, Zenon
  DEF HostTunnelStep, OutRead, OutSend, OutError, OutExit, InReceive, InClosed, InWrite, InError, InExit, OverflowSend

LEMMA TableHostNext ==
  ASSUME TypeOK, HandshakeInv, TableInv, LoopEndReleasesTunnels, HostNext, UNCHANGED helperVars
  PROVE  TableInv' /\ LoopEndReleasesTunnels'
<1>1. UNCHANGED <<handle, registered, shut, upRelay, downRelay>>
  BY Zenon DEF helperVars, helperRelayVars
<1>2. connect \in [Tunnels -> ConnectStates] /\ table \in [Tunnels -> {"none", "pending", "active"}]
  BY Zenon DEF TypeOK
<1>3. CASE HostDecode
  <2> DEFINE env == Head(toHost)
  <2>1. env \in Envelope /\ env.id \in Tunnels
    BY <1>3, TakeType, Zenon DEF HostDecode, TypeOK
  <2>2. hostLoop' = hostLoop /\ helperEnd' = helperEnd /\ (HostCanSend' => HostCanSend) /\ hostLoop = "decode"
    BY <1>3, Zenon DEF HostDecode, HostCanSend, AfterRead
  <2>3. CASE env.kind = "ConnectRequest" /\ connect' = [connect EXCEPT ![env.id] = "dial"]
             /\ UNCHANGED <<recvCh, table, closed, overflow>>
    <3>1. Has(toHost, "ConnectRequest", env.id)
      <4>1. 1 \in DOMAIN toHost /\ toHost[1] = env
        BY <1>3, TailPlaces, Zenon DEF HostDecode, TypeOK
      <4> QED
        BY <2>3, <4>1, Zenon DEF Has, Is
    <3>2. connect[env.id] = "none"
      BY <2>1, <3>1, Zenon DEF HandshakeInv, Handshake
    <3> HIDE DEF env
    <3> QED
      BY <1>1, <1>2, <2>1, <2>2, <2>3, <3>2 DEF TableInv, LoopEndReleasesTunnels
  <2>4. CASE connect' = connect /\ UNCHANGED <<table, closed>>
    BY <1>1, <2>2, <2>4, Zenon DEF TableInv, LoopEndReleasesTunnels
  <2>5. CASE connect' = connect /\ closeTerminal(env.id)
    <3> HIDE DEF env
    <3> QED
      BY <1>1, <1>2, <2>1, <2>2, <2>5, Zenon DEF closeTerminal, unregisterTunnel, shutdown, TableInv,
         LoopEndReleasesTunnels
  <2> QED
    BY <1>3, <2>3, <2>4, <2>5, Zenon DEF HostDecode, HandleTunnel, deliver
<1>4. CASE HostDecodeError
  BY <1>1, <1>2, <1>4, Zenon DEF HostDecodeError, AfterRead, HostCanSend, TableInv, LoopEndReleasesTunnels
<1>5. CASE HostLoopEnd
  BY <1>1, <1>2, <1>5, Zenon DEF HostLoopEnd, ShutdownTunnels, HostCanSend, TableInv, LoopEndReleasesTunnels,
     connVars, ConnectStates
<1>6. CASE CloseTunnels
  BY <1>1, <1>2, <1>6, Zenon DEF CloseTunnels, ShutdownTunnels, HostCanSend, TableInv, LoopEndReleasesTunnels,
     connVars, ConnectStates
<1>7. CASE CloseConn
  BY <1>1, <1>2, <1>7 DEF CloseConn, HostCanSend, TableInv, LoopEndReleasesTunnels
<1> QED
  BY <1>3, <1>4, <1>5, <1>6, <1>7, TableHostTunnel, Zenon DEF HostNext

LEMMA TableHelperNext ==
  ASSUME TypeOK, TableInv, LoopEndReleasesTunnels, HelperNext, UNCHANGED hostVars
  PROVE  TableInv' /\ LoopEndReleasesTunnels'
<1>1. UNCHANGED <<hostLoop, connect, table, closed>> /\ hostEnd' = hostEnd
  BY ZenonT(40) DEF hostVars, HelperNext, HelperTunnelStep, HelperDecode, HelperExit, ConnectBegin, ConnectSend, ConnectAnswered, ConnectTimeout, ConnectReply, ConnectAbort, ConnectDone, UpRead, UpSend, UpError, UpExit, DownReceive, DownCancelled, DownWrite, DownWriteFails, DownError, DownExit, connVars
<1>2. /\ handle \in [Tunnels -> HandleStates] /\ shut \subseteq Tunnels /\ registered \subseteq Tunnels
      /\ upRelay \in [Tunnels -> UpRelayStates] /\ downRelay \in [Tunnels -> DownRelayStates]
  BY Zenon DEF TypeOK
<1>3. CASE HelperExit
  BY <1>1, <1>3, Zenon DEF HelperExit, TableInv, LoopEndReleasesTunnels, HostCanSend
<1>4. CASE HelperDecode
  BY <1>1, <1>4, TableFrame, Zenon DEF HelperDecode, tableVars, helperRelayVars
<1>5. ASSUME NEW t \in Tunnels, HelperTunnelStep(t)
      PROVE  TableInv' /\ LoopEndReleasesTunnels'
  <2>1. helperEnd = "open" /\ helperEnd' = "open"
    BY <1>5, Zenon DEF HelperTunnelStep, ConnectBegin, ConnectSend, ConnectAnswered, ConnectTimeout, ConnectReply, ConnectAbort, ConnectDone, UpRead, UpSend, UpError, UpExit, DownReceive, DownCancelled, DownWrite, DownWriteFails, DownError, DownExit, connVars
  <2>2. \A u \in Tunnels : handle'[u] # "idle" => u \in registered' \cup shut'
    <3>1. \A u \in Tunnels : handle[u] # "idle" => u \in registered \cup shut
      BY Zenon DEF TableInv
    <3>2. shut' = shut \/ shut' = shut \cup {t}
      BY <1>5, Zenon DEF HelperTunnelStep, ConnectFails, helperRelayVars, ConnectBegin, ConnectSend, ConnectAnswered, ConnectTimeout, ConnectReply, ConnectAbort, ConnectDone, UpRead, UpSend, UpError, UpExit, DownReceive, DownCancelled, DownWrite, DownWriteFails, DownError, DownExit
    <3>3. \A u \in Tunnels \ {t} : handle'[u] = handle[u] /\ (u \in registered => u \in registered')
      BY <1>2, <1>5, Zenon DEF HelperTunnelStep, RegisterTunnel, UnregisterTunnel, ConnectFails, ConnectBegin, ConnectSend, ConnectAnswered, ConnectTimeout, ConnectReply, ConnectAbort, ConnectDone, UpRead, UpSend, UpError, UpExit, DownReceive, DownCancelled, DownWrite, DownWriteFails, DownError, DownExit
    <3>4. handle'[t] # "idle" => t \in registered' \cup shut'
      <4>1. CASE UNCHANGED <<handle, registered>>
        BY <3>1, <3>2, <4>1, Zenon
      <4>2. CASE ConnectBegin(t) \/ ConnectSend(t) \/ ConnectAnswered(t) \/ ConnectTimeout(t)
                 \/ ConnectReply(t) \/ ConnectAbort(t) \/ ConnectDone(t)
        BY <1>2, <3>1, <4>2, Zenon DEF ConnectBegin, ConnectSend, ConnectAnswered, ConnectTimeout, ConnectReply,
           ConnectAbort, ConnectDone, RegisterTunnel, UnregisterTunnel, ConnectFails
      <4> QED
        BY <1>5, <4>1, <4>2, Zenon DEF HelperTunnelStep, UpRead, UpSend, UpError, UpExit, DownReceive, DownCancelled, DownWrite, DownWriteFails, DownError, DownExit
    <3> QED
      BY <3>1, <3>2, <3>3, <3>4, Zenon
  <2>3. \A v \in Tunnels : upRelay'[v] # "off" \/ downRelay'[v] # "off" => handle'[v] \in {"relay", "done"}
    <3>1. \A v \in Tunnels : upRelay[v] # "off" \/ downRelay[v] # "off" => handle[v] \in {"relay", "done"}
      BY Zenon DEF TableInv
    <3>2. CASE ConnectReply(t)
      BY <1>2, <3>1, <3>2, Zenon DEF ConnectReply
    <3>3. CASE handle' = handle
      <4>1. \A v \in Tunnels : /\ upRelay'[v] # "off" => upRelay[v] # "off"
                               /\ downRelay'[v] # "off" => downRelay[v] # "off"
        <5>1. CASE UNCHANGED <<upRelay, downRelay>>
          BY <5>1, Zenon
        <5>2. CASE UpRead(t) \/ UpSend(t) \/ UpError(t) \/ UpExit(t)
          BY <1>2, <5>2, Zenon DEF UpRead, UpSend, UpError, UpExit
        <5>3. CASE DownReceive(t) \/ DownCancelled(t) \/ DownWrite(t) \/ DownWriteFails(t) \/ DownError(t) \/ DownExit(t)
          BY <1>2, <5>3, Zenon DEF DownReceive, DownCancelled, DownWrite, DownWriteFails, DownError, DownExit
        <5>4. CASE ConnectReply(t)
          BY <1>2, <3>3, <5>4, Zenon DEF ConnectReply
        <5> QED
          BY <1>5, <5>1, <5>2, <5>3, <5>4, Zenon DEF HelperTunnelStep, helperRelayVars, ConnectBegin, ConnectSend,
             ConnectAnswered, ConnectTimeout, ConnectAbort, ConnectDone
      <4> QED
        BY <3>1, <3>3, <4>1, Zenon
    <3>4. CASE ConnectBegin(t) \/ ConnectSend(t) \/ ConnectAnswered(t) \/ ConnectTimeout(t)
               \/ ConnectAbort(t) \/ ConnectDone(t)
      <4>1. UNCHANGED <<upRelay, downRelay>> /\ (handle[t] \notin {"relay", "done"} \/ handle'[t] = "done")
            /\ \A v \in Tunnels \ {t} : handle'[v] = handle[v]
        BY <1>2, <3>4, Zenon DEF helperRelayVars, ConnectFails, ConnectBegin, ConnectSend,
           ConnectAnswered, ConnectTimeout, ConnectAbort, ConnectDone
      <4> QED
        BY <3>1, <4>1, Zenon
    <3> QED
      BY <1>5, <3>2, <3>3, <3>4, Zenon DEF HelperTunnelStep, UpRead, UpSend, UpError, UpExit, DownReceive, DownCancelled, DownWrite, DownWriteFails, DownError, DownExit
  <2> QED
    BY <1>1, <2>1, <2>2, <2>3, Zenon DEF TableInv, LoopEndReleasesTunnels, HostCanSend
<1> QED
  BY <1>3, <1>4, <1>5, ZenonT(40) DEF HelperNext

\* Every step keeps the tables in order, also after ReadLoop has ended.
LEMMA TableNext ==
  TypeOK /\ HandshakeInv /\ TableInv /\ LoopEndReleasesTunnels /\ [Next]_vars
    => TableInv' /\ LoopEndReleasesTunnels'
<1>1. UNCHANGED vars => UNCHANGED tableVars
  BY Zenon DEF vars, tableVars, connVars, hostVars, helperVars, helperRelayVars
<1> QED
  BY <1>1, TableFrame, TableHostNext, TableHelperNext, Zenon DEF Next

-----------------------------------------------------------------------------
\* The handshake.

LEMMA IsEnv ==
  ASSUME NEW kind, NEW t, NEW n, NEW k, NEW u
  PROVE  (Is(Env(kind, t, n), k, u) <=> kind = k /\ t = u) /\ Env(kind, t, n).n = n
  BY Zenon DEF Is, Env

\* What a send does to what HandshakeInv says of a direction of the bridge.
LEMMA SendEffect ==
  ASSUME NEW q \in Seq(Envelope), NEW e \in Envelope, NEW p, p = Append(q, e), NEW u \in Tunnels
  PROVE  /\ \A kind \in Kinds : Has(p, kind, u) <=> Has(q, kind, u) \/ Is(e, kind, u)
         /\ HasApproval(p, u) <=>
              HasApproval(q, u) \/ (Is(e, "ConnectResponse", u) /\ e.n = Approved)
         /\ Once(q, "ConnectRequest", u) /\ (Is(e, "ConnectRequest", u) => ~Has(q, "ConnectRequest", u))
              => Once(p, "ConnectRequest", u)
         /\ \A kind \in TunnelKinds :
              Before(q, "ConnectResponse", kind, u) /\ (Is(e, "ConnectResponse", u) => ~Has(q, kind, u))
                => Before(p, "ConnectResponse", kind, u)
<1>1. \A kind \in Kinds : Has(p, kind, u) <=> Has(q, kind, u) \/ Is(e, kind, u)
  BY HasAppend, Zenon
<1>2. HasApproval(p, u) <=> HasApproval(q, u) \/ (Is(e, "ConnectResponse", u) /\ e.n = Approved)
  BY AppendPlaces DEF HasApproval
<1>3. Once(q, "ConnectRequest", u) /\ (Is(e, "ConnectRequest", u) => ~Has(q, "ConnectRequest", u))
        => Once(p, "ConnectRequest", u)
  BY OnceAppend, Zenon
<1>4. ASSUME NEW kind \in TunnelKinds, Before(q, "ConnectResponse", kind, u),
             Is(e, "ConnectResponse", u) => ~Has(q, kind, u)
      PROVE  Before(p, "ConnectResponse", kind, u)
  BY <1>4, BeforeAppend, Zenon DEF TunnelKinds
<1> QED
  BY <1>1, <1>2, <1>3, <1>4, Zenon

\* The same of a receive.
LEMMA TakeEffect ==
  ASSUME NEW q \in Seq(Envelope), q # <<>>, NEW p, p = Tail(q), NEW u \in Tunnels
  PROVE  /\ \A kind \in Kinds : Has(q, kind, u) <=> Has(p, kind, u) \/ Is(Head(q), kind, u)
         /\ HasApproval(q, u) <=>
              HasApproval(p, u) \/ (Is(Head(q), "ConnectResponse", u) /\ Head(q).n = Approved)
         /\ Once(q, "ConnectRequest", u) =>
              /\ Once(p, "ConnectRequest", u)
              /\ Is(Head(q), "ConnectRequest", u) => ~Has(p, "ConnectRequest", u)
         /\ \A kind \in TunnelKinds :
              Before(q, "ConnectResponse", kind, u) => Before(p, "ConnectResponse", kind, u)
<1>1. \A kind \in Kinds : Has(q, kind, u) <=> Has(p, kind, u) \/ Is(Head(q), kind, u)
  BY HasTail, Zenon
<1>2. HasApproval(q, u) <=> HasApproval(p, u) \/ (Is(Head(q), "ConnectResponse", u) /\ Head(q).n = Approved)
  <2>1. ASSUME HasApproval(p, u) \/ (Is(Head(q), "ConnectResponse", u) /\ Head(q).n = Approved)
        PROVE  HasApproval(q, u)
    BY <2>1, TailPlaces DEF HasApproval
  <2>2. ASSUME HasApproval(q, u), ~(Is(Head(q), "ConnectResponse", u) /\ Head(q).n = Approved)
        PROVE  HasApproval(p, u)
    <3>1. PICK i \in DOMAIN q : Is(q[i], "ConnectResponse", u) /\ q[i].n = Approved
      BY <2>2, Zenon DEF HasApproval
    <3>2. i - 1 \in DOMAIN p /\ p[i - 1] = q[i]
      BY <2>2, <3>1, TailPlaces, Zenon
    <3> QED
      BY <3>1, <3>2, Zenon DEF HasApproval
  <2> QED
    BY <2>1, <2>2, Zenon
<1>3. Once(q, "ConnectRequest", u) =>
        Once(p, "ConnectRequest", u) /\ (Is(Head(q), "ConnectRequest", u) => ~Has(p, "ConnectRequest", u))
  BY OnceTail, Zenon
<1>4. \A kind \in TunnelKinds :
        Before(q, "ConnectResponse", kind, u) => Before(p, "ConnectResponse", kind, u)
  BY BeforeTail, Zenon
<1> QED
  BY <1>1, <1>2, <1>3, <1>4, Zenon

\* HandshakeInv does not see what happens to the host's direction of the bridge,
\* or sees that something of an approved tunnel was sent.
ToHelperQuiet ==
    \A t \in Tunnels :
        /\ Has(toHelper', "ConnectResponse", t) <=> Has(toHelper, "ConnectResponse", t)
        /\ HasApproval(toHelper', t) => HasApproval(toHelper, t)
        /\ \A kind \in TunnelKinds :
             /\ Has(toHelper', kind, t) => Has(toHelper, kind, t) \/ Approves(t)
             /\ Before(toHelper, "ConnectResponse", kind, t) =>
                  Before(toHelper', "ConnectResponse", kind, t)

ToHostQuiet ==
    \A t \in Tunnels :
        /\ Has(toHost', "ConnectRequest", t) => Has(toHost, "ConnectRequest", t)
        /\ Once(toHost, "ConnectRequest", t) => Once(toHost', "ConnectRequest", t)
        /\ \A kind \in TunnelKinds : Has(toHost', kind, t) => Has(toHost, kind, t) \/ Approves(t)

LEMMA QuietFrame == (toHelper' = toHelper => ToHelperQuiet) /\ (toHost' = toHost => ToHostQuiet)
  BY Zenon DEF ToHelperQuiet, ToHostQuiet

LEMMA QuietSend ==
  ASSUME TypeOK, NEW t \in Tunnels, NEW kind \in TunnelKinds, NEW n \in Nat, Approves(t)
  PROVE  /\ HostSend(Env(kind, t, n)) => ToHelperQuiet
         /\ HelperSend(Env(kind, t, n)) => ToHostQuiet
<1>1. /\ Env(kind, t, n) \in Envelope
      /\ kind \in Kinds /\ kind # "ConnectResponse" /\ kind # "ConnectRequest"
      /\ toHelper \in Seq(Envelope) /\ toHost \in Seq(Envelope)
  BY EnvType, Zenon DEF TunnelKinds, Kinds, TypeOK
<1>2. TunnelKinds \subseteq Kinds /\ "ConnectResponse" \in Kinds /\ "ConnectRequest" \in Kinds
  BY Zenon DEF TunnelKinds, Kinds
<1>3. \A k, u : Is(Env(kind, t, n), k, u) <=> kind = k /\ t = u
  BY IsEnv
<1> DEFINE e == Env(kind, t, n)
<1>6. e \in Envelope
  BY <1>1, Zenon
<1> HIDE DEF e
<1>4. ASSUME HostSend(e) PROVE ToHelperQuiet
  <2>1. toHelper' = Append(toHelper, e)
    BY <1>4, Zenon DEF HostSend
  <2> SUFFICES ASSUME NEW u \in Tunnels
               PROVE  /\ Has(toHelper', "ConnectResponse", u) <=> Has(toHelper, "ConnectResponse", u)
                      /\ HasApproval(toHelper', u) => HasApproval(toHelper, u)
                      /\ \A k \in TunnelKinds :
                           /\ Has(toHelper', k, u) => Has(toHelper, k, u) \/ Approves(u)
                           /\ Before(toHelper, "ConnectResponse", k, u) =>
                                Before(toHelper', "ConnectResponse", k, u)
    BY Zenon DEF ToHelperQuiet
  <2>2. /\ \A k \in Kinds : Has(toHelper', k, u) <=> Has(toHelper, k, u) \/ Is(e, k, u)
        /\ HasApproval(toHelper', u) <=>
             HasApproval(toHelper, u) \/ (Is(e, "ConnectResponse", u) /\ e.n = Approved)
        /\ \A k \in TunnelKinds :
             Before(toHelper, "ConnectResponse", k, u) /\ (Is(e, "ConnectResponse", u) => ~Has(toHelper, k, u))
               => Before(toHelper', "ConnectResponse", k, u)
    BY <1>1, <1>6, <2>1, SendEffect, Zenon
  <2>3. \A k : Is(e, k, u) <=> kind = k /\ t = u
    BY <1>3, Zenon DEF e
  <2> QED
    BY <1>1, <1>2, <2>2, <2>3, Zenon
<1>5. ASSUME HelperSend(e) PROVE ToHostQuiet
  <2>1. toHost' = Append(toHost, e)
    BY <1>5, Zenon DEF HelperSend
  <2> SUFFICES ASSUME NEW u \in Tunnels
               PROVE  /\ Has(toHost', "ConnectRequest", u) => Has(toHost, "ConnectRequest", u)
                      /\ Once(toHost, "ConnectRequest", u) => Once(toHost', "ConnectRequest", u)
                      /\ \A k \in TunnelKinds :
                           Has(toHost', k, u) => Has(toHost, k, u) \/ Approves(u)
    BY Zenon DEF ToHostQuiet
  <2>2. /\ \A k \in Kinds : Has(toHost', k, u) <=> Has(toHost, k, u) \/ Is(e, k, u)
        /\ Once(toHost, "ConnectRequest", u) /\ (Is(e, "ConnectRequest", u) => ~Has(toHost, "ConnectRequest", u))
             => Once(toHost', "ConnectRequest", u)
    BY <1>1, <1>6, <2>1, SendEffect, Zenon
  <2>3. \A k : Is(e, k, u) <=> kind = k /\ t = u
    BY <1>3, Zenon DEF e
  <2> QED
    BY <1>1, <1>2, <2>2, <2>3
<1> QED
  BY <1>4, <1>5, Zenon DEF e

LEMMA QuietTerminal ==
  ASSUME TypeOK, NEW t \in Tunnels, Approves(t)
  PROVE  sendTerminalClose(t) => ToHelperQuiet
<1>1. HostSend(Env("TerminalClose", t, 0)) => ToHelperQuiet
  BY QuietSend, Zenon DEF TunnelKinds
<1> QED
  BY <1>1, QuietFrame, Zenon DEF sendTerminalClose

LEMMA QuietClose ==
  ASSUME TypeOK, NEW t \in Tunnels, Approves(t), NEW kind \in TunnelKinds
  PROVE  SendTunnelClose(t, kind) => ToHostQuiet
<1>1. HelperSend(Env(kind, t, 0)) => ToHostQuiet
  BY QuietSend, Zenon
<1> QED
  BY <1>1, QuietFrame, Zenon DEF SendTunnelClose, HelperTrySend

\* A step that neither opens nor answers a handshake and starts no relay.
LEMMA HandshakeFrame ==
  ASSUME HandshakeInv, ToHelperQuiet, ToHostQuiet,
         UNCHANGED <<connect, handle, pending, respCh, helperEnd>>,
         \A t \in Tunnels :
           /\ upRelay'[t] # "off" => upRelay[t] # "off"
           /\ downRelay'[t] # "off" => downRelay[t] # "off"
           /\ outRelay'[t] # "off" => outRelay[t] # "off"
           /\ inRelay'[t] # "off" => inRelay[t] # "off"
           /\ t \in overflow' \/ recvCh'[t] # <<>> => Approves(t)
  PROVE  HandshakeInv'
<1> SUFFICES ASSUME NEW t \in Tunnels
             PROVE  Handshake(t)'
  BY Zenon DEF HandshakeInv
<1> QED
  BY Zenon DEF HandshakeInv, Handshake, ToHelperQuiet, ToHostQuiet, Approves

\* HandleConnectRequest keeps the order of the handshake.
LEMMA HandshakeHostConnect ==
  ASSUME TypeOK, HandshakeInv, UNCHANGED helperVars, NEW t \in Tunnels,
         ConnectRefuse(t) \/ ConnectRegister(t) \/ ConnectRespond(t) \/ ConnectActivate(t)
  PROVE  HandshakeInv'
<1>1. /\ UNCHANGED <<toHost, helperEnd, recvCh, overflow, handle, pending, respCh, upRelay, downRelay>>
      /\ \A u \in Tunnels \ {t} : connect'[u] = connect[u] /\ outRelay'[u] = outRelay[u] /\ inRelay'[u] = inRelay[u]
  BY Zenon DEF ConnectRefuse, ConnectRegister, ConnectRespond, ConnectActivate, activateTunnel, start, relayVars,
     connVars, helperVars, helperRelayVars, TypeOK
<1>2. /\ toHelper \in Seq(Envelope) /\ connect \in [Tunnels -> ConnectStates]
      /\ outRelay \in [Tunnels -> OutRelayStates] /\ inRelay \in [Tunnels -> InRelayStates]
      /\ TunnelKinds \subseteq Kinds /\ "ConnectResponse" \in Kinds
  BY Zenon DEF TypeOK, TunnelKinds, Kinds
<1>3. ASSUME NEW n \in {Refused, Approved}, HostSend(Env("ConnectResponse", t, n)), NEW u \in Tunnels
      PROVE  /\ \A kind \in TunnelKinds : Has(toHelper', kind, u) <=> Has(toHelper, kind, u)
             /\ Has(toHelper', "ConnectResponse", u) <=> Has(toHelper, "ConnectResponse", u) \/ u = t
             /\ HasApproval(toHelper', u) <=> HasApproval(toHelper, u) \/ (u = t /\ n = Approved)
             /\ \A kind \in TunnelKinds :
                  Before(toHelper, "ConnectResponse", kind, u) /\ (u = t => ~Has(toHelper, kind, u))
                    => Before(toHelper', "ConnectResponse", kind, u)
  <2> DEFINE e == Env("ConnectResponse", t, n)
  <2>0. n \in Nat
    BY DEF Refused, Approved
  <2>1. e \in Envelope /\ e.n = n /\ \A k : Is(e, k, u) <=> "ConnectResponse" = k /\ t = u
    <3>1. e \in Envelope
      BY <1>2, <2>0, EnvType, Zenon
    <3> QED
      BY <3>1, IsEnv
  <2>2. toHelper' = Append(toHelper, e)
    BY <1>3, Zenon DEF HostSend
  <2> HIDE DEF e
  <2>3. /\ \A k \in Kinds : Has(toHelper', k, u) <=> Has(toHelper, k, u) \/ Is(e, k, u)
        /\ HasApproval(toHelper', u) <=>
             HasApproval(toHelper, u) \/ (Is(e, "ConnectResponse", u) /\ e.n = Approved)
        /\ \A k \in TunnelKinds :
             Before(toHelper, "ConnectResponse", k, u) /\ (Is(e, "ConnectResponse", u) => ~Has(toHelper, k, u))
               => Before(toHelper', "ConnectResponse", k, u)
    BY <1>2, <2>1, <2>2, SendEffect, Zenon
  <2>4. \A k \in TunnelKinds : k # "ConnectResponse"
    BY Zenon DEF TunnelKinds
  <2> QED
    BY <1>2, <2>1, <2>3, <2>4, Zenon
<1>4. Handshake(t)
  BY Zenon DEF HandshakeInv
<1>5. CASE ConnectRefuse(t)
  <2>1. /\ connect[t] = "dial" /\ connect'[t] = "refused" /\ UNCHANGED <<outRelay, inRelay>>
        /\ \/ HostSend(Env("ConnectResponse", t, Refused))
           \/ toHelper' = toHelper
    BY <1>2, <1>5, Zenon DEF ConnectRefuse, relayVars
  <2>2. CASE toHelper' = toHelper
    <3>1. ASSUME NEW u \in Tunnels PROVE Handshake(u)'
      <4>1. Handshake(u)
        BY Zenon DEF HandshakeInv
      <4> QED
        BY <1>1, <1>2, <2>1, <2>2, <4>1, Zenon DEF Handshake, Approves
    <3> QED
      BY <3>1, Zenon DEF HandshakeInv
  <2>3. CASE HostSend(Env("ConnectResponse", t, Refused))
    <3>1. Refused # Approved
      BY DEF Refused, Approved
    <3>2. ASSUME NEW u \in Tunnels PROVE Handshake(u)'
      <4>1. Handshake(u)
        BY Zenon DEF HandshakeInv
      <4> QED
        BY <1>1, <1>3, <2>1, <2>3, <3>1, <4>1, Zenon DEF Handshake, Approves
    <3> QED
      BY <3>2, Zenon DEF HandshakeInv
  <2> QED
    BY <2>1, <2>2, <2>3, Zenon
<1>6. CASE ConnectRegister(t)
  <2>1. /\ connect[t] = "dial" /\ connect'[t] = "respond"
        /\ UNCHANGED <<outRelay, inRelay, toHelper>>
    BY <1>2, <1>6, Zenon DEF ConnectRegister, relayVars, connVars
  <2>2. ASSUME NEW u \in Tunnels PROVE Handshake(u)'
    <3>1. Handshake(u)
      BY Zenon DEF HandshakeInv
    <3> QED
      BY <1>1, <1>2, <2>1, <3>1, Zenon DEF Handshake, Approves
  <2> QED
    BY <2>2, Zenon DEF HandshakeInv
<1>7. CASE ConnectRespond(t)
  <2>1. /\ connect[t] = "respond" /\ UNCHANGED <<outRelay, inRelay>>
        /\ \/ HostSend(Env("ConnectResponse", t, Approved)) /\ connect'[t] = "activate"
           \/ toHelper' = toHelper /\ connect'[t] = "done"
    BY <1>2, <1>7, Zenon DEF ConnectRespond, relayVars
  <2>2. CASE toHelper' = toHelper /\ connect'[t] = "done"
    <3>1. ASSUME NEW u \in Tunnels PROVE Handshake(u)'
      <4>1. Handshake(u)
        BY Zenon DEF HandshakeInv
      <4> QED
        BY <1>1, <1>2, <2>1, <2>2, <4>1, Zenon DEF Handshake, Approves
    <3> QED
      BY <3>1, Zenon DEF HandshakeInv
  <2>3. CASE HostSend(Env("ConnectResponse", t, Approved)) /\ connect'[t] = "activate"
    <3>2. ASSUME NEW u \in Tunnels PROVE Handshake(u)'
      <4>1. Handshake(u)
        BY Zenon DEF HandshakeInv
      <4> QED
        BY <1>1, <1>3, <2>1, <2>3, <4>1, Zenon DEF Handshake, Approves
    <3> QED
      BY <3>2, Zenon DEF HandshakeInv
  <2> QED
    BY <2>1, <2>2, <2>3, Zenon
<1>8. CASE ConnectActivate(t)
  <2>1. /\ connect[t] = "activate" /\ connect'[t] = "done" /\ toHelper' = toHelper
    BY <1>2, <1>8, Zenon DEF ConnectActivate, connVars
  <2>2. ASSUME NEW u \in Tunnels PROVE Handshake(u)'
    <3>1. Handshake(u)
      BY Zenon DEF HandshakeInv
    <3> QED
      BY <1>1, <1>2, <2>1, <3>1, Zenon DEF Handshake, Approves
  <2> QED
    BY <2>2, Zenon DEF HandshakeInv
<1> QED
  BY <1>5, <1>6, <1>7, <1>8, Zenon

\* The relays and ReadLoop of the host keep it.
LEMMA HandshakeHost ==
  ASSUME TypeOK, HandshakeInv, HostNext, UNCHANGED helperVars
  PROVE  HandshakeInv'
<1>0. UNCHANGED <<handle, pending, respCh, upRelay, downRelay>>
  BY Zenon DEF helperVars, helperRelayVars
<1>1. ASSUME NEW t \in Tunnels, HostTunnelStep(t)
      PROVE  HandshakeInv'
  <2>1. CASE ConnectRefuse(t) \/ ConnectRegister(t) \/ ConnectRespond(t) \/ ConnectActivate(t)
    BY <2>1, HandshakeHostConnect, Zenon
  <2>2. CASE OutRead(t) \/ OutSend(t) \/ OutError(t) \/ OutExit(t) \/ InReceive(t)
             \/ InClosed(t) \/ InWrite(t) \/ InError(t) \/ InExit(t) \/ OverflowSend(t)
    <3>1. UNCHANGED <<toHost, connect, helperEnd>> /\ ToHostQuiet
      BY <2>2, QuietFrame, Zenon DEF OutRead, OutSend, OutError, OutExit, InReceive, InClosed, InWrite, InError, InExit, OverflowSend, connVars
    <3>2. \/ outRelay[t] # "off" \/ inRelay[t] # "off" \/ t \in overflow
      BY <2>2, Zenon DEF OutRead, OutSend, OutError, OutExit, InReceive, InClosed, InWrite, InError, InExit, OverflowSend
    <3>3. Approves(t)
      BY <3>2, Zenon DEF HandshakeInv, Handshake, Approves
    <3>4. ToHelperQuiet
      <4>1. CASE toHelper' = toHelper
        BY <4>1, QuietFrame, Zenon
      <4>2. CASE OutSend(t)
        BY <3>3, <4>2, QuietSend, QuietFrame, Zenon DEF OutSend, TunnelKinds, TypeOK
      <4>3. CASE sendTerminalClose(t)
        BY <3>3, <4>3, QuietTerminal, Zenon
      <4> QED
        BY <2>2, <4>1, <4>2, <4>3, Zenon DEF OutRead, OutSend, OutError, OutExit, InReceive, InClosed, InWrite, InError, InExit, OverflowSend, connVars
    <3>5. \A u \in Tunnels :
            /\ outRelay'[u] # "off" => outRelay[u] # "off"
            /\ inRelay'[u] # "off" => inRelay[u] # "off"
            /\ u \in overflow' => u \in overflow
      BY <2>2, Zenon DEF OutRead, OutSend, OutError, OutExit, InReceive, InClosed, InWrite, InError, InExit, OverflowSend, relayVars, TypeOK
    <3>6. \A u \in Tunnels : recvCh'[u] # <<>> => recvCh[u] # <<>>
      <4>1. CASE recvCh' = recvCh
        BY <4>1, Zenon
      <4>2. CASE InReceive(t)
        BY <4>2, Zenon DEF InReceive, TypeOK
      <4> QED
        BY <2>2, <4>1, <4>2, Zenon DEF OutRead, OutSend, OutError, OutExit, InReceive, InClosed, InWrite, InError, InExit, OverflowSend
    <3>7. \A u \in Tunnels : u \in overflow \/ recvCh[u] # <<>> => Approves(u)
      BY Zenon DEF HandshakeInv, Handshake
    <3> QED
      BY <1>0, <3>1, <3>4, <3>5, <3>6, <3>7, HandshakeFrame, Zenon
  <2> QED
    BY <1>1, <2>1, <2>2, Zenon DEF HostTunnelStep
<1>2. CASE HostDecode
  <2> DEFINE env == Head(toHost)
  <2>1. /\ toHost \in Seq(Envelope) /\ toHost # <<>> /\ toHost' = Tail(toHost)
        /\ env \in Envelope /\ env.id \in Tunnels
        /\ UNCHANGED <<toHelper, helperEnd, outRelay, inRelay>>
    BY <1>2, TakeType, Zenon DEF HostDecode, TypeOK, relayVars
  <2>2. ASSUME NEW u \in Tunnels
        PROVE  /\ \A kind \in Kinds : Has(toHost, kind, u) <=> Has(toHost', kind, u) \/ Is(env, kind, u)
               /\ Once(toHost, "ConnectRequest", u) =>
                    /\ Once(toHost', "ConnectRequest", u)
                    /\ Is(env, "ConnectRequest", u) => ~Has(toHost', "ConnectRequest", u)
    BY <2>1, TakeEffect, Zenon
  <2>3. TunnelKinds \subseteq Kinds /\ "ConnectRequest" \in Kinds
    BY Zenon DEF TunnelKinds, Kinds
  <2> HIDE DEF env
  <2>4. ToHostQuiet
    BY <2>2, <2>3, Zenon DEF ToHostQuiet
  <2>5. CASE env.kind = "ConnectRequest" /\ connect' = [connect EXCEPT ![env.id] = "dial"]
             /\ UNCHANGED <<recvCh, overflow>>
    <3>1. Is(env, "ConnectRequest", env.id)
      BY <2>5, Zenon DEF Is
    <3>2. connect[env.id] = "none" /\ connect \in [Tunnels -> ConnectStates] /\ ~Has(toHost', "ConnectRequest", env.id)
          /\ handle[env.id] \notin {"idle", "request"}
      BY <2>1, <2>2, <2>3, <3>1, Zenon DEF HandshakeInv, Handshake, TypeOK
    <3>3. /\ connect'[env.id] = "dial"
          /\ \A u \in Tunnels \ {env.id} : connect'[u] = connect[u]
      BY <2>1, <2>5, <3>2, Zenon
    <3>4. ASSUME NEW u \in Tunnels PROVE Handshake(u)'
      <4>1. Handshake(u)
        BY Zenon DEF HandshakeInv
      <4>2. /\ Has(toHost', "ConnectRequest", u) => Has(toHost, "ConnectRequest", u)
            /\ Once(toHost, "ConnectRequest", u) => Once(toHost', "ConnectRequest", u)
            /\ \A kind \in TunnelKinds : Has(toHost', kind, u) => Has(toHost, kind, u)
        BY <2>2, <2>3, Zenon
      <4> QED
        BY <1>0, <2>1, <2>5, <3>2, <3>3, <4>1, <4>2, Zenon DEF Handshake, Approves
    <3> QED
      BY <3>4, Zenon DEF HandshakeInv
  <2>6. CASE env.kind \in TunnelKinds /\ HandleTunnel(env) /\ UNCHANGED connect
    <3>1. Approves(env.id)
      <4>1. Is(env, env.kind, env.id) /\ env.kind \in Kinds
        BY <2>3, <2>6, Zenon DEF Is
      <4>2. Has(toHost, env.kind, env.id)
        BY <2>1, <2>2, <4>1, Zenon
      <4> QED
        BY <2>1, <2>6, <4>2, Zenon DEF HandshakeInv, Handshake
    <3>2. \A u \in Tunnels \ {env.id} : recvCh'[u] = recvCh[u] /\ (u \in overflow' => u \in overflow)
      BY <2>1, <2>6, Zenon DEF HandleTunnel, deliver, TypeOK
    <3>3. \A u \in Tunnels : u \in overflow' \/ recvCh'[u] # <<>> => Approves(u)
      BY <3>1, <3>2, Zenon DEF HandshakeInv, Handshake
    <3> QED
      BY <1>0, <2>1, <2>4, <2>6, <3>3, QuietFrame, HandshakeFrame, Zenon
  <2> QED
    BY <1>2, <2>5, <2>6, Zenon DEF HostDecode, env
<1>3. CASE HostDecodeError \/ HostLoopEnd \/ CloseTunnels \/ CloseConn
  <2>1. UNCHANGED <<toHelper, toHost, connect, helperEnd, overflow, recvCh, outRelay, inRelay>>
    BY <1>3, Zenon DEF HostDecodeError, HostLoopEnd, CloseTunnels, CloseConn, connVars, relayVars
  <2>2. \A u \in Tunnels : u \in overflow \/ recvCh[u] # <<>> => Approves(u)
    BY Zenon DEF HandshakeInv, Handshake
  <2> QED
    BY <1>0, <2>1, <2>2, QuietFrame, HandshakeFrame, Zenon
<1> QED
  BY <1>1, <1>2, <1>3, Zenon DEF HostNext
\* HandleConnect and Connect of the helper keep it.
LEMMA HandshakeHelperConnect ==
  ASSUME TypeOK, HandshakeInv, UNCHANGED hostVars, NEW t \in Tunnels,
         ConnectBegin(t) \/ ConnectSend(t) \/ ConnectAnswered(t) \/ ConnectTimeout(t)
           \/ ConnectReply(t) \/ ConnectAbort(t) \/ ConnectDone(t)
  PROVE  HandshakeInv'
<1>1. UNCHANGED <<toHelper, helperEnd, connect, overflow, recvCh, outRelay, inRelay>>
  BY Zenon DEF hostVars, relayVars, connVars, ConnectBegin, ConnectSend, ConnectAnswered, ConnectTimeout, ConnectReply, ConnectAbort, ConnectDone
<1>2. /\ handle \in [Tunnels -> HandleStates] /\ upRelay \in [Tunnels -> UpRelayStates]
      /\ downRelay \in [Tunnels -> DownRelayStates] /\ pending \subseteq Tunnels
      /\ respCh \in [Tunnels -> Seq(Envelope)] /\ toHost \in Seq(Envelope) /\ Len(respCh[t]) <= 1
      /\ TunnelKinds \subseteq Kinds /\ "ConnectRequest" \in Kinds /\ "ConnectRequest" \notin TunnelKinds
      /\ "TerminalClose" \in TunnelKinds
  BY Zenon DEF TypeOK, TunnelKinds, Kinds
<1>3. \A u \in Tunnels \ {t} :
        /\ handle'[u] = handle[u] /\ upRelay'[u] = upRelay[u] /\ downRelay'[u] = downRelay[u] /\ respCh'[u] = respCh[u]
        /\ u \in pending => u \in pending'
  <2>1. \A u \in Tunnels \ {t} : handle'[u] = handle[u]
    BY <1>2, Zenon DEF ConnectFails, ConnectBegin, ConnectSend, ConnectAnswered, ConnectTimeout, ConnectReply, ConnectAbort, ConnectDone
  <2>2. \A u \in Tunnels \ {t} : upRelay'[u] = upRelay[u] /\ downRelay'[u] = downRelay[u]
    BY <1>2, Zenon DEF helperRelayVars, ConnectBegin, ConnectSend, ConnectAnswered, ConnectTimeout, ConnectReply, ConnectAbort, ConnectDone
  <2>3. \A u \in Tunnels \ {t} : respCh'[u] = respCh[u]
    BY <1>2, Zenon DEF ConnectBegin, ConnectSend, ConnectAnswered, ConnectTimeout, ConnectReply, ConnectAbort, ConnectDone
  <2>4. pending' = pending \/ pending' = pending \cup {t} \/ pending' = pending \ {t}
    BY Zenon DEF ConnectFails, ConnectBegin, ConnectSend, ConnectAnswered, ConnectTimeout, ConnectReply, ConnectAbort, ConnectDone
  <2> QED
    BY <2>1, <2>2, <2>3, <2>4, Zenon
<1>4. Handshake(t)
  BY Zenon DEF HandshakeInv
<1>5. CASE ConnectBegin(t) \/ ConnectTimeout(t) \/ ConnectReply(t) \/ ConnectDone(t)
           \/ (ConnectSend(t) /\ ConnectFails(t) /\ toHost' = toHost)
  <2>1. /\ toHost' = toHost /\ respCh' = respCh
        /\ handle'[t] # "wait"
        /\ handle'[t] \in {"idle", "request"} => handle[t] = "idle"
        /\ handle'[t] \in {"request", "wait"} => t \in pending'
        /\ handle'[t] \in {"reply", "abort", "relay"} \/ upRelay'[t] # "off" \/ downRelay'[t] # "off" =>
             handle[t] \in {"reply", "abort", "relay"} \/ upRelay[t] # "off" \/ downRelay[t] # "off"
    <3>1. CASE ConnectBegin(t)
      BY <1>2, <3>1, Zenon DEF ConnectBegin, connVars, helperRelayVars
    <3>2. CASE ConnectReply(t)
      BY <1>2, <3>2, Zenon DEF ConnectReply, connVars
    <3>3. CASE ConnectDone(t)
      BY <1>2, <3>3, Zenon DEF ConnectDone, connVars
    <3>4. CASE ConnectTimeout(t)
      BY <1>2, <3>4, Zenon DEF ConnectTimeout, ConnectFails, connVars
    <3>5. CASE ConnectSend(t) /\ ConnectFails(t) /\ toHost' = toHost
      BY <1>2, <3>5 DEF ConnectSend, ConnectFails
    <3> QED
      BY <1>5, <3>1, <3>2, <3>3, <3>4, <3>5, Zenon
  <2>2. ASSUME NEW u \in Tunnels PROVE Handshake(u)'
    <3>1. Handshake(u)
      BY Zenon DEF HandshakeInv
    <3>2. CASE u = t
      BY <1>1, <2>1, <3>1, <3>2, Zenon DEF Handshake, Approves
    <3>3. CASE u # t
      BY <1>1, <1>3, <2>1, <3>1, <3>3, Zenon DEF Handshake, Approves
    <3> QED
      BY <3>2, <3>3, Zenon
  <2> QED
    BY <2>2, Zenon DEF HandshakeInv
<1>6. CASE ConnectSend(t) /\ HelperSend(Env("ConnectRequest", t, 0)) /\ handle' = [handle EXCEPT ![t] = "wait"]
           /\ pending' = pending
  <2> DEFINE e == Env("ConnectRequest", t, 0)
  <2>1. e \in Envelope /\ \A k, u : Is(e, k, u) <=> "ConnectRequest" = k /\ t = u
    <3>1. e \in Envelope
      BY <1>2, EnvType, Zenon
    <3> QED
      BY <3>1, IsEnv
  <2>2. toHost' = Append(toHost, e) /\ handle[t] = "request" /\ respCh' = respCh /\ upRelay' = upRelay /\ downRelay' = downRelay
    BY <1>6, Zenon DEF HelperSend, ConnectSend
  <2> HIDE DEF e
  <2>3. ASSUME NEW u \in Tunnels
        PROVE  /\ \A k \in Kinds : Has(toHost', k, u) <=> Has(toHost, k, u) \/ Is(e, k, u)
               /\ Once(toHost, "ConnectRequest", u) /\ (Is(e, "ConnectRequest", u) => ~Has(toHost, "ConnectRequest", u))
                    => Once(toHost', "ConnectRequest", u)
    BY <1>2, <2>1, <2>2, SendEffect, Zenon
  <2>4. handle'[t] = "wait" /\ connect[t] = "none" /\ ~Has(toHost, "ConnectRequest", t) /\ t \in pending
    BY <1>2, <1>4, <1>6, <2>2, Zenon DEF Handshake
  <2>5. ASSUME NEW u \in Tunnels PROVE Handshake(u)'
    <3>1. Handshake(u)
      BY Zenon DEF HandshakeInv
    <3>2. /\ Has(toHost', "ConnectRequest", u) <=> Has(toHost, "ConnectRequest", u) \/ u = t
          /\ Once(toHost', "ConnectRequest", u)
          /\ \A k \in TunnelKinds : Has(toHost', k, u) <=> Has(toHost, k, u)
      <4>1. /\ "ConnectRequest" \in Kinds /\ TunnelKinds \subseteq Kinds
            /\ \A k \in TunnelKinds : k # "ConnectRequest"
        BY Zenon DEF Kinds, TunnelKinds
      <4>2. Is(e, "ConnectRequest", u) <=> u = t
        BY <2>1, Zenon
      <4>3. \A k \in TunnelKinds : ~Is(e, k, u)
        BY <2>1, <4>1, Zenon
      <4>4. Once(toHost, "ConnectRequest", u) /\ (u = t => ~Has(toHost, "ConnectRequest", u))
        BY <2>4, <3>1, Zenon DEF Handshake
      <4>5. \A k \in Kinds : Has(toHost', k, u) <=> Has(toHost, k, u) \/ Is(e, k, u)
        BY <2>3, Zenon
      <4>6. Once(toHost', "ConnectRequest", u)
        BY <2>3, <4>2, <4>4, Zenon
      <4>7. \A k \in TunnelKinds : Has(toHost', k, u) <=> Has(toHost, k, u)
        BY <4>1, <4>3, <4>5, Zenon
      <4> QED
        BY <4>1, <4>2, <4>5, <4>6, <4>7, Zenon
    <3>3. CASE u = t
      BY <1>1, <1>6, <2>2, <2>4, <3>1, <3>2, <3>3, Zenon DEF Handshake, Approves
    <3>4. CASE u # t
      BY <1>1, <1>3, <1>6, <2>2, <3>1, <3>2, <3>4, Zenon DEF Handshake, Approves
    <3> QED
      BY <3>3, <3>4, Zenon
  <2> QED
    BY <2>5, Zenon DEF HandshakeInv
<1>7. CASE ConnectAnswered(t)
  <2>1. /\ toHost' = toHost /\ upRelay' = upRelay /\ downRelay' = downRelay /\ handle[t] = "wait" /\ respCh[t] # <<>>
        /\ respCh'[t] = Tail(respCh[t])
        /\ handle'[t] \in {"reply", "done"}
        /\ handle'[t] = "reply" => Head(respCh[t]).n = Approved
    BY <1>2, <1>7, Zenon DEF ConnectAnswered, ConnectFails, connVars
  <2>2. respCh'[t] = <<>> /\ Head(respCh[t]) = respCh[t][1] /\ 1 \in DOMAIN respCh[t]
    BY <1>2, <2>1, TakeOnly, Zenon
  <2>3. handle'[t] = "reply" => Approves(t)
    BY <1>4, <2>1, <2>2, Zenon DEF Handshake
  <2>4. ASSUME NEW u \in Tunnels PROVE Handshake(u)'
    <3>1. Handshake(u)
      BY Zenon DEF HandshakeInv
    <3>2. CASE u = t
      <4>1. \A i \in DOMAIN respCh'[t] : FALSE
        BY <1>2, <2>1, TakeOnly, Zenon
      <4> QED
        BY <1>1, <2>1, <2>2, <2>3, <3>1, <3>2, <4>1, Zenon DEF Handshake, Approves
    <3>3. CASE u # t
      BY <1>1, <1>3, <2>1, <3>1, <3>3, Zenon DEF Handshake, Approves
    <3> QED
      BY <3>2, <3>3, Zenon
  <2> QED
    BY <2>4, Zenon DEF HandshakeInv
<1>8. CASE ConnectAbort(t)
  <2>1. Approves(t) /\ handle'[t] = "done" /\ UNCHANGED <<pending, respCh, upRelay, downRelay>>
    BY <1>2, <1>4, <1>8, Zenon DEF Handshake, ConnectAbort
  <2>2. ToHostQuiet
    BY <1>2, <1>8, <2>1, QuietClose, Zenon DEF ConnectAbort
  <2>3. ASSUME NEW u \in Tunnels PROVE Handshake(u)'
    <3>1. Handshake(u)
      BY Zenon DEF HandshakeInv
    <3>2. CASE u = t
      BY <1>1, <2>1, <2>2, <3>1, <3>2, Zenon DEF Handshake, Approves, ToHostQuiet
    <3>3. CASE u # t
      BY <1>1, <1>3, <2>1, <2>2, <3>1, <3>3, Zenon DEF Handshake, Approves, ToHostQuiet
    <3> QED
      BY <3>2, <3>3, Zenon
  <2> QED
    BY <2>3, Zenon DEF HandshakeInv
<1> QED
  BY <1>5, <1>6, <1>7, <1>8, Zenon DEF ConnectSend

\* The relays, ReadLoop and the exit of the helper keep it.
LEMMA HandshakeHelper ==
  ASSUME TypeOK, HandshakeInv, HelperNext, UNCHANGED hostVars
  PROVE  HandshakeInv'
<1>0. UNCHANGED <<connect, overflow, recvCh, outRelay, inRelay>>
  BY Zenon DEF hostVars, relayVars
<1>1. ASSUME NEW t \in Tunnels, HelperTunnelStep(t)
      PROVE  HandshakeInv'
  <2>1. CASE ConnectBegin(t) \/ ConnectSend(t) \/ ConnectAnswered(t) \/ ConnectTimeout(t)
             \/ ConnectReply(t) \/ ConnectAbort(t) \/ ConnectDone(t)
    BY <2>1, HandshakeHelperConnect, Zenon
  <2>2. CASE UpRead(t) \/ UpSend(t) \/ UpError(t) \/ UpExit(t) \/ DownReceive(t)
             \/ DownCancelled(t) \/ DownWrite(t) \/ DownWriteFails(t) \/ DownError(t) \/ DownExit(t)
    <3>1. UNCHANGED <<toHelper, helperEnd, handle, pending, respCh>> /\ ToHelperQuiet
      BY <2>2, QuietFrame, Zenon DEF UpRead, UpSend, UpError, UpExit, DownReceive, DownCancelled, DownWrite, DownWriteFails, DownError, DownExit, connVars
    <3>2. \A u \in Tunnels :
            /\ upRelay'[u] # "off" => upRelay[u] # "off"
            /\ downRelay'[u] # "off" => downRelay[u] # "off"
      BY <2>2, Zenon DEF UpRead, UpSend, UpError, UpExit, DownReceive, DownCancelled, DownWrite, DownWriteFails, DownError, DownExit, TypeOK
    <3>3. CASE toHost' = toHost
      BY <1>0, <3>1, <3>2, <3>3, QuietFrame, HandshakeFrame, Zenon DEF HandshakeInv, Handshake
    <3>4. CASE UpSend(t) \/ UpError(t) \/ DownError(t)
      <4>1. Approves(t)
        BY <3>4, Zenon DEF UpSend, UpError, DownError, HandshakeInv, Handshake
      <4>2. ToHostQuiet
        <5>1. CASE HelperSend(Env("TunnelFrame", t, paySent[t]))
          BY <4>1, <5>1, QuietSend, Zenon DEF TunnelKinds, TypeOK
        <5>2. CASE SendTunnelClose(t, "WriteClose") \/ SendTunnelClose(t, "TerminalClose")
          BY <4>1, <5>2, QuietClose DEF TunnelKinds
        <5> QED
          BY <3>4, <5>1, <5>2, QuietFrame, Zenon DEF UpSend, UpError, DownError
      <4> QED
        BY <1>0, <3>1, <3>2, <4>2, HandshakeFrame, Zenon DEF HandshakeInv, Handshake
    <3> QED
      BY <2>2, <3>3, <3>4, Zenon DEF UpRead, UpSend, UpError, UpExit, DownReceive, DownCancelled, DownWrite, DownWriteFails, DownError, DownExit, connVars
  <2> QED
    BY <1>1, <2>1, <2>2, Zenon DEF HelperTunnelStep
<1>2. CASE HelperDecode
  <2> DEFINE env == Head(toHelper)
  <2>1. /\ toHelper \in Seq(Envelope) /\ toHelper # <<>> /\ toHelper' = Tail(toHelper)
        /\ env \in Envelope /\ env.id \in Tunnels /\ respCh \in [Tunnels -> Seq(Envelope)]
        /\ UNCHANGED <<toHost, helperEnd, handle, pending, upRelay, downRelay>>
    BY <1>2, TakeType, Zenon DEF HelperDecode, TypeOK, helperRelayVars
  <2>2. ASSUME NEW u \in Tunnels
        PROVE  /\ \A kind \in Kinds : Has(toHelper, kind, u) <=> Has(toHelper', kind, u) \/ Is(env, kind, u)
               /\ HasApproval(toHelper, u) <=>
                    HasApproval(toHelper', u) \/ (Is(env, "ConnectResponse", u) /\ env.n = Approved)
               /\ \A kind \in TunnelKinds :
                    Before(toHelper, "ConnectResponse", kind, u) => Before(toHelper', "ConnectResponse", kind, u)
    BY <2>1, TakeEffect, Zenon
  <2>3. TunnelKinds \subseteq Kinds /\ "ConnectResponse" \in Kinds /\ "ConnectResponse" \notin TunnelKinds
    BY Zenon DEF TunnelKinds, Kinds
  <2>4. deliverResponse(env) \/ DeliverTunnel(env)
    BY <1>2, Zenon DEF HelperDecode
  <2> HIDE DEF env
  <2>5. CASE deliverResponse(env)
    <3>1. env.kind = "ConnectResponse" /\ Is(env, "ConnectResponse", env.id)
          /\ \A u \in Tunnels : Is(env, "ConnectResponse", u) <=> u = env.id
      BY <2>5, Zenon DEF deliverResponse, Is
    <3>2. /\ \A u \in Tunnels \ {env.id} : respCh'[u] = respCh[u]
          /\ respCh'[env.id] = respCh[env.id] \/ respCh'[env.id] = <<env>>
          /\ env.id \in pending => respCh'[env.id] # <<>>
      BY <2>1, <2>5, Zenon DEF deliverResponse
    <3>3. env.n = Approved => Approves(env.id)
      BY <2>1, <2>2, <3>1, Zenon DEF HandshakeInv, Handshake
    <3>4. ASSUME NEW u \in Tunnels PROVE Handshake(u)'
      <4>1. Handshake(u)
        BY Zenon DEF HandshakeInv
      <4>2. /\ \A kind \in TunnelKinds : Has(toHelper', kind, u) => Has(toHelper, kind, u)
            /\ \A kind \in TunnelKinds : Before(toHelper', "ConnectResponse", kind, u)
            /\ HasApproval(toHelper', u) => HasApproval(toHelper, u)
            /\ u # env.id => (Has(toHelper', "ConnectResponse", u) <=> Has(toHelper, "ConnectResponse", u))
        BY <2>2, <2>3, <3>1, <4>1, Zenon DEF Handshake
      <4>3. CASE u # env.id
        BY <1>0, <2>1, <3>2, <4>1, <4>2, <4>3, Zenon DEF Handshake, Approves
      <4>4. CASE u = env.id
        <5>1. \A i \in DOMAIN respCh'[u] : respCh'[u][i].n = Approved => Approves(u)
          <6>1. CASE respCh'[env.id] = respCh[env.id]
            BY <4>1, <4>4, <6>1, Zenon DEF Handshake
          <6>2. CASE respCh'[env.id] = <<env>>
            <7>1. \A i \in DOMAIN <<env>> : <<env>>[i] = env
              OBVIOUS
            <7> QED
              BY <3>3, <4>4, <6>2, <7>1, Zenon
          <6> QED
            BY <3>2, <6>1, <6>2, Zenon
        <5>2. handle[u] # "wait" \/ respCh'[u] # <<>>
          BY <3>2, <4>1, <4>4, Zenon DEF Handshake
        <5> QED
          BY <1>0, <2>1, <4>1, <4>2, <5>1, <5>2, Zenon DEF Handshake, Approves
      <4> QED
        BY <4>3, <4>4
    <3> QED
      BY <3>4, Zenon DEF HandshakeInv
  <2>6. CASE DeliverTunnel(env)
    <3>1. respCh' = respCh /\ \A u \in Tunnels : ~Is(env, "ConnectResponse", u)
      BY <2>3, <2>6, Zenon DEF DeliverTunnel, Is
    <3>2. ToHelperQuiet
      BY <2>2, <2>3, <3>1, Zenon DEF ToHelperQuiet
    <3> QED
      BY <1>0, <2>1, <3>1, <3>2, QuietFrame, HandshakeFrame, Zenon DEF HandshakeInv, Handshake
  <2> QED
    BY <2>4, <2>5, <2>6, Zenon
<1>3. CASE HelperExit
  <2>1. /\ \A u \in Tunnels : handle'[u] = "done" /\ upRelay'[u] = "off" /\ downRelay'[u] = "off"
                                 /\ respCh'[u] = <<>>
        /\ UNCHANGED <<toHelper, toHost>> /\ helperEnd' = "closed"
    BY <1>3, Zenon DEF HelperExit
  <2>2. \A u \in Tunnels : \A i \in DOMAIN respCh'[u] : FALSE
    BY <2>1
  <2>3. ASSUME NEW u \in Tunnels PROVE Handshake(u)'
    <3>1. Handshake(u)
      BY Zenon DEF HandshakeInv
    <3> QED
      BY <1>0, <2>1, <2>2, <3>1, Zenon DEF Handshake, Approves
  <2> QED
    BY <2>3, Zenon DEF HandshakeInv
<1> QED
  BY <1>1, <1>2, <1>3, Zenon DEF HelperNext

LEMMA HandshakeNext ==
  TypeOK /\ HandshakeInv /\ [Next]_vars => HandshakeInv'
<1>1. ASSUME HandshakeInv, UNCHANGED vars PROVE HandshakeInv'
  BY <1>1 DEF HandshakeInv, Handshake, Approves, vars, connVars, hostVars, helperVars, helperRelayVars, relayVars
<1> QED
  BY <1>1, HandshakeHost, HandshakeHelper, Zenon DEF Next
-----------------------------------------------------------------------------
\* The life of a tunnel.

\* What TunnelLifetime needs of TunnelInv.
LifeInv == TypeOK /\ HandshakeInv /\ TableInv /\ LoopEndReleasesTunnels

LEMMA LifeInit == Init => LifeInv
<1> SUFFICES ASSUME Init PROVE LifeInv
  BY Zenon
<1> USE DEF Init, ConnInit, HostInit, HelperInit
<1>1. TypeOK
  <2>1. /\ <<>> \in Seq(Envelope) /\ <<>> \in Seq(Nat) /\ Len(<<>>) = 0
        /\ RecvCap \in Nat /\ DeliveryCap \in Nat
    BY TunnelProtoAssumption
  <2> QED
    BY <2>1 DEF TypeOK, ConnectStates, OutRelayStates, InRelayStates, HandleStates, UpRelayStates, DownRelayStates
<1>2. HandshakeInv
  <2>1. \A i \in DOMAIN <<>> : FALSE
    OBVIOUS
  <2> QED
    BY <2>1, Zenon DEF HandshakeInv, Handshake, Approves, Has, HasApproval, Once, Before
<1>3. TableInv /\ LoopEndReleasesTunnels
  BY Zenon DEF TableInv, LoopEndReleasesTunnels, HostCanSend
<1> QED
  BY <1>1, <1>2, <1>3, Zenon DEF LifeInv

LEMMA LifeNext == LifeInv /\ [Next]_vars => LifeInv'
  BY TypeNext, HandshakeNext, TableNext, Zenon DEF LifeInv

\* A tunnel lives between its approval and the end of the bridge: neither side
\* relays before HandleConnectRequest has sent its approval, nothing of a tunnel
\* overtakes that approval, and when the host's ReadLoop has ended no connection
\* and no table entry stays, for any number of tunnels and any capacities.
THEOREM TunnelSafe == Spec => []TunnelLifetime
<1>1. LifeInv => TunnelLifetime
  <2> SUFFICES ASSUME HandshakeInv PROVE HandshakeFirst
    BY Zenon DEF LifeInv, TunnelLifetime
  <2> SUFFICES ASSUME NEW t \in Tunnels
               PROVE  /\ upRelay[t] # "off" => connect[t] \in {"activate", "done"}
                      /\ outRelay[t] # "off" =>
                           handle[t] # "wait" \/ respCh[t] # <<>> \/ helperEnd = "closed"
                             \/ Has(toHelper, "ConnectResponse", t)
                      /\ \A kind \in TunnelKinds : Before(toHelper, "ConnectResponse", kind, t)
    BY Zenon DEF HandshakeFirst
  <2>1. Handshake(t)
    BY Zenon DEF HandshakeInv
  <2> QED
    BY <2>1, Zenon DEF Handshake, Approves
<1> QED
  BY <1>1, LifeInit, LifeNext, PTL DEF Spec

-----------------------------------------------------------------------------
\* One direction of a tunnel, step by step.

\* A send of something else than a frame or the write-half close of t, or a
\* receive of it.
Beside(t, e) == ~Is(e, "TunnelFrame", t) /\ ~Is(e, "WriteClose", t)

QuietQueue(t, q, p) ==
    \/ p = q
    \/ \E e \in Envelope : Beside(t, e) /\ p = Append(q, e)
    \/ q # <<>> /\ Beside(t, Head(q)) /\ p = Tail(q)

LEMMA QuietStream ==
  ASSUME NEW t \in Tunnels, NEW q \in Seq(Envelope), NEW p, QuietQueue(t, q, p)
  PROVE  /\ p \in Seq(Envelope)
         /\ \A lo, hi \in Nat : Numbered(q, "TunnelFrame", t, lo, hi) => Numbered(p, "TunnelFrame", t, lo, hi)
         /\ Has(p, "TunnelFrame", t) <=> Has(q, "TunnelFrame", t)
         /\ Has(p, "WriteClose", t) <=> Has(q, "WriteClose", t)
         /\ Before(q, "TunnelFrame", "WriteClose", t) => Before(p, "TunnelFrame", "WriteClose", t)
<1>1. CASE p = q
  BY <1>1, Zenon
<1>2. ASSUME NEW e \in Envelope, Beside(t, e), p = Append(q, e)
      PROVE  /\ p \in Seq(Envelope)
             /\ \A lo, hi \in Nat : Numbered(q, "TunnelFrame", t, lo, hi) => Numbered(p, "TunnelFrame", t, lo, hi)
             /\ Has(p, "TunnelFrame", t) <=> Has(q, "TunnelFrame", t)
             /\ Has(p, "WriteClose", t) <=> Has(q, "WriteClose", t)
             /\ Before(q, "TunnelFrame", "WriteClose", t) => Before(p, "TunnelFrame", "WriteClose", t)
  <2>1. p \in Seq(Envelope)
    BY <1>2
  <2>2. \A lo, hi \in Nat : Numbered(q, "TunnelFrame", t, lo, hi) => Numbered(p, "TunnelFrame", t, lo, hi)
    BY <1>2, NumberedAppend, Zenon DEF Beside
  <2>3. \A k : Has(p, k, t) <=> Has(q, k, t) \/ Is(e, k, t)
    BY <1>2, HasAppend, Zenon
  <2>4. Before(q, "TunnelFrame", "WriteClose", t) => Before(p, "TunnelFrame", "WriteClose", t)
    <3>1. "TunnelFrame" # "WriteClose"
      BY Zenon
    <3> QED
      BY <1>2, <3>1, BeforeAppend, Zenon DEF Beside
  <2> QED
    BY <1>2, <2>1, <2>2, <2>3, <2>4, Zenon DEF Beside
<1>3. CASE q # <<>> /\ Beside(t, Head(q)) /\ p = Tail(q)
  <2>1. p \in Seq(Envelope)
    BY <1>3
  <2>2. \A lo, hi \in Nat : Numbered(q, "TunnelFrame", t, lo, hi) => Numbered(p, "TunnelFrame", t, lo, hi)
    BY <1>3, NumberedTail, Zenon DEF Beside
  <2>3. \A k : Has(q, k, t) <=> Has(p, k, t) \/ Is(Head(q), k, t)
    BY <1>3, HasTail, Zenon
  <2>4. Before(q, "TunnelFrame", "WriteClose", t) => Before(p, "TunnelFrame", "WriteClose", t)
    BY <1>3, BeforeTail, Zenon
  <2> QED
    BY <1>3, <2>1, <2>2, <2>3, <2>4, Zenon DEF Beside
<1> QED
  BY <1>1, <1>2, <1>3, Zenon DEF QuietQueue

\* What a step that is quiet about t's stream leaves of its ends and of the queue
\* between them.
QuietStep(t, r1, r1n, sent, ended, endedn, q2, q2n, r2, r2n, chunk, chunkn, fin, finn) ==
    /\ \/ r1n = r1
       \/ r1n \notin {"read", "send", "eof"}
       \/ r1 = "off" /\ r1n = "read" /\ sent = 0 /\ t \notin ended
    /\ t \in endedn <=> t \in ended
    /\ QuietQueue(t, q2, q2n)
    /\ (r2n = r2 /\ chunkn = chunk) \/ (r2 # "write" /\ r2n # "write")
    /\ t \in finn <=> t \in fin

\* The relays change state without touching the stream; others use the bridge.
LEMMA StreamFrame ==
  ASSUME NEW t \in Tunnels, NEW r1, NEW sent \in Nat, NEW ended, NEW q2 \in Seq(Envelope), NEW q1 \in Seq(Envelope),
         NEW r2, NEW chunk, NEW got \in Seq(Nat), NEW fin, StreamInv(t, r1, sent, ended, q2, q1, r2, chunk, got, fin),
         NEW r1n, NEW endedn, NEW q2n, NEW r2n, NEW chunkn, NEW finn,
         QuietStep(t, r1, r1n, sent, ended, endedn, q2, q2n, r2, r2n, chunk, chunkn, fin, finn)
  PROVE  StreamInv(t, r1n, sent, endedn, q2n, q1, r2n, chunkn, got, finn)
<1> USE DEF QuietStep
<1> DEFINE lo == IF r2 = "write" THEN Len(got) + 1 ELSE Len(got)
<1>1. /\ \A a, b \in Nat : Numbered(q2, "TunnelFrame", t, a, b) => Numbered(q2n, "TunnelFrame", t, a, b)
      /\ Has(q2n, "TunnelFrame", t) <=> Has(q2, "TunnelFrame", t)
      /\ Has(q2n, "WriteClose", t) <=> Has(q2, "WriteClose", t)
      /\ Before(q2, "TunnelFrame", "WriteClose", t) => Before(q2n, "TunnelFrame", "WriteClose", t)
  BY QuietStream, Zenon
<1>2. PICK mid \in 0 .. sent, hi \in 0 .. sent :
         /\ Numbered(q1, "TunnelFrame", t, lo, mid)
         /\ Numbered(q2, "TunnelFrame", t, mid, hi)
         /\ r1 \in {"read", "eof"} => hi = sent
         /\ r1 = "send" => hi + 1 = sent
         /\ Has(q1, "WriteClose", t) \/ Has(q2, "WriteClose", t) \/ t \in fin => hi = sent
  BY Zenon DEF StreamInv
<1>3. lo = IF r2n = "write" THEN Len(got) + 1 ELSE Len(got)
  BY Zenon
<1>4. mid \in Nat /\ hi \in Nat
  OBVIOUS
<1>5. /\ Numbered(q2n, "TunnelFrame", t, mid, hi)
      /\ r1n \in {"read", "eof"} => hi = sent
      /\ r1n = "send" => hi + 1 = sent
      /\ Has(q1, "WriteClose", t) \/ Has(q2n, "WriteClose", t) \/ t \in finn => hi = sent
  BY <1>1, <1>2, <1>4
<1> HIDE DEF lo
<1> QED
  BY <1>1, <1>2, <1>3, <1>5, Zenon DEF StreamInv

\* The sender reads the next chunk, or the end of its stream.
LEMMA StreamRead ==
  ASSUME NEW t \in Tunnels, NEW r1, NEW sent \in Nat, NEW ended, NEW q2 \in Seq(Envelope), NEW q1 \in Seq(Envelope),
         NEW r2, NEW chunk, NEW got \in Seq(Nat), NEW fin, StreamInv(t, r1, sent, ended, q2, q1, r2, chunk, got, fin),
         r1 = "read"
  PROVE  /\ t \notin ended
         /\ StreamInv(t, "send", sent + 1, ended, q2, q1, r2, chunk, got, fin)
         /\ StreamInv(t, "eof", sent, ended \cup {t}, q2, q1, r2, chunk, got, fin)
<1> DEFINE lo == IF r2 = "write" THEN Len(got) + 1 ELSE Len(got)
<1>2. PICK mid \in 0 .. sent :
         /\ Numbered(q1, "TunnelFrame", t, lo, mid)
         /\ Numbered(q2, "TunnelFrame", t, mid, sent)
  BY Zenon DEF StreamInv
<1>3. t \notin ended /\ ~Has(q1, "WriteClose", t) /\ ~Has(q2, "WriteClose", t) /\ t \notin fin
  BY Zenon DEF StreamInv
<1>4. mid \in 0 .. sent + 1 /\ sent \in 0 .. sent + 1 /\ sent \in 0 .. sent
  OBVIOUS
<1> HIDE DEF lo
<1>5. StreamInv(t, "send", sent + 1, ended, q2, q1, r2, chunk, got, fin)
  BY <1>2, <1>3, <1>4, Zenon DEF StreamInv, lo
<1>6. StreamInv(t, "eof", sent, ended \cup {t}, q2, q1, r2, chunk, got, fin)
  BY <1>2, <1>3, <1>4, Zenon DEF StreamInv, lo
<1> QED
  BY <1>3, <1>5, <1>6, Zenon

\* The sender sends the chunk it has read, or the write-half close.
LEMMA StreamSend ==
  ASSUME NEW t \in Tunnels, NEW r1, NEW sent \in Nat, NEW ended, NEW q2 \in Seq(Envelope), NEW q1 \in Seq(Envelope),
         NEW r2, NEW chunk, NEW got \in Seq(Nat), NEW fin, StreamInv(t, r1, sent, ended, q2, q1, r2, chunk, got, fin),
         NEW e \in Envelope, e.id = t, NEW q2n, q2n = Append(q2, e)
  PROVE  /\ r1 = "send" /\ e.kind = "TunnelFrame" /\ e.n = sent =>
              StreamInv(t, "read", sent, ended, q2n, q1, r2, chunk, got, fin)
         /\ r1 = "eof" /\ e.kind = "WriteClose" =>
              StreamInv(t, "done", sent, ended, q2n, q1, r2, chunk, got, fin)
<1> DEFINE lo == IF r2 = "write" THEN Len(got) + 1 ELSE Len(got)
<1>1. \A k : Has(q2n, k, t) <=> Has(q2, k, t) \/ Is(e, k, t)
  BY HasAppend, Zenon
<1>2. PICK mid \in 0 .. sent, hi \in 0 .. sent :
         /\ Numbered(q1, "TunnelFrame", t, lo, mid)
         /\ Numbered(q2, "TunnelFrame", t, mid, hi)
         /\ r1 \in {"read", "eof"} => hi = sent
         /\ r1 = "send" => hi + 1 = sent
         /\ Has(q1, "WriteClose", t) \/ Has(q2, "WriteClose", t) \/ t \in fin => hi = sent
  BY Zenon DEF StreamInv
<1>3. /\ mid \in Nat /\ hi \in Nat
      /\ ~Is(e, "TunnelFrame", t) => Numbered(q2n, "TunnelFrame", t, mid, hi)
      /\ Is(e, "TunnelFrame", t) /\ e.n = hi + 1 => Numbered(q2n, "TunnelFrame", t, mid, hi + 1)
  <2>1. mid \in Nat /\ hi \in Nat
    OBVIOUS
  <2> QED
    BY <1>2, <2>1, NumberedAppend, Zenon
<1>4. Before(q2, "TunnelFrame", "WriteClose", t) /\ (Is(e, "TunnelFrame", t) => ~Has(q2, "WriteClose", t))
        => Before(q2n, "TunnelFrame", "WriteClose", t)
  <2>1. "TunnelFrame" # "WriteClose"
    BY Zenon
  <2> QED
    BY <2>1, BeforeAppend, Zenon
<1> HIDE DEF lo
<1>5. ASSUME r1 = "send", e.kind = "TunnelFrame", e.n = sent
      PROVE  StreamInv(t, "read", sent, ended, q2n, q1, r2, chunk, got, fin)
  <2>1. t \notin ended /\ ~Has(q1, "WriteClose", t) /\ ~Has(q2, "WriteClose", t) /\ t \notin fin
    BY <1>5, Zenon DEF StreamInv
  <2>2. Is(e, "TunnelFrame", t) /\ ~Is(e, "WriteClose", t)
    BY <1>5, Zenon DEF Is
  <2>3. hi + 1 = sent /\ sent \in 0 .. sent /\ Numbered(q2n, "TunnelFrame", t, mid, sent)
    BY <1>2, <1>3, <1>5, <2>2
  <2>4. ~Has(q2n, "WriteClose", t) /\ Before(q2n, "TunnelFrame", "WriteClose", t)
    BY <1>1, <1>4, <2>1, <2>2, Zenon DEF StreamInv
  <2> QED
    BY <1>2, <2>1, <2>3, <2>4, Zenon DEF StreamInv, lo
<1>6. ASSUME r1 = "eof", e.kind = "WriteClose"
      PROVE  StreamInv(t, "done", sent, ended, q2n, q1, r2, chunk, got, fin)
  <2>1. t \in ended /\ hi = sent
    BY <1>2, <1>6, Zenon DEF StreamInv
  <2>2. ~Is(e, "TunnelFrame", t) /\ Is(e, "WriteClose", t)
    BY <1>6, Zenon DEF Is
  <2>3. /\ Numbered(q2n, "TunnelFrame", t, mid, sent) /\ sent \in 0 .. sent
        /\ Has(q2n, "TunnelFrame", t) <=> Has(q2, "TunnelFrame", t)
        /\ Before(q2n, "TunnelFrame", "WriteClose", t)
    BY <1>1, <1>2, <1>3, <1>4, <2>1, <2>2, Zenon DEF StreamInv
  <2> QED
    BY <1>2, <2>1, <2>3, Zenon DEF StreamInv, lo
<1> QED
  BY <1>5, <1>6, Zenon
\* ReadLoop moves an envelope of t from the bridge into the receiver's queue.
LEMMA StreamDeliver ==
  ASSUME NEW t \in Tunnels, NEW r1, NEW sent \in Nat, NEW ended, NEW q2 \in Seq(Envelope), NEW q1 \in Seq(Envelope),
         NEW r2, NEW chunk, NEW got \in Seq(Nat), NEW fin, StreamInv(t, r1, sent, ended, q2, q1, r2, chunk, got, fin),
         q2 # <<>>, Head(q2).id = t, Head(q2).kind \in TunnelKinds,
         NEW q2n, q2n = Tail(q2), NEW q1n, q1n = Append(q1, Head(q2))
  PROVE  StreamInv(t, r1, sent, ended, q2n, q1n, r2, chunk, got, fin)
<1> DEFINE lo == IF r2 = "write" THEN Len(got) + 1 ELSE Len(got)
           e == Head(q2)
<1>0. e \in Envelope /\ lo \in Nat
  BY TakeType
<1> HIDE DEF lo, e
<1>1. /\ \A k : Has(q1n, k, t) <=> Has(q1, k, t) \/ Is(e, k, t)
      /\ \A k : Has(q2, k, t) <=> Has(q2n, k, t) \/ Is(e, k, t)
      /\ \A k : Is(e, k, t) <=> e.kind = k
  <2>1. \A k : Has(q1n, k, t) <=> Has(q1, k, t) \/ Is(e, k, t)
    BY <1>0, HasAppend, Zenon DEF e
  <2>2. \A k : Has(q2, k, t) <=> Has(q2n, k, t) \/ Is(e, k, t)
    BY HasTail, Zenon DEF e
  <2>3. \A k : Is(e, k, t) <=> e.kind = k
    BY Zenon DEF e, Is
  <2> QED
    BY <2>1, <2>2, <2>3, Zenon
<1>2. PICK mid \in 0 .. sent, hi \in 0 .. sent :
         /\ Numbered(q1, "TunnelFrame", t, lo, mid)
         /\ Numbered(q2, "TunnelFrame", t, mid, hi)
         /\ r1 \in {"read", "eof"} => hi = sent
         /\ r1 = "send" => hi + 1 = sent
         /\ Has(q1, "WriteClose", t) \/ Has(q2, "WriteClose", t) \/ t \in fin => hi = sent
  BY Zenon DEF StreamInv, lo
<1>3. mid \in Nat /\ hi \in Nat
  OBVIOUS
<1>4. /\ ~Is(e, "TunnelFrame", t) => Numbered(q2n, "TunnelFrame", t, mid, hi)
      /\ Is(e, "TunnelFrame", t) => e.n = mid + 1 /\ Numbered(q2n, "TunnelFrame", t, mid + 1, hi)
  BY <1>2, <1>3, NumberedTail, Zenon DEF e
<1>5. /\ ~Is(e, "TunnelFrame", t) => Numbered(q1n, "TunnelFrame", t, lo, mid)
      /\ Is(e, "TunnelFrame", t) /\ e.n = mid + 1 => Numbered(q1n, "TunnelFrame", t, lo, mid + 1)
  BY <1>0, <1>2, <1>3, NumberedAppend, Zenon DEF e
<1>6. \A i \in DOMAIN q1n : q1n[i].id = t
  <2>1. \A i \in DOMAIN q1 : q1[i].id = t
    BY Zenon DEF StreamInv
  <2>2. q1n = Append(q1, e) /\ e.id = t
    BY Zenon DEF e
  <2> QED
    BY <1>0, <2>1, <2>2, AppendPlaces
<1>7. /\ Before(q2n, "TunnelFrame", "WriteClose", t)
      /\ Is(e, "WriteClose", t) => ~Has(q2, "TunnelFrame", t)
  BY BeforeTail, Zenon DEF StreamInv, e
<1>8. Before(q1, "TunnelFrame", "WriteClose", t) /\ (Is(e, "TunnelFrame", t) => ~Has(q1, "WriteClose", t))
        => Before(q1n, "TunnelFrame", "WriteClose", t)
  <2>1. "TunnelFrame" # "WriteClose"
    BY Zenon
  <2> QED
    BY <1>0, <2>1, BeforeAppend, Zenon DEF e
<1>9. CASE e.kind = "TunnelFrame"
  <2>1. Has(q2, "TunnelFrame", t) /\ ~Has(q1, "WriteClose", t) /\ t \notin fin
    BY <1>1, <1>9, Zenon DEF StreamInv
  <2>2. Before(q1n, "TunnelFrame", "WriteClose", t)
    BY <1>8, <2>1, Zenon DEF StreamInv
  <2>3. /\ Numbered(q1n, "TunnelFrame", t, lo, mid + 1)
        /\ Numbered(q2n, "TunnelFrame", t, mid + 1, hi)
    BY <1>1, <1>4, <1>5, <1>9, Zenon
  <2>4. mid + 1 \in 0 .. sent
    BY <1>3, <2>3 DEF Numbered
  <2>5. ~Has(q1n, "WriteClose", t) /\ (Has(q2n, "WriteClose", t) <=> Has(q2, "WriteClose", t))
    BY <1>1, <1>9, <2>1
  <2> QED
    BY <1>2, <1>6, <1>7, <2>1, <2>2, <2>3, <2>4, <2>5, Zenon DEF StreamInv, lo
<1>10. CASE e.kind = "WriteClose"
  <2>1. Has(q2, "WriteClose", t) /\ ~Has(q2, "TunnelFrame", t) /\ ~Is(e, "TunnelFrame", t)
    BY <1>1, <1>7, <1>10, Zenon
  <2>2. /\ Numbered(q1n, "TunnelFrame", t, lo, mid) /\ Numbered(q2n, "TunnelFrame", t, mid, hi)
        /\ Before(q1n, "TunnelFrame", "WriteClose", t)
        /\ ~Has(q2n, "TunnelFrame", t) /\ (Has(q1n, "TunnelFrame", t) <=> Has(q1, "TunnelFrame", t))
    BY <1>1, <1>4, <1>5, <1>8, <2>1, Zenon DEF StreamInv
  <2> QED
    BY <1>2, <1>6, <1>7, <2>1, <2>2, Zenon DEF StreamInv, lo
<1>11. CASE e.kind = "TerminalClose"
  <2>1. ~Is(e, "TunnelFrame", t) /\ ~Is(e, "WriteClose", t)
    BY <1>1, <1>11
  <2>2. /\ Numbered(q1n, "TunnelFrame", t, lo, mid) /\ Numbered(q2n, "TunnelFrame", t, mid, hi)
        /\ Before(q1n, "TunnelFrame", "WriteClose", t)
        /\ Has(q1n, "TunnelFrame", t) <=> Has(q1, "TunnelFrame", t)
        /\ Has(q1n, "WriteClose", t) <=> Has(q1, "WriteClose", t)
        /\ Has(q2n, "TunnelFrame", t) <=> Has(q2, "TunnelFrame", t)
        /\ Has(q2n, "WriteClose", t) <=> Has(q2, "WriteClose", t)
    BY <1>1, <1>4, <1>5, <1>8, <2>1, Zenon DEF StreamInv
  <2> QED
    BY <1>2, <1>6, <1>7, <2>2, Zenon DEF StreamInv, lo
<1> QED
  BY <1>9, <1>10, <1>11, Zenon DEF TunnelKinds, e

\* When the end comes every chunk was written.
LEMMA StreamEnding ==
  ASSUME NEW t \in Tunnels, NEW r1, NEW sent \in Nat, NEW ended, NEW q2 \in Seq(Envelope), NEW q1 \in Seq(Envelope),
         NEW r2, NEW chunk, NEW got \in Seq(Nat), NEW fin, StreamInv(t, r1, sent, ended, q2, q1, r2, chunk, got, fin),
         q1 # <<>>, r2 # "write", Is(Head(q1), "WriteClose", t)
  PROVE  /\ t \in ended /\ Len(got) = sent
         /\ ~Has(q1, "TunnelFrame", t) /\ ~Has(q2, "TunnelFrame", t) /\ Has(q1, "WriteClose", t)
<1>1. 1 \in DOMAIN q1 /\ q1[1] = Head(q1)
  BY TailPlaces, Zenon
<1>2. Is(Head(q1), "WriteClose", t) /\ Has(q1, "WriteClose", t)
  BY <1>1, Zenon DEF Has
<1>3. ~Has(q1, "TunnelFrame", t)
  BY <1>2, BeforeTail, Zenon DEF StreamInv
<1>4. t \in ended /\ ~Has(q2, "TunnelFrame", t)
  BY <1>2, Zenon DEF StreamInv
<1>5. PICK mid \in 0 .. sent :
         Numbered(q1, "TunnelFrame", t, Len(got), mid) /\ Numbered(q2, "TunnelFrame", t, mid, sent)
  BY <1>2, Zenon DEF StreamInv
<1>6. mid \in Nat /\ Len(got) \in Nat
  OBVIOUS
<1>7. Len(got) = mid
  BY <1>3, <1>5, <1>6, NumberedNone, Zenon
<1>8. mid = sent
  BY <1>4, <1>5, <1>6, NumberedNone, Zenon
<1> QED
  BY <1>2, <1>3, <1>4, <1>7, <1>8, Zenon

\* The receiver's relay takes an envelope: a chunk is the next one.
LEMMA StreamTake ==
  ASSUME NEW t \in Tunnels, NEW r1, NEW sent \in Nat, NEW ended, NEW q2 \in Seq(Envelope), NEW q1 \in Seq(Envelope),
         NEW r2, NEW chunk, NEW got \in Seq(Nat), NEW fin, StreamInv(t, r1, sent, ended, q2, q1, r2, chunk, got, fin),
         q1 # <<>>, r2 # "write", NEW q1n, q1n = Tail(q1)
  PROVE  /\ Head(q1).kind = "TunnelFrame" =>
              StreamInv(t, r1, sent, ended, q2, q1n, "write", Head(q1).n, got, fin)
         /\ Head(q1).kind = "WriteClose" =>
              StreamInv(t, r1, sent, ended, q2, q1n, r2, chunk, got, fin \cup {t})
<1> DEFINE lo == Len(got)
           e == Head(q1)
<1>0. lo \in Nat /\ e.id = t
  BY TailPlaces DEF StreamInv
<1> HIDE DEF e
<1>1. /\ \A k : Has(q1, k, t) <=> Has(q1n, k, t) \/ Is(e, k, t)
      /\ \A k : Is(e, k, t) <=> e.kind = k
  BY <1>0, HasTail, Zenon DEF e, Is
<1>2. PICK mid \in 0 .. sent, hi \in 0 .. sent :
         /\ Numbered(q1, "TunnelFrame", t, lo, mid)
         /\ Numbered(q2, "TunnelFrame", t, mid, hi)
         /\ r1 \in {"read", "eof"} => hi = sent
         /\ r1 = "send" => hi + 1 = sent
         /\ Has(q1, "WriteClose", t) \/ Has(q2, "WriteClose", t) \/ t \in fin => hi = sent
  BY Zenon DEF StreamInv
<1>3. mid \in Nat /\ hi \in Nat
  OBVIOUS
<1> HIDE DEF lo
<1>4. /\ ~Is(e, "TunnelFrame", t) => Numbered(q1n, "TunnelFrame", t, lo, mid)
      /\ Is(e, "TunnelFrame", t) => e.n = lo + 1 /\ Numbered(q1n, "TunnelFrame", t, lo + 1, mid)
  BY <1>0, <1>2, <1>3, NumberedTail, Zenon DEF e
<1>5. \A i \in DOMAIN q1n : q1n[i].id = t
  BY TailPlaces DEF StreamInv
<1>6. /\ Before(q1n, "TunnelFrame", "WriteClose", t)
      /\ Is(e, "WriteClose", t) => ~Has(q1, "TunnelFrame", t)
  BY BeforeTail, Zenon DEF StreamInv, e
<1>7. ASSUME e.kind = "TunnelFrame"
      PROVE  StreamInv(t, r1, sent, ended, q2, q1n, "write", e.n, got, fin)
  <2>1. /\ Has(q1, "TunnelFrame", t) /\ t \notin fin
        /\ Has(q1n, "WriteClose", t) <=> Has(q1, "WriteClose", t)
    BY <1>1, <1>7 DEF StreamInv
  <2>2. e.n = Len(got) + 1 /\ Numbered(q1n, "TunnelFrame", t, Len(got) + 1, mid)
    BY <1>1, <1>4, <1>7, Zenon DEF lo
  <2> QED
    BY <1>2, <1>5, <1>6, <2>1, <2>2, Zenon DEF StreamInv
<1>8. ASSUME e.kind = "WriteClose"
      PROVE  StreamInv(t, r1, sent, ended, q2, q1n, r2, chunk, got, fin \cup {t})
  <2>1. /\ t \in ended /\ ~Has(q1, "TunnelFrame", t) /\ ~Has(q2, "TunnelFrame", t) /\ Has(q1, "WriteClose", t)
    BY <1>1, <1>8, StreamEnding, Zenon DEF e
  <2>2. hi = sent /\ ~Has(q1n, "TunnelFrame", t) /\ ~Is(e, "TunnelFrame", t)
    BY <1>1, <1>2, <2>1, Zenon
  <2>3. Numbered(q1n, "TunnelFrame", t, Len(got), mid)
    BY <1>4, <2>2, Zenon DEF lo
  <2>4. t \in fin \cup {t}
    BY Zenon
  <2> QED
    BY <1>2, <1>5, <1>6, <2>1, <2>2, <2>3, <2>4, Zenon DEF StreamInv
<1> QED
  BY <1>7, <1>8, Zenon DEF e

\* The receiver's relay has written its chunk, which is the next one.
LEMMA StreamWriting ==
  ASSUME NEW t \in Tunnels, NEW r1, NEW sent \in Nat, NEW ended, NEW q2 \in Seq(Envelope), NEW q1 \in Seq(Envelope),
         NEW chunk, NEW got \in Seq(Nat), NEW fin, StreamInv(t, r1, sent, ended, q2, q1, "write", chunk, got, fin)
  PROVE  t \notin fin /\ Len(got) < sent /\ chunk = Len(got) + 1
<1>1. PICK mid \in 0 .. sent : Numbered(q1, "TunnelFrame", t, Len(got) + 1, mid)
  BY Zenon DEF StreamInv
<1>2. t \notin fin /\ chunk = Len(got) + 1
  BY Zenon DEF StreamInv
<1>3. Len(got) < sent
  BY <1>1 DEF Numbered
<1> QED
  BY <1>2, <1>3, Zenon

LEMMA StreamWrite ==
  ASSUME NEW t \in Tunnels, NEW r1, NEW sent \in Nat, NEW ended, NEW q2 \in Seq(Envelope), NEW q1 \in Seq(Envelope),
         NEW chunk, NEW got \in Seq(Nat), NEW fin, StreamInv(t, r1, sent, ended, q2, q1, "write", chunk, got, fin),
         NEW r2n, r2n # "write", NEW chunkn
  PROVE  StreamInv(t, r1, sent, ended, q2, q1, r2n, chunkn, Append(got, chunk), fin)
<1> DEFINE lo == Len(got) + 1
<1>1. PICK mid \in 0 .. sent, hi \in 0 .. sent :
         /\ Numbered(q1, "TunnelFrame", t, lo, mid)
         /\ Numbered(q2, "TunnelFrame", t, mid, hi)
         /\ r1 \in {"read", "eof"} => hi = sent
         /\ r1 = "send" => hi + 1 = sent
         /\ Has(q1, "WriteClose", t) \/ Has(q2, "WriteClose", t) \/ t \in fin => hi = sent
  BY Zenon DEF StreamInv
<1>2. t \notin fin /\ chunk = Len(got) + 1
  BY Zenon DEF StreamInv
<1>4. Len(Append(got, chunk)) = Len(got) + 1
  BY <1>2
<1> QED
  BY <1>1, <1>2, <1>4, Zenon DEF StreamInv

-----------------------------------------------------------------------------
\* From the payload to the destination.

LEMMA SendBeside ==
  ASSUME NEW t \in Tunnels, NEW u \in Tunnels, NEW kind \in Kinds, NEW n \in Nat,
         u # t \/ kind \notin {"TunnelFrame", "WriteClose"}
  PROVE  /\ HostSend(Env(kind, t, n)) => QuietQueue(u, toHelper, toHelper')
         /\ HelperSend(Env(kind, t, n)) => QuietQueue(u, toHost, toHost')
<1>1. Env(kind, t, n) \in Envelope
  BY EnvType, Zenon
<1>2. Beside(u, Env(kind, t, n))
  BY IsEnv DEF Beside
<1> QED
  BY <1>1, <1>2, Zenon DEF QuietQueue, HostSend, HelperSend

\* A step that neither reads, moves nor writes a chunk or the end of u's stream.
LEMMA UpFrame ==
  ASSUME TypeOK, NEW u \in Tunnels, Up(u), closed \subseteq closed',
         \/ upRelay'[u] = upRelay[u]
         \/ upRelay'[u] \notin {"read", "send", "eof"}
         \/ upRelay[u] = "off" /\ upRelay'[u] = "read" /\ helperEnd = "open",
         upRelay'[u] = "off" /\ helperEnd' = "open" => upRelay[u] = "off" /\ helperEnd = "open",
         paySent'[u] = paySent[u], u \in payEnded' <=> u \in payEnded,
         QuietQueue(u, toHost, toHost'),
         recvCh'[u] = recvCh[u], destGot'[u] = destGot[u], u \in destFin' <=> u \in destFin,
         u \notin closed' /\ inRelay'[u] \in {"off", "select", "write"} =>
           \/ inRelay'[u] = inRelay[u] /\ inChunk'[u] = inChunk[u]
           \/ inRelay[u] \in {"off", "select"} /\ inRelay'[u] # "write"
  PROVE  Up(u)'
<1>1. /\ upRelay'[u] = "off" /\ helperEnd' = "open" => paySent'[u] = 0 /\ u \notin payEnded'
      /\ u \in payEnded' => upRelay'[u] \notin {"read", "send"}
  BY Zenon DEF Up
<1>2. ASSUME u \notin closed', inRelay'[u] \in {"off", "select", "write"}
      PROVE  StreamInv(u, upRelay'[u], paySent'[u], payEnded', toHost', recvCh'[u],
                       inRelay'[u], inChunk'[u], destGot'[u], destFin')
  <2>1. StreamInv(u, upRelay[u], paySent[u], payEnded, toHost, recvCh[u],
                  inRelay[u], inChunk[u], destGot[u], destFin)
    BY <1>2, Zenon DEF Up
  <2>2. paySent[u] \in Nat /\ toHost \in Seq(Envelope) /\ recvCh[u] \in Seq(Envelope) /\ destGot[u] \in Seq(Nat)
    BY Zenon DEF TypeOK
  <2>3. \/ upRelay'[u] = upRelay[u]
        \/ upRelay'[u] \notin {"read", "send", "eof"}
        \/ upRelay[u] = "off" /\ upRelay'[u] = "read" /\ paySent[u] = 0 /\ u \notin payEnded
    BY Zenon DEF Up
  <2>4. \/ inRelay'[u] = inRelay[u] /\ inChunk'[u] = inChunk[u]
        \/ inRelay[u] # "write" /\ inRelay'[u] # "write"
    BY <1>2, Zenon
  <2>5. QuietStep(u, upRelay[u], upRelay'[u], paySent[u], payEnded, payEnded', toHost, toHost', inRelay[u], inRelay'[u], inChunk[u], inChunk'[u], destFin, destFin')
    BY <2>3, <2>4, Zenon DEF QuietStep
  <2>6. StreamInv(u, upRelay'[u], paySent[u], payEnded', toHost', recvCh[u],
                  inRelay'[u], inChunk'[u], destGot[u], destFin')
    BY <2>1, <2>2, <2>5, StreamFrame, Zenon
  <2> QED
    BY <2>6, Zenon
<1> QED
  BY <1>1, <1>2, Zenon DEF Up

\* The host receives.
LEMMA UpHost ==
  ASSUME TypeOK, HandshakeInv, TableInv, HostNext, UNCHANGED helperVars, NEW u \in Tunnels, Up(u)
  PROVE  Up(u)'
<1>0. /\ UNCHANGED <<upRelay, paySent, payEnded>> /\ helperEnd' = helperEnd /\ closed \subseteq closed'
  <2>1. UNCHANGED <<upRelay, paySent, payEnded>>
    BY Zenon DEF helperVars, helperRelayVars, payVars
  <2>2. ASSUME NEW t \in Tunnels, HostTunnelStep(t) PROVE helperEnd' = helperEnd /\ closed \subseteq closed'
    BY <2>2, Zenon DEF HostTunnelStep, closeTerminal, shutdown, connVars, ConnectRefuse, ConnectRegister, ConnectRespond, ConnectActivate, OutRead, OutSend, OutError, OutExit, InReceive, InClosed, InWrite, InError, InExit, OverflowSend
  <2>3. CASE HostDecode \/ HostDecodeError \/ HostLoopEnd \/ CloseTunnels \/ CloseConn
    <3>1. CASE HostDecode
      BY <2>1, <3>1, Zenon DEF HostDecode, HandleTunnel, deliver, closeTerminal, shutdown
    <3>2. CASE HostLoopEnd \/ CloseTunnels
      BY <2>1, <3>2, Zenon DEF HostLoopEnd, CloseTunnels, ShutdownTunnels, connVars
    <3>3. CASE HostDecodeError \/ CloseConn
      BY <2>1, <3>3, Zenon DEF HostDecodeError, CloseConn
    <3> QED
      BY <2>3, <3>1, <3>2, <3>3, Zenon
  <2> QED
    BY <2>1, <2>2, <2>3, Zenon DEF HostNext
<1>1. /\ paySent[u] \in Nat /\ toHost \in Seq(Envelope) /\ recvCh \in [Tunnels -> Seq(Envelope)]
      /\ recvCh[u] \in Seq(Envelope) /\ destGot[u] \in Seq(Nat) /\ destGot \in [Tunnels -> Seq(Nat)]
      /\ inRelay \in [Tunnels -> InRelayStates] /\ inChunk \in [Tunnels -> Nat]
  BY Zenon DEF TypeOK
<1>8. paySent[u] \in Nat /\ toHost \in Seq(Envelope) /\ recvCh[u] \in Seq(Envelope) /\ destGot[u] \in Seq(Nat)
  BY <1>1, Zenon
<1>2. \A q : QuietQueue(u, q, q)
  BY Zenon DEF QuietQueue
<1>3. ASSUME StreamInv(u, upRelay[u], paySent[u], payEnded, toHost', recvCh'[u],
                       inRelay'[u], inChunk'[u], destGot'[u], destFin')
      PROVE  Up(u)'
  BY <1>0, <1>3, Zenon DEF Up
<1>4. ASSUME u \in closed' \/ inRelay'[u] \notin {"off", "select", "write"}
      PROVE  Up(u)'
  BY <1>0, <1>4, Zenon DEF Up
<1>5. ASSUME NEW t \in Tunnels, HostTunnelStep(t)
      PROVE  Up(u)'
  <2>1. CASE u = t /\ InReceive(t) /\ inRelay'[u] \in {"off", "select", "write"} /\ u \notin closed'
    <3> DEFINE env == Head(recvCh[u])
    <3>1. /\ inRelay[u] = "select" /\ recvCh[u] # <<>> /\ recvCh'[u] = Tail(recvCh[u])
          /\ toHost' = toHost /\ destGot' = destGot /\ u \notin closed
          /\ \/ /\ env.kind = "TunnelFrame" /\ inRelay'[u] = "write" /\ inChunk'[u] = env.n
                /\ destFin' = destFin
             \/ /\ env.kind = "WriteClose" /\ destFin' = destFin \cup {u} /\ inRelay' = inRelay
                /\ inChunk' = inChunk
      BY <1>0, <1>1, <2>1, Zenon DEF InReceive, connVars
    <3> HIDE DEF env
    <3>2. StreamInv(u, upRelay[u], paySent[u], payEnded, toHost, recvCh[u],
                    inRelay[u], inChunk[u], destGot[u], destFin)
      BY <3>1, Zenon DEF Up
    <3>3. inRelay[u] # "write"
      BY <3>1, Zenon
    <3>4. CASE env.kind = "TunnelFrame" /\ inRelay'[u] = "write" /\ inChunk'[u] = env.n /\ destFin' = destFin
      <4>1. StreamInv(u, upRelay[u], paySent[u], payEnded, toHost, recvCh'[u], "write", env.n,
                      destGot[u], destFin)
        BY <1>8, <3>1, <3>2, <3>3, <3>4, StreamTake, Zenon DEF env
      <4> QED
        BY <1>3, <3>1, <3>4, <4>1, Zenon
    <3>5. CASE env.kind = "WriteClose" /\ destFin' = destFin \cup {u} /\ inRelay' = inRelay /\ inChunk' = inChunk
      <4>1. StreamInv(u, upRelay[u], paySent[u], payEnded, toHost, recvCh'[u], inRelay[u], inChunk[u],
                      destGot[u], destFin \cup {u})
        <5>1. recvCh[u] # <<>> /\ recvCh'[u] = Tail(recvCh[u]) /\ Head(recvCh[u]).kind = "WriteClose"
          BY <3>1, <3>5, Zenon DEF env
        <5> QED
          BY <1>8, <3>2, <3>3, <5>1, StreamTake, Zenon
      <4> QED
        BY <1>3, <3>1, <3>5, <4>1, Zenon
    <3> QED
      BY <3>1, <3>4, <3>5, Zenon
  <2>2. CASE u = t /\ InWrite(t) /\ inRelay'[u] \in {"off", "select", "write"} /\ u \notin closed'
    <3>1. /\ inRelay[u] = "write" /\ inRelay'[u] # "write" /\ destGot'[u] = Append(destGot[u], inChunk[u])
          /\ u \notin closed
          /\ UNCHANGED <<toHost, recvCh, destFin>>
      BY <1>0, <1>1, <2>2, Zenon DEF InWrite, connVars
    <3>2. StreamInv(u, upRelay[u], paySent[u], payEnded, toHost, recvCh[u],
                    inRelay[u], inChunk[u], destGot[u], destFin)
      BY <3>1, Zenon DEF Up
    <3>3. StreamInv(u, upRelay[u], paySent[u], payEnded, toHost, recvCh[u],
                    inRelay'[u], inChunk'[u], destGot'[u], destFin)
      <4>1. inRelay[u] = "write" /\ inRelay'[u] # "write" /\ destGot'[u] = Append(destGot[u], inChunk[u])
        BY <3>1, Zenon
      <4>2. StreamInv(u, upRelay[u], paySent[u], payEnded, toHost, recvCh[u],
                      "write", inChunk[u], destGot[u], destFin)
        BY <3>2, <4>1, Zenon
      <4>3. StreamInv(u, upRelay[u], paySent[u], payEnded, toHost, recvCh[u],
                      inRelay'[u], inChunk'[u], Append(destGot[u], inChunk[u]), destFin)
        BY <1>8, <4>1, <4>2, StreamWrite, Zenon
      <4> QED
        BY <4>1, <4>3, Zenon
    <3> QED
      BY <1>3, <3>1, <3>3, Zenon
  <2>3. CASE ~(u = t /\ (InReceive(t) \/ InWrite(t)))
    <3>1. toHost' = toHost
      BY <1>5, Zenon DEF HostTunnelStep, connVars, ConnectRefuse, ConnectRegister, ConnectRespond, ConnectActivate, OutRead, OutSend, OutError, OutExit, InReceive, InClosed, InWrite, InError, InExit, OverflowSend
    <3>2. recvCh'[u] = recvCh[u] /\ destGot'[u] = destGot[u] /\ (u \in destFin' <=> u \in destFin)
      BY <1>1, <1>5, <2>3, Zenon DEF HostTunnelStep, destVars, ConnectRefuse, ConnectRegister, ConnectRespond, ConnectActivate, OutRead, OutSend, OutError, OutExit, InReceive, InClosed, InWrite, InError, InExit, OverflowSend
    <3>3. CASE u # t
      <4>1. inRelay'[u] = inRelay[u] /\ inChunk'[u] = inChunk[u]
        BY <1>1, <1>5, <3>3, Zenon DEF HostTunnelStep, relayVars, start, ConnectRefuse, ConnectRegister, ConnectRespond, ConnectActivate, OutRead, OutSend, OutError, OutExit, InReceive, InClosed, InWrite, InError, InExit, OverflowSend
      <4> QED
        BY <1>0, <1>2, <3>1, <3>2, <4>1, UpFrame, Zenon
    <3>4. CASE u = t
      <4>1. CASE ConnectActivate(t)
        <5>1. inRelay[u] = "off" /\ inRelay'[u] # "write"
          BY <1>1, <3>4, <4>1, Zenon DEF ConnectActivate, start, HandshakeInv, Handshake
        <5> QED
          BY <1>0, <1>2, <3>1, <3>2, <5>1, UpFrame, Zenon
      <4>2. CASE InClosed(t) \/ InError(t) \/ InExit(t)
        <5>1. inRelay'[u] \notin {"off", "select", "write"}
          BY <1>1, <3>4, <4>2, Zenon DEF InClosed, InError, InExit
        <5> QED
          BY <1>4, <5>1, Zenon
      <4>3. CASE UNCHANGED <<inRelay, inChunk>>
        BY <1>0, <1>2, <3>1, <3>2, <4>3, UpFrame, Zenon
      <4> QED
        BY <1>5, <2>3, <3>4, <4>1, <4>2, <4>3, Zenon DEF HostTunnelStep, relayVars, ConnectRefuse, ConnectRegister, ConnectRespond, ConnectActivate, OutRead, OutSend, OutError, OutExit, InReceive, InClosed, InWrite, InError, InExit, OverflowSend
    <3> QED
      BY <3>3, <3>4, Zenon
  <2> QED
    BY <1>4, <2>1, <2>2, <2>3, Zenon
<1>6. CASE HostDecode
  <2> DEFINE env == Head(toHost)
  <2>1. /\ toHost # <<>> /\ toHost' = Tail(toHost) /\ env \in Envelope /\ env.id \in Tunnels
        /\ UNCHANGED <<inRelay, inChunk, destGot, destFin>>
        /\ \/ env.kind = "ConnectRequest" /\ UNCHANGED recvCh
           \/ env.kind \in TunnelKinds /\ HandleTunnel(env)
    BY <1>1, <1>6, TakeType, Zenon DEF HostDecode, relayVars, destVars
  <2> HIDE DEF env
  <2>2. CASE env.id # u \/ env.kind = "ConnectRequest"
    <3>1. Beside(u, env)
      BY <2>2, Zenon DEF Beside, Is
    <3>2. QuietQueue(u, toHost, toHost')
      BY <2>1, <3>1, Zenon DEF QuietQueue, env
    <3>3. recvCh'[u] = recvCh[u]
      BY <1>1, <2>1, <2>2, Zenon DEF HandleTunnel, deliver, TunnelKinds
    <3> QED
      BY <1>0, <2>1, <3>2, <3>3, UpFrame, Zenon
  <2>3. CASE env.id = u /\ env.kind \in TunnelKinds /\ HandleTunnel(env) /\ u \notin closed'
             /\ inRelay'[u] \in {"off", "select", "write"}
    <3>1. Approves(u)
      <4>1. 1 \in DOMAIN toHost /\ toHost[1] = env
        BY <1>1, <2>1, TailPlaces, Zenon DEF env
      <4>2. Has(toHost, env.kind, u)
        BY <2>3, <4>1, Zenon DEF Has, Is
      <4> QED
        BY <2>3, <4>2, Zenon DEF HandshakeInv, Handshake
    <3>2. table[u] # "none" /\ u \notin closed
      BY <1>0, <2>3, <3>1, Zenon DEF TableInv, Approves
    <3>3. recvCh'[u] = Append(recvCh[u], env)
      BY <1>1, <2>3, <3>2, Zenon DEF HandleTunnel, deliver, closeTerminal, shutdown
    <3>4. StreamInv(u, upRelay[u], paySent[u], payEnded, toHost, recvCh[u],
                    inRelay[u], inChunk[u], destGot[u], destFin)
      BY <2>1, <2>3, <3>2, Zenon DEF Up
    <3>5. StreamInv(u, upRelay[u], paySent[u], payEnded, toHost', recvCh'[u],
                    inRelay[u], inChunk[u], destGot[u], destFin)
      BY <1>1, <2>1, <2>3, <3>3, <3>4, StreamDeliver, Zenon DEF env
    <3> QED
      BY <1>3, <2>1, <3>5, Zenon
  <2> QED
    BY <1>4, <2>1, <2>2, <2>3, Zenon
<1>7. CASE HostDecodeError \/ HostLoopEnd \/ CloseTunnels \/ CloseConn
  <2>1. UNCHANGED <<toHost, recvCh, destGot, destFin, inRelay, inChunk>>
    BY <1>7, Zenon DEF HostDecodeError, HostLoopEnd, CloseTunnels, CloseConn, connVars, relayVars, destVars
  <2> QED
    BY <1>0, <1>2, <2>1, UpFrame, Zenon
<1> QED
  BY <1>5, <1>6, <1>7, Zenon DEF HostNext
\* The helper sends.
LEMMA UpHelper ==
  ASSUME TypeOK, HandshakeInv, TableInv, HelperNext, UNCHANGED hostVars, NEW u \in Tunnels, Up(u)
  PROVE  Up(u)'
<1>0. UNCHANGED <<closed, recvCh, inRelay, inChunk, destGot, destFin>>
  BY Zenon DEF hostVars, relayVars, destVars
<1>1. /\ paySent \in [Tunnels -> Nat] /\ upRelay \in [Tunnels -> UpRelayStates]
      /\ handle \in [Tunnels -> HandleStates] /\ payEnded \subseteq Tunnels
  BY Zenon DEF TypeOK
<1>2. paySent[u] \in Nat /\ toHost \in Seq(Envelope) /\ recvCh[u] \in Seq(Envelope) /\ destGot[u] \in Seq(Nat)
  BY Zenon DEF TypeOK
<1>3. \A q : QuietQueue(u, q, q)
  BY Zenon DEF QuietQueue
<1>4. ASSUME NEW t \in Tunnels, HelperTunnelStep(t)
      PROVE  Up(u)'
  <2>1. helperEnd = "open" /\ helperEnd' = "open"
    BY <1>4, Zenon DEF HelperTunnelStep, connVars, ConnectBegin, ConnectSend, ConnectAnswered, ConnectTimeout, ConnectReply, ConnectAbort, ConnectDone, UpRead, UpSend, UpError, UpExit, DownReceive, DownCancelled, DownWrite, DownWriteFails, DownError, DownExit
  <2>2. CASE u = t /\ UpRead(t) /\ upRelay'[u] \in {"send", "eof"}
    <3>1. /\ upRelay[u] = "read" /\ toHost' = toHost
          /\ \/ upRelay'[u] = "send" /\ paySent'[u] = paySent[u] + 1 /\ payEnded' = payEnded
             \/ upRelay'[u] = "eof" /\ paySent' = paySent /\ payEnded' = payEnded \cup {u}
      BY <1>1, <2>2, Zenon DEF UpRead, connVars
    <3>2. u \notin payEnded
      BY <3>1, Zenon DEF Up
    <3>3. ASSUME u \notin closed, inRelay[u] \in {"off", "select", "write"}
          PROVE  StreamInv(u, upRelay'[u], paySent'[u], payEnded', toHost', recvCh[u],
                           inRelay[u], inChunk[u], destGot[u], destFin)
      <4>1. StreamInv(u, upRelay[u], paySent[u], payEnded, toHost, recvCh[u],
                      inRelay[u], inChunk[u], destGot[u], destFin)
        BY <3>3, Zenon DEF Up
      <4>2. upRelay[u] = "read"
        BY <3>1, Zenon
      <4>3. /\ StreamInv(u, "send", paySent[u] + 1, payEnded, toHost, recvCh[u],
                         inRelay[u], inChunk[u], destGot[u], destFin)
            /\ StreamInv(u, "eof", paySent[u], payEnded \cup {u}, toHost, recvCh[u],
                         inRelay[u], inChunk[u], destGot[u], destFin)
        BY <1>2, <4>1, <4>2, StreamRead, Zenon
      <4> QED
        BY <3>1, <4>3, Zenon
    <3> QED
      BY <1>0, <3>1, <3>2, <3>3, Zenon DEF Up
  <2>3. CASE u = t /\ UpSend(t) /\ toHost' # toHost
    <3>1. PICK e : /\ e \in Envelope /\ e.id = u /\ toHost' = Append(toHost, e)
                   /\ UNCHANGED <<paySent, payEnded>>
                   /\ \/ upRelay[u] = "send" /\ upRelay'[u] = "read" /\ e.kind = "TunnelFrame" /\ e.n = paySent[u]
                      \/ upRelay[u] = "eof" /\ upRelay'[u] = "done" /\ e.kind = "WriteClose"
      <4>1. \A kind, n : Env(kind, t, n).id = t /\ Env(kind, t, n).kind = kind /\ Env(kind, t, n).n = n
        BY Zenon DEF Env
      <4>2. Env("TunnelFrame", t, paySent[t]) \in Envelope /\ Env("WriteClose", t, 0) \in Envelope
        BY <1>1, EnvType, Zenon DEF Kinds
      <4>3. CASE upRelay[t] = "send" /\ HelperSend(Env("TunnelFrame", t, paySent[t])) /\ upRelay' = [upRelay EXCEPT ![t] = "read"]
        BY <1>1, <2>3, <4>1, <4>2, <4>3 DEF UpSend, HelperSend, payVars
      <4>4. CASE upRelay[t] = "eof" /\ HelperSend(Env("WriteClose", t, 0)) /\ upRelay' = [upRelay EXCEPT ![t] = "done"]
        BY <1>1, <2>3, <4>1, <4>2, <4>4 DEF UpSend, HelperSend, payVars
      <4> QED
        BY <2>3, <4>3, <4>4, Zenon DEF UpSend, SendTunnelClose, HelperTrySend
    <3>2. ASSUME u \notin closed, inRelay[u] \in {"off", "select", "write"}
          PROVE  StreamInv(u, upRelay'[u], paySent[u], payEnded, toHost', recvCh[u],
                           inRelay[u], inChunk[u], destGot[u], destFin)
      <4>1. StreamInv(u, upRelay[u], paySent[u], payEnded, toHost, recvCh[u],
                      inRelay[u], inChunk[u], destGot[u], destFin)
        BY <3>2, Zenon DEF Up
      <4>2. e \in Envelope /\ e.id = u /\ toHost' = Append(toHost, e)
        BY <3>1, ZenonT(40)
      <4>3. /\ upRelay[u] = "send" /\ e.kind = "TunnelFrame" /\ e.n = paySent[u] =>
                 StreamInv(u, "read", paySent[u], payEnded, toHost', recvCh[u],
                           inRelay[u], inChunk[u], destGot[u], destFin)
            /\ upRelay[u] = "eof" /\ e.kind = "WriteClose" =>
                 StreamInv(u, "done", paySent[u], payEnded, toHost', recvCh[u],
                           inRelay[u], inChunk[u], destGot[u], destFin)
        BY <1>2, <4>1, <4>2, StreamSend, ZenonT(40)
      <4> QED
        BY <3>1, <4>3, Zenon
    <3> QED
      BY <1>0, <3>1, <3>2, Zenon DEF Up
  <2>4. CASE ~(u = t /\ UpRead(t) /\ upRelay'[u] \in {"send", "eof"}) /\ ~(u = t /\ UpSend(t) /\ toHost' # toHost)
    <3>1. QuietQueue(u, toHost, toHost')
      <4>1. CASE toHost' = toHost
        BY <1>3, <4>1, Zenon
      <4>2. CASE UpSend(t) /\ u # t
        <5>1. CASE HelperSend(Env("TunnelFrame", t, paySent[t]))
          BY <1>1, <4>2, <5>1, SendBeside, Zenon DEF Kinds
        <5>2. CASE HelperSend(Env("WriteClose", t, 0))
          BY <4>2, <5>2, SendBeside, Zenon DEF Kinds
        <5> QED
          BY <1>3, <4>2, <5>1, <5>2, Zenon DEF UpSend, SendTunnelClose, HelperTrySend
      <4>3. CASE ConnectSend(t)
        <5>1. HelperSend(Env("ConnectRequest", t, 0)) => QuietQueue(u, toHost, toHost')
          BY SendBeside, Zenon DEF Kinds
        <5> QED
          BY <1>3, <4>3, <5>1, Zenon DEF ConnectSend
      <4>4. CASE ConnectAbort(t) \/ UpError(t) \/ DownError(t)
        <5>1. HelperSend(Env("TerminalClose", t, 0)) => QuietQueue(u, toHost, toHost')
          BY SendBeside, Zenon DEF Kinds
        <5> QED
          BY <1>3, <4>4, <5>1, Zenon DEF ConnectAbort, UpError, DownError, SendTunnelClose, HelperTrySend
      <4> QED
        BY <1>4, <2>4, <4>1, <4>2, <4>3, <4>4, Zenon DEF HelperTunnelStep, connVars, ConnectBegin, ConnectAnswered, ConnectTimeout, ConnectReply, ConnectDone, UpRead, UpExit, DownReceive, DownCancelled, DownWrite, DownWriteFails, DownExit
    <3>2. paySent'[u] = paySent[u] /\ (u \in payEnded' <=> u \in payEnded)
      <4>1. CASE UNCHANGED <<paySent, payEnded>>
        BY <4>1, Zenon
      <4>2. CASE UpRead(t)
        BY <1>1, <2>4, <4>2, Zenon DEF UpRead
      <4> QED
        BY <1>4, <4>1, <4>2, Zenon DEF HelperTunnelStep, payVars, ConnectBegin, ConnectSend, ConnectAnswered, ConnectTimeout, ConnectReply, ConnectAbort, ConnectDone, UpSend, UpError, UpExit, DownReceive, DownCancelled, DownWrite, DownWriteFails, DownError, DownExit
    <3>3. /\ \/ upRelay'[u] = upRelay[u]
             \/ upRelay'[u] \notin {"read", "send", "eof"}
             \/ upRelay[u] = "off" /\ upRelay'[u] = "read"
          /\ upRelay'[u] = "off" => upRelay[u] = "off"
      <4>1. CASE upRelay' = upRelay
        BY <4>1, Zenon
      <4>2. CASE u # t
        <5>1. upRelay'[u] = upRelay[u]
          BY <1>1, <1>4, <4>2, Zenon DEF HelperTunnelStep, helperRelayVars, ConnectBegin, ConnectSend, ConnectAnswered, ConnectTimeout, ConnectReply, ConnectAbort, ConnectDone, UpRead, UpSend, UpError, UpExit, DownReceive, DownCancelled, DownWrite, DownWriteFails, DownError, DownExit
        <5> QED
          BY <5>1, Zenon
      <4>3. CASE u = t /\ (UpRead(t) \/ UpError(t) \/ UpExit(t))
        BY <1>1, <2>4, <4>3, Zenon DEF UpRead, UpError, UpExit
      <4>4. CASE u = t /\ UpSend(t)
        <5>1. toHost' = toHost
          BY <2>4, <4>4, Zenon
        <5>2. \A e : toHost' # Append(toHost, e)
          BY <1>2, <5>1
        <5> QED
          BY <1>1, <4>4, <5>2, Zenon DEF UpSend, HelperSend
      <4>5. CASE u = t /\ ConnectReply(t)
        <5>1. handle[u] = "reply" => upRelay[u] = "off"
          BY Zenon DEF TableInv
        <5> QED
          BY <1>1, <4>5, <5>1, Zenon DEF ConnectReply
      <4> QED
        BY <1>4, <4>1, <4>2, <4>3, <4>4, <4>5, Zenon DEF HelperTunnelStep, helperRelayVars, ConnectBegin, ConnectSend, ConnectAnswered, ConnectTimeout, ConnectAbort, ConnectDone, DownReceive, DownCancelled, DownWrite, DownWriteFails, DownError, DownExit
    <3> QED
      BY <1>0, <2>1, <3>1, <3>2, <3>3, UpFrame, Zenon
  <2> QED
    BY <2>2, <2>3, <2>4, Zenon
<1>5. CASE HelperDecode
  <2>1. UNCHANGED <<toHost, upRelay, paySent, payEnded, helperEnd>>
    BY <1>5, Zenon DEF HelperDecode, helperRelayVars, payVars
  <2> QED
    BY <1>0, <1>3, <2>1, UpFrame, Zenon
<1>6. CASE HelperExit
  <2>1. UNCHANGED <<toHost, paySent, payEnded>> /\ helperEnd' = "closed" /\ upRelay'[u] = "off"
    BY <1>6, Zenon DEF HelperExit, payVars
  <2> QED
    BY <1>0, <1>3, <2>1, UpFrame, Zenon
<1> QED
  BY <1>4, <1>5, <1>6, Zenon DEF HelperNext
-----------------------------------------------------------------------------
\* From the destination to the payload.

\* A step that neither reads, moves nor writes a chunk or the end of u's stream.
LEMMA DownFrame ==
  ASSUME TypeOK, NEW u \in Tunnels, Down(u), shut \subseteq shut',
         \/ outRelay'[u] = outRelay[u]
         \/ outRelay'[u] \notin {"read", "send", "eof"}
         \/ outRelay[u] = "off" /\ outRelay'[u] = "read",
         outRelay'[u] = "off" => outRelay[u] = "off",
         destSent'[u] = destSent[u], u \in destEnded' <=> u \in destEnded,
         QuietQueue(u, toHelper, toHelper'),
         u \notin shut' => tunnelCh'[u] = tunnelCh[u],
         payGot'[u] = payGot[u], u \in payFin' <=> u \in payFin,
         u \notin shut' /\ downRelay'[u] \in {"off", "select", "write"} =>
           \/ downRelay'[u] = downRelay[u] /\ downChunk'[u] = downChunk[u]
           \/ downRelay[u] \in {"off", "select"} /\ downRelay'[u] # "write"
  PROVE  Down(u)'
<1>1. /\ outRelay'[u] = "off" => destSent'[u] = 0 /\ u \notin destEnded'
      /\ u \in destEnded' => outRelay'[u] \notin {"read", "send"}
  BY Zenon DEF Down
<1>2. ASSUME u \notin shut', downRelay'[u] \in {"off", "select", "write"}
      PROVE  StreamInv(u, outRelay'[u], destSent'[u], destEnded', toHelper', tunnelCh'[u],
                       downRelay'[u], downChunk'[u], payGot'[u], payFin')
  <2>1. StreamInv(u, outRelay[u], destSent[u], destEnded, toHelper, tunnelCh[u],
                      downRelay[u], downChunk[u], payGot[u], payFin)
    BY <1>2, Zenon DEF Down
  <2>2. destSent[u] \in Nat /\ toHelper \in Seq(Envelope) /\ tunnelCh[u] \in Seq(Envelope) /\ payGot[u] \in Seq(Nat)
    BY Zenon DEF TypeOK
  <2>3. \/ outRelay'[u] = outRelay[u]
        \/ outRelay'[u] \notin {"read", "send", "eof"}
        \/ outRelay[u] = "off" /\ outRelay'[u] = "read" /\ destSent[u] = 0 /\ u \notin destEnded
    BY Zenon DEF Down
  <2>4. \/ downRelay'[u] = downRelay[u] /\ downChunk'[u] = downChunk[u]
        \/ downRelay[u] # "write" /\ downRelay'[u] # "write"
    BY <1>2, Zenon
  <2>5. QuietStep(u, outRelay[u], outRelay'[u], destSent[u], destEnded, destEnded', toHelper, toHelper', downRelay[u], downRelay'[u], downChunk[u], downChunk'[u], payFin, payFin')
    BY <2>3, <2>4, Zenon DEF QuietStep
  <2>6. StreamInv(u, outRelay'[u], destSent[u], destEnded', toHelper', tunnelCh[u],
                  downRelay'[u], downChunk'[u], payGot[u], payFin')
    BY <2>1, <2>2, <2>5, StreamFrame, Zenon
  <2> QED
    BY <1>2, <2>6, Zenon
<1> QED
  BY <1>1, <1>2, Zenon DEF Down

\* The host sends.
LEMMA DownHost ==
  ASSUME TypeOK, HandshakeInv, HostNext, UNCHANGED helperVars, NEW u \in Tunnels, Down(u)
  PROVE  Down(u)'
<1>0. UNCHANGED <<shut, tunnelCh, downRelay, downChunk, payGot, payFin>>
  BY Zenon DEF helperVars, helperRelayVars, payVars
<1>1. destSent \in [Tunnels -> Nat] /\ outRelay \in [Tunnels -> OutRelayStates] /\ destEnded \subseteq Tunnels
  BY Zenon DEF TypeOK
<1>2. destSent[u] \in Nat /\ toHelper \in Seq(Envelope) /\ tunnelCh[u] \in Seq(Envelope) /\ payGot[u] \in Seq(Nat)
  BY Zenon DEF TypeOK
<1>3. \A q : QuietQueue(u, q, q)
  BY Zenon DEF QuietQueue
<1>4. ASSUME NEW t \in Tunnels, HostTunnelStep(t)
      PROVE  Down(u)'
  <2>2. CASE u = t /\ OutRead(t) /\ outRelay'[u] \in {"send", "eof"}
    <3>1. /\ outRelay[u] = "read" /\ toHelper' = toHelper
          /\ \/ outRelay'[u] = "send" /\ destSent'[u] = destSent[u] + 1 /\ destEnded' = destEnded
             \/ outRelay'[u] = "eof" /\ destSent' = destSent /\ destEnded' = destEnded \cup {u}
      BY <1>1, <2>2, Zenon DEF OutRead, connVars
    <3>2. u \notin destEnded
      BY <3>1, Zenon DEF Down
    <3>3. ASSUME u \notin shut, downRelay[u] \in {"off", "select", "write"}
          PROVE  StreamInv(u, outRelay'[u], destSent'[u], destEnded', toHelper', tunnelCh[u],
                           downRelay[u], downChunk[u], payGot[u], payFin)
      <4>1. StreamInv(u, outRelay[u], destSent[u], destEnded, toHelper, tunnelCh[u],
                      downRelay[u], downChunk[u], payGot[u], payFin)
        BY <3>3, Zenon DEF Down
      <4>2. outRelay[u] = "read"
        BY <3>1, Zenon
      <4>3. /\ StreamInv(u, "send", destSent[u] + 1, destEnded, toHelper, tunnelCh[u],
                         downRelay[u], downChunk[u], payGot[u], payFin)
            /\ StreamInv(u, "eof", destSent[u], destEnded \cup {u}, toHelper, tunnelCh[u],
                         downRelay[u], downChunk[u], payGot[u], payFin)
        BY <1>2, <4>1, <4>2, StreamRead, Zenon
      <4> QED
        BY <3>1, <4>3, Zenon
    <3> QED
      BY <1>0, <3>1, <3>2, <3>3, Zenon DEF Down
  <2>3. CASE u = t /\ OutSend(t) /\ toHelper' # toHelper
    <3>1. PICK e : /\ e \in Envelope /\ e.id = u /\ toHelper' = Append(toHelper, e)
                   /\ UNCHANGED <<destSent, destEnded>>
                   /\ \/ outRelay[u] = "send" /\ outRelay'[u] = "read" /\ e.kind = "TunnelFrame" /\ e.n = destSent[u]
                      \/ outRelay[u] = "eof" /\ outRelay'[u] = "done" /\ e.kind = "WriteClose"
      <4>1. \A kind, n : Env(kind, t, n).id = t /\ Env(kind, t, n).kind = kind /\ Env(kind, t, n).n = n
        BY Zenon DEF Env
      <4>2. Env("TunnelFrame", t, destSent[t]) \in Envelope /\ Env("WriteClose", t, 0) \in Envelope
        BY <1>1, EnvType, Zenon DEF Kinds
      <4>3. CASE outRelay[t] = "send" /\ HostSend(Env("TunnelFrame", t, destSent[t])) /\ outRelay' = [outRelay EXCEPT ![t] = "read"]
        BY <1>1, <2>3, <4>1, <4>2, <4>3 DEF OutSend, HostSend, destVars
      <4>4. CASE outRelay[t] = "eof" /\ HostSend(Env("WriteClose", t, 0)) /\ outRelay' = [outRelay EXCEPT ![t] = "done"]
        BY <1>1, <2>3, <4>1, <4>2, <4>4 DEF OutSend, HostSend, destVars
      <4> QED
        BY <2>3, <4>3, <4>4, Zenon DEF OutSend
    <3>2. ASSUME u \notin shut, downRelay[u] \in {"off", "select", "write"}
          PROVE  StreamInv(u, outRelay'[u], destSent[u], destEnded, toHelper', tunnelCh[u],
                           downRelay[u], downChunk[u], payGot[u], payFin)
      <4>1. StreamInv(u, outRelay[u], destSent[u], destEnded, toHelper, tunnelCh[u],
                      downRelay[u], downChunk[u], payGot[u], payFin)
        BY <3>2, Zenon DEF Down
      <4>2. e \in Envelope /\ e.id = u /\ toHelper' = Append(toHelper, e)
        BY <3>1, ZenonT(40)
      <4>3. /\ outRelay[u] = "send" /\ e.kind = "TunnelFrame" /\ e.n = destSent[u] =>
                 StreamInv(u, "read", destSent[u], destEnded, toHelper', tunnelCh[u],
                           downRelay[u], downChunk[u], payGot[u], payFin)
            /\ outRelay[u] = "eof" /\ e.kind = "WriteClose" =>
                 StreamInv(u, "done", destSent[u], destEnded, toHelper', tunnelCh[u],
                           downRelay[u], downChunk[u], payGot[u], payFin)
        BY <1>2, <4>1, <4>2, StreamSend, ZenonT(40)
      <4> QED
        BY <3>1, <4>3, Zenon
    <3> QED
      BY <1>0, <3>1, <3>2, Zenon DEF Down
  <2>4. CASE ~(u = t /\ OutRead(t) /\ outRelay'[u] \in {"send", "eof"}) /\ ~(u = t /\ OutSend(t) /\ toHelper' # toHelper)
    <3>1. QuietQueue(u, toHelper, toHelper')
      <4>1. CASE toHelper' = toHelper
        BY <1>3, <4>1, Zenon
      <4>2. CASE OutSend(t) /\ u # t
        <5>1. CASE HostSend(Env("TunnelFrame", t, destSent[t]))
          BY <1>1, <4>2, <5>1, SendBeside, Zenon DEF Kinds
        <5>2. CASE HostSend(Env("WriteClose", t, 0))
          BY <4>2, <5>2, SendBeside, Zenon DEF Kinds
        <5> QED
          BY <1>3, <4>2, <5>1, <5>2, Zenon DEF OutSend
      <4>3. CASE ConnectRefuse(t) \/ ConnectRespond(t)
        <5>1. HostSend(Env("ConnectResponse", t, Refused)) => QuietQueue(u, toHelper, toHelper')
          BY SendBeside, Zenon DEF Kinds, Refused
        <5>2. HostSend(Env("ConnectResponse", t, Approved)) => QuietQueue(u, toHelper, toHelper')
          BY SendBeside, Zenon DEF Kinds, Approved
        <5> QED
          BY <1>3, <4>3, <5>1, <5>2, Zenon DEF ConnectRefuse, ConnectRespond
      <4>4. CASE OutError(t) \/ InError(t) \/ OverflowSend(t)
        <5>1. HostSend(Env("TerminalClose", t, 0)) => QuietQueue(u, toHelper, toHelper')
          BY SendBeside, Zenon DEF Kinds
        <5> QED
          BY <1>3, <4>4, <5>1, Zenon DEF OutError, InError, OverflowSend, sendTerminalClose
      <4> QED
        BY <1>4, <2>4, <4>1, <4>2, <4>3, <4>4, Zenon DEF HostTunnelStep, connVars, ConnectRegister, ConnectActivate, OutRead, OutExit, InReceive, InClosed, InWrite, InExit
    <3>2. destSent'[u] = destSent[u] /\ (u \in destEnded' <=> u \in destEnded)
      <4>1. CASE UNCHANGED <<destSent, destEnded>>
        BY <4>1, Zenon
      <4>2. CASE OutRead(t)
        BY <1>1, <2>4, <4>2, Zenon DEF OutRead
      <4> QED
        BY <1>4, <4>1, <4>2, Zenon DEF HostTunnelStep, destVars, ConnectRefuse, ConnectRegister, ConnectRespond, ConnectActivate, OutSend, OutError, OutExit, InReceive, InClosed, InWrite, InError, InExit, OverflowSend
    <3>3. /\ \/ outRelay'[u] = outRelay[u]
             \/ outRelay'[u] \notin {"read", "send", "eof"}
             \/ outRelay[u] = "off" /\ outRelay'[u] = "read"
          /\ outRelay'[u] = "off" => outRelay[u] = "off"
      <4>1. CASE outRelay' = outRelay
        BY <4>1, Zenon
      <4>2. CASE u # t
        <5>1. outRelay'[u] = outRelay[u]
          BY <1>1, <1>4, <4>2, Zenon DEF HostTunnelStep, relayVars, start, ConnectRefuse, ConnectRegister, ConnectRespond, ConnectActivate, OutRead, OutSend, OutError, OutExit, InReceive, InClosed, InWrite, InError, InExit, OverflowSend
        <5> QED
          BY <5>1, Zenon
      <4>3. CASE u = t /\ (OutRead(t) \/ OutError(t) \/ OutExit(t))
        BY <1>1, <2>4, <4>3, Zenon DEF OutRead, OutError, OutExit
      <4>4. CASE u = t /\ OutSend(t)
        <5>1. toHelper' = toHelper
          BY <2>4, <4>4, Zenon
        <5>2. \A e : toHelper' # Append(toHelper, e)
          BY <1>2, <5>1
        <5> QED
          BY <1>1, <4>4, <5>2, Zenon DEF OutSend, HostSend
      <4>5. CASE u = t /\ ConnectActivate(t)
        <5>1. connect[u] = "activate" => outRelay[u] = "off"
          BY Zenon DEF HandshakeInv, Handshake
        <5> QED
          BY <1>1, <4>5, <5>1, Zenon DEF ConnectActivate, start
      <4> QED
        BY <1>4, <4>1, <4>2, <4>3, <4>4, <4>5, Zenon DEF HostTunnelStep, relayVars, ConnectRefuse, ConnectRegister, ConnectRespond, InReceive, InClosed, InWrite, InError, InExit, OverflowSend
    <3> QED
      BY <1>0, <3>1, <3>2, <3>3, DownFrame, Zenon
  <2> QED
    BY <2>2, <2>3, <2>4, Zenon
<1>5. CASE HostDecode \/ HostDecodeError \/ HostLoopEnd \/ CloseTunnels \/ CloseConn
  <2>1. UNCHANGED <<toHelper, outRelay, destSent, destEnded>>
    BY <1>5, Zenon DEF HostDecode, HostDecodeError, HostLoopEnd, CloseTunnels, CloseConn, connVars, relayVars, destVars
  <2> QED
    BY <1>0, <1>3, <2>1, DownFrame, Zenon
<1> QED
  BY <1>4, <1>5, Zenon DEF HostNext
\* The helper receives.
LEMMA DownHelper ==
  ASSUME TypeOK, HandshakeInv, TableInv, HelperNext, UNCHANGED hostVars, NEW u \in Tunnels, Down(u)
  PROVE  Down(u)'
<1>0. UNCHANGED <<outRelay, destSent, destEnded>>
  BY Zenon DEF hostVars, relayVars, destVars
<1>1. /\ tunnelCh \in [Tunnels -> Seq(Envelope)] /\ payGot \in [Tunnels -> Seq(Nat)]
      /\ downRelay \in [Tunnels -> DownRelayStates] /\ downChunk \in [Tunnels -> Nat]
  BY Zenon DEF TypeOK
<1>2. destSent[u] \in Nat /\ toHelper \in Seq(Envelope) /\ tunnelCh[u] \in Seq(Envelope) /\ payGot[u] \in Seq(Nat)
  BY ZenonT(40) DEF TypeOK
<1>3. \A q : QuietQueue(u, q, q)
  BY Zenon DEF QuietQueue
<1>4. shut \subseteq shut'
  BY ZenonT(40) DEF TypeOK, HelperNext, HelperTunnelStep, HelperDecode, HelperExit, ConnectFails, helperRelayVars, ConnectBegin, ConnectSend, ConnectAnswered, ConnectTimeout, ConnectReply, ConnectAbort, ConnectDone, UpRead, UpSend, UpError, UpExit, DownReceive, DownCancelled, DownWrite, DownWriteFails, DownError, DownExit
<1>5. ASSUME StreamInv(u, outRelay[u], destSent[u], destEnded, toHelper', tunnelCh'[u],
                       downRelay'[u], downChunk'[u], payGot'[u], payFin')
      PROVE  Down(u)'
  BY <1>0, <1>5, Zenon DEF Down
<1>6. ASSUME u \in shut' \/ downRelay'[u] \notin {"off", "select", "write"}
      PROVE  Down(u)'
  BY <1>0, <1>6, Zenon DEF Down
<1>7. ASSUME NEW t \in Tunnels, HelperTunnelStep(t)
      PROVE  Down(u)'
  <2>1. CASE u = t /\ DownReceive(t) /\ downRelay'[u] \in {"off", "select", "write"} /\ u \notin shut'
    <3> DEFINE env == Head(tunnelCh[u])
    <3>1. /\ downRelay[u] = "select" /\ tunnelCh[u] # <<>> /\ tunnelCh'[u] = Tail(tunnelCh[u])
          /\ toHelper' = toHelper /\ payGot' = payGot /\ u \notin shut
          /\ env.kind = "TunnelFrame" /\ downRelay'[u] = "write" /\ downChunk'[u] = env.n /\ payFin' = payFin
      BY <1>1, <1>4, <2>1, Zenon DEF DownReceive, connVars
    <3> HIDE DEF env
    <3>2. StreamInv(u, outRelay[u], destSent[u], destEnded, toHelper, tunnelCh[u],
                      downRelay[u], downChunk[u], payGot[u], payFin)
      BY <3>1, Zenon DEF Down
    <3>3. downRelay[u] # "write"
      BY <3>1, Zenon
    <3>4. StreamInv(u, outRelay[u], destSent[u], destEnded, toHelper, tunnelCh'[u],
                      "write", env.n, payGot[u], payFin)
      BY <1>2, <3>1, <3>2, <3>3, StreamTake, Zenon DEF env
    <3> QED
      BY <1>5, <3>1, <3>4, Zenon
  <2>2. CASE u = t /\ DownWrite(t)
    <3>1. /\ downRelay[u] = "write" /\ downRelay'[u] # "write" /\ payGot'[u] = Append(payGot[u], downChunk[u])
          /\ u \notin shut /\ UNCHANGED <<toHelper, tunnelCh, payFin>>
      BY <1>1, <2>2, Zenon DEF DownWrite, connVars
    <3>2. StreamInv(u, outRelay[u], destSent[u], destEnded, toHelper, tunnelCh[u],
                      "write", downChunk[u], payGot[u], payFin)
      BY <3>1, Zenon DEF Down
    <3>3. downRelay'[u] # "write"
      BY <3>1, Zenon
    <3>4. StreamInv(u, outRelay[u], destSent[u], destEnded, toHelper, tunnelCh[u],
                      downRelay'[u], downChunk'[u], Append(payGot[u], downChunk[u]), payFin)
      BY <1>2, <3>2, <3>3, StreamWrite, Zenon
    <3> QED
      BY <1>5, <3>1, <3>4, Zenon
  <2>3. CASE ~(u = t /\ (DownReceive(t) \/ DownWrite(t)))
    <3>1. toHelper' = toHelper
      BY <1>7, Zenon DEF HelperTunnelStep, connVars, ConnectBegin, ConnectSend, ConnectAnswered, ConnectTimeout, ConnectReply, ConnectAbort, ConnectDone, UpRead, UpSend, UpError, UpExit, DownReceive, DownCancelled, DownWrite, DownWriteFails, DownError, DownExit
    <3>2. tunnelCh'[u] = tunnelCh[u] /\ payGot'[u] = payGot[u] /\ (u \in payFin' <=> u \in payFin)
      BY <1>1, <1>7, <2>3, Zenon DEF HelperTunnelStep, payVars, ConnectBegin, ConnectSend, ConnectAnswered, ConnectTimeout, ConnectReply, ConnectAbort, ConnectDone, UpRead, UpSend, UpError, UpExit, DownReceive, DownCancelled, DownWrite, DownWriteFails, DownError, DownExit
    <3>3. CASE u # t
      <4>1. downRelay'[u] = downRelay[u] /\ downChunk'[u] = downChunk[u]
        BY <1>1, <1>7, <3>3, Zenon DEF HelperTunnelStep, helperRelayVars, ConnectBegin, ConnectSend, ConnectAnswered, ConnectTimeout, ConnectReply, ConnectAbort, ConnectDone, UpRead, UpSend, UpError, UpExit, DownReceive, DownCancelled, DownWrite, DownWriteFails, DownError, DownExit
      <4> QED
        BY <1>0, <1>3, <1>4, <3>1, <3>2, <4>1, DownFrame, Zenon
    <3>4. CASE u = t
      <4>1. CASE ConnectReply(t)
        <5>1. downRelay[u] = "off"
          BY <3>4, <4>1, Zenon DEF ConnectReply, TableInv
        <5>2. downRelay'[u] # "write"
          BY <1>1, <3>4, <4>1, <5>1, Zenon DEF ConnectReply
        <5> QED
          BY <1>0, <1>3, <1>4, <3>1, <3>2, <5>1, <5>2, DownFrame, Zenon
      <4>2. CASE DownCancelled(t) \/ DownWriteFails(t) \/ DownError(t) \/ DownExit(t)
        <5>1. downRelay'[u] \notin {"off", "select", "write"}
          BY <1>1, <3>4, <4>2, Zenon DEF DownCancelled, DownWriteFails, DownError, DownExit
        <5> QED
          BY <1>6, <5>1, Zenon
      <4>3. CASE UNCHANGED <<downRelay, downChunk>>
        BY <1>0, <1>3, <1>4, <3>1, <3>2, <4>3, DownFrame, Zenon
      <4> QED
        BY <1>7, <2>3, <3>4, <4>1, <4>2, <4>3, Zenon DEF HelperTunnelStep, helperRelayVars, ConnectBegin, ConnectSend, ConnectAnswered, ConnectTimeout, ConnectReply, ConnectAbort, ConnectDone, UpRead, UpSend, UpError, UpExit, DownReceive, DownCancelled, DownWrite, DownWriteFails, DownError, DownExit
    <3> QED
      BY <3>3, <3>4, Zenon
  <2> QED
    BY <1>6, <2>1, <2>2, <2>3, Zenon
<1>8. CASE HelperDecode
  <2> DEFINE env == Head(toHelper)
  <2>1. /\ toHelper # <<>> /\ toHelper' = Tail(toHelper) /\ env \in Envelope /\ env.id \in Tunnels
        /\ UNCHANGED <<downRelay, downChunk, payGot, payFin, shut>>
        /\ \/ env.kind = "ConnectResponse" /\ UNCHANGED tunnelCh
           \/ env.kind \in TunnelKinds /\ DeliverTunnel(env)
    BY <1>2, <1>8, TakeType, Zenon DEF HelperDecode, helperRelayVars, payVars, deliverResponse, DeliverTunnel
  <2> HIDE DEF env
  <2>2. CASE env.id # u \/ env.kind = "ConnectResponse"
    <3>1. Beside(u, env)
      BY <2>2, Zenon DEF Beside, Is
    <3>2. QuietQueue(u, toHelper, toHelper')
      BY <2>1, <3>1, Zenon DEF QuietQueue, env
    <3>3. tunnelCh'[u] = tunnelCh[u]
      BY <1>1, <2>1, <2>2, Zenon DEF DeliverTunnel, TunnelKinds
    <3> QED
      BY <1>0, <1>4, <2>1, <3>2, <3>3, DownFrame, Zenon
  <2>3. CASE env.id = u /\ env.kind \in TunnelKinds /\ DeliverTunnel(env) /\ u \notin shut'
             /\ downRelay'[u] \in {"off", "select", "write"}
    <3>1. Approves(u)
      <4>1. 1 \in DOMAIN toHelper /\ toHelper[1] = env
        BY <1>2, <2>1, TailPlaces, Zenon DEF env
      <4>2. Has(toHelper, env.kind, u)
        BY <2>3, <4>1, Zenon DEF Has, Is
      <4> QED
        BY <2>3, <4>2, Zenon DEF HandshakeInv, Handshake
    <3>2. u \in registered
      <4>1. handle[u] # "idle"
        BY <3>1, Zenon DEF HandshakeInv, Handshake, Approves
      <4> QED
        BY <2>1, <2>3, <4>1, Zenon DEF TableInv
    <3>3. tunnelCh'[u] = Append(tunnelCh[u], env)
      BY <1>1, <2>3, <3>2, Zenon DEF DeliverTunnel
    <3>4. StreamInv(u, outRelay[u], destSent[u], destEnded, toHelper, tunnelCh[u],
                      downRelay[u], downChunk[u], payGot[u], payFin)
      BY <2>1, <2>3, Zenon DEF Down
    <3>5. StreamInv(u, outRelay[u], destSent[u], destEnded, toHelper', tunnelCh'[u],
                      downRelay[u], downChunk[u], payGot[u], payFin)
      BY <1>2, <2>1, <2>3, <3>3, <3>4, StreamDeliver, Zenon DEF env
    <3> QED
      BY <1>5, <2>1, <3>5, Zenon
  <2> QED
    BY <1>6, <2>1, <2>2, <2>3, Zenon
<1>9. CASE HelperExit
  <2>1. u \in shut'
    BY <1>9, Zenon DEF HelperExit
  <2> QED
    BY <1>6, <2>1, Zenon
<1> QED
  BY <1>7, <1>8, <1>9, Zenon DEF HelperNext

LEMMA StreamsInit == Init => StreamsInv
<1> SUFFICES ASSUME Init, NEW t \in Tunnels PROVE Up(t) /\ Down(t)
  BY Zenon DEF StreamsInv
<1> DEFINE Empty(r) == StreamInv(t, "off", 0, {}, <<>>, <<>>, r, 0, <<>>, {})
<1>1. Empty("off")
  <2>1. /\ Numbered(<<>>, "TunnelFrame", t, 0, 0) /\ Len(<<>>) = 0 /\ \A i \in DOMAIN <<>> : FALSE
        /\ 0 \in 0 .. 0
    BY DEF Numbered
  <2>2. \A kind, other : ~Has(<<>>, kind, t) /\ Before(<<>>, kind, other, t)
    BY EmptyQueue, Zenon
  <2> QED
    BY <2>1, <2>2, Zenon DEF StreamInv
<1> HIDE DEF Empty
<1>2. /\ upRelay[t] = "off" /\ paySent[t] = 0 /\ payEnded = {} /\ toHost = <<>> /\ recvCh[t] = <<>>
      /\ inRelay[t] = "off" /\ inChunk[t] = 0 /\ destGot[t] = <<>> /\ destFin = {}
      /\ outRelay[t] = "off" /\ destSent[t] = 0 /\ destEnded = {} /\ toHelper = <<>> /\ tunnelCh[t] = <<>>
      /\ downRelay[t] = "off" /\ downChunk[t] = 0 /\ payGot[t] = <<>> /\ payFin = {}
  BY Zenon DEF Init, ConnInit, HostInit, HelperInit
<1> QED
  BY <1>1, <1>2, Zenon DEF Empty, Up, Down

LEMMA StreamsNext ==
  TypeOK /\ HandshakeInv /\ TableInv /\ StreamsInv /\ [Next]_vars => StreamsInv'
<1> SUFFICES ASSUME TypeOK, HandshakeInv, TableInv, StreamsInv, [Next]_vars, NEW u \in Tunnels
             PROVE  Up(u)' /\ Down(u)'
  BY Zenon DEF StreamsInv
<1>1. Up(u) /\ Down(u)
  BY Zenon DEF StreamsInv
<1>2. CASE UNCHANGED vars
  BY <1>1, <1>2, Zenon DEF Up, Down, vars, connVars, hostVars, helperVars, helperRelayVars, relayVars, destVars, payVars
<1>3. CASE Next
  BY <1>1, <1>3, UpHost, UpHelper, DownHost, DownHelper, Zenon DEF Next
<1> QED
  BY <1>2, <1>3, Zenon
-----------------------------------------------------------------------------
\* The refinement.

\* The two directions of every tunnel, as one function and as one set.
Pairs == Tunnels \X {"up", "down"}

Both(f, g) == [s \in Pairs |-> IF s[2] = "up" THEN f[s[1]] ELSE g[s[1]]]

Marked(A, B) == (A \X {"up"}) \cup (B \X {"down"})

LEMMA Directions ==
  ASSUME NEW t \in Tunnels
  PROVE  /\ <<t, "up">> \in Pairs /\ <<t, "down">> \in Pairs
         /\ \A s \in Pairs : /\ s[1] \in Tunnels /\ s[2] \in {"up", "down"}
                             /\ s = <<t, "up">> <=> s[1] = t /\ s[2] = "up"
                             /\ s = <<t, "down">> <=> s[1] = t /\ s[2] = "down"
  BY DEF Pairs

LEMMA MarkedParts ==
  ASSUME NEW A, NEW B, NEW t \in Tunnels
  PROVE  /\ <<t, "up">> \in Marked(A, B) <=> t \in A
         /\ <<t, "down">> \in Marked(A, B) <=> t \in B
  BY Zenon DEF Marked

allSent == Both(paySent, destSent)
allEnded == Marked(payEnded, destEnded)
allGot == Both(destGot, payGot)
allFin == Marked(destFin, payFin)

\* The actions of TunnelStream under the mapping.
LEMMA StreamActions ==
  ASSUME NEW s \in Pairs
  PROVE  /\ s \notin allEnded /\ allSent' = [allSent EXCEPT ![s] = allSent[s] + 1]
           /\ allEnded' = allEnded /\ allGot' = allGot /\ allFin' = allFin
             => Stream!Next
         /\ allEnded' = allEnded \cup {s} /\ allSent' = allSent /\ allGot' = allGot /\ allFin' = allFin
             => Stream!Next
         /\ s \notin allFin /\ Len(allGot[s]) < allSent[s]
           /\ allGot' = [allGot EXCEPT ![s] = Append(allGot[s], Len(allGot[s]) + 1)]
           /\ allSent' = allSent /\ allEnded' = allEnded /\ allFin' = allFin
             => Stream!Next
         /\ s \in allEnded /\ Len(allGot[s]) = allSent[s] /\ allFin' = allFin \cup {s}
           /\ allSent' = allSent /\ allEnded' = allEnded /\ allGot' = allGot
             => Stream!Next
<1> USE DEF allSent, allEnded, allGot, allFin, Both, Marked, Pairs
<1>1. Stream!Send(s) \/ Stream!End(s) \/ Stream!Receive(s) \/ Stream!Finish(s) => Stream!Next
  BY Zenon DEF Stream!Next
<1>2. s \notin allEnded /\ allSent' = [allSent EXCEPT ![s] = allSent[s] + 1]
        /\ allEnded' = allEnded /\ allGot' = allGot /\ allFin' = allFin
          => Stream!Send(s)
  BY Zenon DEF Stream!Send
<1>3. allEnded' = allEnded \cup {s} /\ allSent' = allSent /\ allGot' = allGot /\ allFin' = allFin
          => Stream!End(s)
  BY Zenon DEF Stream!End
<1>4. s \notin allFin /\ Len(allGot[s]) < allSent[s]
        /\ allGot' = [allGot EXCEPT ![s] = Append(allGot[s], Len(allGot[s]) + 1)]
        /\ allSent' = allSent /\ allEnded' = allEnded /\ allFin' = allFin
          => Stream!Receive(s)
  BY Zenon DEF Stream!Receive
<1>5. s \in allEnded /\ Len(allGot[s]) = allSent[s] /\ allFin' = allFin \cup {s}
        /\ allSent' = allSent /\ allEnded' = allEnded /\ allGot' = allGot
          => Stream!Finish(s)
  BY Zenon DEF Stream!Finish
<1> HIDE DEF allSent, allEnded, allGot, allFin
<1> QED
  BY <1>1, <1>2, <1>3, <1>4, <1>5, Zenon

LEMMA StreamStutter ==
  UNCHANGED <<destVars, payVars>> => UNCHANGED Stream!streamVars
  BY Zenon DEF Stream!streamVars, destVars, payVars

\* The steps of the host: it reads from the destination, and what it has received
\* from the helper it writes to the destination.
LEMMA StreamHost ==
  ASSUME TypeOK, StreamsInv, HostNext, UNCHANGED helperVars
  PROVE  Stream!Next \/ UNCHANGED Stream!streamVars
<1>0. UNCHANGED payVars
  BY Zenon DEF helperVars
<1>1. /\ paySent \in [Tunnels -> Nat] /\ destSent \in [Tunnels -> Nat]
      /\ destGot \in [Tunnels -> Seq(Nat)] /\ payGot \in [Tunnels -> Seq(Nat)]
  BY Zenon DEF TypeOK
<1>2. UNCHANGED destVars => UNCHANGED Stream!streamVars
  BY <1>0, StreamStutter, Zenon
<1>3. ASSUME NEW t \in Tunnels, HostTunnelStep(t), ~UNCHANGED destVars
      PROVE  Stream!Next
  <2>0. /\ <<t, "up">> \in Pairs /\ <<t, "down">> \in Pairs
        /\ allSent[<<t, "up">>] = paySent[t] /\ allSent[<<t, "down">>] = destSent[t]
        /\ allGot[<<t, "up">>] = destGot[t] /\ allGot[<<t, "down">>] = payGot[t]
    <3>1. <<t, "up">> \in Pairs /\ <<t, "down">> \in Pairs
      BY Zenon DEF Pairs
    <3>2. <<t, "up">>[1] = t /\ <<t, "up">>[2] = "up" /\ <<t, "down">>[1] = t /\ <<t, "down">>[2] = "down"
      BY Zenon
    <3> QED
      BY <3>1, <3>2, Zenon DEF allSent, allGot, Both
  <2>1. Up(t) /\ Down(t)
    BY Zenon DEF StreamsInv
  <2>5. DOMAIN paySent = Tunnels /\ DOMAIN destSent = Tunnels /\ DOMAIN destGot = Tunnels /\ DOMAIN payGot = Tunnels
    BY <1>1, Zenon
  <2>6. \A s \in Pairs : /\ s[1] \in Tunnels /\ s[2] \in {"up", "down"}
                         /\ s = <<t, "up">> <=> s[1] = t /\ s[2] = "up"
                         /\ s = <<t, "down">> <=> s[1] = t /\ s[2] = "down"
    BY Directions, Zenon
  <2>2. CASE OutRead(t)
    <3>1. UNCHANGED <<allGot, allFin>>
      BY <1>0, <2>2, Zenon DEF OutRead, payVars, allGot, allFin
    <3>2. CASE destSent' = [destSent EXCEPT ![t] = destSent[t] + 1] /\ UNCHANGED destEnded
      <4>1. t \notin destEnded
        BY <2>1, <2>2, Zenon DEF OutRead, Down
      <4>2. <<t, "down">> \notin allEnded
        BY <4>1, MarkedParts, Zenon DEF allEnded
      <4>3. allSent' = [allSent EXCEPT ![<<t, "down">>] = destSent[t] + 1]
        <5>1. Both(paySent, [destSent EXCEPT ![t] = destSent[t] + 1])
                = [Both(paySent, destSent) EXCEPT ![<<t, "down">>] = destSent[t] + 1]
          <6>1. \A s \in Pairs : Both(paySent, [destSent EXCEPT ![t] = destSent[t] + 1])[s]
                                 = [Both(paySent, destSent) EXCEPT ![<<t, "down">>] = destSent[t] + 1][s]
            BY <2>5, <2>6, Zenon DEF Both
          <6> QED
            BY <2>5, <6>1, Zenon DEF Both
        <5> QED
          BY <1>0, <3>2, <5>1, Zenon DEF allSent, payVars
      <4>4. allEnded' = allEnded
        BY <1>0, <3>2, Zenon DEF allEnded, payVars
      <4> QED
        BY <2>0, <3>1, <4>2, <4>3, <4>4, StreamActions, Zenon
    <3>3. CASE destEnded' = destEnded \cup {t} /\ UNCHANGED destSent
      <4>1. allEnded' = allEnded \cup {<<t, "down">>}
        <5>1. Marked(payEnded, destEnded \cup {t}) = Marked(payEnded, destEnded) \cup {<<t, "down">>}
          BY DEF Marked
        <5> QED
          BY <1>0, <3>3, <5>1, Zenon DEF allEnded, payVars
      <4>2. allSent' = allSent
        BY <1>0, <3>3, Zenon DEF allSent, payVars
      <4> QED
        BY <2>0, <3>1, <4>1, <4>2, StreamActions, Zenon
    <3> QED
      BY <1>3, <2>2, <3>2, <3>3, Zenon DEF OutRead, destVars
  <2>3. CASE InReceive(t)
    <3>1. /\ inRelay[t] = "select" /\ recvCh[t] # <<>> /\ Head(recvCh[t]).kind = "WriteClose"
          /\ t \notin closed /\ destFin' = destFin \cup {t}
          /\ UNCHANGED <<destSent, destEnded, destGot>>
      BY <1>3, <2>3, Zenon DEF InReceive, destVars
    <3>2. StreamInv(t, upRelay[t], paySent[t], payEnded, toHost, recvCh[t],
                    inRelay[t], inChunk[t], destGot[t], destFin)
      BY <2>1, <3>1, Zenon DEF Up
    <3>3. /\ paySent[t] \in Nat /\ toHost \in Seq(Envelope) /\ recvCh[t] \in Seq(Envelope) /\ destGot[t] \in Seq(Nat)
          /\ inRelay[t] # "write" /\ recvCh[t] # <<>>
      BY <3>1, Zenon DEF TypeOK
    <3>7. Is(Head(recvCh[t]), "WriteClose", t)
      <4>1. 1 \in DOMAIN recvCh[t] /\ recvCh[t][1] = Head(recvCh[t])
        BY <3>3, TailPlaces, Zenon
      <4> QED
        BY <3>1, <3>2, <4>1, Zenon DEF StreamInv, Is
    <3>4. /\ t \in payEnded /\ Len(destGot[t]) = paySent[t]
          /\ ~Has(recvCh[t], "TunnelFrame", t) /\ ~Has(toHost, "TunnelFrame", t) /\ Has(recvCh[t], "WriteClose", t)
      BY <3>2, <3>3, <3>7, StreamEnding, Zenon
    <3>5. <<t, "up">> \in allEnded /\ allFin' = allFin \cup {<<t, "up">>}
      <4>1. <<t, "up">> \in Marked(payEnded, destEnded)
        BY <3>4, MarkedParts, Zenon
      <4>2. Marked(destFin \cup {t}, payFin) = Marked(destFin, payFin) \cup {<<t, "up">>}
        BY DEF Marked
      <4> QED
        BY <1>0, <3>1, <4>1, <4>2, Zenon DEF allEnded, allFin, payVars
    <3>6. UNCHANGED <<allSent, allEnded, allGot>>
      BY <1>0, <3>1, Zenon DEF payVars, allSent, allEnded, allGot
    <3> QED
      BY <2>0, <3>4, <3>5, <3>6, StreamActions, Zenon
  <2>4. CASE InWrite(t)
    <3>1. /\ inRelay[t] = "write" /\ t \notin closed
          /\ destGot' = [destGot EXCEPT ![t] = Append(destGot[t], inChunk[t])]
          /\ UNCHANGED <<destSent, destEnded, destFin>>
      BY <1>3, <2>4, Zenon DEF InWrite, destVars
    <3>2. StreamInv(t, upRelay[t], paySent[t], payEnded, toHost, recvCh[t],
                    "write", inChunk[t], destGot[t], destFin)
      BY <2>1, <3>1, Zenon DEF Up
    <3>3. /\ paySent[t] \in Nat /\ toHost \in Seq(Envelope) /\ recvCh[t] \in Seq(Envelope) /\ destGot[t] \in Seq(Nat)
      BY Zenon DEF TypeOK
    <3>4. t \notin destFin /\ Len(destGot[t]) < paySent[t] /\ inChunk[t] = Len(destGot[t]) + 1
      BY <3>2, <3>3, StreamWriting
    <3>5. <<t, "up">> \notin allFin
      BY <3>4, MarkedParts, Zenon DEF allFin
    <3>6. allGot' = [allGot EXCEPT ![<<t, "up">>] = Append(destGot[t], Len(destGot[t]) + 1)]
      <4>1. Both([destGot EXCEPT ![t] = Append(destGot[t], Len(destGot[t]) + 1)], payGot)
              = [Both(destGot, payGot) EXCEPT ![<<t, "up">>] = Append(destGot[t], Len(destGot[t]) + 1)]
        <5>1. \A s \in Pairs : Both([destGot EXCEPT ![t] = Append(destGot[t], Len(destGot[t]) + 1)], payGot)[s]
                               = [Both(destGot, payGot) EXCEPT ![<<t, "up">>] = Append(destGot[t], Len(destGot[t]) + 1)][s]
          BY <2>5, <2>6, Zenon DEF Both
        <5> QED
          BY <2>5, <5>1, Zenon DEF Both
      <4> QED
        BY <1>0, <3>1, <3>4, <4>1, Zenon DEF allGot, payVars
    <3>7. UNCHANGED <<allSent, allEnded, allFin>>
      BY <1>0, <3>1, Zenon DEF payVars, allSent, allEnded, allFin
    <3> QED
      BY <2>0, <3>4, <3>5, <3>6, <3>7, StreamActions, Zenon
  <2> QED
    BY <1>3, <2>2, <2>3, <2>4, Zenon DEF HostTunnelStep, ConnectRefuse, ConnectRegister, ConnectRespond, ConnectActivate, OutSend, OutError, OutExit, InClosed, InError, InExit, OverflowSend
<1>4. CASE HostDecode \/ HostDecodeError \/ HostLoopEnd \/ CloseTunnels \/ CloseConn
  BY <1>2, <1>4, Zenon DEF HostDecode, HostDecodeError, HostLoopEnd, CloseTunnels, CloseConn
<1> QED
  BY <1>2, <1>3, <1>4, Zenon DEF HostNext

\* The steps of the helper, with the payload.
LEMMA StreamHelper ==
  ASSUME TypeOK, StreamsInv, HelperNext, UNCHANGED hostVars
  PROVE  Stream!Next \/ UNCHANGED Stream!streamVars
<1>0. UNCHANGED destVars
  BY Zenon DEF hostVars
<1>1. /\ paySent \in [Tunnels -> Nat] /\ destSent \in [Tunnels -> Nat]
      /\ destGot \in [Tunnels -> Seq(Nat)] /\ payGot \in [Tunnels -> Seq(Nat)]
  BY Zenon DEF TypeOK
<1>2. UNCHANGED payVars => UNCHANGED Stream!streamVars
  BY <1>0, StreamStutter, Zenon
<1>3. ASSUME NEW t \in Tunnels, HelperTunnelStep(t), ~UNCHANGED payVars
      PROVE  Stream!Next
  <2>0. /\ <<t, "up">> \in Pairs /\ <<t, "down">> \in Pairs
        /\ allSent[<<t, "up">>] = paySent[t] /\ allSent[<<t, "down">>] = destSent[t]
        /\ allGot[<<t, "up">>] = destGot[t] /\ allGot[<<t, "down">>] = payGot[t]
    <3>1. <<t, "up">> \in Pairs /\ <<t, "down">> \in Pairs
      BY Zenon DEF Pairs
    <3>2. <<t, "up">>[1] = t /\ <<t, "up">>[2] = "up" /\ <<t, "down">>[1] = t /\ <<t, "down">>[2] = "down"
      BY Zenon
    <3> QED
      BY <3>1, <3>2, Zenon DEF allSent, allGot, Both
  <2>1. Up(t) /\ Down(t)
    BY Zenon DEF StreamsInv
  <2>5. DOMAIN paySent = Tunnels /\ DOMAIN destSent = Tunnels /\ DOMAIN destGot = Tunnels /\ DOMAIN payGot = Tunnels
    BY <1>1, Zenon
  <2>6. \A s \in Pairs : /\ s[1] \in Tunnels /\ s[2] \in {"up", "down"}
                         /\ s = <<t, "up">> <=> s[1] = t /\ s[2] = "up"
                         /\ s = <<t, "down">> <=> s[1] = t /\ s[2] = "down"
    BY Directions, Zenon
  <2>2. CASE UpRead(t)
    <3>1. UNCHANGED <<allGot, allFin>>
      BY <1>0, <2>2, Zenon DEF UpRead, destVars, allGot, allFin
    <3>2. CASE paySent' = [paySent EXCEPT ![t] = paySent[t] + 1] /\ UNCHANGED payEnded
      <4>1. t \notin payEnded
        BY <2>1, <2>2, Zenon DEF UpRead, Up
      <4>2. <<t, "up">> \notin allEnded
        BY <4>1, MarkedParts, Zenon DEF allEnded
      <4>3. allSent' = [allSent EXCEPT ![<<t, "up">>] = paySent[t] + 1]
        <5>1. Both([paySent EXCEPT ![t] = paySent[t] + 1], destSent)
                = [Both(paySent, destSent) EXCEPT ![<<t, "up">>] = paySent[t] + 1]
          <6>1. \A s \in Pairs : Both([paySent EXCEPT ![t] = paySent[t] + 1], destSent)[s]
                                 = [Both(paySent, destSent) EXCEPT ![<<t, "up">>] = paySent[t] + 1][s]
            BY <2>5, <2>6, Zenon DEF Both
          <6> QED
            BY <2>5, <6>1, Zenon DEF Both
        <5> QED
          BY <1>0, <3>2, <5>1, Zenon DEF allSent, destVars
      <4>4. allEnded' = allEnded
        BY <1>0, <3>2, Zenon DEF allEnded, destVars
      <4> QED
        BY <2>0, <3>1, <4>2, <4>3, <4>4, StreamActions, Zenon
    <3>3. CASE payEnded' = payEnded \cup {t} /\ UNCHANGED paySent
      <4>1. allEnded' = allEnded \cup {<<t, "up">>}
        <5>1. Marked(payEnded \cup {t}, destEnded) = Marked(payEnded, destEnded) \cup {<<t, "up">>}
          BY DEF Marked
        <5> QED
          BY <1>0, <3>3, <5>1, Zenon DEF allEnded, destVars
      <4>2. allSent' = allSent
        BY <1>0, <3>3, Zenon DEF allSent, destVars
      <4> QED
        BY <2>0, <3>1, <4>1, <4>2, StreamActions, Zenon
    <3> QED
      BY <1>3, <2>2, <3>2, <3>3, Zenon DEF UpRead, payVars
  <2>3. CASE DownReceive(t)
    <3>1. /\ downRelay[t] = "select" /\ tunnelCh[t] # <<>> /\ Head(tunnelCh[t]).kind = "WriteClose"
          /\ t \notin shut /\ payFin' = payFin \cup {t}
          /\ UNCHANGED <<paySent, payEnded, payGot>>
      BY <1>3, <2>3, Zenon DEF DownReceive, payVars
    <3>2. StreamInv(t, outRelay[t], destSent[t], destEnded, toHelper, tunnelCh[t],
                    downRelay[t], downChunk[t], payGot[t], payFin)
      BY <2>1, <3>1, Zenon DEF Down
    <3>3. /\ destSent[t] \in Nat /\ toHelper \in Seq(Envelope) /\ tunnelCh[t] \in Seq(Envelope) /\ payGot[t] \in Seq(Nat)
          /\ downRelay[t] # "write" /\ tunnelCh[t] # <<>>
      BY <3>1, Zenon DEF TypeOK
    <3>7. Is(Head(tunnelCh[t]), "WriteClose", t)
      <4>1. 1 \in DOMAIN tunnelCh[t] /\ tunnelCh[t][1] = Head(tunnelCh[t])
        BY <3>3, TailPlaces, Zenon
      <4> QED
        BY <3>1, <3>2, <4>1, Zenon DEF StreamInv, Is
    <3>4. /\ t \in destEnded /\ Len(payGot[t]) = destSent[t]
          /\ ~Has(tunnelCh[t], "TunnelFrame", t) /\ ~Has(toHelper, "TunnelFrame", t) /\ Has(tunnelCh[t], "WriteClose", t)
      BY <3>2, <3>3, <3>7, StreamEnding, Zenon
    <3>5. <<t, "down">> \in allEnded /\ allFin' = allFin \cup {<<t, "down">>}
      <4>1. <<t, "down">> \in Marked(payEnded, destEnded)
        BY <3>4, MarkedParts, Zenon
      <4>2. Marked(destFin, payFin \cup {t}) = Marked(destFin, payFin) \cup {<<t, "down">>}
        BY DEF Marked
      <4> QED
        BY <1>0, <3>1, <4>1, <4>2, Zenon DEF allEnded, allFin, destVars
    <3>6. UNCHANGED <<allSent, allEnded, allGot>>
      BY <1>0, <3>1, Zenon DEF destVars, allSent, allEnded, allGot
    <3> QED
      BY <2>0, <3>4, <3>5, <3>6, StreamActions, Zenon
  <2>4. CASE DownWrite(t)
    <3>1. /\ downRelay[t] = "write" /\ t \notin shut
          /\ payGot' = [payGot EXCEPT ![t] = Append(payGot[t], downChunk[t])]
          /\ UNCHANGED <<paySent, payEnded, payFin>>
      BY <2>4, Zenon DEF DownWrite
    <3>2. StreamInv(t, outRelay[t], destSent[t], destEnded, toHelper, tunnelCh[t],
                    "write", downChunk[t], payGot[t], payFin)
      BY <2>1, <3>1, Zenon DEF Down
    <3>3. /\ destSent[t] \in Nat /\ toHelper \in Seq(Envelope) /\ tunnelCh[t] \in Seq(Envelope) /\ payGot[t] \in Seq(Nat)
      BY Zenon DEF TypeOK
    <3>4. t \notin payFin /\ Len(payGot[t]) < destSent[t] /\ downChunk[t] = Len(payGot[t]) + 1
      BY <3>2, <3>3, StreamWriting
    <3>5. <<t, "down">> \notin allFin
      BY <3>4, MarkedParts, Zenon DEF allFin
    <3>6. allGot' = [allGot EXCEPT ![<<t, "down">>] = Append(payGot[t], Len(payGot[t]) + 1)]
      <4>1. Both(destGot, [payGot EXCEPT ![t] = Append(payGot[t], Len(payGot[t]) + 1)])
              = [Both(destGot, payGot) EXCEPT ![<<t, "down">>] = Append(payGot[t], Len(payGot[t]) + 1)]
        <5>1. \A s \in Pairs : Both(destGot, [payGot EXCEPT ![t] = Append(payGot[t], Len(payGot[t]) + 1)])[s]
                               = [Both(destGot, payGot) EXCEPT ![<<t, "down">>] = Append(payGot[t], Len(payGot[t]) + 1)][s]
          BY <2>5, <2>6, Zenon DEF Both
        <5> QED
          BY <2>5, <5>1, Zenon DEF Both
      <4> QED
        BY <1>0, <3>1, <3>4, <4>1, Zenon DEF allGot, destVars
    <3>7. UNCHANGED <<allSent, allEnded, allFin>>
      BY <1>0, <3>1, Zenon DEF destVars, allSent, allEnded, allFin
    <3> QED
      BY <2>0, <3>4, <3>5, <3>6, <3>7, StreamActions, Zenon
  <2> QED
    BY <1>3, <2>2, <2>3, <2>4, Zenon DEF HelperTunnelStep, ConnectBegin, ConnectSend, ConnectAnswered, ConnectTimeout, ConnectReply, ConnectAbort, ConnectDone, UpSend, UpError, UpExit, DownCancelled, DownWriteFails, DownError, DownExit
<1>4. CASE HelperDecode \/ HelperExit
  BY <1>2, <1>4, Zenon DEF HelperDecode, HelperExit
<1> QED
  BY <1>2, <1>3, <1>4, Zenon DEF HelperNext

\* Both directions of every tunnel are streams (TunnelStream): what the relays of
\* the host and the helper write is what was read at the other end, in order and
\* without gaps, and CloseWrite is called only when all of it was written.
THEOREM TunnelsAreStreams == Spec => ImplementsStreams
<1> DEFINE IInv == LifeInv /\ StreamsInv
<1>1. Init => IInv
  BY LifeInit, StreamsInit, Zenon
<1>2. IInv /\ [Next]_vars => IInv'
  BY LifeNext, StreamsNext, Zenon DEF LifeInv
<1>3. Init => Stream!Init
  <2> SUFFICES ASSUME Init PROVE Stream!Init
    BY Zenon
  <2>1. /\ paySent = [t \in Tunnels |-> 0] /\ destSent = [t \in Tunnels |-> 0]
        /\ destGot = [t \in Tunnels |-> <<>>] /\ payGot = [t \in Tunnels |-> <<>>]
        /\ payEnded = {} /\ destEnded = {} /\ destFin = {} /\ payFin = {}
    BY Zenon DEF Init, HostInit, HelperInit
  <2>2. \A s \in Pairs : s[1] \in Tunnels
    BY Zenon DEF Pairs
  <2>3. allSent = [s \in Pairs |-> 0] /\ allGot = [s \in Pairs |-> <<>>]
    BY <2>1, <2>2, Zenon DEF allSent, allGot, Both
  <2>4. allEnded = {} /\ allFin = {}
    BY <2>1, Zenon DEF allEnded, allFin, Marked
  <2> QED
    BY <2>3, <2>4, Zenon DEF Stream!Init, allSent, allGot, allEnded, allFin, Both, Marked, Pairs
<1>4. IInv /\ [Next]_vars => [Stream!Next]_(Stream!streamVars)
  <2> SUFFICES ASSUME TypeOK, StreamsInv, [Next]_vars
               PROVE  Stream!Next \/ UNCHANGED Stream!streamVars
    BY Zenon DEF LifeInv
  <2>1. CASE UNCHANGED vars
    BY <2>1, StreamStutter, Zenon DEF vars, hostVars, helperVars
  <2> QED
    BY <2>1, StreamHost, StreamHelper, Zenon DEF Next
<1> QED
  BY <1>1, <1>2, <1>3, <1>4, PTL DEF Spec, ImplementsStreams, Stream!Spec

=============================================================================
