-------------------------- MODULE RoundTripsProofs --------------------------
(***************************************************************************)
(* TripsAreMatched and AuthorizedFirst of RoundTrips, for any number of    *)
(* connections, goroutines and round trips, and any capacity of the        *)
(* bridge.  An id is used once, so every envelope, wherever it is, belongs *)
(* to the one round trip that drew its id, or to none any more.            *)
(***************************************************************************)
EXTENDS RoundTrips, TLAPS

Elems(s) == {s[i] : i \in DOMAIN s}

\* Where envelopes are, apart from the channels of pending.
Sent == Elems(tripToHost) \cup Elems(tripToHelper) \cup handling \cup tunnels

\* e has an id that was drawn, of n; if the round trip with this id is still
\* under way in t, e is its request, the response to it or a frame of its
\* tunnel.  An approval is one the host gave.
Belongs(e, t, n, given) ==
    /\ e \in Envelopes
    /\ e.id \in 1 .. n
    /\ \A a \in Callers : t[a].st # "idle" /\ t[a].id = e.id =>
         t[a].st = "wait" /\ e.who = a /\ e.kind \in {t[a].kind, "TunnelFrame"}
    /\ e.kind = "ConnectRequest" /\ Approves(e) => e.who \in given

\* Every goroutine that is in a round trip has an id of its own.
TripInv ==
    /\ nextID \in 0 .. MaxTrips
    /\ trip \in [Callers -> [st : {"idle", "send", "wait"}, id : Nat, kind : RequestKinds \cup {"none"}]]
    /\ \A a \in Callers : trip[a].st # "idle" => trip[a].id \in 1 .. nextID /\ trip[a].kind \in RequestKinds
    /\ \A a, b \in Callers : trip[a].st # "idle" /\ trip[b].st # "idle" /\ trip[a].id = trip[b].id => a = b
    /\ PendingIsLive

\* A channel holds at most one response, the one to its request.
ChannelInv ==
    /\ ch \in [1 .. MaxTrips -> Seq(Envelopes)]
    /\ \A i \in 1 .. MaxTrips : ch[i] # <<>> =>
         /\ i \in pendingIDs /\ Len(ch[i]) = 1
         /\ Belongs(ch[i][1], trip, nextID, approved)
         /\ ch[i][1].id = i /\ ch[i][1].kind # "TunnelFrame"

SentInv ==
    /\ tripToHost \in Seq(Envelopes) /\ tripToHelper \in Seq(Envelopes)
    /\ \A e \in Sent : Belongs(e, trip, nextID, approved)

WireInv == TripInv /\ ChannelInv /\ SentInv

\* A connection asks for its authorization first, and only an approved one gets
\* any further.
ConnInv ==
    /\ conn \in [Conns -> ConnStates] /\ flow \in [Conns -> Flows]
    /\ origin \in [Slots -> Conns \cup {"none", "proxy", "dns"}]
    /\ \A c \in Conns : /\ conn[c] = "none" => trip[c].st = "idle"
                        /\ conn[c] = "authorize" => trip[c].kind = "ConnectRequest"
    /\ AuthorizedFirst

wireVars == <<tripVars, tripToHost, tripToHelper, handling, tunnels, approved>>

-----------------------------------------------------------------------------
\* Append, Head and Tail make no envelopes of their own.
LEMMA ElemsFacts ==
  ASSUME NEW s \in Seq(Envelopes)
  PROVE  /\ \A e \in Envelopes : Append(s, e) \in Seq(Envelopes) /\ Elems(Append(s, e)) = Elems(s) \cup {e}
         /\ s # <<>> => /\ Head(s) \in Elems(s) /\ Tail(s) \in Seq(Envelopes)
                        /\ Elems(s) = {Head(s)} \cup Elems(Tail(s))
<1>1. ASSUME NEW e \in Envelopes
      PROVE  Append(s, e) \in Seq(Envelopes) /\ Elems(Append(s, e)) = Elems(s) \cup {e}
  <2>1. /\ Append(s, e) \in Seq(Envelopes) /\ DOMAIN s = 1 .. Len(s) /\ Len(s) \in Nat
        /\ DOMAIN Append(s, e) = 1 .. Len(s) + 1
        /\ \A i \in 1 .. Len(s) : Append(s, e)[i] = s[i]
        /\ Append(s, e)[Len(s) + 1] = e
    OBVIOUS
  <2>2. 1 .. Len(s) + 1 = 1 .. Len(s) \cup {Len(s) + 1}
    BY <2>1
  <2> QED
    BY <2>1, <2>2 DEF Elems
<1>2. ASSUME s # <<>>
      PROVE  Head(s) \in Elems(s) /\ Tail(s) \in Seq(Envelopes) /\ Elems(s) = {Head(s)} \cup Elems(Tail(s))
  <2>1. /\ DOMAIN s = 1 .. Len(s) /\ Len(s) \in Nat /\ Len(s) >= 1 /\ Head(s) = s[1]
        /\ Tail(s) \in Seq(Envelopes) /\ DOMAIN Tail(s) = 1 .. Len(s) - 1
        /\ \A i \in 1 .. Len(s) - 1 : Tail(s)[i] = s[i + 1] /\ i + 1 \in 1 .. Len(s)
    BY <1>2
  <2>2. Elems(Tail(s)) \subseteq Elems(s) /\ Head(s) \in Elems(s)
    BY <2>1 DEF Elems
  <2>3. ASSUME NEW i \in 1 .. Len(s) PROVE s[i] = Head(s) \/ s[i] \in Elems(Tail(s))
    <3>1. CASE i = 1
      BY <2>1, <3>1, Zenon
    <3>2. CASE i # 1
      <4>1. i - 1 \in 1 .. Len(s) - 1 /\ s[i] = Tail(s)[i - 1]
        BY <2>1, <3>2
      <4> QED
        BY <2>1, <4>1, Zenon DEF Elems
    <3> QED
      BY <3>1, <3>2, Zenon
  <2>4. Elems(s) \subseteq {Head(s)} \cup Elems(Tail(s))
    BY <2>1, <2>3 DEF Elems
  <2> QED
    BY <2>1, <2>2, <2>4, Zenon
<1> QED
  BY <1>1, <1>2, Zenon

\* The handlers of the host turn an answer of the ProxyHost into a response.
LEMMA HandleType ==
  ASSUME NEW kind, NEW r \in Responses \cup {nil}, NEW dialed \in BOOLEAN
  PROVE  Handle(kind, r, dialed).status \in Statuses /\ Handle(kind, r, dialed).err \in BOOLEAN
<1>1. CASE r = nil
  BY <1>1, Zenon DEF Handle, HandleConnectRequest, HandleDNSRequest, HandleLeafCertRequest, HandleMITMRequest,
     HandleProxyRequest, EmptyResponse, Statuses
<1>2. CASE r # nil
  <2>1. r \in Responses
    BY <1>2, Zenon
  <2>2. WithStatus(r).status \in Statuses /\ WithStatus(r).err \in BOOLEAN
    BY <2>1, Zenon DEF WithStatus, Responses, Statuses
  <2> QED
    BY <1>2, <2>1, <2>2, Zenon DEF Handle, HandleConnectRequest, HandleDNSRequest, HandleLeafCertRequest,
       HandleMITMRequest, HandleProxyRequest, EmptyResponse, Statuses, Responses
<1> QED
  BY <1>1, <1>2, Zenon

-----------------------------------------------------------------------------
\* A new round trip gets an id that no envelope has.
LEMMA RegisterKeeps ==
  ASSUME MaxTrips \in Nat, TripInv, UNCHANGED approved,
         NEW a \in Callers, NEW kind \in RequestKinds, trip[a].st = "idle", Register(a, kind)
  PROVE  TripInv' /\ \A e : Belongs(e, trip, nextID, approved) => Belongs(e, trip', nextID', approved')
<1>1. /\ nextID \in Nat /\ nextID < MaxTrips /\ nextID' = nextID + 1 /\ nextID' \in 1 .. MaxTrips
      /\ pendingIDs' = pendingIDs \cup {nextID'}
      /\ trip'[a] = [st |-> "send", id |-> nextID', kind |-> kind]
      /\ \A b \in Callers \ {a} : trip'[b] = trip[b]
  BY DEF Register, TripInv
<1>2. trip' \in [Callers -> [st : {"idle", "send", "wait"}, id : Nat, kind : RequestKinds \cup {"none"}]]
  BY <1>1 DEF Register, TripInv
<1>3. \A b \in Callers \ {a} : (trip'[b].st # "idle" <=> trip[b].st # "idle")
  BY <1>1, Zenon
<1>4. trip'[a].st # "idle" /\ trip[a].st = "idle"
  BY <1>1
<1>5. \A b \in Callers : trip'[b].st # "idle" => trip'[b].id \in 1 .. nextID' /\ trip'[b].kind \in RequestKinds
  BY <1>1, <1>3 DEF TripInv
<1>6. \A b, c \in Callers : trip'[b].st # "idle" /\ trip'[c].st # "idle" /\ trip'[b].id = trip'[c].id => b = c
  BY <1>1, <1>3 DEF TripInv
<1>7. PendingIsLive'
  <2>1. pendingIDs = {trip[b].id : b \in {c \in Callers : trip[c].st # "idle"}}
    BY Zenon DEF TripInv, PendingIsLive
  <2>2. {c \in Callers : trip'[c].st # "idle"} = {c \in Callers : trip[c].st # "idle"} \cup {a}
    BY <1>3, <1>4, Zenon
  <2>3. pendingIDs' = {trip'[b].id : b \in {c \in Callers : trip'[c].st # "idle"}}
    BY <1>1, <1>4, <2>1, <2>2
  <2> QED
    BY <2>3, Zenon DEF PendingIsLive
<1>8. ASSUME NEW e, Belongs(e, trip, nextID, approved) PROVE Belongs(e, trip', nextID', approved')
  <2>1. e \in Envelopes /\ e.id \in 1 .. nextID /\ e.id \in 1 .. nextID' /\ e.id # nextID'
    BY <1>1, <1>8 DEF Belongs
  <2>2. ASSUME NEW b \in Callers, trip'[b].st # "idle", trip'[b].id = e.id
        PROVE  trip'[b].st = "wait" /\ e.who = b /\ e.kind \in {trip'[b].kind, "TunnelFrame"}
    <3>1. b # a
      BY <1>1, <2>1, <2>2
    <3> QED
      BY <1>1, <1>3, <1>8, <2>2, <3>1 DEF Belongs
  <2> QED
    BY <1>8, <2>1, <2>2, Zenon DEF Belongs
<1> QED
  BY <1>1, <1>2, <1>5, <1>6, <1>7, <1>8 DEF TripInv

\* A round trip that is over leaves nothing behind, and the others alone.
LEMMA UnregisterKeeps ==
  ASSUME TripInv, UNCHANGED approved, NEW a \in Callers, trip[a].st # "idle", Unregister(a)
  PROVE  TripInv' /\ \A e : Belongs(e, trip, nextID, approved) => Belongs(e, trip', nextID', approved')
<1>1. /\ nextID' = nextID /\ pendingIDs' = pendingIDs \ {trip[a].id} /\ trip'[a] = NoTrip
      /\ \A b \in Callers \ {a} : trip'[b] = trip[b]
  BY Zenon DEF Unregister, TripInv
<1>2. trip' \in [Callers -> [st : {"idle", "send", "wait"}, id : Nat, kind : RequestKinds \cup {"none"}]]
  BY Zenon DEF Unregister, TripInv, NoTrip
<1>3. trip'[a].st = "idle" /\ \A b \in Callers \ {a} : (trip'[b].st # "idle" <=> trip[b].st # "idle")
  BY <1>1 DEF NoTrip
<1>4. \A b \in Callers : trip'[b].st # "idle" => b # a /\ trip[b].st # "idle" /\ trip'[b] = trip[b]
  BY <1>1, <1>3, Zenon
<1>5. PendingIsLive'
  <2>1. pendingIDs = {trip[b].id : b \in {c \in Callers : trip[c].st # "idle"}}
    BY Zenon DEF TripInv, PendingIsLive
  <2>2. {c \in Callers : trip'[c].st # "idle"} = {c \in Callers : trip[c].st # "idle"} \ {a}
    BY <1>3, Zenon
  <2>3. \A b \in Callers \ {a} : trip[b].st # "idle" => trip[b].id # trip[a].id
    BY Zenon DEF TripInv
  <2>4. pendingIDs' = {trip'[b].id : b \in {c \in Callers : trip'[c].st # "idle"}}
    BY <1>1, <1>4, <2>1, <2>2, <2>3
  <2> QED
    BY <2>4, Zenon DEF PendingIsLive
<1>6. ASSUME NEW e, Belongs(e, trip, nextID, approved) PROVE Belongs(e, trip', nextID', approved')
  BY <1>1, <1>4, <1>6 DEF Belongs
<1> QED
  BY <1>1, <1>2, <1>4, <1>5, <1>6 DEF TripInv

-----------------------------------------------------------------------------
\* Nothing happens on the wire.
LEMMA WireFrame ==
  ASSUME WireInv, UNCHANGED wireVars
  PROVE  WireInv'
<1>1. \A e : Belongs(e, trip', nextID', approved') = Belongs(e, trip, nextID, approved)
  BY DEF Belongs, wireVars, tripVars
<1>2. TripInv'
  BY DEF WireInv, TripInv, PendingIsLive, wireVars, tripVars
<1>3. ChannelInv'
  BY <1>1, Zenon DEF WireInv, ChannelInv, wireVars, tripVars
<1>4. SentInv'
  BY <1>1, Zenon DEF WireInv, SentInv, Sent, wireVars, tripVars
<1> QED
  BY <1>2, <1>3, <1>4, Zenon DEF WireInv

LEMMA WireRegister ==
  ASSUME MaxTrips \in Nat, WireInv, UNCHANGED <<tripToHost, tripToHelper, handling, tunnels, approved>>,
         NEW a \in Callers, NEW kind \in RequestKinds, trip[a].st = "idle", Register(a, kind)
  PROVE  WireInv'
<1>1. TripInv' /\ \A e : Belongs(e, trip, nextID, approved) => Belongs(e, trip', nextID', approved')
  BY RegisterKeeps, Zenon DEF WireInv
<1>2. UNCHANGED ch /\ pendingIDs \subseteq pendingIDs'
  BY Zenon DEF Register
<1>3. ChannelInv'
  BY <1>1, <1>2, Zenon DEF WireInv, ChannelInv
<1>4. SentInv'
  BY <1>1, Zenon DEF WireInv, SentInv, Sent
<1> QED
  BY <1>1, <1>3, <1>4, Zenon DEF WireInv

LEMMA WireUnregister ==
  ASSUME WireInv, UNCHANGED <<tripToHost, tripToHelper, handling, tunnels, approved>>,
         NEW a \in Callers, trip[a].st # "idle", Unregister(a)
  PROVE  WireInv'
<1>1. TripInv' /\ \A e : Belongs(e, trip, nextID, approved) => Belongs(e, trip', nextID', approved')
  BY UnregisterKeeps, Zenon DEF WireInv
<1>2. ChannelInv'
  <2>1. ch' = [ch EXCEPT ![trip[a].id] = <<>>] /\ pendingIDs' = pendingIDs \ {trip[a].id}
    BY Zenon DEF Unregister
  <2>2. ch' \in [1 .. MaxTrips -> Seq(Envelopes)]
    <3>1. <<>> \in Seq(Envelopes)
      OBVIOUS
    <3> QED
      BY <2>1, <3>1, Zenon DEF WireInv, ChannelInv
  <2>3. \A i \in 1 .. MaxTrips : ch'[i] # <<>> => i # trip[a].id /\ ch'[i] = ch[i]
    BY <2>1, Zenon DEF WireInv, ChannelInv
  <2> QED
    BY <1>1, <2>1, <2>2, <2>3, Zenon DEF WireInv, ChannelInv
<1>3. SentInv'
  BY <1>1, Zenon DEF WireInv, SentInv, Sent
<1> QED
  BY <1>1, <1>2, <1>3, Zenon DEF WireInv

\* The request of a round trip that has just registered is its first envelope.
LEMMA WireSend ==
  ASSUME WireInv, NEW a \in Callers, TripSend(a)
  PROVE  WireInv'
<1> DEFINE env == [kind |-> trip[a].kind, id |-> trip[a].id, who |-> a, status |-> "zero", err |-> FALSE]
<1>0. /\ trip[a] \in [st : {"idle", "send", "wait"}, id : Nat, kind : RequestKinds \cup {"none"}]
      /\ trip[a].st = "send" /\ trip[a].st # "idle" /\ trip[a].id \in 1 .. nextID
  BY Zenon DEF WireInv, TripInv, TripSend
<1>1. /\ tripToHost' = Append(tripToHost, env) /\ trip' = [trip EXCEPT ![a].st = "wait"]
      /\ UNCHANGED <<tripToHelper, nextID, pendingIDs, ch, handling, tunnels, approved>>
  BY Zenon DEF TripSend, Conn!HelperSend, tripHostVars
<1>2. /\ trip'[a] = [st |-> "wait", id |-> trip[a].id, kind |-> trip[a].kind]
      /\ \A b \in Callers \ {a} : trip'[b] = trip[b]
      /\ trip' \in [Callers -> [st : {"idle", "send", "wait"}, id : Nat, kind : RequestKinds \cup {"none"}]]
  BY <1>0, <1>1, Zenon DEF WireInv, TripInv
<1>3. \A b \in Callers : (trip'[b].st # "idle" <=> trip[b].st # "idle") /\ trip'[b].id = trip[b].id /\ trip'[b].kind = trip[b].kind
  BY <1>0, <1>2
<1>4. TripInv'
  <2>1. PendingIsLive'
    <3>1. {b \in Callers : trip'[b].st # "idle"} = {b \in Callers : trip[b].st # "idle"}
      BY <1>3, Zenon
    <3>2. {trip'[b].id : b \in {c \in Callers : trip[c].st # "idle"}} = {trip[b].id : b \in {c \in Callers : trip[c].st # "idle"}}
      BY <1>3, Zenon
    <3> QED
      BY <1>1, <3>1, <3>2, Zenon DEF WireInv, TripInv, PendingIsLive
  <2> QED
    BY <1>1, <1>2, <1>3, <2>1 DEF WireInv, TripInv
<1>5. ASSUME NEW e, Belongs(e, trip, nextID, approved) PROVE Belongs(e, trip', nextID', approved')
  <2>1. ASSUME NEW b \in Callers, trip'[b].st # "idle", trip'[b].id = e.id
        PROVE  trip'[b].st = "wait" /\ e.who = b /\ e.kind \in {trip'[b].kind, "TunnelFrame"}
    <3>1. b # a
      BY <1>0, <1>3, <1>5, <2>1, Zenon DEF Belongs
    <3> QED
      BY <1>2, <1>3, <1>5, <2>1, <3>1 DEF Belongs
  <2> QED
    BY <1>1, <1>5, <2>1, Zenon DEF Belongs
<1>6. Belongs(env, trip', nextID', approved')
  <2>1. env.id = trip[a].id /\ env.who = a /\ env.kind = trip[a].kind /\ ~Approves(env)
    BY Zenon DEF Approves
  <2>2. ASSUME NEW b \in Callers, trip'[b].st # "idle", trip'[b].id = env.id
        PROVE  trip'[b].st = "wait" /\ env.who = b /\ env.kind \in {trip'[b].kind, "TunnelFrame"}
    <3>1. b = a
      BY <1>0, <1>3, <2>1, <2>2 DEF WireInv, TripInv
    <3> QED
      BY <1>2, <2>1, <3>1
  <2>3. trip[a].kind \in RequestKinds
    BY <1>0, Zenon DEF WireInv, TripInv
  <2>4. env \in Envelopes
    BY <1>0, <2>3, Zenon DEF Envelopes, Statuses
  <2> HIDE DEF env
  <2> QED
    BY <1>0, <1>1, <2>1, <2>2, <2>4, Zenon DEF Belongs
<1>7. ChannelInv'
  BY <1>1, <1>5, Zenon DEF WireInv, ChannelInv
<1>8. SentInv'
  <2>1. env \in Envelopes
    BY <1>6, Zenon DEF Belongs
  <2> HIDE DEF env
  <2>2. tripToHost' \in Seq(Envelopes) /\ Elems(tripToHost') = Elems(tripToHost) \cup {env}
    BY <1>1, <2>1, ElemsFacts, Zenon DEF WireInv, SentInv
  <2>3. Sent' = Sent \cup {env}
    BY <1>1, <2>2, Zenon DEF Sent
  <2> QED
    BY <1>1, <1>5, <1>6, <2>2, <2>3, Zenon DEF WireInv, SentInv
<1> QED
  BY <1>4, <1>7, <1>8, Zenon DEF WireInv

\* A step that changes no round trip and puts nothing on its way that does not
\* belong to one.
LEMMA WireTransport ==
  ASSUME WireInv, UNCHANGED tripVars, approved \subseteq approved',
         tripToHost' \in Seq(Envelopes), tripToHelper' \in Seq(Envelopes),
         \A e \in Sent' : e \in Sent \/ Belongs(e, trip', nextID', approved')
  PROVE  WireInv'
<1>1. ASSUME NEW e, Belongs(e, trip, nextID, approved) PROVE Belongs(e, trip', nextID', approved')
  BY <1>1, Zenon DEF Belongs, tripVars
<1>2. TripInv'
  BY DEF WireInv, TripInv, PendingIsLive, tripVars
<1>3. ChannelInv'
  BY <1>1, Zenon DEF WireInv, ChannelInv, tripVars
<1>4. SentInv'
  BY <1>1, Zenon DEF WireInv, SentInv
<1> QED
  BY <1>2, <1>3, <1>4, Zenon DEF WireInv

\* deliver fills an empty channel with a response that belongs to its owner.
LEMMA WireDeliver ==
  ASSUME WireInv, deliverTrip
  PROVE  WireInv'
<1> DEFINE env == Head(tripToHelper)
<1>1. /\ tripToHelper # <<>> /\ tripToHelper' = Tail(tripToHelper)
      /\ UNCHANGED <<tripToHost, nextID, pendingIDs, trip, handling, tunnels, approved>>
      /\ ch' = IF env.kind # "TunnelFrame" /\ env.id \in pendingIDs /\ ch[env.id] = <<>>
               THEN [ch EXCEPT ![env.id] = <<env>>] ELSE ch
  BY Zenon DEF deliverTrip, tripHostVars
<1>2. env \in Elems(tripToHelper) /\ tripToHelper' \in Seq(Envelopes) /\ Elems(tripToHelper') \subseteq Elems(tripToHelper)
  BY <1>1, ElemsFacts, Zenon DEF WireInv, SentInv
<1>3. Belongs(env, trip, nextID, approved)
  BY <1>2, Zenon DEF WireInv, SentInv, Sent
<1> HIDE DEF env
<1>4. \A e : Belongs(e, trip', nextID', approved') = Belongs(e, trip, nextID, approved)
  BY <1>1, Zenon DEF Belongs
<1>5. TripInv'
  BY <1>1 DEF WireInv, TripInv, PendingIsLive
<1>6. ChannelInv'
  <2>1. ch' \in [1 .. MaxTrips -> Seq(Envelopes)]
    <3>1. <<env>> \in Seq(Envelopes)
      BY <1>3 DEF Belongs
    <3> QED
      BY <1>1, <3>1, Zenon DEF WireInv, ChannelInv
  <2>2. ASSUME NEW i \in 1 .. MaxTrips, ch'[i] # <<>>
        PROVE  /\ i \in pendingIDs' /\ Len(ch'[i]) = 1
               /\ Belongs(ch'[i][1], trip', nextID', approved')
               /\ ch'[i][1].id = i /\ ch'[i][1].kind # "TunnelFrame"
    <3>1. CASE ch'[i] = ch[i]
      BY <1>1, <1>4, <2>2, <3>1, Zenon DEF WireInv, ChannelInv
    <3>2. CASE ch'[i] # ch[i]
      <4>1. env.kind # "TunnelFrame" /\ env.id \in pendingIDs /\ i = env.id /\ ch'[i] = <<env>>
        BY <1>1, <3>2, Zenon DEF WireInv, ChannelInv
      <4>2. ch'[i][1] = env /\ Len(ch'[i]) = 1
        BY <4>1
      <4> QED
        BY <1>1, <1>3, <1>4, <4>1, <4>2, Zenon
    <3> QED
      BY <3>1, <3>2, Zenon
  <2> QED
    BY <2>1, <2>2, Zenon DEF ChannelInv
<1>7. SentInv'
  BY <1>1, <1>2, <1>4 DEF WireInv, SentInv, Sent
<1> QED
  BY <1>5, <1>6, <1>7, Zenon DEF WireInv

\* An answer carries the id, the owner and the kind of its request.
LEMMA WireAnswer ==
  ASSUME WireInv, NEW e \in handling, HostAnswer(e)
  PROVE  WireInv'
<1>1. PICK r \in Responses \cup {nil}, dialed \in BOOLEAN :
        LET a == Handle(e.kind, r, dialed)
            tunnel == e.kind = "ConnectRequest" /\ a.status = "2xx"
        IN  /\ Conn!HostSend([e EXCEPT !.status = a.status, !.err = a.err])
            /\ tunnels' = IF tunnel THEN tunnels \cup {e} ELSE tunnels
            /\ approved' = IF tunnel /\ ~a.err THEN approved \cup {e.who} ELSE approved
  BY Zenon DEF HostAnswer
<1> DEFINE a == Handle(e.kind, r, dialed)
           env == [e EXCEPT !.status = a.status, !.err = a.err]
<1>2. a.status \in Statuses /\ a.err \in BOOLEAN
  BY HandleType, Zenon
<1>3. /\ tripToHelper' = Append(tripToHelper, env) /\ tunnels' \subseteq tunnels \cup {e} /\ approved \subseteq approved'
      /\ (e.kind = "ConnectRequest" /\ a.status = "2xx" /\ ~a.err => e.who \in approved')
  BY <1>1, Zenon DEF Conn!HostSend
<1>4. UNCHANGED tripToHost /\ UNCHANGED tripVars /\ handling' \subseteq handling
  BY Zenon DEF HostAnswer, tripVars
<1> HIDE DEF a
<1>5. e \in Sent /\ Belongs(e, trip, nextID, approved)
  BY Zenon DEF WireInv, SentInv, Sent
<1>6. env \in Envelopes /\ env.id = e.id /\ env.who = e.who /\ env.kind = e.kind
      /\ (Approves(env) => a.status = "2xx" /\ ~a.err)
  BY <1>2, <1>5, Zenon DEF Belongs, Envelopes, Approves, Statuses
<1> HIDE DEF env
<1>7. Belongs(env, trip', nextID', approved')
  BY <1>3, <1>4, <1>5, <1>6, Zenon DEF Belongs, tripVars
<1>8. tripToHelper' \in Seq(Envelopes) /\ Elems(tripToHelper') = Elems(tripToHelper) \cup {env}
  BY <1>3, <1>6, ElemsFacts, Zenon DEF WireInv, SentInv
<1>9. \A x \in Sent' : x \in Sent \/ x = env
  BY <1>3, <1>4, <1>5, <1>8, Zenon DEF Sent
<1> QED
  BY <1>3, <1>4, <1>7, <1>8, <1>9, WireTransport, Zenon DEF WireInv, SentInv

LEMMA WireTunnel ==
  ASSUME WireInv, NEW e \in tunnels, TunnelSpeaks(e)
  PROVE  WireInv'
<1> DEFINE env == [e EXCEPT !.kind = "TunnelFrame"]
<1>1. /\ tripToHelper' = Append(tripToHelper, env)
      /\ UNCHANGED <<tripToHost, handling, tunnels, approved>> /\ UNCHANGED tripVars
  BY Zenon DEF TunnelSpeaks, Conn!HostSend, tripHostVars
<1>2. Belongs(e, trip, nextID, approved)
  BY Zenon DEF WireInv, SentInv, Sent
<1>3. env \in Envelopes /\ env.id = e.id /\ env.who = e.who /\ env.kind = "TunnelFrame"
  BY <1>2, Zenon DEF Belongs, Envelopes
<1> HIDE DEF env
<1>4. Belongs(env, trip', nextID', approved')
  BY <1>1, <1>2, <1>3, Zenon DEF Belongs, tripVars
<1>5. tripToHelper' \in Seq(Envelopes) /\ Elems(tripToHelper') = Elems(tripToHelper) \cup {env}
  BY <1>1, <1>3, ElemsFacts, Zenon DEF WireInv, SentInv
<1>6. \A x \in Sent' : x \in Sent \/ x = env
  BY <1>1, <1>5, Zenon DEF Sent
<1> QED
  BY <1>1, <1>4, <1>5, <1>6, WireTransport, Zenon DEF WireInv, SentInv

\* Every step keeps each envelope with its round trip.
LEMMA WireStep ==
  ASSUME Parameters, WireInv, ConnInv, [TripsNext]_allTripVars
  PROVE  WireInv'
<1>0. MaxTrips \in Nat /\ Conns \subseteq Callers /\ Slots \subseteq Callers
  BY Zenon DEF Parameters, Callers
<1>1. CASE UNCHANGED allTripVars
  BY <1>1, WireFrame, Zenon DEF allTripVars, tripConnVars, tripHostVars, wireVars
<1>2. CASE deliverTrip
  BY <1>2, WireDeliver, Zenon
<1>3. CASE ReadLoopEnds
  BY <1>3, WireFrame, Zenon DEF ReadLoopEnds, tripHostVars, wireVars
<1>4. ASSUME NEW a \in Callers, TripSend(a) PROVE WireInv'
  BY <1>4, WireSend, Zenon
<1>5. ASSUME NEW c \in Conns, Reject(c) \/ HandshakeFails(c) \/ ConnCloses(c) PROVE WireInv'
  BY <1>5, WireFrame, Zenon DEF Reject, HandshakeFails, ConnCloses, tripConnVars, tripHostVars, wireVars
<1>6. ASSUME NEW c \in Conns, Authorize(c) \/ AskLeafCert(c) PROVE WireInv'
  <2>1. PICK kind \in RequestKinds : Register(c, kind)
    BY <1>6, Zenon DEF Authorize, AskLeafCert, RequestKinds
  <2>2. trip[c].st = "idle"
    BY <1>6, Zenon DEF Authorize, AskLeafCert, ConnInv
  <2> QED
    BY <1>0, <1>6, <2>1, <2>2, WireRegister, Zenon DEF Authorize, AskLeafCert, tripConnVars, tripHostVars
<1>7. ASSUME NEW c \in Conns, Authorized(c) \/ ConnTripFails(c) \/ GotLeafCert(c) PROVE WireInv'
  <2>1. trip[c].st # "idle" /\ Unregister(c)
    BY <1>7, Zenon DEF Authorized, ConnTripFails, GotLeafCert, Answered, TripFails
  <2> QED
    BY <1>0, <1>7, <2>1, WireUnregister, Zenon DEF Authorized, ConnTripFails, GotLeafCert, tripConnVars, tripHostVars
<1>8. ASSUME NEW q \in Slots, ProxyHandler(q) \/ TransparentHTTPHandler(q) \/ ServeMITMConn(q) \/ DNSQuery(q)
      PROVE  WireInv'
  <2>0. trip[q].st = "idle" /\ UNCHANGED <<tripToHost, tripToHelper, handling, tunnels, approved>>
    BY <1>8, Zenon DEF ProxyHandler, TransparentHTTPHandler, ServeMITMConn, DNSQuery, CanServe, tripConnVars, tripHostVars
  <2>1. UNCHANGED tripVars \/ \E kind \in RequestKinds : Register(q, kind)
    BY <1>8, Zenon DEF ProxyHandler, TransparentHTTPHandler, ServeMITMConn, DNSQuery, serveHTTPForward,
       mitmHandler, Forward, Refuse, RequestKinds
  <2> QED
    BY <1>0, <2>0, <2>1, WireRegister, WireFrame, Zenon DEF wireVars
<1>9. ASSUME NEW q \in Slots, SlotAnswered(q) \/ SlotTripFails(q) PROVE WireInv'
  <2>1. trip[q].st # "idle" /\ Unregister(q)
    BY <1>9, Zenon DEF SlotAnswered, SlotTripFails, Answered, TripFails
  <2> QED
    BY <1>0, <1>9, <2>1, WireUnregister, Zenon DEF SlotAnswered, SlotTripFails, tripConnVars, tripHostVars
<1>10. CASE HostRead
  <2>1. /\ UNCHANGED tripVars /\ UNCHANGED <<tripToHelper, tunnels, approved>> /\ tripToHost # <<>>
        /\ tripToHost' = Tail(tripToHost) /\ handling' = handling \cup {Head(tripToHost)}
    BY <1>10, Zenon DEF HostRead
  <2>2. /\ Head(tripToHost) \in Elems(tripToHost) /\ tripToHost' \in Seq(Envelopes)
        /\ Elems(tripToHost') \subseteq Elems(tripToHost) /\ tripToHelper' \in Seq(Envelopes)
    BY <2>1, ElemsFacts, Zenon DEF WireInv, SentInv
  <2>3. Sent' \subseteq Sent
    BY <2>1, <2>2, Zenon DEF Sent
  <2> QED
    BY <2>1, <2>2, <2>3, WireTransport, Zenon
<1>11. ASSUME NEW e \in handling, HostAnswer(e) PROVE WireInv'
  BY <1>11, WireAnswer, Zenon
<1>12. CASE (\E e \in handling : HostAnswerFails(e)) \/ HostCloses
  <2>1. /\ UNCHANGED tripVars /\ UNCHANGED <<tripToHost, tripToHelper, approved>>
        /\ handling' \subseteq handling /\ tunnels' \subseteq tunnels
    BY <1>12, Zenon DEF HostAnswerFails, HostCloses, tripConnVars
  <2>2. Sent' \subseteq Sent /\ tripToHost' \in Seq(Envelopes) /\ tripToHelper' \in Seq(Envelopes)
    BY <2>1, Zenon DEF Sent, WireInv, SentInv
  <2> QED
    BY <2>1, <2>2, WireTransport, Zenon
<1>13. ASSUME NEW e \in tunnels, TunnelSpeaks(e) PROVE WireInv'
  BY <1>13, WireTunnel, Zenon
<1> QED
  BY <1>1, <1>2, <1>3, <1>4, <1>5, <1>6, <1>7, <1>8, <1>9, <1>10, <1>11, <1>12, <1>13
     DEF TripsNext, HelperTripNext, HostTripNext

-----------------------------------------------------------------------------
\* A step of a connection's handler.
LEMMA ConnMove ==
  ASSUME Parameters, ConnInv, UNCHANGED approved, NEW c \in Conns, NEW st \in ConnStates \ {"none"},
         SetConn(c, st), \A b \in Callers \ {c} : trip'[b] = trip[b],
         st = "authorize" => trip'[c].kind = "ConnectRequest",
         st \in {"cert", "handshake", "serve"} => c \in approved
  PROVE  ConnInv'
<1>1. /\ UNCHANGED <<flow, origin>> /\ conn' \in [Conns -> ConnStates] /\ conn'[c] = st
      /\ \A d \in Conns \ {c} : conn'[d] = conn[d]
  BY Zenon DEF ConnInv, SetConn
<1>2. \A q \in Slots : trip'[q] = trip[q]
  BY Zenon DEF Parameters, Callers
<1>3. \A d \in Conns \ {c} : trip'[d] = trip[d]
  BY Zenon DEF Callers
<1>4. AuthorizedFirst'
  BY <1>1, <1>2, Zenon DEF ConnInv, AuthorizedFirst
<1> QED
  BY <1>1, <1>3, <1>4 DEF ConnInv

\* A step of a goroutine that serves requests.
LEMMA SlotMove ==
  ASSUME Parameters, ConnInv, UNCHANGED <<conn, flow, approved>>, NEW q \in Slots,
         NEW o \in Conns \cup {"none", "proxy", "dns"}, origin' = [origin EXCEPT ![q] = o],
         \A b \in Callers \ {q} : trip'[b] = trip[b], o \in Conns => o \in approved
  PROVE  ConnInv'
<1>1. /\ origin' \in [Slots -> Conns \cup {"none", "proxy", "dns"}] /\ origin'[q] = o
      /\ \A p \in Slots \ {q} : origin'[p] = origin[p] /\ trip'[p] = trip[p]
  BY Zenon DEF ConnInv, Callers
<1>2. \A c \in Conns : trip'[c] = trip[c]
  BY Zenon DEF Parameters, Callers
<1>3. AuthorizedFirst'
  BY <1>1 DEF ConnInv, AuthorizedFirst
<1> QED
  BY <1>1, <1>2, <1>3 DEF ConnInv

\* Nothing that ConnInv sees happens.
LEMMA ConnFrame ==
  ASSUME ConnInv, UNCHANGED <<trip, conn, flow, origin>>, approved \subseteq approved'
  PROVE  ConnInv'
  BY Zenon DEF ConnInv, AuthorizedFirst

\* No connection gets past an authorization the host did not give.
LEMMA ConnStep ==
  ASSUME Parameters, WireInv, ConnInv, [TripsNext]_allTripVars
  PROVE  ConnInv'
<1>0. /\ trip \in [Callers -> [st : {"idle", "send", "wait"}, id : Nat, kind : RequestKinds \cup {"none"}]]
      /\ Conns \subseteq Callers /\ Slots \subseteq Callers
  BY Zenon DEF WireInv, TripInv, Callers
<1>1. CASE UNCHANGED allTripVars
  BY <1>1, ConnFrame, Zenon DEF allTripVars, tripVars, ingressVars, tripHostVars
<1>2. CASE deliverTrip \/ ReadLoopEnds \/ HostRead \/ HostCloses \/ \E e \in tunnels : TunnelSpeaks(e)
  BY <1>2, ConnFrame, Zenon DEF deliverTrip, ReadLoopEnds, HostRead, HostCloses, TunnelSpeaks, tripVars,
     ingressVars, tripHostVars
<1>3. ASSUME NEW e \in handling, HostAnswer(e) \/ HostAnswerFails(e) PROVE ConnInv'
  BY <1>3, ConnFrame, Zenon DEF HostAnswer, HostAnswerFails, tripVars, ingressVars
<1>4. ASSUME NEW a \in Callers, TripSend(a) PROVE ConnInv'
  <2>1. /\ trip[a].st = "send" /\ trip' = [trip EXCEPT ![a].st = "wait"]
        /\ UNCHANGED <<conn, flow, origin, approved>>
    BY <1>4, Zenon DEF TripSend, ingressVars, tripHostVars
  <2>2. \A b \in Callers : (trip'[b].st # "idle" <=> trip[b].st # "idle") /\ trip'[b].kind = trip[b].kind
    BY <1>0, <2>1, Zenon
  <2> QED
    BY <1>0, <2>1, <2>2 DEF ConnInv, AuthorizedFirst
<1>5. ASSUME NEW c \in Conns, Reject(c) \/ HandshakeFails(c) \/ ConnCloses(c) PROVE ConnInv'
  <2>1. SetConn(c, "closed") /\ UNCHANGED <<trip, approved>> /\ "closed" \in ConnStates \ {"none"}
    BY <1>5, Zenon DEF Reject, HandshakeFails, ConnCloses, tripVars, tripHostVars, ConnStates
  <2> QED
    BY <2>1, ConnMove, Zenon
<1>6. ASSUME NEW c \in Conns, Authorize(c) PROVE ConnInv'
  <2>1. /\ SetConn(c, "authorize") /\ UNCHANGED approved /\ "authorize" \in ConnStates \ {"none"}
        /\ trip'[c].kind = "ConnectRequest" /\ \A b \in Callers \ {c} : trip'[b] = trip[b]
    BY <1>0, <1>6, Zenon DEF Authorize, Register, tripHostVars, ConnStates
  <2> QED
    BY <2>1, ConnMove, Zenon
<1>7. ASSUME NEW c \in Conns, Unregister(c) PROVE \A b \in Callers \ {c} : trip'[b] = trip[b]
  BY <1>0, <1>7, Zenon DEF Unregister
<1>8. ASSUME NEW c \in Conns, Authorized(c) PROVE ConnInv'
  <2> DEFINE env == ch[trip[c].id][1]
  <2>1. /\ Answered(c) /\ conn[c] = "authorize" /\ Unregister(c) /\ UNCHANGED approved
        /\ SetConn(c, IF Approves(env) THEN AfterApproval(c) ELSE "closed")
    BY <1>8, Zenon DEF Authorized, tripHostVars, AuthorizeConnectResult
  <2>2. env.who = c /\ env.kind = "ConnectRequest" /\ Belongs(env, trip, nextID, approved)
    <3>1. /\ trip[c].st = "wait" /\ trip[c].st # "idle" /\ ch[trip[c].id] # <<>> /\ trip[c].kind = "ConnectRequest"
          /\ trip[c].id \in 1 .. nextID /\ nextID \in 0 .. MaxTrips /\ MaxTrips \in Nat
      BY <1>0, <2>1, Zenon DEF Answered, ConnInv, WireInv, TripInv, Parameters
    <3>2. trip[c].id \in 1 .. MaxTrips
      BY <3>1
    <3>3. Belongs(env, trip, nextID, approved) /\ env.id = trip[c].id /\ env.kind # "TunnelFrame"
      BY <3>1, <3>2, Zenon DEF WireInv, ChannelInv
    <3> QED
      BY <1>0, <3>1, <3>3, Zenon DEF Belongs
  <2> HIDE DEF env
  <2>3. CASE Approves(env)
    <3>1. c \in approved
      BY <2>2, <2>3, Zenon DEF Belongs
    <3>2. AfterApproval(c) \in {"cert", "handshake", "serve", "closed"}
      BY Zenon DEF ConnInv, Parameters, AfterApproval
    <3> QED
      BY <1>7, <2>1, <2>3, <3>1, <3>2, ConnMove, Zenon DEF ConnStates
  <2>4. CASE ~Approves(env)
    BY <1>7, <2>1, <2>4, ConnMove, Zenon DEF ConnStates
  <2> QED
    BY <2>3, <2>4, Zenon
<1>9. ASSUME NEW c \in Conns, ConnTripFails(c) \/ GotLeafCert(c) PROVE ConnInv'
  <2>1. PICK st \in {"serve", "closed"} : SetConn(c, st) /\ (st = "serve" => conn[c] = "cert")
    BY <1>9, Zenon DEF ConnTripFails, GotLeafCert
  <2>2. Unregister(c) /\ UNCHANGED approved /\ st \in ConnStates \ {"none"}
    BY <1>9, <2>1, Zenon DEF ConnTripFails, GotLeafCert, tripHostVars, ConnStates
  <2>3. st = "serve" => c \in approved
    BY <2>1, Zenon DEF ConnInv, AuthorizedFirst
  <2> QED
    BY <1>7, <2>1, <2>2, <2>3, ConnMove, Zenon
<1>10. ASSUME NEW c \in Conns, AskLeafCert(c) PROVE ConnInv'
  <2>1. /\ SetConn(c, "cert") /\ UNCHANGED approved /\ "cert" \in ConnStates \ {"none"}
        /\ \A b \in Callers \ {c} : trip'[b] = trip[b] /\ conn[c] \in {"cert", "handshake"}
    BY <1>0, <1>10, Zenon DEF AskLeafCert, Register, tripHostVars, ConnStates
  <2>2. c \in approved
    BY <1>10, <2>1, Zenon DEF AskLeafCert, ConnInv, AuthorizedFirst
  <2> QED
    BY <2>1, <2>2, ConnMove, Zenon
<1>11. ASSUME NEW q \in Slots, ProxyHandler(q) \/ TransparentHTTPHandler(q) \/ ServeMITMConn(q) \/ DNSQuery(q)
       PROVE  ConnInv'
  <2>0. UNCHANGED <<conn, flow, approved>>
    BY <1>11, Zenon DEF ProxyHandler, TransparentHTTPHandler, ServeMITMConn, DNSQuery, CanServe, tripHostVars
  <2>1. \/ UNCHANGED <<trip, origin>>
        \/ \E o \in Conns \cup {"proxy", "dns"}, kind \in RequestKinds :
             Forward(q, o, kind) /\ (o \in Conns => conn[o] = "serve")
    BY <1>11, Zenon DEF ProxyHandler, TransparentHTTPHandler, ServeMITMConn, DNSQuery, serveHTTPForward,
       mitmHandler, Refuse, RequestKinds, tripVars, Parameters
  <2>2. CASE UNCHANGED <<trip, origin>>
    BY <2>0, <2>2, ConnFrame, Zenon
  <2>3. ASSUME NEW o \in Conns \cup {"proxy", "dns"}, NEW kind \in RequestKinds,
               Forward(q, o, kind), o \in Conns => conn[o] = "serve"
        PROVE  ConnInv'
    <3>1. origin' = [origin EXCEPT ![q] = o] /\ \A b \in Callers \ {q} : trip'[b] = trip[b]
      BY <1>0, <2>3, Zenon DEF Forward, Register
    <3>2. o \in Conns => o \in approved
      BY <2>3, Zenon DEF ConnInv, AuthorizedFirst
    <3> QED
      BY <2>0, <3>1, <3>2, SlotMove, Zenon
  <2> QED
    BY <2>1, <2>2, <2>3, Zenon
<1>12. ASSUME NEW q \in Slots, SlotAnswered(q) \/ SlotTripFails(q) PROVE ConnInv'
  <2>1. /\ UNCHANGED <<conn, flow, approved>> /\ origin' = [origin EXCEPT ![q] = "none"]
        /\ \A b \in Callers \ {q} : trip'[b] = trip[b]
    BY <1>0, <1>12, Zenon DEF SlotAnswered, SlotTripFails, Unregister, tripHostVars
  <2> QED
    BY <2>1, SlotMove, Zenon DEF Parameters
<1> QED
  BY <1>1, <1>2, <1>3, <1>4, <1>5, <1>6, <1>8, <1>9, <1>10, <1>11, <1>12 DEF TripsNext, HelperTripNext, HostTripNext

-----------------------------------------------------------------------------
\* Where the request of a round trip in state t, or the answer to it, is: in its
\* channel, on the way to the host, with a goroutine of the host or on the way
\* back.
Accounted(t, channels, requests, handled, responses) ==
    \/ channels[t.id] # <<>>
    \/ \E e \in Elems(requests) \cup handled : e.id = t.id
    \/ \E e \in Elems(responses) : e.id = t.id /\ e.kind = t.kind

\* What goes to the host are requests, and none of them is forgotten.
AccountInv ==
    /\ \A e \in Elems(tripToHost) \cup handling : e.kind \in RequestKinds
    /\ tripHostEnd = "open" /\ tripHelperEnd = "open" =>
         \A a \in Callers : trip[a].st = "wait" => Accounted(trip[a], ch, tripToHost, handling, tripToHelper)

\* No step loses the request or the response of a round trip while both ends of
\* the bridge are open.
LEMMA AccountStep ==
  ASSUME Parameters, WireInv, ConnInv, AccountInv, [TripsNext]_allTripVars
  PROVE  AccountInv'
<1>0. /\ trip \in [Callers -> [st : {"idle", "send", "wait"}, id : Nat, kind : RequestKinds \cup {"none"}]]
      /\ ch \in [1 .. MaxTrips -> Seq(Envelopes)] /\ nextID \in 0 .. MaxTrips /\ MaxTrips \in Nat
      /\ tripToHost \in Seq(Envelopes) /\ tripToHelper \in Seq(Envelopes)
      /\ Conns \subseteq Callers /\ Slots \subseteq Callers
  BY Zenon DEF WireInv, TripInv, ChannelInv, SentInv, Callers, Parameters
<1>1. ASSUME UNCHANGED <<tripToHost, tripToHelper, handling>>, tripHostEnd' = "open" => tripHostEnd = "open",
             tripHelperEnd' = "open" => tripHelperEnd = "open",
             \A a \in Callers : trip'[a].st = "wait" =>
               trip'[a] = trip[a] /\ (ch[trip[a].id] # <<>> => ch'[trip[a].id] # <<>>)
      PROVE  AccountInv'
  BY <1>1 DEF AccountInv, Accounted
<1>2. ASSUME NEW a \in Callers, NEW kind, Register(a, kind), UNCHANGED <<tripConnVars, handling>>
      PROVE  AccountInv'
  <2>1. trip'[a].st = "send" /\ UNCHANGED ch /\ \A b \in Callers \ {a} : trip'[b] = trip[b]
    BY <1>0, <1>2, Zenon DEF Register
  <2> QED
    BY <1>1, <1>2, <2>1, Zenon DEF tripConnVars
<1>3. ASSUME NEW a \in Callers, Unregister(a), trip[a].st # "idle", UNCHANGED <<tripConnVars, handling>>
      PROVE  AccountInv'
  <2>1. /\ trip'[a].st = "idle" /\ \A b \in Callers \ {a} : trip'[b] = trip[b]
        /\ ch' = [ch EXCEPT ![trip[a].id] = <<>>]
    BY <1>0, <1>3, Zenon DEF Unregister, NoTrip
  <2>2. \A b \in Callers \ {a} : trip[b].st = "wait" => trip[b].id # trip[a].id /\ trip[b].id \in 1 .. nextID
    BY <1>3, Zenon DEF WireInv, TripInv
  <2>3. \A b \in Callers \ {a} : trip[b].st = "wait" => ch'[trip[b].id] = ch[trip[b].id]
    BY <1>0, <2>1, <2>2
  <2> QED
    BY <1>1, <1>3, <2>1, <2>3, Zenon DEF tripConnVars
<1>4. ASSUME UNCHANGED <<tripVars, tripConnVars, handling>> PROVE AccountInv'
  BY <1>1, <1>4, Zenon DEF tripVars, tripConnVars
<1>5. CASE UNCHANGED allTripVars
  BY <1>4, <1>5, Zenon DEF allTripVars, tripHostVars
<1>6. CASE ReadLoopEnds \/ HostCloses
  BY <1>6, Zenon DEF ReadLoopEnds, HostCloses, AccountInv, tripHostVars, tripVars
<1>7. ASSUME NEW c \in Conns, Reject(c) \/ HandshakeFails(c) \/ ConnCloses(c) PROVE AccountInv'
  BY <1>4, <1>7, Zenon DEF Reject, HandshakeFails, ConnCloses, tripHostVars
<1>8. ASSUME NEW c \in Conns, Authorize(c) \/ AskLeafCert(c) PROVE AccountInv'
  BY <1>0, <1>2, <1>8, Zenon DEF Authorize, AskLeafCert, tripHostVars
<1>9. ASSUME NEW c \in Conns, Authorized(c) \/ ConnTripFails(c) \/ GotLeafCert(c) PROVE AccountInv'
  BY <1>0, <1>3, <1>9, Zenon DEF Authorized, ConnTripFails, GotLeafCert, Answered, TripFails, tripHostVars
<1>10. ASSUME NEW q \in Slots, ProxyHandler(q) \/ TransparentHTTPHandler(q) \/ ServeMITMConn(q) \/ DNSQuery(q)
       PROVE  AccountInv'
  <2>1. UNCHANGED <<tripConnVars, handling>>
    BY <1>10, Zenon DEF ProxyHandler, TransparentHTTPHandler, ServeMITMConn, DNSQuery, CanServe, tripHostVars
  <2>2. UNCHANGED tripVars \/ \E kind \in RequestKinds : Register(q, kind)
    BY <1>10, Zenon DEF ProxyHandler, TransparentHTTPHandler, ServeMITMConn, DNSQuery, serveHTTPForward,
       mitmHandler, Forward, Refuse, RequestKinds
  <2> QED
    BY <1>0, <1>2, <1>4, <2>1, <2>2, Zenon
<1>11. ASSUME NEW q \in Slots, SlotAnswered(q) \/ SlotTripFails(q) PROVE AccountInv'
  BY <1>0, <1>3, <1>11, Zenon DEF SlotAnswered, SlotTripFails, Answered, TripFails, tripHostVars
<1>12. ASSUME NEW a \in Callers, TripSend(a) PROVE AccountInv'
  <2> DEFINE env == [kind |-> trip[a].kind, id |-> trip[a].id, who |-> a, status |-> "zero", err |-> FALSE]
  <2>1. /\ trip[a].st = "send" /\ tripToHost' = Append(tripToHost, env) /\ trip' = [trip EXCEPT ![a].st = "wait"]
        /\ UNCHANGED <<tripToHelper, tripHostEnd, tripHelperEnd, ch, handling>>
    BY <1>12, Zenon DEF TripSend, Conn!HelperSend, tripHostVars
  <2>2. /\ trip'[a].id = trip[a].id /\ \A b \in Callers \ {a} : trip'[b] = trip[b]
        /\ trip[a].kind \in RequestKinds /\ trip[a].id \in Nat
    BY <1>0, <2>1, Zenon DEF WireInv, TripInv
  <2>3. env \in Envelopes /\ env.id = trip[a].id /\ env.kind \in RequestKinds
    BY <2>2, Zenon DEF Envelopes, Statuses
  <2> HIDE DEF env
  <2>4. Elems(tripToHost') = Elems(tripToHost) \cup {env}
    BY <1>0, <2>1, <2>3, ElemsFacts, Zenon
  <2>5. ASSUME tripHostEnd = "open", tripHelperEnd = "open", NEW b \in Callers, trip'[b].st = "wait"
        PROVE  Accounted(trip'[b], ch', tripToHost', handling', tripToHelper')
    <3>1. CASE b = a
      BY <2>2, <2>3, <2>4, <3>1, Zenon DEF Accounted
    <3>2. CASE b # a
      <4>1. trip'[b] = trip[b] /\ Accounted(trip[b], ch, tripToHost, handling, tripToHelper)
        BY <2>2, <2>5, <3>2, Zenon DEF AccountInv
      <4> QED
        BY <2>1, <2>4, <4>1, Zenon DEF Accounted
    <3> QED
      BY <3>1, <3>2, Zenon
  <2> QED
    BY <2>1, <2>3, <2>4, <2>5, Zenon DEF AccountInv
<1>13. CASE deliverTrip
  <2> DEFINE env == Head(tripToHelper)
  <2>1. /\ tripToHelper # <<>> /\ tripToHelper' = Tail(tripToHelper)
        /\ UNCHANGED <<tripToHost, tripHostEnd, tripHelperEnd, pendingIDs, trip, handling>>
        /\ ch' = IF env.kind # "TunnelFrame" /\ env.id \in pendingIDs /\ ch[env.id] = <<>>
                 THEN [ch EXCEPT ![env.id] = <<env>>] ELSE ch
    BY <1>13, Zenon DEF deliverTrip, tripHostVars
  <2>2. Elems(tripToHelper) = {env} \cup Elems(tripToHelper')
    BY <1>0, <2>1, ElemsFacts, Zenon
  <2> HIDE DEF env
  <2>3. \A i \in 1 .. MaxTrips : ch[i] # <<>> => ch'[i] # <<>>
    BY <1>0, <2>1, Zenon
  <2>4. ASSUME tripHostEnd = "open", tripHelperEnd = "open", NEW a \in Callers, trip[a].st = "wait"
        PROVE  Accounted(trip[a], ch', tripToHost, handling, tripToHelper')
    <3>0. trip[a].id \in 1 .. nextID /\ trip[a].kind \in RequestKinds /\ trip[a].id \in pendingIDs
      BY <2>4, Zenon DEF WireInv, TripInv, PendingIsLive
    <3>1. /\ trip[a].id \in 1 .. MaxTrips /\ trip[a].id \in pendingIDs /\ trip[a].kind # "TunnelFrame"
          /\ Accounted(trip[a], ch, tripToHost, handling, tripToHelper)
      BY <1>0, <2>4, <3>0 DEF AccountInv, RequestKinds
    <3>2. CASE env.id = trip[a].id /\ env.kind = trip[a].kind
      <4>1. ch'[trip[a].id] # <<>>
        BY <1>0, <2>1, <3>1, <3>2, Zenon
      <4> QED
        BY <4>1, Zenon DEF Accounted
    <3>3. CASE ~(env.id = trip[a].id /\ env.kind = trip[a].kind)
      BY <2>2, <2>3, <3>1, <3>3, Zenon DEF Accounted
    <3> QED
      BY <3>2, <3>3, Zenon
  <2> QED
    BY <2>1, <2>4, Zenon DEF AccountInv
<1>14. CASE HostRead
  <2>1. /\ tripToHost # <<>> /\ tripToHost' = Tail(tripToHost) /\ handling' = handling \cup {Head(tripToHost)}
        /\ UNCHANGED <<tripToHelper, tripHostEnd, tripHelperEnd, ch, trip>>
    BY <1>14, Zenon DEF HostRead, tripVars
  <2>2. Elems(tripToHost) = {Head(tripToHost)} \cup Elems(tripToHost')
    BY <1>0, <2>1, ElemsFacts, Zenon
  <2>3. Elems(tripToHost') \cup handling' = Elems(tripToHost) \cup handling
    BY <2>1, <2>2, Zenon
  <2> QED
    BY <2>1, <2>3, Zenon DEF AccountInv, Accounted
<1>15. ASSUME NEW e \in handling, HostAnswer(e) PROVE AccountInv'
  <2>1. PICK r \in Responses \cup {nil}, dialed \in BOOLEAN :
          Conn!HostSend([e EXCEPT !.status = Handle(e.kind, r, dialed).status, !.err = Handle(e.kind, r, dialed).err])
    BY <1>15, Zenon DEF HostAnswer
  <2> DEFINE env == [e EXCEPT !.status = Handle(e.kind, r, dialed).status, !.err = Handle(e.kind, r, dialed).err]
  <2>2. /\ tripToHelper' = Append(tripToHelper, env) /\ handling' = handling \ {e}
        /\ UNCHANGED <<tripToHost, tripHostEnd, tripHelperEnd, ch, trip>>
    BY <1>15, <2>1, Zenon DEF Conn!HostSend, HostAnswer, tripVars
  <2>3. e \in Envelopes /\ e.kind \in RequestKinds /\ Belongs(e, trip, nextID, approved)
    BY Zenon DEF AccountInv, WireInv, SentInv, Sent, Belongs
  <2>4. env \in Envelopes /\ env.id = e.id /\ env.kind = e.kind
    BY <2>3, HandleType, Zenon DEF Envelopes
  <2> HIDE DEF env
  <2>5. Elems(tripToHelper') = Elems(tripToHelper) \cup {env}
    BY <1>0, <2>2, <2>4, ElemsFacts, Zenon
  <2>6. ASSUME tripHostEnd = "open", tripHelperEnd = "open", NEW a \in Callers, trip[a].st = "wait"
        PROVE  Accounted(trip[a], ch, tripToHost, handling', tripToHelper')
    <3>1. Accounted(trip[a], ch, tripToHost, handling, tripToHelper)
      BY <2>6, Zenon DEF AccountInv
    <3>2. CASE e.id = trip[a].id
      <4>1. env.id = trip[a].id /\ env.kind = trip[a].kind
        BY <2>3, <2>4, <2>6, <3>2, Zenon DEF Belongs, RequestKinds
      <4> QED
        BY <2>5, <4>1, Zenon DEF Accounted
    <3>3. CASE e.id # trip[a].id
      BY <2>2, <2>5, <3>1, <3>3, Zenon DEF Accounted
    <3> QED
      BY <3>2, <3>3, Zenon
  <2> QED
    BY <2>2, <2>6, Zenon DEF AccountInv
<1>16. ASSUME NEW e \in handling, HostAnswerFails(e) PROVE AccountInv'
  BY <1>16, Zenon DEF HostAnswerFails, Conn!HostCanSend, AccountInv, tripConnVars
<1>17. ASSUME NEW e \in tunnels, TunnelSpeaks(e) PROVE AccountInv'
  <2> DEFINE env == [e EXCEPT !.kind = "TunnelFrame"]
  <2>1. tripToHelper' = Append(tripToHelper, env) /\ UNCHANGED <<tripToHost, tripHostEnd, tripHelperEnd, ch, trip, handling>>
    BY <1>17, Zenon DEF TunnelSpeaks, Conn!HostSend, tripHostVars, tripVars
  <2>2. env \in Envelopes
    BY SMTT(30) DEF WireInv, SentInv, Sent, Belongs, Envelopes
  <2> HIDE DEF env
  <2>3. Elems(tripToHelper) \subseteq Elems(tripToHelper')
    BY <1>0, <2>1, <2>2, ElemsFacts
  <2> QED
    BY <2>1, <2>3, Zenon DEF AccountInv, Accounted
<1> QED
  BY <1>5, <1>6, <1>7, <1>8, <1>9, <1>10, <1>11, <1>12, <1>13, <1>14, <1>15, <1>16, <1>17
     DEF TripsNext, HelperTripNext, HostTripNext

\* A handler only writes one of the replies there are.
LEMMA ReplyStep ==
  ASSUME reply \in [Slots -> Replies], [TripsNext]_allTripVars
  PROVE  reply' \in [Slots -> Replies]
<1>1. \A kind, r : ReplyFor(kind, r) \in Replies
  BY Zenon DEF ReplyFor, Replies
<1>2. ASSUME NEW q \in Slots, NEW x \in Replies, reply' = [reply EXCEPT ![q] = x] PROVE reply' \in [Slots -> Replies]
  BY <1>2, Zenon
<1>3. UNCHANGED reply \/ \E q \in Slots, x \in Replies : reply' = [reply EXCEPT ![q] = x]
  <2>1. CASE UNCHANGED allTripVars
    BY <2>1, Zenon DEF allTripVars, ingressVars
  <2>2. CASE deliverTrip \/ ReadLoopEnds \/ HostTripNext \/ \E a \in Callers : TripSend(a)
    BY <2>2, Zenon DEF deliverTrip, ReadLoopEnds, HostTripNext, HostRead, HostAnswer, HostAnswerFails, TunnelSpeaks, HostCloses,
       TripSend, ingressVars
  <2>3. ASSUME NEW c \in Conns, \/ Reject(c) \/ Authorize(c) \/ Authorized(c) \/ ConnTripFails(c)
                                \/ AskLeafCert(c) \/ GotLeafCert(c) \/ HandshakeFails(c) \/ ConnCloses(c)
        PROVE  UNCHANGED reply
    BY <2>3, Zenon DEF Reject, Authorize, Authorized, ConnTripFails, AskLeafCert, GotLeafCert, HandshakeFails, ConnCloses,
       SetConn
  <2>4. ASSUME NEW q \in Slots, ProxyHandler(q) \/ TransparentHTTPHandler(q) \/ ServeMITMConn(q) \/ DNSQuery(q)
        PROVE  \E x \in Replies : reply' = [reply EXCEPT ![q] = x]
    BY <2>4, Zenon DEF ProxyHandler, TransparentHTTPHandler, ServeMITMConn, DNSQuery, serveHTTPForward, mitmHandler,
       Forward, Refuse, Replies
  <2>5. ASSUME NEW q \in Slots, SlotAnswered(q) \/ SlotTripFails(q)
        PROVE  \E x \in Replies : reply' = [reply EXCEPT ![q] = x]
    BY <1>1, <2>5, Zenon DEF SlotAnswered, SlotTripFails, Replies
  <2> QED
    BY <2>1, <2>2, <2>3, <2>4, <2>5, Zenon DEF TripsNext, HelperTripNext
<1> QED
  BY <1>2, <1>3, Zenon

\* The invariants hold of everything the helper and the host do.
LEMMA TripsInvariant == TripsSpec => [](WireInv /\ ConnInv /\ AccountInv /\ reply \in [Slots -> Replies])
<1>0. Parameters
  BY TripsAssumption, Zenon
<1>1. TripsInit => WireInv /\ ConnInv /\ AccountInv /\ reply \in [Slots -> Replies]
  <2> SUFFICES ASSUME TripsInit PROVE WireInv /\ ConnInv /\ AccountInv /\ reply \in [Slots -> Replies]
    BY Zenon
  <2>0. Conns \subseteq Callers /\ Slots \subseteq Callers /\ \A a \in Callers : trip[a].st = "idle"
    BY <1>0, Zenon DEF TripsInit, Callers, NoTrip
  <2>1. TripInv
    BY <1>0, <2>0 DEF TripsInit, TripInv, PendingIsLive, NoTrip, Parameters
  <2>2. ChannelInv
    BY <1>0 DEF TripsInit, ChannelInv
  <2>3. SentInv
    BY <1>0 DEF TripsInit, Conn!ConnInit, SentInv, Sent, Elems
  <2>4. ConnInv
    BY <1>0, <2>0, Zenon DEF TripsInit, ConnInv, AuthorizedFirst, ConnStates, Parameters
  <2>5. AccountInv
    BY <1>0, <2>0 DEF TripsInit, Conn!ConnInit, AccountInv, Elems
  <2>6. reply \in [Slots -> Replies]
    BY <1>0, Zenon DEF TripsInit, Replies
  <2> QED
    BY <2>1, <2>2, <2>3, <2>4, <2>5, <2>6, Zenon DEF WireInv
<1>2. WireInv /\ ConnInv /\ AccountInv /\ reply \in [Slots -> Replies] /\ [TripsNext]_allTripVars
        => WireInv' /\ ConnInv' /\ AccountInv' /\ (reply \in [Slots -> Replies])'
  BY <1>0, WireStep, ConnStep, AccountStep, ReplyStep, Zenon
<1> QED
  BY <1>1, <1>2, PTL DEF TripsSpec

\* A round trip gets the response to its own request and to no other, also not
\* the late answer to one that was given up; pending holds the channels of the
\* round trips under way and no others; and none of them waits for a response
\* that was lost (roundTrip, deliver, the host's handlers).
THEOREM TripsMatched == TripsSpec => []TripsAreMatched
<1>1. WireInv => ResponseIsOwn
  <2> SUFFICES ASSUME WireInv, NEW a \in Callers, Answered(a)
               PROVE  ch[trip[a].id][1].who = a /\ ch[trip[a].id][1].kind = trip[a].kind
    BY Zenon DEF ResponseIsOwn
  <2>1. /\ trip[a].st = "wait" /\ trip[a].st # "idle" /\ ch[trip[a].id] # <<>>
        /\ trip[a].id \in 1 .. nextID /\ nextID \in 0 .. MaxTrips /\ MaxTrips \in Nat
    BY TripsAssumption, Zenon DEF Answered, WireInv, TripInv, Parameters
  <2>2. trip[a].id \in 1 .. MaxTrips
    BY <2>1
  <2>3. Belongs(ch[trip[a].id][1], trip, nextID, approved) /\ ch[trip[a].id][1].id = trip[a].id
        /\ ch[trip[a].id][1].kind # "TunnelFrame"
    BY <2>1, <2>2, Zenon DEF WireInv, ChannelInv
  <2> QED
    BY <2>1, <2>3, Zenon DEF Belongs
<1>2. WireInv => PendingIsLive
  BY Zenon DEF WireInv, TripInv
<1>3. AccountInv => RequestAccountedFor
  BY DEF AccountInv, Accounted, Elems, RequestAccountedFor
<1>4. WireInv /\ ConnInv /\ reply \in [Slots -> Replies] => TripsTypeOK
  <2> SUFFICES ASSUME WireInv, ConnInv, reply \in [Slots -> Replies] PROVE TripsTypeOK
    BY Zenon
  <2>1. nextID \in 0 .. MaxTrips /\ MaxTrips \in Nat
    BY TripsAssumption, Zenon DEF WireInv, TripInv, Parameters
  <2>2. \A a \in Callers : trip[a].st # "idle" => trip[a].id \in 1 .. MaxTrips
    BY <2>1 DEF WireInv, TripInv
  <2>3. pendingIDs \subseteq 1 .. MaxTrips
    BY <2>2 DEF WireInv, TripInv, PendingIsLive
  <2>4. ASSUME NEW i \in 1 .. MaxTrips PROVE Len(ch[i]) <= 1
    <3>1. CASE ch[i] = <<>>
      BY <3>1
    <3>2. CASE ch[i] # <<>>
      <4>1. Len(ch[i]) = 1
        BY <3>2, Zenon DEF WireInv, ChannelInv
      <4> QED
        BY <4>1
    <3> QED
      BY <3>1, <3>2, Zenon
  <2>5. \A e \in handling : e \in Envelopes
    BY Zenon DEF WireInv, SentInv, Sent, Belongs
  <2>6. \A i \in DOMAIN tripToHelper : tripToHelper[i] \in Envelopes
    BY DEF WireInv, SentInv
  <2> QED
    BY <2>1, <2>3, <2>4, <2>5, <2>6, Zenon DEF TripsTypeOK, WireInv, TripInv, ConnInv
<1> QED
  BY <1>1, <1>2, <1>3, <1>4, TripsInvariant, PTL DEF TripsAreMatched

\* Of a connection, the host sees nothing but the request for its authorization
\* until it has given that (HandleMITMConnect, ServeTransparentTCPConn).
THEOREM ApprovalFirst == TripsSpec => []AuthorizedFirst
<1>1. ConnInv => AuthorizedFirst
  BY Zenon DEF ConnInv
<1> QED
  BY <1>1, TripsInvariant, PTL
=============================================================================
