---------------------------- MODULE HelperTunnel ----------------------------
(***************************************************************************)
(* internal/helperruntime/ingress/connect.go and the tunnel half of         *)
(* internal/helperruntime/bridge/bridge.go: the helper's end of the         *)
(* tunnels.  HandleConnect registers the tunnel, sends the ConnectRequest   *)
(* and waits for at most five seconds; after an approval it runs one relay  *)
(* per direction and cleans up when both have ended.  ReadLoop waits for    *)
(* room in a tunnel's queue.  The payload at the other end of the hijacked  *)
(* connection is the environment.                                           *)
(***************************************************************************)
EXTENDS TunnelProto

VARIABLES
    handle,           \* HandleConnect, a member of HandleStates
    pending,          \* RuntimeBridge.pending: the Connects waiting for a response
    respCh,           \* the channel in pending, capacity 1
    registered,       \* RuntimeBridge.tunnels
    tunnelCh,         \* tunnelDelivery.ch
    shut,             \* tunnels whose shutdown has run: cancelTunnel, conn.Close
    upRelay,          \* RelayPayloadToTunnel and its cleanup
    downRelay,        \* RelayTunnelToPayload and its cleanup
    downChunk,        \* the chunk RelayTunnelToPayload is writing, or 0
    paySent,          \* chunks of the payload that the helper has read
    payEnded,         \* tunnels whose payload has closed its half
    payGot,           \* chunks the payload has received
    payFin            \* tunnels on which CloseWrite told the payload the end

helperRelayVars == <<shut, upRelay, downRelay, downChunk>>
payVars == <<paySent, payEnded, payGot, payFin>>
helperVars == <<handle, pending, respCh, registered, tunnelCh, helperRelayVars,
                payVars>>

\* HandleConnect: about to send its request, waiting for the response, about to
\* write the 200, telling the host that this failed, relaying, returned.
HandleStates == {"idle", "request", "wait", "reply", "abort", "relay", "done"}

\* The relays.  "error" sends the terminal close, "exit" runs shutdown.
UpRelayStates == {"off", "read", "send", "eof", "error", "exit", "done"}
DownRelayStates == {"off", "select", "write", "error", "exit", "done"}

HelperInit ==
    /\ handle = [t \in Tunnels |-> "idle"]
    /\ pending = {}
    /\ respCh = [t \in Tunnels |-> <<>>]
    /\ registered = {}
    /\ tunnelCh = [t \in Tunnels |-> <<>>]
    /\ shut = {}
    /\ upRelay = [t \in Tunnels |-> "off"]
    /\ downRelay = [t \in Tunnels |-> "off"]
    /\ downChunk = [t \in Tunnels |-> 0]
    /\ paySent = [t \in Tunnels |-> 0]
    /\ payEnded = {}
    /\ payGot = [t \in Tunnels |-> <<>>]
    /\ payFin = {}

-----------------------------------------------------------------------------
\* RuntimeBridge.Connect and HandleConnect

RegisterTunnel(t) == registered' = registered \cup {t}

UnregisterTunnel(t) == registered' = registered \ {t}

\* A TunnelClose of either kind; its caller only logs an error.
SendTunnelClose(t, kind) == HelperTrySend(Env(kind, t, 0))

\* RegisterTunnel and the entry in pending, for a CONNECT of the payload.
ConnectBegin(t) ==
    /\ helperEnd = "open"
    /\ handle[t] = "idle"
    /\ handle' = [handle EXCEPT ![t] = "request"]
    /\ RegisterTunnel(t)
    /\ pending' = pending \cup {t}
    /\ UNCHANGED <<connVars, respCh, tunnelCh, helperRelayVars, payVars>>

\* Connect returns without an approval: its deferred delete, UnregisterTunnel,
\* and HandleConnect writes an error to the payload and closes the connection.
ConnectFails(t) ==
    /\ handle' = [handle EXCEPT ![t] = "done"]
    /\ pending' = pending \ {t}
    /\ UnregisterTunnel(t)
    /\ shut' = shut \cup {t}

\* Send the ConnectRequest.
ConnectSend(t) ==
    /\ helperEnd = "open"
    /\ handle[t] = "request"
    /\ \/ /\ HelperSend(Env("ConnectRequest", t, 0))
          /\ handle' = [handle EXCEPT ![t] = "wait"]
          /\ UNCHANGED <<pending, registered, shut>>
       \/ /\ ~HelperCanSend
          /\ ConnectFails(t)
          /\ UNCHANGED toHost
    /\ UNCHANGED <<toHelper, hostEnd, helperEnd, respCh, tunnelCh, upRelay,
                   downRelay, downChunk, payVars>>

\* The select of Connect: the response, ...
ConnectAnswered(t) ==
    /\ helperEnd = "open"
    /\ handle[t] = "wait"
    /\ respCh[t] # <<>>
    /\ respCh' = [respCh EXCEPT ![t] = Tail(@)]
    /\ IF Head(respCh[t]).n = Approved
       THEN /\ handle' = [handle EXCEPT ![t] = "reply"]
            /\ pending' = pending \ {t}
            /\ UNCHANGED <<registered, shut>>
       ELSE ConnectFails(t)
    /\ UNCHANGED <<connVars, tunnelCh, upRelay, downRelay, downChunk, payVars>>

\* ... or the end of the handshake's context.  The host is not told.
ConnectTimeout(t) ==
    /\ helperEnd = "open"
    /\ "timeout" \in Faults
    /\ handle[t] = "wait"
    /\ ConnectFails(t)
    /\ UNCHANGED <<connVars, respCh, tunnelCh, upRelay, downRelay, downChunk,
                   payVars>>

\* Write the 200 to the payload and start the relays.
ConnectReply(t) ==
    /\ helperEnd = "open"
    /\ handle[t] = "reply"
    /\ \/ /\ handle' = [handle EXCEPT ![t] = "relay"]
          /\ upRelay' = [upRelay EXCEPT ![t] = "read"]
          /\ downRelay' = [downRelay EXCEPT ![t] = "select"]
       \/ /\ "io" \in Faults
          /\ handle' = [handle EXCEPT ![t] = "abort"]
          /\ UNCHANGED <<upRelay, downRelay>>
    /\ UNCHANGED <<connVars, pending, respCh, registered, tunnelCh, shut,
                   downChunk, payVars>>

\* The write failed: send the terminal close, unregister, close the connection.
ConnectAbort(t) ==
    /\ helperEnd = "open"
    /\ handle[t] = "abort"
    /\ SendTunnelClose(t, "TerminalClose")
    /\ handle' = [handle EXCEPT ![t] = "done"]
    /\ UnregisterTunnel(t)
    /\ shut' = shut \cup {t}
    /\ UNCHANGED <<toHelper, hostEnd, helperEnd, pending, respCh, tunnelCh,
                   upRelay, downRelay, downChunk, payVars>>

\* Both relays have ended: shutdown and UnregisterTunnel.
ConnectDone(t) ==
    /\ helperEnd = "open"
    /\ handle[t] = "relay"
    /\ upRelay[t] = "done" /\ downRelay[t] = "done"
    /\ handle' = [handle EXCEPT ![t] = "done"]
    /\ UnregisterTunnel(t)
    /\ shut' = shut \cup {t}
    /\ UNCHANGED <<connVars, pending, respCh, tunnelCh, upRelay, downRelay,
                   downChunk, payVars>>

-----------------------------------------------------------------------------
\* RelayPayloadToTunnel

\* Read from the payload: a chunk (the first may be one buffered before the
\* connection was hijacked), the end of its stream, or an error, which is
\* net.ErrClosed after a shutdown.
UpRead(t) ==
    /\ helperEnd = "open"
    /\ upRelay[t] = "read"
    /\ \/ /\ t \notin shut
          /\ paySent[t] < MaxUp
          /\ paySent' = [paySent EXCEPT ![t] = @ + 1]
          /\ upRelay' = [upRelay EXCEPT ![t] = "send"]
          /\ UNCHANGED payEnded
       \/ /\ t \notin shut
          /\ payEnded' = payEnded \cup {t}
          /\ upRelay' = [upRelay EXCEPT ![t] = "eof"]
          /\ UNCHANGED paySent
       \/ /\ t \in shut
          /\ upRelay' = [upRelay EXCEPT ![t] = "done"]
          /\ UNCHANGED <<paySent, payEnded>>
       \/ /\ t \notin shut /\ "io" \in Faults
          /\ upRelay' = [upRelay EXCEPT ![t] = "error"]
          /\ UNCHANGED <<paySent, payEnded>>
    /\ UNCHANGED <<connVars, handle, pending, respCh, registered, tunnelCh, shut,
                   downRelay, downChunk, payGot, payFin>>

\* Send the chunk, or the write-half close after the last one.
UpSend(t) ==
    /\ helperEnd = "open"
    /\ \/ /\ upRelay[t] = "send"
          /\ \/ /\ HelperSend(Env("TunnelFrame", t, paySent[t]))
                /\ upRelay' = [upRelay EXCEPT ![t] = "read"]
             \/ /\ ~HelperCanSend
                /\ upRelay' = [upRelay EXCEPT ![t] = "error"]
                /\ UNCHANGED toHost
       \/ /\ upRelay[t] = "eof"
          /\ SendTunnelClose(t, "WriteClose")
          /\ upRelay' = [upRelay EXCEPT ![t] = "done"]
    /\ UNCHANGED <<toHelper, hostEnd, helperEnd, handle, pending, respCh,
                   registered, tunnelCh, shut, downRelay, downChunk, payVars>>

\* cleanup after an error: the terminal close, ...
UpError(t) ==
    /\ helperEnd = "open"
    /\ upRelay[t] = "error"
    /\ SendTunnelClose(t, "TerminalClose")
    /\ upRelay' = [upRelay EXCEPT ![t] = "exit"]
    /\ UNCHANGED <<toHelper, hostEnd, helperEnd, handle, pending, respCh,
                   registered, tunnelCh, shut, downRelay, downChunk, payVars>>

\* ... then shutdown.
UpExit(t) ==
    /\ helperEnd = "open"
    /\ upRelay[t] = "exit"
    /\ shut' = shut \cup {t}
    /\ upRelay' = [upRelay EXCEPT ![t] = "done"]
    /\ UNCHANGED <<connVars, handle, pending, respCh, registered, tunnelCh,
                   downRelay, downChunk, payVars>>

-----------------------------------------------------------------------------
\* RelayTunnelToPayload

\* The select takes an envelope.  After a write-half close the relay ends (and
\* the connection stays open for the other direction); the terminal close ends
\* the tunnel.
DownReceive(t) ==
    /\ helperEnd = "open"
    /\ downRelay[t] = "select"
    /\ tunnelCh[t] # <<>>
    /\ tunnelCh' = [tunnelCh EXCEPT ![t] = Tail(@)]
    /\ LET env == Head(tunnelCh[t])
       IN  \/ /\ env.kind = "TunnelFrame"
              /\ downRelay' = [downRelay EXCEPT ![t] = "write"]
              /\ downChunk' = [downChunk EXCEPT ![t] = env.n]
              /\ UNCHANGED payFin
           \/ /\ env.kind = "WriteClose"
              /\ \/ /\ t \notin shut
                    /\ payFin' = payFin \cup {t}
                    /\ downRelay' = [downRelay EXCEPT ![t] = "done"]
                 \/ /\ t \in shut \/ "io" \in Faults
                    /\ downRelay' = [downRelay EXCEPT ![t] = "error"]
                    /\ UNCHANGED payFin
              /\ UNCHANGED downChunk
           \/ /\ env.kind = "TerminalClose"
              /\ downRelay' = [downRelay EXCEPT ![t] = "exit"]
              /\ UNCHANGED <<downChunk, payFin>>
    /\ UNCHANGED <<connVars, handle, pending, respCh, registered, shut, upRelay,
                   paySent, payEnded, payGot>>

\* ... or finds the tunnel's context cancelled.
DownCancelled(t) ==
    /\ helperEnd = "open"
    /\ downRelay[t] = "select"
    /\ t \in shut
    /\ downRelay' = [downRelay EXCEPT ![t] = "done"]
    /\ UNCHANGED <<connVars, handle, pending, respCh, registered, tunnelCh, shut,
                   upRelay, downChunk, payVars>>

\* writeAll: the payload takes the chunk (there is no deadline), ...
DownWrite(t) ==
    /\ helperEnd = "open"
    /\ downRelay[t] = "write"
    /\ t \notin shut
    /\ payGot' = [payGot EXCEPT ![t] = Append(@, downChunk[t])]
    /\ downRelay' = [downRelay EXCEPT ![t] = "select"]
    /\ downChunk' = [downChunk EXCEPT ![t] = 0]
    /\ UNCHANGED <<connVars, handle, pending, respCh, registered, tunnelCh, shut,
                   upRelay, paySent, payEnded, payFin>>

\* ... or the write fails: the payload has closed, or the tunnel was shut down.
DownWriteFails(t) ==
    /\ helperEnd = "open"
    /\ downRelay[t] = "write"
    /\ t \in shut \/ "io" \in Faults
    /\ downRelay' = [downRelay EXCEPT ![t] = "error"]
    /\ downChunk' = [downChunk EXCEPT ![t] = 0]
    /\ UNCHANGED <<connVars, handle, pending, respCh, registered, tunnelCh, shut,
                   upRelay, payVars>>

DownError(t) ==
    /\ helperEnd = "open"
    /\ downRelay[t] = "error"
    /\ SendTunnelClose(t, "TerminalClose")
    /\ downRelay' = [downRelay EXCEPT ![t] = "exit"]
    /\ UNCHANGED <<toHelper, hostEnd, helperEnd, handle, pending, respCh,
                   registered, tunnelCh, shut, upRelay, downChunk, payVars>>

DownExit(t) ==
    /\ helperEnd = "open"
    /\ downRelay[t] = "exit"
    /\ shut' = shut \cup {t}
    /\ downRelay' = [downRelay EXCEPT ![t] = "done"]
    /\ UNCHANGED <<connVars, handle, pending, respCh, registered, tunnelCh,
                   upRelay, downChunk, payVars>>

-----------------------------------------------------------------------------
\* RuntimeBridge.ReadLoop

\* deliver: hand a response to the Connect that waits for it.  A response nobody
\* waits for, or a second one, is dropped.
deliverResponse(env) ==
    /\ env.kind = "ConnectResponse"
    /\ respCh' = IF env.id \in pending /\ respCh[env.id] = <<>>
                 THEN [respCh EXCEPT ![env.id] = <<env>>]
                 ELSE respCh
    /\ UNCHANGED tunnelCh

\* Mutant: DeliverTunnel does not wait for room.
DeliverTunnelDrops(env) ==
    /\ env.kind \in TunnelKinds
    /\ tunnelCh' = IF env.id \in registered /\ Len(tunnelCh[env.id]) < DeliveryCap
                   THEN [tunnelCh EXCEPT ![env.id] = Append(@, env)]
                   ELSE tunnelCh
    /\ UNCHANGED respCh

\* DeliverTunnel: wait for room in the tunnel's queue; drop the envelope of a
\* tunnel that is not registered, or no longer.
DeliverTunnel(env) ==
    /\ env.kind \in TunnelKinds
    /\ IF env.id \in registered
       THEN /\ Len(tunnelCh[env.id]) < DeliveryCap
            /\ tunnelCh' = [tunnelCh EXCEPT ![env.id] = Append(@, env)]
       ELSE UNCHANGED tunnelCh
    /\ UNCHANGED respCh

HelperDecode ==
    /\ helperEnd = "open"
    /\ toHelper # <<>>
    /\ LET env == Head(toHelper) IN deliverResponse(env) \/ DeliverTunnel(env)
    /\ toHelper' = Tail(toHelper)
    /\ UNCHANGED <<toHost, hostEnd, helperEnd, handle, pending, registered,
                   helperRelayVars, payVars>>

\* The helper exits: its ReadLoop met the end of the bridge, or it was killed.
\* Its goroutines, tables and connections go with it.
HelperExit ==
    /\ "exit" \in Faults
    /\ helperEnd = "open"
    /\ helperEnd' = "closed"
    /\ handle' = [t \in Tunnels |-> "done"]
    /\ pending' = {}
    /\ respCh' = [t \in Tunnels |-> <<>>]
    /\ registered' = {}
    /\ tunnelCh' = [t \in Tunnels |-> <<>>]
    /\ shut' = Tunnels
    /\ upRelay' = [t \in Tunnels |-> "off"]
    /\ downRelay' = [t \in Tunnels |-> "off"]
    /\ downChunk' = [t \in Tunnels |-> 0]
    /\ UNCHANGED <<toHelper, toHost, hostEnd, payVars>>

HelperTunnelStep(t) ==
    \/ ConnectBegin(t) \/ ConnectSend(t) \/ ConnectAnswered(t)
    \/ ConnectTimeout(t) \/ ConnectReply(t) \/ ConnectAbort(t) \/ ConnectDone(t)
    \/ UpRead(t) \/ UpSend(t) \/ UpError(t) \/ UpExit(t)
    \/ DownReceive(t) \/ DownCancelled(t) \/ DownWrite(t) \/ DownWriteFails(t)
    \/ DownError(t) \/ DownExit(t)

HelperNext == (\E t \in Tunnels : HelperTunnelStep(t)) \/ HelperDecode \/ HelperExit
=============================================================================
