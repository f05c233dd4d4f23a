----------------------------- MODULE HostTunnel -----------------------------
(***************************************************************************)
(* internal/helperclient/tunnel.go and Client.HandleConnectRequest: the     *)
(* host's end of the tunnels of one sandbox.  For each tunnel there is the  *)
(* goroutine that answers its ConnectRequest and, once it is active, one    *)
(* relay per direction; ReadLoop delivers frames into recvCh and never      *)
(* waits for a tunnel.  The destination of the outbound TCP connection is   *)
(* the environment.                                                         *)
(***************************************************************************)
EXTENDS TunnelProto

VARIABLES
    hostLoop,         \* Client.ReadLoop: "decode", "fail", "done"
    closePc,          \* Client.Close: "open", "conn", "closed"
    connect,          \* HandleConnectRequest, a member of ConnectStates
    table,            \* "pending": in pendingTunnels, "active": in tunnels
    recvCh,           \* hostTunnel.recvCh
    closed,           \* the tunnels that were shut down: closed and conn.Close
    terminalOnce,     \* the tunnels whose sendTerminalCloseOnce has fired
    overflow,         \* tunnels with a goroutine of sendTerminalCloseAsync
    outRelay,         \* relayOutboundToTunnel
    inRelay,          \* relayTunnelToOutbound
    inChunk,          \* the chunk relayTunnelToOutbound is writing, or 0
    destSent,         \* chunks of the destination that the host has read
    destEnded,        \* tunnels whose destination has closed its half
    destGot,          \* chunks the destination has received
    destFin           \* tunnels on which CloseWrite told the destination the end

relayVars == <<outRelay, inRelay, inChunk>>
destVars == <<destSent, destEnded, destGot, destFin>>
hostVars == <<hostLoop, closePc, connect, table, recvCh, closed, terminalOnce,
              overflow, relayVars, destVars>>

\* The goroutine is dialling, about to send its approval, about to activate
\* the tunnel; it ended with a refusal ("refused") or with a tunnel ("done").
ConnectStates == {"none", "dial", "respond", "activate", "refused", "done"}

\* The relays.  "error" sends the terminal close, "exit" runs closeTerminal.
OutRelayStates == {"off", "read", "send", "eof", "error", "exit", "done"}
InRelayStates == {"off", "select", "write", "error", "exit", "done"}

HostInit ==
    /\ hostLoop = "decode"
    /\ closePc = "open"
    /\ connect = [t \in Tunnels |-> "none"]
    /\ table = [t \in Tunnels |-> "none"]
    /\ recvCh = [t \in Tunnels |-> <<>>]
    /\ closed = {}
    /\ terminalOnce = {}
    /\ overflow = {}
    /\ outRelay = [t \in Tunnels |-> "off"]
    /\ inRelay = [t \in Tunnels |-> "off"]
    /\ inChunk = [t \in Tunnels |-> 0]
    /\ destSent = [t \in Tunnels |-> 0]
    /\ destEnded = {}
    /\ destGot = [t \in Tunnels |-> <<>>]
    /\ destFin = {}

-----------------------------------------------------------------------------
\* hostTunnel

\* The tables pendingTunnels and tunnels.
registerPendingTunnel(t) == table' = [table EXCEPT ![t] = "pending"]

activateTunnel(t) ==
    /\ table[t] = "pending"
    /\ table' = [table EXCEPT ![t] = "active"]

unregisterTunnel(t) == table' = [table EXCEPT ![t] = "none"]

\* Both relays begin.
start(t) ==
    /\ outRelay' = [outRelay EXCEPT ![t] = "read"]
    /\ inRelay' = [inRelay EXCEPT ![t] = "select"]

\* Close the channel closed and the outbound connection, once.
shutdown(t) == closed' = closed \cup {t}

closeTerminal(t) == unregisterTunnel(t) /\ shutdown(t)

\* sendTerminalClose: only the first caller sends, the others wait for it; the
\* error of the send is ignored.
sendTerminalClose(t) ==
    /\ terminalOnce' = terminalOnce \cup {t}
    /\ \/ t \in terminalOnce /\ UNCHANGED toHelper
       \/ t \notin terminalOnce /\ HostSend(Env("TerminalClose", t, 0))
       \/ t \notin terminalOnce /\ ~HostCanSend /\ UNCHANGED toHelper

\* ShutdownTunnels: empty both tables and shut down what was in them.
ShutdownTunnels ==
    /\ closed' = closed \cup {t \in Tunnels : table[t] # "none"}
    /\ table' = [t \in Tunnels |-> "none"]

-----------------------------------------------------------------------------
\* Client.HandleConnectRequest

\* The policy refuses, or the dial fails: send the refusal, without retry.
ConnectRefuse(t) ==
    /\ connect[t] = "dial"
    /\ \/ HostSend(Env("ConnectResponse", t, Refused))
       \/ ~HostCanSend /\ UNCHANGED toHelper
    /\ connect' = [connect EXCEPT ![t] = "refused"]
    /\ UNCHANGED <<toHost, hostEnd, helperEnd, hostLoop, closePc, table, recvCh,
                   closed, terminalOnce, overflow, relayVars, destVars>>

\* The policy approves and the dial succeeds: register the pending tunnel.
ConnectRegister(t) ==
    /\ connect[t] = "dial"
    /\ connect' = [connect EXCEPT ![t] = "respond"]
    /\ registerPendingTunnel(t)
    /\ UNCHANGED <<connVars, hostLoop, closePc, recvCh, closed, terminalOnce,
                   overflow, relayVars, destVars>>

\* Send the approval; when that fails, unregister and shut down.
ConnectRespond(t) ==
    /\ connect[t] = "respond"
    /\ \/ /\ HostSend(Env("ConnectResponse", t, Approved))
          /\ connect' = [connect EXCEPT ![t] = "activate"]
          /\ UNCHANGED <<table, closed>>
       \/ /\ ~HostCanSend
          /\ connect' = [connect EXCEPT ![t] = "done"]
          /\ closeTerminal(t)
          /\ UNCHANGED toHelper
    /\ UNCHANGED <<toHost, hostEnd, helperEnd, hostLoop, closePc, recvCh,
                   terminalOnce, overflow, relayVars, destVars>>

\* Mutant: activateTunnel does not look whether the tunnel is still pending.
ConnectActivateAlways(t) ==
    /\ connect[t] = "activate"
    /\ connect' = [connect EXCEPT ![t] = "done"]
    /\ table' = [table EXCEPT ![t] = "active"]
    /\ start(t)
    /\ UNCHANGED <<connVars, hostLoop, closePc, recvCh, closed, terminalOnce,
                   overflow, inChunk, destVars>>

\* activateTunnel and start, or shutdown when the tunnel is no longer pending.
ConnectActivate(t) ==
    /\ connect[t] = "activate"
    /\ connect' = [connect EXCEPT ![t] = "done"]
    /\ \/ activateTunnel(t) /\ start(t) /\ UNCHANGED closed
       \/ /\ table[t] # "pending"
          /\ shutdown(t)
          /\ UNCHANGED <<table, outRelay, inRelay>>
    /\ UNCHANGED <<connVars, hostLoop, closePc, recvCh, terminalOnce, overflow,
                   inChunk, destVars>>

-----------------------------------------------------------------------------
\* relayOutboundToTunnel

\* Read from the destination: a chunk, the end of its stream, or an error (which
\* is net.ErrClosed after a shutdown).  A read that times out is repeated.
OutRead(t) ==
    /\ outRelay[t] = "read"
    /\ \/ /\ t \notin closed
          /\ destSent[t] < MaxDown
          /\ destSent' = [destSent EXCEPT ![t] = @ + 1]
          /\ outRelay' = [outRelay EXCEPT ![t] = "send"]
          /\ UNCHANGED destEnded
       \/ /\ t \notin closed
          /\ destEnded' = destEnded \cup {t}
          /\ outRelay' = [outRelay EXCEPT ![t] = "eof"]
          /\ UNCHANGED destSent
       \/ /\ t \in closed
          /\ outRelay' = [outRelay EXCEPT ![t] = "done"]
          /\ UNCHANGED <<destSent, destEnded>>
       \/ /\ t \notin closed /\ "io" \in Faults
          /\ outRelay' = [outRelay EXCEPT ![t] = "error"]
          /\ UNCHANGED <<destSent, destEnded>>
    /\ UNCHANGED <<connVars, hostLoop, closePc, connect, table, recvCh, closed,
                   terminalOnce, overflow, inRelay, inChunk, destGot, destFin>>

\* Send the chunk, or the write-half close after the last one.
OutSend(t) ==
    /\ \/ /\ outRelay[t] = "send"
          /\ \/ /\ HostSend(Env("TunnelFrame", t, destSent[t]))
                /\ outRelay' = [outRelay EXCEPT ![t] = "read"]
             \/ /\ ~HostCanSend
                /\ outRelay' = [outRelay EXCEPT ![t] = "error"]
                /\ UNCHANGED toHelper
       \/ /\ outRelay[t] = "eof"
          /\ \/ HostSend(Env("WriteClose", t, 0))
             \/ ~HostCanSend /\ UNCHANGED toHelper
          /\ outRelay' = [outRelay EXCEPT ![t] = "done"]
    /\ UNCHANGED <<toHost, hostEnd, helperEnd, hostLoop, closePc, connect, table,
                   recvCh, closed, terminalOnce, overflow, inRelay, inChunk,
                   destVars>>

\* After an error: sendTerminalClose, ...
OutError(t) ==
    /\ outRelay[t] = "error"
    /\ sendTerminalClose(t)
    /\ outRelay' = [outRelay EXCEPT ![t] = "exit"]
    /\ UNCHANGED <<toHost, hostEnd, helperEnd, hostLoop, closePc, connect, table,
                   recvCh, closed, overflow, inRelay, inChunk, destVars>>

\* ... then closeTerminal.
OutExit(t) ==
    /\ outRelay[t] = "exit"
    /\ closeTerminal(t)
    /\ outRelay' = [outRelay EXCEPT ![t] = "done"]
    /\ UNCHANGED <<connVars, hostLoop, closePc, connect, recvCh, terminalOnce,
                   overflow, inRelay, inChunk, destVars>>

-----------------------------------------------------------------------------
\* relayTunnelToOutbound

\* The select of relayTunnelToOutbound takes an envelope: a frame to write, a
\* write-half close to pass on with CloseWrite (and then to go on), or the
\* terminal close.
InReceive(t) ==
    /\ inRelay[t] = "select"
    /\ recvCh[t] # <<>>
    /\ recvCh' = [recvCh EXCEPT ![t] = Tail(@)]
    /\ LET env == Head(recvCh[t])
       IN  \/ /\ env.kind = "TunnelFrame"
              /\ inRelay' = [inRelay EXCEPT ![t] = "write"]
              /\ inChunk' = [inChunk EXCEPT ![t] = env.n]
              /\ UNCHANGED destFin
           \/ /\ env.kind = "WriteClose"
              /\ \/ /\ t \notin closed
                    /\ destFin' = destFin \cup {t}
                    /\ UNCHANGED inRelay
                 \/ /\ t \in closed \/ "io" \in Faults
                    /\ inRelay' = [inRelay EXCEPT ![t] = "error"]
                    /\ UNCHANGED destFin
              /\ UNCHANGED inChunk
           \/ /\ env.kind = "TerminalClose"
              /\ inRelay' = [inRelay EXCEPT ![t] = "exit"]
              /\ UNCHANGED <<inChunk, destFin>>
    /\ UNCHANGED <<connVars, hostLoop, closePc, connect, table, closed,
                   terminalOnce, overflow, outRelay, destSent, destEnded,
                   destGot>>

\* ... or finds the tunnel closed.
InClosed(t) ==
    /\ inRelay[t] = "select"
    /\ t \in closed
    /\ inRelay' = [inRelay EXCEPT ![t] = "exit"]
    /\ UNCHANGED <<connVars, hostLoop, closePc, connect, table, recvCh, closed,
                   terminalOnce, overflow, outRelay, inChunk, destVars>>

\* writeAll: the destination takes the chunk, or the write fails (after 30
\* seconds at the latest, and always after a shutdown).
InWrite(t) ==
    /\ inRelay[t] = "write"
    /\ \/ /\ t \notin closed
          /\ destGot' = [destGot EXCEPT ![t] = Append(@, inChunk[t])]
          /\ inRelay' = [inRelay EXCEPT ![t] = "select"]
       \/ /\ t \in closed \/ "io" \in Faults
          /\ inRelay' = [inRelay EXCEPT ![t] = "error"]
          /\ UNCHANGED destGot
    /\ inChunk' = [inChunk EXCEPT ![t] = 0]
    /\ UNCHANGED <<connVars, hostLoop, closePc, connect, table, recvCh, closed,
                   terminalOnce, overflow, outRelay, destSent, destEnded,
                   destFin>>

InError(t) ==
    /\ inRelay[t] = "error"
    /\ sendTerminalClose(t)
    /\ inRelay' = [inRelay EXCEPT ![t] = "exit"]
    /\ UNCHANGED <<toHost, hostEnd, helperEnd, hostLoop, closePc, connect, table,
                   recvCh, closed, overflow, outRelay, inChunk, destVars>>

\* The deferred closeTerminal.
InExit(t) ==
    /\ inRelay[t] = "exit"
    /\ closeTerminal(t)
    /\ inRelay' = [inRelay EXCEPT ![t] = "done"]
    /\ UNCHANGED <<connVars, hostLoop, closePc, connect, recvCh, terminalOnce,
                   overflow, outRelay, inChunk, destVars>>

\* The goroutine of sendTerminalCloseAsync.
OverflowSend(t) ==
    /\ t \in overflow
    /\ sendTerminalClose(t)
    /\ overflow' = overflow \ {t}
    /\ UNCHANGED <<toHost, hostEnd, helperEnd, hostLoop, closePc, connect, table,
                   recvCh, closed, relayVars, destVars>>

-----------------------------------------------------------------------------
\* Client.ReadLoop and Client.Close

\* The host's descriptor after a read of ReadLoop returned.
AfterRead == IF hostEnd = "closing" THEN "closed" ELSE hostEnd

\* Queue an envelope for the relay.  A full recvCh ends the tunnel; ReadLoop
\* does not wait.
deliver(env) ==
    LET t == env.id
    IN  \/ t \in closed /\ UNCHANGED <<recvCh, table, closed, overflow>>
        \/ /\ t \notin closed /\ Len(recvCh[t]) < RecvCap
           /\ recvCh' = [recvCh EXCEPT ![t] = Append(@, env)]
           /\ UNCHANGED <<table, closed, overflow>>
        \/ /\ t \notin closed /\ Len(recvCh[t]) = RecvCap
           /\ overflow' = overflow \cup {t}
           /\ closeTerminal(t)
           /\ UNCHANGED recvCh

\* HandleTunnelFrame, HandleTunnelClose: deliver to the tunnel, if there is one.
HandleTunnel(env) ==
    \/ table[env.id] # "none" /\ deliver(env)
    \/ table[env.id] = "none" /\ UNCHANGED <<recvCh, table, closed, overflow>>

\* Decode one envelope and dispatch it; a ConnectRequest gets a goroutine.
HostDecode ==
    /\ hostLoop = "decode"
    /\ toHost # <<>>
    /\ toHost' = Tail(toHost)
    /\ hostEnd' = AfterRead
    /\ LET env == Head(toHost)
       IN  \/ /\ env.kind = "ConnectRequest"
              /\ connect' = [connect EXCEPT ![env.id] = "dial"]
              /\ UNCHANGED <<recvCh, table, closed, overflow>>
           \/ /\ env.kind \in TunnelKinds
              /\ HandleTunnel(env)
              /\ UNCHANGED connect
    /\ UNCHANGED <<toHelper, helperEnd, hostLoop, closePc, terminalOnce,
                   relayVars, destVars>>

\* Decode fails ...
HostDecodeError ==
    /\ hostLoop = "decode"
    /\ hostEnd = "closed" \/ (helperEnd = "closed" /\ toHost = <<>>)
    /\ hostLoop' = "fail"
    /\ hostEnd' = AfterRead
    /\ UNCHANGED <<toHelper, toHost, helperEnd, closePc, connect, table, recvCh,
                   closed, terminalOnce, overflow, relayVars, destVars>>

\* Mutant: ReadLoop returns without ShutdownTunnels.
HostLoopEndOnly ==
    /\ hostLoop = "fail"
    /\ hostLoop' = "done"
    /\ UNCHANGED <<connVars, closePc, connect, table, recvCh, closed,
                   terminalOnce, overflow, relayVars, destVars>>

\* ... and ReadLoop shuts the tunnels down before it returns.
HostLoopEnd ==
    /\ hostLoop = "fail"
    /\ ShutdownTunnels
    /\ hostLoop' = "done"
    /\ UNCHANGED <<connVars, closePc, connect, recvCh, terminalOnce, overflow,
                   relayVars, destVars>>

\* Close: shut the tunnels down, ...
CloseTunnels ==
    /\ "close" \in Faults
    /\ closePc = "open"
    /\ ShutdownTunnels
    /\ closePc' = "conn"
    /\ UNCHANGED <<connVars, hostLoop, connect, recvCh, terminalOnce, overflow,
                   relayVars, destVars>>

\* ... then close the file.  A ReadLoop inside read(2) keeps the descriptor.
CloseConn ==
    /\ closePc = "conn"
    /\ \/ hostEnd' = "closed"
       \/ hostLoop = "decode" /\ hostEnd = "open" /\ hostEnd' = "closing"
    /\ closePc' = "closed"
    /\ UNCHANGED <<toHelper, toHost, helperEnd, hostLoop, connect, table, recvCh,
                   closed, terminalOnce, overflow, relayVars, destVars>>

HostTunnelStep(t) ==
    \/ ConnectRefuse(t) \/ ConnectRegister(t) \/ ConnectRespond(t)
    \/ ConnectActivate(t)
    \/ OutRead(t) \/ OutSend(t) \/ OutError(t) \/ OutExit(t)
    \/ InReceive(t) \/ InClosed(t) \/ InWrite(t) \/ InError(t) \/ InExit(t)
    \/ OverflowSend(t)

HostNext ==
    \/ \E t \in Tunnels : HostTunnelStep(t)
    \/ HostDecode \/ HostDecodeError \/ HostLoopEnd
    \/ CloseTunnels \/ CloseConn
=============================================================================
