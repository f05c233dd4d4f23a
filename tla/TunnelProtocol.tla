--------------------------- MODULE TunnelProtocol ---------------------------
(***************************************************************************)
(* CONNECT tunnels over one bridge: HostTunnel and HelperTunnel together.   *)
(***************************************************************************)
EXTENDS HostTunnel, HelperTunnel

vars == <<connVars, hostVars, helperVars>>

Init == ConnInit /\ HostInit /\ HelperInit

Next ==
    \/ HostNext /\ UNCHANGED helperVars
    \/ HelperNext /\ UNCHANGED hostVars

Spec == Init /\ [][Next]_vars

-----------------------------------------------------------------------------
\* Fairness: every goroutine that can take a step takes one.  Nothing is assumed
\* of what the destination and the payload send, nor that the payload reads; a
\* write to the destination ends within 30 seconds.  A helper whose bridge the
\* host has closed exits.

HostFair(t) ==
    /\ WF_vars((ConnectRefuse(t) \/ ConnectRegister(t)) /\ UNCHANGED helperVars)
    /\ WF_vars(ConnectRespond(t) /\ UNCHANGED helperVars)
    /\ WF_vars(ConnectActivate(t) /\ UNCHANGED helperVars)
    /\ WF_vars(t \in closed /\ OutRead(t) /\ UNCHANGED helperVars)
    /\ WF_vars((OutSend(t) \/ OutError(t) \/ OutExit(t)) /\ UNCHANGED helperVars)
    /\ WF_vars((InReceive(t) \/ InClosed(t) \/ InWrite(t) \/ InError(t)
                  \/ InExit(t)) /\ UNCHANGED helperVars)
    /\ WF_vars(OverflowSend(t) /\ UNCHANGED helperVars)

HelperFair(t) ==
    /\ WF_vars((ConnectSend(t) \/ ConnectAnswered(t) \/ ConnectTimeout(t)
                  \/ ConnectReply(t) \/ ConnectAbort(t) \/ ConnectDone(t))
                 /\ UNCHANGED hostVars)
    /\ WF_vars(t \in shut /\ UpRead(t) /\ UNCHANGED hostVars)
    /\ WF_vars((UpSend(t) \/ UpError(t) \/ UpExit(t)) /\ UNCHANGED hostVars)
    /\ WF_vars((DownReceive(t) \/ DownCancelled(t) \/ DownError(t)
                  \/ DownExit(t) \/ (t \in shut /\ DownWriteFails(t)))
                 /\ UNCHANGED hostVars)

Fairness ==
    /\ \A t \in Tunnels : HostFair(t) /\ HelperFair(t)
    /\ WF_vars((HostDecode \/ HostDecodeError \/ HostLoopEnd)
                 /\ UNCHANGED helperVars)
    /\ WF_vars(HelperDecode /\ UNCHANGED hostVars)
    /\ WF_vars(hostEnd # "open" /\ HelperExit /\ UNCHANGED hostVars)

FairSpec == Spec /\ Fairness

-----------------------------------------------------------------------------
\* The types of all variables; channels hold no more than they were made for.
TypeOK ==
    /\ toHelper \in Seq(Envelope) /\ toHost \in Seq(Envelope)
    /\ hostEnd \in {"open", "closing", "closed"}
    /\ helperEnd \in {"open", "closed"}
    /\ hostLoop \in {"decode", "fail", "done"}
    /\ closePc \in {"open", "conn", "closed"}
    /\ connect \in [Tunnels -> ConnectStates]
    /\ table \in [Tunnels -> {"none", "pending", "active"}]
    /\ recvCh \in [Tunnels -> Seq(Envelope)]
    /\ \A t \in Tunnels : Len(recvCh[t]) <= RecvCap
    /\ closed \subseteq Tunnels
    /\ terminalOnce \subseteq Tunnels
    /\ overflow \subseteq Tunnels
    /\ outRelay \in [Tunnels -> OutRelayStates]
    /\ inRelay \in [Tunnels -> InRelayStates]
    /\ inChunk \in [Tunnels -> Nat]
    /\ destSent \in [Tunnels -> Nat]
    /\ destEnded \subseteq Tunnels
    /\ destGot \in [Tunnels -> Seq(Nat)]
    /\ destFin \subseteq Tunnels
    /\ handle \in [Tunnels -> HandleStates]
    /\ pending \subseteq Tunnels
    /\ respCh \in [Tunnels -> Seq(Envelope)]
    /\ \A t \in Tunnels : Len(respCh[t]) <= 1
    /\ registered \subseteq Tunnels
    /\ tunnelCh \in [Tunnels -> Seq(Envelope)]
    /\ \A t \in Tunnels : Len(tunnelCh[t]) <= DeliveryCap
    /\ shut \subseteq Tunnels
    /\ upRelay \in [Tunnels -> UpRelayStates]
    /\ downRelay \in [Tunnels -> DownRelayStates]
    /\ downChunk \in [Tunnels -> Nat]
    /\ paySent \in [Tunnels -> Nat]
    /\ payEnded \subseteq Tunnels
    /\ payGot \in [Tunnels -> Seq(Nat)]
    /\ payFin \subseteq Tunnels

\* No tunnel without a successful handshake: the helper relays only for a tunnel
\* the host has approved, the host relays only after its approval was sent, and
\* nothing of a tunnel precedes that approval on the bridge.
HandshakeFirst ==
    \A t \in Tunnels :
      /\ upRelay[t] # "off" => connect[t] \in {"activate", "done"}
      /\ outRelay[t] # "off" =>
           handle[t] # "wait" \/ respCh[t] # <<>> \/ helperEnd = "closed"
             \/ Has(toHelper, "ConnectResponse", t)
      /\ \A kind \in TunnelKinds :
           Before(toHelper, "ConnectResponse", kind, t)

\* When ReadLoop has ended (the helper died, or Close), every outbound
\* connection a finished HandleConnectRequest opened is closed and no table has
\* an entry that is not about to be removed, although requests that were being
\* dialled at that moment go on to register their tunnels.
LoopEndReleasesTunnels ==
    hostLoop = "done" =>
      \A t \in Tunnels :
        /\ connect[t] = "done" => t \in closed /\ table[t] = "none"
        /\ table[t] # "none" => connect[t] = "respond" /\ ~HostCanSend

\* A tunnel lives between its approval and the end of the bridge: nothing is
\* relayed before the handshake (HandleConnect, HandleConnectRequest), when
\* ReadLoop has ended no connection and no table entry stays, and no queue ever
\* outgrows its capacity.
TunnelLifetime == TypeOK /\ HandshakeFirst /\ LoopEndReleasesTunnels

\* The refinement: the two directions of each tunnel are streams.
Stream == INSTANCE TunnelStream WITH
    Streams <- Tunnels \X {"up", "down"},
    sent <- [s \in Tunnels \X {"up", "down"} |->
               IF s[2] = "up" THEN paySent[s[1]] ELSE destSent[s[1]]],
    ended <- (payEnded \X {"up"}) \cup (destEnded \X {"down"}),
    got <- [s \in Tunnels \X {"up", "down"} |->
              IF s[2] = "up" THEN destGot[s[1]] ELSE payGot[s[1]]],
    fin <- (destFin \X {"up"}) \cup (payFin \X {"down"})

ImplementsStreams == Stream!Spec

-----------------------------------------------------------------------------
\* A tunnel the helper has given up with a terminal close is released by the
\* host, also when the bridge is breaking.
TerminalCloseReleasesHost ==
    \A t \in Tunnels :
      (upRelay[t] = "exit" \/ downRelay[t] = "exit") ~> t \in closed

\* When the helper dies, or has exited because of Close, the host gives up every
\* tunnel: no table entry and no outbound connection stays.
HelperDeathReleasesTunnels ==
    helperEnd = "closed" ~>
      \A t \in Tunnels : table[t] = "none" /\ (connect[t] = "done" => t \in closed)

=============================================================================
