----------------------------- MODULE TunnelProto -----------------------------
(***************************************************************************)
(* The envelopes of CONNECT tunnels (internal/helperproto/messages.go), and *)
(* the parameters of the tunnel protocol.  A tunnel is identified with the  *)
(* envelope ID that RuntimeBridge.Connect draws from nextID.  The bytes of  *)
(* each direction are numbered chunks, one to a frame.                      *)
(***************************************************************************)
EXTENDS BridgeConn

CONSTANTS
    Tunnels,          \* the CONNECT requests of the payload
    RecvCap,          \* capacity of hostTunnel.recvCh (64)
    DeliveryCap,      \* capacity of tunnelDelivery.ch (32)
    MaxUp,            \* bound: chunks that the payload sends
    MaxDown,          \* bound: chunks that the destination sends
    Faults            \* bound: what may go wrong, a subset of AllFaults

\* A broken TCP connection, an expired handshake, Client.Close, an exit of the
\* helper.
AllFaults == {"io", "timeout", "close", "exit"}

ASSUME TunnelProtoAssumption ==
    /\ RecvCap \in Nat \ {0}
    /\ DeliveryCap \in Nat \ {0}
    /\ MaxUp \in Nat /\ MaxDown \in Nat
    /\ Faults \subseteq AllFaults

\* helperproto.Envelope.  TunnelClose is split by its Write field: WriteClose
\* closes one half, TerminalClose the tunnel.  n is the number of a TunnelFrame's
\* chunk and the verdict of a ConnectResponse.
Kinds == {"ConnectRequest", "ConnectResponse", "TunnelFrame", "WriteClose",
          "TerminalClose"}

TunnelKinds == {"TunnelFrame", "WriteClose", "TerminalClose"}

Envelope == [kind : Kinds, id : Tunnels, n : Nat]

Env(kind, id, n) == [kind |-> kind, id |-> id, n |-> n]

Refused == 0          \* ConnectResponse with an error status
Approved == 1         \* ConnectResponse with a 2xx status
=============================================================================
