------------------------------ MODULE MCBridge ------------------------------
(***************************************************************************)
(* Model-checking instances of what crosses the bridge besides runs.  A     *)
(* behaviour explores one of the Parts: "one", the tunnel the constants     *)
(* describe; "closing", a tunnel the host may close at any time; "pair",    *)
(* two tunnels that share a bridge; "trips", the round trips, which have a  *)
(* bridge of their own.  What a behaviour does not explore stays as Init    *)
(* leaves it, where no fair action is enabled.                              *)
(***************************************************************************)
EXTENDS TunnelProtocol, RoundTrips

CONSTANTS
    t1,               \* the tunnel of the behaviours that have but one
    Parts

VARIABLE part

Closing == INSTANCE TunnelProtocol WITH MaxUp <- 1, MaxDown <- 1, Faults <- {"close", "exit"}

Pair == INSTANCE TunnelProtocol WITH MaxUp <- 0, MaxDown <- 2, Faults <- {"timeout"}

\* The payload opens no tunnel but t1.
Alone == \A t \in Tunnels \ {t1} : handle'[t] # "request"

bridgeVars == <<part, vars, allTripVars>>

BridgeInit ==
    /\ part \in Parts
    /\ Init
    /\ TripsInit
    /\ part # "trips" => flow = CHOOSE f \in [Conns -> Flows] : TRUE

BridgeNext ==
    \/ part = "one" /\ Next /\ Alone /\ UNCHANGED <<part, allTripVars>>
    \/ part = "closing" /\ Closing!Next /\ Alone /\ UNCHANGED <<part, allTripVars>>
    \/ part = "pair" /\ Pair!Next /\ UNCHANGED <<part, allTripVars>>
    \/ part = "trips" /\ TripsNext /\ UNCHANGED <<part, vars>>

BridgeSpec == BridgeInit /\ [][BridgeNext]_bridgeVars

FairBridgeSpec == BridgeSpec /\ Fairness /\ TripsFairness

-----------------------------------------------------------------------------
\* A tunnel the helper gives up, or leaves behind when it dies, is released by
\* the host: TunnelProtocol.
HostReleasesTunnels == TerminalCloseReleasesHost /\ HelperDeathReleasesTunnels
=============================================================================
