----------------------------- MODULE BridgeConn -----------------------------
(***************************************************************************)
(* The control bridge: the unix socketpair sandbox_runtime.go opens between *)
(* the host process and the helper, and the gob streams both ends lay over  *)
(* it.  The kernel and encoding/gob are not part of the repository; they    *)
(* are modelled from the way both ends use them.                            *)
(*                                                                          *)
(*  - each direction is a reliable FIFO queue of envelopes of bounded       *)
(*    capacity; a writer that finds it full waits (holding its sendMu);     *)
(*  - once the peer's descriptor is gone a write fails, and a read returns  *)
(*    the envelopes that are still queued and then EOF;                     *)
(*  - the descriptors are blocking ones, so closing the host's os.File does *)
(*    not interrupt a ReadLoop that sits in read(2): the file refuses new   *)
(*    operations ("closing") and the descriptor goes away ("closed") when   *)
(*    that read returns.                                                    *)
(***************************************************************************)
EXTENDS Naturals, Sequences

CONSTANT SockCap      \* envelopes a socket buffer holds

ASSUME SockCapAssumption == SockCap \in Nat \ {0}

VARIABLES
    toHelper,         \* envelopes on their way from the host to the helper
    toHost,           \* envelopes on their way from the helper to the host
    hostEnd,          \* the host's end: "open", "closing", "closed"
    helperEnd         \* the helper's end: "open", "closed"

connVars == <<toHelper, toHost, hostEnd, helperEnd>>

ConnInit ==
    /\ toHelper = <<>>
    /\ toHost = <<>>
    /\ hostEnd = "open"
    /\ helperEnd = "open"

\* A write of the host would succeed (once there is room for it).
HostCanSend == hostEnd = "open" /\ helperEnd = "open"

\* A write of the helper would succeed (once there is room for it).
HelperCanSend == helperEnd = "open" /\ hostEnd # "closed"

\* Client.send: Encode under sendMu.
HostSend(env) ==
    /\ HostCanSend
    /\ Len(toHelper) < SockCap
    /\ toHelper' = Append(toHelper, env)

\* RuntimeBridge.Send: Encode under sendMu.
HelperSend(env) ==
    /\ HelperCanSend
    /\ Len(toHost) < SockCap
    /\ toHost' = Append(toHost, env)

\* The helper's write when its error, if any, is only logged.
HelperTrySend(env) ==
    \/ HelperSend(env)
    \/ ~HelperCanSend /\ UNCHANGED toHost

-----------------------------------------------------------------------------
(* What can be said of the envelopes waiting in one direction of the bridge.
   An envelope has a kind, an id and a number n.                          *)

Is(e, kind, id) == e.kind = kind /\ e.id = id

Has(q, kind, id) == \E i \in DOMAIN q : Is(q[i], kind, id)

Once(q, kind, id) ==
    \A i, j \in DOMAIN q : Is(q[i], kind, id) /\ Is(q[j], kind, id) => i = j

\* The envelopes of one kind precede those of another.
Before(q, first, second, id) ==
    \A i, j \in DOMAIN q : Is(q[i], first, id) /\ Is(q[j], second, id) => i < j

\* The envelopes of a kind are numbered lo + 1 to hi, in this order.
Numbered(q, kind, id, lo, hi) ==
    /\ lo <= hi
    /\ \A i \in DOMAIN q : Is(q[i], kind, id) => q[i].n \in lo + 1 .. hi
    /\ \A i, j \in DOMAIN q :
         Is(q[i], kind, id) /\ Is(q[j], kind, id) /\ i < j => q[i].n < q[j].n
    /\ \A m \in lo + 1 .. hi : \E i \in DOMAIN q : Is(q[i], kind, id) /\ q[i].n = m
=============================================================================
