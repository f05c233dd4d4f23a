---------------------------- MODULE TunnelStream ----------------------------
(***************************************************************************)
(* What a CONNECT tunnel promises to its two ends: in each direction a byte *)
(* stream.  Whatever is received was sent, in the same order and without    *)
(* gaps, and an end that is told by a half-close that the stream is over    *)
(* has received all of it.  A stream may stop at any time without being     *)
(* ended.                                                                   *)
(***************************************************************************)
EXTENDS Naturals, Sequences

CONSTANT Streams      \* one per tunnel and direction

VARIABLES
    sent,             \* how many chunks were sent on a stream
    ended,            \* the streams whose sender has closed its half
    got,              \* the chunks received
    fin               \* the streams whose receiver was told the end

streamVars == <<sent, ended, got, fin>>

Init ==
    /\ sent = [s \in Streams |-> 0]
    /\ ended = {}
    /\ got = [s \in Streams |-> <<>>]
    /\ fin = {}

Send(s) ==
    /\ s \notin ended
    /\ sent' = [sent EXCEPT ![s] = @ + 1]
    /\ UNCHANGED <<ended, got, fin>>

End(s) ==
    /\ ended' = ended \cup {s}
    /\ UNCHANGED <<sent, got, fin>>

Receive(s) ==
    /\ s \notin fin
    /\ Len(got[s]) < sent[s]
    /\ got' = [got EXCEPT ![s] = Append(@, Len(@) + 1)]
    /\ UNCHANGED <<sent, ended, fin>>

Finish(s) ==
    /\ s \in ended
    /\ Len(got[s]) = sent[s]
    /\ fin' = fin \cup {s}
    /\ UNCHANGED <<sent, ended, got>>

Next == \E s \in Streams : Send(s) \/ End(s) \/ Receive(s) \/ Finish(s)

Spec == Init /\ [][Next]_streamVars
=============================================================================
