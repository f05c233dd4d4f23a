------------------------------ MODULE MITMCerts ------------------------------
(***************************************************************************)
(* The certificate authority of a manager with MITM (mitm.go): made with   *)
(* the manager, trusted by the sandboxes it stages, and asked for a leaf   *)
(* by every intercepted connection.  Time passes in steps of Tick hours.   *)
(***************************************************************************)
EXTENDS Integers, FiniteSets

CONSTANTS Tick,       \* hours between two looks at the clock
          Lifetime,   \* hours the manager is used
          MaxServed   \* connections looked at

VARIABLES clock, ca, leafCache, serials, served

vars == <<clock, ca, leafCache, serials, served>>

\* A host as the client spells it, and the host it names.
Spellings == {[text |-> "a.test", host |-> "a.test"], [text |-> "A.test", host |-> "a.test"],
              [text |-> "b.test", host |-> "b.test"], [text |-> " ", host |-> ""]}

Days(n) == 24 * n

newMITMCA(now) == [notBefore |-> now - 1, notAfter |-> now + Days(7)]

Init ==
  /\ clock = 0
  /\ ca = newMITMCA(clock)
  /\ leafCache = [h \in {} |-> 0]
  /\ serials = 0
  /\ served = {}

newLeaf(host, serial) == [host |-> host, serial |-> serial, notBefore |-> clock - 1, notAfter |-> clock + Days(1)]

Serve(spelling, leaf) ==
  served' = served \cup {[leaf |-> leaf, asked |-> spelling.host, at |-> clock, chain |-> ca]}

\* Mutant: the cache is searched before the host is normalized.
LeafForHostAsSpelled(s) ==
  /\ s.host # ""
  /\ Cardinality(served) < MaxServed
  /\ IF s.text \in DOMAIN leafCache
     THEN Serve(s, leafCache[s.text]) /\ UNCHANGED <<leafCache, serials>>
     ELSE LET leaf == newLeaf(s.host, serials + 1)
          IN /\ serials' = serials + 1
             /\ leafCache' = [h \in DOMAIN leafCache \cup {s.text} |-> IF h = s.text THEN leaf ELSE leafCache[h]]
             /\ Serve(s, leaf)
  /\ UNCHANGED <<clock, ca>>

\* Under the lock: a leaf of the cache is returned whatever its age.
LeafForHost(s) ==
  /\ s.host # ""
  /\ Cardinality(served) < MaxServed
  /\ IF s.host \in DOMAIN leafCache
     THEN Serve(s, leafCache[s.host]) /\ UNCHANGED <<leafCache, serials>>
     ELSE LET leaf == newLeaf(s.host, serials + 1)
          IN /\ serials' = serials + 1
             /\ leafCache' = [h \in DOMAIN leafCache \cup {s.host} |-> IF h = s.host THEN leaf ELSE leafCache[h]]
             /\ Serve(s, leaf)
  /\ UNCHANGED <<clock, ca>>

Pass ==
  /\ clock + Tick <= Lifetime
  /\ clock' = clock + Tick
  /\ UNCHANGED <<ca, leafCache, serials, served>>

Next == Pass \/ \E s \in Spellings : LeafForHost(s)

Spec == Init /\ [][Next]_vars

----------------------------------------------------------------------------
(* Every connection to a host gets a leaf for that host, and all of them    *)
(* the same one, however the clients spell the host and whenever they come. *)
OneLeafPerHost ==
  /\ \A s \in served : s.leaf.host = s.asked
  /\ \A s, t \in served : s.asked = t.asked => s.leaf.serial = t.leaf.serial

=============================================================================
