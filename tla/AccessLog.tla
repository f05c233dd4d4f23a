------------------------------ MODULE AccessLog ------------------------------
(***************************************************************************)
(* What becomes of access events: recordAccessEvent (manager_audit.go),    *)
(* the three aggregates of a sandbox (accesslog.go, accesssummary.go), the *)
(* default logger, which holds its lines back when it writes to a terminal *)
(* (api.go), and ProxyManager.Close.  The goroutine of an event takes the  *)
(* time, then updates the aggregates under the manager's lock, then calls  *)
(* the logger without it.                                                  *)
(***************************************************************************)
EXTENDS Integers, Sequences, FiniteSets, FiniteSetsExt, TLC

CONSTANTS Tasks   \* goroutines that record one event each

VARIABLES clock, tasks, registered, audit, deferOutput, entries, lines, closing

vars == <<clock, tasks, registered, audit, deferOutput, entries, lines, closing>>

\* The host of an event as the service names it: bare or with a port.
Events ==
  {e \in [kind : {"http", "mitm", "connect", "transparent_connect", "dns"},
          host : {<<"a">>, <<"a", 443>>, <<"b">>}, port : {80}, allowed : BOOLEAN, policyAllowed : BOOLEAN] :
     /\ e.kind \in {"connect", "dns"} => e.host # <<"a", 443>>
     /\ e.kind \in {"transparent_connect", "mitm"} => e.host = <<"a", 443>>
     /\ e.kind = "http" => e.host # <<"b">>
     \* only the policy denies these kinds
     /\ e.kind \in {"connect", "transparent_connect", "dns"} => (e.policyAllowed => e.allowed)}

normalizeHostPort(e) == <<e.host[1], IF Len(e.host) = 2 THEN e.host[2] ELSE e.port>>

Empty == [domains |-> <<>>, hosts |-> <<>>, requests |-> <<>>]

Init ==
  /\ clock = 0
  /\ tasks = [t \in Tasks |-> [pc |-> "idle"]]
  /\ registered = TRUE
  /\ audit = Empty
  /\ deferOutput \in BOOLEAN
  /\ entries = <<>>
  /\ lines = <<>>
  /\ closing = "open"

\* entry, or what a key that is not in the map starts with
At(map, key, new) == IF key \in DOMAIN map THEN map[key] ELSE new

Count(b) == IF b THEN 1 ELSE 0

recordAccessedDomain(map, e) ==
  LET host == normalizeHostPort(e)[1]
      old == At(map, host, [attempts |-> 0, lastSeen |-> 0, seen |-> {}])
  IN (host :> [attempts |-> old.attempts + 1, lastSeen |-> e.time,
               seen |-> old.seen \cup ({e.kind} \cap {"connect", "http", "mitm"})]) @@ map

recordHostSummaryAggregate(map, e) ==
  LET host == normalizeHostPort(e)[1]
      old == At(map, host, [attempts |-> 0, lastSeen |-> 0, seen |-> {}, allowed |-> 0, denied |-> 0])
  IN (host :> [attempts |-> old.attempts + 1, lastSeen |-> e.time,
               seen |-> old.seen \cup {IF e.kind = "transparent_connect" THEN "connect" ELSE e.kind},
               allowed |-> old.allowed + Count(e.policyAllowed),
               denied |-> old.denied + Count(~ e.policyAllowed)]) @@ map

requestAggregateKey(e) == <<e.kind>> \o normalizeHostPort(e)

\* Mutant: the row of a new request starts with its event not counted.
recordRequestAggregateLate(map, e) ==
  LET key == requestAggregateKey(e)
      new == [attempts |-> 0, lastSeen |-> e.time, allowed |-> 0, policyAllowed |-> 0]
  IN IF key \notin DOMAIN map THEN (key :> new) @@ map
     ELSE (key :> [map[key] EXCEPT !.attempts = @ + 1, !.lastSeen = e.time,
                                   !.allowed = @ + Count(e.allowed),
                                   !.policyAllowed = @ + Count(e.policyAllowed)]) @@ map

recordRequestAggregate(map, e) ==
  LET key == requestAggregateKey(e)
      old == At(map, key, [attempts |-> 0, lastSeen |-> 0, allowed |-> 0, policyAllowed |-> 0])
  IN (key :> [attempts |-> old.attempts + 1, lastSeen |-> e.time,
              allowed |-> old.allowed + Count(e.allowed),
              policyAllowed |-> old.policyAllowed + Count(e.policyAllowed)]) @@ map

updateAuditStateLocked(a, e) ==
  [domains |-> recordAccessedDomain(a.domains, e),
   hosts |-> recordHostSummaryAggregate(a.hosts, e),
   requests |-> recordRequestAggregate(a.requests, e)]

Stamp(t) ==
  /\ tasks[t].pc = "idle"
  /\ clock' = clock + 1
  /\ \E e \in Events : tasks' = [tasks EXCEPT ![t] = [pc |-> "stamped", event |-> e @@ [time |-> clock']]]
  /\ UNCHANGED <<registered, audit, deferOutput, entries, lines, closing>>

\* The part under the lock: an event of a sandbox that is gone is dropped.
recordAccessEvent(t) ==
  /\ tasks[t].pc = "stamped"
  /\ tasks' = [tasks EXCEPT ![t].pc = IF registered THEN "log" ELSE "dropped"]
  /\ audit' = IF registered THEN updateAuditStateLocked(audit, tasks[t].event) ELSE audit
  /\ UNCHANGED <<clock, registered, deferOutput, entries, lines, closing>>

LogAccess(t) ==
  /\ tasks[t].pc = "log"
  /\ tasks' = [tasks EXCEPT ![t].pc = "logged"]
  /\ IF deferOutput THEN entries' = Append(entries, t) /\ UNCHANGED lines
                    ELSE lines' = Append(lines, t) /\ UNCHANGED entries
  /\ UNCHANGED <<clock, registered, audit, deferOutput, closing>>

\* ProxyManager.Close: the sandboxes, then the logger, then the audit state.
CloseSandboxes ==
  /\ closing = "open"
  /\ closing' = "flush"
  /\ registered' = FALSE
  /\ audit' = Empty
  /\ UNCHANGED <<clock, tasks, deferOutput, entries, lines>>

Flush ==
  /\ closing = "flush"
  /\ closing' = "closed"
  /\ IF deferOutput THEN lines' = lines \o entries /\ entries' = <<>> ELSE UNCHANGED <<lines, entries>>
  /\ UNCHANGED <<clock, tasks, registered, audit, deferOutput>>

Next ==
  \/ \E t \in Tasks : Stamp(t) \/ recordAccessEvent(t) \/ LogAccess(t)
  \/ CloseSandboxes
  \/ Flush

Spec == Init /\ [][Next]_vars

----------------------------------------------------------------------------
(* The three views of a sandbox's accesses tell the same story: for every   *)
(* host, AccessedDomains, the host rows and the request rows count the same *)
(* attempts, the policy counts of the host are those of its requests, and   *)
(* no view has seen the host later than another.                            *)
ViewsAgree ==
  /\ DOMAIN audit.domains = DOMAIN audit.hosts
  /\ \A h \in DOMAIN audit.hosts :
       LET row == audit.hosts[h]
           rows == {k \in DOMAIN audit.requests : k[2] = h}
       IN /\ row.attempts = audit.domains[h].attempts
          /\ row.attempts = row.allowed + row.denied
          /\ row.attempts = MapThenSumSet(LAMBDA k : audit.requests[k].attempts, rows)
          /\ row.allowed = MapThenSumSet(LAMBDA k : audit.requests[k].policyAllowed, rows)
          /\ row.lastSeen = audit.domains[h].lastSeen
          /\ \E k \in rows : audit.requests[k].lastSeen = row.lastSeen

(* Nothing is reported twice, and without deferral nothing is held back:    *)
(* the lines and the held entries are the logged events, once each.         *)
LinesAreExact ==
  /\ Len(lines) + Len(entries) = Cardinality({t \in Tasks : tasks[t].pc = "logged"})
  /\ {lines[i] : i \in DOMAIN lines} \cup {entries[i] : i \in DOMAIN entries} = {t \in Tasks : tasks[t].pc = "logged"}
=============================================================================
