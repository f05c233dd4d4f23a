--------------------------- MODULE LifecycleProofs ---------------------------
(***************************************************************************)
(* What is set up and torn down around a run is sound for any number of    *)
(* calls, threads and notifications: the turns of the seccomp supervisor   *)
(* (NotifyQueue), NewSandbox and Close (SandboxLifecycle), and the end of  *)
(* a helper process (HelperExit).                                          *)
(***************************************************************************)
EXTENDS MCLifecycle, FiniteSetTheorems, TLAPS

-----------------------------------------------------------------------------
(* The turns of notifications.  A handler waits for the tail of its        *)
(* thread's queue at the time it was received, not for all the handlers    *)
(* before it; that is enough because a handler whose turn is over has none *)
(* before it whose turn is not.                                            *)

HandlerStates == {"none", "turn", "work", "respond", "release", "unlock", "done"}

\* States of a handler whose doneCh is still open.
Pending == {"turn", "work", "respond", "release"}

\* The handlers of t that the queue counts, by owners and states of handlers.
Waiting(t, own, h) == {n \in DOMAIN own : own[n] = t /\ h[n] \notin {"none", "done"}}

TypeInv ==
    /\ made \in 0 .. MaxNotifs
    /\ owner \in Seq(Threads) /\ Len(owner) = made
    /\ kernel \subseteq 1 .. made
    /\ handler \in [Notifs -> HandlerStates]
    /\ waitFor \in [Notifs -> Nat] /\ tails \in [Threads -> Nat] /\ refs \in [Threads -> Int]

\* Notifications are received in order.
ReceivedInv == \A n \in Notifs : handler[n] # "none" => n <= made /\ \A k \in kernel : n < k

\* The tail of a queue is a notification of the thread, behind all that are pending.
TailInv ==
    /\ \A t \in Threads : tails[t] # 0 =>
         tails[t] \in 1 .. made /\ owner[tails[t]] = t /\ handler[tails[t]] # "none"
    /\ \A n \in 1 .. made : handler[n] \in Pending => n <= tails[owner[n]]

\* A handler waits for one that is behind all that were pending before it.
WaitInv ==
    \A n, m \in 1 .. made : n < m /\ owner[n] = owner[m] /\ handler[n] \in Pending /\ handler[m] # "none" =>
        /\ waitFor[m] \in n .. m - 1
        /\ owner[waitFor[m]] = owner[m]

\* Turns end in order.
OrderInv ==
    \A n, m \in 1 .. made : n < m /\ owner[n] = owner[m] /\ handler[m] \notin {"none", "turn"} =>
        handler[n] \notin Pending

RefsInv == \A t \in Threads : refs[t] = Cardinality(Waiting(t, owner, handler))

TurnInv == TypeInv /\ ReceivedInv /\ TailInv /\ WaitInv /\ OrderInv /\ RefsInv

\* The loop runs, and so do handlers, only between Start and the end of Close.
LoopInv ==
    /\ loop \in {"off", "poll", "wait", "done"}
    /\ phase \in {"new", "prepared", "launched"} => loop = "off"
    /\ loop \in {"poll", "wait"} => "control" \in open /\ phase \in {"serving", "closing"}
    /\ loop \in {"off", "done"} => \A n \in Notifs : handler[n] \in {"none", "done"}
    /\ phase = "closed" => open = {}

-----------------------------------------------------------------------------
\* Facts about types that the steps below need.
LEMMA TypeFacts ==
  ASSUME MaxNotifs \in Nat, TypeInv
  PROVE  /\ made \in Nat /\ DOMAIN owner = 1 .. made /\ 1 .. made \subseteq Notifs
         /\ \A n \in 1 .. made : n \in Nat /\ owner[n] \in Threads
         /\ \A t \in Threads : IsFiniteSet(Waiting(t, owner, handler))
<1>1. /\ made \in Nat /\ DOMAIN owner = 1 .. made /\ 1 .. made \subseteq Notifs
      /\ \A n \in 1 .. made : n \in Nat /\ owner[n] \in Threads
  BY DEF TypeInv, Notifs
<1>2. IsFiniteSet(1 .. made)
  BY <1>1, FS_Interval
<1>3. \A t \in Threads : Waiting(t, owner, handler) \in SUBSET (1 .. made)
  BY <1>1, Zenon DEF Waiting
<1> QED
  BY <1>1, <1>2, <1>3, FS_Subset, Zenon

\* Nothing happens to the notifications, or some are withdrawn.
LEMMA TurnFrame ==
  ASSUME TurnInv, UNCHANGED <<turnVars, made, owner>>, kernel' \subseteq kernel
  PROVE  TurnInv'
<1>1. TypeInv'
  BY Zenon DEF TurnInv, TypeInv, turnVars
<1>2. ReceivedInv' /\ TailInv' /\ WaitInv' /\ OrderInv' /\ RefsInv'
  BY DEF TurnInv, ReceivedInv, TailInv, WaitInv, OrderInv, RefsInv, turnVars
<1> QED
  BY <1>1, <1>2, Zenon DEF TurnInv

\* A thread makes a new notification, the youngest of all.
LEMMA TurnSyscall ==
  ASSUME MaxNotifs \in Nat, TurnInv, NEW t \in Threads, Syscall(t)
  PROVE  TurnInv'
<1>0. TypeInv /\ made \in Nat /\ DOMAIN owner = 1 .. made /\ 1 .. made \subseteq Notifs
  BY TypeFacts, Zenon DEF TurnInv
<1>1. /\ made < MaxNotifs /\ made' = made + 1 /\ owner' = Append(owner, t)
      /\ kernel' = kernel \cup {made'} /\ UNCHANGED <<handler, waitFor, tails, refs>>
  BY Zenon DEF Syscall, turnVars
<1>2. /\ owner' \in Seq(Threads) /\ Len(owner') = made' /\ DOMAIN owner' = 1 .. made'
      /\ \A n \in 1 .. made : owner'[n] = owner[n]
  BY <1>0, <1>1 DEF TypeInv
<1>3. TypeInv'
  BY <1>0, <1>1, <1>2 DEF TypeInv
<1>4. ReceivedInv'
  BY <1>0, <1>1 DEF TurnInv, ReceivedInv, Notifs
<1>5. made' \in Notifs /\ handler[made'] = "none"
  BY <1>0, <1>1 DEF TurnInv, ReceivedInv, Notifs
<1>6. \A n \in 1 .. made' : handler[n] # "none" => n \in 1 .. made
  BY <1>0, <1>1, <1>5
<1>7. TailInv'
  <2>1. \A u \in Threads : tails[u] # 0 =>
           tails[u] \in 1 .. made' /\ owner'[tails[u]] = u /\ handler[tails[u]] # "none"
    BY <1>0, <1>1, <1>2 DEF TurnInv, TailInv
  <2>2. \A n \in 1 .. made' : handler[n] \in Pending => n <= tails[owner'[n]]
    BY <1>2, <1>6, Zenon DEF TurnInv, TailInv, Pending
  <2> QED
    BY <1>1, <2>1, <2>2, Zenon DEF TailInv
<1>8. WaitInv'
  <2> SUFFICES ASSUME NEW n \in 1 .. made', NEW m \in 1 .. made', n < m, owner'[n] = owner'[m],
                      handler[n] \in Pending, handler[m] # "none"
               PROVE  waitFor[m] \in n .. m - 1 /\ owner'[waitFor[m]] = owner'[m]
    BY <1>1, Zenon DEF WaitInv
  <2>1. n \in 1 .. made /\ m \in 1 .. made
    BY <1>6, Zenon DEF Pending
  <2>2. waitFor[m] \in n .. m - 1 /\ owner[waitFor[m]] = owner[m]
    BY <1>2, <2>1, Zenon DEF TurnInv, WaitInv
  <2>3. waitFor[m] \in 1 .. made
    BY <1>0, <2>1, <2>2
  <2> QED
    BY <1>2, <2>1, <2>2, <2>3, Zenon
<1>9. OrderInv'
  BY <1>0, <1>1, <1>2, <1>6 DEF TurnInv, OrderInv, Pending
<1>10. RefsInv'
  <2>1. ASSUME NEW u \in Threads PROVE Waiting(u, owner', handler) = Waiting(u, owner, handler)
    <3>1. \A n : n \in Waiting(u, owner', handler) =>
                n \in 1 .. made /\ owner[n] = u /\ handler[n] \notin {"none", "done"}
      BY <1>2, <1>6 DEF Waiting
    <3>2. \A n : n \in Waiting(u, owner, handler) =>
                n \in 1 .. made' /\ owner'[n] = u /\ handler[n] \notin {"none", "done"}
      BY <1>0, <1>1, <1>2 DEF Waiting
    <3> QED
      BY <1>0, <1>2, <3>1, <3>2 DEF Waiting
  <2> QED
    BY <1>1, <2>1, Zenon DEF TurnInv, RefsInv
<1> QED
  BY <1>3, <1>4, <1>7, <1>8, <1>9, <1>10, Zenon DEF TurnInv

\* A notification is received: it waits for the tail and becomes the tail.
LEMMA TurnReceive ==
  ASSUME MaxNotifs \in Nat, TurnInv, Receive
  PROVE  TurnInv'
<1>0. /\ TypeInv /\ made \in Nat /\ DOMAIN owner = 1 .. made /\ 1 .. made \subseteq Notifs
      /\ \A n \in 1 .. made : n \in Nat /\ owner[n] \in Threads
  BY TypeFacts, Zenon DEF TurnInv
<1>1. PICK k \in kernel : /\ \A m \in kernel : k <= m
                          /\ enqueueNotificationTurn(k)
                          /\ handler' = [handler EXCEPT ![k] = "turn"]
                          /\ kernel' = kernel \ {k}
  BY Zenon DEF Receive
<1>2. k \in 1 .. made /\ k \in Notifs /\ k \in Nat /\ owner[k] \in Threads
  BY <1>0, Zenon DEF TypeInv
<1>3. /\ waitFor' = [waitFor EXCEPT ![k] = tails[owner[k]]]
      /\ tails' = [tails EXCEPT ![owner[k]] = k]
      /\ refs' = [refs EXCEPT ![owner[k]] = @ + 1]
      /\ UNCHANGED <<made, owner>>
  BY <1>1, Zenon DEF Receive, enqueueNotificationTurn
<1>4. /\ handler'[k] = "turn" /\ handler[k] = "none"
      /\ \A n \in Notifs \ {k} : handler'[n] = handler[n] /\ waitFor'[n] = waitFor[n]
      /\ waitFor'[k] = tails[owner[k]] /\ tails'[owner[k]] = k
      /\ \A t \in Threads \ {owner[k]} : tails'[t] = tails[t] /\ refs'[t] = refs[t]
      /\ refs'[owner[k]] = refs[owner[k]] + 1
  BY <1>0, <1>1, <1>2, <1>3 DEF TurnInv, TypeInv, ReceivedInv
<1>5. TypeInv'
  <2>1. handler' \in [Notifs -> HandlerStates] /\ kernel' \subseteq 1 .. made
    BY <1>0, <1>1 DEF TypeInv, HandlerStates
  <2>2. waitFor' \in [Notifs -> Nat] /\ tails' \in [Threads -> Nat]
    BY <1>0, <1>2, <1>3 DEF TypeInv
  <2>3. refs' \in [Threads -> Int]
    BY <1>0, <1>2, <1>3 DEF TypeInv
  <2> QED
    BY <1>0, <1>3, <2>1, <2>2, <2>3, Zenon DEF TypeInv
<1>6. \A n \in Notifs : handler[n] # "none" => n < k
  BY <1>1, Zenon DEF TurnInv, ReceivedInv
<1>7. \A m \in kernel' : k < m
  BY <1>0, <1>1, <1>2 DEF TypeInv
<1>8. ReceivedInv'
  BY <1>1, <1>2, <1>3, <1>4, <1>7 DEF TurnInv, ReceivedInv
<1>9. TailInv'
  <2>1. ASSUME NEW t \in Threads, tails'[t] # 0
        PROVE  tails'[t] \in 1 .. made /\ owner[tails'[t]] = t /\ handler'[tails'[t]] # "none"
    <3>1. CASE t = owner[k]
      BY <1>2, <1>4, <3>1
    <3>2. CASE t # owner[k]
      <4>1. tails[t] \in 1 .. made /\ owner[tails[t]] = t /\ handler[tails[t]] # "none" /\ tails'[t] = tails[t]
        BY <1>4, <2>1, <3>2 DEF TurnInv, TailInv
      <4> QED
        BY <1>0, <1>4, <4>1, Zenon
    <3> QED
      BY <3>1, <3>2, Zenon
  <2>2. ASSUME NEW n \in 1 .. made, handler'[n] \in Pending PROVE n <= tails'[owner[n]]
    <3>1. CASE n = k
      BY <1>2, <1>4, <3>1
    <3>2. CASE n # k
      <4>1. handler[n] \in Pending /\ n <= tails[owner[n]] /\ n < k /\ owner[n] \in Threads
        BY <1>0, <1>4, <1>6, <2>2, <3>2, Zenon DEF TurnInv, TailInv, Pending
      <4> QED
        BY <1>0, <1>2, <1>4, <4>1
    <3> QED
      BY <3>1, <3>2
  <2> QED
    BY <1>3, <2>1, <2>2, Zenon DEF TailInv
<1>10. WaitInv'
  <2> SUFFICES ASSUME NEW n \in 1 .. made, NEW m \in 1 .. made, n < m, owner[n] = owner[m],
                      handler'[n] \in Pending, handler'[m] # "none"
               PROVE  waitFor'[m] \in n .. m - 1 /\ owner[waitFor'[m]] = owner[m]
    BY <1>3 DEF WaitInv
  <2>1. n # k /\ handler[n] \in Pending
    <3>1. CASE m = k
      BY <1>0, <1>2, <1>4, <3>1
    <3>2. CASE m # k
      <4>1. m < k
        BY <1>0, <1>4, <1>6, <3>2, Zenon
      <4> QED
        BY <1>0, <1>2, <1>4, <4>1
    <3> QED
      BY <3>1, <3>2, Zenon
  <2>2. CASE m = k
    <3>1. n <= tails[owner[k]] /\ tails[owner[k]] \in Nat
      BY <1>0, <1>2, <2>1, <2>2, Zenon DEF TurnInv, TailInv, TypeInv
    <3>2. tails[owner[k]] # 0
      BY <1>0, <3>1
    <3>3. /\ tails[owner[k]] \in 1 .. made /\ owner[tails[owner[k]]] = owner[k]
          /\ handler[tails[owner[k]]] # "none"
      BY <1>2, <3>2 DEF TurnInv, TailInv
    <3>4. tails[owner[k]] < k
      BY <1>0, <1>6, <3>3, Zenon
    <3> QED
      BY <1>0, <1>2, <1>4, <2>2, <3>1, <3>3, <3>4
  <2>3. CASE m # k
    BY <1>0, <1>4, <2>1, <2>3 DEF TurnInv, WaitInv
  <2> QED
    BY <2>2, <2>3
<1>11. OrderInv'
  <2> SUFFICES ASSUME NEW n \in 1 .. made, NEW m \in 1 .. made, n < m, owner[n] = owner[m],
                      handler'[m] \notin {"none", "turn"}
               PROVE  handler'[n] \notin Pending
    BY <1>3, Zenon DEF OrderInv
  <2>1. m # k /\ handler[m] \notin {"none", "turn"}
    BY <1>0, <1>4
  <2>2. n # k
    BY <1>0, <1>2, <1>6, <2>1
  <2> QED
    BY <1>0, <1>4, <2>1, <2>2, Zenon DEF TurnInv, OrderInv
<1>12. RefsInv'
  <2> SUFFICES ASSUME NEW t \in Threads PROVE refs'[t] = Cardinality(Waiting(t, owner, handler'))
    BY <1>3, Zenon DEF RefsInv
  <2>1. CASE t # owner[k]
    <3>1. Waiting(t, owner, handler') = Waiting(t, owner, handler)
      BY <1>0, <1>4, <2>1, Zenon DEF Waiting
    <3> QED
      BY <1>4, <2>1, <3>1, Zenon DEF TurnInv, RefsInv
  <2>2. CASE t = owner[k]
    <3>1. Waiting(t, owner, handler') = Waiting(t, owner, handler) \cup {k} /\ k \notin Waiting(t, owner, handler)
      BY <1>0, <1>2, <1>4, <2>2 DEF Waiting
    <3>2. Cardinality(Waiting(t, owner, handler')) = Cardinality(Waiting(t, owner, handler)) + 1
      BY <1>0, <3>1, TypeFacts, FS_AddElement, Zenon
    <3> QED
      BY <1>4, <2>2, <3>2, Zenon DEF TurnInv, RefsInv
  <2> QED
    BY <2>1, <2>2
<1> QED
  BY <1>5, <1>8, <1>9, <1>10, <1>11, <1>12, Zenon DEF TurnInv

\* A handler takes its next step; before a turn begins and after it ends nothing
\* else changes.
LEMMA TurnAdvance ==
  ASSUME MaxNotifs \in Nat, TurnInv, NEW k \in Notifs, NEW st \in HandlerStates \ {"none", "done"},
         handler[k] \notin {"none", "done", "unlock"}, handler' = [handler EXCEPT ![k] = st],
         UNCHANGED <<kernel, made, owner, waitFor, tails, refs>>,
         st = "turn" => handler[k] = "turn",
         handler[k] = "turn" => \A n \in 1 .. made :
           n < k /\ owner[n] = owner[k] => handler[n] \notin Pending
  PROVE  TurnInv'
<1>0. /\ TypeInv /\ made \in Nat /\ DOMAIN owner = 1 .. made /\ 1 .. made \subseteq Notifs /\ k \in 1 .. made
  BY TypeFacts DEF TurnInv, ReceivedInv, Notifs
<1>1. handler'[k] = st /\ \A n \in Notifs \ {k} : handler'[n] = handler[n]
  BY <1>0, Zenon DEF TypeInv
<1>2. \A n \in Notifs : /\ handler'[n] # "none" <=> handler[n] # "none"
                        /\ handler'[n] \in Pending => handler[n] \in Pending
                        /\ handler'[n] \in {"none", "done"} <=> handler[n] \in {"none", "done"}
  BY <1>0, <1>1, Zenon DEF TypeInv, Pending, HandlerStates
<1>3. TypeInv'
  BY <1>0, Zenon DEF TypeInv
<1>4. ReceivedInv' /\ TailInv' /\ WaitInv'
  BY <1>0, <1>2 DEF TurnInv, ReceivedInv, TailInv, WaitInv
<1>5. OrderInv'
  <2> SUFFICES ASSUME NEW n \in 1 .. made, NEW m \in 1 .. made, n < m, owner[n] = owner[m],
                      handler'[m] \notin {"none", "turn"}
               PROVE  handler[n] \notin Pending
    BY <1>0, <1>2, Zenon DEF OrderInv
  <2>1. CASE m = k /\ handler[k] = "turn"
    BY <2>1, Zenon
  <2>2. CASE ~(m = k /\ handler[k] = "turn")
    <3>1. handler[m] \notin {"none", "turn"}
      BY <1>0, <1>1, <2>2
    <3> QED
      BY <3>1, Zenon DEF TurnInv, OrderInv
  <2> QED
    BY <2>1, <2>2, Zenon
<1>6. RefsInv'
  <2>1. ASSUME NEW t \in Threads PROVE Waiting(t, owner, handler') = Waiting(t, owner, handler)
    BY <1>0, <1>2 DEF Waiting
  <2> QED
    BY <2>1, Zenon DEF TurnInv, RefsInv
<1> QED
  BY <1>3, <1>4, <1>5, <1>6, Zenon DEF TurnInv

\* The last step of a handler drops the queue only if nobody is behind it.
LEMMA TurnUnlock ==
  ASSUME MaxNotifs \in Nat, TurnInv, NEW k \in Notifs, Unlock(k)
  PROVE  TurnInv'
<1>0. /\ TypeInv /\ made \in Nat /\ DOMAIN owner = 1 .. made /\ 1 .. made \subseteq Notifs
      /\ \A n \in 1 .. made : n \in Nat /\ owner[n] \in Threads
  BY TypeFacts, Zenon DEF TurnInv
<1>1. /\ handler[k] = "unlock" /\ handler' = [handler EXCEPT ![k] = "done"]
      /\ refs' = [refs EXCEPT ![owner[k]] = @ - 1]
      /\ tails' = IF refs'[owner[k]] = 0 /\ tails[owner[k]] = k THEN [tails EXCEPT ![owner[k]] = 0] ELSE tails
      /\ UNCHANGED <<kernel, made, owner, waitFor>>
  BY Zenon DEF Unlock, SetHandler, threadVars
<1>2. k \in 1 .. made /\ owner[k] \in Threads
  BY <1>0, <1>1 DEF TurnInv, ReceivedInv, Notifs
<1>3. /\ handler'[k] = "done" /\ \A n \in Notifs \ {k} : handler'[n] = handler[n]
      /\ \A t \in Threads : tails'[t] = tails[t] \/ (t = owner[k] /\ tails[t] = k /\ tails'[t] = 0)
      /\ refs'[owner[k]] = refs[owner[k]] - 1 /\ \A t \in Threads \ {owner[k]} : refs'[t] = refs[t]
  BY <1>0, <1>1, <1>2 DEF TypeInv
<1>4. TypeInv'
  <2>1. handler' \in [Notifs -> HandlerStates]
    BY <1>0, <1>1, Zenon DEF TypeInv, HandlerStates
  <2>2. tails' \in [Threads -> Nat]
    BY <1>0, <1>1, <1>2, Zenon DEF TypeInv
  <2>3. refs' \in [Threads -> Int]
    BY <1>0, <1>1, <1>2 DEF TypeInv
  <2> QED
    BY <1>0, <1>1, <2>1, <2>2, <2>3, Zenon DEF TypeInv
<1>5. \A n \in Notifs : /\ handler'[n] # "none" <=> handler[n] # "none"
                        /\ handler'[n] \in Pending <=> handler[n] \in Pending
                        /\ handler'[n] \in {"none", "turn"} <=> handler[n] \in {"none", "turn"}
  BY <1>1, <1>3, Zenon DEF Pending
<1>6. ReceivedInv' /\ WaitInv' /\ OrderInv'
  BY <1>0, <1>1, <1>5 DEF TurnInv, ReceivedInv, WaitInv, OrderInv
<1>7. TailInv'
  <2>1. ASSUME NEW t \in Threads, tails'[t] # 0
        PROVE  tails'[t] \in 1 .. made /\ owner[tails'[t]] = t /\ handler'[tails'[t]] # "none"
    <3>1. tails[t] # 0 /\ tails'[t] = tails[t]
      BY <1>3, <2>1, Zenon
    <3> QED
      BY <1>0, <1>5, <3>1, Zenon DEF TurnInv, TailInv
  <2>2. ASSUME NEW n \in 1 .. made, handler'[n] \in Pending PROVE n <= tails'[owner[n]]
    <3>1. handler[n] \in Pending /\ n <= tails[owner[n]] /\ owner[n] \in Threads
      BY <1>0, <1>5, <2>2, Zenon DEF TurnInv, TailInv
    <3>2. ~(owner[n] = owner[k] /\ tails[owner[n]] = k)
      <4> SUFFICES ASSUME owner[n] = owner[k], tails[owner[n]] = k PROVE FALSE
        BY Zenon
      <4>1. n # k
        BY <1>1, <3>1, Zenon DEF Pending
      <4>2. n < k
        BY <1>0, <1>2, <3>1, <4>1
      <4> QED
        BY <1>1, <1>2, <3>1, <4>2, Zenon DEF TurnInv, OrderInv
    <3> QED
      BY <1>3, <3>1, <3>2, Zenon
  <2> QED
    BY <1>1, <2>1, <2>2, Zenon DEF TailInv
<1>8. RefsInv'
  <2> SUFFICES ASSUME NEW t \in Threads PROVE refs'[t] = Cardinality(Waiting(t, owner, handler'))
    BY <1>1, Zenon DEF RefsInv
  <2>1. CASE t # owner[k]
    <3>1. Waiting(t, owner, handler') = Waiting(t, owner, handler)
      BY <1>0, <1>3, <2>1, Zenon DEF Waiting
    <3> QED
      BY <1>3, <2>1, <3>1, Zenon DEF TurnInv, RefsInv
  <2>2. CASE t = owner[k]
    <3>1. Waiting(t, owner, handler') = Waiting(t, owner, handler) \ {k} /\ k \in Waiting(t, owner, handler)
      BY <1>0, <1>1, <1>2, <1>3, <2>2, Zenon DEF Waiting
    <3>2. Cardinality(Waiting(t, owner, handler')) = Cardinality(Waiting(t, owner, handler)) - 1
      BY <1>0, <3>1, TypeFacts, FS_RemoveElement, Zenon
    <3> QED
      BY <1>3, <2>2, <3>2, Zenon DEF TurnInv, RefsInv
  <2> QED
    BY <2>1, <2>2, Zenon
<1> QED
  BY <1>4, <1>6, <1>7, <1>8 DEF TurnInv

-----------------------------------------------------------------------------
\* Every step keeps the turns in order.
LEMMA TurnStep ==
  ASSUME MaxNotifs \in Nat, TurnInv, [Next]_vars
  PROVE  TurnInv'
<1>0. TypeInv /\ made \in Nat /\ DOMAIN owner = 1 .. made /\ 1 .. made \subseteq Notifs
  BY TypeFacts, Zenon DEF TurnInv
<1>1. CASE \/ Prepare \/ StartSession \/ Start \/ StartFails \/ CloseBegin \/ CloseEnd \/ Poll
           \/ LoopEnds \/ LoopDone \/ UNCHANGED vars
  <2>1. UNCHANGED turnVars /\ UNCHANGED <<made, owner>> /\ kernel' \subseteq kernel
    BY <1>1, Zenon DEF Prepare, StartSession, Start, StartFails, CloseBegin, CloseEnd, Poll, LoopEnds,
       LoopDone, vars, threadVars
  <2> QED
    BY <2>1, TurnFrame, Zenon
<1>2. CASE Receive
  BY <1>2, TurnReceive, Zenon
<1>3. ASSUME NEW t \in Threads, Syscall(t) PROVE TurnInv'
  BY <1>3, TurnSyscall, Zenon
<1>4. ASSUME NEW t \in Threads, Interrupt(t) PROVE TurnInv'
  BY <1>4, TurnFrame, Zenon DEF Interrupt
<1>5. ASSUME NEW k \in Notifs, HandlerStep(k) PROVE TurnInv'
  <2>1. CASE BeginWork(k)
    <3>1. /\ handler[k] = "turn" /\ handler' = [handler EXCEPT ![k] = "work"]
          /\ (waitFor[k] # 0 => handler[waitFor[k]] \in {"unlock", "done"})
          /\ UNCHANGED <<kernel, made, owner, waitFor, tails, refs>>
      BY <2>1, Zenon DEF BeginWork, SetHandler, TurnOver, threadVars
    <3>2. k \in 1 .. made
      BY <1>0, <3>1 DEF TurnInv, ReceivedInv, Notifs
    <3>3. ASSUME NEW n \in 1 .. made, n < k, owner[n] = owner[k], handler[n] \in Pending PROVE FALSE
      <4>1. waitFor[k] \in n .. k - 1 /\ owner[waitFor[k]] = owner[k]
        BY <3>1, <3>2, <3>3, Zenon DEF TurnInv, WaitInv
      <4>2. waitFor[k] \in 1 .. made /\ handler[waitFor[k]] \in {"unlock", "done"} /\ n <= waitFor[k]
        BY <1>0, <3>1, <3>2, <4>1
      <4>3. n # waitFor[k]
        BY <3>3, <4>2, Zenon DEF Pending
      <4>4. n < waitFor[k]
        BY <1>0, <4>2, <4>3
      <4> QED
        BY <3>3, <4>1, <4>2, <4>4, Zenon DEF TurnInv, OrderInv
    <3>4. "work" \in HandlerStates \ {"none", "done"}
      BY Zenon DEF HandlerStates
    <3> QED
      BY <3>1, <3>3, <3>4, TurnAdvance, Zenon
  <2>2. CASE EndWork(k) \/ Respond(k) \/ Release(k)
    <3>1. PICK st \in {"respond", "release", "unlock"} : handler' = [handler EXCEPT ![k] = st]
      BY <2>2, Zenon DEF EndWork, Respond, Release, SetHandler
    <3>2. handler[k] \in {"work", "respond", "release"} /\ UNCHANGED <<kernel, made, owner, waitFor, tails, refs>>
      BY <2>2, Zenon DEF EndWork, Respond, Release, threadVars
    <3>3. st \in HandlerStates \ {"none", "done"}
      BY <3>1, Zenon DEF HandlerStates
    <3> QED
      BY <3>1, <3>2, <3>3, TurnAdvance, Zenon
  <2>3. CASE Unlock(k)
    BY <2>3, TurnUnlock, Zenon
  <2> QED
    BY <1>5, <2>1, <2>2, <2>3, Zenon DEF HandlerStep
<1> QED
  BY <1>1, <1>2, <1>3, <1>4, <1>5, Zenon DEF Next

\* Every step keeps the handlers between Start and the end of Close.
LEMMA LoopStep ==
  ASSUME TurnInv, LoopInv, [Next]_vars
  PROVE  LoopInv'
<1>0. handler \in [Notifs -> HandlerStates] /\ kernel \subseteq 1 .. made
  BY Zenon DEF TurnInv, TypeInv
<1>1. CASE Prepare \/ StartSession \/ Start \/ StartFails
  BY <1>1, Zenon DEF LoopInv, Prepare, StartSession, Start, StartFails, turnVars
<1>2. CASE CloseBegin \/ CloseEnd
  BY <1>2, Zenon DEF LoopInv, CloseBegin, CloseEnd, turnVars
<1>3. CASE Poll \/ LoopEnds \/ LoopDone \/ UNCHANGED vars
  BY <1>3, Zenon DEF LoopInv, Poll, LoopEnds, LoopDone, vars, setupVars, turnVars
<1>4. ASSUME NEW t \in Threads, Syscall(t) \/ Interrupt(t) PROVE LoopInv'
  BY <1>4, Zenon DEF LoopInv, Syscall, Interrupt, setupVars, turnVars
<1>5. CASE Receive
  BY <1>5, Zenon DEF LoopInv, Receive, setupVars
<1>6. ASSUME NEW n \in Notifs, HandlerStep(n) PROVE LoopInv'
  <2>1. handler[n] \notin {"none", "done"} /\ UNCHANGED setupVars
    BY <1>6, Zenon DEF HandlerStep, BeginWork, EndWork, Respond, Release, Unlock
  <2>2. loop \notin {"off", "done"}
    BY <2>1, Zenon DEF LoopInv
  <2> QED
    BY <2>1, <2>2, Zenon DEF LoopInv, setupVars
<1> QED
  BY <1>1, <1>2, <1>3, <1>4, <1>5, <1>6, Zenon DEF Next

\* The notifications of a thread are handled one at a time and in order, the
\* queue counts the handlers that are not done, and no handler answers through
\* a closed descriptor, whatever is interrupted, fails or is closed.
THEOREM TurnsSafe == Spec => []TurnsAreSound
<1>0. MaxNotifs \in Nat
  BY LifecycleAssumption, Zenon
<1> USE <1>0
<1>1. Init => TurnInv /\ LoopInv
  <2> SUFFICES ASSUME Init PROVE TurnInv /\ LoopInv
    BY Zenon
  <2>1. TypeInv /\ made = 0
    BY DEF Init, TypeInv, HandlerStates
  <2>2. ReceivedInv /\ TailInv /\ WaitInv /\ OrderInv /\ LoopInv
    BY <2>1 DEF Init, ReceivedInv, TailInv, WaitInv, OrderInv, LoopInv
  <2>3. \A t \in Threads : Waiting(t, owner, handler) = {}
    BY DEF Init, Waiting
  <2>4. RefsInv
    BY <2>3, FS_EmptySet, Zenon DEF Init, RefsInv
  <2> QED
    BY <2>1, <2>2, <2>4, Zenon DEF TurnInv
<1>2. TurnInv /\ LoopInv /\ [Next]_vars => TurnInv' /\ LoopInv'
  BY TurnStep, LoopStep, Zenon
<1>3. TurnInv /\ LoopInv => TurnsAreSound
  <2> SUFFICES ASSUME TurnInv, LoopInv PROVE TurnsAreSound
    BY Zenon
  <2>0. /\ TypeInv /\ made \in Nat /\ DOMAIN owner = 1 .. made /\ 1 .. made \subseteq Notifs
        /\ handler \in [Notifs -> HandlerStates]
    BY TypeFacts, Zenon DEF TurnInv, TypeInv
  <2>1. TurnsInOrder
    <3> SUFFICES ASSUME NEW n \in 1 .. made, NEW m \in 1 .. made, n < m, owner[n] = owner[m],
                        handler[m] \in {"work", "respond", "release"}
                 PROVE  handler[n] \in {"none", "unlock", "done"}
      BY Zenon DEF TurnsInOrder
    <3>1. handler[n] \notin Pending
      BY Zenon DEF TurnInv, OrderInv
    <3> QED
      BY <2>0, <3>1, Zenon DEF HandlerStates, Pending
  <2>2. ASSUME NEW t \in Threads
        PROVE  LET waiting == {n \in 1 .. made : owner[n] = t /\ handler[n] \notin {"none", "done"}}
               IN  /\ refs[t] = Cardinality(waiting)
                   /\ \A n \in waiting : ~TurnOver(n) => n <= tails[t]
                   /\ waiting = {} /\ tails[t] # 0 => TurnOver(tails[t])
    <3> DEFINE waiting == {n \in 1 .. made : owner[n] = t /\ handler[n] \notin {"none", "done"}}
    <3>1. waiting = Waiting(t, owner, handler)
      BY <2>0, Zenon DEF Waiting
    <3>2. refs[t] = Cardinality(waiting)
      BY <3>1, Zenon DEF TurnInv, RefsInv
    <3>3. ASSUME NEW n \in waiting, ~TurnOver(n) PROVE n <= tails[t]
      <4>1. handler[n] \in Pending
        BY <2>0, <3>3, Zenon DEF TurnOver, HandlerStates, Pending
      <4> QED
        BY <4>1, Zenon DEF TurnInv, TailInv
    <3>4. ASSUME waiting = {}, tails[t] # 0 PROVE TurnOver(tails[t])
      <4>1. tails[t] \in 1 .. made /\ owner[tails[t]] = t /\ handler[tails[t]] # "none"
        BY <3>4, Zenon DEF TurnInv, TailInv
      <4>2. tails[t] \notin waiting
        BY <3>4, Zenon
      <4> QED
        BY <4>1, <4>2, Zenon DEF TurnOver
    <3> QED
      BY <3>2, <3>3, <3>4, Zenon
  <2>3. QueueIsSound
    BY <2>2, Zenon DEF QueueIsSound
  <2>4. NoUseAfterClose
    BY Zenon DEF LoopInv, NoUseAfterClose
  <2> QED
    BY <2>1, <2>3, <2>4, Zenon DEF TurnsAreSound
<1> QED
  BY <1>1, <1>2, <1>3, PTL DEF Spec

-----------------------------------------------------------------------------
(* NewSandbox and Close of sandboxes.                                      *)

CreateSteps == {"none", "docker", "binary", "stage", "bridge", "log", "seccomp", "command", "start",
                "handshake", "register", "attach"}

\* What a call holds when it is about to take a step, at most.
Owned(step) ==
    CASE step \in {"none", "docker"} -> {}
      [] step \in {"binary", "stage"} -> {"docker"}
      [] step = "bridge" -> {"docker", "root"}
      [] step = "log" -> {"docker", "root", "parent", "child"}
      [] step \in {"seccomp", "command", "start"} -> {"docker", "root", "parent", "child", "log"}
      [] step \in {"handshake", "register", "attach"} -> {"docker", "root", "parent", "log", "process"}

CallRecord ==
    [at : CreateSteps, state : {"idle", "creating", "failing", "failed", "ready"}, name : Nat, docker : BOOLEAN,
     held : SUBSET {"docker", "root", "parent", "child", "log", "process"}, registered : BOOLEAN,
     close : {"open", "runtime", "unregister", "root", "closed"}]

\* A call that is not closing anything: nothing is registered before "attach",
\* and a call that failed by itself has released what it held.
OpenCall(k) ==
    /\ k.registered <=> k.state \in {"creating", "ready"} /\ k.at = "attach"
    /\ k.state \in {"idle", "creating", "failed", "ready"}
    /\ k.state = "idle" => k.at = "none"
    /\ k.state = "ready" => k.at = "attach"
    /\ k.held \subseteq (IF k.state = "failed" THEN {} ELSE Owned(k.at))

\* A call that is being closed, because its name is taken or by Close.
ClosingCall(k) ==
    /\ k.state \in {"failing", "ready"}
    /\ k.registered <=> k.state = "ready" /\ k.close \in {"runtime", "unregister"}
    /\ k.held \subseteq (IF k.close = "runtime" THEN Owned("attach") ELSE {"root"})

ClosedCall(k) == k.state \in {"failed", "ready"} /\ ~k.registered /\ k.held = {}

CallInv(k) ==
    /\ k \in CallRecord
    /\ k.close = "open" => OpenCall(k)
    /\ k.close \in {"runtime", "unregister", "root"} => ClosingCall(k)
    /\ k.close = "closed" => ClosedCall(k)

\* The entries of the registry are exactly those of the registered calls.
EntryInv(k, c, reg) ==
    k.registered => k.name \in DOMAIN reg /\ reg[k.name] = [owner |-> c, attached |-> k.state = "ready"]

SandboxInv ==
    /\ nextID \in Nat
    /\ calls = [c \in Calls |-> calls[c]]
    /\ \A c \in Calls : CallInv(calls[c]) /\ EntryInv(calls[c], c, registry)
    /\ \A n \in DOMAIN registry :
         registry[n].owner \in Calls /\ calls[registry[n].owner].registered /\ calls[registry[n].owner].name = n

\* A step of one call that leaves the registry alone.
LEMMA CallStep ==
  ASSUME SandboxInv, NEW c \in Calls, NEW k, calls' = [d \in Calls |-> calls'[d]],
         calls'[c] = k, \A d \in Calls \ {c} : calls'[d] = calls[d], UNCHANGED registry, nextID' \in Nat,
         CallInv(k), k.registered = calls[c].registered,
         k.registered => k.name = calls[c].name /\ (k.state = "ready" <=> calls[c].state = "ready")
  PROVE  SandboxInv'
<1>3. ASSUME NEW d \in Calls PROVE CallInv(calls'[d]) /\ EntryInv(calls'[d], d, registry)
  <2>1. CASE d = c
    <3>1. EntryInv(calls[c], c, registry)
      BY Zenon DEF SandboxInv
    <3>2. EntryInv(k, c, registry)
      BY <3>1, Zenon DEF EntryInv
    <3> QED
      BY <2>1, <3>2, Zenon
  <2>2. CASE d # c
    BY <2>2, Zenon DEF SandboxInv
  <2> QED
    BY <2>1, <2>2, Zenon
<1>4. ASSUME NEW n \in DOMAIN registry
      PROVE  registry[n].owner \in Calls /\ calls'[registry[n].owner].registered /\ calls'[registry[n].owner].name = n
  <2>1. registry[n].owner \in Calls /\ calls[registry[n].owner].registered /\ calls[registry[n].owner].name = n
    BY Zenon DEF SandboxInv
  <2> QED
    BY <2>1, Zenon
<1> QED
  BY <1>3, <1>4, Zenon DEF SandboxInv

\* What a call holds after a step, and what the error return of a step releases.
LEMMA OwnedSteps ==
  ASSUME NEW step \in CreateSteps \ {"none", "register", "attach"}
  PROVE  /\ Sandbox!NextStep(step) \in CreateSteps \ {"none", "attach"}
         /\ (Owned(step) \cup Sandbox!Acquires(step)) \ (IF step = "start" THEN {"child"} ELSE {})
              \subseteq Owned(Sandbox!NextStep(step))
         /\ Sandbox!Acquires(step) \subseteq {"docker", "root", "parent", "child", "log", "process"}
         /\ Owned(step) \subseteq Sandbox!Undo(step)
<1>1. CASE step \in {"docker", "binary", "stage"}
  BY <1>1, Zenon DEF CreateSteps, Owned, Sandbox!NextStep, Sandbox!Acquires, Sandbox!Undo
<1>2. CASE step \in {"bridge", "log"}
  BY <1>2, Zenon DEF CreateSteps, Owned, Sandbox!NextStep, Sandbox!Acquires, Sandbox!Undo
<1>3. CASE step \in {"seccomp", "command", "start", "handshake"}
  BY <1>3 DEF CreateSteps, Owned, Sandbox!NextStep, Sandbox!Acquires, Sandbox!Undo
<1> QED
  BY <1>1, <1>2, <1>3, Zenon DEF CreateSteps

\* NewSandbox begins.
LEMMA BeginKeeps ==
  ASSUME SandboxInv, NEW c \in Calls, Sandbox!Begin(c)
  PROVE  SandboxInv'
<1>1. PICK name \in Names, docker \in BOOLEAN :
        /\ nextID' = IF name = 0 THEN nextID + 1 ELSE nextID
        /\ calls' = [calls EXCEPT ![c].state = "creating", ![c].at = Sandbox!FirstStep(docker), ![c].docker = docker,
                                  ![c].name = IF name = 0 THEN nextID' ELSE name]
  BY Zenon DEF Sandbox!Begin
<1>2. calls[c].state = "idle" /\ UNCHANGED registry /\ CallInv(calls[c]) /\ calls[c] \in CallRecord
  BY Zenon DEF Sandbox!Begin, SandboxInv, CallInv
<1>3. nextID' \in Nat /\ name \in Nat
  BY <1>1, LifecycleAssumption DEF SandboxInv
<1>4. Sandbox!FirstStep(docker) \in {"docker", "binary"}
  BY Zenon DEF Sandbox!FirstStep
<1>5. /\ calls' = [d \in Calls |-> calls'[d]] /\ \A d \in Calls \ {c} : calls'[d] = calls[d]
      /\ calls'[c] = [calls[c] EXCEPT !.state = "creating", !.at = Sandbox!FirstStep(docker), !.docker = docker,
                                      !.name = IF name = 0 THEN nextID' ELSE name]
  BY <1>1, <1>2, Zenon DEF SandboxInv
<1>6. PICK k : k = calls'[c]
  BY Zenon
<1>7. /\ k \in CallRecord /\ k.state = "creating" /\ k.at \in {"docker", "binary"}
      /\ k.held = calls[c].held /\ k.registered = calls[c].registered /\ k.close = calls[c].close
  BY <1>2, <1>3, <1>4, <1>5, <1>6, ZenonT(40) DEF CallRecord, CreateSteps
<1>8. calls[c].held = {} /\ ~calls[c].registered /\ calls[c].close = "open"
  BY <1>2, Zenon DEF CallInv, CallRecord, OpenCall, ClosingCall, ClosedCall, Owned
<1>9. CallInv(k)
  BY <1>7, <1>8, Zenon DEF CallInv, OpenCall, ClosingCall, ClosedCall
<1> QED
  BY <1>2, <1>3, <1>5, <1>6, <1>7, <1>8, <1>9, CallStep, Zenon

\* A step of NewSandbox up to the handshake succeeds.
LEMMA AdvanceKeeps ==
  ASSUME SandboxInv, NEW c \in Calls, calls[c].state = "creating",
         calls[c].at \in CreateSteps \ {"none", "register", "attach"},
         Sandbox!Advance(c), UNCHANGED <<registry, nextID>>
  PROVE  SandboxInv'
<1>1. PICK step \in CreateSteps \ {"none", "register", "attach"} : step = calls[c].at
  BY Zenon
<1>2. PICK next \in CreateSteps \ {"none", "attach"}, new \in SUBSET {"docker", "root", "parent", "child", "log", "process"} :
        next = Sandbox!NextStep(step) /\ new = Sandbox!Acquires(step)
  BY <1>1, OwnedSteps, Zenon
<1>3. PICK lost : lost = (IF step = "start" THEN {"child"} ELSE {})
  BY Zenon
<1>4. (Owned(step) \cup new) \ lost \subseteq Owned(next)
  BY <1>1, <1>2, <1>3, OwnedSteps, Zenon
<1>5. CallInv(calls[c]) /\ calls[c] \in CallRecord /\ nextID \in Nat
  BY Zenon DEF SandboxInv, CallInv
<1>6. calls' = [calls EXCEPT ![c].at = next, ![c].held = (@ \cup new) \ lost]
  BY <1>1, <1>2, <1>3, Zenon DEF Sandbox!Advance
<1>7. /\ calls' = [d \in Calls |-> calls'[d]] /\ \A d \in Calls \ {c} : calls'[d] = calls[d]
      /\ calls'[c] = [calls[c] EXCEPT !.at = next, !.held = (@ \cup new) \ lost]
  BY <1>6, Zenon DEF SandboxInv
<1>8. PICK k : k = calls'[c]
  BY Zenon
<1>9. /\ k \in CallRecord /\ k.at = next /\ k.held = (calls[c].held \cup new) \ lost
      /\ k.state = "creating" /\ k.registered = calls[c].registered /\ k.close = calls[c].close
      /\ k.name = calls[c].name
  <2>1. PICK h : h = (calls[c].held \cup new) \ lost
    BY Zenon
  <2>2. h \in SUBSET {"docker", "root", "parent", "child", "log", "process"}
    BY <1>2, <1>5, <2>1, Zenon DEF CallRecord
  <2>3. k = [calls[c] EXCEPT !.at = next, !.held = h]
    BY <1>7, <1>8, <2>1, Zenon
  <2> QED
    BY <1>1, <1>2, <1>5, <2>1, <2>2, <2>3, Zenon DEF CallRecord
<1>10. calls[c].held \subseteq Owned(step) /\ ~calls[c].registered /\ calls[c].close = "open"
  BY <1>1, <1>5, Zenon DEF CallInv, CallRecord, OpenCall, ClosingCall, ClosedCall
<1>11. CallInv(k)
  BY <1>2, <1>4, <1>9, <1>10, Zenon DEF CallInv, OpenCall, ClosingCall, ClosedCall
<1> QED
  BY <1>5, <1>7, <1>8, <1>9, <1>10, <1>11, CallStep, Zenon

\* A step of NewSandbox up to the handshake fails.
LEMMA FailKeeps ==
  ASSUME SandboxInv, NEW c \in Calls, calls[c].state = "creating",
         calls[c].at \in CreateSteps \ {"none", "register", "attach"},
         Sandbox!Fail(c), UNCHANGED <<registry, nextID>>
  PROVE  SandboxInv'
<1>1. PICK step \in CreateSteps \ {"none", "register", "attach"} : step = calls[c].at
  BY Zenon
<1>2. PICK undo : undo = Sandbox!Undo(step)
  BY Zenon
<1>3. Owned(step) \subseteq undo
  BY <1>2, OwnedSteps, Zenon
<1>5. CallInv(calls[c]) /\ calls[c] \in CallRecord /\ nextID \in Nat
  BY Zenon DEF SandboxInv, CallInv
<1>6. calls' = [calls EXCEPT ![c].state = "failed", ![c].held = @ \ undo]
  BY <1>1, <1>2, Zenon DEF Sandbox!Fail
<1>7. /\ calls' = [d \in Calls |-> calls'[d]] /\ \A d \in Calls \ {c} : calls'[d] = calls[d]
      /\ calls'[c] = [calls[c] EXCEPT !.state = "failed", !.held = @ \ undo]
  BY <1>6, Zenon DEF SandboxInv
<1>8. PICK k : k = calls'[c]
  BY Zenon
<1>9. /\ k \in CallRecord /\ k.at = step /\ k.held = calls[c].held \ undo
      /\ k.state = "failed" /\ k.registered = calls[c].registered /\ k.close = calls[c].close
      /\ k.name = calls[c].name
  <2>1. PICK old \in CallRecord : old = calls[c]
    BY <1>5, Zenon
  <2>2. k = [old EXCEPT !.state = "failed", !.held = @ \ undo]
    BY <1>7, <1>8, <2>1, Zenon
  <2>3. /\ k \in CallRecord /\ k.at = old.at /\ k.held = old.held \ undo /\ k.state = "failed"
        /\ k.registered = old.registered /\ k.close = old.close /\ k.name = old.name
    BY <2>2, Zenon DEF CallRecord
  <2> QED
    BY <1>1, <2>1, <2>3, Zenon
<1>10. calls[c].held \subseteq Owned(step) /\ ~calls[c].registered /\ calls[c].close = "open"
  BY <1>1, <1>5, Zenon DEF CallInv, CallRecord, OpenCall, ClosingCall, ClosedCall
<1>11. CallInv(k)
  BY <1>3, <1>9, <1>10, Zenon DEF CallInv, OpenCall, ClosingCall, ClosedCall
<1> QED
  BY <1>5, <1>7, <1>8, <1>9, <1>10, <1>11, CallStep, Zenon

\* registerSandbox: the name is free and the call gets the entry, or it is taken
\* and the sandbox is closed.
LEMMA RegisterKeeps ==
  ASSUME SandboxInv, NEW c \in Calls, Sandbox!registerSandbox(c)
  PROVE  SandboxInv'
<1>1. calls[c].state = "creating" /\ calls[c].at = "register" /\ UNCHANGED nextID
  BY Zenon DEF Sandbox!registerSandbox, Sandbox!Creating
<1>2. CallInv(calls[c]) /\ calls[c] \in CallRecord /\ nextID \in Nat
  BY Zenon DEF SandboxInv, CallInv
<1>3. Sandbox!NextStep("register") = "attach"
  BY Zenon DEF Sandbox!NextStep
<1>4. calls[c].held \subseteq Owned("attach") /\ ~calls[c].registered /\ calls[c].close = "open"
  BY <1>1, <1>2, Zenon DEF CallInv, CallRecord, OpenCall, ClosingCall, ClosedCall, Owned
<1>5. CASE calls[c].name \notin DOMAIN registry
  <2>1. /\ registry' = Sandbox!Extended(c)
        /\ calls' = [calls EXCEPT ![c].at = "attach", ![c].registered = TRUE, ![c].state = "creating", ![c].close = "open"]
    BY <1>1, <1>3, <1>5, Zenon DEF Sandbox!registerSandbox
  <2>2. /\ calls' = [d \in Calls |-> calls'[d]] /\ \A d \in Calls \ {c} : calls'[d] = calls[d]
        /\ calls'[c] = [calls[c] EXCEPT !.at = "attach", !.registered = TRUE, !.state = "creating", !.close = "open"]
    BY <2>1, Zenon DEF SandboxInv
  <2>3. PICK k : k = calls'[c]
    BY Zenon
  <2>4. /\ k \in CallRecord /\ k.at = "attach" /\ k.registered /\ k.state = "creating" /\ k.close = "open"
        /\ k.name = calls[c].name /\ k.held = calls[c].held
    BY <1>2, <2>2, <2>3, Zenon DEF CallRecord, CreateSteps
  <2>5. CallInv(k)
    BY <1>4, <2>4, Zenon DEF CallInv, OpenCall
  <2>6. /\ DOMAIN registry' = DOMAIN registry \cup {k.name} /\ registry'[k.name] = [owner |-> c, attached |-> FALSE]
        /\ \A n \in DOMAIN registry : registry'[n] = registry[n]
    BY <1>5, <2>1, <2>4, Zenon DEF Sandbox!Extended
  <2>7. ASSUME NEW d \in Calls PROVE CallInv(calls'[d]) /\ EntryInv(calls'[d], d, registry')
    <3>1. CASE d = c
      <4>1. EntryInv(k, c, registry')
        BY <2>4, <2>6, Zenon DEF EntryInv
      <4> QED
        BY <2>3, <2>5, <3>1, <4>1, Zenon
    <3>2. CASE d # c
      <4>1. calls'[d] = calls[d] /\ CallInv(calls[d]) /\ EntryInv(calls[d], d, registry)
        BY <2>2, <3>2, Zenon DEF SandboxInv
      <4> QED
        BY <2>6, <4>1, Zenon DEF EntryInv
    <3> QED
      BY <3>1, <3>2, Zenon
  <2>8. ASSUME NEW n \in DOMAIN registry'
        PROVE  /\ registry'[n].owner \in Calls /\ calls'[registry'[n].owner].registered
               /\ calls'[registry'[n].owner].name = n
    <3>1. CASE n = k.name
      BY <2>3, <2>4, <2>6, <3>1
    <3>2. CASE n # k.name
      <4>1. /\ registry'[n] = registry[n] /\ registry[n].owner \in Calls
            /\ calls[registry[n].owner].registered /\ calls[registry[n].owner].name = n
        BY <2>6, <3>2, Zenon DEF SandboxInv
      <4>2. registry[n].owner # c
        BY <1>4, <4>1, Zenon
      <4> QED
        BY <2>2, <4>1, <4>2
    <3> QED
      BY <3>1, <3>2, Zenon
  <2> QED
    BY <1>1, <1>2, <2>2, <2>7, <2>8, Zenon DEF SandboxInv
<1>6. CASE calls[c].name \in DOMAIN registry
  <2>1. /\ registry' = registry
        /\ calls' = [calls EXCEPT ![c].at = "attach", ![c].registered = FALSE, ![c].state = "failing", ![c].close = "runtime"]
    BY <1>1, <1>3, <1>6, Zenon DEF Sandbox!registerSandbox
  <2>2. /\ calls' = [d \in Calls |-> calls'[d]] /\ \A d \in Calls \ {c} : calls'[d] = calls[d]
        /\ calls'[c] = [calls[c] EXCEPT !.at = "attach", !.registered = FALSE, !.state = "failing", !.close = "runtime"]
    BY <2>1, Zenon DEF SandboxInv
  <2>3. PICK k : k = calls'[c]
    BY Zenon
  <2>4. /\ k \in CallRecord /\ k.at = "attach" /\ k.registered = FALSE /\ k.state = "failing" /\ k.close = "runtime"
        /\ k.name = calls[c].name /\ k.held = calls[c].held
    BY <1>2, <2>2, <2>3, Zenon DEF CallRecord, CreateSteps
  <2>5. CallInv(k)
    BY <1>4, <2>4, Zenon DEF CallInv, ClosingCall
  <2>6. calls[c].registered = FALSE
    BY <1>2, <1>4, Zenon DEF CallRecord
  <2>7. k.registered = calls[c].registered /\ ~k.registered /\ nextID' \in Nat
    BY <1>1, <1>2, <2>4, <2>6, Zenon
  <2> QED
    BY <2>1, <2>2, <2>3, <2>5, <2>7, CallStep, Zenon
<1> QED
  BY <1>5, <1>6, Zenon

\* attachSandbox: the entry is there, and NewSandbox returns.
LEMMA AttachKeeps ==
  ASSUME SandboxInv, NEW c \in Calls, Sandbox!attachSandbox(c)
  PROVE  SandboxInv'
<1>1. /\ calls[c].state = "creating" /\ calls[c].at = "attach" /\ UNCHANGED nextID
      /\ registry' = [registry EXCEPT ![calls[c].name] = [owner |-> c, attached |-> TRUE]]
      /\ calls' = [calls EXCEPT ![c].state = "ready"]
  BY Zenon DEF Sandbox!attachSandbox, Sandbox!Creating
<1>2. CallInv(calls[c]) /\ calls[c] \in CallRecord /\ nextID \in Nat /\ EntryInv(calls[c], c, registry)
  BY Zenon DEF SandboxInv, CallInv
<1>3. calls[c].close = "open" /\ calls[c].registered /\ calls[c].held \subseteq Owned("attach")
  BY <1>1, <1>2, Zenon DEF CallInv, CallRecord, OpenCall, ClosingCall, ClosedCall
<1>4. /\ calls' = [d \in Calls |-> calls'[d]] /\ \A d \in Calls \ {c} : calls'[d] = calls[d]
      /\ calls'[c] = [calls[c] EXCEPT !.state = "ready"]
  BY <1>1, Zenon DEF SandboxInv
<1>5. PICK k : k = calls'[c]
  BY Zenon
<1>6. /\ k \in CallRecord /\ k.at = "attach" /\ k.registered /\ k.state = "ready" /\ k.close = "open"
      /\ k.name = calls[c].name /\ k.held = calls[c].held
  BY <1>1, <1>2, <1>3, <1>4, <1>5, Zenon DEF CallRecord
<1>7. CallInv(k)
  BY <1>3, <1>6, Zenon DEF CallInv, OpenCall
<1>8. /\ k.name \in DOMAIN registry /\ registry[k.name] = [owner |-> c, attached |-> FALSE]
  BY <1>1, <1>2, <1>3, <1>6, Zenon DEF EntryInv
<1>9. /\ DOMAIN registry' = DOMAIN registry /\ registry'[k.name] = [owner |-> c, attached |-> TRUE]
      /\ \A n \in DOMAIN registry \ {k.name} : registry'[n] = registry[n]
  BY <1>1, <1>6, <1>8, Zenon
<1>10. ASSUME NEW d \in Calls PROVE CallInv(calls'[d]) /\ EntryInv(calls'[d], d, registry')
  <2>1. CASE d = c
    <3>1. EntryInv(k, c, registry')
      BY <1>6, <1>8, <1>9, Zenon DEF EntryInv
    <3> QED
      BY <1>5, <1>7, <2>1, <3>1, Zenon
  <2>2. CASE d # c
    <3>1. calls'[d] = calls[d] /\ CallInv(calls[d]) /\ EntryInv(calls[d], d, registry)
      BY <1>4, <2>2, Zenon DEF SandboxInv
    <3>2. calls[d].registered => calls[d].name # k.name
      BY <1>8, <2>2, <3>1 DEF EntryInv
    <3> QED
      BY <1>9, <3>1, <3>2, Zenon DEF EntryInv
  <2> QED
    BY <2>1, <2>2, Zenon
<1>11. ASSUME NEW n \in DOMAIN registry'
       PROVE  /\ registry'[n].owner \in Calls /\ calls'[registry'[n].owner].registered
              /\ calls'[registry'[n].owner].name = n
  <2>1. CASE n = k.name
    BY <1>5, <1>6, <1>9, <2>1
  <2>2. CASE n # k.name
    <3>1. /\ registry'[n] = registry[n] /\ registry[n].owner \in Calls
          /\ calls[registry[n].owner].registered /\ calls[registry[n].owner].name = n
      BY <1>9, <2>2, Zenon DEF SandboxInv
    <3>2. registry[n].owner # c
      BY <1>6, <2>2, <3>1, Zenon
    <3> QED
      BY <1>4, <3>1, <3>2
  <2> QED
    BY <2>1, <2>2, Zenon
<1> QED
  BY <1>1, <1>2, <1>4, <1>10, <1>11, Zenon DEF SandboxInv

\* Close of a sandbox and what it does, but for the registry.
LEMMA CloseKeeps ==
  ASSUME SandboxInv, NEW c \in Calls,
         Sandbox!Close(c) \/ Sandbox!CloseRuntime(c) \/ Sandbox!removeAllForceWritable(c)
  PROVE  SandboxInv'
<1>1. UNCHANGED <<registry, nextID>> /\ CallInv(calls[c]) /\ calls[c] \in CallRecord /\ nextID \in Nat
  BY Zenon DEF SandboxInv, CallInv, Sandbox!Close, Sandbox!CloseRuntime, Sandbox!removeAllForceWritable
<1>2. PICK k : k = calls'[c]
  BY Zenon
<1>3. CASE Sandbox!Close(c)
  <2>1. /\ calls' = [d \in Calls |-> calls'[d]] /\ \A d \in Calls \ {c} : calls'[d] = calls[d]
        /\ k = [calls[c] EXCEPT !.close = "runtime"] /\ calls[c].state = "ready" /\ calls[c].close = "open"
    BY <1>2, <1>3, Zenon DEF SandboxInv, Sandbox!Close
  <2>2. /\ k \in CallRecord /\ k.close = "runtime" /\ k.at = calls[c].at /\ k.state = calls[c].state
        /\ k.name = calls[c].name /\ k.registered = calls[c].registered /\ k.held = calls[c].held
    BY <1>1, <2>1, Zenon DEF CallRecord
  <2>3. CallInv(k)
    BY <1>1, <2>1, <2>2, Zenon DEF CallInv, OpenCall, ClosingCall
  <2> QED
    BY <1>1, <1>2, <2>1, <2>2, <2>3, CallStep, Zenon
<1>4. CASE Sandbox!CloseRuntime(c)
  <2>0. PICK h : h = calls[c].held \ {"parent", "process", "log", "docker"}
    BY Zenon
  <2>1. /\ calls' = [d \in Calls |-> calls'[d]] /\ \A d \in Calls \ {c} : calls'[d] = calls[d]
        /\ k = [calls[c] EXCEPT !.close = "unregister", !.held = h] /\ calls[c].close = "runtime"
    BY <1>2, <1>4, <2>0, Zenon DEF SandboxInv, Sandbox!CloseRuntime
  <2>2. /\ k \in CallRecord /\ k.close = "unregister" /\ k.at = calls[c].at /\ k.state = calls[c].state
        /\ k.name = calls[c].name /\ k.registered = calls[c].registered /\ k.held = h
    BY <1>1, <2>0, <2>1, Zenon DEF CallRecord
  <2>3. calls[c].held \subseteq {"docker", "root", "parent", "log", "process"}
    BY <1>1, <2>1, Zenon DEF CallInv, ClosingCall, Owned
  <2>4. h \subseteq {"root"}
    BY <2>0, <2>3, Zenon
  <2>5. CallInv(k)
    BY <1>1, <2>1, <2>2, <2>4, Zenon DEF CallInv, ClosingCall
  <2> QED
    BY <1>1, <1>2, <2>1, <2>2, <2>5, CallStep, Zenon
<1>5. CASE Sandbox!removeAllForceWritable(c)
  <2>0. PICK h, st : h = calls[c].held \ {"root"} /\ st = (IF calls[c].state = "failing" THEN "failed" ELSE calls[c].state)
    BY Zenon
  <2>1. /\ calls' = [d \in Calls |-> calls'[d]] /\ \A d \in Calls \ {c} : calls'[d] = calls[d]
        /\ k = [calls[c] EXCEPT !.close = "closed", !.held = h, !.state = st] /\ calls[c].close = "root"
    BY <1>2, <1>5, <2>0, Zenon DEF SandboxInv, Sandbox!removeAllForceWritable
  <2>2. /\ k \in CallRecord /\ k.close = "closed" /\ k.at = calls[c].at /\ k.state = st
        /\ k.name = calls[c].name /\ k.registered = calls[c].registered /\ k.held = h
    BY <1>1, <2>0, <2>1, Zenon DEF CallRecord
  <2>3. calls[c].held \subseteq {"root"} /\ ~calls[c].registered /\ calls[c].state \in {"failing", "ready"}
    BY <1>1, <2>1, Zenon DEF CallInv, ClosingCall
  <2>4. h = {}
    BY <2>0, <2>3, Zenon
  <2>5. CallInv(k)
    BY <2>0, <2>2, <2>3, <2>4, Zenon DEF CallInv, ClosedCall
  <2> QED
    BY <1>1, <1>2, <2>1, <2>2, <2>3, <2>5, CallStep, Zenon
<1> QED
  BY <1>3, <1>4, <1>5, Zenon

\* unregisterSandbox removes the entry of the call, and of no other call.
LEMMA UnregisterKeeps ==
  ASSUME SandboxInv, NEW c \in Calls, Sandbox!unregisterSandbox(c)
  PROVE  SandboxInv'
<1>1. /\ calls[c].close = "unregister" /\ UNCHANGED nextID
      /\ registry' = IF calls[c].registered
                     THEN [n \in DOMAIN registry \ {calls[c].name} |-> registry[n]] ELSE registry
      /\ calls' = [calls EXCEPT ![c].close = "root", ![c].registered = FALSE]
  BY Zenon DEF Sandbox!unregisterSandbox
<1>2. CallInv(calls[c]) /\ calls[c] \in CallRecord /\ nextID \in Nat /\ EntryInv(calls[c], c, registry)
  BY Zenon DEF SandboxInv, CallInv
<1>3. /\ calls' = [d \in Calls |-> calls'[d]] /\ \A d \in Calls \ {c} : calls'[d] = calls[d]
      /\ calls'[c] = [calls[c] EXCEPT !.close = "root", !.registered = FALSE]
  BY <1>1, Zenon DEF SandboxInv
<1>4. PICK k : k = calls'[c]
  BY Zenon
<1>5. /\ k \in CallRecord /\ k.close = "root" /\ k.at = calls[c].at /\ k.state = calls[c].state
      /\ k.name = calls[c].name /\ ~k.registered /\ k.held = calls[c].held
  BY <1>2, <1>3, <1>4, Zenon DEF CallRecord
<1>6. CallInv(k)
  BY <1>1, <1>2, <1>5, Zenon DEF CallInv, ClosingCall
<1>7. /\ DOMAIN registry' \subseteq DOMAIN registry
      /\ \A n \in DOMAIN registry' : registry'[n] = registry[n]
      /\ \A n \in DOMAIN registry : n \in DOMAIN registry' \/ (calls[c].registered /\ n = calls[c].name)
      /\ calls[c].registered => calls[c].name \notin DOMAIN registry'
  BY <1>1, Zenon
<1>8. ASSUME NEW d \in Calls PROVE CallInv(calls'[d]) /\ EntryInv(calls'[d], d, registry')
  <2>1. CASE d = c
    BY <1>4, <1>5, <1>6, <2>1, Zenon DEF EntryInv
  <2>2. CASE d # c
    <3>1. calls'[d] = calls[d] /\ CallInv(calls[d]) /\ EntryInv(calls[d], d, registry)
      BY <1>3, <2>2, Zenon DEF SandboxInv
    <3>2. ASSUME calls[d].registered, calls[c].registered PROVE calls[d].name # calls[c].name
      BY <1>2, <2>2, <3>1, <3>2 DEF EntryInv
    <3>3. ASSUME calls[d].registered PROVE calls[d].name \in DOMAIN registry'
      BY <1>7, <3>1, <3>2, <3>3, Zenon DEF EntryInv
    <3> QED
      BY <1>7, <3>1, <3>3, Zenon DEF EntryInv
  <2> QED
    BY <2>1, <2>2, Zenon
<1>9. ASSUME NEW n \in DOMAIN registry'
      PROVE  /\ registry'[n].owner \in Calls /\ calls'[registry'[n].owner].registered
             /\ calls'[registry'[n].owner].name = n
  <2>1. /\ registry'[n] = registry[n] /\ registry[n].owner \in Calls
        /\ calls[registry[n].owner].registered /\ calls[registry[n].owner].name = n
    BY <1>7, Zenon DEF SandboxInv
  <2>2. registry[n].owner # c
    BY <1>7, <2>1, Zenon
  <2> QED
    BY <1>3, <2>1, <2>2
<1> QED
  BY <1>1, <1>2, <1>3, <1>8, <1>9, Zenon DEF SandboxInv

\* Every step keeps the invariant.
LEMMA SandboxStep ==
  ASSUME SandboxInv, Sandbox!Next \/ UNCHANGED <<calls, registry, nextID>>
  PROVE  SandboxInv'
<1>1. CASE UNCHANGED <<calls, registry, nextID>>
  BY <1>1 DEF SandboxInv, CallInv, OpenCall, ClosingCall, ClosedCall, EntryInv
<1>2. ASSUME NEW c \in Calls, Sandbox!RuntimeBinary(c) PROVE SandboxInv'
  <2>1. calls[c].state = "creating" /\ calls[c].at = "binary" /\ UNCHANGED <<registry, nextID>>
    BY <1>2, Zenon DEF Sandbox!RuntimeBinary, Sandbox!Creating
  <2>2. Sandbox!Advance(c) \/ Sandbox!Fail(c)
    BY <1>2, Zenon DEF Sandbox!RuntimeBinary
  <2>3. calls[c].at \in CreateSteps \ {"none", "register", "attach"}
    BY <2>1, Zenon DEF CreateSteps
  <2> QED
    BY <2>1, <2>2, <2>3, AdvanceKeeps, FailKeeps, Zenon
<1>3. ASSUME NEW c \in Calls, Sandbox!Succeed(c) \/ Sandbox!StepFails(c) PROVE SandboxInv'
  <2>1. /\ calls[c].state = "creating" /\ UNCHANGED <<registry, nextID>>
        /\ calls[c].at \in {"docker", "stage", "bridge", "log", "seccomp", "command", "start", "handshake"}
    BY <1>3, Zenon DEF Sandbox!Succeed, Sandbox!StepFails, Sandbox!Creating
  <2>2. Sandbox!Advance(c) \/ Sandbox!Fail(c)
    BY <1>3, Zenon DEF Sandbox!Succeed, Sandbox!StepFails
  <2>3. calls[c].at \in CreateSteps \ {"none", "register", "attach"}
    BY <2>1, Zenon DEF CreateSteps
  <2> QED
    BY <2>1, <2>2, <2>3, AdvanceKeeps, FailKeeps, Zenon
<1>4. ASSUME NEW c \in Calls, Sandbox!Create(c) PROVE SandboxInv'
  BY <1>2, <1>3, <1>4, BeginKeeps, RegisterKeeps, AttachKeeps, Zenon DEF Sandbox!Create
<1>5. ASSUME NEW c \in Calls, Sandbox!Close(c) PROVE SandboxInv'
  BY <1>5, CloseKeeps, Zenon
<1>6. ASSUME NEW c \in Calls, Sandbox!Closing(c) PROVE SandboxInv'
  <2>1. CASE Sandbox!ManagerCloses(c)
    BY <1>5, <2>1, Zenon DEF Sandbox!ManagerCloses
  <2>2. CASE Sandbox!ManagerMovesOn(c)
    BY <1>1, <2>2, Zenon DEF Sandbox!ManagerMovesOn
  <2> QED
    BY <1>6, <2>1, <2>2, CloseKeeps, UnregisterKeeps, Zenon DEF Sandbox!Closing
<1>7. CASE Sandbox!ManagerClose \/ Sandbox!Cleanup
  BY <1>1, <1>7, Zenon DEF Sandbox!ManagerClose, Sandbox!Cleanup
<1> QED
  BY <1>1, <1>4, <1>5, <1>6, <1>7, Zenon DEF Sandbox!Next

\* Nothing is left behind, and the registry is true, in the states of the invariant.
LEMMA SandboxHolds ==
  ASSUME SandboxInv
  PROVE  NothingIsLeft
<1>1. Sandbox!NoLeak
  <2> SUFFICES ASSUME NEW c \in Calls, calls[c].state = "failed" \/ calls[c].close = "closed"
               PROVE  calls[c].held = {}
    BY Zenon DEF Sandbox!NoLeak
  <2>1. CallInv(calls[c])
    BY Zenon DEF SandboxInv
  <2> QED
    BY <2>1, Zenon DEF CallInv, CallRecord, OpenCall, ClosingCall, ClosedCall
<1>2. ASSUME NEW c \in Calls,
             \/ calls[c].state = "creating" /\ calls[c].at = "attach"
             \/ calls[c].state = "ready" /\ calls[c].close = "open"
      PROVE  /\ calls[c].name \in DOMAIN registry
             /\ registry[calls[c].name] = [owner |-> c, attached |-> calls[c].state = "ready"]
  <2>1. CallInv(calls[c]) /\ EntryInv(calls[c], c, registry)
    BY Zenon DEF SandboxInv
  <2>2. calls[c].registered
    BY <1>2, <2>1, Zenon DEF CallInv, CallRecord, OpenCall, ClosingCall, ClosedCall
  <2> QED
    BY <2>1, <2>2, Zenon DEF EntryInv
<1>3. ASSUME NEW n \in DOMAIN registry PROVE calls[registry[n].owner].close \in {"open", "runtime", "unregister"}
  <2>1. PICK c \in Calls : c = registry[n].owner /\ calls[c].registered
    BY Zenon DEF SandboxInv
  <2>2. CallInv(calls[c])
    BY Zenon DEF SandboxInv
  <2> QED
    BY <2>1, <2>2, Zenon DEF CallInv, CallRecord, ClosingCall, ClosedCall
<1> QED
  BY <1>1, <1>2, <1>3, Zenon DEF NothingIsLeft, Sandbox!RegistryIsTrue

\* A call of NewSandbox that failed and a sandbox that is closed hold nothing, a
\* sandbox that is returned is registered under its name and attachSandbox never
\* misses its entry, for any number of concurrent calls with any names, whatever
\* step fails and whenever Close and ProxyManager.Close come.
THEOREM NothingLeft == LifecycleSpec => []NothingIsLeft
<1>1. LifecycleInit => SandboxInv
  <2> SUFFICES ASSUME LifecycleInit PROVE SandboxInv
    BY Zenon
  <2>1. /\ nextID = 0 /\ DOMAIN registry = {}
        /\ calls = [c \in Calls |-> [at |-> "none", state |-> "idle", name |-> 0, docker |-> FALSE,
                                     held |-> {}, registered |-> FALSE, close |-> "open"]]
    BY Zenon DEF LifecycleInit, Sandbox!Init
  <2>2. ASSUME NEW c \in Calls PROVE CallInv(calls[c]) /\ EntryInv(calls[c], c, registry)
    <3>1. PICK k : k = calls[c]
      BY Zenon
    <3>2. /\ k \in CallRecord /\ k.at = "none" /\ k.state = "idle" /\ k.held = {} /\ k.registered = FALSE
          /\ k.close = "open"
      BY <2>1, <3>1, Zenon DEF CallRecord, CreateSteps
    <3>3. CallInv(k) /\ EntryInv(k, c, registry)
      BY <3>2, Zenon DEF CallInv, OpenCall, EntryInv
    <3> QED
      BY <3>1, <3>3, Zenon
  <2> QED
    BY <2>1, <2>2, Zenon DEF SandboxInv
<1>2. SandboxInv /\ [LifecycleNext]_lifecycleVars => SandboxInv'
  <2> SUFFICES ASSUME SandboxInv, [LifecycleNext]_lifecycleVars PROVE SandboxInv'
    BY Zenon
  <2>1. Sandbox!Next \/ UNCHANGED <<calls, registry, nextID>>
    BY Zenon DEF LifecycleNext, lifecycleVars, sandboxVars
  <2> QED
    BY <2>1, SandboxStep, Zenon
<1> QED
  BY <1>1, <1>2, SandboxHolds, PTL DEF LifecycleSpec

-----------------------------------------------------------------------------
(* Close of a runtime.                                                     *)

\* The channel holds how the helper ended, and what Close returned is that, once
\* normalised, or a timeout.
HelperInv ==
    /\ helper \in {"running", "ok", "failed", "term", "kill"}
    /\ done = <<>> \/ (done = <<helper>> /\ helper # "running")
    /\ pc = "returned" =>
         \/ result = "nil" /\ helper # "running"
         \/ result = "timeout"
         \/ result = "failed" /\ helper = "failed"

\* What a wait returned is how the helper ended, or a timeout.
LEMMA AfterKeeps ==
  ASSUME HelperInv, NEW err, Helper!After(err), UNCHANGED helper, done' = done \/ done' = <<>>,
         \/ err = "timeout"
         \/ err = "nil" /\ helper # "running"
         \/ err = helper /\ helper \in {"failed", "term", "kill"},
         pc # "returned"
  PROVE  HelperInv'
<1>1. CASE err = "nil" \/ pc = "wait3"
  <2>1. pc' = "returned" /\ result' = Helper!normalizeHelperExit(err)
    BY <1>1, Zenon DEF Helper!After
  <2> QED
    BY <2>1, Zenon DEF HelperInv, Helper!normalizeHelperExit
<1>2. CASE ~(err = "nil" \/ pc = "wait3")
  <2>1. pc' # "returned"
    BY <1>2, Zenon DEF Helper!After
  <2> QED
    BY <2>1, Zenon DEF HelperInv
<1> QED
  BY <1>1, <1>2, Zenon

\* Every step keeps the invariant.
LEMMA HelperStep ==
  ASSUME HelperInv, Helper!Next \/ UNCHANGED <<helper, done, pc, result>>
  PROVE  HelperInv'
<1>1. CASE Helper!Crashes \/ Helper!Stops \/ Helper!Terminated \/ Helper!Killed
  BY <1>1, Zenon DEF HelperInv, Helper!Crashes, Helper!Stops, Helper!Terminated, Helper!Killed, Helper!Ends
<1>2. CASE Helper!PostExit \/ Helper!CloseBridge
  BY <1>2, Zenon DEF HelperInv, Helper!PostExit, Helper!CloseBridge
<1>3. CASE Helper!Receive
  <2>1. done = <<helper>> /\ helper # "running"
    BY <1>3, Zenon DEF HelperInv, Helper!Receive
  <2>2. Head(done) = helper /\ Tail(done) = <<>>
    BY <2>1
  <2>3. PICK err : err = (IF helper = "ok" THEN "nil" ELSE helper)
    BY Zenon
  <2>4. Helper!After(err) /\ UNCHANGED helper /\ done' = <<>> /\ pc # "returned"
    BY <1>3, <2>2, <2>3, Zenon DEF Helper!Receive, Helper!Waiting
  <2>5. (err = "nil" /\ helper # "running") \/ (err = helper /\ helper \in {"failed", "term", "kill"})
    BY <2>1, <2>3, Zenon DEF HelperInv
  <2> QED
    BY <2>4, <2>5, AfterKeeps, Zenon
<1>4. CASE Helper!Timeout
  <2>1. Helper!After("timeout") /\ UNCHANGED <<helper, done>> /\ pc # "returned"
    BY <1>4, Zenon DEF Helper!Timeout, Helper!Waiting
  <2> QED
    BY <2>1, AfterKeeps, Zenon
<1>5. CASE Helper!processExited
  <2>1. Helper!After("nil") /\ UNCHANGED <<helper, done>> /\ helper # "running" /\ pc # "returned"
    BY <1>5, Zenon DEF Helper!processExited, Helper!Waiting
  <2> QED
    BY <2>1, AfterKeeps, Zenon
<1>6. CASE UNCHANGED <<helper, done, pc, result>>
  BY <1>6, Zenon DEF HelperInv
<1> QED
  BY <1>1, <1>2, <1>3, <1>4, <1>5, <1>6, Zenon DEF Helper!Next

\* Close of a runtime returns nil only when its helper has ended, and it reports
\* a helper that stopped as asked as an error only where a wait ran into its
\* timer, on either platform and with whichever of the three waits the exit and
\* the timers race.
THEOREM CloseTruthful == LifecycleSpec => []CloseTellsTruth
<1>1. LifecycleInit => HelperInv
  BY Zenon DEF LifecycleInit, Helper!Init, HelperInv
<1>2. HelperInv /\ [LifecycleNext]_lifecycleVars => HelperInv'
  <2> SUFFICES ASSUME HelperInv, [LifecycleNext]_lifecycleVars PROVE HelperInv'
    BY Zenon
  <2>1. Helper!Next \/ UNCHANGED <<helper, done, pc, result>>
    BY Zenon DEF LifecycleNext, lifecycleVars, helperVars
  <2> QED
    BY <2>1, HelperStep, Zenon
<1>3. HelperInv => CloseTellsTruth
  BY Zenon DEF HelperInv, CloseTellsTruth, Helper!NilMeansGone, Helper!StoppedIsNoError
<1> QED
  BY <1>1, <1>2, <1>3, PTL DEF LifecycleSpec
=============================================================================
