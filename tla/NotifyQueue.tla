---------------------------- MODULE NotifyQueue ----------------------------
(***************************************************************************)
(* The life of a seccomp supervisor: Prepare, Start, the loop that receives *)
(* notifications, the turns in which they are handled, Close.  A thread of  *)
(* the payload is blocked in its system call until its notification is      *)
(* answered; a signal may interrupt it, which withdraws the notification    *)
(* while its handler goes on.  What a handler does with the call is in      *)
(* SocketTable and DNSEmulation: here it takes time (a DNS query waits for  *)
(* the host) and ends.  Notifications are numbered in the order they are    *)
(* made.                                                                    *)
(***************************************************************************)
EXTENDS Naturals, Sequences, FiniteSets

CONSTANTS
    Threads,          \* threads of the payload, a notification's pid
    Stuck,            \* threads whose handlers may wait forever
    MaxNotifs         \* bound: notifications of one behaviour

VARIABLES
    phase,            \* "new", "prepared", "launched", "serving", "closing", "closed"
    open,             \* descriptors the supervisor holds
    closing,          \* Supervisor.closing
    loop,             \* serveNotifications: "off", "poll", "wait", "done"
    failed,           \* Supervisor.launcherError is set
    kernel,           \* notifications made and not yet received
    live,             \* notifications whose thread still waits for the answer
    blocked,          \* the notification a thread waits for, 0 if it runs
    made,             \* notifications made so far
    owner,            \* the thread that made a notification
    handler,          \* how far the handler of a notification is
    waitFor,          \* waitForTurn: the notification whose doneCh it waits for
    tails,            \* notifyQueueTails: the last notification of a thread, or 0
    refs              \* notifyQueueRefs

setupVars == <<phase, open, closing, loop, failed>>
threadVars == <<kernel, live, blocked, made, owner>>
turnVars == <<handler, waitFor, tails, refs>>
vars == <<setupVars, threadVars, turnVars>>

Notifs == 1 .. MaxNotifs

Init ==
    /\ phase = "new" /\ open = {} /\ closing = FALSE /\ loop = "off" /\ failed = FALSE
    /\ kernel = {} /\ live = {} /\ blocked = [t \in Threads |-> 0]
    /\ made = 0 /\ owner = <<>>
    /\ handler = [n \in Notifs |-> "none"] /\ waitFor = [n \in Notifs |-> 0]
    /\ tails = [t \in Threads |-> 0] /\ refs = [t \in Threads |-> 0]

-----------------------------------------------------------------------------
(* Setting up and closing.                                                 *)

\* Prepare: a socket pair and the launcher; an error closes what was opened.
Prepare ==
    /\ phase = "new"
    /\ \/ phase' = "prepared" /\ open' = {"parent", "child", "target"}
       \/ phase' = "closing" /\ UNCHANGED open
    /\ UNCHANGED <<closing, loop, failed, threadVars, turnVars>>

\* runSupervisedExec: the command is started with the child's end, or not
\* and the supervisor is closed.
StartSession ==
    /\ phase = "prepared"
    /\ phase' \in {"launched", "closing"}
    /\ UNCHANGED <<open, closing, loop, failed, threadVars, turnVars>>

\* Start: the child's end and the launcher are closed, and the launcher
\* sends the notify descriptor, which is duplicated.
Start ==
    /\ phase = "launched"
    /\ phase' = "serving" /\ loop' = "poll" /\ closing' = FALSE
    /\ open' = {"parent", "control", "receive"}
    /\ UNCHANGED <<failed, threadVars, turnVars>>

\* The launcher reports an error, the descriptor cannot be duplicated (it is
\* closed again), or ctx ends; runSupervisedExec closes the supervisor.
StartFails ==
    /\ phase = "launched"
    /\ phase' = "closing" /\ open' = {"parent"} /\ failed' = TRUE
    /\ UNCHANGED <<closing, loop, threadVars, turnVars>>

\* The command is over: handleExec calls Close.  It closes the sockets and
\* tells the loop.
CloseBegin ==
    /\ phase \in {"serving", "closing"} /\ ~closing
    /\ phase' = "closing" /\ closing' = TRUE
    /\ open' = open \ {"child", "parent"}
    /\ UNCHANGED <<loop, failed, threadVars, turnVars>>

\* notifyServeWG.Wait returned: the descriptors are closed.  The kernel
\* fails the calls of threads that still wait.
CloseEnd ==
    /\ phase = "closing" /\ closing /\ loop \in {"off", "done"}
    /\ phase' = "closed" /\ open' = {}
    /\ live' = {} /\ kernel' = {} /\ blocked' = [t \in Threads |-> 0]
    /\ UNCHANGED <<closing, loop, failed, made, owner, turnVars>>

-----------------------------------------------------------------------------
(* The threads of the payload.                                             *)

Syscall(t) ==
    /\ phase = "serving" /\ blocked[t] = 0 /\ made < MaxNotifs
    /\ made' = made + 1 /\ owner' = Append(owner, t)
    /\ kernel' = kernel \cup {made'} /\ live' = live \cup {made'}
    /\ blocked' = [blocked EXCEPT ![t] = made']
    /\ UNCHANGED <<setupVars, turnVars>>

\* A signal: the thread leaves the call, the kernel forgets the notification.
Interrupt(t) ==
    /\ blocked[t] # 0
    /\ live' = live \ {blocked[t]}
    /\ kernel' = kernel \ {blocked[t]}
    /\ blocked' = [blocked EXCEPT ![t] = 0]
    /\ UNCHANGED <<setupVars, made, owner, turnVars>>

-----------------------------------------------------------------------------
(* serveNotifications and the turns.                                       *)

\* enqueueNotificationTurn: behind the last notification of the thread.
enqueueNotificationTurn(n) ==
    /\ waitFor' = [waitFor EXCEPT ![n] = tails[owner[n]]]
    /\ tails' = [tails EXCEPT ![owner[n]] = n]
    /\ refs' = [refs EXCEPT ![owner[n]] = @ + 1]

\* The oldest notification is received and its goroutine started.  (Interrupted
\* receives and those of withdrawn notifications are repeated.)
Receive ==
    /\ loop = "poll" /\ ~closing
    /\ \E n \in kernel :
         /\ \A m \in kernel : n <= m
         /\ enqueueNotificationTurn(n)
         /\ handler' = [handler EXCEPT ![n] = "turn"]
         /\ kernel' = kernel \ {n}
    /\ UNCHANGED <<setupVars, live, blocked, made, owner>>

\* A poll of 100 ms that times out or is interrupted.
Poll == loop = "poll" /\ UNCHANGED vars

\* Mutant: the loop does not look at closing.
LoopEndsOnError ==
    /\ loop = "poll" /\ ~closing
    /\ failed' = TRUE /\ loop' = "wait"
    /\ UNCHANGED <<phase, open, closing, threadVars, turnVars>>

\* The loop ends: closing is seen, or poll or receive fails.  It waits for
\* its goroutines.
LoopEnds ==
    /\ loop = "poll"
    /\ \/ closing /\ UNCHANGED failed
       \/ failed' \in {failed, TRUE}
    /\ loop' = "wait"
    /\ UNCHANGED <<phase, open, closing, threadVars, turnVars>>

LoopDone ==
    /\ loop = "wait"
    /\ \A n \in Notifs : handler[n] \in {"none", "done"}
    /\ loop' = "done"
    /\ UNCHANGED <<phase, open, closing, failed, threadVars, turnVars>>

SetHandler(n, st) == handler' = [handler EXCEPT ![n] = st]

\* doneCh of n is closed.
TurnOver(n) == handler[n] \in {"unlock", "done"}

BeginWork(n) ==
    /\ handler[n] = "turn" /\ (waitFor[n] # 0 => TurnOver(waitFor[n]))
    /\ SetHandler(n, "work")
    /\ UNCHANGED <<setupVars, threadVars, waitFor, tails, refs>>

\* processNotification returns.
EndWork(n) ==
    /\ handler[n] = "work"
    /\ SetHandler(n, "respond")
    /\ UNCHANGED <<setupVars, threadVars, waitFor, tails, refs>>

\* notifRespond: the thread goes on; ENOENT if the call was interrupted.
Respond(n) ==
    /\ handler[n] = "respond"
    /\ live' = live \ {n}
    /\ blocked' = [t \in Threads |-> IF n \in live /\ blocked[t] = n THEN 0 ELSE blocked[t]]
    /\ SetHandler(n, "release")
    /\ UNCHANGED <<setupVars, kernel, made, owner, waitFor, tails, refs>>

\* releaseTurn: close(doneCh), which lets the next handler go on ...
Release(n) ==
    /\ handler[n] = "release"
    /\ SetHandler(n, "unlock")
    /\ UNCHANGED <<setupVars, threadVars, waitFor, tails, refs>>

\* Mutant: the tail is removed by the first handler that is done.
UnlockAlways(n) ==
    /\ handler[n] = "unlock"
    /\ refs' = [refs EXCEPT ![owner[n]] = @ - 1]
    /\ tails' = [tails EXCEPT ![owner[n]] = 0]
    /\ SetHandler(n, "done")
    /\ UNCHANGED <<setupVars, threadVars, waitFor>>

\* ... and then, under notifyQueueMu, the queue is dropped if it is unused.
Unlock(n) ==
    LET t == owner[n] IN
    /\ handler[n] = "unlock"
    /\ refs' = [refs EXCEPT ![t] = @ - 1]
    /\ tails' = IF refs'[t] = 0 /\ tails[t] = n THEN [tails EXCEPT ![t] = 0] ELSE tails
    /\ SetHandler(n, "done")
    /\ UNCHANGED <<setupVars, threadVars, waitFor>>

HandlerStep(n) == BeginWork(n) \/ EndWork(n) \/ Respond(n) \/ Release(n) \/ Unlock(n)

Next ==
    \/ Prepare \/ StartSession \/ Start \/ StartFails \/ CloseBegin \/ CloseEnd
    \/ Receive \/ Poll \/ LoopEnds \/ LoopDone
    \/ \E t \in Threads : Syscall(t) \/ Interrupt(t)
    \/ \E n \in Notifs : HandlerStep(n)
    \/ phase = "closed" /\ UNCHANGED vars

Spec == Init /\ [][Next]_vars

\* Everything the supervisor does goes on, except that the work of a handler
\* may take forever for a thread in Stuck (the host does not answer its DNS
\* query).
Fairness ==
    /\ WF_vars(Receive) /\ WF_vars(LoopEnds /\ closing) /\ WF_vars(LoopDone) /\ WF_vars(CloseEnd)
    /\ \A n \in Notifs : WF_vars(BeginWork(n) \/ Respond(n) \/ Release(n) \/ Unlock(n))
    /\ \A n \in Notifs : WF_vars(n <= made /\ owner[n] \notin Stuck /\ EndWork(n))

-----------------------------------------------------------------------------
\* The notifications of a thread are handled one at a time and in the order
\* they were received, also when an interrupted call left its handler
\* behind.
TurnsInOrder ==
    \A n, m \in 1 .. made : n < m /\ owner[n] = owner[m] /\ handler[m] \in {"work", "respond", "release"} =>
        handler[n] \in {"none", "unlock", "done"}

\* The queue of a thread counts the handlers that are not done, a new
\* notification queues up behind every handler whose turn is not over, and
\* what is left of a queue without handlers holds nobody up.
QueueIsSound ==
    \A t \in Threads :
        LET waiting == {n \in 1 .. made : owner[n] = t /\ handler[n] \notin {"none", "done"}}
        IN  /\ refs[t] = Cardinality(waiting)
            /\ \A n \in waiting : ~TurnOver(n) => n <= tails[t]
            /\ waiting = {} /\ tails[t] # 0 => TurnOver(tails[t])

\* A handler answers through the notify descriptor, so that one stays open
\* while there are handlers, and Close leaves nothing open.
NoUseAfterClose ==
    /\ (\E n \in Notifs : handler[n] \notin {"none", "done"}) => "control" \in open
    /\ phase = "closed" => open = {}

\* The turns of a thread's notifications, the bookkeeping behind them and the
\* descriptors they answer through: enqueueNotificationTurn, Close.
TurnsAreSound == TurnsInOrder /\ QueueIsSound /\ NoUseAfterClose

\* A thread whose handlers end is answered, although the handler of another
\* thread may be stuck: a pending DNS query holds up its own thread only.
ThreadsAreIndependent ==
    \A t \in Threads \ Stuck : \A n \in Notifs : (blocked[t] = n) ~> (blocked[t] # n \/ phase # "serving" \/ loop # "poll")

\* Close returns, and every goroutine of the supervisor has ended, if no handler
\* works forever.
CloseReturns ==
    ([]<>(\A n \in 1 .. made : handler[n] = "work" => owner[n] \notin Stuck)) =>
        (closing ~> phase = "closed")
=============================================================================
