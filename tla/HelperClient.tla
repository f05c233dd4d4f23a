----------------------------- MODULE HelperClient -----------------------------
(***************************************************************************)
(* internal/helperclient: the host's end of the bridge of one sandbox.      *)
(* Client.Start, Client.Run with its runSession, Client.Close, the ReadLoop *)
(* goroutine and the goroutines that answer the payload's network requests. *)
(* Tunnels are the subject of HostTunnel.                                   *)
(***************************************************************************)
EXTENDS ExecProto

VARIABLES
    startPc,          \* Client.Start: "new", "await", "ready", "failed"
    readyCh,          \* Client.readyCh, capacity 1: "ready" or "error"
    readyOnce,        \* Client.readyOnce: "unused", "used"
    loop,             \* ReadLoop, a member of LoopStates
    loopDone,         \* Client.loopDone, capacity 1
    loopTook,         \* the session ReadLoop took from currentRun, with its outcome
    closePc,          \* Client.Close: "open", "drain", "closed"
    execMu,           \* holder of Client.execMu
    currentRun,       \* Client.currentRun
    pc,               \* Run: "idle", "send", "wait", "done"
    finished,         \* the sessions with runSession.finished set
    resultCh,         \* runSession.resultCh, capacity 1
    stdout,           \* runSession.stdout
    returned,         \* what Run returned
    pumped,           \* stdin chunks pumpRunInput has read from its source
    pump,             \* pumpRunInput: "off", "on", "done"
    handler,          \* request goroutines: "none", "busy", "fail", "done"
    handlerTook       \* the session a request goroutine took from currentRun

startVars == <<startPc, readyCh, readyOnce>>
loopVars == <<loop, loopDone, loopTook>>
runVars == <<execMu, currentRun, pc, returned>>
sessionVars == <<finished, resultCh, stdout>>
pumpVars == <<pump, pumped>>
handlerVars == <<handler, handlerTook>>
clientVars == <<startVars, loopVars, closePc, runVars, sessionVars, pumpVars,
                handlerVars>>

\* ReadLoop is decoding, finishing the session a result was for, or on its way
\* out: failing the current run, finishing it, reporting on loopDone.
LoopStates == {"off", "decode", "result", "fail", "exit", "report", "done"}

\* runOutcome.  "result" is a RunResult (possibly with an error next to it),
\* of is the command whose ExecResult it was built from, out its Stdout.
Outcome == [kind : {"none", "result", "error"}, of : Runs \cup {NoRun},
            out : Seq(Chunk)]

NoOutcome == [kind |-> "none", of |-> NoRun, out |-> <<>>]
ErrOutcome == [kind |-> "error", of |-> NoRun, out |-> <<>>]
Result(id, out) == [kind |-> "result", of |-> id, out |-> out]

\* newRunSession for every Run, New for the client.
ClientInit ==
    /\ startPc = "new"
    /\ readyCh = <<>>
    /\ readyOnce = "unused"
    /\ loop = "off"
    /\ loopDone = <<>>
    /\ loopTook = [run |-> NoRun, outcome |-> NoOutcome]
    /\ closePc = "open"
    /\ execMu = NoRun
    /\ currentRun = NoRun
    /\ pc = [r \in Runs |-> "idle"]
    /\ finished = {}
    /\ resultCh = [r \in Runs |-> <<>>]
    /\ stdout = [r \in Runs |-> <<>>]
    /\ returned = [r \in Runs |-> NoOutcome]
    /\ pumped = [r \in Runs |-> 0]
    /\ pump = [r \in Runs |-> "off"]
    /\ handler = [h \in Handlers |-> "none"]
    /\ handlerTook = [h \in Handlers |-> NoRun]

-----------------------------------------------------------------------------
\* runSession and the currentRun slot

\* Mutant: Finish without the compare-and-swap.
FinishTwice(s, outcome) ==
    IF s # NoRun
    THEN /\ finished' = finished \cup {s}
         /\ resultCh' = [resultCh EXCEPT ![s] = Append(@, outcome)]
    ELSE UNCHANGED <<finished, resultCh>>

\* runSession.Finish: only the call that wins the compare-and-swap sends.
\* (s is nil when the slot was empty.)
Finish(s, outcome) ==
    IF s # NoRun /\ s \notin finished
    THEN /\ finished' = finished \cup {s}
         /\ resultCh' = [resultCh EXCEPT ![s] = Append(@, outcome)]
    ELSE UNCHANGED <<finished, resultCh>>

\* notifyReady: the first caller fills readyCh, the others do nothing.
notifyReady(ready) ==
    IF readyOnce = "used"
    THEN UNCHANGED <<readyOnce, readyCh>>
    ELSE readyOnce' = "used" /\ readyCh' = Append(readyCh, ready)

-----------------------------------------------------------------------------
\* Client.Start

\* Start the ReadLoop goroutine and send Hello.
StartSend ==
    /\ startPc = "new"
    /\ loop' = "decode"
    /\ \/ HostSend(Env("Hello", NoRun, 0)) /\ startPc' = "await"
       \/ ~HostCanSend /\ startPc' = "failed" /\ UNCHANGED toHelper
    /\ UNCHANGED <<toHost, hostEnd, helperEnd, readyCh, readyOnce, loopDone,
                   loopTook, closePc, runVars, sessionVars, pumpVars,
                   handlerVars>>

\* The select of Start: readiness, or the end of ReadLoop ...
StartReturn ==
    /\ startPc = "await"
    /\ \/ /\ readyCh # <<>>
          /\ readyCh' = Tail(readyCh)
          /\ startPc' = IF Head(readyCh) = "ready" THEN "ready" ELSE "failed"
          /\ UNCHANGED loopDone
       \/ /\ loopDone # <<>>
          /\ loopDone' = Tail(loopDone)
          /\ startPc' = "failed"
          /\ UNCHANGED readyCh
    /\ UNCHANGED <<connVars, readyOnce, loop, loopTook, closePc, runVars,
                   sessionVars, pumpVars, handlerVars>>

\* ... or the end of the caller's context.
StartCancelled ==
    /\ startPc = "await"
    /\ startPc' = "failed"
    /\ UNCHANGED <<connVars, readyCh, readyOnce, loopVars, closePc, runVars,
                   sessionVars, pumpVars, handlerVars>>

-----------------------------------------------------------------------------
\* Client.Run

\* Mutant: installRunSession replaces the session in the slot.
RunInstallReplaces(r) ==
    /\ pc[r] = "idle"
    /\ startPc = "ready"
    /\ execMu = NoRun
    /\ execMu' = r
    /\ currentRun' = r
    /\ pc' = [pc EXCEPT ![r] = "send"]
    /\ UNCHANGED <<connVars, startVars, loopVars, closePc, returned,
                   sessionVars, pumpVars, handlerVars>>

\* Lock execMu, make the session and install it as currentRun.
RunInstall(r) ==
    /\ pc[r] = "idle"
    /\ startPc = "ready"
    /\ execMu = NoRun
    /\ currentRun = NoRun
    /\ execMu' = r
    /\ currentRun' = r
    /\ pc' = [pc EXCEPT ![r] = "send"]
    /\ UNCHANGED <<connVars, startVars, loopVars, closePc, returned,
                   sessionVars, pumpVars, handlerVars>>

\* installRunSession refuses: an earlier run still occupies the slot.
RunBusy(r) ==
    /\ pc[r] = "idle"
    /\ startPc = "ready"
    /\ execMu = NoRun
    /\ currentRun # NoRun
    /\ pc' = [pc EXCEPT ![r] = "done"]
    /\ returned' = [returned EXCEPT ![r] = ErrOutcome]
    /\ UNCHANGED <<connVars, startVars, loopVars, closePc, execMu, currentRun,
                   sessionVars, pumpVars, handlerVars>>

\* Send the ExecRequest and start pumpRunInput for an interactive run.
RunSend(r) ==
    /\ pc[r] = "send"
    /\ HostSend(Env("ExecRequest", r, 0))
    /\ pc' = [pc EXCEPT ![r] = "wait"]
    /\ pump' = [pump EXCEPT ![r] = IF r \in Interactive THEN "on" ELSE "off"]
    /\ UNCHANGED <<toHost, hostEnd, helperEnd, startVars, loopVars, closePc,
                   execMu, currentRun, returned, sessionVars, pumped,
                   handlerVars>>

\* Run gives up execMu and returns outcome to its caller.
RunReturn(r, outcome) ==
    /\ pc' = [pc EXCEPT ![r] = "done"]
    /\ returned' = [returned EXCEPT ![r] = outcome]
    /\ execMu' = NoRun

\* The send fails: failCurrentRun, and the send error is returned.
RunSendFails(r) ==
    /\ pc[r] = "send"
    /\ ~HostCanSend
    /\ currentRun' = NoRun
    /\ Finish(currentRun, ErrOutcome)
    /\ RunReturn(r, ErrOutcome)
    /\ UNCHANGED <<connVars, startVars, loopVars, closePc, stdout, pumpVars,
                   handlerVars>>

\* The select of Run: the session's outcome, ...
RunOutcome(r) ==
    /\ pc[r] = "wait"
    /\ resultCh[r] # <<>>
    /\ resultCh' = [resultCh EXCEPT ![r] = Tail(@)]
    /\ RunReturn(r, Head(resultCh[r]))
    /\ UNCHANGED <<connVars, startVars, loopVars, closePc, currentRun,
                   finished, stdout, pumpVars, handlerVars>>

\* ... the end of ReadLoop (the slot is left as it is), ...
RunLoopDone(r) ==
    /\ pc[r] = "wait"
    /\ loopDone # <<>>
    /\ loopDone' = Tail(loopDone)
    /\ Finish(r, ErrOutcome)
    /\ RunReturn(r, ErrOutcome)
    /\ UNCHANGED <<connVars, startVars, loop, loopTook, closePc, currentRun,
                   stdout, pumpVars, handlerVars>>

\* ... or the caller's context (the slot is left as it is, and the helper is
\* not told).
RunCancelled(r) ==
    /\ pc[r] = "wait"
    /\ RunReturn(r, ErrOutcome)
    /\ UNCHANGED <<connVars, startVars, loopVars, closePc, currentRun,
                   sessionVars, pumpVars, handlerVars>>

\* pumpRunInput: forward the next chunk of stdin, after the last one an EOF.
\* The goroutine outlives a Run whose context ended.
PumpInput(r) ==
    /\ pump[r] = "on"
    /\ IF pumped[r] < MaxInput
       THEN /\ HostSend(Env("ExecInput", r, pumped[r] + 1))
            /\ pumped' = [pumped EXCEPT ![r] = @ + 1]
            /\ UNCHANGED pump
       ELSE /\ HostSend(Env("ExecInput", r, EOFInput))
            /\ pump' = [pump EXCEPT ![r] = "done"]
            /\ UNCHANGED pumped
    /\ UNCHANGED <<toHost, hostEnd, helperEnd, startVars, loopVars, closePc,
                   runVars, sessionVars, handlerVars>>

\* pumpRunInput returns without an EOF: its source or its send failed.
PumpFails(r) ==
    /\ pump[r] = "on"
    /\ pump' = [pump EXCEPT ![r] = "done"]
    /\ UNCHANGED <<connVars, startVars, loopVars, closePc, runVars,
                   sessionVars, pumped, handlerVars>>

-----------------------------------------------------------------------------
\* Client.ReadLoop

\* The host's descriptor after a read of ReadLoop returned: a Close that came
\* during the read takes effect now.
AfterRead == IF hostEnd = "closing" THEN "closed" ELSE hostEnd

\* Ready completes Client.Start.
handleReady(env) ==
    /\ env.kind = "Ready"
    /\ notifyReady("ready")
    /\ UNCHANGED <<startPc, handler, stdout, loop, loopTook, currentRun>>

\* A network request of the payload is answered by a goroutine of its own.
handleRequest(env) ==
    /\ env.kind = "Request"
    /\ handler' = [handler EXCEPT ![env.n] = "busy"]
    /\ UNCHANGED <<startVars, stdout, loop, loopTook, currentRun>>

\* handleStream: append the frame to the session in the slot, if there is one.
\* The frame's envelope ID is not compared with the session's.
handleStream(env) ==
    /\ env.kind = "StreamFrame"
    /\ stdout' = IF currentRun = NoRun
                 THEN stdout
                 ELSE [stdout EXCEPT ![currentRun] =
                         Append(@, [id |-> env.id, n |-> env.n])]
    /\ UNCHANGED <<startVars, handler, loop, loopTook, currentRun>>

\* Mutant: handleExecResult reads the slot without clearing it.
handleExecResultKeeps(env) ==
    /\ env.kind = "ExecResult"
    /\ IF currentRun = NoRun
       THEN UNCHANGED <<loop, loopTook>>
       ELSE /\ loop' = "result"
            /\ loopTook' = [run |-> currentRun,
                            outcome |-> Result(env.id, stdout[currentRun])]
    /\ UNCHANGED <<startVars, handler, stdout, currentRun>>

\* handleExecResult: take the session from the slot, if there is one;
\* HandleExecResult copies its output.  The ID is not compared here either.
handleExecResult(env) ==
    /\ env.kind = "ExecResult"
    /\ IF currentRun = NoRun
       THEN UNCHANGED <<loop, loopTook, currentRun>>
       ELSE /\ loop' = "result"
            /\ loopTook' = [run |-> currentRun,
                            outcome |-> Result(env.id, stdout[currentRun])]
            /\ currentRun' = NoRun
    /\ UNCHANGED <<startVars, handler, stdout>>

\* Decode one envelope and dispatch it.
LoopDecode ==
    /\ loop = "decode"
    /\ toHost # <<>>
    /\ LET env == Head(toHost)
       IN  handleReady(env) \/ handleRequest(env) \/ handleStream(env)
             \/ handleExecResult(env)
    /\ toHost' = Tail(toHost)
    /\ hostEnd' = AfterRead
    /\ UNCHANGED <<toHelper, helperEnd, loopDone, closePc, execMu, pc, returned,
                   finished, resultCh, pumpVars, handlerTook>>

\* Decode fails: EOF from the helper, or the host's file was closed.
LoopDecodeError ==
    /\ loop = "decode"
    /\ hostEnd = "closed" \/ (helperEnd = "closed" /\ toHost = <<>>)
    /\ notifyReady("error")
    /\ loop' = "fail"
    /\ hostEnd' = AfterRead
    /\ UNCHANGED <<toHelper, toHost, helperEnd, startPc, loopDone, loopTook,
                   closePc, runVars, sessionVars, pumpVars, handlerVars>>

\* Mutant: ReadLoop returns without failing the current run.
LoopFailSkips ==
    /\ loop = "fail"
    /\ loopTook' = [run |-> NoRun, outcome |-> ErrOutcome]
    /\ loop' = "exit"
    /\ UNCHANGED <<connVars, startVars, loopDone, closePc, runVars,
                   sessionVars, pumpVars, handlerVars>>

\* failCurrentRun of ReadLoop, first half: take the session from the slot.
LoopFail ==
    /\ loop = "fail"
    /\ loopTook' = [run |-> currentRun, outcome |-> ErrOutcome]
    /\ currentRun' = NoRun
    /\ loop' = "exit"
    /\ UNCHANGED <<connVars, startVars, loopDone, closePc, execMu, pc, returned,
                   sessionVars, pumpVars, handlerVars>>

\* Finish the session handleExecResult took.
LoopFinish ==
    /\ loop = "result"
    /\ Finish(loopTook.run, loopTook.outcome)
    /\ loopTook' = [run |-> NoRun, outcome |-> NoOutcome]
    /\ loop' = "decode"
    /\ UNCHANGED <<connVars, startVars, loopDone, closePc, runVars, stdout,
                   pumpVars, handlerVars>>

\* Finish the session failCurrentRun took.
LoopFailFinish ==
    /\ loop = "exit"
    /\ Finish(loopTook.run, loopTook.outcome)
    /\ loopTook' = [run |-> NoRun, outcome |-> NoOutcome]
    /\ loop' = "report"
    /\ UNCHANGED <<connVars, startVars, loopDone, closePc, runVars, stdout,
                   pumpVars, handlerVars>>

\* ReadLoop returns; its goroutine reports on loopDone.
LoopReport ==
    /\ loop = "report"
    /\ loopDone' = Append(loopDone, "err")
    /\ loop' = "done"
    /\ UNCHANGED <<connVars, startVars, loopTook, closePc, runVars, sessionVars,
                   pumpVars, handlerVars>>

-----------------------------------------------------------------------------
\* HandleProxyRequest, HandleDNSRequest, HandleLeafCertRequest,
\* HandleMITMRequest: one goroutine per request, any order of completion.

\* The answer is sent ...
HandlerRespond(h) ==
    /\ handler[h] = "busy"
    /\ HostSend(Env("Response", NoRun, h))
    /\ handler' = [handler EXCEPT ![h] = "done"]
    /\ UNCHANGED <<toHost, hostEnd, helperEnd, startVars, loopVars, closePc,
                   runVars, sessionVars, pumpVars, handlerTook>>

\* ... or the send fails, and failCurrentRun takes the session in the slot ...
HandlerSendFails(h) ==
    /\ handler[h] = "busy"
    /\ ~HostCanSend
    /\ handlerTook' = [handlerTook EXCEPT ![h] = currentRun]
    /\ currentRun' = NoRun
    /\ handler' = [handler EXCEPT ![h] = "fail"]
    /\ UNCHANGED <<connVars, startVars, loopVars, closePc, execMu, pc, returned,
                   sessionVars, pumpVars>>

\* ... and finishes it.
HandlerFinish(h) ==
    /\ handler[h] = "fail"
    /\ Finish(handlerTook[h], ErrOutcome)
    /\ handlerTook' = [handlerTook EXCEPT ![h] = NoRun]
    /\ handler' = [handler EXCEPT ![h] = "done"]
    /\ UNCHANGED <<connVars, startVars, loopVars, closePc, runVars, stdout,
                   pumpVars>>

-----------------------------------------------------------------------------
\* Client.Close

\* Close the file.  A ReadLoop inside read(2) keeps the descriptor alive.
CloseConn ==
    /\ closePc = "open"
    /\ startPc \in {"ready", "failed"}
    /\ \/ hostEnd' = "closed"
       \/ loop = "decode" /\ hostEnd = "open" /\ hostEnd' = "closing"
    /\ closePc' = "drain"
    /\ UNCHANGED <<toHelper, toHost, helperEnd, startVars, loopVars, runVars,
                   sessionVars, pumpVars, handlerVars>>

\* The non-blocking receive from loopDone.
CloseDrain ==
    /\ closePc = "drain"
    /\ loopDone' = IF loopDone = <<>> THEN <<>> ELSE Tail(loopDone)
    /\ closePc' = "closed"
    /\ UNCHANGED <<connVars, startVars, loop, loopTook, runVars, sessionVars,
                   pumpVars, handlerVars>>

-----------------------------------------------------------------------------
LoopNext == LoopDecode \/ LoopDecodeError \/ LoopFail \/ LoopFinish
              \/ LoopFailFinish \/ LoopReport

RunNext(r) ==
    \/ RunInstall(r) \/ RunBusy(r)
    \/ RunSend(r) \/ RunSendFails(r)
    \/ RunOutcome(r) \/ RunLoopDone(r) \/ RunCancelled(r)

ClientNext ==
    \/ StartSend \/ StartReturn \/ StartCancelled
    \/ \E r \in Runs : RunNext(r) \/ PumpInput(r) \/ PumpFails(r)
    \/ LoopNext
    \/ \E h \in Handlers : HandlerRespond(h) \/ HandlerSendFails(h) \/ HandlerFinish(h)
    \/ CloseConn \/ CloseDrain
=============================================================================
