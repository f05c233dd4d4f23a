------------------------------ MODULE RunProtocol ------------------------------
(***************************************************************************)
(* The run protocol: the host's HelperClient and the helper's ExecManager,  *)
(* joined by the bridge.                                                    *)
(***************************************************************************)
EXTENDS HelperClient, ExecManager

vars == <<connVars, clientVars, helperVars>>

Init == ConnInit /\ ClientInit /\ ExecInit

ClientStep == ClientNext /\ UNCHANGED helperVars
HelperStep == HelperNext /\ UNCHANGED clientVars

Next == ClientStep \/ HelperStep

Spec == Init /\ [][Next]_vars

\* The host's goroutines run: ReadLoop, the selects of Start and Run, and the
\* request goroutines.  Nothing is assumed of the callers' contexts.
HostFairness ==
    /\ WF_vars(LoopNext /\ UNCHANGED helperVars)
    /\ WF_vars((StartSend \/ StartReturn) /\ UNCHANGED helperVars)
    /\ \A r \in Runs :
         /\ WF_vars((RunSend(r) \/ RunSendFails(r)) /\ UNCHANGED helperVars)
         /\ WF_vars((RunOutcome(r) \/ RunLoopDone(r)) /\ UNCHANGED helperVars)
    /\ \A h \in Handlers :
         WF_vars((HandlerRespond(h) \/ HandlerSendFails(h) \/ HandlerFinish(h))
                   /\ UNCHANGED helperVars)

\* The helper's goroutines run: ReadLoop, handleExec and StreamOutput.  Nothing
\* is assumed of the commands, and an exit of the helper may come at any time
\* (but must follow an EOF from the host).
HelperFairness ==
    /\ WF_vars(ReadLoopNext /\ UNCHANGED clientVars)
    /\ WF_vars(hostEnd = "closed" /\ toHelper = <<>> /\ HelperExit
                 /\ UNCHANGED clientVars)
    /\ \A r \in Runs : WF_vars(ExecNext(r) /\ UNCHANGED clientVars)

FairSpec == Spec /\ HostFairness /\ HelperFairness

-----------------------------------------------------------------------------
ConnTypeOK ==
    /\ toHelper \in Seq(Envelope)
    /\ toHost \in Seq(Envelope)
    /\ hostEnd \in {"open", "closing", "closed"}
    /\ helperEnd \in {"open", "closed"}

StartTypeOK ==
    /\ startPc \in {"new", "await", "ready", "failed"}
    /\ readyCh \in Seq({"ready", "error"})
    /\ readyOnce \in {"unused", "used"}

LoopTypeOK ==
    /\ loop \in LoopStates
    /\ loopDone \in Seq({"err"})
    /\ loopTook \in [run : Runs \cup {NoRun}, outcome : Outcome]

RunTypeOK ==
    /\ execMu \in Runs \cup {NoRun}
    /\ currentRun \in Runs \cup {NoRun}
    /\ pc \in [Runs -> {"idle", "send", "wait", "done"}]
    /\ returned \in [Runs -> Outcome]

SessionTypeOK ==
    /\ finished \subseteq Runs
    /\ resultCh \in [Runs -> Seq(Outcome)]
    /\ stdout \in [Runs -> Seq(Chunk)]

PumpTypeOK ==
    /\ pump \in [Runs -> {"off", "on", "done"}]
    /\ pumped \in [Runs -> 0 .. MaxInput]

HandlerTypeOK ==
    /\ handler \in [Handlers -> {"none", "busy", "fail", "done"}]
    /\ handlerTook \in [Handlers -> Runs \cup {NoRun}]

ExecTypeOK ==
    /\ exec \in [Runs -> ExecStates]
    /\ helperExecMu \in Runs \cup {NoRun}
    /\ currentExec \in Runs \cup {NoRun}
    /\ wrote \in [Runs -> 0 .. MaxOutput]
    /\ pipe \in [Runs -> Seq(Nat)]
    /\ streamed \in [Runs -> Nat]
    /\ stdin \in [Runs -> Seq(Nat)]

\* The variables hold values of their types; in particular no counter passes
\* its bound, and no operation is applied to an absent session or command.
TypeOK ==
    /\ ConnTypeOK
    /\ StartTypeOK
    /\ LoopTypeOK
    /\ closePc \in {"open", "drain", "closed"}
    /\ RunTypeOK
    /\ SessionTypeOK
    /\ PumpTypeOK
    /\ HandlerTypeOK
    /\ ExecTypeOK
    /\ requested \in 0 .. MaxRequests

-----------------------------------------------------------------------------
\* A command of the host is under way: its request is on the bridge, the helper
\* works on it, or its result is on the bridge.
Outstanding(r) ==
    \/ Has(toHelper, "ExecRequest", r)
    \/ exec[r] \in {"queued", "running", "exited", "waited"}
    \/ Has(toHost, "ExecResult", r)

\* out is what the command of r wrote first, in order.
FirstChunks(r, out) == \A i \in DOMAIN out : out[i] = [id |-> r, n |-> i]

\* A Run that returns a result returns the one its own command produced, with
\* exactly the frames StreamOutput sent for that command, in order.
\* handleStream and handleExecResult do not look at the envelope ID; only the
\* refusal of installRunSession and the order of the bridge keep the results of
\* a cancelled Run, a lost session or a dying helper away from another Run.
ResultIsOwn ==
    \A r \in Runs : returned[r].kind = "result" =>
        /\ returned[r].of = r
        /\ Len(returned[r].out) = streamed[r]
        /\ FirstChunks(r, returned[r].out)

\* While the bridge works, the currentRun slot is taken exactly as long as a
\* command is under way (or about to be sent): no command runs without the slot
\* being taken, so no second one is sent, and the slot is never left taken with
\* nothing under way to clear it, which would refuse every later Run.
SlotTracksCommand ==
    HostCanSend => \A r \in Runs :
        (currentRun = r /\ pc[r] # "send") <=> Outstanding(r)

\* The sends to the channels of capacity one (readyCh by notifyReady, loopDone
\* by the ReadLoop goroutine, resultCh by Finish) stand outside any select: a
\* second value would block ReadLoop or a request goroutine for good.
ChannelsNeverBlock ==
    /\ Len(readyCh) <= 1
    /\ Len(loopDone) <= 1
    /\ \A r \in Runs : Len(resultCh[r]) <= 1

\* When the helper is gone, Start and every Run in progress return, whichever
\* of ReadLoop, a request goroutine, Close and another Run gets to the session
\* and to the single value in loopDone first.
HelperDeathEndsCalls ==
    /\ (helperEnd = "closed" /\ startPc # "new") ~> startPc \in {"ready", "failed"}
    /\ \A r \in Runs : (helperEnd = "closed" /\ pc[r] # "idle") ~> pc[r] = "done"

\* A Run whose context ended leaves its session in the slot and later Runs are
\* refused; the slot is freed once the abandoned command has exited.
AbandonedRunFreesSlot ==
    \A r \in Runs :
        (currentRun = r /\ pc[r] = "done" /\ exec[r] = "exited") ~> currentRun # r

\* A pty keeps its output after cmd.Wait, so a Run on a terminal that returns a
\* result returns all its command wrote.
PtyOutputComplete ==
    \A r \in Terminal : returned[r].kind = "result" => Len(returned[r].out) = wrote[r]

\* What reaches a command's stdin is a gapless stretch of what pumpRunInput of
\* its own Run sent, in order, and nothing follows the EOF: handleExecInput may
\* drop what comes too early or too late, and a pump that outlived its Run
\* never feeds the next command.
StdinIsContiguous ==
    \A r \in Runs : \A i \in 1 .. Len(stdin[r]) - 1 :
        stdin[r][i] # EOFInput /\ stdin[r][i + 1] = stdin[r][i] + 1

\* "Stdout is the captured standard output stream": a Run that returns a result
\* returns all the output its command wrote.
OutputIsCaptured ==
    \A r \in Runs : returned[r].kind = "result" => Len(returned[r].out) = wrote[r]

-----------------------------------------------------------------------------
\* The run protocol implements RunService.
serviceCall ==
    [r \in Runs |-> CASE pc[r] = "idle" -> "idle"
                      [] pc[r] = "done" -> returned[r].kind
                      [] OTHER -> "called"]

serviceCommand ==
    [r \in Runs |-> CASE exec[r] \in {"none", "queued"} -> "none"
                      [] exec[r] \in {"sent", "done"} -> "ended"
                      [] OTHER -> "running"]

Service == INSTANCE RunService WITH call <- serviceCall, command <- serviceCommand

\* Every step of the host, the helper and the commands is a step of the service
\* Sandbox.Run promises, or invisible to it.
ImplementsRunService == Service!ServiceSpec
=============================================================================
