------------------------------ MODULE RunProofs ------------------------------
(***************************************************************************)
(* The safety of RunProtocol for any number of Runs, chunks and requests,  *)
(* and any capacity of the bridge.  RunInv is inductive and implies        *)
(* ResultIsOwn and SlotTracksCommand; with it, PtyInv is inductive and     *)
(* implies PtyOutputComplete, and so is InputInv for StdinIsContiguous.    *)
(* With RunInv and PtyInv every step of RunProtocol is a step of           *)
(* RunService or a stutter.                                                *)
(***************************************************************************)
EXTENDS RunStepProofs

\* No Run has been called: nothing is on the bridge and nobody has a session.
LEMMA InvInit ==
  ASSUME Init
  PROVE  RunInv
<1>1. /\ toHelper = <<>> /\ toHost = <<>> /\ currentRun = NoRun
      /\ \A r \in Runs : /\ pc[r] = "idle" /\ returned[r] = NoOutcome /\ exec[r] = "none"
                         /\ wrote[r] = 0 /\ streamed[r] = 0 /\ pipe[r] = <<>>
                         /\ resultCh[r] = <<>> /\ stdout[r] = <<>> /\ r # NoRun
      /\ finished = {} /\ loopTook.run = NoRun /\ \A h \in Handlers : handlerTook[h] = NoRun
  BY ExecProtoAssumption, Zenon DEF Init, ConnInit, ClientInit, ExecInit
<1>2. \A r \in Runs : /\ ~Has(toHelper, "ExecRequest", r) /\ ~Has(toHost, "ExecResult", r)
                      /\ ~Has(toHost, "StreamFrame", r)
                      /\ Once(toHelper, "ExecRequest", r) /\ Once(toHost, "ExecResult", r)
                      /\ Before(toHost, "StreamFrame", "ExecResult", r)
  BY <1>1, EmptyQueue, Zenon
<1>3. CommandOrder /\ FrameOrder
  BY <1>1, <1>2, Zenon DEF CommandOrder, FrameOrder
<1>4. PipeOrder
  BY <1>1 DEF PipeOrder
<1>5. SessionOrder
  BY <1>1, Zenon DEF SessionOrder, FreshSession
<1>6. WaitingRunIsAlone /\ FramesCollected /\ OutcomesOwn
  BY <1>1, Zenon DEF WaitingRunIsAlone, FramesCollected, OutcomesOwn
<1>7. ReturnedOwn
  BY <1>1, OwnFacts DEF ReturnedOwn
<1>8. SlotTracksCommand
  BY <1>1, <1>2, Zenon DEF SlotTracksCommand, Outstanding
<1> QED
  BY <1>3, <1>4, <1>5, <1>6, <1>7, <1>8, Zenon DEF RunInv

\* RunInv holds in every state the host and the helper can reach.
THEOREM RunInvariantHolds == Spec => []RunInv
<1>1. Init => RunInv
  BY InvInit, Zenon
<1>2. TypeOK /\ ChannelInv /\ RunInv /\ [Next]_vars => RunInv'
  <2> SUFFICES ASSUME TypeOK, ChannelInv, RunInv, [Next]_vars PROVE RunInv'
    BY Zenon
  <2>1. CASE ClientStep
    BY <2>1, InvClientStep, Zenon
  <2>2. CASE HelperStep
    BY <2>2, InvHelperStep, Zenon
  <2>3. CASE UNCHANGED vars
    <3>1. UNCHANGED connVars /\ UNCHANGED runInvVars
      BY <2>3, Zenon DEF vars, clientVars, startVars, loopVars, runVars, sessionVars, handlerVars,
         helperVars, execVars, runInvVars
    <3> QED
      BY <3>1, ConnFrame, QuietStep, Zenon
  <2> QED
    BY <2>1, <2>2, <2>3, Zenon DEF Next
<1> QED
  BY <1>1, <1>2, TypeCorrect, ChannelInvariant, PTL DEF Spec

\* Run returns the result of its own command, with all and only the output that
\* StreamOutput has sent for it, in order.
THEOREM ResultSafe == Spec => []ResultIsOwn
<1>1. RunInv => ResultIsOwn
  BY Zenon DEF RunInv, ReturnedOwn, Own, ResultIsOwn
<1> QED
  BY <1>1, RunInvariantHolds, PTL

\* The run slot of the client is taken exactly while a command is outstanding.
THEOREM SlotSafe == Spec => []SlotTracksCommand
<1>1. RunInv => SlotTracksCommand
  BY Zenon DEF RunInv
<1> QED
  BY <1>1, RunInvariantHolds, PTL

-----------------------------------------------------------------------------
\* Finish puts an outcome into the channel of a session, or does nothing.
LEMMA FinishFlow ==
  ASSUME NEW S, TypeOK, OutcomesIn(S), NEW s \in Runs \cup {NoRun}, NEW o \in Outcome,
         s # NoRun => o \in S, Finish(s, o)
  PROVE  \A r \in Runs : \A i \in DOMAIN resultCh'[r] : resultCh'[r][i] \in S
<1>0. resultCh \in [Runs -> Seq(Outcome)]
  BY Zenon DEF TypeOK, SessionTypeOK
<1>1. CASE s # NoRun /\ s \notin finished
  <2> SUFFICES ASSUME NEW r \in Runs, NEW i \in DOMAIN resultCh'[r]
               PROVE  resultCh'[r][i] \in S
    BY Zenon
  <2>1. s \in Runs /\ resultCh[r] \in Seq(Outcome) /\ o \in S
        /\ resultCh' = [resultCh EXCEPT ![s] = Append(@, o)]
    BY <1>0, <1>1, Zenon DEF Finish
  <2>2. CASE r = s
    <3>1. resultCh'[r] = Append(resultCh[r], o)
      BY <1>0, <2>1, <2>2, Zenon
    <3>2. CASE i \in DOMAIN resultCh[r]
      BY <2>1, <3>1, <3>2, AppendPlaces DEF OutcomesIn
    <3>3. CASE i = Len(resultCh[r]) + 1
      BY <2>1, <3>1, <3>3, AppendPlaces
    <3> QED
      BY <2>1, <3>1, <3>2, <3>3, AppendPlaces
  <2>3. CASE r # s
    BY <1>0, <2>1, <2>3, Zenon DEF OutcomesIn
  <2> QED
    BY <2>2, <2>3, Zenon
<1>2. CASE ~(s # NoRun /\ s \notin finished)
  BY <1>2, Zenon DEF Finish, OutcomesIn
<1> QED
  BY <1>1, <1>2, Zenon

\* An outcome is an error, or is made of an ExecResult at the head of the bridge;
\* after that it only moves, from ReadLoop over resultCh to the caller of Run.
LEMMA OutcomesFlow ==
  ASSUME TypeOK, [Next]_vars, NEW S, ErrOutcome \in S, OutcomesIn(S),
         \A id \in Runs, out \in Seq(Chunk) :
            toHost # <<>> /\ Is(Head(toHost), "ExecResult", id) => Result(id, out) \in S
  PROVE  OutcomesIn(S)'
<1>a. resultCh \in [Runs -> Seq(Outcome)] /\ returned \in [Runs -> Outcome]
      /\ stdout \in [Runs -> Seq(Chunk)]
  BY Zenon DEF TypeOK, SessionTypeOK, RunTypeOK
<1>b. /\ currentRun \in Runs \cup {NoRun} /\ loopTook.run \in Runs \cup {NoRun}
      /\ loopTook.outcome \in Outcome /\ \A h \in Handlers : handlerTook[h] \in Runs \cup {NoRun}
  BY Zenon DEF TypeOK, RunTypeOK, LoopTypeOK, HandlerTypeOK
<1>0. ErrOutcome \in Outcome
  BY OutcomeType, Zenon
<1> DEFINE InChannels == \A q \in Runs : \A i \in DOMAIN resultCh'[q] : resultCh'[q][i] \in S
           Returned == \A q \in Runs : returned'[q] \in S \cup {NoOutcome}
<1>1. ASSUME UNCHANGED loopTook \/ loopTook'.run = NoRun \/ loopTook'.outcome \in S, InChannels, Returned
      PROVE  OutcomesIn(S)'
  BY <1>1, Zenon DEF OutcomesIn
<1>2. UNCHANGED resultCh => InChannels
  BY Zenon DEF OutcomesIn
<1>3. UNCHANGED returned => Returned
  BY Zenon DEF OutcomesIn
<1>4. ASSUME NEW r \in Runs, NEW o \in S, returned' = [returned EXCEPT ![r] = o] PROVE Returned
  BY <1>4, <1>a, Zenon DEF OutcomesIn
<1> HIDE DEF InChannels, Returned
<1>5. CASE HelperStep \/ UNCHANGED vars
  BY <1>1, <1>2, <1>3, <1>5, Zenon DEF HelperStep, vars, clientVars, loopVars, sessionVars, runVars
<1>6. CASE StartSend \/ StartReturn \/ StartCancelled \/ CloseConn \/ CloseDrain
  BY <1>1, <1>2, <1>3, <1>6 DEF StartSend, StartReturn, StartCancelled, CloseConn, CloseDrain, loopVars,
     sessionVars, runVars
<1>7. ASSUME NEW r \in Runs, RunNext(r) \/ PumpInput(r) \/ PumpFails(r) PROVE OutcomesIn(S)'
  <2>1. CASE RunInstall(r) \/ RunSend(r) \/ PumpInput(r) \/ PumpFails(r)
    BY <1>1, <1>2, <1>3, <2>1 DEF RunInstall, RunSend, PumpInput, PumpFails, loopVars, sessionVars, runVars
  <2>2. CASE RunBusy(r) \/ RunCancelled(r)
    BY <1>1, <1>2, <1>4, <2>2 DEF RunBusy, RunCancelled, RunReturn, loopVars, sessionVars
  <2>3. CASE RunSendFails(r)
    <3>1. Finish(currentRun, ErrOutcome) /\ UNCHANGED loopTook
          /\ returned' = [returned EXCEPT ![r] = ErrOutcome]
      BY <2>3, Zenon DEF RunSendFails, RunReturn, loopVars
    <3>2. InChannels
      BY <1>0, <1>b, <3>1, FinishFlow DEF InChannels
    <3> QED
      BY <1>1, <1>4, <3>1, <3>2, Zenon
  <2>4. CASE RunLoopDone(r)
    <3>1. Finish(r, ErrOutcome) /\ UNCHANGED loopTook /\ returned' = [returned EXCEPT ![r] = ErrOutcome]
      BY <2>4, Zenon DEF RunLoopDone, RunReturn
    <3>2. InChannels
      BY <1>0, <3>1, FinishFlow DEF InChannels
    <3> QED
      BY <1>1, <1>4, <3>1, <3>2, Zenon
  <2>5. CASE RunOutcome(r)
    <3>1. /\ resultCh[r] # <<>> /\ resultCh[r] \in Seq(Outcome) /\ UNCHANGED loopTook
          /\ resultCh' = [resultCh EXCEPT ![r] = Tail(@)]
          /\ returned' = [returned EXCEPT ![r] = Head(resultCh[r])]
      BY <1>a, <2>5, Zenon DEF RunOutcome, RunReturn, loopVars
    <3>2. Head(resultCh[r]) \in S
      BY <3>1, TailPlaces DEF OutcomesIn
    <3>3. InChannels
      <4> SUFFICES ASSUME NEW q \in Runs, NEW i \in DOMAIN resultCh'[q] PROVE resultCh'[q][i] \in S
        BY Zenon DEF InChannels
      <4>1. CASE q = r
        <5>1. resultCh'[q] = Tail(resultCh[r])
          BY <1>a, <3>1, <4>1, Zenon
        <5> QED
          BY <3>1, <5>1, TailPlaces DEF OutcomesIn
      <4>2. CASE q # r
        BY <1>a, <3>1, <4>2 DEF OutcomesIn
      <4> QED
        BY <4>1, <4>2, Zenon
    <3> QED
      BY <1>1, <1>4, <3>1, <3>2, <3>3, Zenon
  <2> QED
    BY <1>7, <2>1, <2>2, <2>3, <2>4, <2>5, Zenon DEF RunNext
<1>8. CASE LoopNext
  <2>1. CASE LoopDecode
    <3>1. UNCHANGED <<resultCh, returned>>
      BY <2>1, Zenon DEF LoopDecode
    <3>2. UNCHANGED loopTook \/ loopTook'.outcome \in S
      <4>1. CASE handleExecResult(Head(toHost)) /\ currentRun # NoRun
        <5>1. /\ toHost \in Seq(Envelope) /\ toHost # <<>> /\ Head(toHost).kind = "ExecResult"
              /\ loopTook' = [run |-> currentRun, outcome |-> Result(Head(toHost).id, stdout[currentRun])]
          BY <2>1, <4>1 DEF LoopDecode, handleExecResult, TypeOK, ConnTypeOK
        <5>2. Head(toHost) \in Envelope
          BY <5>1
        <5>3. Head(toHost).id \in Runs /\ stdout[currentRun] \in Seq(Chunk)
          BY <1>a, <1>b, <4>1, <5>1, <5>2, Zenon DEF Envelope, ExecKinds
        <5> QED
          BY <5>1, <5>3, Zenon DEF Is
      <4>2. CASE ~(handleExecResult(Head(toHost)) /\ currentRun # NoRun)
        BY <2>1, <4>2 DEF LoopDecode, handleReady, handleRequest, handleStream, handleExecResult
      <4> QED
        BY <4>1, <4>2, Zenon
    <3> QED
      BY <1>1, <1>2, <1>3, <3>1, <3>2
  <2>2. CASE LoopDecodeError \/ LoopReport
    BY <1>1, <1>2, <1>3, <2>2 DEF LoopDecodeError, LoopReport, sessionVars, runVars
  <2>3. CASE LoopFail
    <3>1. loopTook'.outcome = ErrOutcome /\ UNCHANGED <<resultCh, returned>>
      BY <2>3, Zenon DEF LoopFail, sessionVars
    <3> QED
      BY <1>1, <1>2, <1>3, <3>1
  <2>4. CASE LoopFinish \/ LoopFailFinish
    <3>1. PICK s \in Runs \cup {NoRun}, o \in Outcome : s = loopTook.run /\ o = loopTook.outcome
      BY <1>b, Zenon
    <3>2. Finish(s, o) /\ loopTook'.run = NoRun /\ (s # NoRun => o \in S) /\ UNCHANGED returned
      BY <2>4, <3>1 DEF LoopFinish, LoopFailFinish, OutcomesIn, runVars
    <3>3. InChannels
      BY <3>2, FinishFlow DEF InChannels
    <3> QED
      BY <1>1, <1>3, <3>2, <3>3
  <2> QED
    BY <1>8, <2>1, <2>2, <2>3, <2>4 DEF LoopNext
<1>9. ASSUME NEW h \in Handlers, HandlerRespond(h) \/ HandlerSendFails(h) \/ HandlerFinish(h)
      PROVE  OutcomesIn(S)'
  <2>1. CASE HandlerRespond(h) \/ HandlerSendFails(h)
    BY <1>1, <1>2, <1>3, <2>1 DEF HandlerRespond, HandlerSendFails, loopVars, sessionVars, runVars
  <2>2. CASE HandlerFinish(h)
    <3>1. Finish(handlerTook[h], ErrOutcome) /\ UNCHANGED <<loopTook, returned>>
      BY <2>2, Zenon DEF HandlerFinish, loopVars, runVars
    <3>2. InChannels
      BY <1>0, <1>b, <3>1, FinishFlow DEF InChannels
    <3> QED
      BY <1>1, <1>3, <3>1, <3>2, Zenon
  <2> QED
    BY <1>9, <2>1, <2>2, Zenon
<1> QED
  BY <1>5, <1>6, <1>7, <1>8, <1>9, Zenon DEF Next, ClientStep, ClientNext

-----------------------------------------------------------------------------
\* A request that ReadLoop of the helper takes is that of a command not begun.
LEMMA RequestIsNew ==
  ASSUME TypeOK, RunInv, HelperExecRequest
  PROVE  \E r \in Runs : exec[r] = "none" /\ exec' = [exec EXCEPT ![r] = "queued"]
<1>1. toHelper \in Seq(Envelope) /\ toHelper # <<>> /\ Head(toHelper).kind = "ExecRequest"
      /\ exec' = [exec EXCEPT ![Head(toHelper).id] = "queued"]
  BY Zenon DEF HelperExecRequest, TypeOK, ConnTypeOK
<1>2. 1 \in DOMAIN toHelper /\ toHelper[1] = Head(toHelper) /\ Head(toHelper) \in Envelope
  BY <1>1
<1>3. Head(toHelper).id \in Runs
  BY <1>1, <1>2, Zenon DEF Envelope, ExecKinds
<1>4. Has(toHelper, "ExecRequest", Head(toHelper).id)
  BY <1>1, <1>2, Zenon DEF Has, Is
<1>5. exec[Head(toHelper).id] = "none"
  BY <1>3, <1>4 DEF RunInv, CommandOrder
<1> QED
  BY <1>1, <1>3, <1>5, Zenon

\* A command whose result was sent writes and streams no more.
LEMMA WholeGrows ==
  ASSUME TypeOK, RunInv, [Next]_vars
  PROVE  WholeRuns \subseteq WholeRuns'
<1> SUFFICES ASSUME NEW r \in WholeRuns PROVE r \in WholeRuns'
  BY Zenon
<1>0. r \in Runs /\ exec[r] \in {"sent", "done"} /\ (r \in Terminal => streamed[r] = wrote[r])
  BY Zenon DEF WholeRuns
<1>1. pipe[r] = <<>>
  BY <1>0 DEF RunInv, PipeOrder
<1>2. /\ exec \in [Runs -> ExecStates] /\ wrote \in [Runs -> 0 .. MaxOutput]
      /\ streamed \in [Runs -> Nat]
  BY Zenon DEF TypeOK, ExecTypeOK
<1>3. ASSUME exec'[r] = exec[r] \/ exec'[r] = "done", wrote'[r] = wrote[r], streamed'[r] = streamed[r]
      PROVE  r \in WholeRuns'
  BY <1>0, <1>3, Zenon DEF WholeRuns
<1>4. CASE ClientStep \/ UNCHANGED vars
  BY <1>3, <1>4, Zenon DEF ClientStep, vars, helperVars, execVars
<1>5. CASE HelperExecRequest
  BY <1>0, <1>2, <1>3, <1>5, RequestIsNew, Zenon DEF HelperExecRequest
<1>6. CASE HelperHello \/ HelperExecInput \/ HelperResponse \/ HelperRequest \/ HelperExit
  BY <1>3, <1>6 DEF HelperHello, HelperExecInput, HelperResponse, HelperRequest, HelperExit, helperVars, execVars
<1>7. ASSUME NEW q \in Runs, ExecNext(q) \/ CommandNext(q) PROVE r \in WholeRuns'
  <2>1. CASE ExecStart(q) \/ ExecError(q) \/ CommandExit(q) \/ CommandWait(q) \/ ExecSendResult(q)
    <3>1. q # r /\ UNCHANGED <<wrote, streamed>> /\ \E e : exec' = [exec EXCEPT ![q] = e]
      BY <1>0, <2>1 DEF ExecStart, ExecError, CommandExit, CommandWait, ExecSendResult
    <3> QED
      BY <1>0, <1>2, <1>3, <3>1, Zenon
  <2>2. CASE ExecCleanup(q)
    <3>1. UNCHANGED <<wrote, streamed>> /\ exec' = [exec EXCEPT ![q] = "done"]
      BY <2>2, Zenon DEF ExecCleanup
    <3> QED
      BY <1>0, <1>2, <1>3, <3>1
  <2>3. CASE CommandWrite(q)
    <3>1. q # r /\ UNCHANGED <<exec, streamed>> /\ wrote' = [wrote EXCEPT ![q] = @ + 1]
      BY <1>0, <2>3, Zenon DEF CommandWrite
    <3> QED
      BY <1>0, <1>2, <1>3, <3>1, Zenon
  <2>4. CASE StreamOutput(q)
    <3>1. q # r /\ UNCHANGED <<exec, wrote>>
          /\ streamed' = [streamed EXCEPT ![q] = IF HelperCanSend THEN @ + 1 ELSE @]
      BY <1>1, <2>4, Zenon DEF StreamOutput
    <3> QED
      BY <1>0, <1>2, <1>3, <3>1
  <2> QED
    BY <1>7, <2>1, <2>2, <2>3, <2>4 DEF ExecNext, CommandNext
<1> QED
  BY <1>4, <1>5, <1>6, <1>7 DEF Next, HelperStep, HelperNext, ReadLoopNext

\* No step repairs the helper's way to the host.
LEMMA HelperCannotSend ==
  ASSUME TypeOK, [Next]_vars, HelperCanSend'
  PROVE  HelperCanSend
<1>0. hostEnd \in {"open", "closing", "closed"} /\ helperEnd \in {"open", "closed"}
  BY Zenon DEF TypeOK, ConnTypeOK
<1>1. ASSUME hostEnd' \in {hostEnd, "closed"} \/ hostEnd = "open", helperEnd' \in {helperEnd, "closed"}
      PROVE  HelperCanSend
  BY <1>0, <1>1, Zenon DEF HelperCanSend
<1>2. CASE HelperStep
  BY <1>1, <1>2, Zenon DEF HelperStep, HelperNext, ReadLoopNext, ExecNext, CommandNext, HelperHello, HelperExecRequest,
     HelperExecInput, HelperResponse, HelperRequest, HelperExit, ExecStart, ExecError, StreamOutput,
     CommandWait, ExecSendResult, ExecCleanup, CommandWrite, CommandExit, connVars
<1>3. CASE UNCHANGED vars
  BY <1>1, <1>3, Zenon DEF vars, connVars
<1>4. CASE StartSend \/ StartReturn \/ StartCancelled \/ CloseConn \/ CloseDrain \/ LoopNext
  BY <1>0, <1>1, <1>4, Zenon DEF StartSend, StartReturn, StartCancelled, CloseConn, CloseDrain, LoopNext, LoopDecode,
     LoopDecodeError, LoopFail, LoopFinish, LoopFailFinish, LoopReport, AfterRead, connVars
<1>5. ASSUME NEW r \in Runs, RunNext(r) \/ PumpInput(r) \/ PumpFails(r) PROVE HelperCanSend
  BY <1>1, <1>5, Zenon DEF RunNext, RunInstall, RunBusy, RunSend, RunSendFails, RunOutcome, RunLoopDone, RunCancelled,
     PumpInput, PumpFails, connVars
<1>6. ASSUME NEW h \in Handlers, HandlerRespond(h) \/ HandlerSendFails(h) \/ HandlerFinish(h)
      PROVE  HelperCanSend
  BY <1>1, <1>6, Zenon DEF HandlerRespond, HandlerSendFails, HandlerFinish, connVars
<1> QED
  BY <1>2, <1>3, <1>4, <1>5, <1>6 DEF Next, ClientStep, ClientNext

\* What a pty's command wrote was streamed or is in the pty, as long as the
\* helper can send.
PtyKept == HelperCanSend => \A r \in Terminal : wrote[r] = streamed[r] + Len(pipe[r])

LEMMA PtyStep ==
  ASSUME TypeOK, PtyKept, [Next]_vars
  PROVE  PtyKept'
<1> SUFFICES ASSUME HelperCanSend', NEW r \in Terminal PROVE wrote'[r] = streamed'[r] + Len(pipe'[r])
  BY Zenon DEF PtyKept
<1>0. HelperCanSend /\ r \in Runs /\ wrote[r] = streamed[r] + Len(pipe[r])
  BY HelperCannotSend, ExecProtoAssumption, Zenon DEF PtyKept
<1>1. /\ wrote \in [Runs -> 0 .. MaxOutput] /\ streamed \in [Runs -> Nat] /\ pipe \in [Runs -> Seq(Nat)]
      /\ pipe[r] \in Seq(Nat) /\ wrote[r] \in Nat /\ streamed[r] \in Nat
  <2>1. wrote \in [Runs -> 0 .. MaxOutput] /\ streamed \in [Runs -> Nat] /\ pipe \in [Runs -> Seq(Nat)]
    BY Zenon DEF TypeOK, ExecTypeOK
  <2>2. wrote[r] \in 0 .. MaxOutput /\ streamed[r] \in Nat /\ pipe[r] \in Seq(Nat)
    BY <1>0, <2>1, Zenon
  <2> QED
    BY <2>1, <2>2, ExecProtoAssumption
<1>2. ASSUME UNCHANGED <<wrote, streamed, pipe>> PROVE wrote'[r] = streamed'[r] + Len(pipe'[r])
  BY <1>0, <1>2, Zenon
<1>3. CASE ClientStep \/ UNCHANGED vars
  BY <1>2, <1>3, Zenon DEF ClientStep, vars, helperVars, execVars
<1>4. CASE ReadLoopNext \/ HelperRequest \/ HelperExit
  BY <1>2, <1>4, Zenon DEF ReadLoopNext, HelperHello, HelperExecRequest, HelperExecInput, HelperResponse, HelperRequest,
     HelperExit, helperVars, execVars
<1>5. ASSUME NEW q \in Runs, ExecNext(q) \/ CommandNext(q) PROVE wrote'[r] = streamed'[r] + Len(pipe'[r])
  <2>1. CASE ExecStart(q) \/ ExecError(q) \/ CommandExit(q) \/ ExecSendResult(q) \/ ExecCleanup(q)
    BY <1>2, <2>1, Zenon DEF ExecStart, ExecError, CommandExit, ExecSendResult, ExecCleanup
  <2>2. CASE CommandWait(q)
    <3>1. UNCHANGED <<wrote, streamed>> /\ pipe' = [pipe EXCEPT ![q] = IF q \in Terminal THEN @ ELSE <<>>]
      BY <2>2, Zenon DEF CommandWait
    <3>2. pipe'[r] = pipe[r]
      BY <1>0, <1>1, <3>1
    <3> QED
      BY <1>0, <3>1, <3>2, Zenon
  <2>3. CASE CommandWrite(q)
    <3>1. UNCHANGED streamed /\ wrote' = [wrote EXCEPT ![q] = @ + 1]
          /\ pipe' = [pipe EXCEPT ![q] = Append(@, wrote[q] + 1)]
      BY <2>3, Zenon DEF CommandWrite
    <3>2. CASE q = r
      <4>1. wrote'[r] = wrote[r] + 1 /\ pipe'[r] = Append(pipe[r], wrote[r] + 1)
        BY <1>0, <1>1, <3>1, <3>2, Zenon
      <4>2. Len(pipe'[r]) = Len(pipe[r]) + 1
        BY <1>1, <4>1
      <4> QED
        BY <1>0, <1>1, <3>1, <4>1, <4>2
    <3>3. CASE q # r
      BY <1>0, <1>1, <3>1, <3>3, Zenon
    <3> QED
      BY <3>2, <3>3, Zenon
  <2>4. CASE StreamOutput(q)
    <3>1. UNCHANGED wrote /\ pipe[q] # <<>> /\ pipe' = [pipe EXCEPT ![q] = Tail(@)]
          /\ streamed' = [streamed EXCEPT ![q] = @ + 1]
      BY <1>0, <2>4, Zenon DEF StreamOutput
    <3>2. CASE q = r
      <4>1. streamed'[r] = streamed[r] + 1 /\ pipe'[r] = Tail(pipe[r]) /\ pipe[r] # <<>>
        BY <1>0, <1>1, <3>1, <3>2, Zenon
      <4>2. Len(pipe[r]) \in Nat \ {0} /\ Len(pipe'[r]) = Len(pipe[r]) - 1
        BY <1>1, <4>1
      <4> QED
        BY <1>0, <1>1, <3>1, <4>1, <4>2
    <3>3. CASE q # r
      BY <1>0, <1>1, <3>1, <3>3, Zenon
    <3> QED
      BY <3>2, <3>3, Zenon
  <2> QED
    BY <1>5, <2>1, <2>2, <2>3, <2>4, Zenon DEF ExecNext, CommandNext
<1> QED
  BY <1>3, <1>4, <1>5, Zenon DEF Next, HelperStep, HelperNext

-----------------------------------------------------------------------------
\* A result on the bridge, and every outcome made from one, is of a command
\* whose pty was read to its end.
LEMMA PtyInvStep ==
  ASSUME TypeOK, RunInv, PtyInv, [Next]_vars
  PROVE  PtyInv'
<1>0. toHost \in Seq(Envelope)
  BY Zenon DEF TypeOK, ConnTypeOK
<1>1. PtyKept'
  BY PtyStep, Zenon DEF PtyInv, PtyKept
<1>2. WholeRuns \subseteq WholeRuns'
  BY WholeGrows, Zenon
<1>3. ASSUME NEW r \in Runs, Has(toHost', "ExecResult", r), ~Has(toHost, "ExecResult", r)
      PROVE  r \in WholeRuns'
  <2>1. ASSUME NEW q \in Runs, ExecError(q) \/ ExecSendResult(q) PROVE r \in WholeRuns'
    <3>1. HelperCanSend /\ toHost' = Append(toHost, Env("ExecResult", q, 0))
      BY <1>3, <2>1, Zenon DEF ExecError, ExecSendResult, HelperTrySend, HelperSend
    <3>2. Env("ExecResult", q, 0) \in Envelope
      BY EnvType, Zenon DEF ExecKinds
    <3>3. Is(Env("ExecResult", q, 0), "ExecResult", r)
      BY <1>0, <1>3, <3>1, <3>2, HasAppend, Zenon
    <3>4. q = r
      BY <3>3, Zenon DEF Is, Env
    <3>5. pipe[r] = <<>>
      BY <2>1, <3>4, Zenon DEF ExecError, ExecSendResult, RunInv, PipeOrder
    <3>6. UNCHANGED <<wrote, streamed>> /\ exec'[r] \in {"sent", "done"}
      BY <2>1, <3>4, Zenon DEF ExecError, ExecSendResult, TypeOK, ExecTypeOK
    <3>7. r \in Terminal => wrote[r] = streamed[r] + Len(pipe[r])
      BY <3>1, Zenon DEF PtyInv
    <3>8. streamed[r] \in Nat /\ Len(pipe[r]) = 0
      BY <3>5, Zenon DEF TypeOK, ExecTypeOK
    <3>9. r \in Terminal => wrote[r] = streamed[r]
      BY <3>7, <3>8
    <3> QED
      BY <3>6, <3>9, Zenon DEF WholeRuns
  <2>2. ASSUME NEW env \in Envelope, env.kind # "ExecResult", toHost' = Append(toHost, env) PROVE FALSE
    BY <1>0, <1>3, <2>2, HasAppend, Zenon DEF Is
  <2>3. CASE HelperHello \/ HelperRequest
    <3>1. Env("Ready", NoRun, 0) \in Envelope /\ Env("Request", NoRun, requested + 1) \in Envelope
          /\ Env("Ready", NoRun, 0).kind # "ExecResult"
          /\ Env("Request", NoRun, requested + 1).kind # "ExecResult"
      BY ExecProtoAssumption DEF Envelope, Env, Kinds, ExecKinds, TypeOK
    <3> QED
      BY <2>2, <2>3, <3>1, Zenon DEF HelperHello, HelperRequest, HelperSend
  <2>4. ASSUME NEW q \in Runs, StreamOutput(q) PROVE FALSE
    <3>1. pipe[q] \in Seq(Nat) /\ pipe[q] # <<>>
      BY <2>4, Zenon DEF StreamOutput, TypeOK, ExecTypeOK
    <3>2. Env("StreamFrame", q, Head(pipe[q])) \in Envelope
          /\ Env("StreamFrame", q, Head(pipe[q])).kind # "ExecResult"
      BY <3>1 DEF Envelope, Env, ExecKinds
    <3> QED
      BY <1>3, <2>2, <2>4, <3>2, Zenon DEF StreamOutput, HelperTrySend, HelperSend
  <2>5. CASE LoopDecode
    BY <1>0, <1>3, <2>5, HasTail, Zenon DEF LoopDecode
  <2>6. toHost' # toHost
    BY <1>3, Zenon
  <2>7. CASE ClientStep
    <3>1. LoopDecode
      BY <2>6, <2>7, Zenon DEF ClientStep, ClientNext, StartSend, StartReturn, StartCancelled, RunNext, RunInstall,
         RunBusy, RunSend, RunSendFails, RunOutcome, RunLoopDone, RunCancelled, PumpInput, PumpFails, LoopNext,
         LoopDecodeError, LoopFail, LoopFinish, LoopFailFinish, LoopReport, HandlerRespond, HandlerSendFails,
         HandlerFinish, CloseConn, CloseDrain, connVars
    <3> QED
      BY <2>5, <3>1, Zenon
  <2>8. CASE HelperStep
    <3>1. \/ HelperHello \/ HelperRequest
          \/ \E q \in Runs : ExecError(q) \/ ExecSendResult(q) \/ StreamOutput(q)
      BY <2>6, <2>8, Zenon DEF HelperStep, HelperNext, ReadLoopNext, ExecNext, CommandNext, HelperExecRequest,
         HelperExecInput, HelperResponse, HelperExit, ExecStart, CommandWait, ExecCleanup, CommandWrite,
         CommandExit, connVars
    <3> QED
      BY <2>1, <2>3, <2>4, <3>1, Zenon
  <2> QED
    BY <2>6, <2>7, <2>8, Zenon DEF Next, vars, connVars
<1>4. \A r \in Runs : Has(toHost', "ExecResult", r) => r \in WholeRuns'
  BY <1>2, <1>3, Zenon DEF PtyInv
<1>5. OutcomesIn(OutcomesOf(WholeRuns))'
  <2>1. PICK W : W = WholeRuns
    BY Zenon
  <2>2. PICK S : S = OutcomesOf(W)
    BY Zenon
  <2>3. ErrOutcome \in S
    BY <2>2 DEF OutcomesOf, ErrOutcome, Outcome
  <2>4. OutcomesIn(S)
    BY <2>1, <2>2, Zenon DEF PtyInv
  <2>5. ASSUME NEW id \in Runs, NEW out \in Seq(Chunk), toHost # <<>>, Is(Head(toHost), "ExecResult", id)
        PROVE  Result(id, out) \in S
    <3>1. 1 \in DOMAIN toHost /\ toHost[1] = Head(toHost)
      BY <1>0, <2>5
    <3>2. Has(toHost, "ExecResult", id)
      BY <2>5, <3>1, Zenon DEF Has
    <3>3. id \in W
      BY <2>1, <3>2, Zenon DEF PtyInv
    <3> QED
      BY <2>2, <3>3, Zenon DEF OutcomesOf, Result, Outcome
  <2>6. OutcomesIn(S)'
    BY <2>3, <2>4, <2>5, OutcomesFlow, Zenon
  <2>7. S \subseteq OutcomesOf(WholeRuns')
    BY <1>2, <2>1, <2>2, Zenon DEF OutcomesOf
  <2> QED
    BY <2>6, <2>7, Zenon DEF OutcomesIn
<1> QED
  BY <1>1, <1>4, <1>5, Zenon DEF PtyInv, PtyKept

-----------------------------------------------------------------------------
\* The inputs of a Run stay in order when something is sent to the helper.
LEMMA FollowAppend ==
  ASSUME NEW r, NEW q \in Seq(Envelope), NEW e \in Envelope, NEW p, NEW n \in 0 .. MaxInput,
         NEW c \in BOOLEAN, NEW in, InputsFollow(r, q, p, n, c, in)
  PROVE  /\ ~Is(e, "ExecInput", r) => InputsFollow(r, Append(q, e), p, n, c, in)
         /\ Is(e, "ExecInput", r) /\ e.n = n + 1 /\ p # "done" =>
              /\ InputsFollow(r, Append(q, e), "done", n, c, in)
              /\ InputsFollow(r, Append(q, e), p, n + 1, c, in)
<1>1. EOFInput \in Nat /\ EOFInput = MaxInput + 1 /\ MaxInput \in Nat
  BY ExecProtoAssumption DEF EOFInput
<1>2. PICK lo \in 0 .. EOFInput, hi \in 0 .. EOFInput :
        /\ Numbered(q, "ExecInput", r, lo, hi)
        /\ p # "done" => hi = n
        /\ c /\ in # <<>> => lo \in {in[Len(in)], EOFInput}
  BY Zenon DEF InputsFollow
<1>3. lo \in Nat /\ hi \in Nat
  BY <1>1
<1>4. ASSUME ~Is(e, "ExecInput", r) PROVE Numbered(Append(q, e), "ExecInput", r, lo, hi)
  BY <1>2, <1>3, <1>4, NumberedAppend, Zenon
<1>5. ASSUME Is(e, "ExecInput", r), e.n = n + 1, p # "done"
      PROVE  hi + 1 \in 0 .. EOFInput /\ hi + 1 = n + 1 /\ Numbered(Append(q, e), "ExecInput", r, lo, hi + 1)
  <2>1. hi = n
    BY <1>2, <1>5, Zenon
  <2>2. Numbered(Append(q, e), "ExecInput", r, lo, hi + 1)
    BY <1>2, <1>3, <1>5, <2>1, NumberedAppend, Zenon
  <2> QED
    BY <1>1, <2>1, <2>2
<1> QED
  BY <1>2, <1>4, <1>5, Zenon DEF InputsFollow

\* The inputs of a Run stay in order when the helper takes something; an input
\* that goes to the current command is the one after the last it got.
LEMMA FollowTail ==
  ASSUME NEW r, NEW q \in Seq(Envelope), q # <<>>, NEW p, NEW n \in 0 .. MaxInput,
         NEW c \in BOOLEAN, NEW in \in Seq(Nat), InputsFollow(r, q, p, n, c, in)
  PROVE  /\ ~Is(Head(q), "ExecInput", r) => InputsFollow(r, Tail(q), p, n, c, in)
         /\ Is(Head(q), "ExecInput", r) =>
              /\ InputsFollow(r, Tail(q), p, n, c, Append(in, Head(q).n))
              /\ ~c \/ Head(q).n = EOFInput => InputsFollow(r, Tail(q), p, n, c, in)
              /\ c /\ in # <<>> => in[Len(in)] # EOFInput /\ Head(q).n = in[Len(in)] + 1
<1>1. EOFInput \in Nat
  BY ExecProtoAssumption DEF EOFInput
<1>2. PICK lo \in 0 .. EOFInput, hi \in 0 .. EOFInput :
        /\ Numbered(q, "ExecInput", r, lo, hi)
        /\ p # "done" => hi = n
        /\ c /\ in # <<>> => lo \in {in[Len(in)], EOFInput}
  BY Zenon DEF InputsFollow
<1>3. lo \in Nat /\ hi \in Nat /\ hi <= EOFInput
  BY <1>1
<1>4. ASSUME ~Is(Head(q), "ExecInput", r) PROVE Numbered(Tail(q), "ExecInput", r, lo, hi)
  BY <1>2, <1>3, <1>4, NumberedTail, Zenon
<1>5. ASSUME Is(Head(q), "ExecInput", r)
      PROVE  /\ Head(q).n = lo + 1 /\ lo + 1 \in 0 .. EOFInput /\ lo # EOFInput
             /\ Numbered(Tail(q), "ExecInput", r, lo + 1, hi)
  <2>1. Head(q).n = lo + 1 /\ Numbered(Tail(q), "ExecInput", r, lo + 1, hi)
    BY <1>2, <1>3, <1>5, NumberedTail, Zenon
  <2>2. lo + 1 <= hi
    BY <2>1, Zenon DEF Numbered
  <2> QED
    BY <1>1, <1>3, <2>1, <2>2
<1>6. ASSUME Is(Head(q), "ExecInput", r)
      PROVE  LET last == Append(in, Head(q).n) IN last[Len(last)] = lo + 1
  BY <1>3, <1>5, <1>6
<1>7. ASSUME Is(Head(q), "ExecInput", r) PROVE InputsFollow(r, Tail(q), p, n, c, Append(in, Head(q).n))
  BY <1>2, <1>5, <1>6, <1>7, Zenon DEF InputsFollow
<1>8. ASSUME Is(Head(q), "ExecInput", r), ~c \/ Head(q).n = EOFInput
      PROVE  InputsFollow(r, Tail(q), p, n, c, in)
  BY <1>2, <1>5, <1>8, Zenon DEF InputsFollow
<1>9. ASSUME Is(Head(q), "ExecInput", r), c, in # <<>>
      PROVE  in[Len(in)] # EOFInput /\ Head(q).n = in[Len(in)] + 1
  BY <1>2, <1>5, <1>9, Zenon
<1>10. ASSUME ~Is(Head(q), "ExecInput", r) PROVE InputsFollow(r, Tail(q), p, n, c, in)
  BY <1>2, <1>4, <1>10, Zenon DEF InputsFollow
<1> QED
  BY <1>7, <1>8, <1>9, <1>10, Zenon

\* The part of it about the input that a current command reads next.
LEMMA FollowInput ==
  ASSUME NEW r, NEW q \in Seq(Envelope), q # <<>>, NEW p, NEW n \in 0 .. MaxInput,
         NEW c \in BOOLEAN, NEW in \in Seq(Nat), InputsFollow(r, q, p, n, c, in),
         Is(Head(q), "ExecInput", r)
  PROVE  c /\ in # <<>> => in[Len(in)] # EOFInput /\ Head(q).n = in[Len(in)] + 1
BY FollowTail, Zenon

\* What InputsFollow says is the less the further the pump and the command are.
LEMMA FollowWeaker ==
  ASSUME NEW r, NEW q, NEW p, NEW n, NEW c \in BOOLEAN, NEW in, InputsFollow(r, q, p, n, c, in)
  PROVE  /\ InputsFollow(r, q, "done", n, c, in)
         /\ \A f : p # "done" => InputsFollow(r, q, f, n, c, in)
         /\ InputsFollow(r, q, p, n, FALSE, in)
         /\ in = <<>> => InputsFollow(r, q, p, n, TRUE, in)
  BY Zenon DEF InputsFollow

\* A send or a receive of something that is no input.
InputsQuiet ==
    \/ UNCHANGED toHelper
    \/ \E env \in Envelope : env.kind # "ExecInput" /\ toHelper' = Append(toHelper, env)
    \/ toHelper # <<>> /\ Head(toHelper).kind # "ExecInput" /\ toHelper' = Tail(toHelper)

LEMMA FollowQuiet ==
  ASSUME TypeOK, InputsQuiet, NEW r \in Runs, NEW p, NEW n \in 0 .. MaxInput, NEW c \in BOOLEAN,
         NEW in \in Seq(Nat), InputsFollow(r, toHelper, p, n, c, in)
  PROVE  InputsFollow(r, toHelper', p, n, c, in)
<1>1. toHelper \in Seq(Envelope)
  BY Zenon DEF TypeOK, ConnTypeOK
<1>2. CASE UNCHANGED toHelper
  BY <1>2, Zenon
<1>3. ASSUME NEW env \in Envelope, env.kind # "ExecInput", toHelper' = Append(toHelper, env)
      PROVE  InputsFollow(r, toHelper', p, n, c, in)
  <2>1. ~Is(env, "ExecInput", r)
    BY <1>3, Zenon DEF Is
  <2> QED
    BY <1>1, <1>3, <2>1, FollowAppend, Zenon
<1>4. CASE toHelper # <<>> /\ Head(toHelper).kind # "ExecInput" /\ toHelper' = Tail(toHelper)
  <2>1. ~Is(Head(toHelper), "ExecInput", r)
    BY <1>4, Zenon DEF Is
  <2> QED
    BY <1>1, <1>4, <2>1, FollowTail, Zenon
<1> QED
  BY <1>2, <1>3, <1>4, Zenon DEF InputsQuiet

\* What InputInv says of one Run, over the next state.
InputOf(r) ==
    /\ pc[r] \in {"idle", "send"} => pump[r] = "off"
    /\ exec[r] \in {"none", "queued"} => stdin[r] = <<>>
    /\ currentExec = r => exec[r] \in {"running", "exited", "waited", "sent"}
    /\ InputsFollow(r, toHelper, pump[r], pumped[r], currentExec = r, stdin[r])

\* Steps that do not touch the inputs: the pump, the command's stdin and which
\* command is current.
LEMMA InputFrame ==
  ASSUME TypeOK, InputInv, InputsQuiet, UNCHANGED <<pump, pumped, currentExec, stdin>>,
         NEW r \in Runs, pc'[r] \in {"idle", "send"} => pc[r] \in {"idle", "send"},
         exec'[r] \in {"none", "queued"} => exec[r] \in {"none", "queued"},
         exec[r] \in {"running", "exited", "waited", "sent"} =>
            exec'[r] \in {"running", "exited", "waited", "sent"}
  PROVE  InputOf(r)'
<1>1. pumped[r] \in 0 .. MaxInput /\ stdin[r] \in Seq(Nat)
  BY Zenon DEF TypeOK, PumpTypeOK, ExecTypeOK
<1>2. InputsFollow(r, toHelper, pump[r], pumped[r], currentExec = r, stdin[r])
  BY Zenon DEF InputInv
<1>3. PICK c \in BOOLEAN : c = (currentExec = r)
  BY Zenon
<1>4. InputsFollow(r, toHelper', pump[r], pumped[r], c, stdin[r])
  BY <1>1, <1>2, <1>3, FollowQuiet, Zenon
<1>5. InputsFollow(r, toHelper', pump'[r], pumped'[r], currentExec' = r, stdin'[r])
  BY <1>3, <1>4, Zenon
<1> QED
  BY <1>5, Zenon DEF InputOf, InputInv

\* No command gets input before it started or after its cleanup, and the inputs
\* follow each other, across every step of the pump, the bridge and the helper.
LEMMA InputInvStep ==
  ASSUME TypeOK, RunInv, InputInv, [Next]_vars
  PROVE  InputInv'
<1> SUFFICES ASSUME NEW r \in Runs PROVE InputOf(r)'
  BY Zenon DEF InputInv, InputOf
<1>a. /\ toHelper \in Seq(Envelope) /\ pump \in [Runs -> {"off", "on", "done"}]
      /\ pumped \in [Runs -> 0 .. MaxInput] /\ stdin \in [Runs -> Seq(Nat)]
      /\ pc \in [Runs -> {"idle", "send", "wait", "done"}] /\ exec \in [Runs -> ExecStates]
      /\ currentExec \in Runs \cup {NoRun} /\ helperExecMu \in Runs \cup {NoRun}
  BY Zenon DEF TypeOK, ConnTypeOK, PumpTypeOK, ExecTypeOK, RunTypeOK
<1>b. EOFInput = MaxInput + 1 /\ MaxInput \in Nat /\ NoRun \notin Runs
  BY ExecProtoAssumption, Zenon DEF EOFInput
<1>0. InputOf(r)
  BY Zenon DEF InputInv, InputOf
<1>1. ASSUME InputsQuiet, UNCHANGED <<pump, pumped, currentExec, stdin, pc, exec>> PROVE InputOf(r)'
  BY <1>1, InputFrame, Zenon
<1>2. UNCHANGED toHelper => InputsQuiet
  BY Zenon DEF InputsQuiet
<1>3. ASSUME NEW kind \in {"Hello", "Response", "ExecRequest"}, NEW id, NEW n \in Nat,
             kind = "ExecRequest" => id \in Runs, kind # "ExecRequest" => id = NoRun,
             HostSend(Env(kind, id, n))
      PROVE  InputsQuiet
  <2>1. Env(kind, id, n) \in Envelope /\ Env(kind, id, n).kind # "ExecInput"
    BY <1>3, Zenon DEF Env, Envelope, Kinds, ExecKinds
  <2> QED
    BY <1>3, <2>1, Zenon DEF InputsQuiet, HostSend
<1>4. CASE UNCHANGED vars
  BY <1>1, <1>2, <1>4, Zenon DEF vars, connVars, clientVars, runVars, pumpVars, helperVars, execVars
<1>5. ASSUME ClientStep, ClientNext PROVE InputOf(r)'
  <2>0. UNCHANGED <<exec, currentExec, stdin>>
    BY <1>5, Zenon DEF ClientStep, helperVars, execVars
  <2>1. CASE StartSend
    <3>1. InputsQuiet
      BY <1>2, <1>3, <2>1, Zenon DEF StartSend
    <3> QED
      BY <1>1, <2>0, <2>1, <3>1, Zenon DEF StartSend, runVars, pumpVars
  <2>2. CASE StartReturn \/ StartCancelled \/ CloseConn \/ CloseDrain \/ LoopNext
    BY <1>1, <1>2, <2>0, <2>2, Zenon DEF StartReturn, StartCancelled, CloseConn, CloseDrain, LoopNext, LoopDecode,
       LoopDecodeError, LoopFail, LoopFinish, LoopFailFinish, LoopReport, runVars, pumpVars, connVars
  <2>3. ASSUME NEW q \in Runs, RunInstall(q) \/ RunBusy(q) \/ RunSendFails(q) \/ RunOutcome(q)
                                 \/ RunLoopDone(q) \/ RunCancelled(q)
        PROVE  InputOf(r)'
    <3>1. UNCHANGED <<toHelper, pump, pumped>>
      BY <2>3, Zenon DEF RunInstall, RunBusy, RunSendFails, RunOutcome, RunLoopDone, RunCancelled, connVars, pumpVars
    <3>2. pc' = [pc EXCEPT ![q] = "done"] \/ (pc[q] = "idle" /\ pc' = [pc EXCEPT ![q] = "send"])
      BY <2>3, Zenon DEF RunInstall, RunBusy, RunSendFails, RunOutcome, RunLoopDone, RunCancelled, RunReturn
    <3>3. pc'[r] \in {"idle", "send"} => pc[r] \in {"idle", "send"}
      BY <1>a, <3>2, Zenon
    <3> QED
      BY <1>2, <2>0, <3>1, <3>3, InputFrame, Zenon
  <2>4. ASSUME NEW q \in Runs, RunSend(q) PROVE InputOf(r)'
    <3>1. InputsQuiet
      BY <1>3, <2>4, Zenon DEF RunSend
    <3>2. /\ pc[q] = "send" /\ pc' = [pc EXCEPT ![q] = "wait"] /\ UNCHANGED pumped
          /\ pump' = [pump EXCEPT ![q] = IF q \in Interactive THEN "on" ELSE "off"]
      BY <2>4, Zenon DEF RunSend
    <3>3. CASE r # q
      <4>1. pc'[r] = pc[r] /\ pump'[r] = pump[r]
        BY <1>a, <3>2, <3>3, Zenon
      <4>2. PICK c \in BOOLEAN : c = (currentExec = r)
        BY Zenon
      <4>3. InputsFollow(r, toHelper', pump[r], pumped[r], c, stdin[r])
        BY <1>0, <1>a, <3>1, <4>2, FollowQuiet, Zenon DEF InputOf
      <4> QED
        BY <1>0, <2>0, <3>2, <4>1, <4>2, <4>3, Zenon DEF InputOf
    <3>4. CASE r = q
      <4>1. pc'[r] = "wait" /\ pump[r] = "off"
        BY <1>0, <1>a, <3>2, <3>4, Zenon DEF InputOf
      <4>2. PICK c \in BOOLEAN : c = (currentExec = r)
        BY Zenon
      <4>3. InputsFollow(r, toHelper', pump[r], pumped[r], c, stdin[r])
        BY <1>0, <1>a, <3>1, <4>2, FollowQuiet, Zenon DEF InputOf
      <4>4. InputsFollow(r, toHelper', pump'[r], pumped[r], c, stdin[r])
        <5>1. pump[r] # "done"
          BY <4>1, Zenon
        <5> QED
          BY <4>3, <5>1, FollowWeaker, Zenon
      <4> QED
        BY <1>0, <2>0, <3>2, <4>1, <4>2, <4>4, Zenon DEF InputOf
    <3> QED
      BY <3>3, <3>4, Zenon
  <2>5. ASSUME NEW q \in Runs, PumpInput(q) \/ PumpFails(q) PROVE InputOf(r)'
    <3>0. UNCHANGED pc /\ pump[q] = "on"
      BY <2>5, Zenon DEF PumpInput, PumpFails, runVars
    <3>1. PICK c \in BOOLEAN : c = (currentExec = r)
      BY Zenon
    <3>2. InputsFollow(r, toHelper, pump[r], pumped[r], c, stdin[r])
      BY <1>0, <3>1, Zenon DEF InputOf
    <3>3. r = q => pc[r] \notin {"idle", "send"}
      BY <1>0, <3>0, Zenon DEF InputOf
    <3>4. pump' = [pump EXCEPT ![q] = "done"] \/ UNCHANGED pump
      BY <2>5, Zenon DEF PumpInput, PumpFails
    <3>5. InputsFollow(r, toHelper', pump'[r], pumped'[r], c, stdin[r])
      <4>1. CASE PumpFails(q)
        <5>1. UNCHANGED <<toHelper, pumped>> /\ pump' = [pump EXCEPT ![q] = "done"]
          BY <4>1, Zenon DEF PumpFails, connVars
        <5>2. pump'[r] = pump[r] \/ pump'[r] = "done"
          BY <1>a, <5>1, Zenon
        <5> QED
          <6>1. InputsFollow(r, toHelper, "done", pumped[r], c, stdin[r])
            BY <3>2, FollowWeaker, Zenon
          <6> QED
            BY <3>2, <5>1, <5>2, <6>1, Zenon
      <4>2. CASE PumpInput(q)
        <5>1. PICK e \in Envelope : /\ e = Env("ExecInput", q, pumped[q] + 1)
                                    /\ toHelper' = Append(toHelper, e)
          <6>1. pumped[q] \in 0 .. MaxInput
            BY <1>a, Zenon
          <6>2. pumped[q] + 1 \in Nat /\ (~(pumped[q] < MaxInput) => EOFInput = pumped[q] + 1)
            BY <1>b, <6>1
          <6>3. Env("ExecInput", q, pumped[q] + 1) \in Envelope
            BY <6>2, Zenon DEF Env, Envelope, ExecKinds
          <6>4. toHelper' = Append(toHelper, Env("ExecInput", q, pumped[q] + 1))
            BY <4>2, <6>2, Zenon DEF PumpInput, HostSend
          <6> QED
            BY <6>3, <6>4, Zenon
        <5>2. CASE r # q
          <6>1. pump'[r] = pump[r] /\ pumped'[r] = pumped[r]
            BY <1>a, <4>2, <5>2, Zenon DEF PumpInput
          <6>2. ~Is(e, "ExecInput", r)
            BY <5>1, <5>2, Zenon DEF Is, Env
          <6> QED
            BY <1>a, <3>2, <5>1, <6>1, <6>2, FollowAppend, Zenon
        <5>3. CASE r = q
          <6>1. Is(e, "ExecInput", r) /\ e.n = pumped[r] + 1 /\ pump[r] # "done"
            BY <3>0, <5>1, <5>3, Zenon DEF Is, Env
          <6>2. /\ InputsFollow(r, toHelper', "done", pumped[r], c, stdin[r])
                /\ InputsFollow(r, toHelper', pump[r], pumped[r] + 1, c, stdin[r])
            BY <1>a, <3>2, <5>1, <6>1, FollowAppend, Zenon
          <6>3. \/ pump'[r] = "done" /\ pumped'[r] = pumped[r]
                \/ pump'[r] = pump[r] /\ pumped'[r] = pumped[r] + 1
            BY <1>a, <4>2, <5>3, Zenon DEF PumpInput
          <6> QED
            BY <6>2, <6>3, Zenon
        <5> QED
          BY <5>2, <5>3, Zenon
      <4> QED
        BY <2>5, <4>1, <4>2, Zenon
    <3>6. pc[r] \in {"idle", "send"} => pump'[r] = pump[r]
      BY <1>a, <3>3, <3>4, Zenon
    <3> QED
      BY <1>0, <2>0, <3>0, <3>1, <3>5, <3>6, Zenon DEF InputOf
  <2>6. ASSUME NEW h \in Handlers, HandlerRespond(h) PROVE InputOf(r)'
    <3>1. h \in Nat
      BY ExecProtoAssumption DEF Handlers
    <3>2. InputsQuiet
      BY <1>3, <2>6, <3>1, Zenon DEF HandlerRespond
    <3> QED
      BY <1>1, <2>0, <2>6, <3>2, Zenon DEF HandlerRespond, runVars, pumpVars
  <2>7. ASSUME NEW h \in Handlers, HandlerSendFails(h) \/ HandlerFinish(h) PROVE InputOf(r)'
    BY <1>1, <1>2, <2>0, <2>7, Zenon DEF HandlerSendFails, HandlerFinish, connVars, runVars, pumpVars
  <2> QED
    BY <1>5, <2>1, <2>2, <2>3, <2>4, <2>5, <2>6, <2>7, Zenon DEF ClientNext, RunNext
<1>6. ASSUME HelperStep, HelperNext PROVE InputOf(r)'
  <2>0. UNCHANGED <<pc, pump, pumped>>
    BY <1>6, Zenon DEF HelperStep, clientVars, runVars, pumpVars
  <2>1. CASE HelperHello \/ HelperResponse \/ HelperRequest \/ HelperExit
    <3>1. InputsQuiet
      BY <2>1, Zenon DEF HelperHello, HelperResponse, HelperRequest, HelperExit, InputsQuiet
    <3> QED
      BY <1>1, <2>0, <2>1, <3>1, Zenon DEF HelperHello, HelperResponse, HelperRequest, HelperExit, helperVars, execVars
  <2>2. CASE HelperExecRequest
    <3>1. InputsQuiet /\ UNCHANGED <<currentExec, stdin>>
      BY <2>2, Zenon DEF HelperExecRequest, InputsQuiet
    <3>2. PICK q \in Runs : exec[q] = "none" /\ exec' = [exec EXCEPT ![q] = "queued"]
      BY <2>2, RequestIsNew, Zenon
    <3>3. /\ exec'[r] \in {"none", "queued"} => exec[r] \in {"none", "queued"}
          /\ exec[r] \in {"running", "exited", "waited", "sent"} => exec'[r] = exec[r]
      BY <1>a, <3>2, Zenon
    <3> QED
      BY <2>0, <3>1, <3>3, InputFrame, Zenon
  <2>3. CASE HelperExecInput
    <3> DEFINE env == Head(toHelper)
               accepts == currentExec = env.id /\ (env.n # EOFInput \/ env.id \notin Terminal)
    <3>1. /\ toHelper # <<>> /\ env.kind = "ExecInput" /\ toHelper' = Tail(toHelper)
          /\ stdin' = IF accepts THEN [stdin EXCEPT ![env.id] = Append(@, env.n)] ELSE stdin
          /\ UNCHANGED <<exec, currentExec>>
      BY <2>3, Zenon DEF HelperExecInput
    <3>2. env \in Envelope
      BY <1>a, <3>1
    <3>3. env.id \in Runs /\ env.n \in Nat
      BY <3>1, <3>2, Zenon DEF Envelope, ExecKinds
    <3>4. PICK c \in BOOLEAN : c = (currentExec = r)
      BY Zenon
    <3>5. InputsFollow(r, toHelper, pump[r], pumped[r], c, stdin[r])
      BY <1>0, <3>4, Zenon DEF InputOf
    <3>6. pumped[r] \in 0 .. MaxInput /\ stdin[r] \in Seq(Nat)
      BY <1>a, Zenon
    <3>7. CASE env.id # r
      <4>1. stdin'[r] = stdin[r]
        BY <1>a, <3>1, <3>3, <3>7, Zenon
      <4>2. ~Is(Head(toHelper), "ExecInput", r)
        BY <3>7, Zenon DEF Is
      <4>3. InputsFollow(r, Tail(toHelper), pump[r], pumped[r], c, stdin[r])
        BY <1>a, <3>1, <3>5, <3>6, <4>2, FollowTail, Zenon
      <4> QED
        BY <1>0, <2>0, <3>1, <3>4, <4>1, <4>3, Zenon DEF InputOf
    <3>8. CASE env.id = r
      <4>1. Is(Head(toHelper), "ExecInput", r)
        BY <3>1, <3>8, Zenon DEF Is
      <4>2. /\ InputsFollow(r, Tail(toHelper), pump[r], pumped[r], c, Append(stdin[r], env.n))
            /\ ~c \/ env.n = EOFInput => InputsFollow(r, Tail(toHelper), pump[r], pumped[r], c, stdin[r])
        BY <1>a, <3>1, <3>5, <3>6, <4>1, FollowTail, ZenonT(30)
      <4>3. \/ c /\ stdin'[r] = Append(stdin[r], env.n)
            \/ (~c \/ env.n = EOFInput) /\ stdin'[r] = stdin[r]
        BY <1>a, <3>1, <3>3, <3>4, <3>8, Zenon
      <4>4. InputsFollow(r, toHelper', pump[r], pumped[r], c, stdin'[r])
        BY <3>1, <4>2, <4>3, Zenon
      <4>5. exec[r] \in {"none", "queued"} => stdin'[r] = stdin[r]
        BY <1>0, <3>4, <4>3, Zenon DEF InputOf
      <4> QED
        BY <1>0, <2>0, <3>1, <3>4, <4>4, <4>5, Zenon DEF InputOf
    <3> QED
      BY <3>7, <3>8, Zenon
  <2>4. ASSUME NEW q \in Runs, ExecError(q) \/ StreamOutput(q) \/ CommandWait(q) \/ ExecSendResult(q)
                                 \/ CommandWrite(q) \/ CommandExit(q)
        PROVE  InputOf(r)'
    <3>1. UNCHANGED <<toHelper, currentExec, stdin>>
      BY <2>4, Zenon DEF ExecError, StreamOutput, CommandWait, ExecSendResult, CommandWrite, CommandExit, connVars
    <3>2. \/ UNCHANGED exec
          \/ exec[q] = "queued" /\ exec' = [exec EXCEPT ![q] = "done"]
          \/ exec[q] \in {"running", "exited", "waited"} /\ \E e \in {"exited", "waited", "sent"} :
               exec' = [exec EXCEPT ![q] = e]
      BY <2>4, Zenon DEF ExecError, StreamOutput, CommandWait, ExecSendResult, CommandWrite, CommandExit
    <3>3. /\ exec'[r] \in {"none", "queued"} => exec[r] \in {"none", "queued"}
          /\ exec[r] \in {"running", "exited", "waited", "sent"} =>
               exec'[r] \in {"running", "exited", "waited", "sent"}
      BY <1>a, <3>2, Zenon
    <3> QED
      BY <1>2, <2>0, <3>1, <3>3, InputFrame, Zenon
  <2>5. ASSUME NEW q \in Runs, ExecStart(q) PROVE InputOf(r)'
    <3>1. /\ exec[q] = "queued" /\ helperExecMu = NoRun /\ exec' = [exec EXCEPT ![q] = "running"]
          /\ currentExec' = q /\ UNCHANGED <<toHelper, stdin>>
      BY <2>5, Zenon DEF ExecStart, connVars
    <3>2. CASE r = q
      <4>1. exec'[r] = "running" /\ stdin[r] = <<>>
        BY <1>0, <1>a, <3>1, <3>2, Zenon DEF InputOf
      <4>2. PICK c \in BOOLEAN : c = (currentExec = r)
        BY Zenon
      <4>3. InputsFollow(r, toHelper, pump[r], pumped[r], c, stdin[r])
        BY <1>0, <4>2, Zenon DEF InputOf
      <4>4. InputsFollow(r, toHelper, pump[r], pumped[r], TRUE, stdin[r])
        BY <4>1, <4>3, FollowWeaker, ZenonT(30)
      <4>5. (currentExec' = r) = TRUE
        BY <3>1, <3>2, Zenon
      <4>6. InputsFollow(r, toHelper', pump'[r], pumped'[r], currentExec' = r, stdin'[r])
        BY <2>0, <3>1, <4>4, <4>5, Zenon
      <4> QED
        BY <1>0, <2>0, <3>1, <4>1, <4>6, Zenon DEF InputOf
    <3>3. CASE r # q
      <4>1. exec'[r] = exec[r]
        BY <1>a, <3>1, <3>3, Zenon
      <4>2. PICK c \in BOOLEAN : c = (currentExec = r)
        BY Zenon
      <4>3. InputsFollow(r, toHelper, pump[r], pumped[r], c, stdin[r])
        BY <1>0, <4>2, Zenon DEF InputOf
      <4>4. InputsFollow(r, toHelper, pump[r], pumped[r], FALSE, stdin[r])
        BY <4>3, FollowWeaker, Zenon
      <4>5. (currentExec' = r) = FALSE
        BY <3>1, <3>3, Zenon
      <4>6. InputsFollow(r, toHelper', pump'[r], pumped'[r], currentExec' = r, stdin'[r])
        BY <2>0, <3>1, <4>4, <4>5, Zenon
      <4> QED
        BY <1>0, <2>0, <3>1, <3>3, <4>1, <4>6, Zenon DEF InputOf
    <3> QED
      BY <3>2, <3>3, Zenon
  <2>6. ASSUME NEW q \in Runs, ExecCleanup(q) PROVE InputOf(r)'
    <3>1. /\ exec[q] = "sent" /\ exec' = [exec EXCEPT ![q] = "done"] /\ UNCHANGED <<toHelper, stdin>>
          /\ currentExec' = IF currentExec = q THEN NoRun ELSE currentExec
      BY <2>6, Zenon DEF ExecCleanup, connVars
    <3>2. PICK c \in BOOLEAN, d \in BOOLEAN : c = (currentExec = r) /\ d = (currentExec' = r)
      BY Zenon
    <3>3. InputsFollow(r, toHelper, pump[r], pumped[r], c, stdin[r])
      BY <1>0, <3>2, Zenon DEF InputOf
    <3>4. d = c \/ d = FALSE
      BY <1>b, <3>1, <3>2, Zenon
    <3>5. InputsFollow(r, toHelper, pump[r], pumped[r], d, stdin[r])
      BY <3>3, <3>4, FollowWeaker, Zenon
    <3>6. InputsFollow(r, toHelper', pump'[r], pumped'[r], currentExec' = r, stdin'[r])
      BY <2>0, <3>1, <3>2, <3>5, Zenon
    <3>7. currentExec' = r => exec'[r] \in {"running", "exited", "waited", "sent"}
      <4>1. ASSUME currentExec' = r PROVE r # q /\ currentExec = r
        BY <1>b, <3>1, <4>1, Zenon
      <4> QED
        BY <1>0, <1>a, <3>1, <4>1, Zenon DEF InputOf
    <3>8. exec'[r] \in {"none", "queued"} => exec[r] \in {"none", "queued"}
      BY <1>a, <3>1, Zenon
    <3> QED
      BY <1>0, <2>0, <3>1, <3>6, <3>7, <3>8, Zenon DEF InputOf
  <2> QED
    BY <1>6, <2>1, <2>2, <2>3, <2>4, <2>5, <2>6, Zenon DEF HelperNext, ReadLoopNext, ExecNext, CommandNext
<1> QED
  BY <1>4, <1>5, <1>6, Zenon DEF Next, ClientStep, HelperStep

\* An input that reaches a command is the one after the last it got.
LEMMA ContiguousStep ==
  ASSUME TypeOK, RunInv, InputInv, StdinIsContiguous, [Next]_vars
  PROVE  StdinIsContiguous'
<1>1. toHelper \in Seq(Envelope) /\ stdin \in [Runs -> Seq(Nat)] /\ pumped \in [Runs -> 0 .. MaxInput]
  BY Zenon DEF TypeOK, ConnTypeOK, ExecTypeOK, PumpTypeOK
<1>2. CASE ~HelperExecInput
  <2>1. UNCHANGED stdin
    BY <1>2, Zenon DEF Next, ClientStep, HelperStep, HelperNext, ReadLoopNext, ExecNext, CommandNext, HelperHello,
       HelperExecRequest, HelperResponse, HelperRequest, HelperExit, ExecStart, ExecError, StreamOutput,
       CommandWait, ExecSendResult, ExecCleanup, CommandWrite, CommandExit, vars, helperVars, execVars
  <2> QED
    BY <2>1, Zenon DEF StdinIsContiguous
<1>3. CASE HelperExecInput
  <2> DEFINE env == Head(toHelper)
  <2>1. /\ toHelper # <<>> /\ env.kind = "ExecInput"
        /\ \/ UNCHANGED stdin
           \/ currentExec = env.id /\ stdin' = [stdin EXCEPT ![env.id] = Append(@, env.n)]
    BY <1>3, Zenon DEF HelperExecInput
  <2>2. env \in Envelope
    BY <1>1, <2>1
  <2>3. env.id \in Runs /\ env.n \in Nat
    BY <2>1, <2>2, Zenon DEF Envelope, ExecKinds
  <2>4. CASE UNCHANGED stdin
    BY <2>4, Zenon DEF StdinIsContiguous
  <2>5. CASE currentExec = env.id /\ stdin' = [stdin EXCEPT ![env.id] = Append(@, env.n)]
    <3>1. PICK q \in Runs, in \in Seq(Nat), n \in Nat : q = env.id /\ in = stdin[q] /\ n = env.n
      BY <1>1, <2>3, Zenon
    <3>2. PICK c \in BOOLEAN : c = (currentExec = q)
      BY Zenon
    <3>3. InputsFollow(q, toHelper, pump[q], pumped[q], c, in)
      BY <3>1, <3>2, Zenon DEF InputInv
    <3>4. c
      BY <2>5, <3>1, <3>2, Zenon
    <3>5. Is(Head(toHelper), "ExecInput", q)
      BY <2>1, <3>1, Zenon DEF Is
    <3>6. in # <<>> => in[Len(in)] # EOFInput /\ n = in[Len(in)] + 1
      <4>1. pumped[q] \in 0 .. MaxInput
        BY <1>1, Zenon
      <4>2. in # <<>> => in[Len(in)] # EOFInput /\ Head(toHelper).n = in[Len(in)] + 1
        <5>1. PICK k \in 0 .. MaxInput : k = pumped[q]
          BY <4>1, Zenon
        <5>2. InputsFollow(q, toHelper, pump[q], k, c, in)
          BY <3>3, <5>1, Zenon
        <5>3. toHelper \in Seq(Envelope) /\ toHelper # <<>>
          BY <1>1, <2>1, Zenon
        <5>4. c /\ in # <<>> => in[Len(in)] # EOFInput /\ Head(toHelper).n = in[Len(in)] + 1
          BY <3>5, <5>2, <5>3, FollowInput, Zenon
        <5> QED
          BY <3>4, <5>4, Zenon
      <4> QED
        BY <3>1, <4>2, Zenon
    <3> SUFFICES ASSUME NEW r \in Runs, NEW i \in 1 .. Len(stdin'[r]) - 1
                 PROVE  stdin'[r][i] # EOFInput /\ stdin'[r][i + 1] = stdin'[r][i] + 1
      BY Zenon DEF StdinIsContiguous
    <3>7. CASE r # q
      <4>1. stdin'[r] = stdin[r]
        BY <1>1, <2>5, <3>1, <3>7, Zenon
      <4> QED
        BY <4>1 DEF StdinIsContiguous
    <3>8. CASE r = q
      <4>1. stdin'[r] = Append(in, n)
        BY <1>1, <2>5, <3>1, <3>8, Zenon
      <4>2. \A j \in 1 .. Len(in) - 1 : in[j] # EOFInput /\ in[j + 1] = in[j] + 1
        BY <3>1, Zenon DEF StdinIsContiguous
      <4>3. i \in 1 .. Len(in) /\ Len(in) \in Nat
        BY <4>1
      <4>4. CASE i = Len(in)
        <5>1. in # <<>> /\ Append(in, n)[i] = in[Len(in)] /\ Append(in, n)[i + 1] = n
          BY <4>3, <4>4
        <5> QED
          BY <3>6, <4>1, <5>1, Zenon
      <4>5. CASE i \in 1 .. Len(in) - 1
        <5>1. Append(in, n)[i] = in[i] /\ Append(in, n)[i + 1] = in[i + 1]
          BY <4>3, <4>5
        <5> QED
          BY <4>1, <4>2, <4>5, <5>1, Zenon
      <4> QED
        BY <4>3, <4>4, <4>5
    <3> QED
      BY <3>7, <3>8, Zenon
  <2> QED
    BY <2>1, <2>4, <2>5, Zenon
<1> QED
  BY <1>2, <1>3, Zenon

-----------------------------------------------------------------------------
\* At the start nothing has been written, sent or pumped.
LEMMA OutputInit ==
  ASSUME Init
  PROVE  PtyInv /\ InputInv /\ StdinIsContiguous
<1>1. /\ toHelper = <<>> /\ toHost = <<>> /\ loopTook.run = NoRun /\ currentExec = NoRun
      /\ \A r \in Runs : /\ pump[r] = "off" /\ pumped[r] = 0 /\ stdin[r] = <<>> /\ wrote[r] = 0
                         /\ streamed[r] = 0 /\ pipe[r] = <<>> /\ resultCh[r] = <<>>
                         /\ returned[r] = NoOutcome /\ r # NoRun
  BY ExecProtoAssumption, Zenon DEF Init, ConnInit, ClientInit, ExecInit
<1>2. Terminal \subseteq Runs /\ EOFInput \in Nat
  BY ExecProtoAssumption DEF EOFInput
<1>3. PtyInv
  <2>1. \A r \in Terminal : wrote[r] = streamed[r] + Len(pipe[r])
    <3>1. Len(<<>>) = 0 /\ 0 = 0 + 0
      OBVIOUS
    <3> QED
      BY <1>1, <1>2, <3>1, Zenon
  <2>2. \A r \in Runs : ~Has(toHost, "ExecResult", r)
    BY <1>1, EmptyQueue, Zenon
  <2>3. OutcomesIn(OutcomesOf(WholeRuns))
    BY <1>1 DEF OutcomesIn
  <2> QED
    BY <2>1, <2>2, <2>3, Zenon DEF PtyInv
<1>4. InputInv
  <2> SUFFICES ASSUME NEW r \in Runs PROVE InputOf(r)
    BY Zenon DEF InputInv, InputOf
  <2>1. <<>> \in Seq(Envelope) /\ ~Has(<<>>, "ExecInput", r)
    BY EmptyQueue
  <2>2. Numbered(<<>>, "ExecInput", r, 0, 0)
    BY <2>1, NumberedNone, Zenon
  <2>3. 0 \in 0 .. EOFInput
    BY <1>2
  <2>4. InputsFollow(r, toHelper, pump[r], pumped[r], currentExec = r, stdin[r])
    BY <1>1, <2>2, <2>3, Zenon DEF InputsFollow
  <2> QED
    BY <1>1, <2>4, Zenon DEF InputOf
<1>5. StdinIsContiguous
  BY <1>1 DEF StdinIsContiguous
<1> QED
  BY <1>3, <1>4, <1>5, Zenon

\* PtyInv is inductive relative to TypeOK and RunInv.
LEMMA PtyInvariant == Spec => []PtyInv
  BY OutputInit, PtyInvStep, TypeCorrect, RunInvariantHolds, PTL DEF Spec

\* A Run on a terminal that returns a result returns all its command wrote: for
\* any number of Runs and any capacity of the bridge, with sends that fail, Runs
\* that are cancelled and a helper that exits.
THEOREM PtySafe == Spec => []PtyOutputComplete
<1>1. RunInv /\ PtyInv => PtyOutputComplete
  <2> SUFFICES ASSUME RunInv, PtyInv, NEW r \in Terminal, returned[r].kind = "result"
               PROVE  Len(returned[r].out) = wrote[r]
    BY Zenon DEF PtyOutputComplete
  <2>1. r \in Runs
    BY ExecProtoAssumption, Zenon
  <2>2. returned[r].of = r /\ Len(returned[r].out) = streamed[r]
    BY <2>1, Zenon DEF RunInv, ReturnedOwn, Own
  <2>3. returned[r] # NoOutcome
    BY DEF NoOutcome
  <2>4. returned[r].of \in WholeRuns
    BY <2>1, <2>3, Zenon DEF PtyInv, OutcomesIn, OutcomesOf
  <2> QED
    BY <2>2, <2>4, Zenon DEF WholeRuns
<1> QED
  BY <1>1, RunInvariantHolds, PtyInvariant, PTL

\* What reaches a command's stdin is a gapless stretch of what the pump of its
\* own Run read, and nothing follows the EOF, also when pumps outlive their
\* Runs.
THEOREM StdinSafe == Spec => []StdinIsContiguous
<1>1. Init => InputInv /\ StdinIsContiguous
  BY OutputInit, Zenon
<1>2. TypeOK /\ RunInv /\ InputInv /\ [Next]_vars => InputInv'
  BY InputInvStep, Zenon
<1>3. TypeOK /\ RunInv /\ InputInv /\ StdinIsContiguous /\ [Next]_vars => StdinIsContiguous'
  BY ContiguousStep, Zenon
<1> QED
  BY <1>1, <1>2, <1>3, TypeCorrect, RunInvariantHolds, PTL DEF Spec

-----------------------------------------------------------------------------
\* What the caller of r sees when pc is p and o was returned.
CallOf(p, o) == CASE p = "idle" -> "idle" [] p = "done" -> o.kind [] OTHER -> "called"

\* What is visible of a command whose handleExec is in state e.
CommandOf(e) ==
    CASE e \in {"none", "queued"} -> "none" [] e \in {"sent", "done"} -> "ended" [] OTHER -> "running"

\* How the visible state changes when one Run or one command does.
LEMMA ServiceFrame ==
  ASSUME TypeOK
  PROVE  /\ serviceCall = [r \in Runs |-> CallOf(pc[r], returned[r])]
         /\ serviceCommand = [r \in Runs |-> CommandOf(exec[r])]
         /\ UNCHANGED <<pc, returned>> => serviceCall' = serviceCall
         /\ UNCHANGED exec => serviceCommand' = serviceCommand
         /\ \A r \in Runs, p \in {"idle", "send", "wait", "done"}, o \in Outcome :
              pc' = [pc EXCEPT ![r] = p] /\ returned' = [returned EXCEPT ![r] = o] =>
                serviceCall' = [serviceCall EXCEPT ![r] = CallOf(p, o)]
         /\ \A r \in Runs, e \in ExecStates :
              exec' = [exec EXCEPT ![r] = e] =>
                serviceCommand' = [serviceCommand EXCEPT ![r] = CommandOf(e)]
<1>0. pc \in [Runs -> {"idle", "send", "wait", "done"}] /\ returned \in [Runs -> Outcome]
      /\ exec \in [Runs -> ExecStates]
  BY Zenon DEF TypeOK, RunTypeOK, ExecTypeOK
<1>1. serviceCall = [r \in Runs |-> CallOf(pc[r], returned[r])]
      /\ serviceCommand = [r \in Runs |-> CommandOf(exec[r])]
  BY Zenon DEF serviceCall, serviceCommand, CallOf, CommandOf
<1>2. serviceCall' = [r \in Runs |-> CallOf(pc'[r], returned'[r])]
      /\ serviceCommand' = [r \in Runs |-> CommandOf(exec'[r])]
  BY Zenon DEF serviceCall, serviceCommand, CallOf, CommandOf
<1>3. ASSUME NEW r \in Runs, NEW p \in {"idle", "send", "wait", "done"}, NEW o \in Outcome,
             pc' = [pc EXCEPT ![r] = p], returned' = [returned EXCEPT ![r] = o]
      PROVE  serviceCall' = [serviceCall EXCEPT ![r] = CallOf(p, o)]
  BY <1>0, <1>1, <1>2, <1>3, Zenon
<1>4. ASSUME NEW r \in Runs, NEW e \in ExecStates, exec' = [exec EXCEPT ![r] = e]
      PROVE  serviceCommand' = [serviceCommand EXCEPT ![r] = CommandOf(e)]
  BY <1>0, <1>1, <1>2, <1>4, Zenon
<1>5. UNCHANGED <<pc, returned>> => serviceCall' = serviceCall
  BY <1>1, <1>2, Zenon
<1>6. UNCHANGED exec => serviceCommand' = serviceCommand
  BY <1>1, <1>2, Zenon
<1> QED
  BY <1>1, <1>3, <1>4, <1>5, <1>6

\* A Run that returns from its send or its select succeeds or fails visibly.
LEMMA ReturnIsVisible ==
  ASSUME TypeOK, ReturnedOwn', UNCHANGED exec, NEW r \in Runs, NEW o \in Outcome, o.kind # "none",
         pc[r] # "done", pc[r] = "idle" => o.kind = "error",
         pc' = [pc EXCEPT ![r] = "done"], returned' = [returned EXCEPT ![r] = o]
  PROVE  Service!ServiceNext
<1>0. pc \in [Runs -> {"idle", "send", "wait", "done"}] /\ returned \in [Runs -> Outcome]
  BY Zenon DEF TypeOK, RunTypeOK
<1>1. /\ serviceCall' = [serviceCall EXCEPT ![r] = o.kind]
      /\ serviceCall[r] = CallOf(pc[r], returned[r]) /\ UNCHANGED serviceCommand
      /\ serviceCommand[r] = CommandOf(exec[r])
  BY ServiceFrame, Zenon DEF CallOf
<1>2. o.kind \in {"result", "error"}
  BY Zenon DEF Outcome
<1>3. CASE o.kind = "error"
  <2>1. serviceCall[r] \in {"idle", "called"}
    BY <1>0, <1>1, Zenon DEF CallOf
  <2> QED
    BY <1>1, <1>3, <2>1, Zenon DEF Service!ServiceNext, Service!Fail
<1>4. CASE o.kind = "result"
  <2>1. serviceCall[r] = "called"
    BY <1>0, <1>1, <1>4, Zenon DEF CallOf
  <2>2. returned'[r] = o
    BY <1>0, Zenon
  <2>3. exec[r] \in {"sent", "done"}
    BY <1>4, <2>2 DEF ReturnedOwn, Own
  <2>4. serviceCommand[r] = "ended"
    BY <1>1, <2>3, Zenon DEF CommandOf
  <2> QED
    BY <1>1, <1>4, <2>1, <2>4, Zenon DEF Service!ServiceNext, Service!Succeed
<1> QED
  BY <1>2, <1>3, <1>4, Zenon

\* A step of the client calls, returns, or is invisible.
LEMMA ClientRefines ==
  ASSUME TypeOK, RunInv, RunInv', PtyInv, ClientStep
  PROVE  Service!ServiceNext \/ UNCHANGED <<serviceCall, serviceCommand>>
<1>0. pc \in [Runs -> {"idle", "send", "wait", "done"}] /\ returned \in [Runs -> Outcome]
      /\ resultCh \in [Runs -> Seq(Outcome)]
  BY Zenon DEF TypeOK, RunTypeOK, SessionTypeOK
<1>1. UNCHANGED exec /\ UNCHANGED serviceCommand /\ ReturnedOwn'
  BY ServiceFrame, Zenon DEF ClientStep, helperVars, execVars, RunInv
<1>2. ASSUME UNCHANGED <<pc, returned>> PROVE UNCHANGED <<serviceCall, serviceCommand>>
  BY <1>1, <1>2, ServiceFrame, Zenon
<1>3. ErrOutcome \in Outcome /\ ErrOutcome.kind = "error"
  <2>1. ErrOutcome.kind = "error"
    BY Zenon DEF ErrOutcome
  <2> QED
    BY <2>1, OutcomeType, Zenon
<1>4. CASE StartSend \/ StartReturn \/ StartCancelled \/ CloseConn \/ CloseDrain \/ LoopNext
  BY <1>2, <1>4, Zenon DEF StartSend, StartReturn, StartCancelled, CloseConn, CloseDrain, runVars,
     LoopNext, LoopDecode, LoopDecodeError, LoopFail, LoopFinish, LoopFailFinish, LoopReport
<1>5. ASSUME NEW h \in Handlers, HandlerRespond(h) \/ HandlerSendFails(h) \/ HandlerFinish(h)
      PROVE  UNCHANGED <<serviceCall, serviceCommand>>
  BY <1>2, <1>5, Zenon DEF HandlerRespond, HandlerSendFails, HandlerFinish, runVars
<1>6. ASSUME NEW r \in Runs, RunNext(r) \/ PumpInput(r) \/ PumpFails(r)
      PROVE  Service!ServiceNext \/ UNCHANGED <<serviceCall, serviceCommand>>
  <2>1. CASE PumpInput(r) \/ PumpFails(r)
    BY <1>2, <2>1, Zenon DEF PumpInput, PumpFails, runVars
  <2>2. CASE RunInstall(r)
    <3>1. pc[r] = "idle" /\ pc' = [pc EXCEPT ![r] = "send"] /\ returned' = [returned EXCEPT ![r] = returned[r]]
      BY <1>0, <2>2, Zenon DEF RunInstall
    <3>2. serviceCall' = [serviceCall EXCEPT ![r] = "called"] /\ serviceCall[r] = "idle"
      BY <1>0, <3>1, ServiceFrame, Zenon DEF CallOf
    <3> QED
      BY <1>1, <3>2, Zenon DEF Service!ServiceNext, Service!Call
  <2>3. CASE RunSend(r)
    <3>1. pc[r] = "send" /\ pc' = [pc EXCEPT ![r] = "wait"] /\ returned' = [returned EXCEPT ![r] = returned[r]]
      BY <1>0, <2>3, Zenon DEF RunSend
    <3>2. serviceCall' = [serviceCall EXCEPT ![r] = "called"] /\ serviceCall[r] = "called"
          /\ serviceCall = [q \in Runs |-> CallOf(pc[q], returned[q])]
      BY <1>0, <3>1, ServiceFrame, Zenon DEF CallOf
    <3> QED
      BY <1>1, <3>2, Zenon
  <2>4. CASE RunBusy(r) \/ RunSendFails(r) \/ RunLoopDone(r) \/ RunCancelled(r)
    <3>1. pc[r] # "done" /\ pc' = [pc EXCEPT ![r] = "done"] /\ returned' = [returned EXCEPT ![r] = ErrOutcome]
      BY <2>4, Zenon DEF RunBusy, RunSendFails, RunLoopDone, RunCancelled, RunReturn
    <3> QED
      BY <1>1, <1>3, <3>1, ReturnIsVisible, Zenon
  <2>5. CASE RunOutcome(r)
    <3>1. PICK o \in Outcome : o = Head(resultCh[r]) /\ o.kind # "none"
      <4>1. resultCh[r] \in Seq(Outcome) /\ resultCh[r] # <<>>
        BY <1>0, <2>5, Zenon DEF RunOutcome
      <4>2. Head(resultCh[r]) = resultCh[r][1] /\ 1 \in DOMAIN resultCh[r] /\ Head(resultCh[r]) \in Outcome
        BY <4>1
      <4> QED
        BY <4>2, Zenon DEF PtyInv, OutcomesIn, OutcomesOf
    <3>2. pc[r] = "wait" /\ pc' = [pc EXCEPT ![r] = "done"] /\ returned' = [returned EXCEPT ![r] = o]
      BY <2>5, <3>1, Zenon DEF RunOutcome, RunReturn
    <3> QED
      BY <1>1, <3>1, <3>2, ReturnIsVisible, Zenon
  <2> QED
    BY <1>6, <2>1, <2>2, <2>3, <2>4, <2>5, Zenon DEF RunNext
<1> QED
  BY <1>4, <1>5, <1>6, Zenon DEF ClientStep, ClientNext

\* A step of the helper begins a command, ends one, or is invisible.
LEMMA HelperRefines ==
  ASSUME TypeOK, RunInv, HelperStep
  PROVE  Service!ServiceNext \/ UNCHANGED <<serviceCall, serviceCommand>>
<1>0. exec \in [Runs -> ExecStates] /\ returned \in [Runs -> Outcome] /\ NoRun \notin Runs
      /\ pc \in [Runs -> {"idle", "send", "wait", "done"}]
  BY ExecProtoAssumption, Zenon DEF TypeOK, RunTypeOK, ExecTypeOK
<1>1. UNCHANGED serviceCall
  BY ServiceFrame, Zenon DEF HelperStep, clientVars, runVars
<1>2. ASSUME UNCHANGED exec PROVE UNCHANGED <<serviceCall, serviceCommand>>
  BY <1>1, <1>2, ServiceFrame, Zenon
<1>3. ASSUME NEW r \in Runs, NEW e \in ExecStates, exec' = [exec EXCEPT ![r] = e],
             CommandOf(e) = CommandOf(exec[r])
      PROVE  UNCHANGED <<serviceCall, serviceCommand>>
  <2>1. serviceCommand = [q \in Runs |-> CommandOf(exec[q])]
        /\ serviceCommand' = [serviceCommand EXCEPT ![r] = CommandOf(e)]
    BY <1>3, ServiceFrame, Zenon
  <2> QED
    BY <1>1, <1>3, <2>1, Zenon
<1>4. ASSUME NEW r \in Runs, exec[r] # "none" PROVE serviceCall[r] # "idle"
  <2>1. pc[r] \in {"wait", "done"} /\ serviceCall[r] = CallOf(pc[r], returned[r])
    BY <1>4, ServiceFrame, Zenon DEF RunInv, CommandOrder
  <2>2. returned[r].kind \in {"none", "result", "error"}
    BY <1>0, Zenon DEF Outcome
  <2> QED
    BY <2>1, <2>2, Zenon DEF CallOf
<1>5. ASSUME NEW r \in Runs, helperExecMu \in {r, NoRun}, NEW q \in Runs \ {r}
      PROVE  serviceCommand[q] # "running"
  <2>1. helperExecMu # q
    BY <1>0, <1>5, Zenon
  <2>2. exec[q] \in {"none", "queued", "done"}
    BY <1>0, <2>1, Zenon DEF RunInv, CommandOrder, ExecStates
  <2> QED
    BY <2>2, ServiceFrame, Zenon DEF CommandOf
<1>6. CASE ReadLoopNext
  <2>1. CASE HelperExecRequest
    <3>1. PICK r \in Runs : Has(toHelper, "ExecRequest", r) /\ exec' = [exec EXCEPT ![r] = "queued"]
      <4>1. toHelper \in Seq(Envelope) /\ toHelper # <<>> /\ Head(toHelper).kind = "ExecRequest"
            /\ exec' = [exec EXCEPT ![Head(toHelper).id] = "queued"]
        BY <2>1, Zenon DEF HelperExecRequest, TypeOK, ConnTypeOK
      <4>2. 1 \in DOMAIN toHelper /\ toHelper[1] = Head(toHelper) /\ Head(toHelper) \in Envelope
        BY <4>1
      <4>3. Head(toHelper).id \in Runs
        BY <4>1, <4>2, Zenon DEF Envelope, ExecKinds
      <4> QED
        BY <4>1, <4>2, <4>3, Zenon DEF Has, Is
    <3>2. exec[r] = "none"
      BY <3>1, Zenon DEF RunInv, CommandOrder
    <3>3. "queued" \in ExecStates /\ CommandOf("queued") = CommandOf(exec[r])
      BY <3>2, Zenon DEF ExecStates, CommandOf
    <3> QED
      BY <1>3, <3>1, <3>3, Zenon
  <2>2. CASE HelperHello \/ HelperExecInput \/ HelperResponse
    BY <1>2, <2>2, Zenon DEF HelperHello, HelperExecInput, HelperResponse, helperVars, execVars
  <2> QED
    BY <1>6, <2>1, <2>2, Zenon DEF ReadLoopNext
<1>7. CASE HelperRequest \/ HelperExit
  BY <1>2, <1>7, Zenon DEF HelperRequest, HelperExit, helperVars, execVars
<1>8. ASSUME NEW r \in Runs, ExecNext(r) \/ CommandNext(r)
      PROVE  Service!ServiceNext \/ UNCHANGED <<serviceCall, serviceCommand>>
  <2>0. serviceCommand[r] = CommandOf(exec[r])
    BY ServiceFrame, Zenon
  <2>1. CASE ExecStart(r)
    <3>1. exec[r] = "queued" /\ helperExecMu = NoRun /\ exec' = [exec EXCEPT ![r] = "running"]
      BY <2>1, Zenon DEF ExecStart
    <3>2. serviceCommand' = [serviceCommand EXCEPT ![r] = "running"] /\ serviceCommand[r] = "none"
      BY <2>0, <3>1, ServiceFrame, Zenon DEF CommandOf, ExecStates
    <3>3. \A q \in Runs : serviceCommand[q] # "running"
      BY <1>5, <3>1, <3>2, Zenon
    <3>4. serviceCall[r] # "idle"
      BY <1>4, <3>1, Zenon
    <3> QED
      BY <1>1, <3>2, <3>3, <3>4, Zenon DEF Service!ServiceNext, Service!Begin
  <2>2. CASE ExecError(r) \/ ExecSendResult(r)
    <3>1. PICK e \in {"sent", "done"} : exec' = [exec EXCEPT ![r] = e]
      BY <2>2, Zenon DEF ExecError, ExecSendResult
    <3>2. exec[r] \in {"queued", "waited"} /\ helperExecMu \in {r, NoRun}
      BY <2>2, Zenon DEF ExecError, ExecSendResult, RunInv, CommandOrder
    <3>3. e \in ExecStates /\ CommandOf(e) = "ended" /\ CommandOf(exec[r]) # "ended"
      BY <3>1, <3>2, Zenon DEF CommandOf, ExecStates
    <3>a. serviceCommand' = [serviceCommand EXCEPT ![r] = CommandOf(e)]
      BY <3>1, <3>3, ServiceFrame, Zenon
    <3>4. serviceCommand' = [serviceCommand EXCEPT ![r] = "ended"] /\ serviceCommand[r] # "ended"
      BY <2>0, <3>3, <3>a, Zenon
    <3>5. serviceCall[r] # "idle" /\ \A q \in Runs \ {r} : serviceCommand[q] # "running"
      BY <1>4, <1>5, <3>2, Zenon
    <3> QED
      BY <1>1, <3>4, <3>5, Zenon DEF Service!ServiceNext, Service!End
  <2>3. CASE CommandExit(r) \/ CommandWait(r)
    <3>1. PICK e \in {"exited", "waited"} : exec' = [exec EXCEPT ![r] = e]
      BY <2>3, Zenon DEF CommandExit, CommandWait
    <3>2. e \in ExecStates /\ CommandOf(e) = CommandOf(exec[r])
      BY <2>3, <3>1, Zenon DEF CommandExit, CommandWait, CommandOf, ExecStates
    <3> QED
      BY <1>3, <3>1, <3>2, Zenon
  <2>4. CASE ExecCleanup(r)
    <3>1. exec' = [exec EXCEPT ![r] = "done"] /\ "done" \in ExecStates
          /\ CommandOf("done") = CommandOf(exec[r])
      BY <2>4, Zenon DEF ExecCleanup, CommandOf, ExecStates
    <3> QED
      BY <1>3, <3>1, Zenon
  <2>5. CASE StreamOutput(r) \/ CommandWrite(r)
    BY <1>2, <2>5, Zenon DEF StreamOutput, CommandWrite
  <2> QED
    BY <1>8, <2>1, <2>2, <2>3, <2>4, <2>5, Zenon DEF ExecNext, CommandNext
<1> QED
  BY <1>6, <1>7, <1>8, Zenon DEF HelperStep, HelperNext

\* The host and the helper together implement what Sandbox.Run promises: a call
\* returns once, a result comes only from the call's own command and only after
\* that has ended, and no two commands run at a time.
THEOREM RunServiceRefined == Spec => ImplementsRunService
<1>1. Init => Service!ServiceInit
  BY DEF Init, ClientInit, ExecInit, Service!ServiceInit, serviceCall, serviceCommand
<1>2. TypeOK /\ RunInv /\ RunInv' /\ PtyInv /\ [Next]_vars
        => [Service!ServiceNext]_(Service!serviceVars)
  <2> SUFFICES ASSUME TypeOK, RunInv, RunInv', PtyInv, [Next]_vars
               PROVE  Service!ServiceNext \/ UNCHANGED <<serviceCall, serviceCommand>>
    BY Zenon DEF Service!serviceVars
  <2>1. CASE ClientStep
    BY <2>1, ClientRefines, Zenon
  <2>2. CASE HelperStep
    BY <2>2, HelperRefines, Zenon
  <2>3. CASE UNCHANGED vars
    BY <2>3, ServiceFrame, Zenon DEF vars, clientVars, runVars, helperVars, execVars
  <2> QED
    BY <2>1, <2>2, <2>3, Zenon DEF Next
<1> QED
  BY <1>1, <1>2, TypeCorrect, RunInvariantHolds, PtyInvariant, PTL
     DEF Spec, ImplementsRunService, Service!ServiceSpec
=============================================================================
