------------------------------ MODULE ExecManager ------------------------------
(***************************************************************************)
(* The helper's side of command execution: RuntimeBridge.ReadLoop's         *)
(* dispatch of Hello, ExecRequest and ExecInput (internal/helperruntime/    *)
(* bridge), execManager.handleExec and handleExecInput (exec_manager.go),   *)
(* and StartSession, StreamOutput, HandleInput (internal/helperruntime/     *)
(* exec).  A command has one output stream here; stdout and stderr are      *)
(* handled alike.                                                           *)
(***************************************************************************)
EXTENDS ExecProto

VARIABLES
    exec,             \* handleExec of a request, a member of ExecStates
    helperExecMu,     \* holder of execManager.execMu
    currentExec,      \* execManager.currentExec
    wrote,            \* chunks of output the command has written
    pipe,             \* chunks in the output pipe or pty, not read yet
    streamed,         \* chunks StreamOutput has sent
    stdin,            \* inputs handed to the command's stdin, in order
    requested         \* network requests the payload has made through the helper

execVars == <<exec, helperExecMu, currentExec, wrote, pipe, streamed, stdin>>
helperVars == <<execVars, requested>>

\* handleExec is not called yet, waits for execMu, runs the command, the command
\* exited, cmd.Wait returned, ExecResult is sent, handleExec returned.
ExecStates == {"none", "queued", "running", "exited", "waited", "sent", "done"}

ExecInit ==
    /\ exec = [r \in Runs |-> "none"]
    /\ helperExecMu = NoRun
    /\ currentExec = NoRun
    /\ wrote = [r \in Runs |-> 0]
    /\ pipe = [r \in Runs |-> <<>>]
    /\ streamed = [r \in Runs |-> 0]
    /\ stdin = [r \in Runs |-> <<>>]
    /\ requested = 0

-----------------------------------------------------------------------------
\* RuntimeBridge.ReadLoop

\* handleHello: answer a Hello of the same protocol version with Ready.
\* (A helper of another version makes ReadLoop return: see HelperExit.)
HelperHello ==
    /\ helperEnd = "open"
    /\ toHelper # <<>>
    /\ Head(toHelper).kind = "Hello"
    /\ HelperSend(Env("Ready", NoRun, 0))
    /\ toHelper' = Tail(toHelper)
    /\ UNCHANGED <<hostEnd, helperEnd, helperVars>>

\* ExecRequest: go handleExec.
HelperExecRequest ==
    /\ helperEnd = "open"
    /\ toHelper # <<>>
    /\ Head(toHelper).kind = "ExecRequest"
    /\ exec' = [exec EXCEPT ![Head(toHelper).id] = "queued"]
    /\ toHelper' = Tail(toHelper)
    /\ UNCHANGED <<toHost, hostEnd, helperEnd, helperExecMu, currentExec, wrote,
                   pipe, streamed, stdin, requested>>

\* Mutant: input goes to the current exec, whichever Run sent it.
HelperExecInputAnyID ==
    /\ helperEnd = "open"
    /\ toHelper # <<>>
    /\ Head(toHelper).kind = "ExecInput"
    /\ LET env == Head(toHelper) IN
         stdin' = IF currentExec # NoRun
                  THEN [stdin EXCEPT ![currentExec] = Append(@, env.n)]
                  ELSE stdin
    /\ toHelper' = Tail(toHelper)
    /\ UNCHANGED <<toHost, hostEnd, helperEnd, exec, helperExecMu, currentExec,
                   wrote, pipe, streamed, requested>>

\* handleExecInput and HandleInput: input that is not for the current exec is
\* dropped, and so is an EOF for a pty.  (Only interactive runs have a pump, so
\* the exec has a session; the host never sets ExecInput.Cancel.)
HelperExecInput ==
    /\ helperEnd = "open"
    /\ toHelper # <<>>
    /\ Head(toHelper).kind = "ExecInput"
    /\ LET env == Head(toHelper) IN
         stdin' = IF /\ currentExec = env.id
                     /\ env.n # EOFInput \/ env.id \notin Terminal
                  THEN [stdin EXCEPT ![env.id] = Append(@, env.n)]
                  ELSE stdin
    /\ toHelper' = Tail(toHelper)
    /\ UNCHANGED <<toHost, hostEnd, helperEnd, exec, helperExecMu, currentExec,
                   wrote, pipe, streamed, requested>>

\* A response is handed to the round trip that waits for it.
HelperResponse ==
    /\ helperEnd = "open"
    /\ toHelper # <<>>
    /\ Head(toHelper).kind = "Response"
    /\ toHelper' = Tail(toHelper)
    /\ UNCHANGED <<toHost, hostEnd, helperEnd, helperVars>>

\* The payload makes a network request; the helper forwards it.
HelperRequest ==
    /\ requested < MaxRequests
    /\ \E r \in Runs : exec[r] \notin {"none", "queued"}
    /\ HelperSend(Env("Request", NoRun, requested + 1))
    /\ requested' = requested + 1
    /\ UNCHANGED <<toHelper, hostEnd, helperEnd, execVars>>

\* The helper process ends: ReadLoop got EOF from the host or rejected the
\* Hello, the sandbox was killed, or the helper crashed.  Its commands die with
\* it (bwrap --die-with-parent).
HelperExit ==
    /\ helperEnd = "open"
    /\ helperEnd' = "closed"
    /\ UNCHANGED <<toHelper, toHost, hostEnd, helperVars>>

-----------------------------------------------------------------------------
\* execManager.handleExec

\* Lock execMu, resolve and start the command, setCurrentExec.
ExecStart(r) ==
    /\ helperEnd = "open"
    /\ exec[r] = "queued"
    /\ helperExecMu = NoRun
    /\ helperExecMu' = r
    /\ exec' = [exec EXCEPT ![r] = "running"]
    /\ currentExec' = r
    /\ UNCHANGED <<connVars, wrote, pipe, streamed, stdin, requested>>

\* The command cannot be resolved or started: sendExecError, unlock.
ExecError(r) ==
    /\ helperEnd = "open"
    /\ exec[r] = "queued"
    /\ helperExecMu = NoRun
    /\ HelperTrySend(Env("ExecResult", r, 0))
    /\ exec' = [exec EXCEPT ![r] = "done"]
    /\ UNCHANGED <<toHelper, hostEnd, helperEnd, helperExecMu, currentExec,
                   wrote, pipe, streamed, stdin, requested>>

\* The command writes to its output.
CommandWrite(r) ==
    /\ helperEnd = "open"
    /\ exec[r] = "running"
    /\ wrote[r] < MaxOutput
    /\ wrote' = [wrote EXCEPT ![r] = @ + 1]
    /\ pipe' = [pipe EXCEPT ![r] = Append(@, wrote[r] + 1)]
    /\ UNCHANGED <<connVars, exec, helperExecMu, currentExec, streamed, stdin,
                   requested>>

\* The command exits.
CommandExit(r) ==
    /\ helperEnd = "open"
    /\ exec[r] = "running"
    /\ exec' = [exec EXCEPT ![r] = "exited"]
    /\ UNCHANGED <<connVars, helperExecMu, currentExec, wrote, pipe, streamed,
                   stdin, requested>>

\* StreamOutput: read a chunk and send it.  If the send fails StreamOutput
\* returns, and what the pipe holds is never read.
StreamOutput(r) ==
    /\ helperEnd = "open"
    /\ pipe[r] # <<>>
    /\ HelperTrySend(Env("StreamFrame", r, Head(pipe[r])))
    /\ pipe' = [pipe EXCEPT ![r] = IF HelperCanSend THEN Tail(@) ELSE <<>>]
    /\ streamed' = [streamed EXCEPT ![r] = IF HelperCanSend THEN @ + 1 ELSE @]
    /\ UNCHANGED <<toHelper, hostEnd, helperEnd, exec, helperExecMu,
                   currentExec, wrote, stdin, requested>>

\* Mutant: the pty is closed together with cmd.Wait.
CommandWaitClosesPty(r) ==
    /\ helperEnd = "open"
    /\ exec[r] = "exited"
    /\ exec' = [exec EXCEPT ![r] = "waited"]
    /\ pipe' = [pipe EXCEPT ![r] = <<>>]
    /\ UNCHANGED <<connVars, helperExecMu, currentExec, wrote, streamed, stdin,
                   requested>>

\* cmd.Wait: reaps the command and closes the parent's ends of StdoutPipe and
\* StderrPipe, with what StreamOutput has not read yet; a pty stays open.
CommandWait(r) ==
    /\ helperEnd = "open"
    /\ exec[r] = "exited"
    /\ exec' = [exec EXCEPT ![r] = "waited"]
    /\ pipe' = [pipe EXCEPT ![r] = IF r \in Terminal THEN @ ELSE <<>>]
    /\ UNCHANGED <<connVars, helperExecMu, currentExec, wrote, streamed, stdin,
                   requested>>

\* Mutant: the result is sent as soon as the command has exited, by-passing
\* cmd.Wait and wg.Wait.
ExecSendResultEarly(r) ==
    /\ helperEnd = "open"
    /\ exec[r] = "exited"
    /\ HelperTrySend(Env("ExecResult", r, 0))
    /\ exec' = [exec EXCEPT ![r] = "sent"]
    /\ UNCHANGED <<toHelper, hostEnd, helperEnd, helperExecMu, currentExec,
                   wrote, pipe, streamed, stdin, requested>>

\* wg.Wait returned: send ExecResult.
ExecSendResult(r) ==
    /\ helperEnd = "open"
    /\ exec[r] = "waited"
    /\ pipe[r] = <<>>
    /\ HelperTrySend(Env("ExecResult", r, 0))
    /\ exec' = [exec EXCEPT ![r] = "sent"]
    /\ UNCHANGED <<toHelper, hostEnd, helperEnd, helperExecMu, currentExec,
                   wrote, pipe, streamed, stdin, requested>>

\* The deferred calls: session.Close, clearCurrentExec, cancel, unlock.
ExecCleanup(r) ==
    /\ helperEnd = "open"
    /\ exec[r] = "sent"
    /\ exec' = [exec EXCEPT ![r] = "done"]
    /\ currentExec' = IF currentExec = r THEN NoRun ELSE currentExec
    /\ helperExecMu' = NoRun
    /\ UNCHANGED <<connVars, wrote, pipe, streamed, stdin, requested>>

-----------------------------------------------------------------------------
ReadLoopNext == HelperHello \/ HelperExecRequest \/ HelperExecInput \/ HelperResponse

ExecNext(r) ==
    \/ ExecStart(r) \/ ExecError(r) \/ StreamOutput(r) \/ CommandWait(r)
    \/ ExecSendResult(r) \/ ExecCleanup(r)

CommandNext(r) == CommandWrite(r) \/ CommandExit(r)

HelperNext ==
    \/ ReadLoopNext \/ HelperRequest \/ HelperExit
    \/ \E r \in Runs : ExecNext(r) \/ CommandNext(r)
=============================================================================
