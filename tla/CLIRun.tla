------------------------------- MODULE CLIRun --------------------------------
(***************************************************************************)
(* One run of the bbox command, from a complete configuration to the exit  *)
(* code (runSandbox, finalizeRunOutput and main of cmd/bbox): the deferred *)
(* calls, the terminal in raw mode, the changes of its size on their way   *)
(* to the payload, and the report on the requests, which other goroutines  *)
(* are still recording.                                                    *)
(***************************************************************************)
EXTENDS Integers, Sequences, FiniteSets

CONSTANTS Requests,    \* requests made from inside the sandbox
          MaxOutput,   \* bound on chunks of output
          MaxResize,   \* bound on changes of the window size
          WriteErrors  \* may writing to the standard streams fail?

VARIABLES pc, interactive, interrupted, err, code, payload,
          term, cleaned, manager, sandbox,
          received, shown, request, before, summary, entries, printed,
          window, sigCh, watcher, got, resizeCh, forwarder, size, dropped

run == <<pc, interactive, err, code, payload, term, cleaned, manager, sandbox, received, shown, before, summary, entries, printed>>
resizing == <<window, sigCh, watcher, got, resizeCh, forwarder, size, dropped>>
vars == <<run, interrupted, request, resizing>>

Init ==
  /\ pc = "manager" /\ interactive \in BOOLEAN
  /\ interrupted = FALSE /\ err = FALSE /\ code = 0 /\ payload = "none"
  /\ term = "cooked" /\ cleaned = 0 /\ manager = "none" /\ sandbox = "none"
  /\ received = 0 /\ shown = 0
  /\ request = [r \in Requests |-> "none"] /\ before = {} /\ summary = {} /\ entries = {} /\ printed = ""
  /\ window = 0 /\ sigCh = 0 /\ watcher = "off" /\ got = 0 /\ resizeCh = <<>> /\ forwarder = <<>> /\ size = 0 /\ dropped = FALSE

\* SIGINT or SIGTERM ends the context, until stop() is deferred.
Interrupt ==
  /\ pc # "exited" /\ ~ interrupted
  /\ interrupted' = TRUE
  /\ UNCHANGED <<run, request, resizing>>

----------------------------------------------------------------------------
(* runSandbox.  An error leads to the deferred calls.                      *)
Fails == err' = TRUE /\ pc' = "deferred"

NewProxyManager ==
  /\ pc = "manager"
  /\ \/ manager' = "open" /\ pc' = "sandbox" /\ UNCHANGED err
     \/ Fails /\ UNCHANGED manager
  /\ UNCHANGED <<before, interactive, code, payload, term, cleaned, sandbox, received, shown, summary, entries, printed, interrupted, request, resizing>>

NewSandbox ==
  /\ pc = "sandbox"
  /\ \/ sandbox' = "open" /\ pc' = "options" /\ UNCHANGED err
     \/ Fails /\ UNCHANGED sandbox
  /\ UNCHANGED <<before, interactive, code, payload, term, cleaned, manager, received, shown, summary, entries, printed, interrupted, request, resizing>>

\* With a terminal on stdin: raw mode, the size of the window, and a
\* goroutine that waits for SIGWINCH.
buildCLIProcessRunOptions ==
  /\ pc = "options"
  /\ IF ~ interactive THEN pc' = "run" /\ payload' = "running" /\ UNCHANGED <<err, term, watcher, size>>
     ELSE \/ /\ term' = "raw" /\ watcher' = "waiting" /\ size' = window
             /\ pc' = "run" /\ payload' = "running" /\ UNCHANGED err
          \/ Fails /\ UNCHANGED <<term, watcher, size, payload>>
  /\ UNCHANGED <<before, interactive, code, cleaned, manager, sandbox, received, shown, summary, entries, printed, interrupted, request,
                 window, sigCh, got, resizeCh, forwarder, dropped>>

\* Output reaches the library: it is written at once, or kept until the end.
PayloadWrites ==
  /\ payload = "running" /\ received < MaxOutput
  /\ received' = received + 1
  /\ shown' = IF interactive THEN received + 1 ELSE shown
  /\ UNCHANGED <<before, pc, interactive, err, code, payload, term, cleaned, manager, sandbox, summary, entries, printed, interrupted, request, resizing>>

PayloadExits ==
  /\ payload = "running"
  /\ payload' = "exited" /\ code' \in {0, 3}
  /\ UNCHANGED <<before, pc, interactive, err, term, cleaned, manager, sandbox, received, shown, summary, entries, printed, interrupted, request, resizing>>

Return == before' = {r \in Requests : request[r] = "logged"}

\* Run returns the result, or the error of the context.
RunReturns ==
  /\ pc = "run"
  /\ Return
  /\ \/ payload = "exited" /\ pc' = (IF interactive THEN "summary" ELSE "buffered") /\ UNCHANGED err
     \/ interrupted /\ Fails
  /\ UNCHANGED <<interactive, code, payload, term, cleaned, manager, sandbox, received, shown, summary, entries, printed, interrupted, request, resizing>>

\* Run returns an error because the bridge to the helper is gone.
BridgeFails ==
  /\ pc = "run" /\ payload = "running"
  /\ Return
  /\ Fails
  /\ UNCHANGED <<interactive, code, payload, term, cleaned, manager, sandbox, received, shown, summary, entries, printed, interrupted, request, resizing>>

writeBufferedRunResult ==
  /\ pc = "buffered"
  /\ \/ shown' = received /\ pc' = "summary" /\ UNCHANGED err
     \/ WriteErrors /\ received > 0 /\ Fails /\ UNCHANGED shown
  /\ UNCHANGED <<before, interactive, code, payload, term, cleaned, manager, sandbox, received, summary, entries, printed, interrupted, request, resizing>>

\* Mutant: the summary of an identifier that is no longer registered.
AccessSummaryUnregistered ==
  /\ pc = "summary"
  /\ pc' = "finalize"
  /\ UNCHANGED <<before, interactive, err, code, payload, term, cleaned, manager, sandbox, received, shown, summary, entries, printed, interrupted, request, resizing>>

\* sandbox.AccessSummary(), an argument of finalizeRunOutput.
AccessSummary ==
  /\ pc = "summary"
  /\ summary' = {r \in Requests : request[r] \in {"audited", "logged"}}
  /\ pc' = "finalize"
  /\ UNCHANGED <<before, interactive, err, code, payload, term, cleaned, manager, sandbox, received, shown, entries, printed, interrupted, request, resizing>>

Cleanup == cleaned' = 1 /\ term' = "cooked" /\ watcher' = "off"

\* finalizeRunOutput: the clean-up, then the entries of the logger and the
\* report; the rest of the report is lost when a write fails.
finalizeRunOutput ==
  /\ pc = "finalize"
  /\ Cleanup
  /\ entries' = {r \in Requests : request[r] = "logged"}
  /\ printed' = term'
  /\ \/ pc' = "deferred" /\ UNCHANGED err
     \/ WriteErrors /\ Fails
  /\ UNCHANGED <<before, interactive, code, payload, manager, sandbox, received, shown, summary, interrupted, request, window, sigCh, got, resizeCh, forwarder, size, dropped>>

\* The deferred calls, last one first: the clean-up unless it has happened,
\* the sandbox, the manager; then main exits.
deferred ==
  /\ pc = "deferred"
  /\ CASE watcher # "off" /\ cleaned = 0 -> Cleanup /\ UNCHANGED <<sandbox, manager, pc, payload>>
       [] sandbox = "open" -> sandbox' = "closed" /\ payload' = (IF payload = "running" THEN "ended" ELSE payload) /\ UNCHANGED <<cleaned, term, watcher, manager, pc>>
       [] manager = "open" -> manager' = "closed" /\ UNCHANGED <<cleaned, term, watcher, sandbox, pc, payload>>
       [] OTHER -> pc' = "exited" /\ UNCHANGED <<cleaned, term, watcher, sandbox, manager, payload>>
  /\ UNCHANGED <<before, interactive, err, code, received, shown, summary, entries, printed, interrupted, request, window, sigCh, got, resizeCh, forwarder, size, dropped>>

\* The status of the process: main exits with the payload's code, or 1.
ExitStatus == IF err THEN 1 ELSE code

----------------------------------------------------------------------------
(* recordAccessEvent, by goroutines of the manager: the audit state, then   *)
(* the logger.  Processes of the payload may outlive it.                   *)
Audit(r) ==
  /\ request[r] = "none" /\ sandbox = "open" /\ payload \in {"running", "exited"}
  /\ request' = [request EXCEPT ![r] = "audited"]
  /\ UNCHANGED <<run, interrupted, resizing>>

LogAccess(r) ==
  /\ request[r] = "audited" /\ pc # "exited"
  /\ request' = [request EXCEPT ![r] = "logged"]
  /\ UNCHANGED <<run, interrupted, resizing>>

----------------------------------------------------------------------------
(* The window.  A size is the number of changes before it.                 *)

\* Mutant: the channel of the signals has no buffer.
WindowChangesUnbuffered ==
  /\ window < MaxResize /\ watcher # "off"
  /\ window' = window + 1
  /\ sigCh' = IF watcher = "waiting" THEN 1 ELSE sigCh
  /\ UNCHANGED <<run, interrupted, request, watcher, got, resizeCh, forwarder, size, dropped>>

\* signal.Notify: one pending SIGWINCH is kept, further ones are lost.
WindowChanges ==
  /\ window < MaxResize /\ watcher # "off"
  /\ window' = window + 1
  /\ sigCh' = 1
  /\ UNCHANGED <<run, interrupted, request, watcher, got, resizeCh, forwarder, size, dropped>>

\* The goroutine takes the signal, reads the size, and offers it to the
\* channel: a channel that still holds a size keeps that one.
TakeSignal ==
  /\ watcher = "waiting" /\ sigCh = 1
  /\ sigCh' = 0 /\ watcher' = "woken"
  /\ UNCHANGED <<run, interrupted, request, window, got, resizeCh, forwarder, size, dropped>>

GetSize ==
  /\ watcher = "woken"
  /\ got' = window /\ watcher' = "sized"
  /\ UNCHANGED <<run, interrupted, request, window, sigCh, resizeCh, forwarder, size, dropped>>

OfferSize ==
  /\ watcher = "sized"
  /\ watcher' = "waiting"
  /\ IF resizeCh = <<>> THEN resizeCh' = <<got>> /\ UNCHANGED dropped ELSE dropped' = TRUE /\ UNCHANGED resizeCh
  /\ UNCHANGED <<run, interrupted, request, window, sigCh, got, forwarder, size>>

\* convertResizeChannel takes a size, then hands it to the pump, which sends
\* it to the helper.
Forward ==
  /\ resizeCh # <<>> /\ forwarder = <<>> /\ ~ interrupted
  /\ forwarder' = resizeCh /\ resizeCh' = <<>>
  /\ UNCHANGED <<run, interrupted, request, window, sigCh, watcher, got, size, dropped>>

pumpRunResize ==
  /\ forwarder # <<>> /\ ~ interrupted
  /\ size' = Head(forwarder) /\ forwarder' = Tail(forwarder)
  /\ UNCHANGED <<run, interrupted, request, window, sigCh, watcher, got, resizeCh, dropped>>

----------------------------------------------------------------------------
Main == NewProxyManager \/ NewSandbox \/ buildCLIProcessRunOptions \/ RunReturns \/ writeBufferedRunResult
        \/ AccessSummary \/ finalizeRunOutput \/ deferred
Resizing == TakeSignal \/ GetSize \/ OfferSize \/ Forward \/ pumpRunResize

Next == Main \/ BridgeFails \/ Interrupt \/ PayloadWrites \/ PayloadExits \/ WindowChanges \/ Resizing
        \/ \E r \in Requests : Audit(r) \/ LogAccess(r)

\* The goroutines run; the payload, the user and the window owe nothing.
Spec == Init /\ [][Next]_vars /\ WF_vars(Main)
        /\ WF_vars(TakeSignal) /\ WF_vars(GetSize) /\ WF_vars(OfferSize) /\ WF_vars(Forward) /\ WF_vars(pumpRunResize)

----------------------------------------------------------------------------
\* The terminal is never left raw, and the report and the message of an
\* error are printed when it is no longer (buildCLIProcessRunOptions,
\* finalizeRunOutput).
TerminalRestored == (pc = "exited" => term = "cooked") /\ printed # "raw"

\* The clean-up closes its channels once, although it is both called and
\* deferred: a second close would be a panic (runSandbox, cleanupOnce).
CleansUpOnce == cleaned <= 1

\* The sandbox is closed before its manager and both before the exit,
\* whatever step failed.
ClosedInOrder ==
  /\ manager = "closed" => sandbox # "open"
  /\ pc = "exited" => manager # "open" /\ sandbox # "open"

\* A status of 0 says that the payload ran to an end of its own with 0, that all
\* it wrote was passed on and that the report was put together, whatever failed
\* or was interrupted on the way (runSandbox, main).
ZeroIsEarned ==
  (pc = "exited" /\ ExitStatus = 0) =>
     payload = "exited" /\ code = 0 /\ shown = received /\ printed # ""

\* A request whose recording was over when the run returned is in the
\* summary and in the entries of the report, whatever is being recorded
\* while the report is put together (recordAccessEvent, finalizeRunOutput).
ReportIsComplete == printed # "" => before \subseteq summary \cap entries

\* The payload never goes back to an older size (the channels keep order).
NewerSizesOnly == [][size' >= size]_vars

\* The payload gets the last size of the window, unless the run ends or a
\* size was dropped because an earlier one was still in the channel.
Settled == pc # "run" \/ interrupted \/ ~ interactive \/ dropped \/ size = window
SizeSettles == <>[]Settled

\* The command ends once the payload has, or once it was interrupted.
CommandEnds == (payload = "exited" \/ interrupted) ~> pc = "exited"

============================================================================
