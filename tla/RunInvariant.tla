----------------------------- MODULE RunInvariant -----------------------------
(***************************************************************************)
(* The inductive invariant behind ResultIsOwn, SlotTracksCommand and the    *)
(* refinement of RunService.  It says why it is enough that envelopes carry *)
(* no session check: at any time the bridge holds the messages of at most   *)
(* the one command whose Run waits, unless the bridge is broken, and then   *)
(* no Run gets past its send any more.                                      *)
(***************************************************************************)
EXTENDS RunProtocol

\* Why ChannelsNeverBlock holds, and with it that ReadLoop fails the current run
\* only when the bridge is broken.
ChannelInv ==
    /\ Len(readyCh) <= 1 /\ (readyOnce = "unused" => readyCh = <<>>)
    /\ Len(loopDone) <= 1 /\ (loop # "done" => loopDone = <<>>)
    /\ \A r \in Runs : Len(resultCh[r]) <= 1 /\ (r \notin finished => resultCh[r] = <<>>)
    /\ loop = "fail" => ~HostCanSend
    /\ startPc = "new" => loop = "off"

\* A command goes through request, execution and result once and in this order.
CommandOrder ==
    \A r \in Runs :
        /\ Has(toHelper, "ExecRequest", r) => exec[r] = "none" /\ pc[r] \in {"wait", "done"}
        /\ exec[r] # "none" => pc[r] \in {"wait", "done"}
        /\ Has(toHost, "ExecResult", r) => exec[r] \in {"sent", "done"}
        /\ Once(toHelper, "ExecRequest", r)
        /\ Once(toHost, "ExecResult", r)
        /\ exec[r] \in {"running", "exited", "waited", "sent"} => helperExecMu = r

\* The frames of a command are on the bridge before its result, and only while
\* it runs or its result is on the bridge too.
FrameOrder ==
    \A r \in Runs :
        /\ HostCanSend /\ Has(toHost, "StreamFrame", r) =>
             exec[r] \in {"running", "exited", "waited"} \/ Has(toHost, "ExecResult", r)
        /\ Before(toHost, "StreamFrame", "ExecResult", r)

\* What the command has written and StreamOutput has not read is the pipe.
PipeOrder ==
    \A r \in Runs :
        /\ exec[r] = "none" => wrote[r] = 0 /\ streamed[r] = 0
        /\ pipe[r] # <<>> => exec[r] \in {"running", "exited", "waited"}
        /\ HelperCanSend =>
             \A i \in DOMAIN pipe[r] : pipe[r][i] = streamed[r] + i
        /\ HelperCanSend /\ exec[r] \in {"none", "queued", "running"} =>
             wrote[r] = streamed[r] + Len(pipe[r])

\* The session of r has not been touched by anyone.
FreshSession(r) ==
    /\ loopTook.run # r
    /\ \A h \in Handlers : handlerTook[h] # r
    /\ r \notin finished
    /\ resultCh[r] = <<>>
    /\ stdout[r] = <<>>

\* A session belongs to a Run that has installed it; the Run that holds execMu
\* is the only one between its installation and its return.
SessionOrder ==
    \A r \in Runs :
        /\ pc[r] \in {"send", "wait"} => execMu = r /\ currentRun \in {r, NoRun}
        /\ pc[r] = "idle" => currentRun # r /\ FreshSession(r)
        /\ pc[r] = "send" /\ HostCanSend => currentRun = r /\ FreshSession(r)
        /\ pc[r] # "done" => returned[r] = NoOutcome

\* An outcome o that r may return when its exec is in state e and n of its
\* chunks have been streamed.
Own(r, o, e, n) ==
    o.kind = "result" =>
        /\ o.of = r
        /\ e \in {"sent", "done"}
        /\ Len(o.out) = n
        /\ FirstChunks(r, o.out)

\* While r waits, everything on the bridge is r's.
WaitingRunIsAlone ==
    \A r \in Runs : pc[r] = "wait" =>
        \A q \in Runs \ {r} : ~Outstanding(q) /\ ~Has(toHost, "StreamFrame", q)

\* While r waits, its session has r's frames up to some point and the bridge has
\* the rest.
FramesCollected ==
    \A r \in Runs : pc[r] = "wait" =>
        /\ FirstChunks(r, stdout[r])
        /\ currentRun = r =>
             Numbered(toHost, "StreamFrame", r, Len(stdout[r]), streamed[r])

\* The outcome r waits for, in ReadLoop's hands or in resultCh, is its own.
OutcomesOwn ==
    \A r \in Runs : pc[r] = "wait" =>
        /\ loopTook.run = r => Own(r, loopTook.outcome, exec[r], streamed[r])
        /\ \A i \in DOMAIN resultCh[r] : Own(r, resultCh[r][i], exec[r], streamed[r])

ReturnedOwn == \A r \in Runs : Own(r, returned[r], exec[r], streamed[r])

\* Why ResultIsOwn and SlotTracksCommand hold of Client.Run: the conjunction
\* is preserved by every step of the host, the helper and the commands.
RunInv ==
    /\ CommandOrder
    /\ FrameOrder
    /\ PipeOrder
    /\ SessionOrder
    /\ WaitingRunIsAlone
    /\ FramesCollected
    /\ OutcomesOwn
    /\ ReturnedOwn
    /\ SlotTracksCommand

-----------------------------------------------------------------------------
\* The commands whose result was sent after all the output of their pty.
WholeRuns ==
    {r \in Runs : exec[r] \in {"sent", "done"} /\ (r \in Terminal => streamed[r] = wrote[r])}

\* Every outcome that is on its way to a Run, or was returned by one, is in S.
OutcomesIn(S) ==
    /\ loopTook.run # NoRun => loopTook.outcome \in S
    /\ \A r \in Runs : \A i \in DOMAIN resultCh[r] : resultCh[r][i] \in S
    /\ \A r \in Runs : returned[r] \in S \cup {NoOutcome}

\* Outcomes that are not empty, and are results only of the commands in W.
OutcomesOf(W) == {o \in Outcome : o.kind # "none" /\ (o.kind = "result" => o.of \in W)}

\* Why PtyOutputComplete holds: what a pty's command wrote and StreamOutput has
\* not sent is in the pty, its result is sent when the pty is empty, and every
\* outcome is made from a result that was sent.
PtyInv ==
    /\ HelperCanSend => \A r \in Terminal : wrote[r] = streamed[r] + Len(pipe[r])
    /\ \A r \in Runs : Has(toHost, "ExecResult", r) => r \in WholeRuns
    /\ OutcomesIn(OutcomesOf(WholeRuns))

\* The inputs of r that wait in q, when r's pump is in state p and has read n
\* chunks: they are numbered without a gap, up to the last one that was sent, and
\* go on where in ends, if in is what the current command has got.
InputsFollow(r, q, p, n, isCurrent, in) ==
    \E lo, hi \in 0 .. EOFInput :
        /\ Numbered(q, "ExecInput", r, lo, hi)
        /\ p # "done" => hi = n
        /\ isCurrent /\ in # <<>> => lo \in {in[Len(in)], EOFInput}

\* Why StdinIsContiguous holds: a command is current once, from its start to its
\* cleanup, and the bridge keeps the order of the pump.
InputInv ==
    \A r \in Runs :
        /\ pc[r] \in {"idle", "send"} => pump[r] = "off"
        /\ exec[r] \in {"none", "queued"} => stdin[r] = <<>>
        /\ currentExec = r => exec[r] \in {"running", "exited", "waited", "sent"}
        /\ InputsFollow(r, toHelper, pump[r], pumped[r], currentExec = r, stdin[r])
=============================================================================
