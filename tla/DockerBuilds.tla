----------------------------- MODULE DockerBuilds ----------------------------
(***************************************************************************)
(* The `docker build' commands of one sandbox (RunCLI, PlanForArgs and     *)
(* buildkitExecutor of internal/dockerbuild).  Each is a process; all use  *)
(* one archive as their output, one socket and one buildkitd, which the    *)
(* first of them starts.  Nothing keeps two from running at once.          *)
(***************************************************************************)
EXTENDS Integers, FiniteSets

CONSTANTS Builds,    \* the commands
          MaxCrash   \* bound on crashes of buildkitd

VARIABLES pc, staged, ok, path, content, handle, holder, sock,
          crashes, alone, overlapped

vars == <<pc, staged, ok, path, content, handle, holder, sock, crashes, alone, overlapped>>
output == <<path, content, handle>>
daemon == <<holder, sock, crashes>>
ghost == <<alone, overlapped>>

\* Marks a file that is not yet complete.
Partial == 0

Active(b) == pc[b] \notin {"idle", "done"}

\* A file is named after the build that created it; 0 is no file.
Init ==
  /\ pc = [b \in Builds |-> "idle"] /\ staged = [b \in Builds |-> FALSE] /\ ok = [b \in Builds |-> "running"]
  /\ path = 0 /\ content = [b \in Builds |-> {}] /\ handle = [b \in Builds |-> 0]
  /\ holder = "none" /\ sock = "none" /\ crashes = 0
  /\ alone = [b \in Builds |-> TRUE] /\ overlapped = FALSE

Go(b, to) == pc' = [pc EXCEPT ![b] = to]
Fails(b, why) == ok' = [ok EXCEPT ![b] = why]

Start(b) ==
  /\ pc[b] = "idle"
  /\ Go(b, "plan")
  /\ LET others == {c \in Builds \ {b} : Active(c)} IN
       /\ overlapped' = (overlapped \/ others # {})
       /\ alone' = [c \in Builds |-> IF c = b THEN others = {} ELSE alone[c] /\ pc[c] = "idle"]
  /\ UNCHANGED <<staged, ok, output, daemon>>

----------------------------------------------------------------------------

\* PlanForArgs: the arguments, then the inputs, staged in a directory of
\* their own when the Dockerfile is rewritten (see DockerRewrite); an error
\* after that removes it, and then there are no paths to clean up.
PlanForArgs(b) ==
  /\ pc[b] = "plan"
  /\ \/ staged' = [staged EXCEPT ![b] = TRUE] /\ Go(b, "clear") /\ UNCHANGED ok
     \/ Go(b, "clear") /\ UNCHANGED <<staged, ok>>
     \/ Go(b, "done") /\ Fails(b, "plan") /\ UNCHANGED staged
  /\ UNCHANGED <<output, daemon, ghost>>

\* Run: os.Remove of the output.
Clear(b) ==
  /\ pc[b] = "clear"
  /\ path' = 0
  /\ Go(b, "check")
  /\ UNCHANGED <<staged, ok, content, handle, daemon, ghost>>

\* ensureBuildkitd: is there someone at the socket?
Ready(b) ==
  /\ pc[b] = "check"
  /\ Go(b, IF sock = "live" THEN "buildctl" ELSE "unlink")
  /\ UNCHANGED <<staged, ok, output, daemon, ghost>>

\* Mutant: the old socket stays.
UnlinkNot(b) ==
  /\ pc[b] = "unlink"
  /\ Go(b, "start")
  /\ UNCHANGED <<staged, ok, output, holder, sock, crashes, ghost>>

Unlink(b) ==
  /\ pc[b] = "unlink"
  /\ sock' = "none"
  /\ Go(b, "start")
  /\ UNCHANGED <<staged, ok, output, holder, crashes, ghost>>

\* A second buildkitd finds its root taken and exits; the command does not
\* notice and waits for the socket.
StartBuildkitd(b) ==
  /\ pc[b] = "start"
  /\ \/ holder' = (IF holder = "none" THEN "starting" ELSE holder) /\ Go(b, "wait") /\ UNCHANGED ok
     \/ Go(b, "cleanup") /\ Fails(b, "start") /\ UNCHANGED holder
  /\ UNCHANGED <<staged, output, sock, crashes, ghost>>

\* Mutant: no deadline.
WaitReadyForever(b) ==
  /\ pc[b] = "wait" /\ sock = "live"
  /\ Go(b, "buildctl")
  /\ UNCHANGED <<staged, ok, output, daemon, ghost>>

\* 30 seconds are enough for a buildkitd that is starting.
WaitReady(b) ==
  /\ pc[b] = "wait" /\ holder # "starting"
  /\ \/ sock = "live" /\ Go(b, "buildctl") /\ UNCHANGED ok
     \/ sock # "live" /\ Go(b, "cleanup") /\ Fails(b, "timeout")
  /\ UNCHANGED <<staged, output, daemon, ghost>>

----------------------------------------------------------------------------
\* buildctl creates or truncates the output, and writes the image to it.
BuildctlCreates(b) ==
  /\ pc[b] = "buildctl"
  /\ \/ /\ path' = (IF path = 0 THEN b ELSE path) /\ handle' = [handle EXCEPT ![b] = path']
        /\ content' = [content EXCEPT ![path'] = {Partial}]
        /\ Go(b, "writing")
     \/ Go(b, "undo") /\ UNCHANGED <<path, handle, content>>
  /\ UNCHANGED <<staged, ok, daemon, ghost>>

BuildctlEnds(b) ==
  /\ pc[b] = "writing"
  /\ \/ sock = "live" /\ content' = [content EXCEPT ![handle[b]] = (@ \ {Partial}) \cup {b}] /\ Go(b, "report")
     \/ Go(b, "undo") /\ UNCHANGED content
  /\ UNCHANGED <<staged, ok, path, handle, daemon, ghost>>

Undo(b) ==
  /\ pc[b] = "undo"
  /\ path' = 0
  /\ Go(b, "cleanup") /\ Fails(b, "build")
  /\ UNCHANGED <<staged, content, handle, daemon, ghost>>

Report(b) ==
  /\ pc[b] = "report"
  /\ ok' = [ok EXCEPT ![b] = "reported"]
  /\ Go(b, "cleanup")
  /\ UNCHANGED <<staged, output, daemon, ghost>>

\* RunCLI: the deferred clean-up, whatever Run returned.
cleanupPaths(b) ==
  /\ pc[b] = "cleanup"
  /\ staged' = [staged EXCEPT ![b] = FALSE]
  /\ Go(b, "done")
  /\ UNCHANGED <<ok, output, daemon, ghost>>

----------------------------------------------------------------------------
\* buildkitd takes the socket's name when nothing has it.
Listen ==
  /\ holder = "starting"
  /\ IF sock = "none" THEN sock' = "live" /\ holder' = "serving" ELSE holder' = "none" /\ UNCHANGED sock
  /\ UNCHANGED <<pc, staged, ok, output, crashes, ghost>>

Crash ==
  /\ holder # "none" /\ crashes < MaxCrash
  /\ crashes' = crashes + 1 /\ holder' = "none"
  /\ sock' = (IF sock = "live" THEN "stale" ELSE sock)
  /\ UNCHANGED <<pc, staged, ok, output, ghost>>

----------------------------------------------------------------------------
Run(b) == PlanForArgs(b) \/ Clear(b) \/ Ready(b) \/ Unlink(b) \/ StartBuildkitd(b) \/ WaitReady(b)
          \/ BuildctlCreates(b) \/ BuildctlEnds(b) \/ Undo(b) \/ Report(b) \/ cleanupPaths(b)

Next == Listen \/ Crash \/ \E b \in Builds : Start(b) \/ Run(b)

\* The commands and buildkitd run; buildctl ends because a build does.
Spec == Init /\ [][Next]_vars /\ WF_vars(Listen) /\ \A b \in Builds : WF_vars(Run(b))

----------------------------------------------------------------------------
\* The inputs are in place while buildctl runs and gone when the command
\* ends, on every path (prepareBuildInputs, RunCLI).
NothingLeftStaged == \A b \in Builds : pc[b] = "done" => ~ staged[b]

\* A build that no other overlapped or followed has left its own, complete
\* archive under the name it reported (buildkitExecutor.Run).
ReportedIsOwn == \A b \in Builds : (ok[b] = "reported" /\ alone[b]) => path # 0 /\ content[path] = {b}

\* One that failed once it had begun has left none: neither part of its own
\* nor the archive of an earlier build.
FailedLeavesNone ==
  \A b \in Builds : (pc[b] = "done" /\ alone[b] /\ ok[b] \in {"start", "timeout", "build"}) => path = 0

\* Commands that run one after the other never wait in vain: a socket left
\* by a buildkitd that crashed is replaced (ensureBuildkitd).
OneByOneIsServed == ~ overlapped => Cardinality({b \in Builds : ok[b] = "timeout"}) <= crashes

\* While commands run one after the other, a buildkitd that serves can be
\* reached at the socket.
ServingIsReachable == (~ overlapped /\ holder = "serving") => sock = "live"

\* Every command ends, also when another has taken the socket away.
CommandsEnd == \A b \in Builds : pc[b] = "plan" ~> pc[b] = "done"

============================================================================
