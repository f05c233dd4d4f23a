----------------------------- MODULE HelperExit -----------------------------
(***************************************************************************)
(* Close of a sandbox runtime (sandbox_linux.go, sandbox_darwin_runtime.go):*)
(* it closes the bridge and waits for the helper, asks it to end with      *)
(* SIGTERM and waits again, kills it and waits a last time.  A goroutine   *)
(* puts what cmd.Wait returns into a channel of one place; each of the     *)
(* waits takes it, a timeout ends it, and on Linux a look into /proc every *)
(* 100 ms ends it too.                                                     *)
(***************************************************************************)
EXTENDS Integers, Sequences

VARIABLES platform, helper, bridge, asked, done, posted, pc, waitErr, result

vars == <<platform, helper, bridge, asked, done, posted, pc, waitErr, result>>

\* helper: "running", or how it ended: by itself ("ok", "failed"), by SIGTERM
\* or SIGKILL.  asked: the signals Close has sent.
Init ==
  /\ platform \in {"linux", "darwin"}
  /\ helper = "running"
  /\ bridge = "open"
  /\ asked = {}
  /\ done = <<>>
  /\ posted = FALSE
  /\ pc = "serving"
  /\ waitErr = "nil"
  /\ result = "none"

----------------------------------------------------------------------------
(* The helper: it may end on its own at any time, should end when the      *)
(* bridge closes or at SIGTERM but may not, and cannot refuse SIGKILL.     *)
Ends(status) ==
  /\ helper = "running"
  /\ helper' = status
  /\ UNCHANGED <<platform, bridge, asked, done, posted, pc, waitErr, result>>

Crashes == Ends("failed")

Stops == bridge = "closed" /\ Ends("ok")

Terminated == "term" \in asked /\ Ends("term")

Killed == "kill" \in asked /\ Ends("kill")

\* cmd.Wait returns and its result goes into the channel.
PostExit ==
  /\ helper # "running"
  /\ ~ posted
  /\ posted' = TRUE
  /\ done' = <<helper>>
  /\ UNCHANGED <<platform, helper, bridge, asked, pc, waitErr, result>>

----------------------------------------------------------------------------
(* Close.                                                                  *)
CloseBridge ==
  /\ pc = "serving"
  /\ pc' = "wait1"
  /\ bridge' = "closed"
  /\ UNCHANGED <<platform, helper, asked, done, posted, waitErr, result>>

Waiting == pc \in {"wait1", "wait2", "wait3"}

\* Mutant: a helper that does not end is as good as one that was killed.
normalizeHelperExitTimeout(err) == IF err \in {"nil", "term", "kill", "timeout"} THEN "nil" ELSE err

normalizeHelperExit(err) == IF err \in {"nil", "term", "kill"} THEN "nil" ELSE err

\* What a wait returned: an error goes on to the next signal.
After(err) ==
  /\ waitErr' = err
  /\ IF err = "nil" \/ pc = "wait3"
     THEN pc' = "returned" /\ result' = normalizeHelperExit(err) /\ UNCHANGED asked
     ELSE /\ pc' = (IF pc = "wait1" THEN "wait2" ELSE "wait3")
          /\ asked' = asked \cup {IF pc = "wait1" THEN "term" ELSE "kill"}
          /\ UNCHANGED result

Receive ==
  /\ Waiting
  /\ done # <<>>
  /\ done' = Tail(done)
  /\ After(IF Head(done) = "ok" THEN "nil" ELSE Head(done))
  /\ UNCHANGED <<platform, helper, bridge, posted>>

Timeout ==
  /\ Waiting
  /\ After("timeout")
  /\ UNCHANGED <<platform, helper, bridge, done, posted>>

\* The ticker of waitWithTimeout: a zombie or a missing process has ended.
processExited ==
  /\ Waiting
  /\ platform = "linux"
  /\ helper # "running"
  /\ After("nil")
  /\ UNCHANGED <<platform, helper, bridge, done, posted>>

Next ==
  \/ Crashes \/ Stops \/ Terminated \/ Killed \/ PostExit
  \/ CloseBridge \/ Receive \/ Timeout \/ processExited

\* Timers fire; nothing is assumed of the helper.
Fairness == WF_vars(Receive \/ Timeout \/ processExited)

Spec == Init /\ [][Next]_vars /\ Fairness

----------------------------------------------------------------------------
(* Close returns without an error only when the helper has ended: a timeout *)
(* of every wait is reported.                                               *)
NilMeansGone == pc = "returned" /\ result = "nil" => helper # "running"

(* A helper that ended the way Close asked it to, by itself when the bridge *)
(* closed or by one of the two signals, makes Close fail only where a wait  *)
(* ran into its timer, never by how it ended: on either platform, and       *)
(* whichever of the three waits took the exit status.                       *)
StoppedIsNoError ==
  pc = "returned" /\ helper \in {"ok", "term", "kill"} => result \in {"nil", "timeout"}

(* Close returns whatever the helper does.                                  *)
CloseEnds == pc = "wait1" ~> pc = "returned"
=============================================================================
