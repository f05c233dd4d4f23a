------------------------------ MODULE RunService ------------------------------
(***************************************************************************)
(* What Sandbox.Run promises its callers: every call returns once, with an  *)
(* error or with the result of its own command; commands run one at a time, *)
(* and the result of a command exists only once the command has ended.  The *)
(* bridge, the goroutines and the crashes behind it are not visible here.   *)
(***************************************************************************)
CONSTANT Runs

VARIABLES
    call,             \* a call of Run: "idle", "called", "result", "error"
    command           \* its command: "none", "running", "ended"

serviceVars == <<call, command>>

ServiceInit ==
    /\ call = [r \in Runs |-> "idle"]
    /\ command = [r \in Runs |-> "none"]

Call(r) ==
    /\ call[r] = "idle"
    /\ call' = [call EXCEPT ![r] = "called"]
    /\ UNCHANGED command

\* The call is refused, or gives up: its command may be running or yet to run.
Fail(r) ==
    /\ call[r] \in {"idle", "called"}
    /\ call' = [call EXCEPT ![r] = "error"]
    /\ UNCHANGED command

\* The call returns the result of its command.
Succeed(r) ==
    /\ call[r] = "called"
    /\ command[r] = "ended"
    /\ call' = [call EXCEPT ![r] = "result"]
    /\ UNCHANGED command

Begin(r) ==
    /\ call[r] # "idle"
    /\ command[r] = "none"
    /\ \A q \in Runs : command[q] # "running"
    /\ command' = [command EXCEPT ![r] = "running"]
    /\ UNCHANGED call

\* The command ends, or could not be started.
End(r) ==
    /\ call[r] # "idle"
    /\ command[r] # "ended"
    /\ \A q \in Runs \ {r} : command[q] # "running"
    /\ command' = [command EXCEPT ![r] = "ended"]
    /\ UNCHANGED call

ServiceNext ==
    \E r \in Runs : Call(r) \/ Fail(r) \/ Succeed(r) \/ Begin(r) \/ End(r)

ServiceSpec == ServiceInit /\ [][ServiceNext]_serviceVars
=============================================================================
