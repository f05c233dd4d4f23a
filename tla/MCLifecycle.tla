---------------------------- MODULE MCLifecycle ----------------------------
(***************************************************************************)
(* Model-checking instances of what is set up and torn down around a run. A *)
(* behaviour explores one part: calls of NewSandbox and of Close            *)
(* ("sandbox"), the end of a helper process ("helper") or the seccomp       *)
(* supervisor ("notify").  The others stay as Init leaves them, where no    *)
(* fair action is enabled.                                                  *)
(***************************************************************************)
EXTENDS NotifyQueue

CONSTANTS Calls, Names

ASSUME LifecycleAssumption == Names \subseteq Nat /\ MaxNotifs \in Nat

VARIABLES
    part,
    platform, calls, registry, nextID, binary, manager,
    helper, bridge, asked, done, posted, pc, waitErr, result

sandboxVars == <<calls, registry, nextID, binary, manager>>
helperVars == <<helper, bridge, asked, done, posted, pc, waitErr, result>>
lifecycleVars == <<part, platform, sandboxVars, helperVars, vars>>

Sandbox == INSTANCE SandboxLifecycle

Helper == INSTANCE HelperExit

LifecycleInit ==
    /\ part \in {"sandbox", "helper", "notify"}
    /\ Sandbox!Init /\ Helper!Init /\ Init
    /\ part = "notify" => platform = "linux"

LifecycleNext ==
    \/ part = "sandbox" /\ Sandbox!Next /\ UNCHANGED <<part, helperVars, vars>>
    \/ part = "helper" /\ Helper!Next /\ UNCHANGED <<part, sandboxVars, vars>>
    \/ part = "notify" /\ Next /\ UNCHANGED <<part, platform, sandboxVars, helperVars>>

LifecycleSpec == LifecycleInit /\ [][LifecycleNext]_lifecycleVars

FairLifecycleSpec == LifecycleSpec /\ Sandbox!Fairness /\ Helper!Fairness /\ Fairness

-----------------------------------------------------------------------------
\* A failed call and a closed sandbox hold nothing, and the registry holds
\* exactly the sandboxes that are there: SandboxLifecycle.
NothingIsLeft == Sandbox!NoLeak /\ Sandbox!RegistryIsTrue

\* Close of the runtime returns nil only when the helper has ended, and a helper
\* that ended as Close asked it to is no error: HelperExit.
CloseTellsTruth == Helper!NilMeansGone /\ Helper!StoppedIsNoError

\* Whoever waits is served: Close of the manager, of a runtime and of the
\* supervisor return, and a stuck handler holds up its own thread only:
\* SandboxLifecycle, HelperExit, NotifyQueue.
EveryWaitEnds ==
    /\ Sandbox!ManagerCloseEnds
    /\ Helper!CloseEnds
    /\ CloseReturns
    /\ ThreadsAreIndependent
=============================================================================
