-------------------------- MODULE SandboxLifecycle --------------------------
(***************************************************************************)
(* Creating and closing sandboxes: NewSandbox (sandbox.go) with the Linux  *)
(* and the Darwin runtime (sandbox_linux.go, sandbox_darwin_runtime.go),   *)
(* the registry, Sandbox.Close, ProxyManager.Close and the runtime binary  *)
(* the manager owns.  Calls of NewSandbox run concurrently, may ask for    *)
(* the same name, and may fail at every step.                              *)
(***************************************************************************)
EXTENDS Naturals

CONSTANTS
    Calls,            \* calls of NewSandbox
    Names             \* SandboxOptions.Name: 0 for none, n for sandbox-n

VARIABLES platform,   \* sandboxPlatform
          calls,      \* calls[c]: progress, name, resources held, Close
          registry,   \* name -> owner, attached
          nextID,     \* nextSandboxID
          binary,     \* the runtime binary: "none", "built", "failed", "removed"
          manager     \* ProxyManager.Close: phase and the sandboxes it saw

vars == <<platform, calls, registry, nextID, binary, manager>>

\* The steps of NewSandbox in the order of the code.
FirstStep(docker) == IF docker THEN "docker" ELSE "binary"

NextStep(step) ==
  CASE step = "docker" -> "binary"
    [] step = "binary" -> IF platform = "linux" THEN "stage" ELSE "bridge"
    [] step = "stage" -> "bridge"
    [] step = "bridge" -> "log"
    [] step = "log" -> IF platform = "linux" THEN "seccomp" ELSE "start"
    [] step = "seccomp" -> "command"
    [] step = "command" -> "start"
    [] step = "start" -> "handshake"
    [] step = "handshake" -> "register"
    [] step = "register" -> "attach"

\* What a step that succeeds leaves for somebody to release.
Acquires(step) ==
  CASE step = "docker" -> {"docker"}
    [] step = "stage" -> {"root"}
    [] step = "bridge" -> {"parent", "child"}
    [] step = "log" -> {"log"}
    [] step = "start" -> {"process"}
    [] OTHER -> {}

\* What the error return of a step releases: the calls written out on that
\* path, and NewSandbox closing the Docker proxy.
Undo(step) ==
  {"docker"} \cup
  CASE step \in {"docker", "binary", "stage"} -> {}
    [] step = "bridge" -> {"root"}
    [] step = "log" -> {"child", "parent", "root"}
    [] step \in {"seccomp", "command", "start"} -> {"log", "child", "parent", "root"}
    [] step = "handshake" -> {"parent", "process", "log", "root"}

Init ==
  /\ platform \in {"linux", "darwin"}
  /\ calls = [c \in Calls |-> [at |-> "none", state |-> "idle", name |-> 0, docker |-> FALSE,
                               held |-> {}, registered |-> FALSE, close |-> "open"]]
  /\ registry = [n \in {} |-> [owner |-> 0, attached |-> FALSE]]
  /\ nextID = 0
  /\ binary = "none"
  /\ manager = [phase |-> "open", todo |-> {}, seen |-> {}]

\* A sandbox without a name gets the next of sandbox-1, sandbox-2, ...
\* Options that do not validate end the call at once and are left out.
Begin(c) ==
  /\ calls[c].state = "idle"
  /\ \E name \in Names, docker \in BOOLEAN :
        /\ docker => platform = "linux"
        /\ nextID' = IF name = 0 THEN nextID + 1 ELSE nextID
        /\ calls' = [calls EXCEPT ![c].state = "creating", ![c].at = FirstStep(docker), ![c].docker = docker,
                                  ![c].name = IF name = 0 THEN nextID' ELSE name]
  /\ UNCHANGED <<platform, registry, binary, manager>>

Creating(c, steps) == calls[c].state = "creating" /\ calls[c].at \in steps

Advance(c) ==
  calls' = [calls EXCEPT ![c].at = NextStep(@),
              ![c].held = (@ \cup Acquires(calls[c].at)) \ (IF calls[c].at = "start" THEN {"child"} ELSE {})]

Fail(c) == calls' = [calls EXCEPT ![c].state = "failed", ![c].held = @ \ Undo(calls[c].at)]

\* RuntimeBinary: built once; a failure is remembered, and so is the path of
\* a binary Close has removed since.
RuntimeBinary(c) ==
  /\ Creating(c, {"binary"})
  /\ \/ /\ binary = "none"
        /\ binary' \in {"built", "failed"}
        /\ IF binary' = "built" THEN Advance(c) ELSE Fail(c)
     \/ /\ binary # "none"
        /\ IF binary = "failed" THEN Fail(c) ELSE Advance(c)
        /\ UNCHANGED binary
  /\ UNCHANGED <<platform, registry, nextID, manager>>

\* Any other step up to the handshake.  Staging copies the binary, and the
\* Darwin runtime starts it where it is.
Succeed(c) ==
  /\ Creating(c, {"docker", "stage", "bridge", "log", "seccomp", "command", "start", "handshake"})
  /\ calls[c].at = (IF platform = "linux" THEN "stage" ELSE "start") => binary = "built"
  /\ Advance(c)
  /\ UNCHANGED <<platform, registry, nextID, binary, manager>>

StepFails(c) ==
  /\ Creating(c, {"docker", "stage", "bridge", "log", "seccomp", "command", "start", "handshake"})
  /\ Fail(c)
  /\ UNCHANGED <<platform, registry, nextID, binary, manager>>

\* sandboxRegistry.Register, for a name that is free.
Extended(c) ==
  [n \in DOMAIN registry \cup {calls[c].name} |->
     IF n = calls[c].name THEN [owner |-> c, attached |-> FALSE] ELSE registry[n]]

\* Mutant: the sandbox counts as registered before it is.
registerSandboxMarksFirst(c) ==
  /\ Creating(c, {"register"})
  /\ LET free == calls[c].name \notin DOMAIN registry
     IN /\ registry' = IF free THEN Extended(c) ELSE registry
        /\ calls' = [calls EXCEPT ![c].at = NextStep(@), ![c].registered = TRUE,
                       ![c].state = IF free THEN "creating" ELSE "failing",
                       ![c].close = IF free THEN "open" ELSE "runtime"]
  /\ UNCHANGED <<platform, nextID, binary, manager>>

\* A name that is taken: the new sandbox is closed, and was never registered.
registerSandbox(c) ==
  /\ Creating(c, {"register"})
  /\ LET free == calls[c].name \notin DOMAIN registry
     IN /\ registry' = IF free THEN Extended(c) ELSE registry
        /\ calls' = [calls EXCEPT ![c].at = NextStep(@), ![c].registered = free,
                       ![c].state = IF free THEN "creating" ELSE "failing",
                       ![c].close = IF free THEN "open" ELSE "runtime"]
  /\ UNCHANGED <<platform, nextID, binary, manager>>

attachSandbox(c) ==
  /\ Creating(c, {"attach"})
  /\ registry' = [registry EXCEPT ![calls[c].name] = [owner |-> c, attached |-> TRUE]]
  /\ calls' = [calls EXCEPT ![c].state = "ready"]
  /\ UNCHANGED <<platform, nextID, binary, manager>>

----------------------------------------------------------------------------
(* Sandbox.Close, which runs once: a second caller waits for the first.    *)
Close(c) ==
  /\ calls[c].state = "ready"
  /\ calls[c].close = "open"
  /\ calls' = [calls EXCEPT ![c].close = "runtime"]
  /\ UNCHANGED <<platform, registry, nextID, binary, manager>>

CloseRuntime(c) ==
  /\ calls[c].close = "runtime"
  /\ calls' = [calls EXCEPT ![c].close = "unregister", ![c].held = @ \ {"parent", "process", "log", "docker"}]
  /\ UNCHANGED <<platform, registry, nextID, binary, manager>>

unregisterSandbox(c) ==
  /\ calls[c].close = "unregister"
  /\ registry' = IF calls[c].registered
                 THEN [n \in DOMAIN registry \ {calls[c].name} |-> registry[n]] ELSE registry
  /\ calls' = [calls EXCEPT ![c].close = "root", ![c].registered = FALSE]
  /\ UNCHANGED <<platform, nextID, binary, manager>>

removeAllForceWritable(c) ==
  /\ calls[c].close = "root"
  /\ calls' = [calls EXCEPT ![c].close = "closed", ![c].held = @ \ {"root"},
                            ![c].state = IF @ = "failing" THEN "failed" ELSE @]
  /\ UNCHANGED <<platform, registry, nextID, binary, manager>>

Attached == {registry[n].owner : n \in {m \in DOMAIN registry : registry[m].attached}}

\* ProxyManager.Close: the sandboxes that are attached now, one by one, then
\* the logger, the connections, and the runtime binary.
ManagerClose ==
  /\ manager.phase = "open"
  /\ manager' = [phase |-> "closing", todo |-> Attached,
                 seen |-> {registry[n].owner : n \in DOMAIN registry}]
  /\ UNCHANGED <<platform, calls, registry, nextID, binary>>

\* It starts the Close of the next sandbox.
ManagerCloses(c) ==
  /\ manager.phase = "closing"
  /\ c \in manager.todo
  /\ Close(c)

\* The Close it waits for has ended.
ManagerMovesOn(c) ==
  /\ manager.phase = "closing"
  /\ c \in manager.todo
  /\ calls[c].close = "closed"
  /\ manager' = [manager EXCEPT !.todo = @ \ {c}]
  /\ UNCHANGED <<platform, calls, registry, nextID, binary>>

Cleanup ==
  /\ manager.phase = "closing"
  /\ manager.todo = {}
  /\ manager' = [manager EXCEPT !.phase = "closed"]
  /\ binary' = IF binary = "built" THEN "removed" ELSE binary
  /\ UNCHANGED <<platform, calls, registry, nextID>>

Create(c) ==
  Begin(c) \/ RuntimeBinary(c) \/ Succeed(c) \/ StepFails(c) \/ registerSandbox(c) \/ attachSandbox(c)

Closing(c) ==
  CloseRuntime(c) \/ unregisterSandbox(c) \/ removeAllForceWritable(c)
    \/ ManagerCloses(c) \/ ManagerMovesOn(c)

Next == (\E c \in Calls : Create(c) \/ Close(c) \/ Closing(c)) \/ ManagerClose \/ Cleanup

Spec == Init /\ [][Next]_vars

\* A goroutine that is closing something goes on.
Fairness == (\A c \in Calls : WF_vars(Closing(c))) /\ WF_vars(Cleanup)

FairSpec == Spec /\ Fairness

----------------------------------------------------------------------------
(* A call that failed, at whatever step, and a sandbox that is closed hold  *)
(* nothing: no staged root, socket, log, process or Docker proxy is left.   *)
NoLeak ==
  \A c \in Calls : calls[c].state = "failed" \/ calls[c].close = "closed" => calls[c].held = {}

(* A sandbox that NewSandbox returned and nobody closes is in the registry  *)
(* under its name, whatever other calls with that name do or undo, and so   *)
(* is one that is about to be attached: attachSandbox always finds it.  A   *)
(* name that is in the registry belongs to a call that has not ended.       *)
RegistryIsTrue ==
  /\ \A c \in Calls :
       \/ calls[c].state = "creating" /\ calls[c].at = "attach"
       \/ calls[c].state = "ready" /\ calls[c].close = "open"
       => /\ calls[c].name \in DOMAIN registry
          /\ registry[calls[c].name] = [owner |-> c, attached |-> calls[c].state = "ready"]
  /\ \A n \in DOMAIN registry : calls[registry[n].owner].close \in {"open", "runtime", "unregister"}

(* ProxyManager.Close ends, although sandboxes are created and closed by    *)
(* others meanwhile.                                                        *)
ManagerCloseEnds == manager.phase = "closing" ~> manager.phase = "closed"

=============================================================================
