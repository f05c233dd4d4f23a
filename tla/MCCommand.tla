------------------------------ MODULE MCCommand ------------------------------
(***************************************************************************)
(* Model-checking instances of the command line, the staged root and docker *)
(* builds.  A behaviour explores one of the Parts: the configuration of the *)
(* command ("config"), PATH and the environment ("path"), a command from    *)
(* start to exit ("run", "resize"), the mounts of a sandbox ("mounts"), the *)
(* rewriting of a Dockerfile ("rewrite"), overlapping builds ("builds")     *)
(* and the staging of files ("staging").  The variables of the others are   *)
(* "off".                                                                   *)
(***************************************************************************)
EXTENDS Naturals

CONSTANT Parts

VARIABLES
    part,
    tree, flags, cwd, platform, phase, current, file, result, earlier, added,
    pathHost, pathRequest, pathPhase, pathEnv, pathMounts, binary, runEnv, command,
    pc, interactive, interrupted, err, code, payload, term, cleaned, manager, sandbox, received,
    shown, request, before, summary, entries, printed, window, sigCh, watcher, got, resizeCh,
    forwarder, size, dropped,
    mounts, builder, cgroup, socket, mountPhase, args, table,
    dockerfile, env, bundle, rewritePhase, rewriteStaged, out, image, rewriteSeen,
    buildPc, buildStaged, ok, path, content, handle, holder, sock, crashes, alone, overlapped,
    host, wanted, stagePhase, requests, stack, seen, files, staged, copies

configVars == <<tree, flags, cwd, platform, phase, current, file, result, earlier, added>>
pathVars == <<pathHost, pathRequest, pathPhase, pathEnv, pathMounts, binary, runEnv, command>>
runVars == <<pc, interactive, interrupted, err, code, payload, term, cleaned, manager, sandbox,
              received, shown, request, before, summary, entries, printed, window, sigCh, watcher,
              got, resizeCh, forwarder, size, dropped>>
mountVars == <<mounts, builder, cgroup, socket, mountPhase, args, table>>
rewriteVars == <<dockerfile, env, bundle, rewritePhase, rewriteStaged, out, image, rewriteSeen>>
buildVars == <<buildPc, buildStaged, ok, path, content, handle, holder, sock, crashes, alone,
                overlapped>>
stageVars == <<host, wanted, stagePhase, requests, stack, seen, files, staged, copies>>
vars == <<part, configVars, pathVars, runVars, mountVars, rewriteVars, buildVars, stageVars>>

Config == INSTANCE CLIConfig WITH Platforms <- {"linux", "darwin"}

Path == INSTANCE CLIPath WITH
    host <- pathHost, request <- pathRequest, phase <- pathPhase, env <- pathEnv, mounts <- pathMounts,
    PathDirs <- {"usr", "home", "opt", "cur"}

Run == INSTANCE CLIRun WITH
    Requests <- {"r1", "r2"}, MaxOutput <- 2, MaxResize <- 1, WriteErrors <- TRUE

Resize == INSTANCE CLIRun WITH
    Requests <- {}, MaxOutput <- 0, MaxResize <- 3, WriteErrors <- FALSE

Mount == INSTANCE Mounts WITH phase <- mountPhase, MaxMounts <- 2, SocketPlaces <- {"default", "work"}

Rewrite == INSTANCE DockerRewrite WITH
    phase <- rewritePhase, staged <- rewriteStaged, seen <- rewriteSeen, MaxLength <- 3

Build == INSTANCE DockerBuilds WITH pc <- buildPc, staged <- buildStaged, Builds <- 1 .. 2, MaxCrash <- 2

Stage == INSTANCE Staging WITH phase <- stagePhase, Spellings <- {"/lib/x"}

ConfigOff == /\ tree = "off" /\ flags = "off" /\ cwd = "off" /\ platform = "off" /\ phase = "off"
             /\ current = "off" /\ file = "off" /\ result = "off" /\ earlier = "off"
             /\ added = "off"
PathOff == /\ pathHost = "off" /\ pathRequest = "off" /\ pathPhase = "off" /\ pathEnv = "off"
           /\ pathMounts = "off" /\ binary = "off" /\ runEnv = "off" /\ command = "off"
RunOff == /\ pc = "off" /\ interactive = "off" /\ interrupted = "off" /\ err = "off" /\ code = "off"
          /\ payload = "off" /\ term = "off" /\ cleaned = "off" /\ manager = "off"
          /\ sandbox = "off" /\ received = "off" /\ shown = "off" /\ request = "off"
          /\ before = "off" /\ summary = "off" /\ entries = "off" /\ printed = "off"
          /\ window = "off" /\ sigCh = "off" /\ watcher = "off" /\ got = "off" /\ resizeCh = "off"
          /\ forwarder = "off" /\ size = "off" /\ dropped = "off"
MountOff == /\ mounts = "off" /\ builder = "off" /\ cgroup = "off" /\ socket = "off"
            /\ mountPhase = "off" /\ args = "off" /\ table = "off"
RewriteOff == /\ dockerfile = "off" /\ env = "off" /\ bundle = "off" /\ rewritePhase = "off"
              /\ rewriteStaged = "off" /\ out = "off" /\ image = "off" /\ rewriteSeen = "off"
BuildOff == /\ buildPc = "off" /\ buildStaged = "off" /\ ok = "off" /\ path = "off"
            /\ content = "off" /\ handle = "off" /\ holder = "off" /\ sock = "off"
            /\ crashes = "off" /\ alone = "off" /\ overlapped = "off"
StageOff == /\ host = "off" /\ wanted = "off" /\ stagePhase = "off" /\ requests = "off"
            /\ stack = "off" /\ seen = "off" /\ files = "off" /\ staged = "off" /\ copies = "off"

Init ==
    /\ part \in Parts
    /\ IF part = "config" THEN Config!Init ELSE ConfigOff
    /\ IF part = "path" THEN Path!Init ELSE PathOff
    /\ CASE part = "run" -> Run!Init
         [] part = "resize" -> Resize!Init
         [] OTHER -> RunOff
    /\ IF part = "mounts" THEN Mount!Init ELSE MountOff
    /\ IF part = "rewrite" THEN Rewrite!Init ELSE RewriteOff
    /\ IF part = "builds" THEN Build!Init ELSE BuildOff
    /\ IF part = "staging" THEN Stage!Init ELSE StageOff

OthersThanRun == UNCHANGED <<part, configVars, pathVars, mountVars, rewriteVars, buildVars, stageVars>>
OthersThanBuild == UNCHANGED <<part, configVars, pathVars, runVars, mountVars, rewriteVars, stageVars>>
OthersThanStage == UNCHANGED <<part, configVars, pathVars, runVars, mountVars, rewriteVars, buildVars>>

Next ==
    \/ /\ part = "config" /\ Config!Next
       /\ UNCHANGED <<part, pathVars, runVars, mountVars, rewriteVars, buildVars, stageVars>>
    \/ /\ part = "path" /\ Path!Next
       /\ UNCHANGED <<part, configVars, runVars, mountVars, rewriteVars, buildVars, stageVars>>
    \/ part = "run" /\ Run!Next /\ OthersThanRun
    \/ part = "resize" /\ Resize!Next /\ OthersThanRun
    \/ /\ part = "mounts" /\ Mount!Next
       /\ UNCHANGED <<part, configVars, pathVars, runVars, rewriteVars, buildVars, stageVars>>
    \/ /\ part = "rewrite" /\ Rewrite!Next
       /\ UNCHANGED <<part, configVars, pathVars, runVars, mountVars, buildVars, stageVars>>
    \/ part = "builds" /\ Build!Next /\ OthersThanBuild
    \/ part = "staging" /\ Stage!Next /\ OthersThanStage

Spec == Init /\ [][Next]_vars

\* The goroutines of the command, the processes of a build and staging go on.
FairSpec ==
    /\ Spec
    /\ WF_vars(part = "resize" /\ Resize!Main /\ OthersThanRun)
    /\ WF_vars(part = "resize" /\ Resize!TakeSignal /\ OthersThanRun)
    /\ WF_vars(part = "resize" /\ Resize!GetSize /\ OthersThanRun)
    /\ WF_vars(part = "resize" /\ Resize!OfferSize /\ OthersThanRun)
    /\ WF_vars(part = "resize" /\ Resize!Forward /\ OthersThanRun)
    /\ WF_vars(part = "resize" /\ Resize!pumpRunResize /\ OthersThanRun)
    /\ WF_vars(part = "builds" /\ Build!Listen /\ OthersThanBuild)
    /\ \A b \in 1 .. 2 : WF_vars(part = "builds" /\ Build!Run(b) /\ OthersThanBuild)
    /\ WF_vars(part = "staging" /\ Stage!Next /\ OthersThanStage)

-----------------------------------------------------------------------------
\* The layers of the configuration keep their order: a flag decides the setting
\* it names and no other, then comes the nearest bbox.yaml alone, which means the
\* same from every directory below it; a mount accepted as a flag is not refused
\* later: CLIConfig.
LayersInOrder ==
    part = "config" =>
        /\ Config!ChangedFlagsWin /\ Config!FlagsAreLocal
        /\ Config!NearestFileOnly /\ Config!SameFromBelow /\ Config!SpecIsFinal

\* The helper starts the file the command line resolved, in the PATH it was
\* looked up in, among mounts that fit together and with every variable once:
\* CLIPath.
PathIsKept ==
    part = "path" =>
        /\ Path!RunsWhatWasResolved /\ Path!PathAgrees
        /\ Path!MountsFit /\ Path!LastEntryWins

\* However the command ends, its terminal is restored, its sandbox and manager
\* are closed in this order and once, the report has what was recorded before,
\* and a status of 0 is that of a run that went well: CLIRun.
RunEndsClean ==
    part = "run" =>
        /\ Run!TerminalRestored /\ Run!CleansUpOnce /\ Run!ClosedInOrder
        /\ Run!ReportIsComplete /\ Run!ZeroIsEarned

\* The payload gets the last size of the window and never goes back to an older
\* one: CLIRun.
SizesArrive ==
    /\ <>[](part = "resize" => Resize!Settled)
    /\ [][part = "resize" => size' >= size]_vars

\* Options that validate give a sandbox that starts, in which every mount of the
\* options is there and what the helper relies on is as staged: Mounts.
MountsAreSound ==
    part = "mounts" => Mount!Starts /\ Mount!DeclaredIsVisible /\ Mount!ReservedIsIntact

\* Every RUN of a rewritten Dockerfile finds the certificates and, unless the
\* Dockerfile replaced them, the settings for Java; the Dockerfile's own options
\* are kept, Java bypasses the proxy only where NO_PROXY says so, and nothing is
\* staged for nothing: DockerRewrite.
EveryRunIsServed ==
    part = "rewrite" =>
        /\ Rewrite!TrustAtEveryRun /\ Rewrite!JavaUnlessReplaced /\ Rewrite!UserOptionsKept
        /\ Rewrite!NeverWidens /\ Rewrite!PreviewDecides

\* Build commands that run one after the other find a buildkitd, each leaves its
\* own archive or none, and no command leaves its inputs behind: DockerBuilds.
BuildsAreServed ==
    part = "builds" =>
        /\ Build!OneByOneIsServed /\ Build!ServingIsReachable
        /\ Build!ReportedIsOwn /\ Build!FailedLeavesNone /\ Build!NothingLeftStaged

\* A staged root holds what its commands need and no more: Staging.
RootIsExact == part = "staging" => Stage!RootIsExact

\* The command ends once the payload has or it was interrupted, every build
\* command ends, and so does staging when scripts interpret one another: CLIRun,
\* DockerBuilds, Staging.
EverythingEnds ==
    /\ (part = "resize" /\ (payload = "exited" \/ interrupted)) ~> (part = "resize" => pc = "exited")
    /\ \A b \in 1 .. 2 :
         (part = "builds" /\ buildPc[b] = "plan") ~> (part = "builds" => buildPc[b] = "done")
    /\ <>(part = "staging" => stagePhase \in {"done", "failed"})
=============================================================================
