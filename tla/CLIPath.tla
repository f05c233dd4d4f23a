------------------------------- MODULE CLIPath -------------------------------
(***************************************************************************)
(* The environment and the commands of a sandbox started by the CLI: which *)
(* variables the payload sees, which file a command name stands for, and   *)
(* which directories of PATH are mounted so that it is found again inside  *)
(* (cmd/bbox/run_config.go, the environment of sandbox.go, and the lookup  *)
(* of the helper in exec_manager.go).  The working directory is the        *)
(* caller's.                                                               *)
(***************************************************************************)
EXTENDS Integers, Sequences, SequencesExt, FiniteSets, FiniteSetsExt, TLC

CONSTANTS PathDirs     \* names of the directories that PATH may list

VARIABLES host, request, phase, env, mounts, binary, runEnv, command

vars == <<host, request, phase, env, mounts, binary, runEnv, command>>

\* A path is the sequence of its names; "here" is an empty element of PATH.
UsrBin == <<"usr", "bin">>
LocalBin == <<"usr", "local", "bin">>
HomeBin == <<"home", "u", "bin">>
OptBin == <<"opt", "t", "bin">>
Current == <<"opt", "cur", "bin">>      \* by way of a link from /opt/cur to /opt/t
Far == <<"opt", "far">>                 \* where a linked command really is
AppBin == <<"app", "bin">>
Named(n) == CASE n = "usr" -> UsrBin [] n = "local" -> LocalBin [] n = "home" -> HomeBin
              [] n = "opt" -> OptBin [] n = "cur" -> Current [] n = "here" -> <<"">>

EvalSymlinks(dir) == IF dir = Current THEN OptBin ELSE dir

\* What the command is in a directory of the host.
ToolIn(dir) == LET real == EvalSymlinks(dir) IN IF real \in DOMAIN host.tool THEN host.tool[real] ELSE "none"

normalizePATHDir(dir) == IF dir = <<"">> THEN host.cwd ELSE dir

splitPATH(pathValue) == [i \in 1..Len(pathValue) |-> normalizePATHDir(pathValue[i])]

----------------------------------------------------------------------------
(* The variables.  An entry without = has the value <<"no value">>.        *)
lastEnvValue(entries, key) ==
  LET with == {i \in 1..Len(entries) : entries[i].key = key /\ entries[i].value # <<"no value">>}
  IN IF with = {} THEN <<>> ELSE <<entries[Max(with)].value>>

\* The copied variables of the host, then the given ones; none when a copied
\* one is missing or a given one has no value.
buildSandboxEnv ==
  LET copied == [i \in 1..Len(request.copy) |-> lastEnvValue(host.environ, request.copy[i])]
  IN IF (\E i \in 1..Len(copied) : copied[i] = <<>>) \/ (\E i \in 1..Len(request.env) : request.env[i].value = <<"no value">>)
     THEN <<>>
     ELSE <<[i \in 1..Len(copied) |-> [key |-> request.copy[i], value |-> copied[i][1]]] \o request.env>>

PrependPATHDir(pathValue, dir) == <<dir>> \o SelectSeq(pathValue, LAMBDA d : d # <<"">> /\ d # dir)

PathOr(entries, default) == IF lastEnvValue(entries, "PATH") = <<>> THEN default ELSE lastEnvValue(entries, "PATH")[1]

\* withDockerBuildPATHEnv of the CLI, and the same in the library.
withDockerBuildPATHEnv(entries) ==
  IF request.build THEN Append(entries, [key |-> "PATH", value |-> PrependPATHDir(PathOr(entries, <<UsrBin>>), AppBin)]) ELSE entries

----------------------------------------------------------------------------
(* Mounts for PATH.                                                        *)
mountTargetsOverlap(a, b) == IsPrefix(a, b) \/ IsPrefix(b, a)

pathMountTarget(resolved) ==
  CASE Head(resolved) = "usr" -> <<"usr">>
    [] Last(resolved) = "bin" /\ Len(resolved) > 1 -> Front(resolved)
    [] OTHER -> resolved

DirExists(dir) == EvalSymlinks(dir) \in DOMAIN host.tool \cup {Far}

\* The directory, and those on the way of the links in it.
pathMountsForDir(dir) ==
  IF DirExists(dir)
  THEN {pathMountTarget(EvalSymlinks(dir))} \cup (IF ToolIn(dir) = "link" THEN {pathMountTarget(Far)} ELSE {})
  ELSE {}

\* The targets of a directory in the order of their names, those above
\* others first; one that overlaps a mount is left out.
addPathMounts(added, dir) ==
  LET targets == SetToSortSeq(pathMountsForDir(dir), LAMBDA a, b : Len(a) < Len(b))
  IN FoldLeft(LAMBDA ms, t : IF \E m \in ToSet(mounts \o ms) : mountTargetsOverlap(m.target, t) THEN ms
                             ELSE Append(ms, [target |-> t, self |-> TRUE]), added, targets)

pathAvailabilityMounts == FoldLeft(addPathMounts, <<>>, splitPATH(PathOr(env, <<>>)))

----------------------------------------------------------------------------
(* Command names.                                                          *)
Executable(dir) == ToolIn(dir) \in {"exec", "link"}

\* Mutant: any file of that name will do.
resolveBinaryForPATHAny(pathValue) == SelectSeq(splitPATH(pathValue), LAMBDA d : ToolIn(d) # "none")

\* The directories with an executable of that name; the first is taken.
resolveBinaryForPATH(pathValue) == SelectSeq(splitPATH(pathValue), Executable)

\* exec.LookPath in the PATH of the host, which refuses what it finds by way
\* of an empty element.
ResolveBinary ==
  LET found == SelectSeq(PathOr(host.environ, <<>>), LAMBDA d : Executable(normalizePATHDir(d)))
  IN IF found # <<>> /\ Head(found) = <<"">> THEN <<>> ELSE found

\* Without a PATH the name is left to the library.
resolveRequestedBinaries ==
  IF lastEnvValue(env, "PATH") # <<>> THEN resolveBinaryForPATH(lastEnvValue(env, "PATH")[1]) ELSE ResolveBinary

----------------------------------------------------------------------------
Fail == phase' = "failed"

BuildEnv ==
  /\ phase = "env"
  /\ IF buildSandboxEnv = <<>> THEN Fail /\ UNCHANGED env
     ELSE env' = withDockerBuildPATHEnv(buildSandboxEnv[1]) /\ phase' = "mounts"
  /\ UNCHANGED <<host, request, mounts, binary, runEnv, command>>

\* buildRunConfig: the mounts of PATH are added to the working directory and
\* the given ones.
AddPathMounts ==
  /\ phase = "mounts"
  /\ mounts' = mounts \o pathAvailabilityMounts
  /\ phase' = "binaries"
  /\ UNCHANGED <<host, request, env, binary, runEnv, command>>

ResolveBinaries ==
  /\ phase = "binaries"
  /\ IF resolveRequestedBinaries = <<>> THEN Fail /\ UNCHANGED binary
     ELSE binary' = Head(resolveRequestedBinaries) /\ phase' = "sandbox"
  /\ UNCHANGED <<host, request, env, mounts, runEnv, command>>

Reserved == {"PATH", "HTTP_PROXY"}

filterReservedEnv(entries) == SelectSeq(entries, LAMBDA e : e.key \notin Reserved /\ e.value # <<"no value">>)

\* The last entry of a key takes the place of the first.
mergeEnv(first, second) ==
  FoldLeft(LAMBDA merged, e :
             IF \E i \in 1..Len(merged) : merged[i].key = e.key
             THEN [i \in 1..Len(merged) |-> IF merged[i].key = e.key THEN e ELSE merged[i]]
             ELSE Append(merged, e), <<>>, first \o second)

\* PATH is the last given or /usr/bin; the proxy variables are the helper's,
\* or absent.
runEnvForTrafficMode(entries) ==
  mergeEnv(filterReservedEnv(entries),
           <<[key |-> "PATH", value |-> PathOr(entries, <<UsrBin>>)]>>
           \o (IF request.mode = "proxy" THEN <<[key |-> "HTTP_PROXY", value |-> <<"helper">>]>> ELSE <<>>))

\* NewSandbox and run: the environment of the library's options, once more
\* with the PATH of the builder.
NewSandbox ==
  /\ phase = "sandbox"
  /\ runEnv' = mergeEnv(runEnvForTrafficMode(withDockerBuildPATHEnv(env)), <<>>)
  /\ phase' = "exec"
  /\ UNCHANGED <<host, request, env, mounts, binary, command>>

----------------------------------------------------------------------------
(* In the sandbox a path is there when the host's own directory is mounted *)
(* on it or above, or, below the staged directories, when it was staged.   *)
Mounted(path) == \E i \in 1..Len(mounts) : mounts[i].self /\ IsPrefix(mounts[i].target, path)
Covered(path) == \E i \in 1..Len(mounts) : IsPrefix(mounts[i].target, path)
Staged(dir) == dir = binary /\ Head(dir) = "usr" /\ ~ Covered(dir)
Visible(dir) == IF dir = Current THEN Mounted(Current) /\ Mounted(OptBin) ELSE Mounted(dir)

SeenExecutable(dir) ==
  \/ Staged(dir)
  \/ Visible(dir) /\ ToolIn(dir) = "exec"
  \/ Visible(dir) /\ ToolIn(dir) = "link" /\ Mounted(Far)

resolveExecCommandPath == SelectSeq(splitPATH(PathOr(runEnv, <<>>)), SeenExecutable)

Exec ==
  /\ phase = "exec"
  /\ command' = IF resolveExecCommandPath = <<>> THEN <<"not found">> ELSE Head(resolveExecCommandPath)
  /\ phase' = "done"
  /\ UNCHANGED <<host, request, env, mounts, binary, runEnv>>

----------------------------------------------------------------------------
Entry(k, v) == [key |-> k, value |-> v]
SomePaths == {<<a>> : a \in PathDirs} \cup {<<a, b>> : a, b \in PathDirs}
PathOf(names) == [i \in 1..Len(names) |-> Named(names[i])]

Hosts ==
  [environ : {<<>>} \cup {<<Entry("A", <<"host">>), Entry("PATH", PathOf(p))>> : p \in SomePaths},
   tool : {LocalBin :> "exec" @@ UsrBin :> u @@ HomeBin :> h @@ OptBin :> o @@ <<"work">> :> "exec" :
             u \in {"none", "exec"}, h \in {"exec", "plain", "link"}, o \in {"none", "exec"}},
   cwd : {<<"work">>, <<"home", "u", "proj">>}]

Requests ==
  [copy : {<<>>, <<"PATH">>, <<"A", "PATH">>},
   env : {<<>>, <<Entry("A", <<"1">>), Entry("A", <<"2">>)>>, <<Entry("HTTP_PROXY", <<"mine">>)>>,
          <<Entry("PATH", <<LocalBin>>), Entry("PATH", <<HomeBin, <<"">>>>)>>, <<Entry("A", <<"no value">>)>>},
   build : BOOLEAN, mode : {"proxy", "transparent"}, over : BOOLEAN]

Init ==
  /\ host \in Hosts /\ request \in Requests
  /\ phase = "env"
  /\ env = <<>> /\ binary = <<>> /\ runEnv = <<>> /\ command = <<>>
  /\ mounts = <<[target |-> host.cwd, self |-> TRUE]>>
              \o (IF request.over THEN <<[target |-> <<"opt", "far">>, self |-> FALSE]>> ELSE <<>>)

Next == BuildEnv \/ AddPathMounts \/ ResolveBinaries \/ NewSandbox \/ Exec

Spec == Init /\ [][Next]_vars

----------------------------------------------------------------------------
\* A variable of the payload, unless it is bbox's own, is the last one given
\* with env, or else the copied one, and is there once (buildSandboxEnv,
\* filterReservedEnv, mergeEnv).
LastEntryWins ==
  phase \in {"exec", "done"} =>
     \A k \in {"A"} :
        /\ lastEnvValue(runEnv, k) =
             IF lastEnvValue(request.env, k) # <<>> THEN lastEnvValue(request.env, k)
             ELSE IF k \in ToSet(request.copy) THEN lastEnvValue(host.environ, k) ELSE <<>>
        /\ Cardinality({i \in 1..Len(runEnv) : runEnv[i].key = k}) <= 1

\* The payload sees the very PATH its command was looked up in, although the
\* CLI and the library each put the builder in front of it
\* (withDockerBuildPATHEnv, runEnvForTrafficMode).
PathAgrees ==
  (phase \in {"exec", "done"} /\ lastEnvValue(env, "PATH") # <<>>) => lastEnvValue(runEnv, "PATH") = lastEnvValue(env, "PATH")

\* No mount added for PATH overlaps another mount, which would make the
\* library refuse them all (pathAvailabilityMounts, validateMounts).
MountsFit == \A i, j \in 1..Len(mounts) : i # j => ~ mountTargetsOverlap(mounts[i].target, mounts[j].target)

PathVisible ==
  \A d \in ToSet(splitPATH(PathOr(runEnv, <<>>))) :
     DirExists(d) => Visible(d) /\ (ToolIn(d) = "link" => Mounted(Far))

\* When every directory of PATH is there inside, the helper starts the file
\* that the CLI resolved and staged (resolveBinaryForPATH,
\* resolveExecCommandPath).
RunsWhatWasResolved == (phase = "done" /\ lastEnvValue(env, "PATH") # <<>> /\ PathVisible) => command = binary

============================================================================
