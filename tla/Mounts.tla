------------------------------- MODULE Mounts --------------------------------
(***************************************************************************)
(* The file system a Linux sandbox sees: the mounts of the options are     *)
(* validated (mounts.go, sandbox.go), joined by those of the builder       *)
(* (rootless_linux.go, mounts_linux.go) and turned into arguments of       *)
(* bwrap, which mounts them one after the other, each over what is there.  *)
(***************************************************************************)
EXTENDS Integers, Sequences, SequencesExt, FiniteSets, FiniteSetsExt

CONSTANTS MaxMounts,      \* mounts of the options
          SocketPlaces    \* where the Docker socket may be wanted

VARIABLES mounts, builder, cgroup, socket, phase, args, table

vars == <<mounts, builder, cgroup, socket, phase, args, table>>

\* A path is the sequence of its names.
Root == <<>>
BuildkitRoot == <<"var", "lib", "buildkitd">>
BuildOutput == <<"var", "lib", "buildkitd-out">>
Cgroup == <<"sys", "fs", "cgroup">>

reservedSandboxTargets ==
  {<<"app">>, <<"usr">>, <<"etc">>, <<"lib">>, <<"lib64">>, <<"proc">>, <<"dev">>, <<"tmp">>}

\* Targets of mounts: free, reserved, below or above a reserved one, and in
\* the way of the builder.
Targets ==
  {<<"work">>, <<"work", "sub">>, <<"usr">>, <<"usr", "lib">>, <<"etc", "alternatives">>, <<"etc">>,
   <<"tmp", "x">>, <<"bin">>, <<"sys">>, <<"var">>, BuildkitRoot, Root}

\* Where the options may want the Docker socket.
SocketTarget(place) ==
  CASE place = "default" -> <<"var", "run", "docker.sock">>
    [] place = "work" -> <<"work", "docker.sock">>
    [] place = "tmp" -> <<"tmp", "docker.sock">>

\* A mount whose source is the path itself, or some other path of the host.
MountSet == [type : {"bind", "empty_dir"}, self : BOOLEAN, target : Targets, readOnly : BOOLEAN]

targetsOverlap(a, b) == IsPrefix(a, b) \/ IsPrefix(b, a)

isAllowedReservedBindTarget(m, reserved) ==
  /\ m.type = "bind" /\ m.readOnly /\ m.self
  /\ \/ reserved = <<"usr">> /\ m.target = <<"usr">>
     \/ reserved = <<"etc">> /\ m.target = <<"etc", "alternatives">>

\* Mutant: a mount above an earlier one passes.
validateMountBelow(m, before) ==
  /\ m.type = "empty_dir" => ~ m.self
  /\ \A r \in reservedSandboxTargets : isAllowedReservedBindTarget(m, r) \/ ~ targetsOverlap(m.target, r)
  /\ \A i \in 1..Len(before) : ~ IsPrefix(before[i].target, m.target)

\* The checks of one mount after the mounts before it.
validateMount(m, before) ==
  /\ m.type = "empty_dir" => ~ m.self
  /\ \A r \in reservedSandboxTargets : isAllowedReservedBindTarget(m, r) \/ ~ targetsOverlap(m.target, r)
  /\ \A i \in 1..Len(before) : ~ targetsOverlap(before[i].target, m.target)

validateEffectiveDockerSocketOptions ==
  socket # <<>> => \A i \in 1..Len(mounts) : ~ targetsOverlap(mounts[i].target, socket[1])

Init ==
  /\ mounts = <<>>
  /\ builder \in BOOLEAN
  /\ cgroup \in BOOLEAN          \* the host has /sys/fs/cgroup
  /\ socket \in {<<>>} \cup {<<SocketTarget(p)>> : p \in SocketPlaces}
  /\ phase = "options"
  /\ args = <<>>
  /\ table = <<>>

\* A mount that does not validate ends NewSandbox.
AddMount(m) ==
  /\ phase = "options"
  /\ Len(mounts) < MaxMounts
  /\ validateMount(m, mounts)
  /\ mounts' = Append(mounts, m)
  /\ UNCHANGED <<builder, cgroup, socket, phase, args, table>>

----------------------------------------------------------------------------
builderTargetMounted(target) == \E i \in 1..Len(mounts) : targetsOverlap(mounts[i].target, target)

appendBuilderMounts ==
  IF builder /\ cgroup /\ ~ builderTargetMounted(Cgroup)
  THEN Append(mounts, [type |-> "bind", self |-> TRUE, target |-> Cgroup, readOnly |-> TRUE])
  ELSE mounts

defaultBuilderTmpfsTargets ==
  IF builder THEN SelectSeq(<<BuildkitRoot, BuildOutput>>, LAMBDA t : ~ builderTargetMounted(t)) ELSE <<>>

\* prepareRuntimeMounts: an empty_dir is a writable bind of a fresh directory.
\* The target of a mount in a reserved path is made in the staged root.
prepareRuntimeMounts ==
  [i \in 1..Len(appendBuilderMounts) |->
     LET m == appendBuilderMounts[i]
     IN [target |-> m.target, from |-> <<"mount", i>>,
         readOnly |-> m.type = "bind" /\ m.readOnly,
         exists |-> \E r \in reservedSandboxTargets : targetsOverlap(m.target, r)]]

mountOf(target, from, readOnly) == [target |-> target, from |-> from, readOnly |-> readOnly, exists |-> FALSE]

\* The staged directories, the mounts, the Docker socket, the directories of
\* the builder, and what every sandbox gets.
buildBwrapArgs ==
  [i \in 1..7 |-> mountOf(<<<<"app", "usr", "etc", "lib", "lib64", "bin", "sbin">>[i]>>, <<"staged">>, TRUE)]
  \o prepareRuntimeMounts
  \o (IF socket = <<>> THEN <<>> ELSE <<mountOf(socket[1], <<"socket">>, FALSE)>>)
  \o [i \in 1..Len(defaultBuilderTmpfsTargets) |-> mountOf(defaultBuilderTmpfsTargets[i], <<"tmpfs">>, FALSE)]
  \o <<mountOf(<<"proc">>, <<"proc">>, FALSE), mountOf(<<"dev">>, <<"dev">>, FALSE), mountOf(<<"tmp">>, <<"tmpfs">>, FALSE)>>

buildLinuxSandboxCommand ==
  /\ phase = "options"
  /\ validateEffectiveDockerSocketOptions
  /\ args' = buildBwrapArgs
  /\ phase' = "mounting"
  /\ UNCHANGED <<mounts, builder, cgroup, socket, table>>

----------------------------------------------------------------------------
(* bwrap: what is at a path is the last mount on it or above it.           *)
At(path) ==
  LET covering == {i \in 1..Len(table) : IsPrefix(table[i].target, path)}
  IN IF covering = {} THEN [from |-> <<"root">>, target |-> Root, readOnly |-> FALSE, exists |-> FALSE]
     ELSE table[Max(covering)]

\* A mount point that is missing is made, which a read-only tree refuses.
Missing(op) == At(op.target).readOnly /\ At(op.target).target # op.target /\ ~ op.exists

Mount ==
  /\ phase = "mounting" /\ args # <<>>
  /\ IF Missing(Head(args)) THEN phase' = "failed" /\ UNCHANGED <<args, table>>
     ELSE /\ table' = Append(table, Head(args))
          /\ args' = Tail(args)
          /\ phase' = IF Len(args) = 1 THEN "running" ELSE "mounting"
  /\ UNCHANGED <<mounts, builder, cgroup, socket>>

Next == buildLinuxSandboxCommand \/ Mount \/ \E m \in MountSet : AddMount(m)

Spec == Init /\ [][Next]_vars

----------------------------------------------------------------------------
Running == phase = "running"

(* Whatever is mounted after it, and in whichever order the options name    *)
(* it, every mount of the options is there in the running sandbox: nothing  *)
(* of the sandbox or the builder lies on it or on anything above or below.  *)
DeclaredIsVisible ==
  Running => \A i \in 1..Len(mounts) :
    /\ At(mounts[i].target).from = <<"mount", i>>
    /\ \A p \in {t.target : t \in ToSet(table)} :
         IsPrefix(mounts[i].target, p) => At(p).from = <<"mount", i>>

(* What the helper and the payload rely on is as staged: the helper's       *)
(* binary, the configuration in /etc, the libraries, /proc, /dev and /tmp,  *)
(* but for the mounts of the host's own /usr and /etc/alternatives.         *)
ReservedIsIntact ==
  Running =>
    /\ \A d \in {<<"app">>, <<"etc">>, <<"etc", "resolv.conf">>, <<"lib">>, <<"lib64">>} : At(d).from = <<"staged">>
    /\ At(<<"proc">>).from = <<"proc">> /\ At(<<"dev">>).from = <<"dev">> /\ At(<<"tmp">>).from = <<"tmpfs">>
    /\ At(<<"usr", "lib">>).from # <<"staged">> =>
         \E i \in 1..Len(mounts) : mounts[i].target = <<"usr">> /\ mounts[i].self /\ mounts[i].readOnly

(* Options that validate give a sandbox that starts: no mount point has to  *)
(* be made in a read-only tree.                                             *)
Starts == phase # "failed"

=============================================================================
