------------------------------ MODULE CLIConfig ------------------------------
(***************************************************************************)
(* The configuration of the bbox command (cmd/bbox): the flags, the        *)
(* bbox.yaml found by walking up from the working directory or named by    *)
(* --config, and the built-in defaults are layers, merged into the options *)
(* of the manager and of the sandbox.  The command may be run a second     *)
(* time, from a directory below or with one more flag, to compare.         *)
(***************************************************************************)
EXTENDS Integers, Sequences, SequencesExt, FiniteSets, Functions, TLC

CONSTANT Platforms       \* values of cliPlatform

VARIABLES tree, flags, cwd, platform, phase, current, file, result, earlier, added

vars == <<tree, flags, cwd, platform, phase, current, file, result, earlier, added>>

\* A path: absolute or relative, and its names.  The blank path is relative
\* and has none.
Abs(at) == [abs |-> TRUE, at |-> at]
Rel(at) == [abs |-> FALSE, at |-> at]
Blank == Rel(<<>>)

Clean(at) ==
  FoldLeft(LAMBDA kept, e : CASE e = "." -> kept
                              [] e = ".." -> IF kept = <<>> THEN kept ELSE Front(kept)
                              [] OTHER -> Append(kept, e), <<>>, at)

absPathFromCWD(path, base) == Abs(Clean(IF path.abs THEN path.at ELSE base \o path.at))

\* strings.ToLower(strings.TrimSpace(v)) of the words in use.
Normal(v) == CASE v = " Transparent" -> "transparent" [] v = "Audit" -> "audit" [] v = "OFF" -> "off"
               [] v = "BIND" -> "bind" [] OTHER -> v

Home == <<"home">>
Proj == <<"home", "proj">>
Sub == <<"home", "proj", "sub">>
Dirs == {Home, Proj, Sub}

----------------------------------------------------------------------------
(* A layer is a function: a key is in its domain when its has... field is   *)
(* set.                                                                    *)
NoLayer == <<>>

defaultCLIFileConfig ==
     "traffic_mode" :> "proxy" @@ "policy_mode" :> "enforce" @@ "access_log" :> "json"
  @@ [k \in {"report_policy_violations", "report_access_summary", "report_request_summary"} |-> TRUE]
  @@ "policy.rules" :> <<"connect 443">> @@ "max_request_body_bytes" :> 64

mergeCLIConfigLayer(base, overlay) == overlay @@ base

mergeCLIConfig(defaults, fileCfg, overrides) == mergeCLIConfigLayer(mergeCLIConfigLayer(defaults, fileCfg), overrides)

----------------------------------------------------------------------------
(* Mounts.                                                                 *)

\* The mount, or none when it is not valid.
toBBoxMount(m) ==
  LET bind == Normal(m.type) = "bind"
      empty == Normal(m.type) = "empty_dir"
  IN IF /\ bind \/ empty
        /\ m.target.abs
        /\ bind => m.source.abs /\ m.mode = 0
        /\ empty => m.source = Blank
     THEN <<[type |-> Normal(m.type), source |-> IF bind THEN Abs(Clean(m.source.at)) ELSE Blank,
             target |-> Abs(Clean(m.target.at)), readOnly |-> bind /\ m.readOnly,
             mode |-> IF empty /\ m.mode = 0 THEN 755 ELSE m.mode]>>
     ELSE <<>>

toBBoxMounts(configs) == [i \in 1..Len(configs) |-> toBBoxMount(configs[i])]
AllMounts(converted) == \A i \in 1..Len(converted) : converted[i] # <<>>

\* A spec is well formed or not; its fields make a mount that is converted,
\* and kept as a mount of a layer.
parseCLIMountSpec(spec) == IF spec.wellFormed THEN toBBoxMount(spec.cfg) ELSE <<>>

hasMount(source, target, mounts) ==
  \E i \in 1..Len(mounts) : mounts[i].type = "bind" /\ mounts[i].source = source /\ mounts[i].target = target

----------------------------------------------------------------------------
(* The file.                                                               *)

Failed(why) == [ok |-> FALSE, err |-> why, settings |-> NoLayer]

\* findConfigFile, one directory: a directory of that name does not count,
\* one that cannot be looked at ends the search with an error.
findConfigFile ==
  /\ phase = "find"
  /\ CASE tree[current].kind \in {"none", "dir"} ->
            IF current = Home THEN phase' = "build" /\ UNCHANGED <<current, result>>
            ELSE current' = Front(current) /\ UNCHANGED <<phase, result>>
       [] tree[current].kind = "denied" -> phase' = "done" /\ result' = Failed("config") /\ UNCHANGED current
       [] OTHER -> phase' = "load" /\ UNCHANGED <<current, result>>
  /\ UNCHANGED <<tree, flags, cwd, platform, file, earlier, added>>

resolveConfigPath(value, baseDir) == IF value = Blank \/ value.abs THEN value ELSE absPathFromCWD(value, baseDir)

resolveConfigMount(m, baseDir) ==
  [m EXCEPT !.source = IF Normal(m.type) = "bind" THEN resolveConfigPath(@, baseDir) ELSE @,
            !.target = resolveConfigPath(@, baseDir)]

resolveCLIFileConfigPaths(cfg, configDir) ==
  [k \in DOMAIN cfg |->
     CASE k \in {"workdir", "docker_build.buildkitd_path"} -> resolveConfigPath(cfg[k], configDir)
       [] k = "mounts" -> [i \in 1..Len(cfg[k]) |-> resolveConfigMount(cfg[k][i], configDir)]
       [] OTHER -> cfg[k]]

\* Mutant: the paths are resolved from the working directory.
loadCLIFileConfigHere ==
  /\ phase = "load"
  /\ IF tree[current].kind \in {"empty", "document"}
     THEN /\ file' = resolveCLIFileConfigPaths(tree[current].doc, cwd)
          /\ phase' = "build" /\ UNCHANGED result
     ELSE phase' = "done" /\ result' = Failed("config") /\ UNCHANGED file
  /\ UNCHANGED <<tree, flags, cwd, platform, current, earlier, added>>

\* loadCLIFileConfig: an empty file sets nothing; one that cannot be read or
\* decoded, has an unknown key or a second document, is an error.
loadCLIFileConfig ==
  /\ phase = "load"
  /\ IF tree[current].kind \in {"empty", "document"}
     THEN /\ file' = resolveCLIFileConfigPaths(tree[current].doc, current)
          /\ phase' = "build" /\ UNCHANGED result
     ELSE phase' = "done" /\ result' = Failed("config") /\ UNCHANGED file
  /\ UNCHANGED <<tree, flags, cwd, platform, current, earlier, added>>

----------------------------------------------------------------------------
(* The command line.                                                       *)

deriveFlagOverrides ==
  Restrict(flags, DOMAIN flags \cap {"traffic_mode", "policy_mode", "access_log", "report_policy_violations",
                                     "report_access_summary", "report_request_summary"})

\* A blank name or working directory counts as not given.
buildRuntimeCLIConfigLayer ==
  LET kept == {k \in DOMAIN flags \cap {"name", "workdir", "bin", "mounts", "env", "copy_env", "max_request_body_bytes"} :
                 /\ k = "name" => flags[k] # ""
                 /\ k = "workdir" => flags[k] # Blank}
  IN [k \in kept |-> IF k = "mounts" THEN [i \in 1..Len(flags[k]) |-> parseCLIMountSpec(flags[k][i])[1]] ELSE flags[k]]

SpecsParse == "mounts" \in DOMAIN flags => \A i \in 1..Len(flags["mounts"]) : parseCLIMountSpec(flags["mounts"][i]) # <<>>

Get(cfg, k, default) == IF k \in DOMAIN cfg THEN cfg[k] ELSE default

\* toEffectiveCLIConfig: the working directory is absolute, the caller's own
\* unless one is set.
EffectiveWorkDir(cfg) == absPathFromCWD(Get(cfg, "workdir", Blank), cwd)

\* loadEffectiveCLIConfig, after the file is read.
loadEffectiveCLIConfig ==
  mergeCLIConfigLayer(mergeCLIConfig(defaultCLIFileConfig, file, deriveFlagOverrides), buildRuntimeCLIConfigLayer)

OrDefault(v, default) == IF v = "" THEN default ELSE v

\* buildRunConfig: what the manager and the sandbox are given.
buildRunConfig(cfg) ==
  LET mounts == toBBoxMounts(Get(cfg, "mounts", <<>>))
      explicit == [i \in 1..Len(mounts) |-> mounts[i][1]]
      here == [type |-> "bind", source |-> Abs(cwd), target |-> Abs(cwd), readOnly |-> TRUE, mode |-> 0]
      traffic == OrDefault(Normal(cfg["traffic_mode"]), "proxy")
      mode == OrDefault(Normal(cfg["policy_mode"]), "enforce")
      log == OrDefault(Normal(cfg["access_log"]), "json")
  IN CASE ~ AllMounts(mounts) -> Failed("mount")
       [] traffic \notin {"proxy", "transparent"} -> Failed("traffic_mode")
       [] mode \notin {"enforce", "audit"} -> Failed("policy_mode")
       [] log \notin {"json", "off"} -> Failed("access_log")
       [] OTHER ->
          [ok |-> TRUE, err |-> "",
           settings |-> (   "traffic_mode" :> traffic @@ "policy_mode" :> mode @@ "access_log" :> log
                         @@ "workdir" :> EffectiveWorkDir(cfg) @@ "mounts" :> explicit
                         @@ "cwd_mount" :> (IF platform = "darwin" \/ hasMount(Abs(cwd), Abs(cwd), explicit) THEN <<>> ELSE <<here>>)
                         @@ "mitm" :> (traffic = "transparent")
                         @@ "seccomp" :> (IF Get(cfg, "docker_build.enabled", FALSE) THEN "disabled" ELSE "restricted")
                         @@ [k \in DOMAIN cfg |-> cfg[k]])]

\* validateRunConfigPlatform.
validateRunConfigPlatform(r) ==
  IF r.ok /\ platform = "darwin" /\ (r.settings["mitm"] \/ r.settings["mounts"] # <<>>) THEN Failed("platform") ELSE r

buildConfig ==
  /\ phase = "build"
  /\ result' = IF SpecsParse THEN validateRunConfigPlatform(buildRunConfig(loadEffectiveCLIConfig)) ELSE Failed("spec")
  /\ phase' = "done"
  /\ UNCHANGED <<tree, flags, cwd, platform, current, file, earlier, added>>

----------------------------------------------------------------------------
(* The inputs: one or two keys of every kind in the file of the project,   *)
(* or no such file, and files that cannot be used.                         *)
MountOf(type, source, target, mode) ==
  [type |-> type, source |-> source, target |-> target, readOnly |-> TRUE, mode |-> mode]
Shared == MountOf("BIND", Rel(<<"..", "shared">>), Abs(<<"data">>), 0)
Here == MountOf("bind", Abs(Proj), Abs(Proj), 0)
Scratch == MountOf("empty_dir", Blank, Abs(<<"work", ".", "tmp">>), 0)

Layers ==
       {"name" :> "n", "docker_build.enabled" :> TRUE, "policy.rules" :> <<>>, "report_access_summary" :> FALSE,
        "env" :> <<"A=1">>, "copy_env" :> <<"PATH">>, "max_request_body_bytes" :> 1,
        "docker_build.buildkitd_path" :> Rel(<<"tools", "buildkitd">>)}
  \cup {"workdir" :> w : w \in {Blank, Rel(<<".">>), Rel(<<"..", "x">>), Abs(<<"w">>)}}
  \cup {"mounts" :> ms : ms \in {<<>>, <<Shared>>, <<Here, Scratch>>, <<MountOf("nfs", Blank, Blank, 0)>>,
                               <<MountOf("bind", Abs(<<"a">>), Abs(<<"b">>), 7)>>}}
  \cup {"traffic_mode" :> t : t \in {"", " Transparent", "bogus"}}
  \cup {"policy_mode" :> m : m \in {"Audit", "bogus"}}

Documents == {[kind |-> k, doc |-> NoLayer] : k \in {"none", "dir", "empty", "broken"}}
             \cup {[kind |-> "document", doc |-> l] : l \in Layers \cup {"traffic_mode" :> "bogus" @@ "copy_env" :> <<"PATH">>}}

Spec1(m, wellFormed) == [cfg |-> m, wellFormed |-> wellFormed]

MoreFlags ==
       {"name" :> "flag", "bin" :> <<"tool">>, "env" :> <<"A=2">>, "copy_env" :> <<"HOME">>, "access_log" :> "OFF",
        "max_request_body_bytes" :> 2, "report_access_summary" :> TRUE, "policy_mode" :> "enforce",
        "workdir" :> Rel(<<"deep">>), "traffic_mode" :> "proxy", "traffic_mode" :> " Transparent"}
  \cup {"mounts" :> ms : ms \in {<<Spec1(Scratch, TRUE)>>, <<Spec1(MountOf("bind", Abs(<<"a">>), Abs(<<"b">>), 0), TRUE)>>,
                               <<Spec1(Shared, TRUE)>>, <<Spec1(Scratch, FALSE)>>}}
  \cup {"name" :> "", "workdir" :> Blank}

FirstFlags == {NoLayer, "config" :> Rel(<<".">>), "config" :> Rel(<<"..", "proj">>), "name" :> "flag", "traffic_mode" :> "bogus"}

----------------------------------------------------------------------------
\* executeRootCommand: --config names the file, which is read at once.
Begin(c, fl) ==
  LET at == absPathFromCWD(fl["config"], c).at
  IN /\ cwd' = c /\ flags' = fl /\ file' = NoLayer
     /\ IF "config" \notin DOMAIN fl THEN phase' = "find" /\ current' = c /\ result' = Failed("")
        ELSE IF at \in Dirs THEN phase' = "load" /\ current' = at /\ result' = Failed("")
        ELSE phase' = "done" /\ current' = c /\ result' = Failed("config")

Init ==
  /\ \E d \in Documents, s \in {"none", "dir", "empty", "denied"}, h \in {"none", "document"} :
       tree = Home :> [kind |-> h, doc |-> IF h = "none" THEN NoLayer ELSE "name" :> "of home" @@ "copy_env" :> <<"LANG">>]
              @@ Proj :> d
              @@ Sub :> [kind |-> s, doc |-> NoLayer]
  /\ platform \in Platforms
  /\ cwd \in Dirs /\ flags = NoLayer /\ current = cwd /\ file = NoLayer
  /\ phase = "start"
  /\ result = Failed("") /\ earlier = Failed("") /\ added = ""

executeRootCommand ==
  /\ phase = "start"
  /\ \/ \E fl \in FirstFlags : Begin(cwd, fl)
     \/ /\ result' = Failed("payload") /\ phase' = "done"      \* no command after --
        /\ UNCHANGED <<cwd, flags, file, current>>
  /\ UNCHANGED <<tree, platform, earlier, added>>

\* The command is run again, with one more flag or from a directory below.
RunAgain ==
  /\ phase = "done" /\ added = "" /\ result.err # "payload"
  /\ \/ \E fl \in MoreFlags :
          /\ DOMAIN fl \cap DOMAIN flags = {}
          /\ added' = CHOOSE k \in DOMAIN fl : TRUE
          /\ Begin(cwd, fl @@ flags)
     \/ \E c \in Dirs :
          /\ IsStrictPrefix(cwd, c)
          /\ \A d \in Dirs : IsStrictPrefix(cwd, d) /\ IsPrefix(d, c) => tree[d].kind \in {"none", "dir"}
          /\ added' = "cd"
          /\ Begin(c, flags)
  /\ earlier' = result
  /\ UNCHANGED <<tree, platform>>

Next == executeRootCommand \/ findConfigFile \/ loadCLIFileConfig \/ buildConfig \/ RunAgain

Spec == Init /\ [][Next]_vars

----------------------------------------------------------------------------
Done == phase = "done"

\* The directory whose bbox.yaml counts: the nearest that has one.
Nearest == LET having == {d \in Dirs : IsPrefix(d, cwd) /\ tree[d].kind \notin {"none", "dir"}}
           IN IF having = {} THEN <<>> ELSE <<CHOOSE d \in having : \A e \in having : Len(e) <= Len(d)>>

\* A relative path in a bbox.yaml means the same whatever directory below it
\* the command is run from: what differs is the mount of the working
\* directory, and the working directory itself when nothing sets one
\* (findConfigFile, resolveCLIFileConfigPaths).
SameFromBelow ==
  (Done /\ added = "cd" /\ DOMAIN flags \cap {"config", "workdir"} = {}) =>
     /\ result.err = earlier.err
     /\ LET free == {"cwd_mount"} \cup (IF Get(file, "workdir", Blank) = Blank THEN {"workdir"} ELSE {})
        IN \A k \in DOMAIN earlier.settings \ free : result.settings[k] = earlier.settings[k]

\* A flag changes the setting it names and no other: the settings of a file
\* survive next to flags about something else (buildRuntimeCLIConfigLayer,
\* mergeCLIConfigLayer).
FlagsAreLocal ==
  (Done /\ added \notin {"", "cd"} /\ result.ok /\ earlier.ok) =>
     LET its == {added} \cup (IF added = "traffic_mode" THEN {"mitm"} ELSE {}) \cup (IF added = "mounts" THEN {"cwd_mount"} ELSE {})
     IN \A k \in (DOMAIN earlier.settings \cup DOMAIN result.settings) \ its :
          /\ k \in DOMAIN earlier.settings \cap DOMAIN result.settings
          /\ result.settings[k] = earlier.settings[k]

\* A flag given on the command line decides its setting, whatever the file
\* says (mergeCLIConfig, buildRuntimeCLIConfigLayer); a text flag that is given
\* as empty is as good as absent.
ChangedFlagsWin ==
  (Done /\ result.ok) =>
     \A k \in DOMAIN flags \ {"config"} :
        \/ k = "name" /\ flags[k] = ""
        \/ k = "workdir" /\ flags[k] = Blank
        \/ Get(result.settings, k, "") =
          CASE k = "mounts" -> [i \in 1..Len(flags[k]) |-> parseCLIMountSpec(flags[k][i])[1]]
            [] k = "workdir" -> absPathFromCWD(flags[k], cwd)
            [] k \in {"traffic_mode", "policy_mode", "access_log"} -> Normal(flags[k])
            [] OTHER -> flags[k]

\* The nearest bbox.yaml decides alone: the command does not start past one
\* that cannot be read, and takes nothing from one further up
\* (findConfigFile, loadCLIFileConfig).
NearestFileOnly ==
  (Done /\ result.ok /\ "config" \notin DOMAIN flags) =>
     IF Nearest = <<>> THEN file = NoLayer
     ELSE tree[Nearest[1]].kind \in {"empty", "document"} /\ DOMAIN file = DOMAIN tree[Nearest[1]].doc

\* A mount accepted as a flag is not refused or altered later, when it has
\* become a mount of a layer and is converted once more (parseCLIMountSpec,
\* toCLIMountConfig, toBBoxMount).
SpecIsFinal == (Done /\ result.err = "mount") => "mounts" \notin DOMAIN flags

============================================================================
