---------------------------- MODULE DockerRewrite ----------------------------
(***************************************************************************)
(* What `docker build' inside the sandbox makes of a Dockerfile            *)
(* (internal/dockerbuild: inputs, rewrite, truststore, proxyconfig): trust *)
(* and proxy settings are put before RUN instructions, and BuildKit then   *)
(* executes the result.                                                    *)
(*                                                                         *)
(* An instruction is a word: "from" and "again" (FROM an image, FROM the   *)
(* stage before), "run", "update" (a RUN that rewrites the certificates of *)
(* the image), "java" and "ssl" (ENV of JAVA_TOOL_OPTIONS, SSL_CERT_FILE). *)
(***************************************************************************)
EXTENDS Integers, Sequences, FiniteSets, SequencesExt

CONSTANT MaxLength  \* bound on the instructions after the first FROM

VARIABLES dockerfile, env, bundle, phase, staged, out, image, seen
vars == <<dockerfile, env, bundle, phase, staged, out, image, seen>>

Runs == {"run", "update"}

----------------------------------------------------------------------------
(* proxyconfig.go.  A variable is unset or has a value; the list of        *)
(* NO_PROXY is a set of entries.                                           *)

\* preferredProxyEnvValue: a blank upper-case variable hides the other.
preferredProxyEnvValue(upper, lower) ==
  LET value == IF upper # "unset" THEN upper ELSE lower
  IN IF value \in {"unset", "blank"} THEN "" ELSE value

\* parseProxyURL: "bad" stands for a scheme, a host or a port it refuses.
ProxyFails == \E k \in {"http", "https"} : preferredProxyEnvValue(env[k].upper, env[k].lower) = "bad"

proxyConfigFromEnv ==
  [http |-> preferredProxyEnvValue(env.http.upper, env.http.lower),
   https |-> preferredProxyEnvValue(env.https.upper, env.https.lower),
   nonProxy |-> env.noProxy]

Enabled(cfg) == cfg.http # "" \/ cfg.https # ""

\* normalizeJavaNonProxyEntry: what it cannot say in Java's words is left out.
normalizeJavaNonProxyEntry(entry) ==
  CASE entry = "*" -> {"*"}
    [] entry \in {".corp", "*.corp"} -> {"*.corp"}
    [] entry = "corp" -> {"corp"}
    [] entry \in {"corp:80", "10.0.0.0/8", "[::1]", "a*.corp", "a..corp"} -> {}

javaNonProxyHosts(entries) == UNION {normalizeJavaNonProxyEntry(e) : e \in entries}

javaProxyOptions(cfg) ==
  {<<k, cfg[k]>> : k \in {k \in {"http", "https"} : cfg[k] # ""}}
    \cup {<<"nonProxy", h>> : h \in javaNonProxyHosts(cfg.nonProxy)}

\* The settings of Maven, when there is a proxy.
renderMavenSettings(cfg) == [proxies |-> {k \in {"http", "https"} : cfg[k] # ""}, nonProxy |-> javaNonProxyHosts(cfg.nonProxy)]

----------------------------------------------------------------------------
(* inputs.go and truststore.go                                              *)
\* resolveTrustBundlePath finds a file, by name or in its usual place.
hasTrustBundle == bundle # "none"

\* writePKCS12Truststore: a bundle without a certificate, or with one that
\* cannot be parsed, is an error; an empty one is never looked at.
truststoreFails == bundle = "broken"
hasTruststore == bundle = "certs"

\* What is known before anything is staged.
previewInjection ==
  [pem |-> hasTrustBundle, store |-> FALSE, java |-> javaProxyOptions(proxyConfigFromEnv) # {}, maven |-> Enabled(proxyConfigFromEnv)]

trustInjectionOptionsFromStagedAssets ==
  [pem |-> hasTrustBundle, store |-> hasTruststore,
   java |-> hasTruststore \/ javaProxyOptions(proxyConfigFromEnv) # {}, maven |-> Enabled(proxyConfigFromEnv)]

----------------------------------------------------------------------------
(* rewrite.go.  Inserted instructions carry a "+".                          *)
If(condition, instructions) == IF condition THEN instructions ELSE <<>>

trustBundlePerRunInjectionSnippet(opts) == If(opts.pem, <<"+pem", "+ssl">>)

\* Mutant: ENV JAVA_TOOL_OPTIONS without what it was before.
trustStageBootstrapSnippetFresh(opts) == If(opts.store, <<"+store">>) \o If(opts.java, <<"+java only">>) \o If(opts.maven, <<"+maven">>)

trustStageBootstrapSnippet(opts) == If(opts.store, <<"+store">>) \o If(opts.java, <<"+java">>) \o If(opts.maven, <<"+maven">>)

\* Does a RUN come before the i-th instruction in its stage?
SawRun(content, i) ==
  \E j \in 1..(i - 1) : content[j] \in Runs /\ \A k \in j..(i - 1) : content[k] \notin {"from", "again"}

rewriteDockerfileWithTrustBundle(content, opts) ==
  FlattenSeq([i \in 1..Len(content) |->
    (IF content[i] \in Runs
     THEN (IF SawRun(content, i) THEN <<>> ELSE trustStageBootstrapSnippet(opts)) \o trustBundlePerRunInjectionSnippet(opts)
     ELSE <<>>) \o <<content[i]>>])

----------------------------------------------------------------------------
(* prepareBuildInputs: the directory is made only when the preview differs *)
(* from the Dockerfile, and removed when a later step fails.               *)
Base == [pem |-> FALSE, ssl |-> FALSE, store |-> FALSE, java |-> {}, maven |-> FALSE, own |-> FALSE]

prepareBuildInputs ==
  /\ phase = "plan"
  /\ IF ProxyFails THEN phase' = "failed" /\ UNCHANGED <<staged, out>>
     ELSE IF rewriteDockerfileWithTrustBundle(dockerfile, previewInjection) = dockerfile
     THEN phase' = "build" /\ out' = dockerfile /\ UNCHANGED staged
     ELSE \/ /\ ~ truststoreFails
             /\ staged' = TRUE /\ phase' = "build"
             /\ out' = rewriteDockerfileWithTrustBundle(dockerfile, trustInjectionOptionsFromStagedAssets)
          \/ phase' = "failed" /\ UNCHANGED <<staged, out>>
  /\ UNCHANGED <<dockerfile, env, bundle, image, seen>>

----------------------------------------------------------------------------
(* BuildKit executes an instruction, and what a RUN sees is recorded.  FROM *)
(* the stage before goes on with its image.                                *)
Effect(i, im) ==
  CASE i = "from" -> Base
    [] i = "update" -> [im EXCEPT !.pem = FALSE]
    [] i = "java" -> [im EXCEPT !.java = {"user"}, !.own = TRUE]
    [] i = "ssl" -> [im EXCEPT !.ssl = FALSE]
    [] i = "+pem" -> [im EXCEPT !.pem = TRUE]
    [] i = "+ssl" -> [im EXCEPT !.ssl = TRUE]
    [] i = "+store" -> [im EXCEPT !.store = TRUE]
    [] i = "+java" -> [im EXCEPT !.java = @ \cup {"bbox"}, !.own = FALSE]
    [] i = "+java only" -> [im EXCEPT !.java = {"bbox"}, !.own = FALSE]
    [] i = "+maven" -> [im EXCEPT !.maven = TRUE]
    [] OTHER -> im

Build ==
  /\ phase = "build" /\ out # <<>>
  /\ LET i == Head(out) IN
       /\ image' = Effect(i, image)
       /\ seen' = IF i \in Runs THEN Append(seen, image) ELSE seen
  /\ out' = Tail(out)
  /\ UNCHANGED <<dockerfile, env, bundle, phase, staged>>

----------------------------------------------------------------------------
Unset == [upper |-> "unset", lower |-> "unset"]
Pairs == [upper : {"unset", "blank", "p1", "bad"}, lower : {"unset", "p2", "bad"}]
Entries == {"*", ".corp", "*.corp", "corp", "corp:80", "10.0.0.0/8", "[::1]", "a*.corp", "a..corp"}
Words == {"from", "again", "run", "update", "java", "ssl"}
Files == {<<"from">> \o w : w \in UNION {[1..n -> Words] : n \in 0..MaxLength}}

\* Every Dockerfile with a few environments, every environment with one.
Inputs ==
  (Files \X {[http |-> h, https |-> Unset, noProxy |-> {}] : h \in {Unset, [upper |-> "p1", lower |-> "unset"]}})
    \cup ({<<"from", "run">>} \X [http : Pairs, https : Pairs, noProxy : {n \in SUBSET Entries : Cardinality(n) <= 2}])

Init ==
  /\ \E i \in Inputs : dockerfile = i[1] /\ env = i[2]
  /\ bundle \in {"none", "empty", "certs", "broken"}
  /\ phase = "plan" /\ staged = FALSE /\ out = <<>> /\ image = Base /\ seen = <<>>

Next == prepareBuildInputs \/ Build

Spec == Init /\ [][Next]_vars

----------------------------------------------------------------------------
\* Every RUN finds the bundle in its place and in its environment, whatever
\* the image, an earlier RUN or an ENV instruction did to them
\* (rewriteDockerfileWithTrustBundle).
TrustAtEveryRun == hasTrustBundle => \A i \in 1..Len(seen) : seen[i].pem /\ seen[i].ssl

\* A RUN finds the settings for Java and Maven unless the Dockerfile has set
\* JAVA_TOOL_OPTIONS since the first RUN of the stage: also in the second
\* stage, and in a stage made from another.
JavaUnlessReplaced ==
  \A i \in 1..Len(seen) :
    /\ hasTruststore => seen[i].store /\ ("bbox" \in seen[i].java \/ seen[i].own)
    /\ Enabled(proxyConfigFromEnv) => seen[i].maven /\ ("bbox" \in seen[i].java \/ seen[i].own)

\* The options a Dockerfile gives to Java reach every RUN that would have
\* seen them without the rewriting (trustStageBootstrapSnippet).
PlainRuns ==
  LET State[n \in 0..Len(dockerfile)] == IF n = 0 THEN Base ELSE Effect(dockerfile[n], State[n - 1])
      at == SelectSeq([n \in 1..Len(dockerfile) |-> n], LAMBDA n : dockerfile[n] \in Runs)
  IN [i \in 1..Len(at) |-> State[at[i] - 1]]
UserOptionsKept == \A i \in 1..Len(seen) : PlainRuns[i].java \subseteq seen[i].java

\* The preview decides as the rewriting does: nothing is staged for nothing,
\* and a Dockerfile is never built as it is when something would have been
\* put into it (prepareBuildInputs).
PreviewDecides ==
  phase = "build" => (staged <=> rewriteDockerfileWithTrustBundle(dockerfile, trustInjectionOptionsFromStagedAssets) # dockerfile)

\* Java and Maven bypass the proxy only where NO_PROXY says so
\* (normalizeJavaNonProxyEntry: what has no equivalent is left out).
Targets == {"corp", "a.corp", "other"} \X {80, 443}
NoProxyBypass(entry) ==
  {t \in Targets : \/ entry = "*"
                   \/ entry \in {".corp", "*.corp"} /\ t[1] = "a.corp"
                   \/ entry = "corp" /\ t[1] \in {"corp", "a.corp"}
                   \/ entry = "corp:80" /\ t[1] \in {"corp", "a.corp"} /\ t[2] = 80
                   \/ entry = "a*.corp" /\ t[1] = "a.corp"}
JavaBypass(pattern) == {t \in Targets : pattern = "*" \/ t[1] = pattern \/ (pattern = "*.corp" /\ t[1] = "a.corp")}
NeverWidens == phase = "build" =>
  \A p \in renderMavenSettings(proxyConfigFromEnv).nonProxy : JavaBypass(p) \subseteq UNION {NoProxyBypass(e) : e \in env.noProxy}

============================================================================
