------------------------------- MODULE Policy -------------------------------
(***************************************************************************)
(* The network policy of a sandbox (policy.go, policy_eval.go): compiling  *)
(* rules, normalizing the host a client asks for, and the four questions   *)
(* the manager asks of a policy for one visit of a client: may the name be *)
(* looked up, may the redirected connection be opened, may the CONNECT     *)
(* tunnel be opened, may the request be sent.                              *)
(*                                                                         *)
(* A pattern is the value it matches; a text is a record of the shape of   *)
(* the host string and the host in it.  What a client asks for, and the    *)
(* rules of its policy, are drawn from small sets in every combination.    *)
(***************************************************************************)
EXTENDS Integers, Sequences, FiniteSets

CONSTANT MaxRules   \* rules in a policy

VARIABLES rules,     \* compiledPolicy.rules
          visit,     \* what the client asks for
          verdicts   \* the four evaluations of that visit

vars == <<rules, visit, verdicts>>

Names == {"a.test", "b.test"}

Literals == {"v4", "v6"}

Texts == [form : {"plain", "port"}, host : Names \cup {"v4"}]
           \cup [form : {"bracket", "bracketport", "bare"}, host : {"v6"}]
           \cup {[form |-> f, host |-> "a.test"] : f \in {"badport", "bracket"}}
           \cup {[form |-> "plain", host |-> ""]}

PortSpecs == {<<443, 443>>, <<1, 1024>>, <<1024, 1>>, <<0, 80>>, <<80, 65536>>}

\* What the fields of a PolicyRule may hold.  A header name with an empty list
\* of values, {""}, is a form of its own: the compiled rule does not keep the
\* name.
Values ==
  [hosts |-> {{}, {"a.test"}, {"a.test", "v6"}}, cidrs |-> {{}, {"v4"}, {"v4", "v6"}},
   methods |-> {{}, {"GET"}, {"GET", ""}}, ports |-> {{}} \cup {{p} : p \in PortSpecs},
   paths |-> {{}, {"p"}}, headers |-> {{}, {""}, {"v"}}, bodies |-> {{}, {"b"}}]

\* Rules that constrain at most two fields.
RuleSpecs ==
  LET Fields == DOMAIN Values
      Free == [f \in Fields |-> {}]
  IN UNION {{[Free EXCEPT ![p[1]] = v, ![p[2]] = w] : v \in Values[p[1]], w \in Values[p[2]]} :
              p \in Fields \X Fields}

\* parsePortNumber on both ends, then the order of the ends.
parseConnectPortSpec(p) == p[1] \in 1..65535 /\ p[2] \in 1..65535 /\ p[1] <= p[2]

compilable(spec) == "" \notin spec.methods /\ \A p \in spec.ports : parseConnectPortSpec(p)

\* The rules of the policies looked at.
Candidates == {spec \in RuleSpecs : compilable(spec)}

compileHeaderPatterns(h) == h \ {""}

compilePolicyRule(spec) == [spec EXCEPT !.headers = compileHeaderPatterns(spec.headers)]

Invalid == "invalid"

normalizePolicyHostname(t) ==
  IF \/ t.host = ""
     \/ t.form \in {"bare", "badport"}
     \/ t.form = "bracket" /\ t.host # "v6"
  THEN Invalid ELSE t.host

\* splitConnectTarget: only host:port and [v6]:port are accepted.
splitConnectTarget(t) ==
  IF t.form \in {"port", "bracketport"} /\ t.host # "" THEN t.host ELSE Invalid

Allowed == [allowed |-> TRUE, reason |-> ""]

Denied(why) == [allowed |-> FALSE, reason |-> why]

matchConnectPort(ranges, port) == \E p \in ranges : port >= p[1] /\ port <= p[2]

\* matchesHostDetailed: patterns and networks must both match; a network
\* never matches a name.
matchesHost(r, host) ==
  IF r.hosts # {} /\ host \notin r.hosts THEN "host"
  ELSE IF r.cidrs = {} THEN ""
  ELSE IF host \notin Literals THEN "host"
  ELSE IF host \in r.cidrs THEN "" ELSE "ip"

matchesMethod(r, method) == r.methods = {} \/ method \in r.methods

matches(patterns, value) == patterns = {} \/ value \in patterns

hasContent(r) == r.paths # {} \/ r.headers # {} \/ r.bodies # {}

\* The loop the evaluations share, from what each rule says: "skip" is nothing,
\* the first one without an objection allows, and the objection reported is
\* the first one met, except that an uninspected body is reported before it.
firstMatch(said) ==
  LET objections == SelectSeq(said, LAMBDA o : o \notin {"skip", "toolarge"})
  IN IF \E i \in DOMAIN said : said[i] = "" THEN Allowed
     ELSE IF \E i \in DOMAIN said : said[i] = "toolarge" THEN Denied("toolarge")
     ELSE IF objections = <<>> THEN Denied("nomatch")
     ELSE Denied(Head(objections))

evaluateDNS(rs, t) ==
  IF t.host = "" THEN Denied("nohost")
  ELSE firstMatch([i \in DOMAIN rs |->
         IF rs[i].cidrs # {} \/ rs[i].methods # {} \/ rs[i].ports # {} \/ hasContent(rs[i]) THEN "skip"
         ELSE matchesHost(rs[i], t.host)])

\* A redirected connection: host is the text the helper registered for the
\* destination, which is a bare name or literal.
evaluateTransparentConnect(rs, t) ==
  LET host == normalizePolicyHostname(t)
  IN IF host = Invalid THEN Denied("nohost")
     ELSE firstMatch([i \in DOMAIN rs |->
            IF rs[i].methods # {} \/ rs[i].ports # {} \/ hasContent(rs[i]) THEN "skip"
            ELSE matchesHost(rs[i], host)])

\* Mutant: the loop goes on after a rule that matches, so the objection of a
\* later rule replaces the verdict.
evaluateConnectNoReturn(rs, host, port) ==
  LET heard == SelectSeq(rs, LAMBDA r : r.methods = {} /\ ~ hasContent(r))
  IN IF host = "" THEN Denied("nohost")
     ELSE IF heard = <<>> THEN Denied("nomatch")
     ELSE IF matchesHost(heard[Len(heard)], host) # "" THEN Denied(matchesHost(heard[Len(heard)], host))
     ELSE IF matchConnectPort(heard[Len(heard)].ports, port) THEN Allowed ELSE Denied("port")

evaluateConnect(rs, host, port) ==
  IF host = "" THEN Denied("nohost")
  ELSE firstMatch([i \in DOMAIN rs |->
         IF rs[i].methods # {} \/ hasContent(rs[i]) THEN "skip"
         ELSE IF matchesHost(rs[i], host) # "" THEN matchesHost(rs[i], host)
         ELSE IF matchConnectPort(rs[i].ports, port) THEN "" ELSE "port"])

RequestObjection(r, host, v) ==
  IF ~ matchesMethod(r, v.method) THEN "method"
  ELSE IF matchesHost(r, host) # "" THEN matchesHost(r, host)
  ELSE IF ~ matches(r.paths, v.path) THEN "path"
  ELSE IF ~ matches(r.headers, v.header) THEN "header"
  ELSE IF v.tooLarge /\ r.bodies # {} THEN "toolarge"
  ELSE IF ~ matches(r.bodies, v.body) THEN "body"
  ELSE ""

evaluateRequest(rs, v) ==
  LET host == normalizePolicyHostname(v.text)
  IN IF host = Invalid THEN Denied("nohost")
     ELSE firstMatch([i \in DOMAIN rs |->
            IF rs[i].ports # {} THEN "skip" ELSE RequestObjection(rs[i], host, v)])

\* evaluate, the check by method and host alone.
evaluate(rs, v, connect) ==
  LET host == IF connect THEN splitConnectTarget(v.text) ELSE normalizePolicyHostname(v.text)
  IN IF host = Invalid THEN Denied("nohost")
     ELSE IF connect THEN evaluateConnect(rs, host, v.port)
     ELSE firstMatch([i \in DOMAIN rs |->
            IF rs[i].ports # {} \/ hasContent(rs[i]) THEN "skip"
            ELSE IF matchesMethod(rs[i], v.method) THEN matchesHost(rs[i], host) ELSE "method"])

\* Visits that differ from the one all patterns are made for in at most one of
\* method, path, header and body, and visits with a body that is too large.
Visits ==
  {v \in [text : Texts, port : {443}, method : {"GET", "POST"}, path : {"p", "q"},
          header : {"v", "none"}, body : {"b", "c"}, tooLarge : {FALSE}] :
     Cardinality({v.method, v.path, v.header, v.body} \cap {"POST", "q", "none", "c"}) <= 1}
    \cup [text : Texts, port : {443, 2000}, method : {"GET"}, path : {"p", "q"},
          header : {"v"}, body : {"none"}, tooLarge : {TRUE}]

Judge(rs, v) ==
  [dns |-> evaluateDNS(rs, v.text), redirect |-> evaluateTransparentConnect(rs, v.text),
   connect |-> evaluateConnect(rs, v.text.host, v.port), request |-> evaluateRequest(rs, v),
   check |-> evaluate(rs, v, FALSE), checkConnect |-> evaluate(rs, v, TRUE)]

Init ==
  /\ rules = <<>>
  /\ visit \in Visits
  /\ verdicts = Judge(rules, visit)

\* One more rule in the list given to compilePolicy: a rule it refuses makes
\* the whole policy unusable, so it is never evaluated.
AddRule(spec) ==
  /\ rules' = Append(rules, compilePolicyRule(spec))
  /\ verdicts' = Judge(rules', visit)
  /\ UNCHANGED visit

Next == Len(rules) < MaxRules /\ \E spec \in Candidates : AddRule(spec)

Spec == Init /\ [][Next]_vars

----------------------------------------------------------------------------
(* Rules only allow: adding a rule to a policy never turns an allowed       *)
(* lookup, connection, tunnel or request into a denied one, wherever the    *)
(* loops of policy_eval.go skip, object or return.                          *)
GrowthNeverDenies ==
  [][\A q \in DOMAIN verdicts : verdicts[q].allowed => verdicts'[q].allowed]_vars

(* The stages of one visit do not contradict each other: a name that may be *)
(* looked up may be connected to, a redirected connection that was opened   *)
(* is not refused any request to that host, and what Check allows by method *)
(* and host alone, the request evaluation allows too.                       *)
StagesAgree ==
  /\ verdicts.dns.allowed /\ visit.text.form = "plain" => verdicts.redirect.allowed
  /\ verdicts.redirect.allowed => verdicts.request.allowed
  /\ verdicts.check.allowed => verdicts.request.allowed
  /\ verdicts.checkConnect.allowed => verdicts.connect.allowed

(* A request refused because its body was not inspected would have been     *)
(* allowed with some body: a rule accepts everything else about it.         *)
SizeIsTheOnlyObstacle ==
  verdicts.request.reason = "toolarge" =>
     \E b \in {"b", "c"} :
        evaluateRequest(rules, [visit EXCEPT !.tooLarge = FALSE, !.body = b]).allowed

=============================================================================
