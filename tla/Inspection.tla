----------------------------- MODULE Inspection -----------------------------
(***************************************************************************)
(* How one text or one proposed action is judged, from what the inspectors *)
(* report to what is delivered: the inspectors (detectors.py, presidio.py, *)
(* classifier.py), _findings, _judge and _transformed of the service, the  *)
(* merging of overlapping findings (sensitive.py), the output policy       *)
(* (output.py), and for actions the policy with its remote decision point  *)
(* and its fallback.                                                       *)
(*                                                                         *)
(* A text is Length characters, of which only the positions count.  A      *)
(* sighting is what a pattern, an alternative reading, a planted canary, a *)
(* Presidio entity or a classified passage is in the text itself; the      *)
(* inspectors make findings of sightings.  The gates before the judgement  *)
(* (audit, quotas, lockout) are in ContentGateway and ActionGateway.       *)
(***************************************************************************)
EXTENDS Policy, FiniteSets

CONSTANTS OwnTenant, OtherTenant,
          Length,             \* bound: characters of a text
          MaxFindings,        \* bound: sightings in one text
          MaxValues,          \* bound: located values in one text
          WindowChars, OverlapChars,       \* _WINDOW_CHARS, _OVERLAP_CHARS
          DeploymentRules, TenantRules,    \* bound: rules configured, or "unset"
          MaxSteps            \* bound: steps of a path, statements of a query

ASSUME TenantsAssumption == OwnTenant # OtherTenant /\ NoTenant \notin {OwnTenant, OtherTenant}
ASSUME RulesAssumption   == DeploymentRules \cup TenantRules \subseteq EntityActions \cup {"unset"}
ASSUME TextAssumption    == Length \in Nat /\ MaxFindings \in Nat /\ MaxValues \in Nat
ASSUME StepsAssumption   == MaxSteps \in Nat
ASSUME WindowAssumption  == OverlapChars \in Nat /\ WindowChars \in Nat /\ OverlapChars < WindowChars

VARIABLES
  settings,     \* Settings
  call          \* the request that was just decided

inspection == <<settings, call>>

-----------------------------------------------------------------------------
(* Settings *)

KeepSecretsIrreversible(s) ==
  {s.rules["secret"], s.tenantRules["secret"]} \cap {"allow", "pseudonymize"} = {}

Settings ==
  {s \in [opa : BOOLEAN, restricted : BOOLEAN,
          rules : [Sensitive -> DeploymentRules], tenantRules : [Sensitive -> TenantRules]] :
     KeepSecretsIrreversible(s) /\ (s.restricted => s.opa)}

(* action_resolver: the tenant's rule, else the deployment's, else redact. *)
Resolve(s) ==
  [c \in Sensitive |-> IF s.tenantRules[c] # "unset" THEN s.tenantRules[c]
                       ELSE IF s.rules[c] # "unset" THEN s.rules[c] ELSE "redact"]

-----------------------------------------------------------------------------
(* What is in a text, and what the inspectors make of it *)

NoWhere == <<0, 0>>      \* a finding without a location

Spans == {at \in (0..Length) \X (0..Length) : at[1] < at[2]}

(* Categories the rules treat alike have one representative. *)
PatternSightings ==
  [by : {"pattern"}, category : {"secret"}, at : Spans]
    \cup [by : {"pattern"}, category : {"prompt_injection", "embedded_action"}, at : {<<0, 1>>}]

ReadingSightings == [by : {"reading"}, category : {"secret", "prompt_injection"}, at : {NoWhere}]

CanarySightings == [by : {"canary"}, category : {"canary"}, at : {<<0, 1>>, NoWhere}]

PresidioSightings == [by : {"presidio"}, category : Pii, at : Spans \cup {<<0, Length + 1>>}]

ClassifierSightings ==
  [by : {"classifier"}, category : {"prompt_injection"}, at : Spans \cup {NoWhere}]

Sightings ==
  UNION {PatternSightings, ReadingSightings, CanarySightings, PresidioSightings,
         ClassifierSightings}

UpTo(n, S) == {{}} \cup {{f[i] : i \in 1..n} : f \in [1..n -> S]}

Texts ==
  UpTo(MaxFindings, Sightings)
    \cup UpTo(MaxValues, [by : {"pattern"}, category : {"secret"}, at : Spans]
                           \cup [by : {"presidio"}, category : Pii, at : Spans])

Finding(category, decoded, at) == [category |-> category, decoded |-> decoded, at |-> at]
By(text, inspector) == {s \in text : s.by = inspector}

(* inspect_findings: what only an alternative reading shows is evidence    *)
(* without a place, once for each category not seen in the text itself.    *)
DeterministicFindings(text) ==
  LET plain  == {s.category : s \in By(text, "pattern")}
      hidden == {s.category : s \in By(text, "reading")} \ plain
  IN {Finding(s.category, FALSE, s.at) : s \in By(text, "pattern")}
       \cup {Finding(c, TRUE, NoWhere) : c \in hidden}

(* CanaryInspector.inspect: other readings are looked at only when the     *)
(* canary is not in the text as it is.                                     *)
CanaryFindings(text) ==
  LET seen == {s \in By(text, "canary") : s.at # NoWhere}
  IN {Finding("canary", FALSE, s.at) : s \in IF seen # {} THEN seen ELSE By(text, "canary")}

(* PresidioInspector.inspect: one result that cannot be read spoils all. *)
PresidioReadable(text) ==
  \A s \in By(text, "presidio") :
    0 <= s.at[1] /\ s.at[1] < s.at[2] /\ s.at[2] <= Length

PresidioFindings(text) == {Finding(s.category, FALSE, s.at) : s \in By(text, "presidio")}

(* Mutant of Windows: the windows do not overlap. *)
WindowsSideBySide(length) ==
  {[from |-> k * WindowChars, to |-> (k + 1) * WindowChars] : k \in 0..length}

(* windows: the passages a text is classified in. *)
Windows(length) ==
  LET step == WindowChars - OverlapChars
      starts == {k \in 0..(length - OverlapChars - 1) : k % step = 0}
  IN IF length <= WindowChars THEN {[from |-> 0, to |-> length]}
     ELSE {[from |-> k, to |-> k + WindowChars] : k \in starts}

(* InjectionClassifierInspector.inspect: an answer without a place is one  *)
(* that cannot be read; an injection is recognised in a window that shows  *)
(* all of it, and found without a location.                                *)
ClassifierReadable(text) == \A s \in By(text, "classifier") : s.at # NoWhere

ClassifierFindings(text) ==
  LET recognised == {s \in By(text, "classifier") :
                       \E w \in Windows(Length) : w.from <= s.at[1] /\ s.at[2] <= w.to}
  IN {Finding("prompt_injection", FALSE, NoWhere) : s \in recognised}

(* _findings: the union, unless an inspector is unavailable. *)
Inspectable(text) == PresidioReadable(text) /\ ClassifierReadable(text)

Findings(text) ==
  DeterministicFindings(text) \cup CanaryFindings(text)
    \cup PresidioFindings(text) \cup ClassifierFindings(text)

-----------------------------------------------------------------------------
(* transform *)

(* Mutant of Joined: the later span decides where the value ends. *)
JoinedToLater(held, span) ==
  [held EXCEPT !.to = span.to, !.action = IF "redact" \in {@, span.action} THEN "redact" ELSE @]

(* Overlapping spans are one value: the irreversible rule wins. *)
Joined(held, span) ==
  [held EXCEPT !.to = IF span.to > @ THEN span.to ELSE @,
               !.action = IF "redact" \in {@, span.action} THEN "redact" ELSE span.action]

(* sorted: by where a span starts, of those that start together the longest *)
(* first.                                                                  *)
Before(a, b) == a.from < b.from \/ (a.from = b.from /\ a.to > b.to)

Sorted(spans) ==
  CHOOSE q \in SetToSeqs(spans) : \A i, j \in DOMAIN q : i < j => ~Before(q[j], q[i])

(* _merged: one turn of the loop, what is held after each, what is held in *)
(* the end.                                                                *)
Held(merged, span) ==
  IF merged # << >> /\ span.from < Last(merged).to
  THEN [merged EXCEPT ![Len(merged)] = Joined(@, span)] ELSE Append(merged, span)

Merging(q) ==
  LET merged[k \in 0..Len(q)] == IF k = 0 THEN << >> ELSE Held(merged[k - 1], q[k])
  IN merged

Merged(spans) == LET q == Sorted(spans) IN Merging(q)[Len(q)]

(* The located values a rule replaces. *)
Replaced(findings, rule) ==
  {[from |-> f.at[1], to |-> f.at[2], action |-> rule[f.category]] :
     f \in {f \in findings : /\ f.at # NoWhere
                             /\ f.category \in Sensitive
                             /\ rule[f.category] \in {"redact", "pseudonymize"}}}

(* transform: the characters that remain between the replaced values, and  *)
(* the passages given to the vault.                                        *)
Transform(findings, rule) ==
  LET merged == Merged(Replaced(findings, rule))
      n      == Len(merged)
      cursor(k) == IF k = 0 THEN 0 ELSE merged[k].to
      stop(k)   == IF k = n THEN Length ELSE merged[k + 1].from
  IN [kept   |-> UNION {cursor(k)..(stop(k) - 1) : k \in 0..n},
      vaulted |-> {<<merged[k].from, merged[k].to>> :
                     k \in {k \in 1..n : merged[k].action = "pseudonymize"}}]

Whole   == [kept |-> 0..(Length - 1), vaulted |-> {}]
Nothing == [kept |-> {}, vaulted |-> {}]

-----------------------------------------------------------------------------
(* output.py *)

(* The facts output_verdict looks at: a disallowed term, how the output    *)
(* fares against a schema, what each sentence cites, whether sources are   *)
(* given and citations required, whether the output declines to answer,    *)
(* and whether a required disclaimer is missing (not with a schema).       *)
OutputFacts ==
  {o \in [disallowed : BOOLEAN, schema : {"none", "broken", "unmet", "met"},
          sentences : SeqOf({"uncited", "unknown", "unsupported", "supported"}, 2),
          sources : BOOLEAN, required : BOOLEAN, abstains : BOOLEAN,
          disclaimer : {"none", "missing", "present"}] :
     o.schema # "none" => o.disclaimer = "none"}

PlainOutput ==
  [disallowed |-> FALSE, schema |-> "none", sentences |-> <<"uncited">>, sources |-> FALSE,
   required |-> FALSE, abstains |-> FALSE, disclaimer |-> "none"]

(* _citation_violation: the first sentence that cites wrongly decides. *)
CitationViolation(o) ==
  LET wrong == SelectSeq(o.sentences, LAMBDA s : s \in {"unknown", "unsupported"})
      cited == \E i \in DOMAIN o.sentences : o.sentences[i] # "uncited"
  IN FirstOf(<<
       Deny(wrong # << >> /\ Head(wrong \o <<"none">>) = "unknown", "citation_unknown_source"),
       Deny(wrong # << >>, "citation_not_supported"),
       Rule(o.required /\ ~cited /\ o.abstains, "allow", "abstention_accepted"),
       Deny(o.required /\ ~cited, "citation_required"),
       Rule(TRUE, "allow", "policy_allow")>>)

OutputVerdict(o) ==
  LET citation == CitationViolation(o)
  IN FirstOf(<<
       Deny(o.disallowed, "disallowed_content_category"),
       Deny(o.schema = "broken", "structured_output_schema_invalid"),
       Deny(o.schema = "unmet", "structured_output_invalid"),
       Rule((o.sources \/ o.required) /\ citation[2] # "policy_allow", citation[1], citation[2]),
       Rule(o.disclaimer = "missing", "transform", "disclaimer_appended"),
       Rule(TRUE, "allow", "policy_allow")>>)

-----------------------------------------------------------------------------
(* service.inspect_content and service._judge_document *)

ContentRequests ==
  [kind : {"content"}, point : {"input", "context", "output"}, trust : {"trusted", "untrusted"},
   tenant : {OwnTenant, OtherTenant}, source : {NoTenant, OtherTenant},
   model : {"hosted", "local", "unlisted"}]

(* A retrieved document: its labels and its access lists. *)
Documents ==
  {doc \in [kind : {"document"}, point : {"context"}, trust : {"trusted", "untrusted"},
            tenant : {OwnTenant}, source : {OwnTenant, OtherTenant}, model : {"none"},
            classified : BOOLEAN, identities : {"unlisted", "me", "another"},
            roles : {"unlisted", "mine", "others"}] :
     "unlisted" \in {doc.identities, doc.roles}}

ModelEligible(model) == model \in {"none", "hosted", "local"}

(* _may_read *)
MayRead(doc) ==
  /\ ~doc.classified
  /\ \/ doc.identities = "unlisted" /\ doc.roles = "unlisted"
     \/ doc.identities = "me"
     \/ doc.roles = "mine"

(* The early returns, before anything looks into the text. *)
Refusal(req) ==
  IF req.kind = "document"
  THEN FirstOf(<<Deny(req.source # OwnTenant, "cross_tenant_context"),
                 Deny(~MayRead(req), "document_not_authorized"),
                 Rule(TRUE, "allow", "none")>>)
  ELSE FirstOf(<<Deny(req.tenant # OwnTenant, "identity_assertion_mismatch"),
                 Deny(~ModelEligible(req.model), "model_not_eligible"),
                 Rule(TRUE, "allow", "none")>>)

(* What the decision point answers: the deployed rules, or nothing that    *)
(* can be used.                                                            *)
ContentAnswer(reply, req, evidence, rule) ==
  IF reply = "rules" THEN RegoContent(ContentDocument(req, evidence, rule)) ELSE Unavailable

(* _judge *)
Judge(req, text, reply) ==
  LET rule     == Resolve(settings)
      evidence == Findings(text)
      local    == ContentVerdict(req, evidence, rule)
      remote   == OpaContent(ContentAnswer(reply, req, evidence, rule))
  IN IF ~Inspectable(text) THEN <<"deny", "content_inspection_unavailable">>
     ELSE IF ~settings.opa THEN local
     ELSE IF remote # Unavailable THEN remote
     ELSE IF ~settings.restricted THEN <<"deny", "policy_engine_unavailable">>
     ELSE IF local[1] = "allow" THEN <<"allow", "restricted_read_only_mode">>
     ELSE local

(* What is decided, and what of the text goes on. *)
Decision(verdict, reason, delivered) ==
  [verdict |-> verdict, reason |-> reason, delivered |-> delivered]

DecideContent(req, text, reply, output) ==
  LET judged == Judge(req, text, reply)
      shaped == OutputVerdict(output)
  IN CASE judged[1] = "deny" -> Decision("deny", judged[2], Nothing)
       [] judged[1] = "transform" /\ req.model = "local" ->
            Decision("allow", "sensitive_content_local_only", Whole)
       [] judged[1] = "transform" /\ req.model # "local" ->
            Decision("transform", judged[2], Transform(Findings(text), Resolve(settings)))
       [] judged[1] = "allow" /\ req.point = "output" ->
            Decision(shaped[1], IF shaped[2] = "policy_allow" THEN judged[2] ELSE shaped[2],
                     IF shaped[1] = "deny" THEN Nothing ELSE Whole)
       [] judged[1] = "allow" /\ req.point # "output" -> Decision("allow", judged[2], Whole)

NoCall == [kind |-> "idle"]

InspectionInit == settings \in Settings /\ call = NoCall

RefuseContent(req) ==
  /\ call = NoCall
  /\ Refusal(req)[1] = "deny"
  /\ call' = [kind |-> "refused", req |-> req, reason |-> Refusal(req)[2]]
  /\ UNCHANGED settings

(* Bound: the facts about an output vary where nothing is found in it. *)
Outputs(req, text) ==
  IF req.point = "output" /\ text = {} THEN OutputFacts ELSE {PlainOutput}

InspectContent(req, text, reply, output) ==
  /\ call = NoCall
  /\ Refusal(req)[1] = "allow"
  /\ settings.opa \/ reply = "rules"
  /\ call' = [kind |-> "content", req |-> req, text |-> text,
              decision |-> DecideContent(req, text, reply, output)]
  /\ UNCHANGED settings

-----------------------------------------------------------------------------
(* service.inspect_action, up to the approval *)

Argument(tool) ==
  {[fit |-> FALSE]} \cup
  CASE tool = "execute_sql" ->
         {[fit |-> TRUE, query |-> [parses |-> p, statements |-> s]] :
            p \in BOOLEAN, s \in SeqOf(StatementKinds, 2)}
    [] tool = "read_file" ->
         {[fit |-> TRUE, path |-> [odd |-> o, steps |-> s]] :
            o \in BOOLEAN, s \in SeqOf({"workspace", "notes", ".", ".."}, MaxSteps)}
    [] tool = "fetch_url" ->
         {[fit |-> TRUE, url |-> u] :
            u \in [parses : BOOLEAN, scheme : {"https", "http"}, userinfo : BOOLEAN,
                   port : {"none", "443", "8443"},
                   host : {"", "127.0.0.1", "listed.example", "Listed.Example.", "other.example"}]}
    [] tool = "run_code" -> {[fit |-> TRUE, network |-> n] : n \in BOOLEAN}
    [] OTHER -> {[fit |-> TRUE]}

ActionRequest(tool, roles, effect, resource, arguments) ==
  [tool |-> tool, roles |-> roles, effect |-> effect, tenant |-> OwnTenant,
   resource |-> resource, arguments |-> arguments]

(* What a decision point may answer: the deployed rules, or any verdict of *)
(* another bundle, a verdict not meant for actions, no code for a reason,  *)
(* nothing.                                                                *)
Replies == {"rules", "none", "not a code"} \cup Verdicts

ActionAnswer(reply, req) ==
  CASE reply = "rules"      -> RegoAction(ActionDocument(req))
    [] reply = "none"       -> Unavailable
    [] reply = "not a code" -> <<"allow", "not a code">>
    [] reply \in Verdicts   -> <<reply, "policy_bundle">>

(* The fallback serves read-only actions, and allows or denies. *)
JudgeAction(req, reply) ==
  LET local  == ActionVerdict(req)
      remote == OpaAction(req, ActionAnswer(reply, req))
  IN IF ~settings.opa THEN local
     ELSE IF remote # Unavailable THEN remote
     ELSE IF ~(settings.restricted /\ req.effect \in {"none", "read"})
          THEN <<"deny", "policy_engine_unavailable">>
     ELSE IF local[1] # "allow" THEN <<"deny", local[2]>>
     ELSE <<"allow", "restricted_read_only_mode">>

InspectAction(req, reply) ==
  /\ call = NoCall
  /\ settings.opa \/ reply = "rules"
  /\ call' = [kind |-> "action", req |-> req, decided |-> JudgeAction(req, reply)]
  /\ UNCHANGED settings

(* Bound: actions are enumerated where no rule is set; the rules are about *)
(* texts.                                                                  *)
NoRules == \A c \in Sensitive : settings.rules[c] = "unset" /\ settings.tenantRules[c] = "unset"

(* The answer is sent and the next request may come. *)
Respond ==
  /\ call # NoCall
  /\ call' = NoCall
  /\ UNCHANGED settings

InspectionNext ==
  \/ \E req \in ContentRequests \cup Documents : RefuseContent(req)
  \/ \E req \in ContentRequests \cup Documents :
       /\ call = NoCall /\ Refusal(req)[1] = "allow"
       /\ \E text \in Texts, reply \in {"rules", "none"} :
            \E output \in Outputs(req, text) : InspectContent(req, text, reply, output)
  \/ /\ call = NoCall /\ NoRules
     /\ \E tool \in DOMAIN Tools \cup {"run_shell"}, roles \in {{}, {"caller"}, {"operator"}},
           effect \in SideEffects, resource \in {OwnTenant, OtherTenant}, reply \in Replies :
          \E arguments \in Argument(tool) :
            InspectAction(ActionRequest(tool, roles, effect, resource, arguments), reply)
  \/ Respond

InspectionSpec == InspectionInit /\ [][InspectionNext]_inspection

-----------------------------------------------------------------------------
(* README "Sensitive content": whatever overlaps whatever, no character of *)
(* a value whose category has a rule is delivered, except to a model       *)
(* inside the trusted boundary; nothing with a character of a secret, or   *)
(* of a value to be redacted, is stored in the vault; and a value whose    *)
(* rule is to deny stops the text everywhere.                              *)
NothingSensitivePasses ==
  call.kind = "content" =>
    LET rule == Resolve(settings)
        delivered == call.decision.delivered
        located(actions) ==
          {s \in call.text : s.category \in Sensitive /\ s.at # NoWhere
                              /\ rule[s.category] \in actions}
        Characters(s) == s.at[1]..(s.at[2] - 1)
    IN /\ \A s \in located({"redact", "pseudonymize"}) :
            \/ call.decision.reason = "sensitive_content_local_only" /\ call.req.model = "local"
            \/ Characters(s) \cap delivered.kept = {}
       /\ \A s \in located({"deny"}) : delivered = Nothing
       /\ \A s \in located(EntityActions), v \in delivered.vaulted :
            s.category = "secret" \/ rule[s.category] = "redact"
              => Characters(s) \cap v[1]..(v[2] - 1) = {}

(* classifier.py "enough overlap that a sentence split by a boundary is    *)
(* still read whole by one window": an injection the classifier would      *)
(* recognise and that is at most a character longer than the overlap never *)
(* passes in a retrieved or untrusted text, wherever it stands, nor does   *)
(* one that a pattern matches or that only an alternative reading shows.   *)
InjectionNeverPasses ==
  /\ call.kind = "content"
  /\ call.req.point = "context" \/ call.req.trust = "untrusted"
  /\ \E s \in call.text : /\ s.category = "prompt_injection"
                          /\ s.by = "classifier" => s.at[2] - s.at[1] <= OverlapChars + 1
  => call.decision.delivered = Nothing

(* opa.py and deploy/opa: for every text and every action the deployed     *)
(* rules, asked through the client, decide what the built-in policy        *)
(* decides, with the same reason.                                          *)
RemoteAgrees ==
  /\ call.kind = "content" =>
       LET rule == Resolve(settings)
           evidence == Findings(call.text)
       IN OpaContent(ContentAnswer("rules", call.req, evidence, rule))
            = ContentVerdict(call.req, evidence, rule)
  /\ call.kind = "action" =>
       OpaAction(call.req, ActionAnswer("rules", call.req)) = ActionVerdict(call.req)

(* Where a path leads, walked step by step from a directory below the root *)
(* of a file system whose workspace is one level up.                       *)
Walk(at, step) ==
  CASE step = "."  -> at
    [] step = ".." -> IF at = << >> THEN at ELSE Front(at)
    [] OTHER       -> Append(at, step)

Walked(steps) ==
  LET at[k \in 0..Len(steps)] == IF k = 0 THEN <<"srv">> ELSE Walk(at[k - 1], steps[k])
  IN at

LeadsTo(steps) == Walked(steps)[Len(steps)]

SafeArguments(req) ==
  LET a == req.arguments IN
  /\ a.fit
  /\ req.tool = "read_file" =>
       ~a.path.odd /\ Len(LeadsTo(a.path.steps)) >= 2
         /\ SubSeq(LeadsTo(a.path.steps), 1, 2) = <<"srv", "workspace">>
  /\ req.tool = "execute_sql" => a.query.parses /\ a.query.statements = <<"select">>
  /\ req.tool = "fetch_url" =>
       /\ a.url.parses /\ a.url.scheme = "https" /\ ~a.url.userinfo
       /\ a.url.port # "8443" /\ a.url.host \in {"listed.example", "Listed.Example."}
  /\ req.tool = "run_code" => (a.network => req.effect = "external")

(* opa.py "arguments the gateway could not parse or found unsafe are never *)
(* executed, whatever a bundle says": an action of a known tool goes on    *)
(* only if its path really stays in the workspace, its query is one plain  *)
(* SELECT, its URL leads to an allowed host over https, and code that      *)
(* reaches the network says so.                                            *)
UnsafeArgumentsRefused ==
  call.kind = "action" /\ call.req.tool \in DOMAIN Tools /\ call.decided[1] # "deny"
    => SafeArguments(call.req)
=============================================================================
