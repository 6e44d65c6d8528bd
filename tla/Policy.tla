------------------------------- MODULE Policy -------------------------------
(***************************************************************************)
(* What is decided about a text or a proposed action, as functions of what *)
(* is known about it: the built-in policy (policy.py), the facts about     *)
(* tool arguments (tools.py), the client of the policy decision point      *)
(* (opa.py) and the Rego rules it is deployed with                         *)
(* (deploy/opa/policy/guardrail).                                          *)
(*                                                                         *)
(* A decision is a table of rules of which the first that applies is       *)
(* taken.  A text is known by the evidence found in it, SQL by the kinds   *)
(* of its statements, a path by its steps, a URL by its parts.             *)
(***************************************************************************)
EXTENDS Naturals, Sequences, SequencesExt

CONSTANTS Pii,            \* the categories that start with pii_
          NoTenant        \* a content that names no source tenant

ASSUME PiiAssumption ==
  Pii \cap {"secret", "canary", "prompt_injection", "jailbreak", "embedded_action"} = {}

Verdicts      == {"allow", "deny", "transform", "require_approval"}
EntityActions == {"allow", "redact", "pseudonymize", "deny"}
SideEffects   == {"none", "read", "write", "external", "destructive"}
Sensitive     == {"secret"} \cup Pii

(* A table of rules: the first one that applies decides. *)
Rule(when, verdict, reason) == [when |-> when, then |-> <<verdict, reason>>]
Deny(when, reason) == Rule(when, "deny", reason)

FirstOf(rules) ==
  LET i == CHOOSE i \in DOMAIN rules : rules[i].when /\ \A j \in 1..(i - 1) : ~rules[j].when
  IN rules[i].then

-----------------------------------------------------------------------------
(* Content *)

(* policy.content_verdict: evidence is [category, decoded], `rule` the     *)
(* action for each sensitive category.                                     *)
ContentRules(req, evidence, rule) ==
  LET categories == {e.category : e \in evidence}
      governed   == {rule[c] : c \in categories \cap Sensitive} \ {"allow"}
  IN <<
       Deny(req.source \notin {NoTenant, req.tenant}, "cross_tenant_context"),
       Deny("canary" \in categories, "canary_leak_detected"),
       Deny(\E e \in evidence : e.decoded, "obfuscated_content_detected"),
       Deny("embedded_action" \in categories /\ req.point \in {"output", "context"},
            "embedded_action_detected"),
       Deny(/\ categories \cap {"prompt_injection", "jailbreak"} # {}
            /\ req.point = "context" \/ req.trust = "untrusted", "prompt_injection_detected"),
       Deny("deny" \in governed, "sensitive_content_denied"),
       Deny(governed # {} /\ req.point = "output", "sensitive_output_detected"),
       Rule(governed = {"pseudonymize"}, "transform", "sensitive_content_pseudonymized"),
       Rule(governed # {}, "transform", "sensitive_content_redacted"),
       Rule(TRUE, "allow", "policy_allow")>>

ContentVerdict(req, evidence, rule) == FirstOf(ContentRules(req, evidence, rule))

(* Mutant of ContentDocument: the tenant's rules are not sent. *)
ContentDocumentUnruled(req, evidence, rule) ==
  [req |-> req, evidence |-> {[category |-> e.category, obfuscated |-> e.decoded] : e \in evidence},
   entity_actions |-> [c \in {} |-> "redact"]]

(* opa.content_verdict: what the decision point is told. *)
ContentDocument(req, evidence, rule) ==
  [req |-> req, evidence |-> {[category |-> e.category, obfuscated |-> e.decoded] : e \in evidence},
   entity_actions |-> [c \in {e.category : e \in evidence} |->
                         IF c \in Sensitive THEN rule[c] ELSE "redact"]]

(* content.rego: the same questions, asked of the document. *)
RegoContentRules(doc) ==
  LET categories == {item.category : item \in doc.evidence}
      ruled(c)   == IF c \in DOMAIN doc.entity_actions THEN doc.entity_actions[c] ELSE "redact"
      governed   == {a \in {ruled(c) : c \in categories \cap Sensitive} : a # "allow"}
      untrusted  == doc.req.point = "context" \/ doc.req.trust = "untrusted"
  IN <<
       Deny(doc.req.source # NoTenant /\ doc.req.source # doc.req.tenant,
            "cross_tenant_context"),
       Deny("canary" \in categories, "canary_leak_detected"),
       Deny(\E item \in doc.evidence : item.obfuscated, "obfuscated_content_detected"),
       Deny("embedded_action" \in categories /\ doc.req.point \in {"output", "context"},
            "embedded_action_detected"),
       Deny(categories \cap {"prompt_injection", "jailbreak"} # {} /\ untrusted,
            "prompt_injection_detected"),
       Deny("deny" \in governed, "sensitive_content_denied"),
       Deny(governed # {} /\ doc.req.point = "output", "sensitive_output_detected"),
       Rule(governed = {"pseudonymize"}, "transform", "sensitive_content_pseudonymized"),
       Rule(governed # {}, "transform", "sensitive_content_redacted"),
       Rule(doc.req.point \in {"input", "context", "output"}, "allow", "policy_allow"),
       Deny(TRUE, "policy_default_deny")>>

RegoContent(doc) == FirstOf(RegoContentRules(doc))

-----------------------------------------------------------------------------
(* Tools and their arguments *)

Fine == "fine"      \* no violation

(* tools.TOOLS: what each tool may do and who may propose it. *)
Permits(effects, roles) == [effects |-> effects, roles |-> roles]

Tools ==
  [search_documents |-> Permits({"none", "read"}, {"caller", "operator"}),
   execute_sql      |-> Permits({"read"}, {"caller", "operator"}),
   read_file        |-> Permits({"read"}, {"caller", "operator"}),
   send_email       |-> Permits({"external"}, {"operator"}),
   fetch_url        |-> Permits({"external"}, {"operator"}),
   update_record    |-> Permits({"write"}, {"operator"}),
   delete_record    |-> Permits({"destructive"}, {"operator"}),
   run_code         |-> Permits({"none", "external"}, {"operator"})]

ApprovalEffects == {"write", "external", "destructive"}

(* A parsed query: the kinds of its statements.  A select may carry a      *)
(* statement that changes something, or a function nobody knows.           *)
StatementKinds == {"nothing", "select", "select_changing", "select_unknown", "other"}

SqlViolation(query) ==
  LET only == IF Len(query.statements) = 1 THEN query.statements[1] ELSE "several"
      none == \A i \in DOMAIN query.statements : query.statements[i] = "nothing"
  IN IF ~query.parses \/ none THEN "invalid_sql_arguments"
     ELSE IF only \notin {"select", "select_unknown"} THEN "sql_not_read_only"
     ELSE IF only = "select_unknown" THEN "sql_function_not_allowed"
     ELSE Fine

(* posixpath.normpath, on the steps of a relative path: one step, what is  *)
(* left after each, what is left in the end.                               *)
NormStep(done, step) ==
  IF step = "." THEN done
  ELSE IF step # ".." \/ done = << >> \/ Last(done) = ".." THEN Append(done, step)
  ELSE Front(done)

NormSteps(steps) ==
  LET done[k \in 0..Len(steps)] == IF k = 0 THEN << >> ELSE NormStep(done[k - 1], steps[k])
  IN done

NormPath(steps) == NormSteps(steps)[Len(steps)]

(* `odd` is anything encoded, absolute, with a drive letter, a backslash   *)
(* or a null byte.                                                         *)
PathViolation(path) ==
  LET canonical == NormPath(path.steps)
  IN IF path.odd \/ canonical = << >> \/ Head(canonical) # "workspace"
     THEN "path_outside_workspace" ELSE Fine

(* parts.hostname, rstrip(".") and lower. *)
CanonicalHost(host) == IF host = "Listed.Example." THEN "listed.example" ELSE host

UrlViolation(url) ==
  LET host == CanonicalHost(url.host)
  IN IF \/ ~url.parses \/ url.scheme # "https" \/ url.userinfo
        \/ url.port \notin {"none", "443"} \/ host \in {"", "127.0.0.1"}
     THEN "url_not_permitted"
     ELSE IF host # "listed.example" THEN "url_host_not_allowlisted"
     ELSE Fine

(* policy.argument_violation: arguments that do not fit the tool's strict  *)
(* schema are not looked into.                                             *)
ArgumentViolation(req) ==
  IF req.tool \notin DOMAIN Tools THEN Fine
  ELSE IF ~req.arguments.fit THEN "invalid_tool_arguments"
  ELSE CASE req.tool = "execute_sql" -> SqlViolation(req.arguments.query)
         [] req.tool = "read_file"   -> PathViolation(req.arguments.path)
         [] req.tool = "fetch_url"   -> UrlViolation(req.arguments.url)
         [] req.tool = "run_code"    -> IF req.arguments.network /\ req.effect # "external"
                                        THEN "network_requires_approval" ELSE Fine
         [] OTHER                    -> Fine

-----------------------------------------------------------------------------
(* Actions *)

(* The entry of a tool, or one that permits nothing. *)
Permitted(tool) == IF tool \in DOMAIN Tools THEN Tools[tool] ELSE Permits({}, {})

(* policy.action_verdict *)
ActionRules(req) ==
  LET violation == ArgumentViolation(req)
  IN <<
       Deny(req.tool \notin DOMAIN Tools, "tool_not_allowlisted"),
       Deny(req.roles \cap Permitted(req.tool).roles = {}, "tool_not_authorized_for_role"),
       Deny(req.effect \notin Permitted(req.tool).effects, "side_effect_mismatch"),
       Deny(req.resource # req.tenant, "resource_tenant_mismatch"),
       Deny(violation # Fine, violation),
       Rule(req.effect \in ApprovalEffects, "require_approval",
            "risky_action_requires_approval"),
       Rule(TRUE, "allow", "action_policy_allow")>>

ActionVerdict(req) == FirstOf(ActionRules(req))

(* opa.action_verdict: what the decision point is told, the arguments      *)
(* reduced to what the gateway found wrong with them.                      *)
ActionDocument(req) ==
  [roles |-> req.roles, tool |-> req.tool, effect |-> req.effect, tenant |-> req.tenant,
   resource |-> req.resource, violation |-> ArgumentViolation(req)]

(* action.rego, on the registry tool_registry_data publishes. *)
RegoActionRules(doc) ==
  LET checked == doc.violation = Fine
  IN <<
       Deny(doc.tool \notin DOMAIN Tools, "tool_not_allowlisted"),
       Deny({r \in doc.roles : r \in Permitted(doc.tool).roles} = {},
            "tool_not_authorized_for_role"),
       Deny(doc.effect \notin Permitted(doc.tool).effects, "side_effect_mismatch"),
       Deny(doc.resource # doc.tenant, "resource_tenant_mismatch"),
       Deny(~checked, doc.violation),
       Rule(doc.effect \in ApprovalEffects /\ checked, "require_approval",
            "risky_action_requires_approval"),
       Rule(checked, "allow", "action_policy_allow"),
       Deny(TRUE, "policy_default_deny")>>

RegoAction(doc) == FirstOf(RegoActionRules(doc))

-----------------------------------------------------------------------------
(* The client of the decision point *)

Unavailable == <<"unavailable", "none">>      \* PolicyEngineUnavailableError

(* _decide: an answer is a verdict and a reason; no answer, an undefined   *)
(* one, a verdict that is not permitted here and a reason that is no code  *)
(* are all the same.                                                       *)
Decide(answer, permitted) ==
  IF answer[1] \in permitted /\ answer[2] # "not a code" THEN answer ELSE Unavailable

(* Mutant of Floored: the decision point has the last word. *)
NotFloored(req, decided) == decided

(* The floor under an answer about an action. *)
Floored(req, decided) ==
  LET violation == ArgumentViolation(req)
  IN IF decided # Unavailable /\ violation # Fine /\ decided[1] # "deny"
     THEN <<"deny", violation>> ELSE decided

OpaContent(answer) == Decide(answer, {"allow", "deny", "transform"})
OpaAction(req, answer) ==
  Floored(req, Decide(answer, {"allow", "deny", "require_approval"}))
=============================================================================
