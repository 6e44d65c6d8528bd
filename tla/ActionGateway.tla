--------------------------- MODULE ActionGateway ---------------------------
(***************************************************************************)
(* service.inspect_action and service.execute: how a proposed tool action  *)
(* is decided and, for code, run.  Handlers run in threads; each step      *)
(* below is what a handler does between two points where other threads and *)
(* the services it depends on (policy decision point, approval store,      *)
(* container runtime, audit buffer) may change.                            *)
(*                                                                         *)
(* The approval repository is used through the interface whose promise is  *)
(* ApprovalLifecycle: a call may fail, with or without effect              *)
(* (StoreUnavailableError), and an open approval may expire at any time.   *)
(* Any call of the policy decision point may fail.                         *)
(* Quotas answer nondeterministically here; the execution budget is part   *)
(* of the model and remembers MaxKeys traces.                              *)
(***************************************************************************)
EXTENDS Limits, FiniteSets

CONSTANTS Threads, Traces, Users, NoOne,
          Ids,            \* approval identifiers
          ReadOnly,       \* actions without side effect the policy allows
          Risky,          \* actions whose side effect needs approval
          Forbidden,      \* actions the policy denies
          Code,           \* actions of the code tool, which the gateway runs
          Restricted,     \* restricted_read_only_mode
          MaxActions,     \* max_actions_per_trace
          MaxRequests     \* bound: requests made

ASSUME NoOneAssumption      == NoOne \notin Users \cup Ids
ASSUME ActionsAssumption    == /\ ReadOnly \cap Risky = {}
                               /\ Forbidden \cap (ReadOnly \cup Risky) = {}
                               /\ Code \subseteq ReadOnly \cup Risky \cup Forbidden
ASSUME RestrictedAssumption == Restricted \in BOOLEAN
ASSUME MaxActionsAssumption == MaxActions \in Nat \ {0}

Actions == ReadOnly \cup Risky \cup Forbidden

VARIABLES
  thread,     \* what each handler thread is doing
  approval,   \* the approval repository: id -> approval
  spent,      \* _spent: traces with their actions, counted to one past the cap
  sandboxUp,  \* the container runtime can start a run
  requests,   \* requests made so far
  forgotten,  \* history: how often the budget of each trace was evicted
  allowed,    \* history: the ALLOW decisions, in order
  runs        \* history: what the sandbox ran, in order

vars == <<thread, approval, spent, sandboxUp, requests, forgotten, allowed, runs>>

theBudget == <<spent, forgotten>>

(* A request: `execute` for /v1/actions/execute, which answers 400 to any  *)
(* tool but code, otherwise /v1/inspect/action; `token` is the approval    *)
(* presented, if any.                                                      *)
Request ==
  {req \in [execute : BOOLEAN, action : Actions, trace : Traces, user : Users,
            token : Ids \cup {NoOne}] : req.execute => req.action \in Code}

Idle == [pc |-> "idle"]

(* On what a verdict rests. *)
Grounds == {"policy", "restricted", "approval"}

Busy ==
  [pc : {"inspect", "policy"}, req : Request]
    \cup [pc : {"approval"}, req : Request]
    \cup [pc : {"decide"}, req : Request, verdict : {"allow", "deny", "require_approval"},
          by : Grounds]
    \cup [pc : {"run"}, req : Request, by : Grounds]

(* An ALLOW and a run: of which request, and on what ground. *)
Outcome == [req : Request, by : Grounds]

(* Mutant of Digest: the payload leaves the identity out. *)
DigestOfAnyone(req) == <<NoOne, req.action>>

(* action_digest: the approval is bound to the identity as well. *)
Digest(req) == <<req.user, req.action>>

Tenant == "tenant"      \* all requests are of one tenant

Unused == [status |-> "unused"]

Pending(req) ==
  [status |-> "pending", digest |-> Digest(req), tenant |-> Tenant,
   requestedBy |-> req.user, reviewer |-> NoOne, grants |-> << >>]

Approval ==
  [status : {"pending", "approved", "rejected", "expired", "consumed"},
   digest : Users \X Actions, tenant : {Tenant}, requestedBy : Users,
   reviewer : Users \cup {NoOne}, grants : Seq([digest : Users \X Actions, tenant : {Tenant}])]

Goto(th, state) == thread' = [thread EXCEPT ![th] = state]

Deny(th, req) ==
  Goto(th, [pc |-> "decide", req |-> req, verdict |-> "deny", by |-> "policy"])

Init ==
  /\ thread = [th \in Threads |-> Idle]
  /\ approval = [i \in Ids |-> Unused]
  /\ spent = << >> /\ forgotten = [t \in Traces |-> 0]
  /\ sandboxUp \in BOOLEAN
  /\ requests = 0
  /\ allowed = << >> /\ runs = << >>

-----------------------------------------------------------------------------
(* The services around the gateway *)

SandboxFlips ==
  /\ sandboxUp' = ~sandboxUp
  /\ UNCHANGED <<thread, approval, theBudget, requests, allowed, runs>>

(* app.approve_action and app.reject_action. *)
Adjudicate(i, reviewer, outcome) ==
  /\ approval[i].status = "pending"
  /\ approval[i].requestedBy # reviewer
  /\ approval' = [approval EXCEPT ![i].status = outcome, ![i].reviewer = reviewer]
  /\ UNCHANGED <<thread, theBudget, sandboxUp, requests, allowed, runs>>

Expire(i) ==
  /\ approval[i].status \in {"pending", "approved"}
  /\ approval' = [approval EXCEPT ![i].status = "expired"]
  /\ UNCHANGED <<thread, theBudget, sandboxUp, requests, allowed, runs>>

-----------------------------------------------------------------------------
(* inspect_action and execute *)

(* A request arrives.  execute asks the sandbox first and answers 503      *)
(* without deciding when it is not available.                              *)
Receive(th, req) ==
  /\ thread[th] = Idle
  /\ requests < MaxRequests
  /\ requests' = requests + 1
  /\ IF req.execute /\ ~sandboxUp THEN UNCHANGED thread
     ELSE Goto(th, [pc |-> "inspect", req |-> req])
  /\ UNCHANGED <<approval, theBudget, sandboxUp, allowed, runs>>

(* A body that claims another identity (always), a full audit buffer and   *)
(* an exhausted quota each end the request before it counts as an action.  *)
Turned(th) ==
  /\ thread[th].pc = "inspect"
  /\ Deny(th, thread[th].req)
  /\ UNCHANGED <<approval, theBudget, sandboxUp, requests, allowed, runs>>

(* Mutant of Spend: the count is not capped. *)
SpendUncapped(count) == count + 1

(* Otherwise it is counted, before policy runs. *)
Spend(count) == IF count + 1 < MaxActions + 1 THEN count + 1 ELSE MaxActions + 1

(* Mutant of InBudget: off by one. *)
InBudgetByOne(count) == count <= MaxActions

InBudget(count) == count < MaxActions

Count(th) ==
  LET req   == thread[th].req
      count == Entry(spent, req.trace, 0).count
  IN
  /\ thread[th].pc = "inspect"
  /\ spent' = Stored(spent, [key |-> req.trace, count |-> Spend(count)])
  /\ forgotten' = [t \in Traces |->
                     forgotten[t] + IF t \in Keys(spent) \ Keys(spent') THEN 1 ELSE 0]
  /\ IF InBudget(count)
     THEN Goto(th, [pc |-> "policy", req |-> req])
     ELSE Deny(th, req)
  /\ UNCHANGED <<approval, sandboxUp, requests, allowed, runs>>

(* action_verdict, of the decision point or of the built-in policy. *)
Verdict(action) ==
  IF action \in Forbidden THEN "deny"
  ELSE IF action \in Risky THEN "require_approval"
  ELSE "allow"

AskPolicy(th) ==
  LET req == thread[th].req IN
  /\ thread[th].pc = "policy"
  /\ IF Verdict(req.action) = "require_approval"
     THEN Goto(th, [pc |-> "approval", req |-> req])
     ELSE Goto(th, [pc |-> "decide", req |-> req, verdict |-> Verdict(req.action),
                    by |-> "policy"])
  /\ UNCHANGED <<approval, theBudget, sandboxUp, requests, allowed, runs>>

(* PolicyEngineUnavailableError: fail closed, but for effects that change  *)
(* nothing in restricted mode, which the built-in policy then decides.  A  *)
(* forbidden action may declare no effect.                                 *)
PolicyDown(th) ==
  LET req == thread[th].req IN
  /\ thread[th].pc = "policy"
  /\ IF Restricted /\ req.action \notin Risky
     THEN Goto(th, [pc |-> "decide", req |-> req, verdict |-> Verdict(req.action),
                    by |-> "restricted"])
     ELSE Deny(th, req)
  /\ UNCHANGED <<approval, theBudget, sandboxUp, requests, allowed, runs>>

(* No approval presented: one is created, unless the store fails (the      *)
(* approval may exist all the same).                                       *)
CreateApproval(th, i, stored, answered) ==
  LET req == thread[th].req IN
  /\ thread[th].pc = "approval"
  /\ req.token = NoOne
  /\ approval[i] = Unused
  /\ approval' = IF stored THEN [approval EXCEPT ![i] = Pending(req)] ELSE approval
  /\ IF stored /\ answered
     THEN Goto(th, [pc |-> "decide", req |-> req, verdict |-> "require_approval",
                    by |-> "policy"])
     ELSE Deny(th, req)
  /\ UNCHANGED <<theBudget, sandboxUp, requests, allowed, runs>>

(* Mutant of Consumable: an approval nobody has reviewed will do. *)
ConsumableUnreviewed(req) ==
  /\ approval[req.token].status \in {"pending", "approved"}
  /\ approval[req.token].digest = Digest(req)

Consumable(req) ==
  /\ approval[req.token].status = "approved"
  /\ approval[req.token].digest = Digest(req)

(* consume: the action is allowed only if the store answers that this call *)
(* spent the approval.                                                     *)
ConsumeApproval(th, answered) ==
  LET req == thread[th].req IN
  /\ thread[th].pc = "approval"
  /\ req.token # NoOne
  /\ Consumable(req)
  /\ approval' = [approval EXCEPT ![req.token].status = "consumed",
                                  ![req.token].grants =
                    IF answered THEN Append(@, [digest |-> Digest(req), tenant |-> Tenant])
                    ELSE @]
  /\ IF answered
     THEN Goto(th, [pc |-> "decide", req |-> req, verdict |-> "allow", by |-> "approval"])
     ELSE Deny(th, req)
  /\ UNCHANGED <<theBudget, sandboxUp, requests, allowed, runs>>

(* consume answers False, or fails without effect. *)
NotConsumed(th) ==
  LET req == thread[th].req IN
  /\ thread[th].pc = "approval"
  /\ req.token # NoOne
  /\ Deny(th, req)
  /\ UNCHANGED <<approval, theBudget, sandboxUp, requests, allowed, runs>>

Runnable(now) == now.verdict = "allow" /\ now.req.execute

(* decide: the decision is published and returned; execute goes on to run  *)
(* the code of an allowed action.                                          *)
Decide(th) ==
  LET now == thread[th] IN
  /\ now.pc = "decide"
  /\ allowed' = IF now.verdict = "allow"
                THEN Append(allowed, [req |-> now.req, by |-> now.by]) ELSE allowed
  /\ IF Runnable(now)
     THEN Goto(th, [pc |-> "run", req |-> now.req, by |-> now.by])
     ELSE Goto(th, Idle)
  /\ UNCHANGED <<approval, theBudget, sandboxUp, requests, runs>>

(* sandbox.run, or SandboxUnavailableError: answered with 503. *)
Run(th) ==
  LET now == thread[th] IN
  /\ now.pc = "run"
  /\ runs' = IF sandboxUp THEN Append(runs, [req |-> now.req, by |-> now.by]) ELSE runs
  /\ Goto(th, Idle)
  /\ UNCHANGED <<approval, theBudget, sandboxUp, requests, allowed>>

Next ==
  \/ SandboxFlips
  \/ \E i \in Ids :
       \/ Expire(i)
       \/ \E u \in Users, o \in {"approved", "rejected"} : Adjudicate(i, u, o)
  \/ \E th \in Threads :
       \/ \E req \in Request : Receive(th, req)
       \/ Turned(th)
       \/ Count(th)
       \/ AskPolicy(th)
       \/ PolicyDown(th)
       \/ \E i \in Ids, stored, answered \in BOOLEAN : CreateApproval(th, i, stored, answered)
       \/ \E answered \in BOOLEAN : ConsumeApproval(th, answered)
       \/ NotConsumed(th)
       \/ Decide(th)
       \/ Run(th)

Spec == Init /\ [][Next]_vars

-----------------------------------------------------------------------------
TypeOK ==
  /\ thread \in [Threads -> {Idle} \cup Busy]
  /\ approval \in [Ids -> {Unused} \cup Approval]
  /\ spent \in Seq([key : Traces, count : 1..(MaxActions + 1)])
  /\ forgotten \in [Traces -> Nat]
  /\ sandboxUp \in BOOLEAN
  /\ requests \in Nat
  /\ allowed \in Seq(Outcome)
  /\ runs \in Seq(Outcome)

(* An action with a side effect is allowed only on an approval of its own: *)
(* one requested by the same identity for the same action, approved by     *)
(* another identity, spent by this decision and by no other.  So it is     *)
(* never allowed while the policy decision point is out, in any mode.      *)
RiskyNeedsOwnApproval ==
  \A k \in 1..Len(allowed) :
    LET req == allowed[k].req IN
    req.action \in Risky =>
      /\ allowed[k].by = "approval"
      /\ approval[req.token].status = "consumed"
      /\ approval[req.token].digest[2] = req.action
      /\ approval[req.token].requestedBy = req.user
      /\ approval[req.token].reviewer \in Users \ {req.user}
      /\ \A j \in 1..(k - 1) :
           allowed[j].by = "approval" => allowed[j].req.token # req.token

(* limits.py:63 "A cap on how many actions one trace may propose": no more *)
(* than the cap is allowed in one trace, and as much again each time its   *)
(* budget was evicted, however requests interleave and whatever was        *)
(* refused.                                                                *)
BudgetHolds ==
  \A t \in Traces :
    Cardinality({k \in 1..Len(allowed) : allowed[k].req.trace = t})
      <= MaxActions * (forgotten[t] + 1)

(* Whatever the handlers do, an approval lives by ApprovalLifecycle. *)
Lifecycle == INSTANCE ApprovalLifecycle
               WITH Digests <- Users \X Actions, Tenants <- {Tenant}

KeepsLifecycle == Lifecycle!Spec

(* service.execute says the sandbox "is checked before the decision, so an *)
(* approval is never spent on code that cannot run": once allowed on an    *)
(* approval, code is about to run or has run.                              *)
SpentApprovalRuns ==
  \A k \in 1..Len(allowed) :
    allowed[k].req.execute /\ allowed[k].by = "approval" =>
      \/ \E th \in Threads : thread[th].pc = "run" /\ thread[th].req = allowed[k].req
      \/ \E j \in 1..Len(runs) : runs[j] = allowed[k]
=============================================================================
