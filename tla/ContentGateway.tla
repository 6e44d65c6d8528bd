--------------------------- MODULE ContentGateway ---------------------------
(***************************************************************************)
(* service.inspect_content and service.inspect_context_batch: the gates a  *)
(* caller's content passes before it is judged, with the counters they     *)
(* share between handler threads (identity quota, tenant quota, violation  *)
(* history) and the loop over the documents of a batch.                    *)
(*                                                                         *)
(* Each call of a counter reads the clock first and takes the counter's    *)
(* lock later: a call may count with any reading since the thread's last   *)
(* step.  The verdict on one content (detectors, policy, output policy) is *)
(* an input here: what the gateway does next depends only on whether it is *)
(* a violation and, in a batch, on whether the document is admitted.       *)
(***************************************************************************)
EXTENDS Limits, FiniteSets

CONSTANTS Threads,
          Callers,         \* identities of one tenant
          Tenant,          \* the tenant, as key of the shared quota
          IdentityLimit, TenantLimit,
          Window,          \* window_seconds of the quotas
          Threshold,       \* violation_lockout_threshold, not 0
          LockWindow,      \* violation_window_seconds
          MaxContext,      \* max_context_chars
          MaxContent,      \* max_content_chars
          MaxDocs,         \* documents a batch may have
          DocCounts,       \* bound: documents batches do have, and 0: single content
          MaxDelay,        \* bound: a thread's clock reading is not older
          MaxClock, MaxRequests     \* bounds

ASSUME LimitsAssumption ==
  /\ IdentityLimit \in Nat \ {0} /\ TenantLimit \in Nat \ {0}
  /\ Threshold \in Nat \ {0} /\ Window \in Nat \ {0} /\ LockWindow \in Nat \ {0}
  /\ MaxContext \in Nat /\ MaxContent \in Nat
ASSUME DocsAssumption == MaxDocs \in Nat \ {0} /\ DocCounts \subseteq 0..MaxDocs
ASSUME ThreadsAssumption == IsFiniteSet(Threads)
ASSUME DelayAssumption == MaxDelay \in Nat /\ 2 * MaxDelay <= Window /\ MaxDelay < LockWindow

VARIABLES
  clock,
  thread,       \* what each handler thread is doing
  identities,   \* _identity_quota
  tenants,      \* _tenant_quota
  violations,   \* _violations
  requests,     \* requests made
  share,        \* history: what each caller took of the tenant's current window
  passes,       \* history: where each of that was counted in the caller's own windows
  strikes,      \* history: violations of each caller in its current window
  forgotten     \* history: callers whose quota or violations were forgotten

vars == <<clock, thread, identities, tenants, violations, requests, share, passes, strikes,
          forgotten>>

theCounters == <<identities, tenants, violations>>
theHistory  == <<share, passes, strikes, forgotten>>

(* Lengths of a document; MaxContent + 1 is one that is too large. *)
Sizes == 1..(MaxContent + 1)

Idle == [pc |-> "idle"]

Init ==
  /\ clock = 0
  /\ thread = [th \in Threads |-> Idle]
  /\ identities = << >> /\ tenants = << >> /\ violations = << >>
  /\ requests = 0
  /\ share = [c \in Callers |-> 0]
  /\ passes = [c \in Callers |-> {}]
  /\ strikes = [c \in Callers |-> 0]
  /\ forgotten = {}

(* Time no faster than the threads that have read it go on. *)
Tick ==
  /\ clock < MaxClock
  /\ \A th \in Threads : thread[th] # Idle => clock < thread[th].since + MaxDelay
  /\ clock' = clock + 1
  /\ UNCHANGED <<thread, theCounters, requests, theHistory>>

Moved(job, pc) == [job EXCEPT !.pc = pc, !.since = clock]

Goto(th, pc) == thread' = [thread EXCEPT ![th] = Moved(@, pc)]
Finish(th)   == thread' = [thread EXCEPT ![th] = Idle]

(* A request, content or batch, that claims its own identity and finds the *)
(* audit trail accepting; one that does not is denied here.  It holds the  *)
(* time of its last step; `docs` is 0 for single content, otherwise the    *)
(* documents of the batch still to judge.  `pass` is history: which window *)
(* of the caller counted it and which place it has there.                  *)
NoPass == <<0, 0>>

Receive(th, caller, docs) ==
  /\ thread[th] = Idle
  /\ requests < MaxRequests
  /\ requests' = requests + 1
  /\ thread' = [thread EXCEPT ![th] =
       [pc |-> "identity", caller |-> caller, since |-> clock, docs |-> docs,
        remaining |-> MaxContext, pass |-> NoPass]]
  /\ UNCHANGED <<clock, theCounters, theHistory>>

(* _within_quota: the identity is counted first. *)
CountIdentity(th) ==
  LET caller == thread[th].caller IN
  /\ thread[th].pc = "identity"
  /\ \E now \in thread[th].since..clock :
       LET own == Current(identities, caller, now, Window)
       IN /\ identities' = Allow(identities, caller, now, Window, IdentityLimit)
          /\ IF WithinLimit(identities, caller, now, Window, IdentityLimit)
             THEN thread' = [thread EXCEPT ![th] =
                    [Moved(@, "tenant") EXCEPT !.pass = <<own.started, own.count + 1>>]]
             ELSE Finish(th)
  /\ forgotten' = forgotten \cup (Keys(identities) \ Keys(identities'))
  /\ UNCHANGED <<clock, tenants, violations, requests, share, passes, strikes>>

(* ... then the tenant, whose window may start again for everyone. *)
CountTenant(th) ==
  LET caller == thread[th].caller IN
  /\ thread[th].pc = "tenant"
  /\ \E now \in thread[th].since..clock :
       LET fresh == Current(tenants, Tenant, now, Window).count = 0
           before == IF fresh THEN [c \in Callers |-> 0] ELSE share
           others == IF fresh THEN [c \in Callers |-> {}] ELSE passes
       IN /\ tenants' = Allow(tenants, Tenant, now, Window, TenantLimit)
          /\ IF WithinLimit(tenants, Tenant, now, Window, TenantLimit)
             THEN /\ share' = [before EXCEPT ![caller] = @ + 1]
                  /\ passes' = [others EXCEPT ![caller] = @ \cup {thread[th].pass}]
                  /\ thread' = [thread EXCEPT ![th] =
                       [Moved(@, "lockout") EXCEPT !.pass = NoPass]]
             ELSE /\ UNCHANGED <<share, passes>>
                  /\ Finish(th)
  /\ UNCHANGED <<clock, identities, violations, requests, strikes, forgotten>>

(* Mutant of IsLocked: the history is never asked. *)
NeverLocked(caller, now) == FALSE

IsLocked(caller, now) == Locked(violations, caller, now, LockWindow, Threshold)

(* locked, asked once per request. *)
AskLockout(th) ==
  LET caller == thread[th].caller IN
  /\ thread[th].pc = "lockout"
  /\ \E now \in thread[th].since..clock :
       IF IsLocked(caller, now) THEN Finish(th) ELSE Goto(th, "judge")
  /\ UNCHANGED <<clock, theCounters, requests, theHistory>>

(* Single content that is denied for another reason or let through. *)
JudgeContent(th) ==
  /\ thread[th].pc = "judge"
  /\ thread[th].docs = 0
  /\ Finish(th)
  /\ UNCHANGED <<clock, theCounters, requests, theHistory>>

(* What is left of a batch after a document. *)
NextDocument(job, size) ==
  [job EXCEPT !.pc = IF job.docs > 1 THEN "judge" ELSE "conclude",
              !.since = clock, !.docs = @ - 1, !.remaining = @ - size]

Fits(job, size) == size <= MaxContent /\ size <= job.remaining

(* Content found to be a violation, or the next document: one that is too  *)
(* large is refused before anything looks into it.                         *)
JudgeViolation(th) ==
  LET job == thread[th] IN
  /\ job.pc = "judge"
  /\ job.docs > 0 => \E size \in Sizes : Fits(job, size)
  /\ Goto(th, "record")
  /\ UNCHANGED <<clock, theCounters, requests, theHistory>>

(* A document that is admitted costs its length. *)
AdmitDocument(th, size) ==
  LET job == thread[th] IN
  /\ job.pc = "judge"
  /\ job.docs > 0
  /\ Fits(job, size)
  /\ thread' = [thread EXCEPT ![th] = NextDocument(job, size)]
  /\ UNCHANGED <<clock, theCounters, requests, theHistory>>

(* One that is refused for any other reason costs nothing: another         *)
(* tenant's, not readable, too large, denied by policy.                    *)
RefuseDocument(th) ==
  LET job == thread[th] IN
  /\ job.pc = "judge"
  /\ job.docs > 0
  /\ thread' = [thread EXCEPT ![th] = NextDocument(job, 0)]
  /\ UNCHANGED <<clock, theCounters, requests, theHistory>>

(* conclude: the decision on the batch. *)
Conclude(th) ==
  /\ thread[th].pc = "conclude"
  /\ Finish(th)
  /\ UNCHANGED <<clock, theCounters, requests, theHistory>>

(* violations.record, and on with the batch. *)
RecordViolation(th) ==
  LET job == thread[th] IN
  /\ job.pc = "record"
  /\ \E now \in job.since..clock :
       LET fresh == Current(violations, job.caller, now, LockWindow).count = 0
       IN /\ violations' = Record(violations, job.caller, now, LockWindow, Threshold)
          /\ strikes' = [strikes EXCEPT ![job.caller] = IF fresh THEN 1 ELSE @ + 1]
  /\ forgotten' = forgotten \cup (Keys(violations) \ Keys(violations'))
  /\ IF job.docs = 0
     THEN Finish(th)
     ELSE thread' = [thread EXCEPT ![th] = NextDocument(job, 0)]
  /\ UNCHANGED <<clock, identities, tenants, requests, share, passes>>

Next ==
  \/ Tick
  \/ \E th \in Threads :
       \/ \E c \in Callers, docs \in DocCounts : Receive(th, c, docs)
       \/ CountIdentity(th)
       \/ CountTenant(th)
       \/ AskLockout(th)
       \/ JudgeContent(th)
       \/ JudgeViolation(th)
       \/ \E size \in Sizes : AdmitDocument(th, size)
       \/ RefuseDocument(th)
       \/ Conclude(th)
       \/ RecordViolation(th)

Spec == Init /\ [][Next]_vars

-----------------------------------------------------------------------------
(* service.py _within_quota: "one noisy caller is stopped by its own limit *)
(* before it can spend the quota its whole tenant shares".  The windows of *)
(* the two counters need not start together and threads count late, so one *)
(* window of the tenant can take from three windows of a caller, but never *)
(* the whole allowance of all three.                                       *)
NoisyCallerSparesTenant ==
  \A c \in Callers \ forgotten : share[c] <= 3 * IdentityLimit - 1

(* README "locks an identity out ... after that many injection denials":   *)
(* past the threshold only requests that were already under way add to the *)
(* violations of the window, every document of their batches at most.      *)
LockoutHolds ==
  \A c \in Callers \ forgotten :
    strikes[c] <= Threshold - 1 + Cardinality(Threads) * MaxDocs
=============================================================================
