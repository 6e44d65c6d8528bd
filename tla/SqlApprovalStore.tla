-------------------------- MODULE SqlApprovalStore --------------------------
(***************************************************************************)
(* stores.SqlApprovalStore: approvals in a database shared by replicas,    *)
(* driven by service.inspect_action and the adjudication endpoints.        *)
(*                                                                         *)
(* A worker is one handler thread of one replica.  Every statement commits *)
(* on its own (stores.Database), so statements of different workers        *)
(* interleave freely, and the clock a statement carries was read by its    *)
(* replica some time before the database executes it.  A statement may     *)
(* fail without effect, and its reply may be lost after it has committed:  *)
(* both are StoreUnavailableError to the handler.                          *)
(***************************************************************************)
EXTENDS Naturals, Sequences, FiniteSets

CONSTANTS Ids, Digests, Tenants, Users, NoOne,
          Reviewers,    \* users whose credential carries the reviewer role
          Workers,
          Ttl,          \* _ttl_seconds
          Retention,    \* older_than of a purge
          Skew,         \* how far a replica's clock may be from real time
          MaxTime       \* bound: real time stops here

ASSUME TtlAssumption       == Ttl \in Nat \ {0}
ASSUME RetentionAssumption == Retention \in Nat
ASSUME SkewAssumption      == Skew \in Nat
ASSUME UsersAssumption     == NoOne \notin Users /\ Reviewers \subseteq Users

VARIABLES
  time,      \* real time
  rows,      \* table approvals: id -> row
  work,      \* what each worker is doing
  purged,    \* history: the last contents of deleted rows
  grants,    \* history: the actions each approval has authorized, and when asked
  told       \* history: adjudications answered with 200

vars == <<time, rows, work, purged, grants, told>>

Open     == {"pending", "approved"}
Statuses == Open \cup {"rejected", "expired", "consumed"}
Outcomes == {"approved", "rejected"}

Row ==
  [status : Statuses, digest : Digests, tenant : Tenants, requestedBy : Users,
   reviewer : Users \cup {NoOne}, expires : Nat]

Idle == [pc |-> "idle"]

(* A statement built and not yet executed, or the next one to build. *)
Job ==
  {Idle}
    \cup [pc : {"insert"}, id : Ids, row : Row]
    \cup [pc : {"consume"}, id : Ids, digest : Digests, tenant : Tenants,
          now : Nat, asked : Nat]
    \cup [pc : {"checked", "confirm"}, id : Ids, reviewer : Users, outcome : Outcomes]
    \cup [pc : {"update"}, id : Ids, reviewer : Users, outcome : Outcomes, now : Nat]

(* What a replica's clock may show. *)
Reading == {n \in 0..(time + Skew) : time <= n + Skew}

Put(map, i, row) == [j \in DOMAIN map \cup {i} |-> IF j = i THEN row ELSE map[j]]

(* A fresh uuid4: in no row, past or present, and in no pending INSERT. *)
Fresh(i) ==
  /\ i \notin DOMAIN rows \cup DOMAIN purged
  /\ \A w \in Workers : work[w].pc = "insert" => work[w].id # i

Init ==
  /\ time = 0
  /\ rows = << >> /\ purged = << >>
  /\ work = [w \in Workers |-> Idle]
  /\ grants = [i \in Ids |-> << >>]
  /\ told = {}

Tick ==
  /\ time < MaxTime
  /\ time' = time + 1
  /\ UNCHANGED <<rows, work, purged, grants, told>>

(* create: the row is dated, then inserted. *)
Create(w, i, digest, tenant, requestedBy) ==
  /\ work[w] = Idle
  /\ Fresh(i)
  /\ \E issued \in Reading :
       work' = [work EXCEPT ![w] =
         [pc |-> "insert", id |-> i,
          row |-> [status |-> "pending", digest |-> digest, tenant |-> tenant,
                   requestedBy |-> requestedBy, reviewer |-> NoOne,
                   expires |-> issued + Ttl]]]
  /\ UNCHANGED <<time, rows, purged, grants, told>>

InsertRow(w) ==
  /\ work[w].pc = "insert"
  /\ rows' = Put(rows, work[w].id, work[w].row)
  /\ work' = [work EXCEPT ![w] = Idle]
  /\ UNCHANGED <<time, purged, grants, told>>

(* consume: a caller presents an approval for an action. *)
Present(w, i, digest, tenant) ==
  /\ work[w] = Idle
  /\ \E now \in Reading :
       work' = [work EXCEPT ![w] =
         [pc |-> "consume", id |-> i, digest |-> digest, tenant |-> tenant,
          now |-> now, asked |-> time]]
  /\ UNCHANGED <<time, rows, purged, grants, told>>

(* Mutants of Consumable, each a condition missing from the WHERE clause:  *)
(* the row may be spent already, may be past its time, or may not have     *)
(* been reviewed.                                                          *)
ConsumableTwice(job) ==
  /\ job.id \in DOMAIN rows
  /\ rows[job.id].status \in {"approved", "consumed"}
  /\ rows[job.id].digest = job.digest /\ rows[job.id].tenant = job.tenant
  /\ rows[job.id].expires > job.now

ConsumableLate(job) ==
  /\ job.id \in DOMAIN rows
  /\ rows[job.id].status = "approved"
  /\ rows[job.id].digest = job.digest /\ rows[job.id].tenant = job.tenant

ConsumableUnreviewed(job) ==
  /\ job.id \in DOMAIN rows
  /\ rows[job.id].status \in Open
  /\ rows[job.id].digest = job.digest /\ rows[job.id].tenant = job.tenant
  /\ rows[job.id].expires > job.now

(* The WHERE clause of the conditional UPDATE. *)
Consumable(job) ==
  /\ job.id \in DOMAIN rows
  /\ rows[job.id].status = "approved"
  /\ rows[job.id].digest = job.digest
  /\ rows[job.id].tenant = job.tenant
  /\ rows[job.id].expires > job.now

(* The UPDATE, its row count answered or lost: the caller is allowed only  *)
(* when it is told that its statement changed the row.                     *)
ConsumeRow(w, answered) ==
  LET job == work[w] IN
  /\ job.pc = "consume"
  /\ work' = [work EXCEPT ![w] = Idle]
  /\ IF Consumable(job)
     THEN /\ rows' = [rows EXCEPT ![job.id].status = "consumed"]
          /\ grants' = IF ~answered THEN grants
                       ELSE [grants EXCEPT ![job.id] = Append(@,
                              [digest |-> job.digest, tenant |-> job.tenant,
                               asked |-> job.asked])]
     ELSE UNCHANGED <<rows, grants>>
  /\ UNCHANGED <<time, purged, told>>

(* Mutant of MayAdjudicate: a reviewer may decide on its own request. *)
MayAdjudicateOwn(row, reviewer, tenant) ==
  reviewer \in Reviewers /\ row.tenant = tenant

(* app.adjudicable: one SELECT, then the checks on what it returned. *)
MayAdjudicate(row, reviewer, tenant) ==
  /\ reviewer \in Reviewers
  /\ row.tenant = tenant
  /\ row.requestedBy # reviewer

Adjudicable(w, i, reviewer, tenant, outcome) ==
  /\ work[w] = Idle
  /\ i \in DOMAIN rows
  /\ MayAdjudicate(rows[i], reviewer, tenant)
  /\ work' = [work EXCEPT ![w] =
       [pc |-> "checked", id |-> i, reviewer |-> reviewer, outcome |-> outcome]]
  /\ UNCHANGED <<time, rows, purged, grants, told>>

(* Mutant of Stamp: the statement is sent without its clock. *)
StampUndated(w) ==
  /\ work[w].pc = "checked"
  /\ work' = [work EXCEPT ![w].pc = "update"]
  /\ UNCHANGED <<time, rows, purged, grants, told>>

(* _adjudicate: the statement is built with the clock of this moment. *)
Stamp(w) ==
  LET job == work[w] IN
  /\ job.pc = "checked"
  /\ \E now \in Reading :
       work' = [work EXCEPT ![w] =
         [pc |-> "update", id |-> job.id, reviewer |-> job.reviewer,
          outcome |-> job.outcome, now |-> now]]
  /\ UNCHANGED <<time, rows, purged, grants, told>>

(* Mutant of StillPending: only expiry is looked at. *)
StillUnexpired(job) ==
  /\ job.id \in DOMAIN rows
  /\ rows[job.id].expires > job.now

StillPending(job) ==
  /\ job.id \in DOMAIN rows
  /\ rows[job.id].status = "pending"
  /\ rows[job.id].expires > job.now

(* The conditional UPDATE.  Its row count is ignored; a lost reply ends    *)
(* the request with 503 although the decision may be recorded.             *)
UpdateRow(w, answered) ==
  LET job == work[w] IN
  /\ job.pc = "update"
  /\ rows' = IF StillPending(job)
             THEN [rows EXCEPT ![job.id].status = job.outcome,
                               ![job.id].reviewer = job.reviewer]
             ELSE rows
  /\ work' = [work EXCEPT ![w] =
       IF answered
       THEN [pc |-> "confirm", id |-> job.id, reviewer |-> job.reviewer,
             outcome |-> job.outcome]
       ELSE Idle]
  /\ UNCHANGED <<time, purged, grants, told>>

(* get: an open row past its time is reported as expired. *)
Reported(row, now) ==
  IF row.status \in Open /\ now >= row.expires THEN "expired" ELSE row.status

(* The SELECT after the UPDATE, and app.adjudicated: 200 when the status   *)
(* is the outcome asked for, otherwise 404 or 409.                         *)
Confirm(w) ==
  LET job == work[w] IN
  /\ job.pc = "confirm"
  /\ \E now \in Reading :
       told' = IF job.id \in DOMAIN rows /\ Reported(rows[job.id], now) = job.outcome
               THEN told \cup {[id |-> job.id, reviewer |-> job.reviewer,
                                outcome |-> job.outcome]}
               ELSE told
  /\ work' = [work EXCEPT ![w] = Idle]
  /\ UNCHANGED <<time, rows, purged, grants>>

(* The statement fails without effect, or the replica stops. *)
Fail(w) ==
  /\ work[w] # Idle
  /\ work' = [work EXCEPT ![w] = Idle]
  /\ UNCHANGED <<time, rows, purged, grants, told>>

(* purge, called by whoever operates the database. *)
Purge ==
  /\ \E now \in Reading :
       LET gone == {i \in DOMAIN rows : rows[i].expires + Retention < now}
       IN /\ gone # {}
          /\ rows' = [i \in DOMAIN rows \ gone |-> rows[i]]
          /\ purged' = [i \in DOMAIN purged \cup gone |->
                          IF i \in gone THEN rows[i] ELSE purged[i]]
  /\ UNCHANGED <<time, work, grants, told>>

Next ==
  \/ Tick
  \/ Purge
  \/ \E w \in Workers :
       \/ InsertRow(w)
       \/ Stamp(w)
       \/ Confirm(w)
       \/ Fail(w)
       \/ \E answered \in BOOLEAN : ConsumeRow(w, answered) \/ UpdateRow(w, answered)
       \/ \E i \in Ids, d \in Digests, t \in Tenants :
            \/ Present(w, i, d, t)
            \/ \E u \in Users : Create(w, i, d, t, u)
       \/ \E i \in Ids, u \in Users, t \in Tenants, o \in Outcomes :
            Adjudicable(w, i, u, t, o)

Spec == Init /\ [][Next]_vars

-----------------------------------------------------------------------------
TypeOK ==
  /\ time \in Nat
  /\ DOMAIN rows \cup DOMAIN purged \subseteq Ids
  /\ \A i \in DOMAIN rows : rows[i] \in Row
  /\ \A i \in DOMAIN purged : purged[i] \in Row
  /\ work \in [Workers -> Job]
  /\ grants \in [Ids -> Seq([digest : Digests, tenant : Tenants, asked : Nat])]
  /\ told \subseteq [id : Ids, reviewer : Users, outcome : Outcomes]

Recorded == DOMAIN rows \cup DOMAIN purged

Known(i) == IF i \in DOMAIN rows THEN rows[i] ELSE purged[i]

(* stores.py:271: "of any number of replicas presenting the same approval  *)
(* at once, the database lets exactly one change the row".  An approval    *)
(* authorizes at most one request, for the exact action and tenant it was  *)
(* requested for, whatever statements fail, are repeated or are delayed,   *)
(* and also after its row has been purged.                                 *)
ExactSingleUse ==
  \A i \in Ids :
    /\ Len(grants[i]) <= 1
    /\ grants[i] # << >> =>
         /\ i \in Recorded
         /\ Known(i).status = "consumed"
         /\ grants[i][1].digest = Known(i).digest
         /\ grants[i][1].tenant = Known(i).tenant

(* Nobody adjudicates an approval they asked for, and nothing is spent     *)
(* that was not adjudicated, although the check reads the row in an        *)
(* earlier statement than the one that decides.                            *)
SeparationOfDuties ==
  \A i \in Recorded :
    /\ Known(i).status \in {"approved", "rejected", "consumed"} => Known(i).reviewer # NoOne
    /\ Known(i).reviewer # Known(i).requestedBy

(* A caller that asks when the approval has expired on every clock is      *)
(* never allowed, however long its statement takes to reach the database.  *)
GrantedInTime ==
  \A i \in Ids : grants[i] # << >> => grants[i][1].asked < Known(i).expires + Skew

(* An adjudication answered with 200 holds for good: a rejection the       *)
(* reviewer saw is never turned into an authorization, an approval the     *)
(* reviewer saw was made by a reviewer and is overturned by nobody.  This  *)
(* is so although the row is read in another statement than it was written *)
(* by, and the answer may report another reviewer's decision.              *)
AnswersHold ==
  \A answer \in told :
    /\ answer.id \in Recorded
    /\ answer.outcome = "rejected" =>
         Known(answer.id).status = "rejected" /\ grants[answer.id] = << >>
    /\ answer.outcome = "approved" =>
         Known(answer.id).status \in {"approved", "consumed"}

(* The database keeps the promise of ApprovalLifecycle.  A stored row does *)
(* not change when it expires, so an open approval is given up only when   *)
(* its row is purged.                                                      *)
Action(grant) == [digest |-> grant.digest, tenant |-> grant.tenant]

Life(i) ==
  IF i \notin Recorded THEN [status |-> "unused"]
  ELSE [status |-> IF i \in DOMAIN purged /\ purged[i].status \in Open
                   THEN "expired" ELSE Known(i).status,
        digest |-> Known(i).digest, tenant |-> Known(i).tenant,
        requestedBy |-> Known(i).requestedBy, reviewer |-> Known(i).reviewer,
        grants |-> [n \in 1..Len(grants[i]) |-> Action(grants[i][n])]]

Lifecycle == INSTANCE ApprovalLifecycle WITH approval <- [i \in Ids |-> Life(i)]

KeepsLifecycle == Lifecycle!Spec
=============================================================================
