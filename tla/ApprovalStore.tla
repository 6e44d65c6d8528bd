--------------------------- MODULE ApprovalStore ---------------------------
(***************************************************************************)
(* approvals.ApprovalStore, the in-memory repository, driven by the        *)
(* approval section of service.inspect_action (create, consume) and by the *)
(* adjudication endpoints of app.py.  Endpoints run in a thread pool: each *)
(* method of the store holds its lock from the lookup to the return, so a  *)
(* method is one step; what a handler does between two calls is not, so a  *)
(* record built but not inserted and a review checked but not recorded are *)
(* state of their own.                                                     *)
(***************************************************************************)
EXTENDS Naturals, Sequences, FiniteSets

CONSTANTS Ids, Digests, Tenants, Users, NoOne,
          Reviewers,    \* users whose credential carries the reviewer role
          Ttl,          \* _ttl_seconds, in ticks of the clock
          MaxRecords,   \* _max_records
          MaxClock      \* bound: the clock stops here

ASSUME TtlAssumption        == Ttl \in Nat \ {0}
ASSUME MaxRecordsAssumption == MaxRecords \in Nat \ {0}
ASSUME MaxClockAssumption   == MaxClock \in Nat
ASSUME UsersAssumption      == NoOne \notin Users /\ Reviewers \subseteq Users

VARIABLES
  clock,     \* the process's clock
  drafts,    \* records a `create` has built and not inserted: id -> record
  records,   \* _records: id -> record
  order,     \* the keys of _records, oldest insertion first
  evicted,   \* _evicted: status -> how many records left with it
  reviews,   \* adjudications that passed `adjudicable` and are not recorded
  retired,   \* history: the last contents of evicted records
  grants     \* history: the actions each approval has authorized

vars == <<clock, drafts, records, order, evicted, reviews, retired, grants>>

Open     == {"pending", "approved"}                       \* _OPEN
Settled  == {"rejected", "expired", "consumed"}
Statuses == Open \cup Settled

Record ==
  [status : Statuses, digest : Digests, tenant : Tenants, requestedBy : Users,
   reviewer : Users \cup {NoOne}, expires : Nat]

Review == [id : Ids, reviewer : Users, outcome : {"approved", "rejected"}]

(* _expire: an open record whose time has come is expired. *)
Expired(record) ==
  IF record.status \in Open /\ clock >= record.expires
  THEN [record EXCEPT !.status = "expired"]
  ELSE record

Put(map, i, record) ==
  [j \in DOMAIN map \cup {i} |-> IF j = i THEN record ELSE map[j]]

Without(map, i) == [j \in DOMAIN map \ {i} |-> map[j]]

Used == DOMAIN drafts \cup DOMAIN records \cup DOMAIN retired

Init ==
  /\ clock = 0
  /\ drafts = << >> /\ records = << >> /\ retired = << >>
  /\ order = << >>
  /\ evicted = [s \in Statuses |-> 0]
  /\ reviews = {}
  /\ grants = [i \in Ids |-> << >>]

Tick ==
  /\ clock < MaxClock
  /\ clock' = clock + 1
  /\ UNCHANGED <<drafts, records, order, evicted, reviews, retired, grants>>

(* Mutant of Draft: the identity that asked is not recorded. *)
DraftAnonymous(i, digest, tenant, requestedBy) ==
  /\ i \notin Used
  /\ drafts' = Put(drafts, i,
       [status |-> "pending", digest |-> digest, tenant |-> tenant,
        requestedBy |-> NoOne, reviewer |-> NoOne, expires |-> clock + Ttl])
  /\ UNCHANGED <<clock, records, order, evicted, reviews, retired, grants>>

(* create, up to the lock: the record is dated before it is inserted. *)
Draft(i, digest, tenant, requestedBy) ==
  /\ i \notin Used
  /\ drafts' = Put(drafts, i,
       [status |-> "pending", digest |-> digest, tenant |-> tenant,
        requestedBy |-> requestedBy, reviewer |-> NoOne, expires |-> clock + Ttl])
  /\ UNCHANGED <<clock, records, order, evicted, reviews, retired, grants>>

(* Mutant of EvictedAs: the status as stored, open or past its time. *)
EvictedAsStored(record) == record.status

(* The status an evicted record is counted under. *)
EvictedAs(record) ==
  IF Expired(record).status \in Open THEN "expired" ELSE Expired(record).status

(* Mutant of Counted: an evicted record is forgotten. *)
Uncounted(status) == evicted

Counted(status) == [evicted EXCEPT ![status] = @ + 1]

(* Mutant of Overfull: off by one. *)
OverfullByTwo(queue) == Len(queue) > MaxRecords + 1

Overfull(queue) == Len(queue) > MaxRecords

(* create, under the lock: insert, then drop the oldest past the bound. *)
Insert(i) ==
  /\ i \in DOMAIN drafts
  /\ drafts' = Without(drafts, i)
  /\ LET grown == Put(records, i, drafts[i])
         queue == Append(order, i)
     IN IF ~Overfull(queue)
        THEN /\ records' = grown
             /\ order' = queue
             /\ UNCHANGED <<evicted, retired>>
        ELSE LET oldest == Head(queue)
                 status == EvictedAs(grown[oldest])
             IN /\ records' = Without(grown, oldest)
                /\ order' = Tail(queue)
                /\ evicted' = Counted(status)
                /\ retired' = Put(retired, oldest, [grown[oldest] EXCEPT !.status = status])
  /\ UNCHANGED <<clock, reviews, grants>>

(* get, and counts for every record: a lookup marks what has expired. *)
Get(i) ==
  /\ i \in DOMAIN records
  /\ records' = Put(records, i, Expired(records[i]))
  /\ UNCHANGED <<clock, drafts, order, evicted, reviews, retired, grants>>

Counts ==
  /\ records' = [i \in DOMAIN records |-> Expired(records[i])]
  /\ UNCHANGED <<clock, drafts, order, evicted, reviews, retired, grants>>

(* Mutant of MayAdjudicate: a reviewer may decide on its own request. *)
MayAdjudicateOwn(record, reviewer, tenant) ==
  reviewer \in Reviewers /\ record.tenant = tenant

(* app.adjudicable: a reviewer of the approval's tenant, other than the    *)
(* identity that asked, may go on; it reads the record with `get`.         *)
MayAdjudicate(record, reviewer, tenant) ==
  /\ reviewer \in Reviewers
  /\ record.tenant = tenant
  /\ record.requestedBy # reviewer

Adjudicable(i, reviewer, tenant, outcome) ==
  /\ i \in DOMAIN records
  /\ MayAdjudicate(records[i], reviewer, tenant)
  /\ records' = Put(records, i, Expired(records[i]))
  /\ reviews' = reviews \cup {[id |-> i, reviewer |-> reviewer, outcome |-> outcome]}
  /\ UNCHANGED <<clock, drafts, order, evicted, retired, grants>>

(* Mutant of Adjudicated: only expiry is looked at, so a second reviewer   *)
(* overturns the first.                                                    *)
AdjudicatedAgain(record, review) ==
  IF Expired(record).status # "expired"
  THEN [record EXCEPT !.status = review.outcome, !.reviewer = review.reviewer]
  ELSE Expired(record)

(* approve and reject.  A record evicted meanwhile is answered with 404, a *)
(* record no longer pending with its status: neither changes anything.     *)
Adjudicated(record, review) ==
  IF Expired(record).status = "pending"
  THEN [record EXCEPT !.status = review.outcome, !.reviewer = review.reviewer]
  ELSE Expired(record)

Adjudicate(review) ==
  /\ review \in reviews
  /\ reviews' = reviews \ {review}
  /\ records' = IF review.id \in DOMAIN records
                THEN Put(records, review.id, Adjudicated(records[review.id], review))
                ELSE records
  /\ UNCHANGED <<clock, drafts, order, evicted, retired, grants>>

(* Mutant of Consumable: any action may be authorized by any approval. *)
ConsumableForAnyAction(i, digest, tenant) ==
  /\ i \in DOMAIN records
  /\ Expired(records[i]).status = "approved"
  /\ records[i].tenant = tenant

(* consume: what is presented must be approved, unexpired and exact. *)
Consumable(i, digest, tenant) ==
  /\ i \in DOMAIN records
  /\ Expired(records[i]).status = "approved"
  /\ records[i].digest = digest
  /\ records[i].tenant = tenant

Consume(i, digest, tenant) ==
  /\ Consumable(i, digest, tenant)
  /\ records' = Put(records, i, [records[i] EXCEPT !.status = "consumed"])
  /\ grants' = [grants EXCEPT ![i] = Append(@, [digest |-> digest, tenant |-> tenant])]
  /\ UNCHANGED <<clock, drafts, order, evicted, reviews, retired>>

(* consume returning False: the lookup still marks an expired record. *)
RefuseConsume(i, digest, tenant) ==
  /\ ~Consumable(i, digest, tenant)
  /\ i \in DOMAIN records
  /\ records' = Put(records, i, Expired(records[i]))
  /\ UNCHANGED <<clock, drafts, order, evicted, reviews, retired, grants>>

Next ==
  \/ Tick
  \/ Counts
  \/ \E i \in Ids : Insert(i) \/ Get(i)
  \/ \E i \in Ids, d \in Digests, t \in Tenants :
       \/ Consume(i, d, t)
       \/ RefuseConsume(i, d, t)
       \/ \E u \in Users : Draft(i, d, t, u)
  \/ \E i \in Ids, u \in Users, t \in Tenants, o \in {"approved", "rejected"} :
       Adjudicable(i, u, t, o)
  \/ \E review \in reviews : Adjudicate(review)

Spec == Init /\ [][Next]_vars

-----------------------------------------------------------------------------
(* What `counts` would answer in this state. *)
Total(status) ==
  evicted[status] + Cardinality({i \in DOMAIN records : Expired(records[i]).status = status})

TypeOK ==
  /\ clock \in Nat
  /\ DOMAIN drafts \cup DOMAIN records \cup DOMAIN retired \subseteq Ids
  /\ \A i \in DOMAIN drafts  : drafts[i] \in Record
  /\ \A i \in DOMAIN records : records[i] \in Record
  /\ \A i \in DOMAIN retired : retired[i] \in Record
  /\ order \in Seq(Ids)
  /\ evicted \in [Statuses -> Nat]
  /\ reviews \subseteq Review
  /\ grants \in [Ids -> Seq([digest : Digests, tenant : Tenants])]

(* The queue that decides who is evicted names exactly the records kept,   *)
(* each once, and never more than the bound: `create` evicts as it inserts *)
(* even when records are inserted in another order than they were dated.   *)
QueueMatchesRecords ==
  /\ {order[n] : n \in 1..Len(order)} = DOMAIN records
  /\ Len(order) = Cardinality(DOMAIN records)
  /\ Len(order) <= MaxRecords

(* An approval authorizes at most one action, and only the very action, in *)
(* the very tenant, it was requested for, however many threads present it; *)
(* it stays spent after the record is evicted.                             *)
Known(i) == IF i \in DOMAIN records THEN records[i] ELSE retired[i]

ExactSingleUse ==
  \A i \in Ids :
    grants[i] # << >> =>
      /\ i \in DOMAIN records \cup DOMAIN retired
      /\ Known(i).status = "consumed"
      /\ grants[i] = <<[digest |-> Known(i).digest, tenant |-> Known(i).tenant]>>

(* Whatever was authorized had been approved by somebody else than the     *)
(* identity that asked, although the check and the decision it guards are  *)
(* two calls with other threads in between.                                *)
SeparationOfDuties ==
  \A i \in DOMAIN records \cup DOMAIN retired :
    /\ Known(i).status = "consumed" => Known(i).reviewer # NoOne
    /\ Known(i).reviewer # Known(i).requestedBy

(* approvals.py:55: outcomes of evicted records are kept "so the totals    *)
(* reported for approval and expiry rates never go backwards": the number  *)
(* of rejected, expired and consumed approvals never shrinks, and every    *)
(* approval ever inserted is in exactly one total.                         *)
TotalsNeverGoBackwards ==
  [][\A s \in Settled : Total(s)' >= Total(s)]_vars

EveryApprovalCounted ==
  Total("pending") + Total("approved") + Total("rejected") + Total("expired")
    + Total("consumed") = Cardinality(DOMAIN records \cup DOMAIN retired)

(* The store keeps the promise of ApprovalLifecycle.  A record past its    *)
(* time is expired whether or not a lookup has marked it yet.              *)
Life(i) ==
  IF i \notin DOMAIN records \cup DOMAIN retired THEN [status |-> "unused"]
  ELSE LET r == IF i \in DOMAIN records THEN Expired(records[i]) ELSE retired[i]
       IN [status |-> r.status, digest |-> r.digest, tenant |-> r.tenant,
           requestedBy |-> r.requestedBy, reviewer |-> r.reviewer, grants |-> grants[i]]

Lifecycle == INSTANCE ApprovalLifecycle WITH approval <- [i \in Ids |-> Life(i)]

KeepsLifecycle == Lifecycle!Spec
=============================================================================
