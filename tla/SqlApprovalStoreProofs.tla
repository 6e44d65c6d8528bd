----------------------- MODULE SqlApprovalStoreProofs -----------------------
(***************************************************************************)
(* SqlApprovalStore keeps its promises for any number of replicas, rows,   *)
(* users and lost replies, any clock skew, TTL and retention.              *)
(*                                                                         *)
(* The argument looks at the table through Recorded and Known, which a     *)
(* purge does not change, and at each worker through what its next         *)
(* statement may rely on (JobOK): the check of an adjudication was made on *)
(* a row whose requester never changes.                                    *)
(***************************************************************************)
EXTENDS SqlApprovalStore, TLAPS

ReviewerOK(row) ==
  /\ row.status \in {"approved", "rejected", "consumed"} => row.reviewer \in Users
  /\ row.reviewer # row.requestedBy

(* What has been granted on a row: nothing until it is consumed, then at   *)
(* most its own action, asked for before it expired on every clock.        *)
GrantOK(row, given) ==
  /\ row.status # "consumed" => given = << >>
  /\ given # << >> =>
       /\ Len(given) = 1
       /\ given[1].digest = row.digest
       /\ given[1].tenant = row.tenant
       /\ given[1].asked < row.expires + Skew

(* What the next statement of a worker may rely on. *)
JobOK(job) ==
  /\ job.pc = "insert" =>
       /\ job.id \notin Recorded
       /\ job.row.status = "pending"
       /\ job.row.reviewer = NoOne
  /\ job.pc = "consume" => job.asked <= job.now + Skew
  /\ job.pc \in {"checked", "update", "confirm"} =>
       /\ job.id \in Recorded
       /\ Known(job.id).requestedBy # job.reviewer

(* The status agrees with an answer of 200 given earlier. *)
Confirms(status, outcome) ==
  /\ outcome = "rejected" => status = "rejected"
  /\ outcome = "approved" => status \in {"approved", "consumed"}

Disjoint  == DOMAIN rows \cap DOMAIN purged = {}
RowsOK    == \A i \in Recorded : ReviewerOK(Known(i)) /\ GrantOK(Known(i), grants[i])
FreshOK   == \A i \in Ids : i \notin Recorded => grants[i] = << >>
JobsOK    == \A w \in Workers : JobOK(work[w])
InsertsOK == \A v, w \in Workers :
               work[v].pc = "insert" /\ work[w].pc = "insert" /\ work[v].id = work[w].id
                 => v = w
ToldOK    == \A answer \in told :
               answer.id \in Recorded /\ Confirms(Known(answer.id).status, answer.outcome)

IInv ==
  /\ TypeOK
  /\ Disjoint
  /\ RowsOK
  /\ FreshOK
  /\ JobsOK
  /\ InsertsOK
  /\ ToldOK

-----------------------------------------------------------------------------
(* The fields of a job, by the statement it is about. *)
LEMMA JobFacts ==
  ASSUME NEW job \in Job
  PROVE  /\ job.pc = "insert" => job.id \in Ids /\ job.row \in Row
         /\ job.pc = "consume" =>
              /\ job.id \in Ids /\ job.digest \in Digests /\ job.tenant \in Tenants
              /\ job.now \in Nat /\ job.asked \in Nat
         /\ job.pc \in {"checked", "update", "confirm"} =>
              job.id \in Ids /\ job.reviewer \in Users /\ job.outcome \in Outcomes
         /\ job.pc = "update" => job.now \in Nat
BY DEF Job, Idle

LEMMA KnownType == ASSUME TypeOK, NEW i \in Recorded PROVE i \in Ids /\ Known(i) \in Row
BY DEF TypeOK, Recorded, Known

(* A clock shows a natural number no more than the skew behind real time. *)
LEMMA ReadingFacts ==
  ASSUME TypeOK, NEW now \in Reading
  PROVE  now \in Nat /\ time <= now + Skew
BY SkewAssumption DEF Reading, TypeOK

(* A step that leaves the table and what was granted alone needs only to   *)
(* account for the worker it moves.                                        *)
LEMMA WorkerStep ==
  ASSUME IInv, NEW w \in Workers, NEW job \in Job,
         work' = [work EXCEPT ![w] = job],
         UNCHANGED <<time, rows, purged, grants>>,
         JobOK(job),
         job.pc = "insert" => Fresh(job.id),
         told' \subseteq [id : Ids, reviewer : Users, outcome : Outcomes],
         \A answer \in told' :
           \/ answer \in told
           \/ answer.id \in Recorded /\ Confirms(Known(answer.id).status, answer.outcome)
  PROVE  IInv'
<1>1. Recorded' = Recorded /\ \A i : Known(i)' = Known(i)
  BY DEF Recorded, Known
<1>2. work'[w] = job /\ (\A v \in Workers : v # w => work'[v] = work[v])
  BY DEF IInv, TypeOK
<1>3. TypeOK'
  BY DEF IInv, TypeOK
<1>4. Disjoint' /\ RowsOK' /\ FreshOK'
  BY <1>1 DEF IInv, Disjoint, RowsOK, FreshOK, ReviewerOK, GrantOK
<1>5. JobsOK'
  BY <1>1, <1>2 DEF IInv, JobsOK, JobOK
<1>6. InsertsOK'
  BY <1>2 DEF IInv, InsertsOK, Fresh
<1>7. ToldOK'
  BY <1>1 DEF IInv, ToldOK, Confirms
<1>8. QED BY <1>3, <1>4, <1>5, <1>6, <1>7 DEF IInv

(* A step that changes one row and frees or moves the worker that did it.  *)
LEMMA RowStep ==
  ASSUME IInv, NEW w \in Workers, NEW job \in Job, NEW i \in DOMAIN rows, NEW row \in Row,
         work' = [work EXCEPT ![w] = job],
         job.pc # "insert", JobOK(job),
         DOMAIN rows' = DOMAIN rows, rows'[i] = row,
         \A j \in DOMAIN rows : j # i => rows'[j] = rows[j],
         row.requestedBy = rows[i].requestedBy,
         rows[i].status = "rejected" => row.status = "rejected",
         rows[i].status \in {"approved", "consumed"} => row.status \in {"approved", "consumed"},
         ReviewerOK(row), GrantOK(row, grants'[i]),
         grants' \in [Ids -> Seq([digest : Digests, tenant : Tenants, asked : Nat])],
         \A j \in Ids : j # i => grants'[j] = grants[j],
         UNCHANGED <<time, purged, told>>
  PROVE  IInv'
<1>0. i \in Ids /\ i \notin DOMAIN purged /\ DOMAIN rows \subseteq Ids /\ DOMAIN purged \subseteq Ids
  BY DEF IInv, TypeOK, Disjoint
<1>1. /\ Recorded' = Recorded
      /\ Known(i)' = row /\ Known(i) = rows[i]
      /\ \A j \in Recorded : j # i => Known(j)' = Known(j)
  BY DEF Recorded, Known
<1>2. work'[w] = job /\ (\A v \in Workers : v # w => work'[v] = work[v])
  BY DEF IInv, TypeOK
<1>3. TypeOK'
  BY DEF IInv, TypeOK
<1>4. Disjoint'
  BY DEF IInv, Disjoint
<1>5. RowsOK'
  <2> SUFFICES ASSUME NEW j \in Recorded
               PROVE  ReviewerOK(Known(j)') /\ GrantOK(Known(j)', grants'[j])
    BY <1>1 DEF RowsOK, ReviewerOK, GrantOK
  <2>1. CASE j = i
    BY <1>1, <2>1
  <2>2. CASE j # i
    <3>1. Known(j)' = Known(j) /\ grants'[j] = grants[j]
      BY <1>0, <1>1, <2>2 DEF Recorded
    <3>2. QED BY <3>1 DEF IInv, RowsOK
  <2>3. QED BY <2>1, <2>2
<1>6. FreshOK'
  BY <1>0, <1>1 DEF IInv, FreshOK, Recorded
<1>7. \A j \in Recorded : Known(j)'.requestedBy = Known(j).requestedBy
  BY <1>1
<1>8. JobsOK'
  BY <1>1, <1>2, <1>7 DEF IInv, JobsOK, JobOK
<1>9. InsertsOK'
  BY <1>2 DEF IInv, InsertsOK
<1>10. ToldOK'
  <2> SUFFICES ASSUME NEW answer \in told
               PROVE  answer.id \in Recorded /\ Confirms(Known(answer.id)'.status, answer.outcome)
    BY <1>1 DEF ToldOK, Confirms
  <2>1. answer.id \in Recorded /\ Confirms(Known(answer.id).status, answer.outcome)
    BY DEF IInv, ToldOK
  <2>2. QED BY <1>1, <2>1 DEF Confirms
<1>11. QED BY <1>3, <1>4, <1>5, <1>6, <1>8, <1>9, <1>10 DEF IInv
-----------------------------------------------------------------------------
(* The steps, one lemma per operation *)

LEMMA IdleFacts == Idle \in Job /\ Idle.pc = "idle"
BY DEF Idle, Job

LEMMA IdleJobOK == JobOK(Idle)
BY IdleFacts DEF JobOK

LEMMA InitIInv == Init => IInv
<1> SUFFICES ASSUME Init PROVE IInv
  OBVIOUS
<1>1. DOMAIN rows = {} /\ DOMAIN purged = {} /\ Recorded = {}
  BY DEF Init, Recorded
<1>2. \A w \in Workers : work[w] = Idle
  BY DEF Init
<1>3. TypeOK
  <2>1. work \in [Workers -> Job]
    BY IdleFacts DEF Init
  <2>2. grants \in [Ids -> Seq([digest : Digests, tenant : Tenants, asked : Nat])]
    BY DEF Init
  <2>3. QED BY <1>1, <2>1, <2>2 DEF Init, TypeOK
<1>4. Disjoint /\ RowsOK /\ FreshOK /\ ToldOK
  BY <1>1 DEF Init, Disjoint, RowsOK, FreshOK, ToldOK
<1>5. JobsOK /\ InsertsOK
  BY <1>2, IdleFacts, IdleJobOK DEF JobsOK, InsertsOK
<1>6. QED BY <1>3, <1>4, <1>5 DEF IInv

LEMMA TickIInv == ASSUME IInv, Tick PROVE IInv'
<1>1. time' \in Nat
  BY DEF Tick, IInv, TypeOK
<1>2. UNCHANGED <<rows, work, purged, grants, told>>
  BY DEF Tick
<1>3. Recorded' = Recorded /\ \A i : Known(i)' = Known(i)
  BY <1>2 DEF Recorded, Known
<1>4. TypeOK'
  BY <1>1, <1>2 DEF IInv, TypeOK
<1>5. Disjoint' /\ RowsOK' /\ FreshOK' /\ ToldOK'
  BY <1>2, <1>3 DEF IInv, Disjoint, RowsOK, FreshOK, ToldOK, ReviewerOK, GrantOK, Confirms
<1>6. JobsOK' /\ InsertsOK'
  BY <1>2, <1>3 DEF IInv, JobsOK, JobOK, InsertsOK
<1>7. QED BY <1>4, <1>5, <1>6 DEF IInv

LEMMA CreateIInv ==
  ASSUME IInv, NEW w \in Workers, NEW i \in Ids, NEW d \in Digests, NEW t \in Tenants,
         NEW u \in Users, Create(w, i, d, t, u)
  PROVE  IInv'
<1>1. PICK issued \in Reading :
        work' = [work EXCEPT ![w] =
          [pc |-> "insert", id |-> i,
           row |-> [status |-> "pending", digest |-> d, tenant |-> t, requestedBy |-> u,
                    reviewer |-> NoOne, expires |-> issued + Ttl]]]
  BY DEF Create
<1> DEFINE row == [status |-> "pending", digest |-> d, tenant |-> t, requestedBy |-> u,
                   reviewer |-> NoOne, expires |-> issued + Ttl]
           job == [pc |-> "insert", id |-> i, row |-> row]
<1>2. issued \in Nat
  BY ReadingFacts DEF IInv
<1>3. row \in Row /\ row.status = "pending" /\ row.reviewer = NoOne
  BY <1>2, TtlAssumption DEF Row, Statuses, Open
<1> HIDE DEF row
<1>4. job \in Job /\ job.pc = "insert" /\ job.id = i /\ job.row = row
  BY <1>3 DEF Job
<1>5. JobOK(job) /\ Fresh(job.id)
  BY <1>3, <1>4 DEF Create, Fresh, JobOK, Recorded
<1>6. work' = [work EXCEPT ![w] = job]
  BY <1>1 DEF row
<1>7. UNCHANGED <<time, rows, purged, grants, told>>
      /\ told \subseteq [id : Ids, reviewer : Users, outcome : Outcomes]
  BY DEF Create, IInv, TypeOK
<1> HIDE DEF job
<1>8. QED BY <1>4, <1>5, <1>6, <1>7, WorkerStep

(* The row goes in under an identifier that no row has or had. *)
LEMMA InsertRowIInv ==
  ASSUME IInv, NEW w \in Workers, InsertRow(w)
  PROVE  IInv'
<1>0. PICK i, row : i = work[w].id /\ row = work[w].row
  OBVIOUS
<1>1. i \in Ids /\ row \in Row /\ i \notin Recorded /\ row.status = "pending"
      /\ row.reviewer = NoOne /\ work[w].pc = "insert"
  <2>1. work[w] \in Job /\ JobOK(work[w]) /\ work[w].pc = "insert"
    BY DEF InsertRow, IInv, TypeOK, JobsOK
  <2>2. QED BY <1>0, <2>1, JobFacts DEF JobOK
<1>2. /\ DOMAIN rows' = DOMAIN rows \cup {i} /\ rows'[i] = row
      /\ \A j \in DOMAIN rows : rows'[j] = rows[j]
      /\ UNCHANGED <<time, purged, grants, told>>
  BY <1>0, <1>1 DEF InsertRow, Put, Recorded
<1>3. /\ work' = [work EXCEPT ![w] = Idle]
      /\ work'[w] = Idle
      /\ \A v \in Workers : v # w => work'[v] = work[v]
  BY DEF InsertRow, IInv, TypeOK
<1>3a. \A v \in Workers : work[v].pc = "insert" /\ v # w => work[v].id # i
  BY <1>0, <1>1 DEF IInv, InsertsOK
<1>4. /\ Recorded' = Recorded \cup {i}
      /\ Known(i)' = row
      /\ \A j \in Recorded : Known(j)' = Known(j)
  BY <1>1, <1>2 DEF Recorded, Known
<1>5. TypeOK'
  <2>1. work' \in [Workers -> Job]
    BY <1>3, IdleFacts DEF IInv, TypeOK
  <2>2. QED BY <1>1, <1>2, <2>1 DEF IInv, TypeOK
<1>6. Disjoint'
  BY <1>1, <1>2 DEF IInv, Disjoint, Recorded
<1>7. RowsOK'
  <2>1. ReviewerOK(row) /\ GrantOK(row, grants[i])
    BY <1>1, UsersAssumption DEF IInv, FreshOK, ReviewerOK, GrantOK, Row
  <2>2. \A j \in Recorded' : ReviewerOK(Known(j)') /\ GrantOK(Known(j)', grants'[j])
    BY <1>2, <1>4, <2>1 DEF IInv, RowsOK
  <2>3. QED BY <2>2 DEF RowsOK, ReviewerOK, GrantOK
<1>8. FreshOK'
  BY <1>2, <1>4 DEF IInv, FreshOK
<1>9. JobsOK'
  <2> SUFFICES ASSUME NEW v \in Workers PROVE JobOK(work[v])'
    BY DEF JobsOK
  <2>1. CASE v = w
    BY <1>3, <2>1, IdleFacts DEF JobOK
  <2>2. CASE v # w
    <3>1. work'[v] = work[v] /\ JobOK(work[v])
      BY <1>3, <2>2 DEF IInv, JobsOK
    <3>2. work[v].pc = "insert" => work[v].id # i
      BY <1>3a, <2>2
    <3>3. QED BY <1>4, <3>1, <3>2 DEF JobOK
  <2>3. QED BY <2>1, <2>2
<1>10. InsertsOK'
  BY <1>3, IdleFacts DEF IInv, InsertsOK
<1>11. ToldOK'
  BY <1>2, <1>4 DEF IInv, ToldOK, Confirms
<1>12. QED BY <1>5, <1>6, <1>7, <1>8, <1>9, <1>10, <1>11 DEF IInv

LEMMA PresentIInv ==
  ASSUME IInv, NEW w \in Workers, NEW i \in Ids, NEW d \in Digests, NEW t \in Tenants,
         Present(w, i, d, t)
  PROVE  IInv'
<1>1. PICK now \in Reading :
        work' = [work EXCEPT ![w] =
          [pc |-> "consume", id |-> i, digest |-> d, tenant |-> t, now |-> now,
           asked |-> time]]
  BY DEF Present
<1> DEFINE job == [pc |-> "consume", id |-> i, digest |-> d, tenant |-> t, now |-> now,
                   asked |-> time]
<1>2. now \in Nat /\ time <= now + Skew /\ time \in Nat
  BY ReadingFacts DEF IInv, TypeOK
<1>3. job \in Job /\ job.pc = "consume" /\ job.now = now /\ job.asked = time
  BY <1>2 DEF Job
<1>4. JobOK(job)
  BY <1>2, <1>3 DEF JobOK
<1>5. UNCHANGED <<time, rows, purged, grants, told>>
      /\ told \subseteq [id : Ids, reviewer : Users, outcome : Outcomes]
  BY DEF Present, IInv, TypeOK
<1>6. work' = [work EXCEPT ![w] = job]
  BY <1>1
<1> HIDE DEF job
<1>7. QED BY <1>3, <1>4, <1>5, <1>6, WorkerStep

LEMMA AdjudicableIInv ==
  ASSUME IInv, NEW w \in Workers, NEW i \in Ids, NEW u \in Users, NEW t \in Tenants,
         NEW o \in Outcomes, Adjudicable(w, i, u, t, o)
  PROVE  IInv'
<1> DEFINE job == [pc |-> "checked", id |-> i, reviewer |-> u, outcome |-> o]
<1>1. job \in Job /\ job.pc = "checked" /\ job.id = i /\ job.reviewer = u
  BY DEF Job
<1>2. JobOK(job)
  BY <1>1 DEF Adjudicable, MayAdjudicate, JobOK, Recorded, Known
<1>3. UNCHANGED <<time, rows, purged, grants, told>>
      /\ told \subseteq [id : Ids, reviewer : Users, outcome : Outcomes]
      /\ work' = [work EXCEPT ![w] = job]
  BY DEF Adjudicable, IInv, TypeOK
<1> HIDE DEF job
<1>4. QED BY <1>1, <1>2, <1>3, WorkerStep

LEMMA StampIInv ==
  ASSUME IInv, NEW w \in Workers, Stamp(w)
  PROVE  IInv'
<1> DEFINE old == work[w]
<1>1. old \in Job /\ JobOK(old) /\ old.pc = "checked"
  BY DEF Stamp, IInv, TypeOK, JobsOK
<1>2. PICK now \in Reading :
        work' = [work EXCEPT ![w] =
          [pc |-> "update", id |-> old.id, reviewer |-> old.reviewer,
           outcome |-> old.outcome, now |-> now]]
  BY DEF Stamp
<1> DEFINE job == [pc |-> "update", id |-> old.id, reviewer |-> old.reviewer,
                   outcome |-> old.outcome, now |-> now]
<1>3. UNCHANGED <<time, rows, purged, grants, told>>
      /\ told \subseteq [id : Ids, reviewer : Users, outcome : Outcomes]
      /\ work' = [work EXCEPT ![w] = job]
  BY <1>2 DEF Stamp, IInv, TypeOK
<1>4. now \in Nat
  BY ReadingFacts DEF IInv
<1> HIDE DEF old
<1>5. job \in Job /\ job.pc = "update" /\ job.id = old.id /\ job.reviewer = old.reviewer
  BY <1>1, <1>4, JobFacts DEF Job
<1>6. JobOK(job)
  BY <1>1, <1>5 DEF JobOK
<1> HIDE DEF job
<1>7. QED BY <1>3, <1>5, <1>6, WorkerStep

(* The conditional UPDATE of consume: the one that changes the row is the  *)
(* only one that can be told so.                                           *)
LEMMA ConsumeRowIInv ==
  ASSUME IInv, NEW w \in Workers, NEW answered \in BOOLEAN, ConsumeRow(w, answered)
  PROVE  IInv'
<1>0. PICK job : job = work[w]
  OBVIOUS
<1>1. job \in Job /\ JobOK(job) /\ job.pc = "consume"
  BY <1>0 DEF ConsumeRow, IInv, TypeOK, JobsOK
<1>2. /\ job.id \in Ids /\ job.digest \in Digests /\ job.tenant \in Tenants
      /\ job.now \in Nat /\ job.asked \in Nat /\ job.asked <= job.now + Skew
  BY <1>1, JobFacts DEF JobOK
<1>3. work' = [work EXCEPT ![w] = Idle] /\ UNCHANGED <<time, purged, told>>
      /\ told \subseteq [id : Ids, reviewer : Users, outcome : Outcomes]
  BY DEF ConsumeRow, IInv, TypeOK
<1>4. CASE ~Consumable(job)
  <2>1. UNCHANGED <<rows, grants>>
    BY <1>0, <1>4 DEF ConsumeRow
  <2>2. QED BY <1>3, <2>1, IdleFacts, IdleJobOK, WorkerStep
<1>5. CASE Consumable(job)
  <2>0. PICK i, row : i = job.id /\ row = [rows[i] EXCEPT !.status = "consumed"]
    OBVIOUS
  <2>1. /\ i \in DOMAIN rows /\ i \in Ids /\ rows[i] \in Row
        /\ rows[i].status = "approved" /\ rows[i].digest = job.digest
        /\ rows[i].tenant = job.tenant /\ rows[i].expires > job.now
        /\ rows[i].expires \in Nat
    BY <1>2, <1>5, <2>0 DEF Consumable, IInv, TypeOK, Row
  <2>2. rows' = [rows EXCEPT ![i].status = "consumed"]
    BY <1>0, <1>5, <2>0 DEF ConsumeRow
  <2>3. /\ DOMAIN rows' = DOMAIN rows /\ rows'[i] = row
        /\ \A j \in DOMAIN rows : j # i => rows'[j] = rows[j]
    BY <2>0, <2>1, <2>2
  <2>4. /\ row \in Row /\ row.status = "consumed" /\ row.digest = job.digest
        /\ row.tenant = job.tenant /\ row.expires = rows[i].expires
        /\ row.requestedBy = rows[i].requestedBy /\ row.reviewer = rows[i].reviewer
    BY <2>0, <2>1 DEF Row, Statuses
  <2>5. i \in Recorded /\ Known(i) = rows[i]
    BY <2>1 DEF Recorded, Known
  <2>6. ReviewerOK(row) /\ grants[i] = << >>
    BY <2>1, <2>4, <2>5 DEF IInv, RowsOK, ReviewerOK, GrantOK
  <2>7. /\ grants' \in [Ids -> Seq([digest : Digests, tenant : Tenants, asked : Nat])]
        /\ \A j \in Ids : j # i => grants'[j] = grants[j]
        /\ GrantOK(row, grants'[i])
    <3>1. grants \in [Ids -> Seq([digest : Digests, tenant : Tenants, asked : Nat])]
      BY DEF IInv, TypeOK
    <3>2. CASE ~answered
      <4>1. grants' = grants
        BY <1>0, <1>5, <3>2 DEF ConsumeRow
      <4>2. QED BY <2>6, <3>1, <4>1 DEF GrantOK
    <3>3. CASE answered
      <4> DEFINE given == [digest |-> job.digest, tenant |-> job.tenant, asked |-> job.asked]
                 all   == [digest : Digests, tenant : Tenants, asked : Nat]
      <4>1. grants' = [grants EXCEPT ![i] = Append(@, given)]
        BY <1>0, <1>5, <2>0, <3>3 DEF ConsumeRow
      <4>2. given \in all /\ given.digest = row.digest /\ given.tenant = row.tenant
        BY <1>2, <2>4
      <4>3. given.asked < row.expires + Skew
        <5>1. job.asked < rows[i].expires + Skew
          BY <1>2, <2>1, SkewAssumption
        <5>2. QED BY <2>4, <5>1
      <4>4. grants \in [Ids -> Seq(all)]
        BY <3>1
      <4> HIDE DEF given, all
      <4>5. Append(grants[i], given) = <<given>> /\ <<given>> \in Seq(all)
        BY <2>6, <4>2
      <4>6. grants' \in [Ids -> Seq(all)] /\ grants'[i] = <<given>>
            /\ \A j \in Ids : j # i => grants'[j] = grants[j]
        BY <2>1, <4>1, <4>4, <4>5
      <4>7. GrantOK(row, <<given>>)
        BY <2>4, <4>2, <4>3 DEF GrantOK
      <4>8. QED BY <4>6, <4>7 DEF all
    <3>4. QED BY <3>2, <3>3
  <2>8. QED BY <1>3, <2>1, <2>3, <2>4, <2>6, <2>7, IdleFacts, IdleJobOK, RowStep
<1>6. QED BY <1>4, <1>5

LEMMA UpdateRowIInv ==
  ASSUME IInv, NEW w \in Workers, NEW answered \in BOOLEAN, UpdateRow(w, answered)
  PROVE  IInv'
<1>0. PICK job : job = work[w]
  OBVIOUS
<1>1. job \in Job /\ JobOK(job) /\ job.pc = "update"
  BY <1>0 DEF UpdateRow, IInv, TypeOK, JobsOK
<1>2. job.id \in Ids /\ job.reviewer \in Users /\ job.outcome \in Outcomes
      /\ job.id \in Recorded /\ Known(job.id).requestedBy # job.reviewer
  BY <1>1, JobFacts DEF JobOK
<1>3. PICK next : next = IF answered
                         THEN [pc |-> "confirm", id |-> job.id, reviewer |-> job.reviewer,
                               outcome |-> job.outcome]
                         ELSE Idle
  OBVIOUS
<1>4. next \in Job /\ next.pc # "insert" /\ JobOK(next)
  <2>1. CASE answered
    <3>1. next = [pc |-> "confirm", id |-> job.id, reviewer |-> job.reviewer,
                  outcome |-> job.outcome]
      BY <1>3, <2>1
    <3>2. next \in Job /\ next.pc = "confirm" /\ next.id = job.id
          /\ next.reviewer = job.reviewer
      BY <1>2, <3>1 DEF Job
    <3>3. QED BY <1>2, <3>2 DEF JobOK
  <2>2. CASE ~answered
    BY <1>3, <2>2, IdleFacts, IdleJobOK
  <2>3. QED BY <2>1, <2>2
<1>5. work' = [work EXCEPT ![w] = next] /\ UNCHANGED <<time, purged, grants, told>>
      /\ told \subseteq [id : Ids, reviewer : Users, outcome : Outcomes]
      /\ grants \in [Ids -> Seq([digest : Digests, tenant : Tenants, asked : Nat])]
  BY <1>0, <1>3 DEF UpdateRow, IInv, TypeOK
<1>6. CASE ~StillPending(job)
  <2>1. rows' = rows
    BY <1>0, <1>6 DEF UpdateRow
  <2>2. QED BY <1>4, <1>5, <2>1, WorkerStep
<1>7. CASE StillPending(job)
  <2>0. PICK i, row : i = job.id /\ row = [rows[i] EXCEPT !.status = job.outcome,
                                                          !.reviewer = job.reviewer]
    OBVIOUS
  <2>1. i \in DOMAIN rows /\ i \in Ids /\ rows[i] \in Row /\ rows[i].status = "pending"
        /\ i \in Recorded /\ Known(i) = rows[i]
    BY <1>2, <1>7, <2>0 DEF StillPending, IInv, TypeOK, Recorded, Known
  <2>2. rows' = [rows EXCEPT ![i].status = job.outcome, ![i].reviewer = job.reviewer]
    BY <1>0, <1>7, <2>0 DEF UpdateRow
  <2>3. /\ DOMAIN rows' = DOMAIN rows /\ rows'[i] = row
        /\ \A j \in DOMAIN rows : j # i => rows'[j] = rows[j]
    BY <2>0, <2>1, <2>2
  <2>4. /\ row \in Row /\ row.status \in Outcomes /\ row.reviewer = job.reviewer
        /\ row.requestedBy = rows[i].requestedBy
    BY <1>2, <2>0, <2>1 DEF Row, Statuses, Open, Outcomes
  <2>5. ReviewerOK(row)
    BY <1>2, <2>0, <2>1, <2>4 DEF ReviewerOK
  <2>6. GrantOK(row, grants'[i])
    <3>1. grants'[i] = << >>
      BY <1>5, <2>1 DEF IInv, RowsOK, GrantOK
    <3>2. QED BY <2>4, <3>1 DEF GrantOK, Outcomes
  <2>7. QED BY <1>4, <1>5, <2>1, <2>3, <2>4, <2>5, <2>6, RowStep DEF Outcomes
<1>8. QED BY <1>6, <1>7

(* 200 is answered on the status read, which no later step overturns. *)
LEMMA ConfirmIInv ==
  ASSUME IInv, NEW w \in Workers, Confirm(w)
  PROVE  IInv'
<1>0. PICK job : job = work[w]
  OBVIOUS
<1>1. job \in Job /\ job.pc = "confirm"
  BY <1>0 DEF Confirm, IInv, TypeOK
<1>2. job.id \in Ids /\ job.reviewer \in Users /\ job.outcome \in Outcomes
  BY <1>1, JobFacts
<1>3. work' = [work EXCEPT ![w] = Idle] /\ UNCHANGED <<time, rows, purged, grants>>
      /\ told \subseteq [id : Ids, reviewer : Users, outcome : Outcomes]
  BY DEF Confirm, IInv, TypeOK
<1>4. PICK now \in Reading :
        told' = IF job.id \in DOMAIN rows /\ Reported(rows[job.id], now) = job.outcome
                THEN told \cup {[id |-> job.id, reviewer |-> job.reviewer,
                                 outcome |-> job.outcome]}
                ELSE told
  BY <1>0 DEF Confirm
<1>5. CASE ~(job.id \in DOMAIN rows /\ Reported(rows[job.id], now) = job.outcome)
  <2>1. told' = told
    BY <1>4, <1>5
  <2>2. QED BY <1>3, <2>1, IdleFacts, IdleJobOK, WorkerStep
<1>6. CASE job.id \in DOMAIN rows /\ Reported(rows[job.id], now) = job.outcome
  <2> DEFINE new == [id |-> job.id, reviewer |-> job.reviewer, outcome |-> job.outcome]
  <2>1. told' = told \cup {new} /\ new \in [id : Ids, reviewer : Users, outcome : Outcomes]
    BY <1>2, <1>4, <1>6
  <2>2. rows[job.id].status = job.outcome
    BY <1>2, <1>6 DEF Reported, Outcomes
  <2>3. new.id \in Recorded /\ Confirms(Known(new.id).status, new.outcome)
    BY <1>2, <1>6, <2>2 DEF Recorded, Known, Confirms, Outcomes
  <2> HIDE DEF new
  <2>4. QED BY <1>3, <2>1, <2>3, IdleFacts, IdleJobOK, WorkerStep
<1>7. QED BY <1>5, <1>6

LEMMA FailIInv ==
  ASSUME IInv, NEW w \in Workers, Fail(w)
  PROVE  IInv'
<1>1. work' = [work EXCEPT ![w] = Idle] /\ UNCHANGED <<time, rows, purged, grants, told>>
      /\ told \subseteq [id : Ids, reviewer : Users, outcome : Outcomes]
  BY DEF Fail, IInv, TypeOK
<1>2. QED BY <1>1, IdleFacts, IdleJobOK, WorkerStep

(* A purge moves rows to the history without changing what is known. *)
LEMMA PurgeIInv == ASSUME IInv, Purge PROVE IInv'
<1>1. PICK gone :
        /\ gone \subseteq DOMAIN rows
        /\ rows' = [i \in DOMAIN rows \ gone |-> rows[i]]
        /\ purged' = [i \in DOMAIN purged \cup gone |->
                        IF i \in gone THEN rows[i] ELSE purged[i]]
  <2>1. PICK now \in Reading :
          LET g == {i \in DOMAIN rows : rows[i].expires + Retention < now}
          IN /\ rows' = [i \in DOMAIN rows \ g |-> rows[i]]
             /\ purged' = [i \in DOMAIN purged \cup g |->
                             IF i \in g THEN rows[i] ELSE purged[i]]
    BY DEF Purge
  <2>2. QED BY <2>1
<1>2. UNCHANGED <<time, work, grants, told>>
  BY DEF Purge
<1>3. /\ DOMAIN rows' = DOMAIN rows \ gone
      /\ DOMAIN purged' = DOMAIN purged \cup gone
      /\ \A i \in DOMAIN rows' : rows'[i] = rows[i]
      /\ \A i \in DOMAIN purged : i \notin gone => purged'[i] = purged[i]
      /\ \A i \in gone : purged'[i] = rows[i]
  BY <1>1
<1>4. Disjoint'
  BY <1>3 DEF IInv, Disjoint
<1>5. Recorded' = Recorded
  BY <1>1, <1>3 DEF Recorded
<1>6. \A i \in Recorded : Known(i)' = Known(i)
  BY <1>1, <1>3 DEF Recorded, Known, IInv, Disjoint
<1>7. TypeOK'
  BY <1>1, <1>2, <1>3 DEF IInv, TypeOK
<1>8. RowsOK' /\ FreshOK' /\ ToldOK'
  BY <1>2, <1>5, <1>6 DEF IInv, RowsOK, FreshOK, ToldOK, ReviewerOK, GrantOK, Confirms
<1>9. JobsOK' /\ InsertsOK'
  BY <1>2, <1>5, <1>6 DEF IInv, JobsOK, JobOK, InsertsOK
<1>10. QED BY <1>4, <1>7, <1>8, <1>9 DEF IInv

-----------------------------------------------------------------------------
(* The invariant is inductive: every statement, failure and purge keeps it. *)
LEMMA NextIInv == IInv /\ [Next]_vars => IInv'
<1> SUFFICES ASSUME IInv, [Next]_vars PROVE IInv'
  OBVIOUS
<1>1. CASE Tick
  BY <1>1, TickIInv
<1>2. CASE Purge
  BY <1>2, PurgeIInv
<1>3. ASSUME NEW w \in Workers,
             \/ InsertRow(w) \/ Stamp(w) \/ Confirm(w) \/ Fail(w)
             \/ \E answered \in BOOLEAN : ConsumeRow(w, answered) \/ UpdateRow(w, answered)
      PROVE  IInv'
  BY <1>3, InsertRowIInv, StampIInv, ConfirmIInv, FailIInv, ConsumeRowIInv, UpdateRowIInv
<1>4. ASSUME NEW w \in Workers,
             \E i \in Ids, d \in Digests, t \in Tenants :
               \/ Present(w, i, d, t)
               \/ \E u \in Users : Create(w, i, d, t, u)
      PROVE  IInv'
  BY <1>4, PresentIInv, CreateIInv
<1>5. ASSUME NEW w \in Workers,
             \E i \in Ids, u \in Users, t \in Tenants, o \in Outcomes :
               Adjudicable(w, i, u, t, o)
      PROVE  IInv'
  BY <1>5, AdjudicableIInv
<1>6. CASE UNCHANGED vars
  <2>1. UNCHANGED <<time, rows, work, purged, grants, told>>
    BY <1>6 DEF vars
  <2>2. Recorded' = Recorded /\ \A i : Known(i)' = Known(i)
    BY <2>1 DEF Recorded, Known
  <2>3. TypeOK'
    BY <2>1 DEF IInv, TypeOK
  <2>4. Disjoint' /\ RowsOK' /\ FreshOK' /\ ToldOK'
    BY <2>1, <2>2 DEF IInv, Disjoint, RowsOK, FreshOK, ToldOK, ReviewerOK, GrantOK, Confirms
  <2>5. JobsOK' /\ InsertsOK'
    BY <2>1, <2>2 DEF IInv, JobsOK, JobOK, InsertsOK
  <2>6. QED BY <2>3, <2>4, <2>5 DEF IInv
<1>7. QED BY <1>1, <1>2, <1>3, <1>4, <1>5, <1>6 DEF Next

LEMMA Invariance == Spec => []IInv
BY InitIInv, NextIInv, PTL DEF Spec

(* The table, the workers and the histories always have their types. *)
THEOREM TypeCorrect == Spec => []TypeOK
<1>1. IInv => TypeOK
  BY DEF IInv
<1>2. QED BY <1>1, Invariance, PTL

(* Of any number of replicas presenting an approval at most one is         *)
(* allowed, and only for the action the approval was requested for.        *)
THEOREM SpentOnceExactly == Spec => []ExactSingleUse
<1>1. IInv => ExactSingleUse
  <2> SUFFICES ASSUME IInv, NEW i \in Ids
               PROVE  /\ Len(grants[i]) <= 1
                      /\ grants[i] # << >> =>
                           /\ i \in Recorded
                           /\ Known(i).status = "consumed"
                           /\ grants[i][1].digest = Known(i).digest
                           /\ grants[i][1].tenant = Known(i).tenant
    BY DEF ExactSingleUse
  <2>1. CASE grants[i] = << >>
    BY <2>1
  <2>2. CASE grants[i] # << >>
    <3>1. i \in Recorded
      BY <2>2 DEF IInv, FreshOK
    <3>2. GrantOK(Known(i), grants[i])
      BY <3>1 DEF IInv, RowsOK
    <3>3. PICK row : row = Known(i)
      OBVIOUS
    <3>4. GrantOK(row, grants[i])
      BY <3>2, <3>3
    <3>5. Len(grants[i]) <= 1
      <4>1. Len(grants[i]) = 1
        BY <2>2, <3>4, Zenon DEF GrantOK
      <4>2. QED BY <4>1
    <3>6. /\ row.status = "consumed"
          /\ grants[i][1].digest = row.digest
          /\ grants[i][1].tenant = row.tenant
      BY <2>2, <3>4 DEF GrantOK
    <3>7. QED BY <3>1, <3>3, <3>5, <3>6
  <2>3. QED BY <2>1, <2>2
<1>2. QED BY <1>1, Invariance, PTL

(* No approval is adjudicated by the identity that asked for it. *)
THEOREM DutiesSeparated == Spec => []SeparationOfDuties
<1>1. IInv => SeparationOfDuties
  BY UsersAssumption DEF IInv, RowsOK, ReviewerOK, SeparationOfDuties
<1>2. QED BY <1>1, Invariance, PTL

(* Nobody is allowed who asked after the approval had expired everywhere. *)
THEOREM InTime == Spec => []GrantedInTime
<1>1. IInv => GrantedInTime
  BY DEF IInv, FreshOK, RowsOK, GrantOK, GrantedInTime
<1>2. QED BY <1>1, Invariance, PTL

(* An adjudication a reviewer saw confirmed is never overturned. *)
THEOREM ConfirmedHolds == Spec => []AnswersHold
<1>1. IInv => AnswersHold
  BY DEF IInv, ToldOK, Confirms, RowsOK, GrantOK, AnswersHold
<1>2. QED BY <1>1, Invariance, PTL

-----------------------------------------------------------------------------
(* Refinement: each step moves each approval as ApprovalLifecycle allows.  *)
LifeOf(r, st, acts) ==
  [status |-> st, digest |-> r.digest, tenant |-> r.tenant,
   requestedBy |-> r.requestedBy, reviewer |-> r.reviewer, grants |-> acts]

(* The status of a row kept or purged, and the actions granted on it. *)
Standing(i) ==
  IF i \in DOMAIN purged /\ purged[i].status \in Open THEN "expired" ELSE Known(i).status

Acts(given) == [n \in 1..Len(given) |-> Action(given[n])]

LEMMA LifeFacts ==
  \A i : Life(i) = IF i \in Recorded THEN LifeOf(Known(i), Standing(i), Acts(grants[i]))
                   ELSE [status |-> "unused"]
BY DEF Life, LifeOf, Standing, Acts

LEMMA LifeFactsPrimed ==
  \A i : Life(i)' = IF i \in Recorded' THEN LifeOf(Known(i)', Standing(i)', Acts(grants'[i]))
                    ELSE [status |-> "unused"]
BY DEF Life, LifeOf, Standing, Acts

LEMMA ActsFacts ==
  /\ Acts(<< >>) = << >>
  /\ \A g : Acts(<<g>>) = <<Action(g)>>
<1>1. Acts(<< >>) = << >>
  BY DEF Acts
<1>2. ASSUME NEW g PROVE Acts(<<g>>) = <<Action(g)>>
  <2> DEFINE a == Action(g)
  <2>1. Len(<<g>>) = 1 /\ 1..1 = {1} /\ <<g>>[1] = g
    OBVIOUS
  <2>2. Acts(<<g>>) = [n \in {1} |-> Action(<<g>>[n])]
    BY <2>1 DEF Acts
  <2>3. \A n \in {1} : Action(<<g>>[n]) = a
    BY <2>1
  <2>4. Acts(<<g>>) = [n \in {1} |-> a]
    BY <2>2, <2>3
  <2> HIDE DEF a
  <2>5. [n \in {1} |-> a] = <<a>>
    OBVIOUS
  <2>6. QED BY <2>4, <2>5 DEF a
<1>3. QED BY <1>1, <1>2

(* The steps of a life, for a life written out. *)
LEMMA Adjudicates ==
  ASSUME NEW r, NEW q, NEW st \in Outcomes, NEW acts,
         q.digest = r.digest, q.tenant = r.tenant, q.requestedBy = r.requestedBy,
         q.reviewer \in Users \ {r.requestedBy}
  PROVE  Lifecycle!Evolves(LifeOf(r, "pending", acts), LifeOf(q, st, acts))
<1> DEFINE a == LifeOf(r, "pending", acts)
           b == [a EXCEPT !.status = st]
<1>1. LifeOf(q, st, acts) =
        [status |-> st, digest |-> r.digest, tenant |-> r.tenant,
         requestedBy |-> r.requestedBy, reviewer |-> q.reviewer, grants |-> acts]
  BY DEF LifeOf
<1>2. b = [status |-> st, digest |-> r.digest, tenant |-> r.tenant,
           requestedBy |-> r.requestedBy, reviewer |-> r.reviewer, grants |-> acts]
  BY DEF LifeOf
<1>3. [a EXCEPT !.status = st, !.reviewer = q.reviewer] = [b EXCEPT !.reviewer = q.reviewer]
  OBVIOUS
<1>4. a.status = "pending" /\ a.requestedBy = r.requestedBy
  BY DEF LifeOf
<1> HIDE DEF a, b
<1>5. [b EXCEPT !.reviewer = q.reviewer] = LifeOf(q, st, acts)
  BY <1>1, <1>2
<1>6. LifeOf(q, st, acts) = [a EXCEPT !.status = st, !.reviewer = q.reviewer]
  BY <1>3, <1>5
<1>7. QED BY <1>4, <1>6 DEF a, Lifecycle!Evolves, Lifecycle!IsAdjudicated, Outcomes

LEMMA GivesUp ==
  ASSUME NEW r, NEW st \in Open, NEW acts
  PROVE  Lifecycle!Evolves(LifeOf(r, st, acts), LifeOf(r, "expired", acts))
<1>1. LifeOf(r, "expired", acts) = [LifeOf(r, st, acts) EXCEPT !.status = "expired"]
  BY DEF LifeOf
<1>2. LifeOf(r, st, acts).status = st
  BY DEF LifeOf
<1>3. QED BY <1>1, <1>2 DEF Lifecycle!Evolves, Lifecycle!IsGivenUp, Lifecycle!Open, Open

LEMMA Spends ==
  ASSUME NEW r, NEW q, NEW acts,
         q.digest = r.digest, q.tenant = r.tenant, q.requestedBy = r.requestedBy,
         q.reviewer = r.reviewer,
         acts \in {<< >>, <<[digest |-> r.digest, tenant |-> r.tenant]>>}
  PROVE  Lifecycle!Evolves(LifeOf(r, "approved", << >>), LifeOf(q, "consumed", acts))
<1> DEFINE a == LifeOf(r, "approved", << >>)
           b == [a EXCEPT !.status = "consumed"]
<1>1. /\ a.status = "approved" /\ a.grants = << >>
      /\ acts \in {<< >>, <<[digest |-> a.digest, tenant |-> a.tenant]>>}
  BY DEF LifeOf
<1>2. LifeOf(q, "consumed", acts) =
        [status |-> "consumed", digest |-> r.digest, tenant |-> r.tenant,
         requestedBy |-> r.requestedBy, reviewer |-> r.reviewer, grants |-> acts]
  BY DEF LifeOf
<1>3. b = [status |-> "consumed", digest |-> r.digest, tenant |-> r.tenant,
           requestedBy |-> r.requestedBy, reviewer |-> r.reviewer, grants |-> << >>]
  BY DEF LifeOf
<1>4. [a EXCEPT !.status = "consumed", !.grants = acts] = [b EXCEPT !.grants = acts]
  OBVIOUS
<1> HIDE DEF a, b
<1>5. [b EXCEPT !.grants = acts] = LifeOf(q, "consumed", acts)
  BY <1>2, <1>3
<1>6. a.grants \o acts = acts
  <2>1. << >> \o << >> = << >>
    OBVIOUS
  <2>2. \A x : << >> \o <<x>> = <<x>>
    OBVIOUS
  <2>3. QED BY <1>1, <2>1, <2>2
<1>7. LifeOf(q, "consumed", acts) = [a EXCEPT !.status = "consumed", !.grants = @ \o acts]
  BY <1>4, <1>5, <1>6
<1>8. Lifecycle!IsSpent(a, LifeOf(q, "consumed", acts))
  BY <1>1, <1>7 DEF Lifecycle!IsSpent
<1>9. QED BY <1>8 DEF a, Lifecycle!Evolves

(* What is neither written nor purged stands still. *)
LEMMA StandsStill ==
  ASSUME NEW j, (j \in DOMAIN rows') <=> (j \in DOMAIN rows),
         (j \in DOMAIN purged') <=> (j \in DOMAIN purged),
         j \in DOMAIN rows => rows'[j] = rows[j],
         j \in DOMAIN purged => purged'[j] = purged[j],
         grants'[j] = grants[j]
  PROVE  Lifecycle!Evolves(Life(j), Life(j)')
<1>1. /\ (j \in Recorded') <=> (j \in Recorded)
      /\ j \in Recorded => Known(j)' = Known(j) /\ Standing(j)' = Standing(j)
  BY DEF Recorded, Known, Standing
<1>2. Life(j)' = Life(j)
  BY <1>1, LifeFacts, LifeFactsPrimed
<1>3. QED BY <1>2 DEF Lifecycle!Evolves

(* The life of a row in the table. *)
LEMMA RowLife ==
  ASSUME IInv, NEW i \in DOMAIN rows
  PROVE  Life(i) = LifeOf(rows[i], rows[i].status, Acts(grants[i]))
<1>1. i \in Recorded /\ Known(i) = rows[i] /\ Standing(i) = rows[i].status
  BY DEF Recorded, Known, Standing, IInv, Disjoint
<1>2. QED BY <1>1, LifeFacts

LEMMA RowLifePrimed ==
  ASSUME IInv', NEW i \in DOMAIN rows'
  PROVE  Life(i)' = LifeOf(rows'[i], rows'[i].status, Acts(grants'[i]))
<1>1. i \in Recorded' /\ Known(i)' = rows'[i] /\ Standing(i)' = rows'[i].status
  BY DEF Recorded, Known, Standing, IInv, Disjoint
<1>2. QED BY <1>1, LifeFactsPrimed

LEMMA InsertRowEvolves ==
  ASSUME IInv, IInv', NEW w \in Workers, InsertRow(w), NEW j \in Ids
  PROVE  Lifecycle!Evolves(Life(j), Life(j)')
<1>0. PICK i, row : i = work[w].id /\ row = work[w].row
  OBVIOUS
<1>1. i \in Ids /\ row \in Row /\ i \notin Recorded /\ row.status = "pending"
      /\ row.reviewer = NoOne /\ work[w].pc = "insert"
  <2>1. work[w] \in Job /\ JobOK(work[w]) /\ work[w].pc = "insert"
    BY DEF InsertRow, IInv, TypeOK, JobsOK
  <2>2. QED BY <1>0, <2>1, JobFacts DEF JobOK
<1>2. /\ DOMAIN rows' = DOMAIN rows \cup {i} /\ rows'[i] = row
      /\ \A k \in DOMAIN rows : rows'[k] = rows[k]
      /\ UNCHANGED <<purged, grants>>
  BY <1>0, <1>1 DEF InsertRow, Put, Recorded
<1>3. CASE j # i
  BY <1>2, <1>3, StandsStill
<1>4. CASE j = i
  <2>1. Life(j) = Lifecycle!Unused
    BY <1>1, <1>4, LifeFacts DEF Lifecycle!Unused
  <2>2. Acts(grants'[j]) = << >>
    BY <1>1, <1>2, <1>4, ActsFacts DEF IInv, FreshOK
  <2>3. Life(j)' = LifeOf(row, "pending", << >>)
    BY <1>1, <1>2, <1>4, <2>2, RowLifePrimed
  <2>4. LifeOf(row, "pending", << >>) \in Lifecycle!Requested
    BY <1>1 DEF LifeOf, Row, Lifecycle!Requested
  <2>5. QED BY <2>1, <2>3, <2>4 DEF Lifecycle!Evolves, Lifecycle!IsRequested
<1>5. QED BY <1>3, <1>4

LEMMA UpdateRowEvolves ==
  ASSUME IInv, IInv', NEW w \in Workers, NEW answered \in BOOLEAN, UpdateRow(w, answered),
         NEW j \in Ids
  PROVE  Lifecycle!Evolves(Life(j), Life(j)')
<1>0. PICK job : job = work[w]
  OBVIOUS
<1>1. job \in Job /\ JobOK(job) /\ job.pc = "update" /\ UNCHANGED <<purged, grants>>
  BY <1>0 DEF UpdateRow, IInv, TypeOK, JobsOK
<1>2. job.id \in Ids /\ job.reviewer \in Users /\ job.outcome \in Outcomes
      /\ job.id \in Recorded /\ Known(job.id).requestedBy # job.reviewer
  BY <1>1, JobFacts DEF JobOK
<1>3. CASE ~StillPending(job)
  <2>1. rows' = rows
    BY <1>0, <1>3 DEF UpdateRow
  <2>2. QED BY <1>1, <2>1, StandsStill
<1>4. CASE StillPending(job)
  <2>0. PICK i, row : i = job.id /\ row = [rows[i] EXCEPT !.status = job.outcome,
                                                          !.reviewer = job.reviewer]
    OBVIOUS
  <2>1. i \in DOMAIN rows /\ rows[i] \in Row /\ rows[i].status = "pending" /\ Known(i) = rows[i]
    BY <1>2, <1>4, <2>0 DEF StillPending, IInv, TypeOK, Known
  <2>2. rows' = [rows EXCEPT ![i].status = job.outcome, ![i].reviewer = job.reviewer]
    BY <1>0, <1>4, <2>0 DEF UpdateRow
  <2>3. /\ DOMAIN rows' = DOMAIN rows /\ rows'[i] = row
        /\ \A k \in DOMAIN rows : k # i => rows'[k] = rows[k]
    BY <2>0, <2>1, <2>2
  <2>4. /\ row.status = job.outcome /\ row.reviewer = job.reviewer
        /\ row.digest = rows[i].digest /\ row.tenant = rows[i].tenant
        /\ row.requestedBy = rows[i].requestedBy
    BY <2>0, <2>1 DEF Row
  <2>5. CASE j # i
    BY <1>1, <2>3, <2>5, StandsStill
  <2>6. CASE j = i
    <3>1. Life(j) = LifeOf(rows[i], "pending", Acts(grants[i]))
      BY <2>1, <2>6, RowLife
    <3>2. Life(j)' = LifeOf(row, job.outcome, Acts(grants[i]))
      BY <1>1, <2>1, <2>3, <2>4, <2>6, RowLifePrimed
    <3> DEFINE r    == rows[i]
               acts == Acts(grants[i])
    <3>3. row.reviewer \in Users \ {r.requestedBy}
      BY <1>2, <2>0, <2>1, <2>4
    <3> HIDE DEF r, acts
    <3>4. Lifecycle!Evolves(LifeOf(r, "pending", acts), LifeOf(row, job.outcome, acts))
      BY <1>2, <2>4, <3>3, Adjudicates DEF r
    <3>5. QED BY <3>1, <3>2, <3>4 DEF r, acts
  <2>7. QED BY <2>5, <2>6
<1>5. QED BY <1>3, <1>4

LEMMA ConsumeRowEvolves ==
  ASSUME IInv, IInv', NEW w \in Workers, NEW answered \in BOOLEAN, ConsumeRow(w, answered),
         NEW j \in Ids
  PROVE  Lifecycle!Evolves(Life(j), Life(j)')
<1>0. PICK job : job = work[w]
  OBVIOUS
<1>1. job \in Job /\ job.pc = "consume" /\ purged' = purged
  BY <1>0 DEF ConsumeRow, IInv, TypeOK
<1>2. CASE ~Consumable(job)
  <2>1. UNCHANGED <<rows, grants>>
    BY <1>0, <1>2 DEF ConsumeRow
  <2>2. QED BY <1>1, <2>1, StandsStill
<1>3. CASE Consumable(job)
  <2>0. PICK i, row : i = job.id /\ row = [rows[i] EXCEPT !.status = "consumed"]
    OBVIOUS
  <2>1. /\ i \in DOMAIN rows /\ i \in Ids /\ rows[i] \in Row
        /\ rows[i].status = "approved" /\ rows[i].digest = job.digest
        /\ rows[i].tenant = job.tenant
    BY <1>3, <2>0 DEF Consumable, IInv, TypeOK, Row
  <2>2. rows' = [rows EXCEPT ![i].status = "consumed"]
    BY <1>0, <1>3, <2>0 DEF ConsumeRow
  <2>3. /\ DOMAIN rows' = DOMAIN rows /\ rows'[i] = row
        /\ \A k \in DOMAIN rows : k # i => rows'[k] = rows[k]
    BY <2>0, <2>1, <2>2
  <2>4. /\ row.status = "consumed" /\ row.digest = rows[i].digest
        /\ row.tenant = rows[i].tenant /\ row.requestedBy = rows[i].requestedBy
        /\ row.reviewer = rows[i].reviewer
    BY <2>0, <2>1 DEF Row
  <2>5. grants[i] = << >>
    <3>1. i \in Recorded /\ Known(i) = rows[i]
      BY <2>1 DEF Recorded, Known
    <3>2. QED BY <2>1, <3>1 DEF IInv, RowsOK, GrantOK
  <2> DEFINE given == [digest |-> job.digest, tenant |-> job.tenant, asked |-> job.asked]
             act   == [digest |-> rows[i].digest, tenant |-> rows[i].tenant]
  <2>6. Action(given) = act
    BY <2>1 DEF Action
  <2>7. /\ grants'[i] \in {<< >>, <<given>>}
        /\ \A k \in Ids : k # i => grants'[k] = grants[k]
    <3>1. DOMAIN grants = Ids
      BY DEF IInv, TypeOK
    <3>2. grants' = grants \/ grants' = [grants EXCEPT ![i] = Append(@, given)]
      BY <1>0, <1>3, <2>0 DEF ConsumeRow
    <3> HIDE DEF given
    <3>3. Append(grants[i], given) = <<given>>
      BY <2>5
    <3>4. QED BY <2>1, <2>5, <3>1, <3>2, <3>3
  <2> HIDE DEF given
  <2>8. Acts(grants[i]) = << >> /\ Acts(grants'[i]) \in {<< >>, <<act>>}
    <3> HIDE DEF act
    <3>1. QED BY <2>5, <2>6, <2>7, ActsFacts
  <2>9. CASE j # i
    BY <1>1, <2>3, <2>7, <2>9, StandsStill
  <2>10. CASE j = i
    <3> DEFINE r    == rows[i]
               acts == Acts(grants'[i])
    <3>1. Life(j) = LifeOf(r, "approved", << >>)
      BY <2>1, <2>8, <2>10, RowLife
    <3>2. Life(j)' = LifeOf(row, "consumed", acts)
      BY <2>1, <2>3, <2>4, <2>10, RowLifePrimed
    <3> HIDE DEF r, acts
    <3>3. acts \in {<< >>, <<[digest |-> r.digest, tenant |-> r.tenant]>>}
      BY <2>8 DEF r, acts
    <3>4. Lifecycle!Evolves(LifeOf(r, "approved", << >>), LifeOf(row, "consumed", acts))
      BY <2>4, <3>3, Spends DEF r
    <3>5. QED BY <3>1, <3>2, <3>4
  <2>11. QED BY <2>9, <2>10
<1>4. QED BY <1>2, <1>3

(* A purged row gives its approval up if it was open. *)
LEMMA PurgeEvolves ==
  ASSUME IInv, Purge, NEW j \in Ids
  PROVE  Lifecycle!Evolves(Life(j), Life(j)')
<1>1. PICK gone :
        /\ gone \subseteq DOMAIN rows
        /\ rows' = [i \in DOMAIN rows \ gone |-> rows[i]]
        /\ purged' = [i \in DOMAIN purged \cup gone |->
                        IF i \in gone THEN rows[i] ELSE purged[i]]
  <2>1. PICK now \in Reading :
          LET g == {i \in DOMAIN rows : rows[i].expires + Retention < now}
          IN /\ rows' = [i \in DOMAIN rows \ g |-> rows[i]]
             /\ purged' = [i \in DOMAIN purged \cup g |->
                             IF i \in g THEN rows[i] ELSE purged[i]]
    BY DEF Purge
  <2>2. QED BY <2>1
<1>2. grants' = grants
  BY DEF Purge
<1>3. CASE j \notin gone
  BY <1>1, <1>2, <1>3, StandsStill
<1>4. CASE j \in gone
  <2> DEFINE r    == rows[j]
             acts == Acts(grants[j])
             st   == IF r.status \in Open THEN "expired" ELSE r.status
  <2>1. Life(j) = LifeOf(r, r.status, acts)
    BY <1>1, <1>4, RowLife
  <2>2. j \in Recorded' /\ Known(j)' = r /\ Standing(j)' = st
    BY <1>1, <1>4 DEF Recorded, Known, Standing
  <2>3. Life(j)' = LifeOf(r, st, acts)
    BY <1>2, <2>2, LifeFactsPrimed
  <2> HIDE DEF r, acts
  <2>4. Lifecycle!Evolves(LifeOf(r, r.status, acts), LifeOf(r, st, acts))
    <3>1. CASE r.status \in Open
      BY <3>1, GivesUp
    <3>2. CASE r.status \notin Open
      BY <3>2 DEF Lifecycle!Evolves
    <3>3. QED BY <3>1, <3>2
  <2>5. QED BY <2>1, <2>3, <2>4
<1>5. QED BY <1>3, <1>4

LEMMA StepEvolves ==
  ASSUME IInv, IInv', [Next]_vars, NEW j \in Ids
  PROVE  Lifecycle!Evolves(Life(j), Life(j)')
<1>1. CASE UNCHANGED <<rows, purged, grants>>
  BY <1>1, StandsStill
<1>2. CASE Tick \/ UNCHANGED vars
  BY <1>1, <1>2 DEF Tick, vars
<1>3. CASE Purge
  BY <1>3, PurgeEvolves
<1>4. ASSUME NEW w \in Workers, Stamp(w) \/ Confirm(w) \/ Fail(w)
      PROVE  Lifecycle!Evolves(Life(j), Life(j)')
  BY <1>1, <1>4 DEF Stamp, Confirm, Fail
<1>5. ASSUME NEW w \in Workers,
             \/ InsertRow(w)
             \/ \E answered \in BOOLEAN : ConsumeRow(w, answered) \/ UpdateRow(w, answered)
      PROVE  Lifecycle!Evolves(Life(j), Life(j)')
  BY <1>5, InsertRowEvolves, ConsumeRowEvolves, UpdateRowEvolves
<1>6. ASSUME NEW w \in Workers, NEW i \in Ids, NEW d \in Digests, NEW t \in Tenants,
             Present(w, i, d, t) \/ \E u \in Users : Create(w, i, d, t, u)
      PROVE  Lifecycle!Evolves(Life(j), Life(j)')
  BY <1>1, <1>6 DEF Present, Create
<1>7. ASSUME NEW w \in Workers, NEW i \in Ids, NEW u \in Users, NEW t \in Tenants,
             NEW o \in Outcomes, Adjudicable(w, i, u, t, o)
      PROVE  Lifecycle!Evolves(Life(j), Life(j)')
  BY <1>1, <1>7 DEF Adjudicable
<1>8. QED BY <1>2, <1>3, <1>4, <1>5, <1>6, <1>7 DEF Next

(* stores.SqlApprovalStore keeps the promise of ApprovalLifecycle: for any *)
(* number of replicas, lost replies and skewed clocks, each approval is    *)
(* adjudicated at most once, by somebody else than asked for it, is spent  *)
(* at most once and is given up only while open.                           *)
THEOREM ImplementsLifecycle == Spec => KeepsLifecycle
<1>1. Init => Lifecycle!Init
  <2> SUFFICES ASSUME Init PROVE Lifecycle!Init
    OBVIOUS
  <2>1. Recorded = {}
    BY DEF Init, Recorded
  <2>2. \A i : Life(i) = Lifecycle!Unused
    BY <2>1, LifeFacts DEF Lifecycle!Unused
  <2>3. QED BY <2>2 DEF Lifecycle!Init
<1>2. IInv /\ IInv' /\ [Next]_vars => [Lifecycle!Next]_([i \in Ids |-> Life(i)])
  BY StepEvolves DEF Lifecycle!Next
<1>3. QED BY <1>1, <1>2, Invariance, PTL DEF Spec, KeepsLifecycle, Lifecycle!Spec
=============================================================================
