------------------------- MODULE SqlIncidentsProofs -------------------------
(***************************************************************************)
(* A case of SqlIncidents is complete once it is visible, cites decisions  *)
(* of its own tenant only, and keeps every sighting that was handled, for  *)
(* any number of replicas, threads, tenants, traces and cases.             *)
(***************************************************************************)
EXTENDS SqlIncidents, FiniteSetTheorems, SequenceTheorems, TLAPS

(* A replica's log holds decisions that were published. *)
LogOK == \A r \in Replicas : \A k \in 1..Len(log[r]) : log[r][k] \in published

(* A case covers the traces of the decisions it was opened with. *)
AskedOK ==
  \A i \in DOMAIN asked : \A d \in asked[i].decisions : d.trace \in asked[i].traces

(* Until a case is visible, only what it was opened with is cited for it.  *)
CitedOK ==
  \A i \in Ids, d \in Decision : <<i, d>> \in cited =>
    /\ i \in DOMAIN asked
    /\ i \notin DOMAIN cases => d \in asked[i].decisions
    /\ i \in DOMAIN cases => d.tenant = cases[i].tenant /\ <<i, d.trace>> \in covers

(* What a worker relies on between two of its statements.  A sighting      *)
(* about to join its case: the case is of its tenant and covers its trace. *)
JoinOK(job) ==
  /\ job.for \in published
  /\ job.id \in DOMAIN cases
  /\ cases[job.id].tenant = job.for.tenant
  /\ cases[job.id].title = Canary
  /\ <<job.id, job.for.trace>> \in covers

(* A case being written: what it lacks is what is left to write. *)
WriteOK(job) ==
  /\ job.id \in DOMAIN asked
  /\ job.id \notin DOMAIN cases
  /\ \A d \in asked[job.id].decisions :
       /\ d.tenant = job.tenant
       /\ d \in job.cite \/ <<job.id, d>> \in cited
  /\ \A x \in asked[job.id].traces : x \in job.cover \/ <<job.id, x>> \in covers
  /\ job.cite \subseteq asked[job.id].decisions
  /\ job.for \subseteq asked[job.id].decisions \cap published
  /\ job.for # {} => job.title = Canary

JobOK(job) ==
  /\ job.pc = "look" => job.for \in published
  /\ job.pc = "join" => JoinOK(job)
  /\ job.pc = "gather" => \A d \in job.found : d.tenant = job.tenant
  /\ job.pc = "write" => WriteOK(job)

JobsOK == \A w \in Workers : JobOK(work[w])

(* No case is written by two workers. *)
Writes(w, i) == work[w].pc = "write" /\ work[w].id = i

WritersOK == \A v, w \in Workers, i \in Ids : Writes(v, i) /\ Writes(w, i) => v = w

IInv ==
  /\ TypeOK
  /\ LogOK
  /\ AskedOK
  /\ CitedOK
  /\ JobsOK
  /\ WritersOK
  /\ CompleteOnceVisible
  /\ SightingOnRecord

-----------------------------------------------------------------------------
(* Tables only grow, and a row keeps its tenant and its title. *)
Grows ==
  /\ published \subseteq published' /\ cited \subseteq cited' /\ covers \subseteq covers'
  /\ DOMAIN asked \subseteq DOMAIN asked'
  /\ \A i \in DOMAIN asked : asked'[i] = asked[i]
  /\ DOMAIN cases \subseteq DOMAIN cases'
  /\ \A i \in DOMAIN cases :
       cases'[i].tenant = cases[i].tenant /\ cases'[i].title = cases[i].title

(* A decision is appended, and the oldest may leave. *)
LEMMA LoggedFacts ==
  ASSUME NEW S, NEW entries \in Seq(S), NEW d \in S, Len(entries) <= MaxLog
  PROVE  /\ Logged(entries, d) \in Seq(S) /\ Len(Logged(entries, d)) <= MaxLog
         /\ \A k \in 1..Len(Logged(entries, d)) :
              Logged(entries, d)[k] = d
                \/ \E j \in 1..Len(entries) : Logged(entries, d)[k] = entries[j]
<1> DEFINE grown == Append(entries, d)
           n == Len(entries)
<1>1. /\ grown \in Seq(S) /\ Len(grown) = n + 1 /\ grown[n + 1] = d /\ n \in Nat
      /\ \A i \in 1..n : grown[i] = entries[i]
  BY AppendProperties
<1>2. \A k \in 1..(n + 1) : grown[k] = d \/ \E j \in 1..n : grown[k] = entries[j]
  BY <1>1
<1> HIDE DEF grown
<1>3. CASE ~(Len(grown) > MaxLog)
  <2>1. Logged(entries, d) = grown
    BY <1>3 DEF Logged, grown
  <2>2. QED BY <1>1, <1>2, <1>3, <2>1, MaxLogAssumption
<1>4. CASE Len(grown) > MaxLog
  <2>1. Logged(entries, d) = Tail(grown)
    BY <1>4 DEF Logged, grown
  <2>2. grown # << >> /\ Len(grown) - 1 = n
    BY <1>1
  <2>3. /\ Tail(grown) \in Seq(S) /\ Len(Tail(grown)) = n
        /\ \A i \in 1..n : Tail(grown)[i] = grown[i + 1]
    BY <1>1, <2>2, HeadTailProperties
  <2>4. \A i \in 1..n : i + 1 \in 1..(n + 1)
    BY <1>1
  <2> HIDE DEF n
  <2>5. \A i \in 1..n : Tail(grown)[i] = d \/ \E j \in 1..n : Tail(grown)[i] = entries[j]
    BY <1>2, <2>3, <2>4
  <2>6. n <= MaxLog
    BY DEF n
  <2>7. QED BY <2>1, <2>3, <2>5, <2>6 DEF n
<1>5. QED BY <1>3, <1>4

(* What a worker relies on stays true while the tables grow, as long as    *)
(* nobody else makes its case visible.                                     *)
LEMMA JobKept ==
  ASSUME TypeOK, Grows, NEW job, JobOK(job),
         job.pc = "write" => job.id \notin DOMAIN cases'
  PROVE  JobOK(job)'
<1>1. job.pc = "look" => (job.for \in published)'
  BY DEF JobOK, Grows
<1>2. job.pc = "join" => JoinOK(job)'
  BY DEF JobOK, Grows, JoinOK
<1>3. job.pc = "write" => WriteOK(job)'
  BY DEF JobOK, Grows, WriteOK
<1>4. QED BY <1>1, <1>2, <1>3 DEF JobOK

(* One worker takes its next step, and no other moves. *)
LEMMA StepJobs ==
  ASSUME IInv, Grows, NEW w \in Workers, NEW job, Goto(w, job),
         \A j : j = job => JobOK(j)',
         \A i \in DOMAIN cases' : i \in DOMAIN cases \/ Writes(w, i),
         job.pc = "write" => Writes(w, job.id) \/ job.id \notin DOMAIN asked
  PROVE  JobsOK' /\ WritersOK'
<1>1. /\ work'[w] = job
      /\ \A v \in Workers : v # w => work'[v] = work[v]
  BY DEF IInv, TypeOK, Goto
<1>2. \A v \in Workers : work[v].pc = "write" => work[v].id \in DOMAIN asked /\ work[v].id \in Ids
  BY DEF IInv, JobsOK, JobOK, WriteOK, TypeOK
<1>3. \A v \in Workers : v # w => (work[v].pc = "write" => work[v].id \notin DOMAIN cases')
  BY <1>2 DEF IInv, JobsOK, JobOK, WriteOK, WritersOK, Writes
<1>4. \A j : JobOK(j) /\ (j.pc = "write" => j.id \notin DOMAIN cases') => JobOK(j)'
  BY JobKept DEF IInv
<1>5. JobsOK'
  BY <1>1, <1>3, <1>4 DEF IInv, JobsOK
<1>6. \A v \in Workers, i \in Ids : Writes(v, i)' /\ Writes(w, i)' => v = w
  BY <1>1, <1>2 DEF IInv, WritersOK, Writes
<1>7. WritersOK'
  BY <1>1, <1>6 DEF IInv, WritersOK, Writes
<1>8. QED BY <1>5, <1>7

(* A step that writes no row and makes no case visible. *)
LEMMA StepTables ==
  ASSUME IInv, UNCHANGED <<cases, cited, covers, handled>>,
         published \subseteq published',
         DOMAIN asked \subseteq DOMAIN asked', \A i \in DOMAIN asked : asked'[i] = asked[i]
  PROVE  Grows /\ CitedOK' /\ CompleteOnceVisible' /\ SightingOnRecord'
<1>1. Grows
  BY DEF Grows
<1>2. CitedOK'
  BY DEF IInv, CitedOK
<1>3. CompleteOnceVisible'
  BY DEF IInv, CompleteOnceVisible, TypeOK
<1>4. SightingOnRecord'
  BY DEF IInv, SightingOnRecord
<1>5. QED BY <1>1, <1>2, <1>3, <1>4

LEMMA WorkType ==
  ASSUME TypeOK, NEW w \in Workers, NEW job \in Job, Goto(w, job)
  PROVE  work' \in [Workers -> Job]
BY DEF TypeOK, Goto

(* What a worker is at, by its program counter. *)
LEMMA JobFacts ==
  ASSUME TypeOK, NEW w \in Workers
  PROVE  /\ work[w].pc = "look" => work[w].for \in Decision
         /\ work[w].pc = "join" => work[w].for \in Decision /\ work[w].id \in Ids
         /\ work[w].pc = "gather" =>
              work[w] \in [pc : {"gather"}, tenant : Tenants, title : Titles,
                           left : SUBSET Decision, found : SUBSET Decision]
         /\ work[w].pc = "write" =>
              work[w] \in [pc : {"write"}, id : Ids, tenant : Tenants, title : Titles,
                           cite : SUBSET Decision, cover : SUBSET Traces,
                           for : SUBSET Decision]
<1>1. work[w] \in Job
  BY DEF TypeOK
<1>2. QED BY <1>1 DEF Job, Idle

-----------------------------------------------------------------------------
(* The steps, one lemma per operation *)

LEMMA InitIInv == Init => IInv
<1> SUFFICES ASSUME Init PROVE IInv
  OBVIOUS
<1>1. DOMAIN cases = {} /\ DOMAIN asked = {}
  BY DEF Init
<1>2. \A r \in Replicas : log[r] = << >> /\ Len(log[r]) = 0
  BY DEF Init
<1>3. TypeOK
  BY <1>1, <1>2, FS_EmptySet, MaxLogAssumption DEF Init, TypeOK, Job
<1>4. \A w \in Workers : work[w].pc = "idle"
  BY DEF Init, Idle
<1>5. LogOK /\ AskedOK /\ CitedOK /\ JobsOK /\ WritersOK
  BY <1>1, <1>2, <1>4 DEF Init, LogOK, AskedOK, CitedOK, JobsOK, JobOK, WritersOK, Writes
<1>6. CompleteOnceVisible /\ SightingOnRecord
  BY <1>1 DEF Init, CompleteOnceVisible, SightingOnRecord
<1>7. QED BY <1>3, <1>5, <1>6 DEF IInv

(* A worker moves on without touching a table. *)
LEMMA MovedIInv ==
  ASSUME IInv, NEW w \in Workers, NEW job \in Job, Goto(w, job),
         UNCHANGED <<log, cases, cited, covers, published, asked, handled>>,
         job.pc # "write", \A j : j = job => JobOK(j)
  PROVE  IInv'
<1>1. Grows /\ CitedOK' /\ CompleteOnceVisible' /\ SightingOnRecord'
  BY StepTables
<1>2. TypeOK'
  BY WorkType DEF IInv, TypeOK
<1>3. \A j : j = job => JobOK(j)'
  BY <1>1, JobKept DEF IInv
<1>4. JobsOK' /\ WritersOK'
  BY <1>1, <1>3, StepJobs
<1>5. LogOK' /\ AskedOK'
  BY DEF IInv, LogOK, AskedOK
<1>6. QED BY <1>1, <1>2, <1>4, <1>5 DEF IInv

LEMMA IdleFacts ==
  /\ Idle \in Job /\ Idle.pc # "write"
  /\ \A j : j = Idle => JobOK(j)
BY DEF Idle, Job, JobOK

LEMMA FailIInv == ASSUME IInv, NEW w \in Workers, Fail(w) PROVE IInv'
BY IdleFacts, MovedIInv DEF Fail

LEMMA RequestIInv ==
  ASSUME IInv, NEW w \in Workers, NEW t \in Tenants, NEW title \in Titles,
         NEW ds \in SUBSET published, Request(w, t, title, ds)
  PROVE  IInv'
<1> DEFINE job == [pc |-> "gather", tenant |-> t, title |-> title, left |-> ds, found |-> {}]
<1>1. job \in Job /\ job.pc # "write"
  BY DEF IInv, TypeOK, Job
<1>2. \A j : j = job => JobOK(j)
  BY DEF JobOK
<1>3. Goto(w, job) /\ UNCHANGED <<log, cases, cited, covers, published, asked, handled>>
  BY DEF Request
<1> HIDE DEF job
<1>4. QED BY <1>1, <1>2, <1>3, MovedIInv

LEMMA GatherIInv == ASSUME IInv, NEW w \in Workers, Gather(w) PROVE IInv'
<1> DEFINE job == work[w]
<1>1. /\ job \in [pc : {"gather"}, tenant : Tenants, title : Titles,
                  left : SUBSET Decision, found : SUBSET Decision]
      /\ \A d \in job.found : d.tenant = job.tenant
  BY JobFacts DEF IInv, Gather, JobsOK, JobOK
<1>2. PICK d \in job.left :
        IF Known(w, d)
        THEN Goto(w, [job EXCEPT !.left = @ \ {d}, !.found = @ \cup {d}])
        ELSE Goto(w, Idle)
  BY DEF Gather
<1>3. UNCHANGED <<log, cases, cited, covers, published, asked, handled>>
  BY DEF Gather
<1>4. CASE ~Known(w, d)
  BY <1>2, <1>3, <1>4, IdleFacts, MovedIInv
<1>5. CASE Known(w, d)
  <2> DEFINE next == [job EXCEPT !.left = @ \ {d}, !.found = @ \cup {d}]
  <2>1. d.tenant = job.tenant
    BY <1>5 DEF Known
  <2>2. /\ next \in [pc : {"gather"}, tenant : Tenants, title : Titles,
                     left : SUBSET Decision, found : SUBSET Decision]
        /\ \A e \in next.found : e.tenant = next.tenant
    BY <1>1, <2>1
  <2>3. Goto(w, next)
    BY <1>2, <1>5
  <2> HIDE DEF next
  <2>4. next \in Job /\ next.pc # "write"
    BY <2>2 DEF Job
  <2>5. \A j : j = next => JobOK(j)
    BY <2>2 DEF JobOK
  <2>6. QED BY <1>3, <2>3, <2>4, <2>5, MovedIInv
<1>6. QED BY <1>4, <1>5

LEMMA PublishIInv ==
  ASSUME IInv, NEW w \in Workers, NEW t \in Tenants, NEW x \in Traces, NEW leak \in BOOLEAN,
         Publish(w, t, x, leak)
  PROVE  IInv'
<1> DEFINE d   == [n |-> Cardinality(published) + 1, tenant |-> t, trace |-> x, leak |-> leak]
           job == IF leak THEN [pc |-> "look", for |-> d] ELSE work[w]
           r   == Home(w)
<1>1. Cardinality(published) + 1 \in 1..MaxDecisions
  <2>1. Cardinality(published) \in Nat
    BY FS_CardinalityType DEF IInv, TypeOK
  <2>2. QED BY <2>1, MaxDecisionsAssumption DEF Publish
<1>2. d \in Decision
  BY <1>1 DEF Decision
<1>3. /\ published' = published \cup {d}
      /\ log' = [log EXCEPT ![r] = Logged(@, d)]
      /\ IF leak THEN Goto(w, [pc |-> "look", for |-> d]) ELSE UNCHANGED work
      /\ UNCHANGED <<cases, cited, covers, asked, handled>>
      /\ work[w] = Idle
  BY DEF Publish
<1> HIDE DEF d
<1>4. r \in Replicas
  BY DEF Workers, Home
<1>5. log \in [Replicas -> Seq(Decision)] /\ \A q \in Replicas : Len(log[q]) <= MaxLog
  BY DEF IInv, TypeOK
<1>6. /\ Logged(log[r], d) \in Seq(Decision) /\ Len(Logged(log[r], d)) <= MaxLog
      /\ \A k \in 1..Len(Logged(log[r], d)) :
           Logged(log[r], d)[k] = d
             \/ \E j \in 1..Len(log[r]) : Logged(log[r], d)[k] = log[r][j]
  <2>1. log[r] \in Seq(Decision) /\ Len(log[r]) <= MaxLog
    BY <1>4, <1>5
  <2> DEFINE entries == log[r]
  <2> HIDE DEF entries
  <2>2. entries \in Seq(Decision) /\ Len(entries) <= MaxLog
    BY <2>1 DEF entries
  <2>3. /\ Logged(entries, d) \in Seq(Decision) /\ Len(Logged(entries, d)) <= MaxLog
        /\ \A k \in 1..Len(Logged(entries, d)) :
             Logged(entries, d)[k] = d
               \/ \E j \in 1..Len(entries) : Logged(entries, d)[k] = entries[j]
    BY <1>2, <2>2, LoggedFacts
  <2>4. QED BY <2>3 DEF entries
<1>7. /\ log' \in [Replicas -> Seq(Decision)] /\ log'[r] = Logged(log[r], d)
      /\ \A q \in Replicas : q # r => log'[q] = log[q]
  BY <1>3, <1>4, <1>5, <1>6
<1>8. IsFiniteSet(published')
  BY <1>3, FS_AddElement DEF IInv, TypeOK
<1>9. job \in Job /\ Goto(w, job) /\ job.pc # "write"
  BY <1>2, <1>3 DEF IInv, TypeOK, Job, Idle, Goto
<1>10. \A q \in Replicas : Len(log'[q]) <= MaxLog
  BY <1>5, <1>6, <1>7
<1>11. TypeOK'
  <2>1. work' \in [Workers -> Job]
    BY <1>9, WorkType DEF IInv
  <2>2. published' \subseteq Decision /\ handled' \subseteq published'
    BY <1>2, <1>3 DEF IInv, TypeOK
  <2>3. QED BY <1>3, <1>7, <1>8, <1>10, <2>1, <2>2 DEF IInv, TypeOK
<1>12. LogOK'
  <2>1. \A k \in 1..Len(log'[r]) : log'[r][k] \in published'
    BY <1>3, <1>4, <1>6, <1>7 DEF IInv, LogOK
  <2>2. \A q \in Replicas : q # r => \A k \in 1..Len(log'[q]) : log'[q][k] \in published'
    BY <1>3, <1>7 DEF IInv, LogOK
  <2>3. QED BY <2>1, <2>2 DEF LogOK
<1>13. Grows /\ CitedOK' /\ CompleteOnceVisible' /\ SightingOnRecord'
  BY <1>3, StepTables
<1>14. \A j : j = job => JobOK(j)'
  BY <1>3 DEF JobOK, Idle
<1> HIDE DEF job
<1>15. JobsOK' /\ WritersOK'
  BY <1>3, <1>9, <1>13, <1>14, StepJobs
<1>16. AskedOK'
  BY <1>3 DEF IInv, AskedOK
<1>17. QED BY <1>11, <1>12, <1>13, <1>15, <1>16 DEF IInv

(* A case is about to be written: its identifier is new. *)
LEMMA BeginIInv ==
  ASSUME IInv, NEW w \in Workers, NEW i \in Ids, NEW t \in Tenants, NEW title \in Titles,
         NEW ds \in SUBSET Decision, NEW for \in SUBSET ds,
         \A d \in ds : d.tenant = t,
         for \subseteq published, for # {} => title = Canary,
         Begin(w, i, t, title, ds, for),
         UNCHANGED <<log, cases, cited, covers, published, handled>>
  PROVE  IInv'
<1> DEFINE traces == {d.trace : d \in ds}
           new    == [decisions |-> ds, traces |-> traces]
           job    == [pc |-> "write", id |-> i, tenant |-> t, title |-> title,
                      cite |-> ds, cover |-> traces, for |-> for]
<1>1. i \notin DOMAIN asked /\ asked' = Put(asked, i, new) /\ Goto(w, job)
  BY DEF Begin, Fresh
<1>2. traces \in SUBSET Traces
  BY DEF Decision
<1>3. new \in Citing /\ job \in Job
  BY <1>2 DEF Citing, Job
<1>4. /\ DOMAIN asked' = DOMAIN asked \cup {i} /\ asked'[i] = new
      /\ \A j \in DOMAIN asked : j # i => asked'[j] = asked[j]
  BY <1>1 DEF Put
<1>5. \A j \in DOMAIN asked : asked'[j] = asked[j]
  BY <1>1, <1>4
<1>6. i \notin DOMAIN cases
  BY <1>1 DEF IInv, TypeOK
<1>7. Grows /\ CitedOK' /\ CompleteOnceVisible' /\ SightingOnRecord'
  BY <1>4, <1>5, StepTables
<1>8. \A j : j = job => JobOK(j)'
  BY <1>4, <1>6 DEF JobOK, WriteOK
<1>9. AskedOK'
  BY <1>4, <1>5 DEF IInv, AskedOK
<1>10. LogOK'
  BY DEF IInv, LogOK
<1>11. TypeOK'
  <2> HIDE DEF job, new
  <2>1. work' \in [Workers -> Job]
    BY <1>1, <1>3, WorkType DEF IInv
  <2>2. \A j \in DOMAIN asked' : asked'[j] \in Citing
    BY <1>3, <1>4, <1>5 DEF IInv, TypeOK
  <2>3. QED BY <1>4, <2>1, <2>2 DEF IInv, TypeOK
<1>12. job.pc = "write" => job.id \notin DOMAIN asked
  BY <1>1
<1> HIDE DEF job
<1>13. JobsOK' /\ WritersOK'
  BY <1>1, <1>7, <1>8, <1>12, StepJobs
<1>14. QED BY <1>7, <1>9, <1>10, <1>11, <1>13 DEF IInv

LEMMA LookIInv == ASSUME IInv, NEW w \in Workers, Look(w) PROVE IInv'
<1> DEFINE d == work[w].for
<1>1. d \in Decision /\ d \in published
  BY JobFacts DEF IInv, Look, JobsOK, JobOK
<1>2. CASE /\ \E i \in DOMAIN cases : Matches(i, d) /\ Goto(w, [pc |-> "join", id |-> i, for |-> d])
           /\ UNCHANGED asked
  <2>1. PICK i \in DOMAIN cases : Matches(i, d) /\ Goto(w, [pc |-> "join", id |-> i, for |-> d])
    BY <1>2
  <2> DEFINE job == [pc |-> "join", id |-> i, for |-> d]
  <2>2. job \in Job /\ job.pc # "write"
    BY <1>1 DEF IInv, TypeOK, Job
  <2>3. \A j : j = job => JobOK(j)
    BY <1>1, <2>1 DEF JobOK, JoinOK, Matches
  <2>4. UNCHANGED <<log, cases, cited, covers, published, asked, handled>>
    BY <1>2 DEF Look
  <2>5. Goto(w, job)
    BY <2>1
  <2> HIDE DEF job
  <2>6. QED BY <2>2, <2>3, <2>4, <2>5, MovedIInv
<1>3. CASE \E i \in Ids : Begin(w, i, d.tenant, Canary, {d}, {d})
  <2>1. PICK i \in Ids : Begin(w, i, d.tenant, Canary, {d}, {d})
    BY <1>3
  <2>2. /\ d.tenant \in Tenants /\ Canary \in Titles
        /\ {d} \in SUBSET Decision /\ {d} \in SUBSET {d} /\ {d} \subseteq published
        /\ \A e \in {d} : e.tenant = d.tenant
    BY <1>1 DEF Decision, Titles
  <2>3. UNCHANGED <<log, cases, cited, covers, published, handled>>
    BY DEF Look
  <2> HIDE DEF d
  <2>4. QED BY <2>1, <2>2, <2>3, BeginIInv
<1>4. QED BY <1>2, <1>3 DEF Look

LEMMA OpenIInv == ASSUME IInv, NEW w \in Workers, Open(w) PROVE IInv'
<1> DEFINE job == work[w]
<1>1. /\ job \in [pc : {"gather"}, tenant : Tenants, title : Titles,
                  left : SUBSET Decision, found : SUBSET Decision]
      /\ \A d \in job.found : d.tenant = job.tenant
  BY JobFacts DEF IInv, Open, JobsOK, JobOK
<1>2. PICK i \in Ids : Begin(w, i, job.tenant, job.title, job.found, {})
  BY DEF Open
<1>3. UNCHANGED <<log, cases, cited, covers, published, handled>>
  BY DEF Open
<1>4. /\ job.tenant \in Tenants /\ job.title \in Titles /\ job.found \in SUBSET Decision
      /\ {} \in SUBSET job.found /\ {} \subseteq published
  BY <1>1
<1> HIDE DEF job
<1>5. QED BY <1>1, <1>2, <1>3, <1>4, BeginIInv

(* Citing one more decision keeps the tables in order, if the decision     *)
(* belongs to the case.                                                    *)
LEMMA CitedMore ==
  ASSUME IInv, NEW i \in DOMAIN asked, NEW d \in Decision,
         cited' = cited \cup {<<i, d>>},
         UNCHANGED <<log, cases, covers, published, asked>>,
         i \notin DOMAIN cases => d \in asked[i].decisions,
         i \in DOMAIN cases => d.tenant = cases[i].tenant /\ <<i, d.trace>> \in covers
  PROVE  Grows /\ CitedOK' /\ CompleteOnceVisible' /\ LogOK' /\ AskedOK'
         /\ cited' \subseteq Ids \X Decision
<1>1. Grows
  BY DEF Grows
<1>2. CitedOK'
  BY DEF IInv, CitedOK
<1>3. CompleteOnceVisible'
  BY DEF IInv, CompleteOnceVisible
<1>4. LogOK' /\ AskedOK'
  BY DEF IInv, LogOK, AskedOK
<1>5. cited' \subseteq Ids \X Decision
  BY DEF IInv, TypeOK
<1>6. QED BY <1>1, <1>2, <1>3, <1>4, <1>5

LEMMA JoinIInv ==
  ASSUME IInv, NEW w \in Workers, NEW answered \in BOOLEAN, Join(w, answered)
  PROVE  IInv'
<1> DEFINE job == work[w]
           i   == job.id
           d   == job.for
<1>1. /\ d \in Decision /\ d \in published /\ i \in DOMAIN cases
      /\ cases[i].tenant = d.tenant /\ cases[i].title = Canary /\ <<i, d.trace>> \in covers
  BY JobFacts DEF IInv, Join, JobsOK, JobOK, JoinOK
<1>2. /\ cited' = cited \cup {<<i, d>>} /\ Goto(w, Idle)
      /\ handled' \in {handled, handled \cup {d}}
      /\ UNCHANGED <<log, cases, covers, published, asked>>
  BY DEF Join
<1>3. i \in DOMAIN asked
  BY <1>1 DEF IInv, TypeOK
<1> HIDE DEF i, d
<1>4. Grows /\ CitedOK' /\ CompleteOnceVisible' /\ LogOK' /\ AskedOK'
      /\ cited' \subseteq Ids \X Decision
  BY <1>1, <1>2, <1>3, CitedMore
<1>5. TypeOK'
  <2>1. work' \in [Workers -> Job]
    BY <1>2, IdleFacts, WorkType DEF IInv
  <2>2. handled' \subseteq published'
    BY <1>1, <1>2 DEF IInv, TypeOK
  <2>3. QED BY <1>2, <1>4, <2>1, <2>2 DEF IInv, TypeOK
<1>6. SightingOnRecord'
  BY <1>1, <1>2 DEF IInv, SightingOnRecord
<1>7. \A j : j = Idle => JobOK(j)'
  BY DEF JobOK, Idle
<1>8. JobsOK' /\ WritersOK'
  BY <1>2, <1>4, <1>7, IdleFacts, StepJobs
<1>9. QED BY <1>4, <1>5, <1>6, <1>8 DEF IInv

(* What is known of a case being written. *)
LEMMA WriteFacts ==
  ASSUME IInv, NEW w \in Workers, work[w].pc = "write"
  PROVE  /\ work[w] \in [pc : {"write"}, id : Ids, tenant : Tenants, title : Titles,
                          cite : SUBSET Decision, cover : SUBSET Traces, for : SUBSET Decision]
         /\ WriteOK(work[w])
         /\ asked[work[w].id] \in Citing
         /\ Writes(w, work[w].id)
BY JobFacts DEF IInv, JobsOK, JobOK, WriteOK, TypeOK, Writes

LEMMA CiteIInv ==
  ASSUME IInv, NEW w \in Workers, NEW answered \in BOOLEAN, Cite(w, answered)
  PROVE  IInv'
<1> DEFINE job == work[w]
           i   == job.id
<1>1. /\ job \in [pc : {"write"}, id : Ids, tenant : Tenants, title : Titles,
                  cite : SUBSET Decision, cover : SUBSET Traces, for : SUBSET Decision]
      /\ WriteOK(job) /\ Writes(w, i)
  BY WriteFacts DEF Cite
<1>2. PICK d \in job.cite :
        /\ cited' = cited \cup {<<i, d>>}
        /\ Goto(w, IF answered THEN [job EXCEPT !.cite = @ \ {d}] ELSE Idle)
  BY DEF Cite
<1>3. UNCHANGED <<log, cases, covers, published, asked, handled>>
  BY DEF Cite
<1>4. i \in DOMAIN asked /\ i \notin DOMAIN cases /\ d \in asked[i].decisions /\ d \in Decision
  BY <1>1 DEF WriteOK
<1> DEFINE next == IF answered THEN [job EXCEPT !.cite = @ \ {d}] ELSE Idle
<1>5. Grows /\ CitedOK' /\ CompleteOnceVisible' /\ LogOK' /\ AskedOK'
      /\ cited' \subseteq Ids \X Decision
  BY <1>2, <1>3, <1>4, CitedMore
<1>6. next \in Job
  BY <1>1 DEF Job
<1>7. \A j : j = next => JobOK(j)'
  <2>1. CASE answered
    <3>1. /\ next.pc = "write" /\ next.id = i /\ next.tenant = job.tenant
          /\ next.title = job.title /\ next.cite = job.cite \ {d} /\ next.cover = job.cover
          /\ next.for = job.for
      BY <1>1, <2>1
    <3> HIDE DEF next
    <3>2. \A j : j = next => WriteOK(j)'
      BY <1>1, <1>2, <1>3, <3>1 DEF WriteOK
    <3>3. QED BY <3>1, <3>2 DEF JobOK
  <2>2. CASE ~answered
    BY <2>2 DEF JobOK, Idle
  <2>3. QED BY <2>1, <2>2
<1>8. next.pc = "write" => Writes(w, next.id)
  BY <1>1 DEF Idle
<1>9. Goto(w, next)
  BY <1>2
<1>10. SightingOnRecord'
  BY <1>2, <1>3 DEF IInv, SightingOnRecord
<1> HIDE DEF next
<1>11. TypeOK'
  <2>1. work' \in [Workers -> Job]
    BY <1>6, <1>9, WorkType DEF IInv
  <2>2. QED BY <1>3, <1>5, <2>1 DEF IInv, TypeOK
<1>12. JobsOK' /\ WritersOK'
  BY <1>3, <1>5, <1>7, <1>8, <1>9, StepJobs
<1>13. QED BY <1>5, <1>10, <1>11, <1>12 DEF IInv

LEMMA CoverIInv ==
  ASSUME IInv, NEW w \in Workers, NEW answered \in BOOLEAN, Cover(w, answered)
  PROVE  IInv'
<1> DEFINE job == work[w]
           i   == job.id
<1>1. /\ job \in [pc : {"write"}, id : Ids, tenant : Tenants, title : Titles,
                  cite : SUBSET Decision, cover : SUBSET Traces, for : SUBSET Decision]
      /\ WriteOK(job) /\ Writes(w, i)
  BY WriteFacts DEF Cover
<1>2. PICK x \in job.cover :
        /\ covers' = covers \cup {<<i, x>>}
        /\ Goto(w, IF answered THEN [job EXCEPT !.cover = @ \ {x}] ELSE Idle)
  BY DEF Cover
<1>3. UNCHANGED <<log, cases, cited, published, asked, handled>>
  BY DEF Cover
<1> DEFINE next == IF answered THEN [job EXCEPT !.cover = @ \ {x}] ELSE Idle
<1>4. Grows
  BY <1>2, <1>3 DEF Grows
<1>5. CitedOK' /\ CompleteOnceVisible' /\ SightingOnRecord' /\ LogOK' /\ AskedOK'
  BY <1>2, <1>3 DEF IInv, CitedOK, CompleteOnceVisible, SightingOnRecord, LogOK, AskedOK
<1>6. next \in Job /\ covers' \subseteq Ids \X Traces
  BY <1>1, <1>2 DEF Job, IInv, TypeOK
<1>7. \A j : j = next => JobOK(j)'
  <2>1. CASE answered
    <3>1. /\ next.pc = "write" /\ next.id = i /\ next.tenant = job.tenant
          /\ next.title = job.title /\ next.cite = job.cite /\ next.cover = job.cover \ {x}
          /\ next.for = job.for
      BY <1>1, <2>1
    <3> HIDE DEF next
    <3>2. \A j : j = next => WriteOK(j)'
      BY <1>1, <1>2, <1>3, <3>1 DEF WriteOK
    <3>3. QED BY <3>1, <3>2 DEF JobOK
  <2>2. CASE ~answered
    BY <2>2 DEF JobOK, Idle
  <2>3. QED BY <2>1, <2>2
<1>8. next.pc = "write" => Writes(w, next.id)
  BY <1>1 DEF Idle
<1>9. Goto(w, next)
  BY <1>2
<1> HIDE DEF next
<1>10. TypeOK'
  <2>1. work' \in [Workers -> Job]
    BY <1>6, <1>9, WorkType DEF IInv
  <2>2. QED BY <1>3, <1>6, <2>1 DEF IInv, TypeOK
<1>11. JobsOK' /\ WritersOK'
  BY <1>3, <1>4, <1>7, <1>8, <1>9, StepJobs
<1>12. QED BY <1>5, <1>10, <1>11 DEF IInv

(* The case becomes visible: all it was opened with has been written. *)
LEMMA InsertCaseIInv ==
  ASSUME IInv, NEW w \in Workers, NEW answered \in BOOLEAN, InsertCase(w, answered)
  PROVE  IInv'
<1> DEFINE job == work[w]
           i   == job.id
           row == [tenant |-> job.tenant, title |-> job.title, status |-> "open"]
<1>1. /\ job \in [pc : {"write"}, id : Ids, tenant : Tenants, title : Titles,
                  cite : SUBSET Decision, cover : SUBSET Traces, for : SUBSET Decision]
      /\ WriteOK(job) /\ Writes(w, i) /\ job.cite = {} /\ job.cover = {}
  BY WriteFacts DEF InsertCase, Written
<1>2. /\ cases' = Put(cases, i, row) /\ Goto(w, Idle)
      /\ handled' \in {handled, handled \cup job.for}
      /\ UNCHANGED <<log, cited, covers, published, asked>>
  BY DEF InsertCase
<1>3. /\ i \in DOMAIN asked /\ i \notin DOMAIN cases /\ i \in Ids
      /\ \A d \in asked[i].decisions : d.tenant = job.tenant /\ <<i, d>> \in cited
      /\ \A x \in asked[i].traces : <<i, x>> \in covers
      /\ job.for \subseteq asked[i].decisions \cap published
      /\ job.for # {} => job.title = Canary
  BY <1>1 DEF WriteOK
<1>4. row \in Case /\ row.tenant = job.tenant /\ row.title = job.title
  BY <1>1 DEF Case, Statuses
<1> HIDE DEF row
<1>5. /\ DOMAIN cases' = DOMAIN cases \cup {i} /\ cases'[i] = row
      /\ \A j \in DOMAIN cases : j # i => cases'[j] = cases[j]
  BY <1>2 DEF Put
<1>6. \A j \in DOMAIN cases : cases'[j] = cases[j]
  BY <1>3, <1>5
<1>7. Grows
  BY <1>2, <1>5, <1>6 DEF Grows
<1>8. \A d \in asked[i].decisions : <<i, d.trace>> \in covers
  BY <1>3 DEF IInv, AskedOK
<1>9. CitedOK'
  <2> SUFFICES ASSUME NEW j \in Ids, NEW d \in Decision, <<j, d>> \in cited
               PROVE  /\ j \in DOMAIN asked
                      /\ j \notin DOMAIN cases' => d \in asked[j].decisions
                      /\ j \in DOMAIN cases' => /\ d.tenant = cases'[j].tenant
                                                /\ <<j, d.trace>> \in covers
    BY <1>2 DEF CitedOK
  <2>1. CASE j = i
    BY <1>3, <1>4, <1>5, <1>8, <2>1 DEF IInv, CitedOK
  <2>2. CASE j # i
    BY <1>5, <2>2 DEF IInv, CitedOK
  <2>3. QED BY <2>1, <2>2
<1>10. CompleteOnceVisible'
  BY <1>2, <1>3, <1>5 DEF IInv, CompleteOnceVisible
<1>11. SightingOnRecord'
  <2> SUFFICES ASSUME NEW d \in handled'
               PROVE  \E j \in DOMAIN cases' :
                        /\ cases'[j].tenant = d.tenant /\ cases'[j].title = Canary
                        /\ <<j, d>> \in cited /\ <<j, d.trace>> \in covers
    BY <1>2 DEF SightingOnRecord
  <2>1. CASE d \in handled
    BY <1>5, <1>6, <2>1 DEF IInv, SightingOnRecord
  <2>2. CASE d \in job.for
    <3>1. d \in asked[i].decisions /\ job.title = Canary
      BY <1>3, <2>2
    <3>2. /\ cases'[i].tenant = d.tenant /\ cases'[i].title = Canary
          /\ <<i, d>> \in cited /\ <<i, d.trace>> \in covers
      BY <1>3, <1>4, <1>5, <1>8, <3>1
    <3>3. QED BY <1>5, <3>2
  <2>3. QED BY <1>2, <2>1, <2>2
<1>12. LogOK' /\ AskedOK'
  BY <1>2 DEF IInv, LogOK, AskedOK
<1>13. TypeOK'
  <2>1. work' \in [Workers -> Job]
    BY <1>2, IdleFacts, WorkType DEF IInv
  <2>2. handled' \subseteq published'
    BY <1>2, <1>3 DEF IInv, TypeOK
  <2>3. DOMAIN cases' \subseteq DOMAIN asked' /\ \A j \in DOMAIN cases' : cases'[j] \in Case
    BY <1>2, <1>3, <1>4, <1>5, <1>6 DEF IInv, TypeOK
  <2>4. QED BY <1>2, <2>1, <2>2, <2>3 DEF IInv, TypeOK
<1>14. \A j : j = Idle => JobOK(j)'
  BY DEF JobOK, Idle
<1>15. \A j \in DOMAIN cases' : j \in DOMAIN cases \/ Writes(w, j)
  BY <1>1, <1>5
<1>16. JobsOK' /\ WritersOK'
  BY <1>2, <1>7, <1>14, <1>15, IdleFacts, StepJobs
<1>17. QED BY <1>9, <1>10, <1>11, <1>12, <1>13, <1>16 DEF IInv

(* A reviewer changes the status of a case: nothing rests on it. *)
LEMMA UpdateIInv ==
  ASSUME IInv, NEW w \in Workers, NEW i \in Ids, NEW t \in Tenants, NEW s \in Statuses,
         Update(w, i, t, s)
  PROVE  IInv'
<1>1. /\ i \in DOMAIN cases /\ cases[i] \in Case
      /\ cases' = [cases EXCEPT ![i].status = s]
      /\ UNCHANGED <<log, cited, covers, work, published, asked, handled>>
  BY DEF Update, IInv, TypeOK
<1>2. /\ DOMAIN cases' = DOMAIN cases
      /\ \A j \in DOMAIN cases : j # i => cases'[j] = cases[j]
      /\ cases'[i] = [cases[i] EXCEPT !.status = s]
  BY <1>1
<1>3. cases'[i] \in Case /\ cases'[i].tenant = cases[i].tenant /\ cases'[i].title = cases[i].title
  BY <1>1, <1>2 DEF Case
<1>4. /\ \A j \in DOMAIN cases : cases'[j] \in Case
      /\ \A j \in DOMAIN cases :
           cases'[j].tenant = cases[j].tenant /\ cases'[j].title = cases[j].title
  BY <1>2, <1>3 DEF IInv, TypeOK
<1>5. Grows
  BY <1>1, <1>2, <1>4 DEF Grows
<1>6. TypeOK'
  BY <1>1, <1>2, <1>4 DEF IInv, TypeOK
<1>7. CitedOK' /\ CompleteOnceVisible' /\ SightingOnRecord' /\ LogOK' /\ AskedOK'
  <2>1. UNCHANGED <<log, cited, covers, published, asked, handled>>
    BY <1>1
  <2>2. CitedOK'
    BY <1>2, <1>4, <2>1 DEF IInv, CitedOK
  <2>3. CompleteOnceVisible'
    BY <1>2, <2>1 DEF IInv, CompleteOnceVisible
  <2>4. SightingOnRecord'
    BY <1>2, <1>4, <2>1 DEF IInv, SightingOnRecord
  <2>5. LogOK' /\ AskedOK'
    BY <2>1 DEF IInv, LogOK, AskedOK
  <2>6. QED BY <2>2, <2>3, <2>4, <2>5
<1>8. JobsOK' /\ WritersOK'
  <2>1. \A j : JobOK(j) => JobOK(j)'
    BY <1>2, <1>5, JobKept DEF IInv, JobOK, WriteOK
  <2>2. QED BY <1>1, <2>1 DEF IInv, JobsOK, WritersOK, Writes
<1>9. QED BY <1>6, <1>7, <1>8 DEF IInv

(* A replica restarts: its log and what its workers were at are gone. *)
LEMMA RestartIInv == ASSUME IInv, NEW r \in Replicas, Restart(r) PROVE IInv'
<1>1. /\ log' = [log EXCEPT ![r] = << >>]
      /\ work' = [w \in Workers |-> IF Home(w) = r THEN Idle ELSE work[w]]
      /\ UNCHANGED <<cases, cited, covers, published, asked, handled>>
  BY DEF Restart
<1>2. Grows /\ CitedOK' /\ CompleteOnceVisible' /\ SightingOnRecord'
  BY <1>1, StepTables
<1>3. \A w \in Workers : work'[w] = Idle \/ work'[w] = work[w]
  BY <1>1
<1>4. /\ log' \in [Replicas -> Seq(Decision)] /\ log'[r] = << >> /\ Len(log'[r]) = 0
      /\ \A q \in Replicas : q # r => log'[q] = log[q]
  BY <1>1 DEF IInv, TypeOK
<1>5. TypeOK'
  <2>1. work' \in [Workers -> Job]
    BY <1>1, IdleFacts DEF IInv, TypeOK
  <2>2. \A q \in Replicas : Len(log'[q]) <= MaxLog
    BY <1>4, MaxLogAssumption DEF IInv, TypeOK
  <2>3. QED BY <1>1, <1>4, <2>1, <2>2 DEF IInv, TypeOK
<1>6. LogOK' /\ AskedOK'
  BY <1>1, <1>4 DEF IInv, LogOK, AskedOK
<1>7. \A j : JobOK(j) => JobOK(j)'
  BY <1>1, <1>2, JobKept DEF IInv, JobOK, WriteOK
<1>8. \A j : j = Idle => JobOK(j)'
  BY DEF JobOK, Idle
<1>9. JobsOK'
  BY <1>3, <1>7, <1>8 DEF IInv, JobsOK
<1>10. WritersOK'
  BY <1>3 DEF IInv, WritersOK, Writes, Idle
<1>11. QED BY <1>2, <1>5, <1>6, <1>9, <1>10 DEF IInv

-----------------------------------------------------------------------------
LEMMA NextIInv == IInv /\ [Next]_vars => IInv'
<1> SUFFICES ASSUME IInv, [Next]_vars PROVE IInv'
  OBVIOUS
<1>1. CASE \E r \in Replicas : Restart(r)
  BY <1>1, RestartIInv
<1>2. ASSUME NEW w \in Workers, NEW t \in Tenants, NEW x \in Traces, NEW leak \in BOOLEAN,
             Publish(w, t, x, leak)
      PROVE  IInv'
  BY <1>2, PublishIInv
<1>3. ASSUME NEW w \in Workers, Look(w) \/ Gather(w) \/ Open(w) \/ Fail(w) PROVE IInv'
  BY <1>3, LookIInv, GatherIInv, OpenIInv, FailIInv
<1>4. ASSUME NEW w \in Workers, NEW answered \in BOOLEAN,
             Join(w, answered) \/ Cite(w, answered) \/ Cover(w, answered)
               \/ InsertCase(w, answered)
      PROVE  IInv'
  BY <1>4, JoinIInv, CiteIInv, CoverIInv, InsertCaseIInv
<1>5. ASSUME NEW w \in Workers, NEW t \in Tenants, NEW title \in Titles,
             NEW ds \in SUBSET published, Request(w, t, title, ds)
      PROVE  IInv'
  BY <1>5, RequestIInv
<1>6. ASSUME NEW w \in Workers, NEW i \in Ids, NEW t \in Tenants, NEW s \in Statuses,
             Update(w, i, t, s)
      PROVE  IInv'
  BY <1>6, UpdateIInv
<1>7. CASE UNCHANGED vars
  <2>1. UNCHANGED <<log, cases, cited, covers, work, published, asked, handled>>
    BY <1>7 DEF vars
  <2>2. Grows /\ CitedOK' /\ CompleteOnceVisible' /\ SightingOnRecord'
    BY <2>1, StepTables
  <2>3. TypeOK' /\ LogOK' /\ AskedOK'
    BY <2>1 DEF IInv, TypeOK, LogOK, AskedOK
  <2>4. \A j : JobOK(j) => JobOK(j)'
    BY <2>1, <2>2, JobKept DEF IInv, JobOK, WriteOK
  <2>5. JobsOK' /\ WritersOK'
    BY <2>1, <2>4 DEF IInv, JobsOK, WritersOK, Writes
  <2>6. QED BY <2>2, <2>3, <2>5 DEF IInv
<1>8. QED BY <1>1, <1>2, <1>3, <1>4, <1>5, <1>6, <1>7 DEF Next

LEMMA Invariance == Spec => []IInv
BY InitIInv, NextIInv, PTL DEF Spec

(* The logs, the tables and what each handler is at are always ones that   *)
(* stores.py and incidents.py can leave; a log never outgrows its bound.   *)
THEOREM TypeCorrect == Spec => []TypeOK
<1>1. IInv => TypeOK
  BY DEF IInv
<1>2. QED BY <1>1, Invariance, PTL

(* SqlIncidentStore.open: a case that can be read has every decision and   *)
(* every trace it was opened with, though they commit one by one.          *)
THEOREM VisibleCasesComplete == Spec => []CompleteOnceVisible
<1>1. IInv => CompleteOnceVisible
  BY DEF IInv
<1>2. QED BY <1>1, Invariance, PTL

(* DecisionLog.get and open_for_trace keep tenants apart: a case cites     *)
(* decisions of its own tenant only, and covers their traces.              *)
THEOREM CitationsStayInTenant == Spec => []CitationsBelong
<1>1. IInv => CitationsBelong
  BY DEF IInv, CitationsBelong, CitedOK, TypeOK
<1>2. QED BY <1>1, Invariance, PTL

(* service._open_canary_incident: a sighting handled without a failure is  *)
(* cited by a canary case of its tenant that covers its trace, whatever    *)
(* happened to the case since it was looked up.                            *)
THEOREM SightingsKept == Spec => []SightingOnRecord
<1>1. IInv => SightingOnRecord
  BY DEF IInv
<1>2. QED BY <1>1, Invariance, PTL
=============================================================================
