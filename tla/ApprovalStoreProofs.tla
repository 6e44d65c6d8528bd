------------------------ MODULE ApprovalStoreProofs ------------------------
(***************************************************************************)
(* ApprovalStore is type correct, spends an approval once and exactly,     *)
(* keeps requester and reviewer apart, evicts in the order of its queue    *)
(* and counts every approval in one total that never shrinks; and it keeps *)
(* the promise of ApprovalLifecycle.  For any number of identifiers,       *)
(* users, tenants and digests, any bound on the records and any TTL.       *)
(***************************************************************************)
EXTENDS ApprovalStore, FiniteSetTheorems, SequenceTheorems, TLAPS

(* The eviction queue names records of the table only, each of them once. *)
QueueOK ==
  /\ \A n \in 1..Len(order) : order[n] \in DOMAIN records
  /\ \A m, n \in 1..Len(order) : order[m] = order[n] => m = n

(* An identifier is being drafted, kept or evicted, never two of these. *)
Disjoint ==
  /\ DOMAIN drafts \cap DOMAIN records = {}
  /\ DOMAIN drafts \cap DOMAIN retired = {}
  /\ DOMAIN records \cap DOMAIN retired = {}

(* Nothing has been granted on an approval that is not consumed, and at    *)
(* most the requested action on one that is.                               *)
GrantFor(record) == <<[digest |-> record.digest, tenant |-> record.tenant]>>

Granted(record, given) ==
  given = IF record.status = "consumed" THEN GrantFor(record) ELSE << >>

GrantsOK ==
  /\ \A i \in DOMAIN records : Granted(records[i], grants[i])
  /\ \A i \in DOMAIN retired : Granted(retired[i], grants[i])
  /\ \A i \in Ids : i \notin DOMAIN records \cup DOMAIN retired => grants[i] = << >>

(* What is known of a record's reviewer. *)
ReviewerOK(record) ==
  /\ record.status \in {"approved", "consumed"} => record.reviewer \in Users
  /\ record.reviewer # record.requestedBy

DraftOK(record) == record.status = "pending" /\ record.reviewer = NoOne

ReviewersOK ==
  /\ \A i \in DOMAIN drafts  : DraftOK(drafts[i])
  /\ \A i \in DOMAIN records : ReviewerOK(records[i])
  /\ \A i \in DOMAIN retired : ReviewerOK(retired[i])

(* A review that passed the check stays entitled: the identity that asked  *)
(* for an approval never changes.                                          *)
ReviewsOK ==
  \A review \in reviews :
    /\ review.id \in DOMAIN records \cup DOMAIN retired
    /\ review.id \in DOMAIN records => records[review.id].requestedBy # review.reviewer

IInv ==
  /\ TypeOK
  /\ QueueOK
  /\ Disjoint
  /\ GrantsOK
  /\ ReviewersOK
  /\ ReviewsOK

-----------------------------------------------------------------------------
(* Lemmas on the operators of the store *)

(* Marking a record as expired keeps everything but its status. *)
LEMMA ExpiredFacts ==
  ASSUME NEW r \in Record
  PROVE  /\ Expired(r) \in Record
         /\ Expired(r).digest = r.digest
         /\ Expired(r).tenant = r.tenant
         /\ Expired(r).requestedBy = r.requestedBy
         /\ Expired(r).reviewer = r.reviewer
         /\ Expired(r).expires = r.expires
         /\ Expired(r).status \in {r.status, "expired"}
         /\ Expired(r).status = "consumed" <=> r.status = "consumed"
BY DEF Expired, Record, Statuses, Open, Settled

(* Put changes one entry, Without removes one. *)
LEMMA PutFacts ==
  ASSUME NEW map, NEW i, NEW r
  PROVE  /\ DOMAIN Put(map, i, r) = DOMAIN map \cup {i}
         /\ Put(map, i, r)[i] = r
         /\ \A j \in DOMAIN map : j # i => Put(map, i, r)[j] = map[j]
BY DEF Put

LEMMA WithoutFacts ==
  ASSUME NEW map, NEW i
  PROVE  /\ DOMAIN Without(map, i) = DOMAIN map \ {i}
         /\ \A j \in DOMAIN map : j # i => Without(map, i)[j] = map[j]
BY DEF Without

(* Replacing one record by one that agrees with it on who asked and for    *)
(* what, has an acceptable reviewer and fits what was granted keeps the    *)
(* invariant.  Every operation on an existing record is of this kind.      *)
LEMMA ReplaceRecord ==
  ASSUME IInv,
         NEW i \in DOMAIN records, NEW r \in Record,
         r.requestedBy = records[i].requestedBy,
         ReviewerOK(r), Granted(r, grants'[i]),
         records' = Put(records, i, r),
         \A j \in Ids : j # i => grants'[j] = grants[j],
         grants' \in [Ids -> Seq([digest : Digests, tenant : Tenants])],
         UNCHANGED <<clock, drafts, order, evicted, retired>>,
         reviews' \subseteq Review,
         \A review \in reviews' :
           \/ review \in reviews
           \/ review.id = i /\ review.reviewer # r.requestedBy
  PROVE  IInv'
<1>1. DOMAIN records' = DOMAIN records /\ records'[i] = r
      /\ \A j \in DOMAIN records : j # i => records'[j] = records[j]
  BY DEF Put
<1>2. TypeOK'
  BY <1>1 DEF IInv, TypeOK
<1>3. QueueOK' /\ Disjoint'
  BY <1>1 DEF IInv, QueueOK, Disjoint
<1>4. GrantsOK'
  <2>1. i \in Ids /\ i \notin DOMAIN retired /\ DOMAIN retired \subseteq Ids
        /\ DOMAIN records \subseteq Ids
    BY DEF IInv, TypeOK, Disjoint
  <2>2. \A j \in DOMAIN records' : Granted(records'[j], grants'[j])
    BY <1>1, <2>1 DEF IInv, GrantsOK
  <2>3. \A j \in DOMAIN retired' : Granted(retired'[j], grants'[j])
    BY <2>1 DEF IInv, GrantsOK
  <2>4. \A j \in Ids : j \notin DOMAIN records' \cup DOMAIN retired' => grants'[j] = << >>
    BY <1>1, <2>1 DEF IInv, GrantsOK
  <2>5. QED BY <2>2, <2>3, <2>4 DEF GrantsOK, Granted, GrantFor
<1>5. ReviewersOK'
  BY <1>1 DEF IInv, ReviewersOK, ReviewerOK, DraftOK
<1>6. ReviewsOK'
  BY <1>1 DEF IInv, ReviewsOK
<1>7. QED BY <1>2, <1>3, <1>4, <1>5, <1>6 DEF IInv

(* Marking an expired record is such a replacement. *)
LEMMA MarkExpired ==
  ASSUME IInv, NEW i \in DOMAIN records,
         records' = Put(records, i, Expired(records[i])),
         UNCHANGED <<clock, drafts, order, evicted, retired, grants>>,
         reviews' \subseteq Review,
         \A review \in reviews' :
           \/ review \in reviews
           \/ review.id = i /\ review.reviewer # records[i].requestedBy
  PROVE  IInv'
<1> DEFINE r == Expired(records[i])
<1>1. records[i] \in Record
  BY DEF IInv, TypeOK
<1>2. r \in Record /\ r.requestedBy = records[i].requestedBy
      /\ r.reviewer = records[i].reviewer /\ r.digest = records[i].digest
      /\ r.tenant = records[i].tenant /\ r.status \in {records[i].status, "expired"}
      /\ (r.status = "consumed" <=> records[i].status = "consumed")
  BY <1>1, ExpiredFacts
<1>3. ReviewerOK(r)
  BY <1>2 DEF IInv, ReviewersOK, ReviewerOK
<1>4. Granted(r, grants'[i])
  BY <1>2 DEF IInv, GrantsOK, Granted, GrantFor
<1>5. grants' \in [Ids -> Seq([digest : Digests, tenant : Tenants])]
  BY DEF IInv, TypeOK
<1> HIDE DEF r
<1>6. records' = Put(records, i, r)
  BY DEF r
<1>7. QED BY <1>2, <1>3, <1>4, <1>5, <1>6, ReplaceRecord
-----------------------------------------------------------------------------
(* The steps, one lemma per operation *)

LEMMA InitIInv == Init => IInv
<1> SUFFICES ASSUME Init PROVE IInv
  OBVIOUS
<1>1. DOMAIN drafts = {} /\ DOMAIN records = {} /\ DOMAIN retired = {}
  BY DEF Init
<1>2. order = << >> /\ Len(order) = 0
  BY DEF Init
<1>3. TypeOK
  BY <1>1 DEF Init, TypeOK, Statuses
<1>4. QueueOK /\ Disjoint /\ GrantsOK /\ ReviewersOK /\ ReviewsOK
  BY <1>1, <1>2 DEF Init, QueueOK, Disjoint, GrantsOK, ReviewersOK, ReviewsOK
<1>5. QED BY <1>3, <1>4 DEF IInv

(* The clock moves; no part but the type of the clock depends on it. *)
LEMMA TickIInv == ASSUME IInv, Tick PROVE IInv'
<1>1. TypeOK'
  <2>1. clock' \in Nat
    BY DEF Tick, IInv, TypeOK
  <2>2. UNCHANGED <<drafts, records, order, evicted, reviews, retired, grants>>
    BY DEF Tick
  <2>3. QED BY <2>1, <2>2 DEF IInv, TypeOK
<1>2. QueueOK' /\ Disjoint' /\ GrantsOK' /\ ReviewersOK' /\ ReviewsOK'
  BY DEF Tick, IInv, QueueOK, Disjoint, GrantsOK, Granted, GrantFor, ReviewersOK,
         ReviewerOK, DraftOK, ReviewsOK
<1>3. QED BY <1>1, <1>2 DEF IInv

LEMMA DraftIInv ==
  ASSUME IInv, NEW i \in Ids, NEW d \in Digests, NEW t \in Tenants, NEW u \in Users,
         Draft(i, d, t, u)
  PROVE  IInv'
<1> DEFINE new == [status |-> "pending", digest |-> d, tenant |-> t, requestedBy |-> u,
                   reviewer |-> NoOne, expires |-> clock + Ttl]
<1>1. new \in Record /\ DraftOK(new)
  BY TtlAssumption DEF IInv, TypeOK, Record, Statuses, Open, DraftOK
<1>2. DOMAIN drafts' = DOMAIN drafts \cup {i} /\ drafts'[i] = new
      /\ (\A j \in DOMAIN drafts : j # i => drafts'[j] = drafts[j])
      /\ i \notin DOMAIN records /\ i \notin DOMAIN retired
  BY DEF Draft, Put, Used
<1> HIDE DEF new
<1>3. TypeOK'
  BY <1>1, <1>2 DEF Draft, IInv, TypeOK
<1>4. QueueOK' /\ Disjoint' /\ GrantsOK' /\ ReviewersOK' /\ ReviewsOK'
  BY <1>1, <1>2 DEF Draft, IInv, QueueOK, Disjoint, GrantsOK, Granted, GrantFor,
                    ReviewersOK, ReviewerOK, DraftOK, ReviewsOK
<1>5. QED BY <1>3, <1>4 DEF IInv

(* An evicted record is never left open. *)
LEMMA EvictedAsFacts ==
  ASSUME NEW r \in Record
  PROVE  /\ [r EXCEPT !.status = EvictedAs(r)] \in Record
         /\ EvictedAs(r) \in Statuses
         /\ EvictedAs(r) \notin Open
         /\ EvictedAs(r) = "consumed" <=> r.status = "consumed"
BY DEF EvictedAs, Expired, Record, Statuses, Open, Settled

LEMMA InsertIInv ==
  ASSUME IInv, NEW i \in Ids, Insert(i)
  PROVE  IInv'
<1> DEFINE grown == Put(records, i, drafts[i])
           queue == Append(order, i)
<1>1. i \in DOMAIN drafts /\ drafts[i] \in Record /\ DraftOK(drafts[i])
      /\ i \notin DOMAIN records /\ i \notin DOMAIN retired /\ grants[i] = << >>
  BY DEF Insert, IInv, TypeOK, ReviewersOK, Disjoint, GrantsOK
<1>2. DOMAIN grown = DOMAIN records \cup {i} /\ grown[i] = drafts[i]
      /\ (\A j \in DOMAIN records : grown[j] = records[j])
  BY <1>1 DEF Put
<1>3. /\ queue \in Seq(Ids)
      /\ Len(queue) = Len(order) + 1
      /\ queue[Len(queue)] = i
      /\ \A n \in 1..Len(order) : queue[n] = order[n]
  BY DEF IInv, TypeOK
<1>4. /\ \A n \in 1..Len(queue) : queue[n] \in DOMAIN grown
      /\ \A m, n \in 1..Len(queue) : queue[m] = queue[n] => m = n
  <2>1. Len(order) \in Nat
    BY DEF IInv, TypeOK
  <2>2. \A n \in 1..Len(queue) : n = Len(queue) \/ n \in 1..Len(order)
    BY <1>3, <2>1
  <2>3. QED BY <1>1, <1>2, <1>3, <2>1, <2>2 DEF IInv, QueueOK
<1>5. /\ \A j \in DOMAIN grown : grown[j] \in Record /\ ReviewerOK(grown[j])
                                 /\ Granted(grown[j], grants[j])
      /\ DOMAIN grown \subseteq Ids
  BY <1>1, <1>2, UsersAssumption
     DEF IInv, TypeOK, ReviewersOK, ReviewerOK, DraftOK, GrantsOK, Granted, Record
<1>6. /\ DOMAIN drafts' = DOMAIN drafts \ {i}
      /\ \A j \in DOMAIN drafts' : drafts'[j] = drafts[j]
      /\ UNCHANGED <<clock, reviews, grants>>
  BY DEF Insert, Without
<1>7. CASE ~Overfull(queue)
  <2>1. records' = grown /\ order' = queue /\ UNCHANGED <<evicted, retired>>
    BY <1>7 DEF Insert
  <2> HIDE DEF grown, queue
  <2>2. TypeOK'
    BY <1>3, <1>5, <1>6, <2>1 DEF IInv, TypeOK
  <2>3. QueueOK' /\ Disjoint'
    BY <1>1, <1>2, <1>4, <1>6, <2>1 DEF IInv, QueueOK, Disjoint
  <2>4. GrantsOK' /\ ReviewersOK'
    BY <1>1, <1>2, <1>5, <1>6, <2>1
       DEF IInv, GrantsOK, ReviewersOK, Granted, GrantFor, ReviewerOK, DraftOK
  <2>5. ReviewsOK'
    BY <1>1, <1>2, <1>6, <2>1 DEF IInv, ReviewsOK, Disjoint
  <2>6. QED BY <2>2, <2>3, <2>4, <2>5 DEF IInv
<1>8. CASE Overfull(queue)
  <2> DEFINE oldest == Head(queue)
             last == [grown[oldest] EXCEPT !.status = EvictedAs(grown[oldest])]
  <2>1. /\ records' = Without(grown, oldest)
        /\ order' = Tail(queue)
        /\ evicted' = [evicted EXCEPT ![EvictedAs(grown[oldest])] = @ + 1]
        /\ retired' = Put(retired, oldest, last)
    BY <1>8 DEF Insert, Counted
  <2>2. oldest = queue[1] /\ oldest \in DOMAIN grown /\ Len(queue) \in Nat /\ Len(queue) >= 1
    BY <1>3, <1>4 DEF IInv, TypeOK
  <2>3. /\ order' \in Seq(Ids)
        /\ Len(order') = Len(queue) - 1
        /\ \A n \in 1..Len(order') : order'[n] = queue[n + 1]
    BY <1>3, <2>1, <2>2
  <2>4. /\ DOMAIN records' = DOMAIN grown \ {oldest}
        /\ \A j \in DOMAIN records' : records'[j] = grown[j]
        /\ DOMAIN retired' = DOMAIN retired \cup {oldest}
        /\ retired'[oldest] = last
        /\ \A j \in DOMAIN retired : j # oldest => retired'[j] = retired[j]
    BY <2>1 DEF Without, Put
  <2> HIDE DEF grown, queue
  <2>5. /\ last \in Record
        /\ EvictedAs(grown[oldest]) \in Statuses
        /\ last.digest = grown[oldest].digest /\ last.tenant = grown[oldest].tenant
        /\ last.requestedBy = grown[oldest].requestedBy
        /\ last.reviewer = grown[oldest].reviewer
        /\ last.status \notin Open
        /\ (last.status = "consumed" <=> grown[oldest].status = "consumed")
    <3>1. grown[oldest] \in Record
      BY <1>5, <2>2
    <3>2. last.status = EvictedAs(grown[oldest])
      BY <3>1 DEF Record
    <3>3. QED BY <3>1, <3>2, EvictedAsFacts DEF Record
  <2> HIDE DEF last, oldest
  <2>6. ReviewerOK(last) /\ Granted(last, grants[oldest])
    BY <1>5, <2>2, <2>5 DEF ReviewerOK, Granted, GrantFor, Open
  <2>7. TypeOK'
    <3>1. evicted' \in [Statuses -> Nat]
      BY <2>1, <2>5 DEF IInv, TypeOK
    <3>2. QED BY <1>5, <1>6, <2>2, <2>3, <2>4, <2>5, <3>1 DEF IInv, TypeOK
  <2>8. QueueOK'
    BY <1>4, <2>2, <2>3, <2>4 DEF QueueOK
  <2>9. Disjoint'
    BY <1>1, <1>2, <1>6, <2>2, <2>4 DEF IInv, Disjoint
  <2>10. GrantsOK'
    <3>1. \A j \in DOMAIN records' : Granted(records'[j], grants'[j])
      BY <1>5, <1>6, <2>4
    <3>2. \A j \in DOMAIN retired' : Granted(retired'[j], grants'[j])
      BY <1>6, <2>4, <2>6 DEF IInv, GrantsOK
    <3>3. \A j \in Ids : j \notin DOMAIN records' \cup DOMAIN retired' => grants'[j] = << >>
      BY <1>2, <1>6, <2>4 DEF IInv, GrantsOK
    <3>4. QED BY <3>1, <3>2, <3>3 DEF GrantsOK, Granted, GrantFor
  <2>11. ReviewersOK'
    <3>1. \A j \in DOMAIN drafts' : DraftOK(drafts'[j])
      BY <1>6 DEF IInv, ReviewersOK
    <3>2. \A j \in DOMAIN records' : ReviewerOK(records'[j])
      BY <1>5, <2>4
    <3>3. \A j \in DOMAIN retired' : ReviewerOK(retired'[j])
      BY <2>4, <2>6 DEF IInv, ReviewersOK
    <3>4. QED BY <3>1, <3>2, <3>3 DEF ReviewersOK, ReviewerOK, DraftOK
  <2>12. ReviewsOK'
    BY <1>1, <1>2, <1>6, <2>2, <2>4 DEF IInv, ReviewsOK
  <2>13. QED BY <2>7, <2>8, <2>9, <2>10, <2>11, <2>12 DEF IInv
<1>9. QED BY <1>7, <1>8

LEMMA GetIInv ==
  ASSUME IInv, NEW i \in Ids, Get(i)
  PROVE  IInv'
<1>1. reviews' \subseteq Review
  BY DEF Get, IInv, TypeOK
<1>2. QED BY <1>1, MarkExpired DEF Get

LEMMA CountsIInv == ASSUME IInv, Counts PROVE IInv'
<1>1. /\ DOMAIN records' = DOMAIN records
      /\ \A i \in DOMAIN records : records'[i] = Expired(records[i])
      /\ UNCHANGED <<clock, drafts, order, evicted, reviews, retired, grants>>
  BY DEF Counts
<1>2. \A i \in DOMAIN records :
        /\ records'[i] \in Record
        /\ records'[i].digest = records[i].digest
        /\ records'[i].tenant = records[i].tenant
        /\ records'[i].requestedBy = records[i].requestedBy
        /\ records'[i].reviewer = records[i].reviewer
        /\ records'[i].status \in {records[i].status, "expired"}
        /\ records'[i].status = "consumed" <=> records[i].status = "consumed"
  BY <1>1, ExpiredFacts DEF IInv, TypeOK
<1>3. TypeOK'
  BY <1>1, <1>2 DEF IInv, TypeOK
<1>4. QueueOK' /\ Disjoint'
  BY <1>1 DEF IInv, QueueOK, Disjoint
<1>5. GrantsOK'
  BY <1>1, <1>2 DEF IInv, GrantsOK, Granted, GrantFor
<1>6. ReviewersOK' /\ ReviewsOK'
  BY <1>1, <1>2 DEF IInv, ReviewersOK, ReviewerOK, DraftOK, ReviewsOK
<1>7. QED BY <1>3, <1>4, <1>5, <1>6 DEF IInv

LEMMA AdjudicableIInv ==
  ASSUME IInv, NEW i \in Ids, NEW u \in Users, NEW t \in Tenants,
         NEW o \in {"approved", "rejected"}, Adjudicable(i, u, t, o)
  PROVE  IInv'
<1> DEFINE new == [id |-> i, reviewer |-> u, outcome |-> o]
<1>1. reviews' = reviews \cup {new} /\ new \in Review
  BY DEF Adjudicable, Review
<1>2. new.id = i /\ new.reviewer # records[i].requestedBy
  BY DEF Adjudicable, MayAdjudicate
<1>3. reviews' \subseteq Review
  BY <1>1 DEF IInv, TypeOK
<1> HIDE DEF new
<1>4. QED BY <1>1, <1>2, <1>3, MarkExpired DEF Adjudicable

LEMMA AdjudicateIInv ==
  ASSUME IInv, NEW review \in reviews, Adjudicate(review)
  PROVE  IInv'
<1> DEFINE i == review.id
<1>1. review \in Review /\ i \in DOMAIN records \cup DOMAIN retired
      /\ reviews' \subseteq reviews /\ reviews' \subseteq Review
      /\ UNCHANGED <<clock, drafts, order, evicted, retired, grants>>
  BY DEF Adjudicate, IInv, TypeOK, ReviewsOK
<1>2. CASE i \notin DOMAIN records
  <2>1. records' = records
    BY <1>2 DEF Adjudicate
  <2>2. TypeOK'
    BY <1>1, <2>1 DEF IInv, TypeOK
  <2>3. QueueOK' /\ Disjoint' /\ GrantsOK' /\ ReviewersOK' /\ ReviewsOK'
    BY <1>1, <2>1 DEF IInv, QueueOK, Disjoint, GrantsOK, Granted, GrantFor, ReviewersOK,
                      ReviewerOK, DraftOK, ReviewsOK
  <2>4. QED BY <2>2, <2>3 DEF IInv
<1>3. CASE i \in DOMAIN records
  <2> DEFINE r == Adjudicated(records[i], review)
  <2>1. records' = Put(records, i, r)
    BY <1>3 DEF Adjudicate
  <2>2. records[i] \in Record /\ records[i].requestedBy # review.reviewer
    BY <1>3 DEF IInv, TypeOK, ReviewsOK
  <2>3. CASE Expired(records[i]).status = "pending"
    <3>1. r = [records[i] EXCEPT !.status = review.outcome, !.reviewer = review.reviewer]
      BY <2>3 DEF Adjudicated
    <3>2. r \in Record /\ r.requestedBy = records[i].requestedBy
          /\ r.reviewer = review.reviewer /\ r.status \in {"approved", "rejected"}
      BY <1>1, <2>2, <3>1 DEF Record, Review, Statuses, Open, Settled
    <3>3. ReviewerOK(r)
      BY <1>1, <2>2, <3>2 DEF ReviewerOK, Review
    <3>4. grants[i] = << >>
      BY <1>3, <2>2, <2>3, ExpiredFacts DEF IInv, GrantsOK, Granted
    <3>5. Granted(r, grants'[i])
      BY <1>1, <3>2, <3>4 DEF Granted
    <3>6. grants' \in [Ids -> Seq([digest : Digests, tenant : Tenants])]
      BY <1>1 DEF IInv, TypeOK
    <3> HIDE DEF r, i
    <3>7. QED BY <1>1, <1>3, <2>1, <3>2, <3>3, <3>5, <3>6, ReplaceRecord
  <2>4. CASE Expired(records[i]).status # "pending"
    <3>1. records' = Put(records, i, Expired(records[i]))
      BY <2>1, <2>4 DEF Adjudicated
    <3> HIDE DEF r, i
    <3>2. QED BY <1>1, <1>3, <3>1, MarkExpired
  <2>5. QED BY <2>3, <2>4
<1>4. QED BY <1>2, <1>3

LEMMA ConsumeIInv ==
  ASSUME IInv, NEW i \in Ids, NEW d \in Digests, NEW t \in Tenants, Consume(i, d, t)
  PROVE  IInv'
<1> DEFINE r == [records[i] EXCEPT !.status = "consumed"]
<1>1. /\ i \in DOMAIN records /\ records[i] \in Record
      /\ Expired(records[i]).status = "approved"
      /\ records[i].digest = d /\ records[i].tenant = t
  BY DEF Consume, Consumable, IInv, TypeOK
<1>2. records[i].status = "approved"
  BY <1>1, ExpiredFacts
<1>3. grants[i] = << >> /\ ReviewerOK(records[i])
  BY <1>1, <1>2 DEF IInv, GrantsOK, Granted, ReviewersOK
<1>4. r \in Record /\ r.requestedBy = records[i].requestedBy /\ r.status = "consumed"
      /\ r.digest = d /\ r.tenant = t /\ r.reviewer = records[i].reviewer
  BY <1>1 DEF Record, Statuses, Settled
<1>5. ReviewerOK(r)
  BY <1>2, <1>3, <1>4 DEF ReviewerOK
<1>6. /\ grants' = [grants EXCEPT ![i] = Append(@, [digest |-> d, tenant |-> t])]
      /\ grants \in [Ids -> Seq([digest : Digests, tenant : Tenants])]
  BY DEF Consume, IInv, TypeOK
<1>7. /\ grants' \in [Ids -> Seq([digest : Digests, tenant : Tenants])]
      /\ grants'[i] = <<[digest |-> d, tenant |-> t]>>
      /\ \A j \in Ids : j # i => grants'[j] = grants[j]
  <2> DEFINE given == [digest |-> d, tenant |-> t]
             all   == [digest : Digests, tenant : Tenants]
  <2>1. given \in all
    OBVIOUS
  <2> HIDE DEF given, all
  <2>2. Append(grants[i], given) = <<given>> /\ <<given>> \in Seq(all)
    BY <1>3, <2>1
  <2>3. grants' = [grants EXCEPT ![i] = <<given>>] /\ grants \in [Ids -> Seq(all)]
    BY <1>6, <2>2 DEF given, all
  <2>4. /\ grants' \in [Ids -> Seq(all)]
        /\ grants'[i] = <<given>>
        /\ \A j \in Ids : j # i => grants'[j] = grants[j]
    BY <2>2, <2>3
  <2>5. QED BY <2>4 DEF given, all
<1>8. Granted(r, grants'[i])
  BY <1>4, <1>7 DEF Granted, GrantFor
<1>9. records' = Put(records, i, r) /\ reviews' = reviews /\ reviews \subseteq Review
      /\ UNCHANGED <<clock, drafts, order, evicted, retired>>
  BY DEF Consume, IInv, TypeOK
<1> HIDE DEF r
<1>10. QED BY <1>1, <1>4, <1>5, <1>7, <1>8, <1>9, ReplaceRecord

LEMMA RefuseConsumeIInv ==
  ASSUME IInv, NEW i \in Ids, NEW d \in Digests, NEW t \in Tenants, RefuseConsume(i, d, t)
  PROVE  IInv'
<1>1. reviews' \subseteq Review
  BY DEF RefuseConsume, IInv, TypeOK
<1>2. QED BY <1>1, MarkExpired DEF RefuseConsume

-----------------------------------------------------------------------------
(* The invariant is inductive: every operation of the store preserves it. *)
LEMMA NextIInv == IInv /\ [Next]_vars => IInv'
<1> SUFFICES ASSUME IInv, [Next]_vars PROVE IInv'
  OBVIOUS
<1>1. CASE Tick
  BY <1>1, TickIInv
<1>2. CASE Counts
  BY <1>2, CountsIInv
<1>3. CASE \E i \in Ids : Insert(i) \/ Get(i)
  BY <1>3, InsertIInv, GetIInv
<1>4. CASE \E i \in Ids, d \in Digests, t \in Tenants :
             \/ Consume(i, d, t)
             \/ RefuseConsume(i, d, t)
             \/ \E u \in Users : Draft(i, d, t, u)
  BY <1>4, ConsumeIInv, RefuseConsumeIInv, DraftIInv
<1>5. CASE \E i \in Ids, u \in Users, t \in Tenants, o \in {"approved", "rejected"} :
             Adjudicable(i, u, t, o)
  BY <1>5, AdjudicableIInv
<1>6. CASE \E review \in reviews : Adjudicate(review)
  BY <1>6, AdjudicateIInv
<1>7. CASE UNCHANGED vars
  <2>1. TypeOK'
    BY <1>7 DEF vars, IInv, TypeOK
  <2>2. QueueOK' /\ Disjoint' /\ GrantsOK' /\ ReviewersOK' /\ ReviewsOK'
    BY <1>7 DEF vars, IInv, QueueOK, Disjoint, GrantsOK, Granted, GrantFor, ReviewersOK,
                ReviewerOK, DraftOK, ReviewsOK
  <2>3. QED BY <2>1, <2>2 DEF IInv
<1>8. QED BY <1>1, <1>2, <1>3, <1>4, <1>5, <1>6, <1>7 DEF Next

LEMMA Invariance == Spec => []IInv
BY InitIInv, NextIInv, PTL DEF Spec

(* The variables of the store always have their types. *)
THEOREM TypeCorrect == Spec => []TypeOK
<1>1. IInv => TypeOK
  BY DEF IInv
<1>2. QED BY <1>1, Invariance, PTL

(* An approval authorizes at most one action, the one it was requested     *)
(* for, and stays spent when its record is evicted.                        *)
THEOREM SpentOnceExactly == Spec => []ExactSingleUse
<1>1. IInv => ExactSingleUse
  <2> SUFFICES ASSUME IInv, NEW i \in Ids, grants[i] # << >>
               PROVE  /\ i \in DOMAIN records \cup DOMAIN retired
                      /\ Known(i).status = "consumed"
                      /\ grants[i] = <<[digest |-> Known(i).digest,
                                        tenant |-> Known(i).tenant]>>
    BY DEF ExactSingleUse
  <2>1. i \in DOMAIN records \cup DOMAIN retired
    BY DEF IInv, GrantsOK
  <2>2. Granted(Known(i), grants[i])
    BY <2>1 DEF IInv, GrantsOK, Known
  <2>3. QED BY <2>1, <2>2 DEF Granted, GrantFor
<1>2. QED BY <1>1, Invariance, PTL

(* Whatever is spent was approved by another identity than asked for it,   *)
(* although the handler checks that in an earlier call than it approves.   *)
THEOREM DutiesSeparated == Spec => []SeparationOfDuties
<1>1. IInv => SeparationOfDuties
  <2> SUFFICES ASSUME IInv, NEW i \in DOMAIN records \cup DOMAIN retired
               PROVE  /\ Known(i).status = "consumed" => Known(i).reviewer # NoOne
                      /\ Known(i).reviewer # Known(i).requestedBy
    BY DEF SeparationOfDuties
  <2>1. ReviewerOK(Known(i))
    BY DEF IInv, ReviewersOK, Known
  <2>2. QED BY <2>1, UsersAssumption DEF ReviewerOK
<1>2. QED BY <1>1, Invariance, PTL

-----------------------------------------------------------------------------
(* What `create` does under the lock: the new record enters, and the       *)
(* oldest leaves when the bound is passed.                                 *)
Enters(i) ==
  /\ Len(order) + 1 <= MaxRecords
  /\ DOMAIN records' = DOMAIN records \cup {i} /\ records'[i] = drafts[i]
  /\ \A j \in DOMAIN records : records'[j] = records[j]
  /\ order' = Append(order, i)
  /\ UNCHANGED <<evicted, retired>>

Replaces(i, oldest) ==
  /\ Len(order) >= 1 /\ oldest = order[1] /\ oldest \in DOMAIN records
  /\ DOMAIN records' = (DOMAIN records \cup {i}) \ {oldest} /\ records'[i] = drafts[i]
  /\ \A j \in DOMAIN records : j # oldest => records'[j] = records[j]
  /\ order' = Tail(Append(order, i))
  /\ evicted' = [evicted EXCEPT ![EvictedAs(records[oldest])] = @ + 1]
  /\ DOMAIN retired' = DOMAIN retired \cup {oldest}
  /\ retired'[oldest] = [records[oldest] EXCEPT !.status = EvictedAs(records[oldest])]
  /\ \A j \in DOMAIN retired : retired'[j] = retired[j]

LEMMA InsertFacts ==
  ASSUME IInv, NEW i \in Ids, Insert(i)
  PROVE  /\ i \in DOMAIN drafts /\ i \notin DOMAIN records /\ i \notin DOMAIN retired
         /\ UNCHANGED <<clock, grants>>
         /\ Enters(i) \/ Replaces(i, order[1])
<1> DEFINE grown  == Put(records, i, drafts[i])
           queue  == Append(order, i)
           oldest == Head(queue)
<1>1. i \in DOMAIN drafts /\ i \notin DOMAIN records /\ i \notin DOMAIN retired
      /\ UNCHANGED <<clock, grants>>
  BY DEF Insert, IInv, Disjoint
<1>2. /\ Len(queue) = Len(order) + 1 /\ Len(order) \in Nat
      /\ \A n \in 1..Len(order) : queue[n] = order[n]
  BY DEF IInv, TypeOK
<1>3. /\ DOMAIN grown = DOMAIN records \cup {i} /\ grown[i] = drafts[i]
      /\ \A j \in DOMAIN records : grown[j] = records[j]
  BY <1>1 DEF Put
<1>4. CASE ~Overfull(queue)
  <2>1. records' = grown /\ order' = queue /\ UNCHANGED <<evicted, retired>>
    BY <1>4 DEF Insert
  <2>2. Len(order) + 1 <= MaxRecords
    BY <1>2, <1>4, MaxRecordsAssumption DEF Overfull
  <2> HIDE DEF grown
  <2>3. QED BY <1>1, <1>3, <2>1, <2>2 DEF Enters
<1>5. CASE Overfull(queue)
  <2>1. Len(order) >= 1
    BY <1>2, <1>5, MaxRecordsAssumption DEF Overfull
  <2>2. oldest = order[1] /\ oldest \in DOMAIN records
    BY <1>2, <2>1 DEF IInv, QueueOK
  <2>3. grown[oldest] = records[oldest]
    BY <1>3, <2>2
  <2>4. /\ records' = Without(grown, oldest) /\ order' = Tail(queue)
        /\ evicted' = [evicted EXCEPT ![EvictedAs(grown[oldest])] = @ + 1]
        /\ retired' = Put(retired, oldest,
                          [grown[oldest] EXCEPT !.status = EvictedAs(grown[oldest])])
    BY <1>5 DEF Insert, Counted
  <2> HIDE DEF grown, oldest
  <2>5. oldest \notin DOMAIN retired /\ oldest # i
    BY <1>1, <2>2 DEF IInv, Disjoint
  <2>6. /\ DOMAIN records' = (DOMAIN records \cup {i}) \ {oldest} /\ records'[i] = drafts[i]
        /\ \A j \in DOMAIN records : j # oldest => records'[j] = records[j]
    BY <1>3, <2>4, <2>5 DEF Without
  <2>7. /\ DOMAIN retired' = DOMAIN retired \cup {oldest}
        /\ retired'[oldest] = [records[oldest] EXCEPT !.status = EvictedAs(records[oldest])]
        /\ \A j \in DOMAIN retired : retired'[j] = retired[j]
    BY <2>3, <2>4, <2>5 DEF Put
  <2>8. order' = Tail(Append(order, i))
    BY <2>4
  <2>9. evicted' = [evicted EXCEPT ![EvictedAs(records[oldest])] = @ + 1]
    BY <2>3, <2>4
  <2>10. Replaces(i, oldest)
    BY <2>1, <2>2, <2>6, <2>7, <2>8, <2>9 DEF Replaces
  <2>11. QED BY <1>1, <2>2, <2>10
<1>6. QED BY <1>4, <1>5

(* No other operation moves a record in or out of the table. *)
LEMMA OthersKeepTable ==
  ASSUME IInv, [Next]_vars
  PROVE  \/ \E i \in Ids : Insert(i)
         \/ DOMAIN records' = DOMAIN records /\ UNCHANGED <<order, evicted, retired>>
<1>1. CASE Tick \/ Counts
  BY <1>1 DEF Tick, Counts
<1>2. ASSUME NEW i \in Ids, Get(i)
      PROVE  DOMAIN records' = DOMAIN records /\ UNCHANGED <<order, evicted, retired>>
  BY <1>2 DEF Get, Put
<1>3. ASSUME NEW i \in Ids, NEW d \in Digests, NEW t \in Tenants,
             Consume(i, d, t) \/ RefuseConsume(i, d, t)
      PROVE  DOMAIN records' = DOMAIN records /\ UNCHANGED <<order, evicted, retired>>
  BY <1>3 DEF Consume, Consumable, RefuseConsume, Put
<1>4. ASSUME NEW i \in Ids, NEW d \in Digests, NEW t \in Tenants, NEW u \in Users,
             Draft(i, d, t, u)
      PROVE  DOMAIN records' = DOMAIN records /\ UNCHANGED <<order, evicted, retired>>
  BY <1>4 DEF Draft
<1>5. ASSUME NEW i \in Ids, NEW u \in Users, NEW t \in Tenants,
             NEW o \in {"approved", "rejected"}, Adjudicable(i, u, t, o)
      PROVE  DOMAIN records' = DOMAIN records /\ UNCHANGED <<order, evicted, retired>>
  BY <1>5 DEF Adjudicable, Put
<1>6. ASSUME NEW review \in reviews, Adjudicate(review)
      PROVE  DOMAIN records' = DOMAIN records /\ UNCHANGED <<order, evicted, retired>>
  BY <1>6 DEF Adjudicate, Put
<1>7. CASE UNCHANGED vars
  BY <1>7 DEF vars
<1>8. QED BY <1>1, <1>2, <1>3, <1>4, <1>5, <1>6, <1>7 DEF Next

(* The queue lists the table, and the table is finite. *)
TableInv == QueueMatchesRecords /\ IsFiniteSet(DOMAIN records)

LEMMA InsertTableInv ==
  ASSUME IInv, TableInv, NEW i \in Ids, Insert(i)
  PROVE  TableInv'
<1> DEFINE n    == Len(order)
           kept == DOMAIN records
<1>1. /\ n \in Nat /\ order \in Seq(Ids) /\ i \notin kept
      /\ {order[m] : m \in 1..n} = kept /\ n = Cardinality(kept) /\ n <= MaxRecords
      /\ IsFiniteSet(kept)
      /\ \A l, m \in 1..n : order[l] = order[m] => l = m
  <2>1. i \notin kept
    BY InsertFacts
  <2>2. n \in Nat /\ order \in Seq(Ids) /\ \A l, m \in 1..n : order[l] = order[m] => l = m
    BY DEF IInv, TypeOK, QueueOK
  <2>3. /\ {order[m] : m \in 1..n} = kept /\ n = Cardinality(kept) /\ n <= MaxRecords
        /\ IsFiniteSet(kept)
    BY DEF TableInv, QueueMatchesRecords
  <2>4. QED BY <2>1, <2>2, <2>3
<1>2. IsFiniteSet(kept \cup {i}) /\ Cardinality(kept \cup {i}) = n + 1
  BY <1>1, FS_AddElement
<1> DEFINE queue == Append(order, i)
<1>3. /\ queue \in Seq(Ids) /\ queue # << >> /\ Len(queue) = n + 1 /\ queue[n + 1] = i
      /\ \A m \in 1..n : queue[m] = order[m]
  BY <1>1, AppendProperties
<1> HIDE DEF n, queue
<1>4. {queue[m] : m \in 1..(n + 1)} = kept \cup {i}
  <2>1. \A m \in 1..(n + 1) : m \in 1..n \/ m = n + 1
    BY <1>1
  <2>2. \A m \in 1..(n + 1) : queue[m] \in kept \cup {i}
    BY <1>1, <1>3, <2>1
  <2>3. \A j \in kept : \E m \in 1..(n + 1) : queue[m] = j
    BY <1>1, <1>3
  <2>4. n + 1 \in 1..(n + 1)
    BY <1>1
  <2>5. QED BY <1>3, <2>2, <2>3, <2>4
<1>5. CASE Enters(i)
  <2>1. order' = queue /\ DOMAIN records' = kept \cup {i} /\ n + 1 <= MaxRecords
    BY <1>5 DEF Enters, n, queue
  <2>2. QED BY <1>1, <1>2, <1>3, <1>4, <2>1 DEF TableInv, QueueMatchesRecords
<1>6. CASE Replaces(i, order[1])
  <2> DEFINE oldest == order[1]
  <2>1. /\ order' = Tail(queue) /\ DOMAIN records' = (kept \cup {i}) \ {oldest}
        /\ oldest \in kept /\ n >= 1
    BY <1>6 DEF Replaces, n, queue
  <2>2. /\ Len(order') = n
        /\ \A m \in 1..n : order'[m] = queue[m + 1]
    <3>1. Len(queue) - 1 = n
      BY <1>1, <1>3
    <3>2. Len(order') = Len(queue) - 1 /\ \A m \in 1..Len(order') : order'[m] = queue[m + 1]
      BY <1>3, <2>1, HeadTailProperties
    <3>3. QED BY <3>1, <3>2
  <2>3. queue[1] = oldest /\ \A m \in 2..(n + 1) : queue[m] # oldest
    <3>1. queue[1] = oldest
      BY <1>1, <1>3, <2>1
    <3>2. \A m \in 2..n : order[m] # order[1] /\ queue[m] = order[m]
      BY <1>1, <1>3, <2>1
    <3>3. queue[n + 1] # oldest
      BY <1>1, <1>3, <2>1
    <3>4. \A m \in 2..(n + 1) : m \in 2..n \/ m = n + 1
      BY <1>1
    <3>5. QED BY <3>1, <3>2, <3>3, <3>4
  <2> HIDE DEF oldest
  <2>4. {order'[m] : m \in 1..n} = (kept \cup {i}) \ {oldest}
    <3>1. \A m \in 1..n : m + 1 \in 2..(n + 1) /\ m + 1 \in 1..(n + 1)
      BY <1>1
    <3>2. \A m \in 1..n : order'[m] \in (kept \cup {i}) \ {oldest}
      BY <1>4, <2>2, <2>3, <3>1
    <3>3. ASSUME NEW j \in (kept \cup {i}) \ {oldest}
          PROVE  \E m \in 1..n : order'[m] = j
      <4>1. PICK m \in 1..(n + 1) : queue[m] = j
        BY <1>4
      <4>2. m # 1
        BY <2>3, <4>1
      <4>3. m - 1 \in 1..n /\ (m - 1) + 1 = m
        BY <1>1, <4>2
      <4>4. QED BY <2>2, <4>1, <4>3
    <3>4. QED BY <3>2, <3>3
  <2>5. IsFiniteSet((kept \cup {i}) \ {oldest}) /\ Cardinality((kept \cup {i}) \ {oldest}) = n
    <3>1. oldest \in kept \cup {i} /\ (n + 1) - 1 = n
      BY <1>1, <2>1
    <3>2. QED BY <1>2, <3>1, FS_RemoveElement
  <2>6. QED BY <1>1, <2>1, <2>2, <2>4, <2>5 DEF TableInv, QueueMatchesRecords
<1>7. QED BY <1>5, <1>6, InsertFacts

LEMMA TableInvariance == Spec => []TableInv
<1>1. Init => TableInv
  <2> SUFFICES ASSUME Init PROVE TableInv
    OBVIOUS
  <2>1. order = << >> /\ Len(order) = 0 /\ DOMAIN records = {}
    BY DEF Init
  <2>2. QED BY <2>1, FS_EmptySet, MaxRecordsAssumption DEF TableInv, QueueMatchesRecords
<1>2. IInv /\ TableInv /\ [Next]_vars => TableInv'
  <2> SUFFICES ASSUME IInv, TableInv, [Next]_vars PROVE TableInv'
    OBVIOUS
  <2>1. ASSUME NEW i \in Ids, Insert(i) PROVE TableInv'
    BY <2>1, InsertTableInv
  <2>2. CASE DOMAIN records' = DOMAIN records /\ UNCHANGED <<order, evicted, retired>>
    BY <2>2 DEF TableInv, QueueMatchesRecords
  <2>3. QED BY <2>1, <2>2, OthersKeepTable
<1>3. QED BY <1>1, <1>2, Invariance, PTL DEF Spec

(* approvals.ApprovalStore.create: the eviction order lists the records    *)
(* kept, each once, and they never outgrow max_records.                    *)
THEOREM QueueListsRecords == Spec => []QueueMatchesRecords
<1>1. TableInv => QueueMatchesRecords
  BY DEF TableInv
<1>2. QED BY <1>1, TableInvariance, PTL

-----------------------------------------------------------------------------
(* Refinement: each step moves each approval as ApprovalLifecycle allows.  *)
LifeOf(r, given) ==
  [status |-> r.status, digest |-> r.digest, tenant |-> r.tenant,
   requestedBy |-> r.requestedBy, reviewer |-> r.reviewer, grants |-> given]

LEMMA LifeFacts ==
  \A i : Life(i) = IF i \in DOMAIN records THEN LifeOf(Expired(records[i]), grants[i])
                   ELSE IF i \in DOMAIN retired THEN LifeOf(retired[i], grants[i])
                   ELSE [status |-> "unused"]
BY DEF Life, LifeOf

LEMMA LifeFactsPrimed ==
  \A i : Life(i)' = IF i \in DOMAIN records' THEN LifeOf(Expired(records[i])', grants'[i])
                    ELSE IF i \in DOMAIN retired' THEN LifeOf(retired'[i], grants'[i])
                    ELSE [status |-> "unused"]
BY DEF Life, LifeOf

(* The steps of a life, for a life written out. *)
LEMMA Evolving ==
  ASSUME NEW r, NEW q, NEW given, NEW after,
         q.digest = r.digest, q.tenant = r.tenant, q.requestedBy = r.requestedBy,
         \/ q.status = r.status /\ q.reviewer = r.reviewer /\ after = given
         \/ /\ r.status = "pending" /\ q.status \in {"approved", "rejected"}
            /\ q.reviewer \in Users \ {r.requestedBy} /\ after = given
         \/ /\ r.status \in Open /\ q.status = "expired"
            /\ q.reviewer = r.reviewer /\ after = given
         \/ /\ r.status = "approved" /\ q.status = "consumed"
            /\ q.reviewer = r.reviewer /\ given = << >>
            /\ after = <<[digest |-> r.digest, tenant |-> r.tenant]>>
  PROVE  Lifecycle!Evolves(LifeOf(r, given), LifeOf(q, after))
<1>1. CASE q.status = r.status /\ q.reviewer = r.reviewer /\ after = given
  BY <1>1 DEF LifeOf, Lifecycle!Evolves
<1>2. CASE /\ r.status = "pending" /\ q.status \in {"approved", "rejected"}
           /\ q.reviewer \in Users \ {r.requestedBy} /\ after = given
  <2>1. LifeOf(q, after) = [LifeOf(r, given) EXCEPT !.status = q.status, !.reviewer = q.reviewer]
    <3>1. LifeOf(q, after) =
            [status |-> q.status, digest |-> r.digest, tenant |-> r.tenant,
             requestedBy |-> r.requestedBy, reviewer |-> q.reviewer, grants |-> given]
      BY <1>2 DEF LifeOf
    <3> DEFINE b == [LifeOf(r, given) EXCEPT !.status = q.status]
    <3>2. b = [status |-> q.status, digest |-> r.digest, tenant |-> r.tenant,
               requestedBy |-> r.requestedBy, reviewer |-> r.reviewer, grants |-> given]
      BY DEF LifeOf
    <3>3. [LifeOf(r, given) EXCEPT !.status = q.status, !.reviewer = q.reviewer]
            = [b EXCEPT !.reviewer = q.reviewer]
      OBVIOUS
    <3> HIDE DEF b
    <3>4. [b EXCEPT !.reviewer = q.reviewer] = LifeOf(q, after)
      BY <3>1, <3>2
    <3>5. QED BY <3>3, <3>4
  <2>2. LifeOf(r, given).status = "pending" /\ LifeOf(r, given).requestedBy = r.requestedBy
    BY <1>2 DEF LifeOf
  <2>3. QED BY <1>2, <2>1, <2>2 DEF Lifecycle!Evolves, Lifecycle!IsAdjudicated
<1>3. CASE /\ r.status \in Open /\ q.status = "expired"
           /\ q.reviewer = r.reviewer /\ after = given
  <2>1. LifeOf(q, after) = [LifeOf(r, given) EXCEPT !.status = "expired"]
    BY <1>3 DEF LifeOf
  <2>2. LifeOf(r, given).status \in Open
    BY <1>3 DEF LifeOf
  <2>3. QED BY <2>1, <2>2 DEF Lifecycle!Evolves, Lifecycle!IsGivenUp, Lifecycle!Open, Open
<1>4. CASE /\ r.status = "approved" /\ q.status = "consumed"
           /\ q.reviewer = r.reviewer /\ given = << >>
           /\ after = <<[digest |-> r.digest, tenant |-> r.tenant]>>
  <2> DEFINE a    == LifeOf(r, given)
             told == <<[digest |-> a.digest, tenant |-> a.tenant]>>
  <2>1. a.status = "approved" /\ a.grants = << >> /\ after = told
    BY <1>4 DEF LifeOf
  <2>2. << >> \o told = told
    OBVIOUS
  <2>3. LifeOf(q, after) = [a EXCEPT !.status = "consumed", !.grants = told]
    <3>1. LifeOf(q, after) =
            [status |-> "consumed", digest |-> r.digest, tenant |-> r.tenant,
             requestedBy |-> r.requestedBy, reviewer |-> r.reviewer, grants |-> told]
      BY <1>4, <2>1 DEF LifeOf
    <3> DEFINE b == [a EXCEPT !.status = "consumed"]
    <3>2. b = [status |-> "consumed", digest |-> r.digest, tenant |-> r.tenant,
               requestedBy |-> r.requestedBy, reviewer |-> r.reviewer, grants |-> given]
      BY DEF LifeOf
    <3>3. [a EXCEPT !.status = "consumed", !.grants = told] = [b EXCEPT !.grants = told]
      OBVIOUS
    <3> HIDE DEF b
    <3>4. [b EXCEPT !.grants = told] = LifeOf(q, after)
      BY <3>1, <3>2
    <3>5. QED BY <3>3, <3>4
  <2>4. LifeOf(q, after) = [a EXCEPT !.status = "consumed", !.grants = @ \o told]
    BY <2>1, <2>2, <2>3
  <2>5. Lifecycle!IsSpent(a, LifeOf(q, after))
    BY <2>1, <2>4 DEF Lifecycle!IsSpent
  <2> HIDE DEF a
  <2>6. QED BY <2>5 DEF Lifecycle!Evolves, a
<1>5. QED BY <1>1, <1>2, <1>3, <1>4

(* The records kept change one by one, with the clock or without. *)
LEMMA KeptEvolves ==
  ASSUME IInv, NEW i \in Ids, i \in DOMAIN records, i \in DOMAIN records',
         LET r == Expired(records[i])
             q == Expired(records[i])'
         IN /\ q.digest = r.digest /\ q.tenant = r.tenant /\ q.requestedBy = r.requestedBy
            /\ \/ q.status = r.status /\ q.reviewer = r.reviewer /\ grants'[i] = grants[i]
               \/ /\ r.status = "pending" /\ q.status \in {"approved", "rejected"}
                  /\ q.reviewer \in Users \ {r.requestedBy} /\ grants'[i] = grants[i]
               \/ /\ r.status \in Open /\ q.status = "expired"
                  /\ q.reviewer = r.reviewer /\ grants'[i] = grants[i]
               \/ /\ r.status = "approved" /\ q.status = "consumed"
                  /\ q.reviewer = r.reviewer /\ grants[i] = << >>
                  /\ grants'[i] = <<[digest |-> r.digest, tenant |-> r.tenant]>>
  PROVE  Lifecycle!Evolves(Life(i), Life(i)')
<1> DEFINE r == Expired(records[i])
           q == Expired(records[i])'
<1>1. Life(i) = LifeOf(r, grants[i]) /\ Life(i)' = LifeOf(q, grants'[i])
  BY LifeFacts, LifeFactsPrimed
<1> HIDE DEF r, q
<1>2. Lifecycle!Evolves(LifeOf(r, grants[i]), LifeOf(q, grants'[i]))
  BY Evolving DEF r, q
<1>3. QED BY <1>1, <1>2

LEMMA StandsStill ==
  ASSUME NEW i, i \notin DOMAIN records, i \notin DOMAIN records',
         (i \in DOMAIN retired') <=> (i \in DOMAIN retired),
         i \in DOMAIN retired => retired'[i] = retired[i],
         grants'[i] = grants[i]
  PROVE  Lifecycle!Evolves(Life(i), Life(i)')
<1>1. Life(i)' = Life(i)
  BY LifeFacts, LifeFactsPrimed
<1>2. QED BY <1>1 DEF Lifecycle!Evolves

(* A step of the clock, and one that only marks what has expired. *)
LEMMA TickEvolves ==
  ASSUME IInv, Tick, NEW i \in Ids
  PROVE  Lifecycle!Evolves(Life(i), Life(i)')
<1>1. clock' = clock + 1 /\ clock \in Nat /\ UNCHANGED <<records, retired, grants>>
  BY DEF Tick, IInv, TypeOK
<1>2. CASE i \in DOMAIN records
  <2>1. records[i] \in Record
    BY <1>2 DEF IInv, TypeOK
  <2> DEFINE r == Expired(records[i])
             q == Expired(records[i])'
  <2>2. r = IF records[i].status \in Open /\ clock >= records[i].expires
            THEN [records[i] EXCEPT !.status = "expired"] ELSE records[i]
    BY DEF Expired
  <2>3. q = IF records[i].status \in Open /\ clock + 1 >= records[i].expires
            THEN [records[i] EXCEPT !.status = "expired"] ELSE records[i]
    BY <1>1 DEF Expired
  <2> HIDE DEF r, q
  <2>4. q = r \/ (r = records[i] /\ r.status \in Open /\ q = [r EXCEPT !.status = "expired"])
    BY <1>1, <2>1, <2>2, <2>3 DEF Record
  <2>5. r \in Record
    BY <2>1, ExpiredFacts DEF r
  <2>6. /\ q.digest = r.digest /\ q.tenant = r.tenant /\ q.requestedBy = r.requestedBy
        /\ q.reviewer = r.reviewer
        /\ q.status = r.status \/ (r.status \in Open /\ q.status = "expired")
    BY <2>4, <2>5 DEF Record
  <2>7. QED BY <1>1, <1>2, <2>6, KeptEvolves DEF r, q
<1>3. CASE i \notin DOMAIN records
  BY <1>1, <1>3, StandsStill
<1>4. QED BY <1>2, <1>3

LEMMA ExpiredTwice ==
  ASSUME NEW r \in Record
  PROVE  Expired(Expired(r)) = Expired(r)
BY DEF Expired, Record, Open

(* At the same time, a record expires as before. *)
LEMMA SameClock ==
  ASSUME UNCHANGED clock
  PROVE  \A i : Expired(records[i])' = Expired(records'[i])
BY DEF Expired

LEMMA MarksEvolve ==
  ASSUME IInv, UNCHANGED <<clock, retired, grants>>, DOMAIN records' = DOMAIN records,
         \A j \in DOMAIN records : records'[j] \in {records[j], Expired(records[j])},
         NEW i \in Ids
  PROVE  Lifecycle!Evolves(Life(i), Life(i)')
<1>1. CASE i \in DOMAIN records
  <2>1. records[i] \in Record
    BY <1>1 DEF IInv, TypeOK
  <2>2. Expired(records[i])' = Expired(records[i])
    BY <1>1, <2>1, SameClock, ExpiredTwice
  <2>3. QED BY <1>1, <2>2, KeptEvolves
<1>2. CASE i \notin DOMAIN records
  BY <1>2, StandsStill
<1>3. QED BY <1>1, <1>2

LEMMA InsertEvolves ==
  ASSUME IInv, NEW i \in Ids, Insert(i), NEW j \in Ids
  PROVE  Lifecycle!Evolves(Life(j), Life(j)')
<1>1. /\ i \in DOMAIN drafts /\ i \notin DOMAIN records /\ i \notin DOMAIN retired
      /\ UNCHANGED <<clock, grants>>
      /\ Enters(i) \/ Replaces(i, order[1])
  BY InsertFacts
<1>2. CASE j = i
  <2>1. j \in DOMAIN records' /\ records'[j] = drafts[i]
    BY <1>1, <1>2 DEF Enters, Replaces
  <2>2. drafts[i] \in Record /\ drafts[i].status = "pending" /\ drafts[i].reviewer = NoOne
    BY <1>1 DEF IInv, TypeOK, ReviewersOK, DraftOK
  <2> DEFINE q == Expired(drafts[i])
  <2>3. q \in Record /\ q.status \in {"pending", "expired"} /\ q.reviewer = NoOne
    BY <2>2, ExpiredFacts
  <2>4. grants'[j] = << >>
    BY <1>1, <1>2 DEF IInv, GrantsOK
  <2>5. Expired(records[j])' = q
    BY <1>1, <2>1, SameClock
  <2> HIDE DEF q
  <2>6. Life(j) = [status |-> "unused"] /\ Life(j)' = LifeOf(q, << >>)
    BY <1>1, <1>2, <2>1, <2>4, <2>5, LifeFacts, LifeFactsPrimed
  <2>7. LifeOf(q, << >>) \in Lifecycle!Requested
    BY <2>3 DEF LifeOf, Record, Lifecycle!Requested
  <2>8. QED BY <2>6, <2>7 DEF Lifecycle!Evolves, Lifecycle!IsRequested, Lifecycle!Unused
<1>3. CASE j # i /\ j \in DOMAIN records /\ j \in DOMAIN records'
  <2>1. records'[j] = records[j]
    BY <1>1, <1>3 DEF Enters, Replaces
  <2>2. Expired(records[j])' = Expired(records[j])
    BY <1>1, <2>1, SameClock
  <2>3. QED BY <1>1, <1>3, <2>2, KeptEvolves
<1>4. CASE j # i /\ j \in DOMAIN records /\ j \notin DOMAIN records'
  <2> DEFINE r == records[j]
             q == [r EXCEPT !.status = EvictedAs(r)]
             e == Expired(r)
  <2>1. Replaces(i, j)
    BY <1>1, <1>4 DEF Enters, Replaces
  <2>2. j \in DOMAIN retired' /\ retired'[j] = q
    BY <2>1 DEF Replaces
  <2>3. r \in Record
    BY <1>4 DEF IInv, TypeOK
  <2>4. /\ q.digest = e.digest /\ q.tenant = e.tenant /\ q.requestedBy = e.requestedBy
        /\ q.reviewer = e.reviewer
        /\ q.status = e.status \/ (e.status \in Open /\ q.status = "expired")
    <3>1. /\ q.digest = r.digest /\ q.tenant = r.tenant /\ q.requestedBy = r.requestedBy
          /\ q.reviewer = r.reviewer /\ q.status = EvictedAs(r)
      BY <2>3 DEF Record
    <3>2. EvictedAs(r) = e.status \/ (e.status \in Open /\ EvictedAs(r) = "expired")
      BY DEF EvictedAs
    <3> HIDE DEF r, q, e
    <3>3. QED BY <2>3, <3>1, <3>2, ExpiredFacts DEF e
  <2>5. Life(j) = LifeOf(e, grants[j]) /\ Life(j)' = LifeOf(q, grants[j])
    BY <1>1, <1>4, <2>2, LifeFacts, LifeFactsPrimed
  <2> HIDE DEF q, e
  <2>6. Lifecycle!Evolves(LifeOf(e, grants[j]), LifeOf(q, grants[j]))
    BY <2>4, Evolving
  <2>7. QED BY <2>5, <2>6
<1>5. CASE j # i /\ j \notin DOMAIN records
  <2>1. /\ j \notin DOMAIN records'
        /\ (j \in DOMAIN retired') <=> (j \in DOMAIN retired)
        /\ j \in DOMAIN retired => retired'[j] = retired[j]
    BY <1>1, <1>5 DEF Enters, Replaces
  <2>2. QED BY <1>1, <1>5, <2>1, StandsStill
<1>6. QED BY <1>2, <1>3, <1>4, <1>5

(* One record is adjudicated or consumed; the others stand still. *)
LEMMA OneEvolves ==
  ASSUME IInv, UNCHANGED <<clock, retired>>, NEW i \in DOMAIN records, NEW q,
         records' = Put(records, i, q),
         \A j \in Ids : j # i => grants'[j] = grants[j],
         Lifecycle!Evolves(Life(i), Life(i)'),
         NEW j \in Ids
  PROVE  Lifecycle!Evolves(Life(j), Life(j)')
<1>1. DOMAIN records' = DOMAIN records /\ \A k \in DOMAIN records : k # i => records'[k] = records[k]
  BY DEF Put
<1>2. CASE j # i /\ j \in DOMAIN records
  <2>1. Expired(records[j])' = Expired(records[j])
    BY <1>1, <1>2, SameClock
  <2>2. QED BY <1>1, <1>2, <2>1, KeptEvolves
<1>3. CASE j # i /\ j \notin DOMAIN records
  BY <1>1, <1>3, StandsStill
<1>4. QED BY <1>2, <1>3

LEMMA AdjudicateEvolves ==
  ASSUME IInv, NEW review \in reviews, Adjudicate(review), NEW j \in Ids
  PROVE  Lifecycle!Evolves(Life(j), Life(j)')
<1> DEFINE i == review.id
<1>1. review \in Review /\ UNCHANGED <<clock, retired, grants>>
  BY DEF Adjudicate, IInv, TypeOK
<1>2. CASE i \notin DOMAIN records
  <2>1. records' = records
    BY <1>2 DEF Adjudicate
  <2>2. QED BY <1>1, <2>1, MarksEvolve
<1>3. CASE i \in DOMAIN records
  <2> DEFINE r == records[i]
             q == Adjudicated(r, review)
  <2>1. records' = Put(records, i, q)
    BY <1>3 DEF Adjudicate
  <2>2. r \in Record /\ r.requestedBy # review.reviewer /\ i \in Ids
    BY <1>3 DEF IInv, TypeOK, ReviewsOK
  <2>3. CASE Expired(r).status = "pending"
    <3>1. Expired(r) = r
      BY <2>2, <2>3 DEF Expired, Record
    <3>2. q = [r EXCEPT !.status = review.outcome, !.reviewer = review.reviewer]
      BY <2>3 DEF Adjudicated
    <3>3. /\ q.digest = r.digest /\ q.tenant = r.tenant /\ q.requestedBy = r.requestedBy
          /\ q.status \in {"approved", "rejected"} /\ q.reviewer \in Users \ {r.requestedBy}
          /\ q.expires = r.expires
      BY <1>1, <2>2, <3>2 DEF Record, Review
    <3>4. ~(clock >= r.expires)
      BY <2>2, <2>3, <3>1 DEF Expired, Record, Open
    <3> HIDE DEF q
    <3>5. Expired(q) = q
      BY <3>3, <3>4 DEF Expired
    <3>6. records'[i] = q /\ i \in DOMAIN records'
      BY <1>3, <2>1 DEF Put
    <3>7. Expired(records[i])' = q
      BY <1>1, <3>5, <3>6, SameClock
    <3>8. Lifecycle!Evolves(Life(i), Life(i)')
      BY <1>1, <1>3, <2>2, <2>3, <3>1, <3>3, <3>6, <3>7, KeptEvolves
    <3> HIDE DEF i
    <3>9. QED BY <1>1, <1>3, <2>1, <3>8, OneEvolves
  <2>4. CASE Expired(r).status # "pending"
    <3>1. q = Expired(r)
      BY <2>4 DEF Adjudicated
    <3>2. /\ DOMAIN records' = DOMAIN records
          /\ \A k \in DOMAIN records : records'[k] \in {records[k], Expired(records[k])}
      BY <1>3, <2>1, <3>1 DEF Put
    <3>3. QED BY <1>1, <3>2, MarksEvolve
  <2>5. QED BY <2>3, <2>4
<1>4. QED BY <1>2, <1>3

LEMMA ConsumeEvolves ==
  ASSUME IInv, NEW i \in Ids, NEW d \in Digests, NEW t \in Tenants, Consume(i, d, t),
         NEW j \in Ids
  PROVE  Lifecycle!Evolves(Life(j), Life(j)')
<1> DEFINE r == records[i]
           q == [r EXCEPT !.status = "consumed"]
           g == [digest |-> d, tenant |-> t]
<1>1. /\ i \in DOMAIN records /\ r \in Record /\ Expired(r).status = "approved"
      /\ r.digest = d /\ r.tenant = t /\ records' = Put(records, i, q)
      /\ grants' = [grants EXCEPT ![i] = Append(@, g)]
      /\ UNCHANGED <<clock, retired>>
  BY DEF Consume, Consumable, IInv, TypeOK
<1>2. Expired(r) = r /\ r.status = "approved"
  BY <1>1 DEF Expired, Record
<1>3. grants[i] = << >>
  BY <1>1, <1>2 DEF IInv, GrantsOK, Granted
<1>4. grants'[i] = <<g>> /\ \A k \in Ids : k # i => grants'[k] = grants[k]
  <2>1. DOMAIN grants = Ids
    BY DEF IInv, TypeOK
  <2> HIDE DEF g
  <2>2. Append(grants[i], g) = <<g>>
    BY <1>3
  <2>3. QED BY <1>1, <2>1, <2>2
<1>5. /\ q.digest = r.digest /\ q.tenant = r.tenant /\ q.requestedBy = r.requestedBy
      /\ q.reviewer = r.reviewer /\ q.status = "consumed"
  BY <1>1 DEF Record
<1> HIDE DEF q
<1>6. Expired(q) = q
  BY <1>5 DEF Expired, Open
<1>7. records'[i] = q /\ i \in DOMAIN records'
  BY <1>1 DEF Put
<1>8. Expired(records[i])' = q
  BY <1>1, <1>6, <1>7, SameClock
<1>9. Lifecycle!Evolves(Life(i), Life(i)')
  BY <1>1, <1>2, <1>3, <1>4, <1>5, <1>7, <1>8, KeptEvolves
<1>10. QED BY <1>1, <1>4, <1>9, OneEvolves

LEMMA StepEvolves ==
  ASSUME IInv, [Next]_vars, NEW j \in Ids
  PROVE  Lifecycle!Evolves(Life(j), Life(j)')
<1>1. CASE Tick
  BY <1>1, TickEvolves
<1>2. ASSUME NEW i \in Ids, Insert(i) PROVE Lifecycle!Evolves(Life(j), Life(j)')
  BY <1>2, InsertEvolves
<1>3. ASSUME NEW review \in reviews, Adjudicate(review)
      PROVE  Lifecycle!Evolves(Life(j), Life(j)')
  BY <1>3, AdjudicateEvolves
<1>4. ASSUME NEW i \in Ids, NEW d \in Digests, NEW t \in Tenants, Consume(i, d, t)
      PROVE  Lifecycle!Evolves(Life(j), Life(j)')
  BY <1>4, ConsumeEvolves
<1>5. CASE Counts \/ UNCHANGED vars \/ \E i \in Ids, d \in Digests, t \in Tenants, u \in Users :
             Draft(i, d, t, u)
  <2>1. /\ UNCHANGED <<clock, retired, grants>> /\ DOMAIN records' = DOMAIN records
        /\ \A k \in DOMAIN records : records'[k] \in {records[k], Expired(records[k])}
    BY <1>5 DEF Counts, vars, Draft
  <2>2. QED BY <2>1, MarksEvolve
<1>6. ASSUME NEW i \in Ids, i \in DOMAIN records, records' = Put(records, i, Expired(records[i])),
             UNCHANGED <<clock, retired, grants>>
      PROVE  Lifecycle!Evolves(Life(j), Life(j)')
  <2>1. /\ DOMAIN records' = DOMAIN records
        /\ \A k \in DOMAIN records : records'[k] \in {records[k], Expired(records[k])}
    BY <1>6 DEF Put
  <2>2. QED BY <1>6, <2>1, MarksEvolve
<1>7. ASSUME NEW i \in Ids,
             \/ Get(i)
             \/ \E d \in Digests, t \in Tenants : RefuseConsume(i, d, t)
             \/ \E u \in Users, t \in Tenants, o \in {"approved", "rejected"} :
                  Adjudicable(i, u, t, o)
      PROVE  Lifecycle!Evolves(Life(j), Life(j)')
  BY <1>6, <1>7 DEF Get, RefuseConsume, Adjudicable
<1>8. QED BY <1>1, <1>2, <1>3, <1>4, <1>5, <1>7 DEF Next

(* approvals.ApprovalStore keeps the promise of ApprovalLifecycle: however *)
(* calls interleave, expire or evict records, each approval is adjudicated *)
(* at most once, by somebody else than asked for it, and spent once.       *)
THEOREM ImplementsLifecycle == Spec => KeepsLifecycle
<1>1. Init => Lifecycle!Init
  BY DEF Init, Life, Lifecycle!Init, Lifecycle!Unused
<1>2. IInv /\ [Next]_vars => [Lifecycle!Next]_([i \in Ids |-> Life(i)])
  BY StepEvolves DEF Lifecycle!Next
<1>3. QED BY <1>1, <1>2, Invariance, PTL DEF Spec, KeepsLifecycle, Lifecycle!Spec

-----------------------------------------------------------------------------
(* The totals.  What is kept splits by status, and what was evicted is in  *)
(* the counters.                                                           *)
LEMMA DisjointUnion ==
  ASSUME NEW S, IsFiniteSet(S), NEW T, IsFiniteSet(T), S \cap T = {}
  PROVE  IsFiniteSet(S \cup T) /\ Cardinality(S \cup T) = Cardinality(S) + Cardinality(T)
<1>1. /\ IsFiniteSet(S \cup T)
      /\ Cardinality(S \cup T) = Cardinality(S) + Cardinality(T) - Cardinality(S \cap T)
  BY FS_Union
<1>2. Cardinality(S \cap T) = 0
  BY FS_EmptySet
<1>3. Cardinality(S) \in Nat /\ Cardinality(T) \in Nat
  BY FS_CardinalityType
<1>4. QED BY <1>1, <1>2, <1>3

LEMMA Partition ==
  ASSUME NEW S, IsFiniteSet(S), NEW st \in [S -> Statuses]
  PROVE  /\ \A s \in Statuses : /\ IsFiniteSet({i \in S : st[i] = s})
                                /\ Cardinality({i \in S : st[i] = s}) \in Nat
         /\ Cardinality(S) = Cardinality({i \in S : st[i] = "pending"})
                             + Cardinality({i \in S : st[i] = "approved"})
                             + Cardinality({i \in S : st[i] = "rejected"})
                             + Cardinality({i \in S : st[i] = "expired"})
                             + Cardinality({i \in S : st[i] = "consumed"})
<1> DEFINE P == {i \in S : st[i] = "pending"}
           A == {i \in S : st[i] = "approved"}
           R == {i \in S : st[i] = "rejected"}
           E == {i \in S : st[i] = "expired"}
           C == {i \in S : st[i] = "consumed"}
<1>1. \A s \in Statuses : /\ IsFiniteSet({i \in S : st[i] = s})
                          /\ Cardinality({i \in S : st[i] = s}) \in Nat
  <2> TAKE s \in Statuses
  <2>1. {i \in S : st[i] = s} \in SUBSET S
    OBVIOUS
  <2> DEFINE T == {i \in S : st[i] = s}
  <2> HIDE DEF T
  <2>2. IsFiniteSet(T)
    BY <2>1, FS_Subset DEF T
  <2>3. QED BY <2>2, FS_CardinalityType DEF T
<1>2. /\ IsFiniteSet(P) /\ IsFiniteSet(A) /\ IsFiniteSet(R) /\ IsFiniteSet(E) /\ IsFiniteSet(C)
      /\ Cardinality(P) \in Nat /\ Cardinality(A) \in Nat /\ Cardinality(R) \in Nat
      /\ Cardinality(E) \in Nat /\ Cardinality(C) \in Nat
  BY <1>1 DEF Statuses, Open, Settled
<1>3. S = (((P \cup A) \cup R) \cup E) \cup C
  BY DEF Statuses, Open, Settled
<1>4. /\ P \cap A = {} /\ (P \cup A) \cap R = {} /\ ((P \cup A) \cup R) \cap E = {}
      /\ (((P \cup A) \cup R) \cup E) \cap C = {}
  OBVIOUS
<1> HIDE DEF P, A, R, E, C
<1>5. IsFiniteSet(P \cup A) /\ Cardinality(P \cup A) = Cardinality(P) + Cardinality(A)
  BY <1>2, <1>4, DisjointUnion
<1>6. /\ IsFiniteSet((P \cup A) \cup R)
      /\ Cardinality((P \cup A) \cup R) = Cardinality(P) + Cardinality(A) + Cardinality(R)
  BY <1>2, <1>4, <1>5, DisjointUnion
<1>7. /\ IsFiniteSet(((P \cup A) \cup R) \cup E)
      /\ Cardinality(((P \cup A) \cup R) \cup E)
           = Cardinality(P) + Cardinality(A) + Cardinality(R) + Cardinality(E)
  BY <1>2, <1>4, <1>6, DisjointUnion
<1>8. Cardinality((((P \cup A) \cup R) \cup E) \cup C)
        = Cardinality(P) + Cardinality(A) + Cardinality(R) + Cardinality(E) + Cardinality(C)
  BY <1>2, <1>4, <1>7, DisjointUnion
<1>9. QED BY <1>1, <1>3, <1>8 DEF P, A, R, E, C

(* The counters hold exactly the evicted records. *)
EvictedSum ==
  evicted["pending"] + evicted["approved"] + evicted["rejected"] + evicted["expired"]
    + evicted["consumed"]

CountInv == IsFiniteSet(DOMAIN retired) /\ EvictedSum = Cardinality(DOMAIN retired)

LEMMA CountInvariance == Spec => []CountInv
<1>1. Init => CountInv
  <2> SUFFICES ASSUME Init PROVE CountInv
    OBVIOUS
  <2>1. DOMAIN retired = {} /\ evicted = [s \in Statuses |-> 0]
    BY DEF Init
  <2>2. QED BY <2>1, FS_EmptySet DEF CountInv, EvictedSum, Statuses, Open, Settled
<1>2. IInv /\ CountInv /\ [Next]_vars => CountInv'
  <2> SUFFICES ASSUME IInv, CountInv, [Next]_vars PROVE CountInv'
    OBVIOUS
  <2>1. ASSUME NEW i \in Ids, Insert(i) PROVE CountInv'
    <3>1. CASE Enters(i)
      BY <3>1 DEF CountInv, EvictedSum, Enters
    <3>2. CASE Replaces(i, order[1])
      <4> DEFINE oldest == order[1]
                 st     == EvictedAs(records[oldest])
      <4>1. /\ oldest \in DOMAIN records /\ records[oldest] \in Record
            /\ oldest \notin DOMAIN retired
            /\ evicted' = [evicted EXCEPT ![st] = @ + 1]
            /\ DOMAIN retired' = DOMAIN retired \cup {oldest}
        BY <3>2 DEF Replaces, IInv, TypeOK, Disjoint
      <4>2. st \in Statuses
        BY <4>1, EvictedAsFacts
      <4> HIDE DEF oldest, st
      <4>3. EvictedSum' = EvictedSum + 1
        <5>1. evicted \in [Statuses -> Nat]
          BY DEF IInv, TypeOK
        <5>2. QED BY <4>1, <4>2, <5>1 DEF EvictedSum, Statuses, Open, Settled
      <4>4. /\ IsFiniteSet(DOMAIN retired')
            /\ Cardinality(DOMAIN retired') = Cardinality(DOMAIN retired) + 1
        BY <4>1, FS_AddElement DEF CountInv
      <4>5. QED BY <4>3, <4>4 DEF CountInv
    <3>3. QED BY <2>1, <3>1, <3>2, InsertFacts
  <2>2. CASE DOMAIN records' = DOMAIN records /\ UNCHANGED <<order, evicted, retired>>
    BY <2>2 DEF CountInv, EvictedSum
  <2>3. QED BY <2>1, <2>2, OthersKeepTable
<1>3. QED BY <1>1, <1>2, Invariance, PTL DEF Spec

(* What a total counts among the records kept. *)
KeptAs(s) == {i \in DOMAIN records : Expired(records[i]).status = s}

LEMMA KeptAsFacts ==
  ASSUME IInv, TableInv
  PROVE  /\ \A s \in Statuses : IsFiniteSet(KeptAs(s)) /\ Cardinality(KeptAs(s)) \in Nat
         /\ Cardinality(DOMAIN records)
              = Cardinality(KeptAs("pending")) + Cardinality(KeptAs("approved"))
                + Cardinality(KeptAs("rejected")) + Cardinality(KeptAs("expired"))
                + Cardinality(KeptAs("consumed"))
<1> DEFINE S  == DOMAIN records
           st == [i \in S |-> Expired(records[i]).status]
<1>1. \A i \in S : Expired(records[i]).status \in Statuses
  <2> TAKE i \in S
  <2>1. records[i] \in Record
    BY DEF IInv, TypeOK
  <2>2. QED BY <2>1, ExpiredFacts DEF Record
<1>2. st \in [S -> Statuses]
  BY <1>1
<1>3. \A s : KeptAs(s) = {i \in S : st[i] = s}
  BY DEF KeptAs
<1>4. IsFiniteSet(S)
  BY DEF TableInv
<1> HIDE DEF S, st
<1>5. /\ \A s \in Statuses : /\ IsFiniteSet({i \in S : st[i] = s})
                             /\ Cardinality({i \in S : st[i] = s}) \in Nat
      /\ Cardinality(S) = Cardinality({i \in S : st[i] = "pending"})
                          + Cardinality({i \in S : st[i] = "approved"})
                          + Cardinality({i \in S : st[i] = "rejected"})
                          + Cardinality({i \in S : st[i] = "expired"})
                          + Cardinality({i \in S : st[i] = "consumed"})
  BY <1>2, <1>4, Partition
<1>6. QED BY <1>3, <1>5 DEF S

(* approvals.ApprovalStore.counts: every approval ever inserted is in      *)
(* exactly one of the five totals, kept or evicted.                        *)
THEOREM EachCountedOnce == Spec => []EveryApprovalCounted
<1>1. IInv /\ TableInv /\ CountInv => EveryApprovalCounted
  <2> SUFFICES ASSUME IInv, TableInv, CountInv PROVE EveryApprovalCounted
    OBVIOUS
  <2>1. Cardinality(DOMAIN records \cup DOMAIN retired)
          = Cardinality(DOMAIN records) + Cardinality(DOMAIN retired)
    <3>1. /\ IsFiniteSet(DOMAIN records) /\ IsFiniteSet(DOMAIN retired)
          /\ DOMAIN records \cap DOMAIN retired = {}
      BY DEF TableInv, CountInv, IInv, Disjoint
    <3>2. QED BY <3>1, DisjointUnion
  <2>2. \A s \in Statuses : /\ Total(s) = evicted[s] + Cardinality(KeptAs(s))
                            /\ evicted[s] \in Nat /\ Cardinality(KeptAs(s)) \in Nat
    BY KeptAsFacts DEF Total, KeptAs, IInv, TypeOK
  <2>3. /\ "pending" \in Statuses /\ "approved" \in Statuses /\ "rejected" \in Statuses
        /\ "expired" \in Statuses /\ "consumed" \in Statuses
    BY DEF Statuses, Open, Settled
  <2>4. Total("pending") + Total("approved") + Total("rejected") + Total("expired")
          + Total("consumed") = EvictedSum + Cardinality(DOMAIN records)
    BY <2>2, <2>3, KeptAsFacts DEF EvictedSum
  <2>5. Cardinality(DOMAIN retired) \in Nat /\ Cardinality(DOMAIN records) \in Nat
    BY FS_CardinalityType DEF TableInv, CountInv
  <2>6. QED BY <2>1, <2>4, <2>5 DEF EveryApprovalCounted, CountInv
<1>2. QED BY <1>1, Invariance, TableInvariance, CountInvariance, PTL

(* A settled life is over. *)
LEMMA SettledIsOver ==
  ASSUME NEW a, NEW b, a.status \in Settled, Lifecycle!Evolves(a, b)
  PROVE  b = a
<1>1. ~Lifecycle!IsRequested(a, b)
  <2>1. Lifecycle!Unused.status = "unused"
    BY DEF Lifecycle!Unused
  <2>2. QED BY <2>1 DEF Lifecycle!IsRequested, Settled
<1>2. ~Lifecycle!IsAdjudicated(a, b)
  <2>1. a.status # "pending"
    BY DEF Settled
  <2>2. QED BY <2>1, Zenon DEF Lifecycle!IsAdjudicated
<1>3. ~Lifecycle!IsGivenUp(a, b)
  <2>1. a.status \notin Lifecycle!Open
    BY DEF Settled, Lifecycle!Open
  <2>2. QED BY <2>1, Zenon DEF Lifecycle!IsGivenUp
<1>4. ~Lifecycle!IsSpent(a, b)
  <2>1. a.status # "approved"
    BY DEF Settled
  <2>2. QED BY <2>1, Zenon DEF Lifecycle!IsSpent
<1>5. QED BY <1>1, <1>2, <1>3, <1>4, Zenon DEF Lifecycle!Evolves

(* A settled record stays counted where it is, as long as it is kept. *)
LEMMA SettledStays ==
  ASSUME IInv, [Next]_vars, NEW s \in Settled, NEW j \in KeptAs(s), j \in DOMAIN records'
  PROVE  j \in KeptAs(s)'
<1>1. j \in DOMAIN records /\ j \in Ids /\ Expired(records[j]).status = s
  BY DEF KeptAs, IInv, TypeOK
<1>2. Life(j) = LifeOf(Expired(records[j]), grants[j])
      /\ Life(j)' = LifeOf(Expired(records[j])', grants'[j])
  BY <1>1, LifeFacts, LifeFactsPrimed
<1>3. Life(j).status = s /\ Life(j)'.status = Expired(records[j])'.status
  BY <1>1, <1>2 DEF LifeOf
<1>4. Lifecycle!Evolves(Life(j), Life(j)')
  BY <1>1, StepEvolves
<1>5. Life(j)' = Life(j)
  <2> DEFINE a == Life(j)
             b == Life(j)'
  <2>1. a.status \in Settled /\ Lifecycle!Evolves(a, b)
    BY <1>3, <1>4
  <2> HIDE DEF a, b
  <2>2. b = a
    BY <2>1, SettledIsOver
  <2>3. QED BY <2>2 DEF a, b
<1>6. Expired(records[j])'.status = s
  BY <1>3, <1>5
<1>7. QED BY <1>6 DEF KeptAs

(* approvals.py:55: the totals of settled approvals never go backwards,    *)
(* whatever expires, is looked up or is evicted.                           *)
THEOREM TotalsOnlyGrow == Spec => TotalsNeverGoBackwards
<1>1. IInv /\ TableInv /\ IInv' /\ TableInv' /\ [Next]_vars
        => [\A s \in Settled : Total(s)' >= Total(s)]_vars
  <2> SUFFICES ASSUME IInv, TableInv, IInv', TableInv', [Next]_vars, NEW s \in Settled
               PROVE  Total(s)' >= Total(s)
    OBVIOUS
  <2> DEFINE K == KeptAs(s)
             L == KeptAs(s)'
  <2>1. s \in Statuses
    BY DEF Statuses
  <2>2. /\ Total(s) = evicted[s] + Cardinality(K) /\ Total(s)' = evicted'[s] + Cardinality(L)
        /\ evicted[s] \in Nat
    BY <2>1 DEF Total, KeptAs, IInv, TypeOK
  <2>3. IsFiniteSet(K) /\ Cardinality(K) \in Nat
    BY <2>1, KeptAsFacts
  <2>4. IsFiniteSet(L) /\ Cardinality(L) \in Nat
    <3>1. IsFiniteSet(DOMAIN records') /\ L \in SUBSET DOMAIN records'
      BY DEF TableInv, KeptAs
    <3> HIDE DEF L
    <3>2. IsFiniteSet(L)
      BY <3>1, FS_Subset
    <3>3. QED BY <3>2, FS_CardinalityType
  <2>5. \A j \in K : j \in DOMAIN records' => j \in L
    BY SettledStays
  <2>6. K \subseteq DOMAIN records
    BY DEF KeptAs
  <2>7. ASSUME NEW i \in Ids, Replaces(i, order[1]) PROVE Total(s)' >= Total(s)
    <3> DEFINE oldest == order[1]
               e      == Expired(records[oldest])
               st     == EvictedAs(records[oldest])
    <3>1. /\ DOMAIN records \ {oldest} \subseteq DOMAIN records'
          /\ evicted' = [evicted EXCEPT ![st] = @ + 1]
          /\ oldest \in DOMAIN records /\ records[oldest] \in Record
      BY <2>7 DEF Replaces, IInv, TypeOK
    <3>2. K \ {oldest} \subseteq L
      BY <2>5, <2>6, <3>1
    <3>3. st \in Statuses /\ (oldest \in K => st = s)
      BY <3>1, EvictedAsFacts DEF EvictedAs, KeptAs, Settled, Open
    <3>4. /\ evicted'[s] = IF st = s THEN evicted[s] + 1 ELSE evicted[s]
      BY <2>1, <3>1, <3>3 DEF IInv, TypeOK
    <3> HIDE DEF K, L, oldest, e, st
    <3>5. Cardinality(K \ {oldest}) = IF oldest \in K THEN Cardinality(K) - 1 ELSE Cardinality(K)
      BY <2>3, FS_RemoveElement
    <3>6. Cardinality(K \ {oldest}) <= Cardinality(L)
      BY <2>4, <3>2, FS_Subset
    <3>7. QED BY <2>2, <2>3, <2>4, <3>3, <3>4, <3>5, <3>6
  <2>8. CASE DOMAIN records \subseteq DOMAIN records' /\ evicted' = evicted
    <3>1. K \subseteq L
      BY <2>5, <2>6, <2>8
    <3> HIDE DEF K, L
    <3>2. Cardinality(K) <= Cardinality(L)
      BY <2>4, <3>1, FS_Subset
    <3>3. QED BY <2>2, <2>3, <2>4, <2>8, <3>2
  <2>9. ASSUME NEW i \in Ids, Insert(i) PROVE Total(s)' >= Total(s)
    <3>1. CASE Enters(i)
      BY <2>8, <3>1 DEF Enters
    <3>2. QED BY <2>7, <2>9, <3>1, InsertFacts
  <2>10. QED BY <2>8, <2>9, OthersKeepTable
<1>2. QED BY <1>1, Invariance, TableInvariance, PTL DEF Spec, TotalsNeverGoBackwards
=============================================================================
