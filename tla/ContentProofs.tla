--------------------------- MODULE ContentProofs ---------------------------
(***************************************************************************)
(* The way of a content: the gates before it is judged (ContentGateway)    *)
(* and the judgement itself (Inspection), for any threads, callers and     *)
(* limits, texts of any length, and any windows and rules.                 *)
(*                                                                         *)
(* The quota: what a caller took has a place in one of its own windows;    *)
(* those start a window's length apart, and the delays bound how far they  *)
(* are from the start of the tenant's.  The lockout: a violation past the  *)
(* threshold is one that a request already past the check could still      *)
(* record, and there is one fewer of these after it.                       *)
(*                                                                         *)
(* The judgement: the invariant says only that the call at hand was made   *)
(* and decided as it can be; the rest is about what the operators compute. *)
(* Loops (the merging of values, the steps of a path, sorting) are argued  *)
(* by their first wrong turn: a set of numbers that is not empty has a     *)
(* least element.                                                          *)
(***************************************************************************)
EXTENDS ContentGateway, Inspection, FunctionTheorems, FiniteSetTheorems, SequenceTheorems,
        WellFoundedInduction, TLAPS

Pcs == {"identity", "tenant", "lockout", "judge", "record", "conclude"}

Working ==
  [pc : Pcs, caller : Callers, since : Nat, docs : 0..MaxDocs, remaining : Int, pass : Nat \X Nat]

Jobs == {Idle} \cup Working

Counters(K) == [key : K, started : Nat, count : Nat]

Types ==
  /\ clock \in Nat
  /\ thread \in [Threads -> Jobs]
  /\ identities \in Seq(Counters(Callers)) /\ tenants \in Seq(Counters({Tenant}))
  /\ violations \in Seq(Counters(Callers))
  /\ share \in [Callers -> Nat] /\ strikes \in [Callers -> Nat]
  /\ passes \in [Callers -> SUBSET (Nat \X Nat)]

Elements(entries) == {entries[k] : k \in 1..Len(entries)}

Distinct(entries) ==
  \A j, k \in 1..Len(entries) : entries[j].key = entries[k].key => j = k

(* No reading of the clock is ahead of it or further behind than MaxDelay. *)
ClockOK ==
  /\ \A th \in Threads :
       thread[th] # Idle => thread[th].since <= clock /\ clock <= thread[th].since + MaxDelay
  /\ \A e \in Elements(identities) : e.started <= clock
  /\ \A e \in Elements(tenants) : e.started <= clock

CountersOK ==
  /\ Distinct(identities) /\ Distinct(tenants) /\ Distinct(violations)
  /\ \A e \in Elements(identities) : e.count >= 1 /\ e.count <= IdentityLimit
  /\ \A e \in Elements(tenants) : e.count >= 1

(* A thread that its caller's quota has let through and its tenant's has   *)
(* not seen yet, and all that the caller's quota has let through since the *)
(* tenant's window began.                                                  *)
Pending(th, c) == thread[th].pc = "tenant" /\ thread[th].caller = c

Made(c) == passes[c] \cup {thread[th].pass : th \in {t \in Threads : Pending(t, c)}}

Apart(p, q) == p[1] = q[1] \/ p[1] + Window <= q[1] \/ q[1] + Window <= p[1]

(* They have places in windows of the caller that do not overlap, none     *)
(* later than its present one.                                             *)
PlacesOK ==
  \A c \in Callers \ forgotten :
    /\ c \notin Keys(identities) => Made(c) = {}
    /\ \A e \in Elements(identities) :
         e.key = c =>
           \A p \in Made(c) :
             /\ p[2] \in 1..IdentityLimit
             /\ \/ p[1] = e.started /\ p[2] <= e.count
                \/ p[1] + Window <= e.started
    /\ \A p, q \in Made(c) : Apart(p, q)
    /\ \A th \in Threads :
         Pending(th, c) =>
           /\ thread[th].pass \notin passes[c]
           /\ \A u \in Threads : Pending(u, c) /\ u # th => thread[u].pass # thread[th].pass

(* When a pending thread was counted, by its place. *)
PendingOK ==
  \A th \in Threads :
    LET job == thread[th] IN
    job.pc = "tenant" =>
      /\ job.pass[1] <= job.since
      /\ job.since < job.pass[1] + Window + MaxDelay
      /\ job.pass[2] = 1 => job.since <= job.pass[1] + MaxDelay

(* How far what was taken is from the start of the tenant's window. *)
TakenOK ==
  /\ \A e \in Elements(tenants), c \in Callers :
       \A p \in passes[c] :
         /\ p[1] < e.started + Window
         /\ e.started < p[1] + 2 * Window
         /\ p[2] = 1 => e.started <= p[1] + Window
  /\ Elements(tenants) = {} => \A c \in Callers : passes[c] = {}

ShareOK ==
  \A c \in Callers :
    /\ IsFiniteSet(passes[c])
    /\ c \notin forgotten => share[c] = Cardinality(passes[c])

(* The violations that requests past the lockout may still add to a window *)
(* that started at a time: one for each document left.                     *)
Docs(job) == IF job.docs = 0 THEN 1 ELSE job.docs

Adds(th, c, started) ==
  LET job == thread[th] IN
  job.pc \in {"judge", "record"} /\ job.caller = c /\ job.since < started + LockWindow

Coming(c, started) ==
  {x \in Threads \X (1..MaxDocs) : Adds(x[1], c, started) /\ x[2] <= Docs(thread[x[1]])}

Ceiling == Threshold - 1 + Cardinality(Threads) * MaxDocs

StrikesOK ==
  \A c \in Callers \ forgotten :
    /\ c \notin Keys(violations) => strikes[c] = 0
    /\ \A e \in Elements(violations) :
         e.key = c =>
           /\ strikes[c] >= 1
           /\ e.count = IF strikes[c] < Threshold THEN strikes[c] ELSE Threshold
           /\ strikes[c] >= Threshold => strikes[c] + Cardinality(Coming(c, e.started)) <= Ceiling

IInv ==
  /\ Types
  /\ ClockOK
  /\ CountersOK
  /\ PlacesOK
  /\ PendingOK
  /\ TakenOK
  /\ ShareOK
  /\ StrikesOK

-----------------------------------------------------------------------------
(* Lemmas on the counters of limits.py *)

LEMMA PlaceFacts ==
  ASSUME NEW S, NEW entries \in Seq(S), NEW key \in Keys(entries)
  PROVE  /\ Place(entries, key) \in 1..Len(entries)
         /\ entries[Place(entries, key)].key = key
BY DEF Place, Keys

LEMMA EntryFacts ==
  ASSUME NEW S, NEW entries \in Seq(S), Distinct(entries), NEW e \in Elements(entries), NEW now
  PROVE  e.key \in Keys(entries) /\ Entry(entries, e.key, now) = e
<1>1. e.key \in Keys(entries)
  BY DEF Elements, Keys
<1>2. QED BY <1>1, PlaceFacts DEF Entry, Elements, Distinct

LEMMA OthersFacts ==
  ASSUME NEW S, NEW entries \in Seq(S), Distinct(entries), NEW key
  PROVE  /\ Others(entries, key) \in Seq(S)
         /\ Distinct(Others(entries, key))
         /\ Elements(Others(entries, key)) = {e \in Elements(entries) : e.key # key}
<1>1. CASE key \notin Keys(entries)
  BY <1>1 DEF Others, Elements, Keys
<1>2. CASE key \in Keys(entries)
  <2> DEFINE k == Place(entries, key)
             n == Len(entries)
             front == SubSeq(entries, 1, k - 1)
             back == SubSeq(entries, k + 1, n)
             rest == front \o back
  <2>1. k \in 1..n /\ entries[k].key = key /\ n \in Nat
    BY <1>2, PlaceFacts
  <2>2. Others(entries, key) = rest
    BY <1>2 DEF Others
  <2> HIDE DEF k
  <2>3. front \in Seq(S) /\ Len(front) = k - 1 /\ \A i \in 1..(k - 1) : front[i] = entries[i]
    BY <2>1, SubSeqProperties
  <2>4. back \in Seq(S) /\ Len(back) = n - k /\ \A i \in 1..(n - k) : back[i] = entries[k + i]
    BY <2>1, SubSeqProperties
  <2> HIDE DEF front, back
  <2>5. /\ rest \in Seq(S) /\ Len(rest) = n - 1
        /\ \A i \in 1..(n - 1) : rest[i] = IF i <= k - 1 THEN front[i] ELSE back[i - (k - 1)]
    <3>1. (k - 1) + (n - k) = n - 1
      BY <2>1
    <3>2. QED BY <2>3, <2>4, <3>1, ConcatProperties
  <2> HIDE DEF rest
  <2>6. ASSUME NEW i \in 1..(n - 1)
        PROVE  rest[i] = IF i < k THEN entries[i] ELSE entries[i + 1]
    <3>1. CASE i < k
      BY <2>1, <2>3, <2>5, <3>1
    <3>2. CASE ~(i < k)
      <4>1. i - (k - 1) \in 1..(n - k) /\ k + (i - (k - 1)) = i + 1
        BY <2>1, <3>2
      <4>2. rest[i] = back[i - (k - 1)]
        BY <2>1, <2>5, <3>2
      <4>3. back[i - (k - 1)] = entries[k + (i - (k - 1))]
        BY <2>4, <4>1
      <4>4. rest[i] = entries[i + 1]
        BY Zenon, <4>1, <4>2, <4>3
      <4>5. QED BY <3>2, <4>4
    <3>3. QED BY <3>1, <3>2
  <2> DEFINE at(i) == IF i < k THEN i ELSE i + 1
  <2>7. \A i \in 1..(n - 1) : at(i) \in 1..n /\ at(i) # k /\ rest[i] = entries[at(i)]
    <3> SUFFICES ASSUME NEW i \in 1..(n - 1)
                 PROVE  at(i) \in 1..n /\ at(i) # k /\ rest[i] = entries[at(i)]
      OBVIOUS
    <3>1. CASE i < k
      BY <2>1, <2>6, <3>1
    <3>2. CASE ~(i < k)
      BY <2>1, <2>6, <3>2
    <3>3. QED BY <3>1, <3>2
  <2>8. \A i \in 1..n : i # k => \E j \in 1..(n - 1) : i = at(j)
    <3> SUFFICES ASSUME NEW i \in 1..n, i # k PROVE \E j \in 1..(n - 1) : i = at(j)
      OBVIOUS
    <3>1. CASE i < k
      BY <2>1, <3>1
    <3>2. CASE i > k
      <4>1. i - 1 \in 1..(n - 1) /\ at(i - 1) = i
        BY <2>1, <3>2
      <4>2. QED BY <4>1
    <3>3. QED BY <2>1, <3>1, <3>2
  <2>9. \A i, j \in 1..(n - 1) : at(i) = at(j) => i = j
    BY <2>1
  <2> HIDE DEF at
  <2>10. Distinct(rest)
    BY <2>5, <2>7, <2>9 DEF Distinct
  <2>11. \A i \in 1..n : entries[i].key = key => i = k
    BY <2>1 DEF Distinct
  <2>12. Elements(rest) \subseteq {e \in Elements(entries) : e.key # key}
    <3> SUFFICES ASSUME NEW i \in 1..(n - 1)
                 PROVE  rest[i] \in Elements(entries) /\ rest[i].key # key
      BY <2>5 DEF Elements
    <3>1. PICK j \in 1..n : j # k /\ rest[i] = entries[j]
      BY <2>7
    <3>2. QED BY <2>11, <3>1 DEF Elements
  <2>13. {e \in Elements(entries) : e.key # key} \subseteq Elements(rest)
    <3> SUFFICES ASSUME NEW i \in 1..n, entries[i].key # key
                 PROVE  entries[i] \in Elements(rest)
      BY DEF Elements
    <3>1. PICK j \in 1..(n - 1) : i = at(j)
      BY <2>1, <2>8
    <3>2. QED BY <2>5, <2>7, <3>1 DEF Elements
  <2>14. QED BY <2>2, <2>5, <2>10, <2>12, <2>13
<1>3. QED BY <1>1, <1>2

(* The lists hold one entry a key, so two places with the same key are the *)
(* same place.                                                             *)
LEMMA SameKey ==
  ASSUME NEW entries, Distinct(entries),
         NEW a \in 1..Len(entries), NEW b \in 1..Len(entries),
         entries[a].key = entries[b].key
  PROVE  a = b
BY DEF Distinct

(* Storing an entry keeps the keys distinct, keeps that entry, and brings  *)
(* no other; an entry that leaves with it leaves with its key.             *)
LEMMA StoredFacts ==
  ASSUME NEW S, NEW entries \in Seq(S), Distinct(entries), NEW e \in S
  PROVE  /\ Stored(entries, e) \in Seq(S)
         /\ Distinct(Stored(entries, e))
         /\ e \in Elements(Stored(entries, e))
         /\ \A f \in Elements(Stored(entries, e)) :
              f = e \/ (f \in Elements(entries) /\ f.key # e.key)
<1> DEFINE others == Others(entries, e.key)
           grown  == Append(others, e)
           n      == Len(others)
<1>1. /\ others \in Seq(S) /\ Distinct(others) /\ n \in Nat
      /\ Elements(others) = {f \in Elements(entries) : f.key # e.key}
  BY OthersFacts
<1> HIDE DEF others
<1>2. /\ grown \in Seq(S) /\ Len(grown) = n + 1 /\ grown[n + 1] = e
      /\ \A i \in 1..n : grown[i] = others[i]
  BY <1>1, AppendProperties
<1> HIDE DEF grown, n
<1>3. \A i \in 1..n : grown[i] \in Elements(others) /\ grown[i].key # e.key
  BY <1>1, <1>2 DEF Elements, n
<1>4. Distinct(grown)
  <2> SUFFICES ASSUME NEW j \in 1..(n + 1), NEW k \in 1..(n + 1), grown[j].key = grown[k].key
               PROVE  j = k
    BY <1>2 DEF Distinct
  <2>1. CASE j \in 1..n /\ k \in 1..n
    BY <1>1, <1>2, <2>1 DEF Distinct, n
  <2>2. CASE j = n + 1 \/ k = n + 1
    BY <1>1, <1>2, <1>3, <2>2
  <2>3. QED BY <1>1, <2>1, <2>2
<1>5. \A i \in 1..(n + 1) : grown[i] = e \/ (grown[i] \in Elements(entries) /\ grown[i].key # e.key)
  BY <1>1, <1>2, <1>3
<1>6. CASE ~(Len(grown) > MaxKeys)
  <2>1. Stored(entries, e) = grown
    BY <1>6 DEF Stored, grown, others
  <2>2. n + 1 \in 1..Len(grown)
    BY <1>1, <1>2
  <2>3. QED BY <1>2, <1>4, <1>5, <2>1, <2>2 DEF Elements
<1>7. CASE Len(grown) > MaxKeys
  <2> DEFINE kept == Tail(grown)
  <2>1. Stored(entries, e) = kept
    BY <1>7 DEF Stored, grown, others
  <2>2. n >= 1
    BY <1>1, <1>2, <1>7, MaxKeysAssumption
  <2>3. kept \in Seq(S) /\ Len(kept) = n /\ \A i \in 1..n : kept[i] = grown[i + 1]
    <3>1. grown # << >> /\ Len(grown) - 1 = n
      BY <1>1, <1>2
    <3>2. /\ kept \in Seq(S) /\ Len(kept) = Len(grown) - 1
          /\ \A i \in 1..Len(kept) : kept[i] = grown[i + 1]
      BY <1>2, <3>1, HeadTailProperties
    <3>3. QED BY <3>1, <3>2
  <2> HIDE DEF kept
  <2>4. \A i \in 1..n : i + 1 \in 1..(n + 1)
    BY <1>1
  <2>5. Distinct(kept)
    <3> SUFFICES ASSUME NEW j \in 1..n, NEW k \in 1..n, kept[j].key = kept[k].key
                 PROVE  j = k
      BY <2>3 DEF Distinct
    <3>1. kept[j] = grown[j + 1] /\ kept[k] = grown[k + 1]
      BY <2>3
    <3>2. grown[j + 1].key = grown[k + 1].key
      BY <3>1
    <3>3. j + 1 \in 1..Len(grown) /\ k + 1 \in 1..Len(grown)
      BY <1>2, <2>4
    <3>4. PICK a \in 1..Len(grown), b \in 1..Len(grown) : a = j + 1 /\ b = k + 1
      BY <3>3
    <3>5. grown[a].key = grown[b].key
      BY <3>2, <3>4
    <3>6. a = b
      BY <1>4, <3>5, SameKey
    <3>7. QED BY <3>4, <3>6
  <2>6. n \in 1..n /\ kept[n] = e
    BY <1>1, <1>2, <2>2, <2>3
  <2>7. \A f \in Elements(kept) : f = e \/ (f \in Elements(entries) /\ f.key # e.key)
    <3> SUFFICES ASSUME NEW i \in 1..n
                 PROVE  kept[i] = e \/ (kept[i] \in Elements(entries) /\ kept[i].key # e.key)
      BY <2>3 DEF Elements
    <3>1. kept[i] = grown[i + 1] /\ i + 1 \in 1..(n + 1)
      BY <2>3, <2>4
    <3>2. QED BY <1>5, <3>1
  <2>8. e \in Elements(kept)
    BY <2>3, <2>6 DEF Elements
  <2>9. QED BY <2>1, <2>3, <2>5, <2>7, <2>8
<1>8. QED BY <1>6, <1>7

LEMMA KeysFacts ==
  ASSUME NEW entries
  PROVE  Keys(entries) = {e.key : e \in Elements(entries)}
BY DEF Keys, Elements

LEMMA ElementsTyped ==
  ASSUME NEW S, NEW entries \in Seq(S)
  PROVE  Elements(entries) \subseteq S
BY ElementOfSeq DEF Elements

(* The entry to count in is the one of the key, in its window, or a new    *)
(* one because there is none or its window is over.                        *)
LEMMA CurrentFacts ==
  ASSUME NEW K, NEW entries \in Seq(Counters(K)), Distinct(entries), NEW key \in K,
         NEW now \in Nat, NEW window \in Nat \ {0}
  PROVE  LET e == Current(entries, key, now, window) IN
         /\ e \in Counters(K) /\ e.key = key
         /\ \/ e \in Elements(entries) /\ now - e.started < window
            \/ /\ e.started = now /\ e.count = 0
               /\ \A f \in Elements(entries) : f.key = key => now - f.started >= window
<1> DEFINE blank == [key |-> key, started |-> now, count |-> 0]
           held == Entry(entries, key, now)
           e == Current(entries, key, now, window)
<1>1. e = IF now - held.started >= window THEN blank ELSE held
  BY DEF Current
<1>2. blank \in Counters(K) /\ blank.key = key /\ blank.started = now /\ blank.count = 0
  BY DEF Counters
<1>3. CASE key \notin Keys(entries)
  <2>1. held = blank
    BY <1>3 DEF Entry
  <2>2. e = blank
    BY <1>1, <2>1
  <2>3. \A f \in Elements(entries) : f.key # key
    BY <1>3, KeysFacts
  <2> HIDE DEF e, blank
  <2>4. QED BY <1>2, <2>2, <2>3 DEF e
<1>4. CASE key \in Keys(entries)
  <2>1. PICK g \in Elements(entries) : g.key = key
    BY <1>4, KeysFacts
  <2>2. held = g /\ g \in Counters(K)
    BY <2>1, EntryFacts, ElementsTyped
  <2>3. \A f \in Elements(entries) : f.key = key => f = g
    BY <2>1 DEF Elements, Distinct
  <2>4. g.started \in Nat
    BY <2>2 DEF Counters
  <2> HIDE DEF e, blank, held
  <2>5. CASE now - g.started >= window
    <3>1. e = blank
      BY <1>1, <2>2, <2>5
    <3>2. QED BY <1>2, <2>3, <2>5, <3>1 DEF e
  <2>6. CASE ~(now - g.started >= window)
    <3>1. e = g /\ now - g.started < window
      BY <1>1, <2>2, <2>4, <2>6
    <3>2. QED BY <2>1, <2>2, <3>1 DEF e
  <2>7. QED BY <2>5, <2>6
<1>5. QED BY <1>3, <1>4

LEMMA WithCount ==
  ASSUME NEW K, NEW e \in Counters(K), NEW n \in Nat
  PROVE  [e EXCEPT !.count = n] = [key |-> e.key, started |-> e.started, count |-> n]
BY DEF Counters

(* A request that is counted is stored, one that is refused changes no     *)
(* entry.                                                                  *)
LEMMA AllowFacts ==
  ASSUME NEW K, NEW entries \in Seq(Counters(K)), Distinct(entries), NEW key \in K,
         NEW now \in Nat, NEW window \in Nat \ {0}, NEW limit \in Nat \ {0},
         WithinLimit(entries, key, now, window, limit)
  PROVE  LET e == Current(entries, key, now, window)
         IN Allow(entries, key, now, window, limit) =
              Stored(entries, [key |-> key, started |-> e.started, count |-> e.count + 1])
<1> DEFINE e == Current(entries, key, now, window)
<1>1. e \in Counters(K) /\ e.key = key
  BY CurrentFacts
<1>2. Allow(entries, key, now, window, limit) = Stored(entries, [e EXCEPT !.count = e.count + 1])
  BY DEF Allow
<1>3. e.count + 1 \in Nat
  BY <1>1 DEF Counters
<1> HIDE DEF e
<1>4. [e EXCEPT !.count = e.count + 1] =
        [key |-> key, started |-> e.started, count |-> e.count + 1]
  BY <1>1, <1>3, WithCount
<1>5. QED BY <1>2, <1>4 DEF e

LEMMA RefusedFacts ==
  ASSUME NEW K, NEW entries \in Seq(Counters(K)), Distinct(entries), NEW key \in K,
         NEW now \in Nat, NEW window \in Nat \ {0}, NEW limit \in Nat \ {0},
         ~WithinLimit(entries, key, now, window, limit), NEW after,
         after = Allow(entries, key, now, window, limit)
  PROVE  after \in Seq(Counters(K)) /\ Distinct(after) /\ Elements(after) = Elements(entries)
<1> DEFINE e == Current(entries, key, now, window)
           others == Others(entries, key)
           held == Entry(entries, key, now)
<1>1. /\ e \in Counters(K) /\ e.key = key
      /\ \/ e \in Elements(entries) /\ now - e.started < window
         \/ e.started = now /\ e.count = 0
  BY CurrentFacts
<1>2. after = Append(others, held)
  BY DEF Allow
<1>3. ~(e.count < limit)
  BY DEF WithinLimit
<1> HIDE DEF e
<1>4. e.count \in Nat /\ e \in Elements(entries)
  BY <1>1, <1>3 DEF Counters
<1>5. held = e
  BY <1>1, <1>4, EntryFacts
<1>6. /\ others \in Seq(Counters(K)) /\ Distinct(others)
      /\ Elements(others) = {f \in Elements(entries) : f.key # key}
  BY OthersFacts
<1>7. after = Append(others, e)
  BY <1>2, <1>5
<1> DEFINE n == Len(others)
<1> HIDE DEF others, held
<1>8. /\ after \in Seq(Counters(K)) /\ Len(after) = n + 1 /\ after[n + 1] = e /\ n \in Nat
      /\ \A i \in 1..n : after[i] = others[i]
  BY <1>1, <1>6, <1>7, AppendProperties
<1>9. \A i \in 1..n : after[i] \in Elements(others) /\ after[i].key # key
  BY <1>6, <1>8 DEF Elements
<1>10. Distinct(after)
  <2> SUFFICES ASSUME NEW i \in 1..(n + 1), NEW j \in 1..(n + 1), after[i].key = after[j].key
               PROVE  i = j
    BY <1>8 DEF Distinct
  <2>1. CASE i \in 1..n /\ j \in 1..n
    BY <1>6, <1>8, <2>1 DEF Distinct
  <2>2. CASE i = n + 1 \/ j = n + 1
    BY <1>1, <1>8, <1>9, <2>2
  <2>3. QED BY <1>8, <2>1, <2>2
<1>11. Elements(after) = Elements(others) \cup {e}
  <2>1. n + 1 \in 1..(n + 1) /\ \A i \in 1..n : i \in 1..(n + 1)
    BY <1>8
  <2>2. \A i \in 1..(n + 1) : i \in 1..n \/ i = n + 1
    BY <1>8
  <2>3. Elements(after) \subseteq Elements(others) \cup {e}
    BY <1>8, <1>9, <2>2 DEF Elements
  <2>4. e \in Elements(after)
    BY <1>8, <2>1 DEF Elements
  <2>5. Elements(others) \subseteq Elements(after)
    BY <1>8, <2>1 DEF Elements
  <2>6. QED BY <2>3, <2>4, <2>5
<1>12. \A f \in Elements(entries) : f.key = key => f = e
  BY <1>1, <1>4 DEF Elements, Distinct
<1>13. Elements(after) = Elements(entries)
  BY <1>1, <1>4, <1>6, <1>11, <1>12
<1>14. QED BY <1>8, <1>10, <1>13

LEMMA RecordFacts ==
  ASSUME NEW K, NEW entries \in Seq(Counters(K)), Distinct(entries), NEW key \in K,
         NEW now \in Nat, NEW window \in Nat \ {0}, NEW threshold \in Nat \ {0}
  PROVE  LET e == Current(entries, key, now, window)
         IN Record(entries, key, now, window, threshold) =
              Stored(entries, [key |-> key, started |-> e.started,
                               count |-> IF e.count + 1 < threshold THEN e.count + 1
                                         ELSE threshold])
<1> DEFINE e == Current(entries, key, now, window)
           n == IF e.count + 1 < threshold THEN e.count + 1 ELSE threshold
<1>1. e \in Counters(K) /\ e.key = key
  BY CurrentFacts
<1>2. Record(entries, key, now, window, threshold) = Stored(entries, [e EXCEPT !.count = n])
  BY DEF Record
<1>3. n \in Nat
  BY <1>1 DEF Counters
<1> HIDE DEF e, n
<1>4. [e EXCEPT !.count = n] = [key |-> key, started |-> e.started, count |-> n]
  BY <1>1, <1>3, WithCount
<1>5. QED BY <1>2, <1>4 DEF e, n

(* The keys that storing an entry does not lose keep their entries. *)
LEMMA StoredOthers ==
  ASSUME NEW K, NEW entries \in Seq(Counters(K)), Distinct(entries), NEW g \in Counters(K),
         NEW key, key # g.key, key \notin Keys(entries) \ Keys(Stored(entries, g))
  PROVE  /\ key \in Keys(Stored(entries, g)) <=> key \in Keys(entries)
         /\ \A e \in Elements(Stored(entries, g)) : e.key = key => e \in Elements(entries)
<1>1. \A f \in Elements(Stored(entries, g)) :
        f = g \/ (f \in Elements(entries) /\ f.key # g.key)
  BY StoredFacts
<1>2. key \in Keys(Stored(entries, g)) => key \in Keys(entries)
  BY <1>1, KeysFacts
<1>3. QED BY <1>1, <1>2

-----------------------------------------------------------------------------
(* Lemmas on the threads and the sets they make *)

LEMMA JobKinds ==
  ASSUME NEW job \in Jobs
  PROVE  /\ job # Idle <=> job \in Working
         /\ job # Idle <=> job.pc \in Pcs
         /\ job = Idle <=> job.pc = "idle"
BY DEF Jobs, Idle, Working, Pcs

LEMMA NewJob ==
  ASSUME Types, NEW th \in Threads, NEW job \in Jobs, thread' = [thread EXCEPT ![th] = job]
  PROVE  /\ thread' \in [Threads -> Jobs]
         /\ thread'[th] = job
         /\ \A u \in Threads : u # th => thread'[u] = thread[u]
BY DEF Types

LEMMA WithPass ==
  ASSUME NEW job \in Working, NEW pass \in Nat \X Nat
  PROVE  LET after == [job EXCEPT !.pass = pass] IN
         /\ after \in Working /\ after.pc = job.pc /\ after.caller = job.caller
         /\ after.since = job.since /\ after.docs = job.docs /\ after.pass = pass
BY DEF Working

LEMMA WithPc ==
  ASSUME NEW job \in Working, NEW pc \in Pcs
  PROVE  LET after == [job EXCEPT !.pc = pc] IN
         /\ after \in Working /\ after.pc = pc /\ after.caller = job.caller
         /\ after.since = job.since /\ after.docs = job.docs /\ after.pass = job.pass
         /\ after.remaining = job.remaining
BY DEF Working

LEMMA WithSince ==
  ASSUME NEW job \in Working, NEW since \in Nat
  PROVE  LET after == [job EXCEPT !.since = since] IN
         /\ after \in Working /\ after.pc = job.pc /\ after.caller = job.caller
         /\ after.since = since /\ after.docs = job.docs /\ after.pass = job.pass
         /\ after.remaining = job.remaining
BY DEF Working

LEMMA WithDocs ==
  ASSUME NEW job \in Working, NEW docs \in 0..MaxDocs
  PROVE  LET after == [job EXCEPT !.docs = docs] IN
         /\ after \in Working /\ after.pc = job.pc /\ after.caller = job.caller
         /\ after.since = job.since /\ after.docs = docs /\ after.pass = job.pass
         /\ after.remaining = job.remaining
BY DEF Working

LEMMA MovedFacts ==
  ASSUME Types, NEW job \in Working, NEW pc \in Pcs
  PROVE  LET after == Moved(job, pc) IN
         /\ after \in Working /\ after.pc = pc /\ after.caller = job.caller
         /\ after.since = clock /\ after.docs = job.docs /\ after.pass = job.pass
<1> DEFINE first == [job EXCEPT !.pc = pc]
<1>1. clock \in Nat
  BY DEF Types
<1>2. /\ first \in Working /\ first.pc = pc /\ first.caller = job.caller
      /\ first.docs = job.docs /\ first.pass = job.pass
  BY WithPc
<1>3. Moved(job, pc) = [first EXCEPT !.since = clock]
  BY DEF Moved
<1> HIDE DEF first
<1>4. QED BY <1>1, <1>2, <1>3, WithSince

(* The document after one of a batch. *)
LEMMA NextDocumentFacts ==
  ASSUME Types, NEW job \in Working, job.docs > 0, NEW size \in Nat
  PROVE  LET after == NextDocument(job, size) IN
         /\ after \in Working /\ after.pc \in {"judge", "conclude"}
         /\ after.caller = job.caller /\ after.since = clock /\ after.docs = job.docs - 1
         /\ after.pc = "judge" => job.docs > 1
<1> DEFINE pc == IF job.docs > 1 THEN "judge" ELSE "conclude"
           first == [job EXCEPT !.pc = pc]
           second == [first EXCEPT !.since = clock]
           third == [second EXCEPT !.docs = job.docs - 1]
           last == [third EXCEPT !.remaining = job.remaining - size]
<1>1. /\ clock \in Nat /\ job.docs - 1 \in 0..MaxDocs /\ pc \in Pcs
      /\ job.remaining - size \in Int
  <2>1. clock \in Nat /\ job.docs \in 0..MaxDocs /\ job.remaining \in Int
    BY DEF Types, Working
  <2>2. pc \in Pcs
    BY DEF Pcs
  <2>3. QED BY <2>1, <2>2, DocsAssumption
<1>2. NextDocument(job, size) = last
  BY DEF NextDocument, Working
<1>3. pc \in {"judge", "conclude"} /\ (pc = "judge" => job.docs > 1)
  OBVIOUS
<1> HIDE DEF pc
<1>4. /\ first \in Working /\ first.pc = pc /\ first.caller = job.caller
      /\ first.docs = job.docs /\ first.remaining = job.remaining
  BY <1>1, WithPc
<1> HIDE DEF first
<1>5. /\ second \in Working /\ second.pc = pc /\ second.caller = job.caller
      /\ second.since = clock
  BY <1>1, <1>4, WithSince
<1> HIDE DEF second
<1>6. /\ third \in Working /\ third.pc = pc /\ third.caller = job.caller
      /\ third.since = clock /\ third.docs = job.docs - 1
  BY <1>1, <1>5, WithDocs
<1> HIDE DEF third
<1>7. /\ last \in Working /\ last.pc = pc /\ last.caller = job.caller
      /\ last.since = clock /\ last.docs = job.docs - 1
  BY <1>1, <1>6 DEF Working
<1>8. QED BY <1>2, <1>3, <1>7

(* Pairs of a thread and a document are as many as that. *)
LEMMA PairsFacts ==
  ASSUME NEW C, C \subseteq Threads \X (1..MaxDocs)
  PROVE  /\ IsFiniteSet(C) /\ Cardinality(C) \in Nat /\ Ceiling \in Int
         /\ Threshold - 1 + Cardinality(C) <= Ceiling
         /\ \A y \in Threads \X (1..MaxDocs) : y \notin C => Threshold + Cardinality(C) <= Ceiling
<1> DEFINE all == Threads \X (1..MaxDocs)
           size == Cardinality(Threads) * MaxDocs
<1>1. Cardinality(Threads) \in Nat /\ MaxDocs \in Nat \ {0} /\ Threshold \in Nat
  BY ThreadsAssumption, DocsAssumption, LimitsAssumption, FS_CardinalityType
<1>2. IsFiniteSet(1..MaxDocs) /\ Cardinality(1..MaxDocs) = MaxDocs
  BY <1>1, FS_Interval
<1>3. IsFiniteSet(all) /\ Cardinality(all) = size
  BY <1>2, ThreadsAssumption, FS_Product
<1>4. size \in Nat
  BY <1>1
<1>5. IsFiniteSet(C) /\ Cardinality(C) <= size /\ Cardinality(C) \in Nat
  BY <1>3, FS_Subset, FS_CardinalityType
<1>6. Ceiling = Threshold - 1 + size
  BY DEF Ceiling
<1> HIDE DEF all, size
<1>7. ASSUME NEW y \in all, y \notin C
      PROVE  Cardinality(C) + 1 <= size
  <2>1. IsFiniteSet(C \cup {y}) /\ Cardinality(C \cup {y}) = Cardinality(C) + 1
    BY <1>5, <1>7, FS_AddElement
  <2>2. C \cup {y} \subseteq all
    BY DEF all
  <2>3. QED BY <1>3, <2>1, <2>2, FS_Subset
<1>8. QED BY <1>1, <1>4, <1>5, <1>6, <1>7 DEF all

LEMMA ComingPairs ==
  ASSUME NEW c, NEW started
  PROVE  Coming(c, started) \subseteq Threads \X (1..MaxDocs)
BY DEF Coming

-----------------------------------------------------------------------------
(* What a step of one thread keeps *)

LEMMA InitIInv == Init => IInv
<1> SUFFICES ASSUME Init PROVE IInv
  OBVIOUS
<1>1. Types
  BY DEF Init, Types, Jobs
<1>2. Elements(identities) = {} /\ Elements(tenants) = {} /\ Elements(violations) = {}
  BY DEF Init, Elements
<1>3. \A th \in Threads : thread[th] = Idle /\ thread[th].pc = "idle"
  BY DEF Init, Idle
<1>4. \A c \in Callers : passes[c] = {} /\ share[c] = 0 /\ strikes[c] = 0
  BY DEF Init
<1>5. \A c \in Callers : Made(c) = {}
  BY <1>3, <1>4 DEF Made, Pending
<1>6. ClockOK /\ PendingOK /\ TakenOK
  BY <1>2, <1>3, <1>4 DEF ClockOK, PendingOK, TakenOK
<1>7. CountersOK
  <2>1. Distinct(identities) /\ Distinct(tenants) /\ Distinct(violations)
    BY DEF Init, Distinct
  <2>2. QED BY <1>2, <2>1 DEF CountersOK
<1>8. PlacesOK
  BY <1>2, <1>3, <1>5 DEF PlacesOK, Pending
<1>9. ShareOK
  BY <1>4, FS_EmptySet DEF ShareOK
<1>10. StrikesOK
  BY <1>2, <1>4 DEF StrikesOK
<1>11. QED BY <1>1, <1>6, <1>7, <1>8, <1>9, <1>10 DEF IInv

LEMMA MoveClock ==
  ASSUME Types, ClockOK, NEW th \in Threads, NEW job \in Jobs,
         thread' = [thread EXCEPT ![th] = job], clock' = clock,
         job # Idle => job.since = clock
  PROVE  \A u \in Threads :
           thread'[u] # Idle => thread'[u].since <= clock' /\ clock' <= thread'[u].since + MaxDelay
<1> SUFFICES ASSUME NEW u \in Threads, thread'[u] # Idle
             PROVE  thread'[u].since <= clock' /\ clock' <= thread'[u].since + MaxDelay
  OBVIOUS
<1>1. CASE u = th
  BY <1>1, NewJob, DelayAssumption DEF Types
<1>2. CASE u # th
  BY <1>2, NewJob DEF ClockOK
<1>3. QED BY <1>1, <1>2

LEMMA MovePending ==
  ASSUME Types, PendingOK, NEW th \in Threads, NEW job \in Jobs,
         thread' = [thread EXCEPT ![th] = job], job.pc # "tenant"
  PROVE  PendingOK'
<1> SUFFICES ASSUME NEW u \in Threads, thread'[u].pc = "tenant"
             PROVE  /\ thread'[u].pass[1] <= thread'[u].since
                    /\ thread'[u].since < thread'[u].pass[1] + Window + MaxDelay
                    /\ thread'[u].pass[2] = 1 => thread'[u].since <= thread'[u].pass[1] + MaxDelay
  BY DEF PendingOK
<1>1. u # th /\ thread'[u] = thread[u]
  BY NewJob
<1>2. QED BY <1>1 DEF PendingOK

LEMMA MovePlaces ==
  ASSUME Types, PlacesOK, NEW th \in Threads, NEW job \in Jobs,
         thread' = [thread EXCEPT ![th] = job], job.pc # "tenant", thread[th].pc # "tenant",
         Elements(identities') = Elements(identities), passes' = passes,
         forgotten \subseteq forgotten'
  PROVE  PlacesOK'
<1>0. /\ Elements(identities)' = Elements(identities) /\ Keys(identities)' = Keys(identities)
  <2>1. Keys(identities') = Keys(identities)
    BY KeysFacts
  <2>2. QED BY <2>1 DEF Keys, Elements
<1>1. \A u \in Threads : thread'[u].pc = "tenant" <=> thread[u].pc = "tenant"
  BY NewJob
<1>2. \A u \in Threads : thread[u].pc = "tenant" => thread'[u] = thread[u]
  BY NewJob
<1>3. ASSUME NEW c
      PROVE  \A u \in Threads : Pending(u, c)' <=> Pending(u, c)
  BY <1>1, <1>2 DEF Pending
<1>4. ASSUME NEW c
      PROVE  Made(c)' = Made(c)
  <2> DEFINE U == {u \in Threads : Pending(u, c)}
  <2>1. U' = U
    BY <1>3
  <2>2. \A u \in U : thread'[u].pass = thread[u].pass
    BY <1>2 DEF Pending
  <2>3. {thread'[u].pass : u \in U'} = {thread[u].pass : u \in U}
    BY <2>1, <2>2
  <2>4. QED BY <2>3 DEF Made
<1> SUFFICES ASSUME NEW c \in Callers, c \notin forgotten
             PROVE  /\ c \notin Keys(identities) => Made(c)' = {}
                    /\ \A e \in Elements(identities) :
                         e.key = c =>
                           \A p \in Made(c)' :
                             /\ p[2] \in 1..IdentityLimit
                             /\ \/ p[1] = e.started /\ p[2] <= e.count
                                \/ p[1] + Window <= e.started
                    /\ \A p, q \in Made(c)' : Apart(p, q)
                    /\ \A u \in Threads :
                         Pending(u, c)' =>
                           /\ thread'[u].pass \notin passes[c]
                           /\ \A v \in Threads :
                                Pending(v, c)' /\ v # u => thread'[v].pass # thread'[u].pass
  BY <1>0 DEF PlacesOK, Apart
<1>5. \A u \in Threads : Pending(u, c) => thread'[u] = thread[u]
  BY <1>2 DEF Pending
<1>6. QED BY <1>3, <1>4, <1>5 DEF PlacesOK

(* A thread that goes on past the lockout has no more to add than before,  *)
(* or its caller is not locked out.                                        *)
LEMMA MoveStrikes ==
  ASSUME Types, StrikesOK, NEW th \in Threads, NEW job \in Jobs,
         thread' = [thread EXCEPT ![th] = job], forgotten \subseteq forgotten',
         UNCHANGED <<violations, strikes>>,
         job.pc \in {"judge", "record"} =>
           \/ /\ thread[th].pc \in {"judge", "record"} /\ thread[th].caller = job.caller
              /\ Docs(job) <= Docs(thread[th]) /\ thread[th].since <= job.since
           \/ \A e \in Elements(violations) :
                e.key = job.caller => e.count < Threshold \/ job.since >= e.started + LockWindow
  PROVE  StrikesOK'
<1> SUFFICES ASSUME NEW c \in Callers, c \notin forgotten,
                    NEW e \in Elements(violations), e.key = c, strikes[c] >= Threshold
             PROVE  strikes[c] + Cardinality(Coming(c, e.started)') <= Ceiling
  <2>1. Elements(violations)' = Elements(violations) /\ Keys(violations)' = Keys(violations)
    BY DEF Elements, Keys
  <2>2. QED BY <2>1 DEF StrikesOK, Ceiling
<1> DEFINE old == Coming(c, e.started)
           new == Coming(c, e.started)'
<1>1. /\ strikes[c] + Cardinality(old) <= Ceiling /\ e.count = Threshold
      /\ strikes[c] \in Nat /\ e.started \in Nat /\ Threshold \in Nat /\ LockWindow \in Nat
  <2>1. e \in Counters(Callers)
    BY ElementsTyped DEF Types
  <2>2. strikes[c] \in Nat /\ e.started \in Nat
    BY <2>1 DEF Types, Counters
  <2>3. Threshold \in Nat /\ LockWindow \in Nat
    BY LimitsAssumption
  <2>4. QED BY <2>2, <2>3 DEF StrikesOK
<1>2. new \subseteq old
  <2> SUFFICES ASSUME NEW u \in Threads, NEW k \in 1..MaxDocs,
                      thread'[u].pc \in {"judge", "record"}, thread'[u].caller = c,
                      thread'[u].since < e.started + LockWindow, k <= Docs(thread'[u])
               PROVE  /\ thread[u].pc \in {"judge", "record"} /\ thread[u].caller = c
                      /\ thread[u].since < e.started + LockWindow /\ k <= Docs(thread[u])
    BY DEF Coming, Adds, Docs
  <2>1. CASE u # th
    BY <2>1, NewJob
  <2>2. CASE u = th
    <3>1. thread'[u] = job
      BY <2>2, NewJob
    <3>2. job \in Working /\ job.since \in Nat /\ job.docs \in 0..MaxDocs
      BY <3>1, JobKinds DEF Working, Pcs
    <3>3. /\ thread[th].pc \in {"judge", "record"} /\ thread[th].caller = job.caller
          /\ Docs(job) <= Docs(thread[th]) /\ thread[th].since <= job.since
      BY <1>1, <3>1, <3>2
    <3>4. thread[th] \in Working
      BY <3>3, JobKinds DEF Types, Pcs
    <3>5. thread[th].since \in Nat /\ thread[th].docs \in 0..MaxDocs
      BY <3>4 DEF Working
    <3>6. QED BY <1>1, <2>2, <3>1, <3>2, <3>3, <3>5, DocsAssumption DEF Docs
  <2>3. QED BY <2>1, <2>2
<1>3. old \subseteq Threads \X (1..MaxDocs)
  BY ComingPairs
<1> HIDE DEF old, new
<1>4. IsFiniteSet(old) /\ Cardinality(old) \in Nat /\ Ceiling \in Int
  BY <1>3, PairsFacts
<1>5. Cardinality(new) \in Nat /\ Cardinality(new) <= Cardinality(old)
  BY <1>2, <1>4, FS_Subset, FS_CardinalityType
<1>6. strikes[c] + Cardinality(new) <= Ceiling
  BY <1>1, <1>4, <1>5
<1>7. QED BY <1>6 DEF new

(* Every step of a thread that touches none of the counters. *)
LEMMA StepIInv ==
  ASSUME IInv, NEW th \in Threads, NEW job \in Jobs,
         thread' = [thread EXCEPT ![th] = job], UNCHANGED <<clock, theCounters, theHistory>>,
         job.pc # "tenant", thread[th].pc # "tenant", job # Idle => job.since = clock,
         job.pc \in {"judge", "record"} =>
           \/ /\ thread[th].pc \in {"judge", "record"} /\ thread[th].caller = job.caller
              /\ Docs(job) <= Docs(thread[th]) /\ thread[th].since <= job.since
           \/ \A e \in Elements(violations) :
                e.key = job.caller => e.count < Threshold \/ job.since >= e.started + LockWindow
  PROVE  IInv'
<1>1. /\ UNCHANGED <<clock, identities, tenants, violations>>
      /\ UNCHANGED <<share, passes, strikes, forgotten>>
  BY DEF theCounters, theHistory
<1>2. /\ Elements(identities)' = Elements(identities) /\ Elements(tenants)' = Elements(tenants)
      /\ Elements(violations)' = Elements(violations)
  BY <1>1 DEF Elements
<1>3. Types'
  BY <1>1, NewJob DEF IInv, Types
<1>4. ClockOK'
  <2>1. \A u \in Threads :
          thread'[u] # Idle => thread'[u].since <= clock' /\ clock' <= thread'[u].since + MaxDelay
    BY <1>1, MoveClock DEF IInv
  <2>2. QED BY <1>1, <1>2, <2>1 DEF IInv, ClockOK
<1>5. CountersOK'
  BY <1>1, <1>2 DEF IInv, CountersOK, Distinct
<1>6. PlacesOK'
  BY <1>1, MovePlaces DEF IInv
<1>7. PendingOK'
  BY MovePending DEF IInv
<1>8. TakenOK' /\ ShareOK'
  BY <1>1, <1>2 DEF IInv, TakenOK, ShareOK
<1>9. StrikesOK'
  BY <1>1, MoveStrikes DEF IInv
<1>10. QED BY <1>3, <1>4, <1>5, <1>6, <1>7, <1>8, <1>9 DEF IInv

LEMMA FinishIInv ==
  ASSUME IInv, NEW th \in Threads, Finish(th), thread[th].pc # "tenant",
         UNCHANGED <<clock, theCounters, theHistory>>
  PROVE  IInv'
<1>1. Idle \in Jobs /\ Idle.pc = "idle"
  BY DEF Jobs, Idle
<1>2. thread' = [thread EXCEPT ![th] = Idle]
  BY DEF Finish
<1>3. QED BY <1>1, <1>2, StepIInv

LEMMA TickIInv ==
  ASSUME IInv, Tick
  PROVE  IInv'
<1>1. /\ clock' = clock + 1 /\ UNCHANGED <<thread, identities, tenants, violations>>
      /\ UNCHANGED <<share, passes, strikes, forgotten>>
  BY DEF Tick, theCounters, theHistory
<1>2. clock \in Nat
  BY DEF IInv, Types
<1>3. /\ Elements(identities)' = Elements(identities) /\ Elements(tenants)' = Elements(tenants)
      /\ Elements(violations)' = Elements(violations) /\ Keys(identities)' = Keys(identities)
      /\ Keys(violations)' = Keys(violations)
  BY <1>1 DEF Elements, Keys
<1>4. Types'
  BY <1>1, <1>2 DEF IInv, Types
<1>5. ClockOK'
  <2>1. ASSUME NEW u \in Threads, thread[u] # Idle
        PROVE  thread[u].since <= clock + 1 /\ clock + 1 <= thread[u].since + MaxDelay
    <3>1. clock < thread[u].since + MaxDelay /\ thread[u].since <= clock
      BY <2>1 DEF Tick, IInv, ClockOK
    <3>2. thread[u].since \in Nat
      BY <2>1, JobKinds DEF IInv, Types, Working
    <3>3. QED BY <1>2, <3>1, <3>2, DelayAssumption
  <2>2. ASSUME NEW e \in Elements(identities) \cup Elements(tenants)
        PROVE  e.started <= clock + 1
    <3>1. e.started <= clock
      BY DEF IInv, ClockOK
    <3>2. e \in Counters(Callers) \cup Counters({Tenant})
      BY ElementsTyped DEF IInv, Types
    <3>3. e.started \in Nat
      BY <3>2 DEF Counters
    <3>4. QED BY <1>2, <3>1, <3>3
  <2>3. QED BY <1>1, <1>3, <2>1, <2>2 DEF ClockOK
<1>6. CountersOK'
  BY <1>1, <1>3 DEF IInv, CountersOK, Distinct
<1>7. PendingOK' /\ TakenOK' /\ ShareOK'
  BY <1>1, <1>3 DEF IInv, PendingOK, TakenOK, ShareOK
<1>8. PlacesOK'
  BY <1>1, <1>3 DEF IInv, PlacesOK, Made, Pending, Apart
<1>9. StrikesOK'
  <2>1. ASSUME NEW c \in Callers, NEW e \in Elements(violations)
        PROVE  Coming(c, e.started)' = Coming(c, e.started)
    BY <1>1 DEF Coming, Adds, Docs
  <2>2. QED BY <1>1, <1>3, <2>1 DEF IInv, StrikesOK, Ceiling
<1>10. QED BY <1>4, <1>5, <1>6, <1>7, <1>8, <1>9 DEF IInv

LEMMA ReceiveIInv ==
  ASSUME IInv, NEW th \in Threads, NEW c \in Callers, NEW docs \in DocCounts, Receive(th, c, docs)
  PROVE  IInv'
<1> DEFINE job == [pc |-> "identity", caller |-> c, since |-> clock, docs |-> docs,
                   remaining |-> MaxContext, pass |-> NoPass]
<1>1. /\ thread' = [thread EXCEPT ![th] = job] /\ thread[th].pc # "tenant"
      /\ UNCHANGED <<clock, theCounters, theHistory>>
  BY DEF Receive, Idle
<1>2. job.pc = "identity" /\ job.since = clock
  OBVIOUS
<1>3. job \in Jobs
  <2>1. clock \in Nat /\ docs \in 0..MaxDocs /\ MaxContext \in Int /\ NoPass \in Nat \X Nat
    BY DocsAssumption, LimitsAssumption DEF IInv, Types, NoPass
  <2>2. QED BY <2>1 DEF Jobs, Working, Pcs
<1> HIDE DEF job
<1>4. QED BY <1>1, <1>2, <1>3, StepIInv

LEMMA AskLockoutIInv ==
  ASSUME IInv, NEW th \in Threads, AskLockout(th)
  PROVE  IInv'
<1> DEFINE job == thread[th]
           after == Moved(job, "judge")
<1>1. job.pc = "lockout" /\ UNCHANGED <<clock, theCounters, theHistory>>
  BY DEF AskLockout
<1>2. PICK now \in job.since..clock :
        IF IsLocked(job.caller, now) THEN Finish(th) ELSE Goto(th, "judge")
  BY DEF AskLockout
<1>3. job \in Working /\ job.since \in Nat /\ clock \in Nat /\ now \in Nat /\ job.caller \in Callers
  <2>1. job \in Working /\ clock \in Nat
    BY <1>1, JobKinds DEF IInv, Types, Idle
  <2>2. job.since \in Nat /\ job.caller \in Callers
    BY <2>1 DEF Working
  <2>3. now \in Nat
    BY <2>1, <2>2
  <2>4. QED BY <2>1, <2>2, <2>3
<1>4. CASE IsLocked(job.caller, now)
  BY <1>1, <1>2, <1>4, FinishIInv
<1>5. CASE ~IsLocked(job.caller, now)
  <2>1. thread' = [thread EXCEPT ![th] = after]
    BY <1>2, <1>5 DEF Goto
  <2>2. /\ after \in Working /\ after.pc = "judge" /\ after.caller = job.caller
        /\ after.since = clock
    BY <1>3, MovedFacts DEF IInv, Pcs
  <2>3. ASSUME NEW e \in Elements(violations), e.key = job.caller
        PROVE  e.count < Threshold \/ clock >= e.started + LockWindow
    <3>1. Entry(violations, job.caller, now) = e
      BY <2>3, EntryFacts DEF IInv, Types, CountersOK
    <3>2. ~(now - e.started < LockWindow /\ e.count >= Threshold)
      BY <1>5, <3>1 DEF IsLocked, Locked
    <3>3. e \in Counters(Callers)
      BY ElementsTyped DEF IInv, Types
    <3>4. e.started \in Nat /\ e.count \in Nat
      BY <3>3 DEF Counters
    <3>5. QED BY <1>2, <1>3, <3>2, <3>4, LimitsAssumption
  <2>4. after \in Jobs
    BY <2>2 DEF Jobs
  <2> HIDE DEF after
  <2>5. QED BY <1>1, <2>1, <2>2, <2>3, <2>4, StepIInv
<1>6. QED BY <1>4, <1>5

LEMMA JudgeContentIInv ==
  ASSUME IInv, NEW th \in Threads, JudgeContent(th)
  PROVE  IInv'
BY FinishIInv DEF JudgeContent

LEMMA ConcludeIInv ==
  ASSUME IInv, NEW th \in Threads, Conclude(th)
  PROVE  IInv'
BY FinishIInv DEF Conclude

LEMMA JudgeViolationIInv ==
  ASSUME IInv, NEW th \in Threads, JudgeViolation(th)
  PROVE  IInv'
<1> DEFINE job == thread[th]
           after == Moved(job, "record")
<1>1. /\ job.pc = "judge" /\ thread' = [thread EXCEPT ![th] = after]
      /\ UNCHANGED <<clock, theCounters, theHistory>>
  BY DEF JudgeViolation, Goto
<1>2. job \in Working
  BY <1>1, JobKinds DEF IInv, Types, Idle
<1>3. /\ after \in Working /\ after.pc = "record" /\ after.caller = job.caller
      /\ after.since = clock /\ after.docs = job.docs
  BY <1>2, MovedFacts DEF IInv, Pcs
<1>4. job.since <= clock /\ job # Idle
  BY <1>2, JobKinds DEF IInv, Types, ClockOK
<1>5. after \in Jobs
  BY <1>3 DEF Jobs
<1> HIDE DEF after
<1>6. Docs(after) <= Docs(job)
  <2>1. job.docs \in 0..MaxDocs
    BY <1>2 DEF Working
  <2>2. QED BY <1>3, <2>1, DocsAssumption DEF Docs
<1>7. QED BY <1>1, <1>3, <1>4, <1>5, <1>6, StepIInv

(* A document is behind it. *)
LEMMA NextDocumentIInv ==
  ASSUME IInv, NEW th \in Threads, NEW size \in Nat, thread[th].pc = "judge",
         thread[th].docs > 0, thread' = [thread EXCEPT ![th] = NextDocument(thread[th], size)],
         UNCHANGED <<clock, theCounters, theHistory>>
  PROVE  IInv'
<1> DEFINE job == thread[th]
           after == NextDocument(job, size)
<1>1. job \in Working
  BY JobKinds DEF IInv, Types, Idle
<1>2. /\ after \in Working /\ after.pc \in {"judge", "conclude"} /\ after.caller = job.caller
      /\ after.since = clock /\ after.docs = job.docs - 1 /\ (after.pc = "judge" => job.docs > 1)
  BY <1>1, NextDocumentFacts DEF IInv
<1>3. job.since <= clock /\ job # Idle
  BY <1>1, JobKinds DEF IInv, Types, ClockOK
<1>4. after \in Jobs
  BY <1>2 DEF Jobs
<1> HIDE DEF after
<1>5. after.pc = "judge" => Docs(after) <= Docs(job)
  <2>1. job.docs \in 0..MaxDocs
    BY <1>1 DEF Working
  <2>2. QED BY <1>2, <2>1, DocsAssumption DEF Docs
<1>6. thread' = [thread EXCEPT ![th] = after]
  BY DEF after
<1>7. QED BY <1>2, <1>3, <1>4, <1>5, <1>6, StepIInv

LEMMA AdmitDocumentIInv ==
  ASSUME IInv, NEW th \in Threads, NEW size \in Sizes, AdmitDocument(th, size)
  PROVE  IInv'
<1>1. size \in Nat
  BY LimitsAssumption DEF Sizes
<1>2. QED BY <1>1, NextDocumentIInv DEF AdmitDocument

LEMMA RefuseDocumentIInv ==
  ASSUME IInv, NEW th \in Threads, RefuseDocument(th)
  PROVE  IInv'
BY NextDocumentIInv DEF RefuseDocument

(* A violation is recorded: it was one of those to come. *)
LEMMA RecordViolationIInv ==
  ASSUME IInv, NEW th \in Threads, RecordViolation(th)
  PROVE  IInv'
<1> DEFINE job == thread[th]
           after == IF job.docs = 0 THEN Idle ELSE NextDocument(job, 0)
<1>0. PICK c \in Callers : c = job.caller
  <2>1. job \in Working
    BY JobKinds DEF RecordViolation, IInv, Types, Idle
  <2>2. QED BY <2>1 DEF Working
<1>1. PICK now \in job.since..clock :
        LET fresh == Current(violations, c, now, LockWindow).count = 0
        IN /\ violations' = Record(violations, c, now, LockWindow, Threshold)
           /\ strikes' = [strikes EXCEPT ![c] = IF fresh THEN 1 ELSE @ + 1]
  BY <1>0 DEF RecordViolation
<1>2. /\ job.pc = "record" /\ thread' = [thread EXCEPT ![th] = after]
      /\ forgotten' = forgotten \cup (Keys(violations) \ Keys(violations'))
      /\ UNCHANGED <<clock, identities, tenants, share, passes>>
  BY DEF RecordViolation, Finish
<1>3. job \in Working /\ job # Idle
  BY <1>2, JobKinds DEF IInv, Types, Idle
<1>4. /\ job.since \in Nat /\ clock \in Nat /\ now \in Nat /\ c \in Callers
      /\ job.docs \in 0..MaxDocs /\ MaxDocs \in Nat \ {0}
      /\ LockWindow \in Nat \ {0} /\ Threshold \in Nat \ {0}
  <2>1. job.since \in Nat /\ c \in Callers /\ job.docs \in 0..MaxDocs /\ clock \in Nat
    BY <1>0, <1>3 DEF Working, IInv, Types
  <2>2. now \in Nat
    BY <2>1
  <2>3. QED BY <2>1, <2>2, DocsAssumption, LimitsAssumption
<1>5. /\ after \in Jobs /\ after.pc \in {"idle", "judge", "conclude"}
      /\ after # Idle => after.caller = c /\ after.since = clock
      /\ after.pc = "judge" => after.docs = job.docs - 1 /\ job.docs > 1
  <2>1. CASE job.docs = 0
    BY <2>1 DEF Idle, Jobs
  <2>2. CASE job.docs # 0
    <3>1. job.docs > 0
      BY <1>4, <2>2
    <3>2. QED BY <1>0, <1>3, <2>2, <3>1, NextDocumentFacts DEF IInv, Jobs
  <2>3. QED BY <2>1, <2>2
<1> HIDE DEF after
<1> DEFINE e0 == Current(violations, c, now, LockWindow)
           n == IF e0.count + 1 < Threshold THEN e0.count + 1 ELSE Threshold
           g == [key |-> c, started |-> e0.started, count |-> n]
<1>6. violations \in Seq(Counters(Callers)) /\ Distinct(violations)
  BY DEF IInv, Types, CountersOK
<1>7. /\ e0 \in Counters(Callers) /\ e0.key = c
      /\ \/ e0 \in Elements(violations) /\ now - e0.started < LockWindow
         \/ e0.started = now /\ e0.count = 0
  BY <1>4, <1>6, CurrentFacts
<1>8. violations' = Stored(violations, g)
  BY <1>1, <1>4, <1>6, RecordFacts
<1>9. strikes' = [strikes EXCEPT ![c] = IF e0.count = 0 THEN 1 ELSE @ + 1]
  BY <1>1
<1> HIDE DEF e0
<1>10. e0.started \in Nat /\ e0.count \in Nat
  BY <1>7 DEF Counters
<1>11. g \in Counters(Callers) /\ g.key = c /\ g.started = e0.started /\ g.count = n
  BY <1>4, <1>10 DEF Counters
<1> HIDE DEF g
<1>12. /\ violations' \in Seq(Counters(Callers)) /\ Distinct(violations')
       /\ g \in Elements(violations')
       /\ \A f \in Elements(violations') : f = g \/ (f \in Elements(violations) /\ f.key # c)
  BY <1>6, <1>8, <1>11, StoredFacts
<1>13. Types'
  <2>1. strikes' \in [Callers -> Nat]
    BY <1>4, <1>9 DEF IInv, Types
  <2>2. thread' \in [Threads -> Jobs]
    BY <1>2, <1>5, NewJob DEF IInv
  <2>3. QED BY <1>2, <1>12, <2>1, <2>2 DEF IInv, Types
<1>14. /\ Elements(identities)' = Elements(identities) /\ Elements(tenants)' = Elements(tenants)
  BY <1>2 DEF Elements
<1>15. ClockOK'
  <2>1. \A u \in Threads :
          thread'[u] # Idle => thread'[u].since <= clock' /\ clock' <= thread'[u].since + MaxDelay
    BY <1>2, <1>5, MoveClock DEF IInv
  <2>2. QED BY <1>2, <1>14, <2>1 DEF IInv, ClockOK
<1>16. CountersOK'
  <2>1. Distinct(identities)' /\ Distinct(tenants)' /\ Distinct(violations)'
    BY <1>2, <1>12 DEF IInv, CountersOK, Distinct
  <2>2. QED BY <1>14, <2>1 DEF IInv, CountersOK
<1>17. PlacesOK'
  <2>1. after.pc # "tenant" /\ job.pc # "tenant" /\ forgotten \subseteq forgotten'
    BY <1>2, <1>5
  <2>2. QED BY <1>2, <1>5, <2>1, MovePlaces DEF IInv
<1>18. PendingOK'
  <2>1. after.pc # "tenant"
    BY <1>5
  <2>2. QED BY <1>2, <1>5, <2>1, MovePending DEF IInv
<1>19. TakenOK' /\ ShareOK'
  BY <1>2, <1>14 DEF IInv, TakenOK, ShareOK
<1>20. StrikesOK'
  <2> SUFFICES ASSUME NEW d \in Callers, d \notin forgotten, d \notin Keys(violations) \ Keys(violations')
               PROVE  /\ d \notin Keys(violations') => strikes'[d] = 0
                      /\ \A e \in Elements(violations') :
                           e.key = d =>
                             /\ strikes'[d] >= 1
                             /\ e.count = IF strikes'[d] < Threshold THEN strikes'[d] ELSE Threshold
                             /\ strikes'[d] >= Threshold =>
                                  strikes'[d] + Cardinality(Coming(d, e.started)') <= Ceiling
    <3>1. Elements(violations)' = Elements(violations') /\ Keys(violations)' = Keys(violations')
      BY DEF Elements, Keys
    <3>2. QED BY <1>2, <3>1 DEF StrikesOK, Ceiling
  <2>1. ASSUME NEW s \in Nat
        PROVE  Coming(d, s)' \subseteq Coming(d, s)
    <3> SUFFICES ASSUME NEW u \in Threads, NEW k \in 1..MaxDocs,
                        thread'[u].pc \in {"judge", "record"}, thread'[u].caller = d,
                        thread'[u].since < s + LockWindow, k <= Docs(thread'[u])
                 PROVE  /\ thread[u].pc \in {"judge", "record"} /\ thread[u].caller = d
                        /\ thread[u].since < s + LockWindow /\ k <= Docs(thread[u])
      BY DEF Coming, Adds, Docs
    <3>1. CASE u # th
      BY <1>2, <1>5, <3>1, NewJob DEF IInv
    <3>2. CASE u = th
      <4>1. thread'[u] = after
        BY <1>2, <1>5, <3>2, NewJob DEF IInv
      <4>2. after.pc = "judge"
        BY <1>5, <4>1
      <4>3. after # Idle
        BY <4>2 DEF Idle
      <4>4. job.since <= clock
        BY <1>3 DEF IInv, ClockOK
      <4>5. after.docs = job.docs - 1 /\ job.docs > 1 /\ after.caller = c /\ after.since = clock
        BY <1>5, <4>2, <4>3
      <4>6. QED BY <1>0, <1>2, <1>4, <3>2, <4>1, <4>4, <4>5 DEF Docs
    <3>3. QED BY <3>1, <3>2
  <2>2. CASE d # c
    <3>1. strikes'[d] = strikes[d]
      BY <1>9, <2>2 DEF IInv, Types
    <3>2. /\ d \in Keys(violations') <=> d \in Keys(violations)
          /\ \A e \in Elements(violations') : e.key = d => e \in Elements(violations)
      BY <1>6, <1>8, <1>11, <2>2, StoredOthers
    <3>3. ASSUME NEW e \in Elements(violations'), e.key = d, strikes[d] >= Threshold
          PROVE  strikes[d] + Cardinality(Coming(d, e.started)') <= Ceiling
      <4>1. e \in Elements(violations) /\ e \in Counters(Callers)
        BY <1>12, <3>2, <3>3, ElementsTyped
      <4>2. strikes[d] + Cardinality(Coming(d, e.started)) <= Ceiling
        BY <3>3, <4>1 DEF IInv, StrikesOK
      <4>3. e.started \in Nat /\ strikes[d] \in Nat
        BY <4>1 DEF Counters, IInv, Types
      <4> DEFINE old == Coming(d, e.started)
                 new == Coming(d, e.started)'
      <4>4. new \subseteq old /\ old \subseteq Threads \X (1..MaxDocs)
        BY <2>1, <4>3, ComingPairs
      <4> HIDE DEF old, new
      <4>5. IsFiniteSet(old) /\ Cardinality(old) \in Nat /\ Ceiling \in Int
        BY <4>4, PairsFacts
      <4>6. Cardinality(new) \in Nat /\ Cardinality(new) <= Cardinality(old)
        BY <4>4, <4>5, FS_Subset, FS_CardinalityType
      <4>7. strikes[d] + Cardinality(old) <= Ceiling
        BY <4>2 DEF old
      <4>8. strikes[d] + Cardinality(new) <= Ceiling
        BY <4>3, <4>5, <4>6, <4>7
      <4>9. QED BY <4>8 DEF new
    <3>4. QED BY <3>1, <3>2, <3>3 DEF IInv, StrikesOK
  <2>3. CASE d = c
    <3>1. c \in Keys(violations')
      BY <1>11, <1>12, KeysFacts
    <3>2. \A e \in Elements(violations') : e.key = c => e = g
      BY <1>11, <1>12
    <3>3. strikes[c] \in Nat /\ strikes'[c] = IF e0.count = 0 THEN 1 ELSE strikes[c] + 1
      BY <1>4, <1>9 DEF IInv, Types
    <3>4. \/ e0.count = 0 /\ strikes'[c] = 1
          \/ /\ e0 \in Elements(violations) /\ now - e0.started < LockWindow
             /\ strikes'[c] = strikes[c] + 1 /\ strikes[c] >= 1
             /\ e0.count = IF strikes[c] < Threshold THEN strikes[c] ELSE Threshold
             /\ strikes[c] >= Threshold => strikes[c] + Cardinality(Coming(c, e0.started)) <= Ceiling
      <4>1. CASE e0.count = 0
        BY <3>3, <4>1
      <4>2. CASE e0.count # 0
        <5>1. e0 \in Elements(violations) /\ now - e0.started < LockWindow
          BY <1>7, <4>2
        <5>2. /\ strikes[c] >= 1
              /\ e0.count = IF strikes[c] < Threshold THEN strikes[c] ELSE Threshold
              /\ strikes[c] >= Threshold => strikes[c] + Cardinality(Coming(c, e0.started)) <= Ceiling
          BY <1>4, <1>7, <2>3, <5>1 DEF IInv, StrikesOK
        <5>3. QED BY <3>3, <4>2, <5>1, <5>2
      <4>3. QED BY <4>1, <4>2
    <3>5. strikes'[c] >= 1 /\ g.count = IF strikes'[c] < Threshold THEN strikes'[c] ELSE Threshold
      BY <1>4, <1>10, <1>11, <3>3, <3>4
    <3>0. PICK start \in Nat : start = e0.started
      BY <1>10
    <3> DEFINE old == Coming(c, start)
               new == Coming(c, start)'
               y == <<th, Docs(job)>>
    <3>6. y \in Threads \X (1..MaxDocs)
      BY <1>4 DEF Docs
    <3>7. y \notin new
      <4> SUFFICES ASSUME thread'[th].pc \in {"judge", "record"}, Docs(job) <= Docs(thread'[th])
                   PROVE  FALSE
        BY DEF Coming, Adds, Docs
      <4>1. thread'[th] = after
        BY <1>2, <1>5, NewJob DEF IInv
      <4>2. after.docs = job.docs - 1 /\ job.docs > 1
        BY <1>5, <4>1
      <4>3. QED BY <1>4, <4>1, <4>2 DEF Docs
    <3>8. now - e0.started < LockWindow => y \in old
      <4> SUFFICES ASSUME now - e0.started < LockWindow PROVE y \in old
        OBVIOUS
      <4>1. job.since < e0.started + LockWindow
        BY <1>1, <1>4, <1>10
      <4>2. Adds(th, c, start)
        BY <1>0, <1>2, <3>0, <4>1 DEF Adds
      <4>3. Docs(job) <= Docs(job)
        BY <1>4 DEF Docs
      <4>4. QED BY <3>6, <4>2, <4>3 DEF Coming
    <3>9. new \subseteq old /\ old \subseteq Threads \X (1..MaxDocs)
      BY <2>1, <2>3, <3>0, ComingPairs
    <3> HIDE DEF old, new, y
    <3>10. /\ IsFiniteSet(old) /\ Cardinality(old) \in Nat /\ Ceiling \in Int
           /\ IsFiniteSet(new) /\ Cardinality(new) \in Nat /\ Threshold + Cardinality(new) <= Ceiling
      <4>1. new \subseteq Threads \X (1..MaxDocs)
        BY <3>9
      <4>2. QED BY <3>6, <3>7, <3>9, <4>1, PairsFacts
    <3>11. y \in old => Cardinality(new) + 1 <= Cardinality(old)
      <4> SUFFICES ASSUME y \in old PROVE Cardinality(new) + 1 <= Cardinality(old)
        OBVIOUS
      <4>1. Cardinality(new \cup {y}) = Cardinality(new) + 1
        BY <3>7, <3>10, FS_AddElement
      <4>2. new \cup {y} \subseteq old
        BY <3>9
      <4>3. QED BY <3>10, <4>1, <4>2, FS_Subset
    <3>12. strikes'[c] >= Threshold => strikes'[c] + Cardinality(new) <= Ceiling
      <4> DEFINE k == Cardinality(new)
                 m == Cardinality(old)
      <4>1. k \in Nat /\ m \in Nat /\ Threshold + k <= Ceiling /\ Ceiling \in Int
        BY <3>10
      <4> HIDE DEF k, m
      <4>2. CASE e0.count = 0 /\ strikes'[c] = 1
        <5>1. strikes'[c] <= Threshold /\ strikes'[c] \in Nat
          BY <1>4, <4>2
        <5>2. strikes'[c] + k <= Ceiling
          BY <1>4, <4>1, <5>1
        <5>3. QED BY <5>2 DEF k
      <4>3. CASE /\ now - e0.started < LockWindow /\ strikes'[c] = strikes[c] + 1
                 /\ strikes[c] >= Threshold => strikes[c] + Cardinality(Coming(c, e0.started)) <= Ceiling
        <5>1. k + 1 <= m
          BY <3>8, <3>11, <4>3 DEF k, m
        <5>2. strikes[c] >= Threshold => strikes[c] + m <= Ceiling
          BY <3>0, <4>3 DEF m, old
        <5>3. strikes'[c] >= Threshold => strikes'[c] + k <= Ceiling
          BY <1>4, <3>3, <4>1, <4>3, <5>1, <5>2
        <5>4. QED BY <5>3 DEF k
      <4>4. QED BY <3>4, <4>2, <4>3
    <3>13. ASSUME NEW e \in Elements(violations'), e.key = c, strikes'[c] >= Threshold
           PROVE  strikes'[c] + Cardinality(Coming(c, e.started)') <= Ceiling
      <4>1. e.started = start
        BY <1>11, <3>0, <3>2, <3>13
      <4>2. QED BY <3>12, <3>13, <4>1 DEF new
    <3>14. QED BY <2>3, <3>1, <3>2, <3>5, <3>13
  <2>4. QED BY <2>2, <2>3
<1>21. QED BY <1>13, <1>15, <1>16, <1>17, <1>18, <1>19, <1>20 DEF IInv

LEMMA MadeTyped ==
  ASSUME Types, NEW c \in Callers, NEW p \in Made(c)
  PROVE  p \in Nat \X Nat /\ p[1] \in Nat /\ p[2] \in Nat
<1>1. ASSUME NEW th \in Threads, Pending(th, c)
      PROVE  thread[th].pass \in Nat \X Nat
  <2>1. thread[th] \in Working
    BY <1>1, JobKinds DEF Types, Pending, Pcs
  <2>2. QED BY <2>1 DEF Working
<1>2. p \in Nat \X Nat
  BY <1>1 DEF Made, Types
<1>3. QED BY <1>2

(* A caller's request is counted: it has the next place of the caller's    *)
(* window, or the first of a new one.                                      *)
LEMMA CountIdentityIInv ==
  ASSUME IInv, NEW th \in Threads, CountIdentity(th)
  PROVE  IInv'
<1> DEFINE job == thread[th]
<1>1. /\ job.pc = "identity"
      /\ forgotten' = forgotten \cup (Keys(identities) \ Keys(identities'))
      /\ UNCHANGED <<clock, tenants, violations, share, passes, strikes>>
  BY DEF CountIdentity
<1>2. job \in Working /\ job # Idle
  BY <1>1, JobKinds DEF IInv, Types, Idle
<1>3. PICK c \in Callers : c = job.caller
  BY <1>2 DEF Working
<1>4. PICK now \in job.since..clock :
        LET own == Current(identities, c, now, Window)
        IN /\ identities' = Allow(identities, c, now, Window, IdentityLimit)
           /\ IF WithinLimit(identities, c, now, Window, IdentityLimit)
              THEN thread' = [thread EXCEPT ![th] =
                     [Moved(@, "tenant") EXCEPT !.pass = <<own.started, own.count + 1>>]]
              ELSE Finish(th)
  BY <1>3 DEF CountIdentity
<1>5. /\ job.since \in Nat /\ clock \in Nat /\ now \in Nat /\ MaxDelay \in Nat
      /\ job.since <= now /\ now <= clock /\ clock <= job.since + MaxDelay
      /\ Window \in Nat \ {0} /\ IdentityLimit \in Nat \ {0}
  <2>1. job.since \in Nat /\ clock \in Nat /\ clock <= job.since + MaxDelay
    BY <1>2 DEF Working, IInv, Types, ClockOK
  <2>2. QED BY <2>1, LimitsAssumption, DelayAssumption
<1>6. identities \in Seq(Counters(Callers)) /\ Distinct(identities)
  BY DEF IInv, Types, CountersOK
<1>7. CountersOK /\ ClockOK /\ PlacesOK /\ PendingOK /\ TakenOK /\ ShareOK /\ StrikesOK /\ Types
  BY DEF IInv
<1>8. /\ Elements(tenants)' = Elements(tenants) /\ Elements(violations)' = Elements(violations)
      /\ Elements(identities)' = Elements(identities')
      /\ Keys(identities)' = Keys(identities')
  BY <1>1 DEF Elements, Keys
<1>9. TakenOK' /\ ShareOK'
  BY <1>1, <1>7, <1>8 DEF TakenOK, ShareOK
<1>10. CASE ~WithinLimit(identities, c, now, Window, IdentityLimit)
  <2>1. /\ identities' \in Seq(Counters(Callers)) /\ Distinct(identities')
        /\ Elements(identities') = Elements(identities)
    <3>1. identities' = Allow(identities, c, now, Window, IdentityLimit)
      BY <1>4
    <3>2. QED BY <1>5, <1>6, <1>10, <3>1, RefusedFacts
  <2>2. thread' = [thread EXCEPT ![th] = Idle]
    BY <1>4, <1>10 DEF Finish
  <2>3. Idle \in Jobs /\ Idle.pc = "idle"
    BY DEF Idle, Jobs
  <2>4. Types'
    BY <1>1, <1>7, <2>1, <2>2, <2>3, NewJob DEF Types
  <2>5. ClockOK'
    <3>1. \A u \in Threads :
            thread'[u] # Idle => thread'[u].since <= clock' /\ clock' <= thread'[u].since + MaxDelay
      BY <1>1, <1>7, <2>2, <2>3, MoveClock
    <3>2. QED BY <1>1, <1>7, <1>8, <2>1, <3>1 DEF ClockOK
  <2>6. CountersOK'
    <3>1. Distinct(identities)' /\ Distinct(tenants)' /\ Distinct(violations)'
      BY <1>1, <1>7, <2>1 DEF CountersOK, Distinct
    <3>2. QED BY <1>7, <1>8, <2>1, <3>1 DEF CountersOK
  <2>7. PlacesOK'
    BY <1>1, <1>7, <2>1, <2>2, <2>3, MovePlaces
  <2>8. PendingOK'
    BY <1>7, <2>2, <2>3, MovePending
  <2>9. StrikesOK'
    BY <1>1, <1>7, <2>2, <2>3, MoveStrikes
  <2>10. QED BY <1>9, <2>4, <2>5, <2>6, <2>7, <2>8, <2>9 DEF IInv
<1>11. CASE WithinLimit(identities, c, now, Window, IdentityLimit)
  <2> DEFINE own == Current(identities, c, now, Window)
             g == [key |-> c, started |-> own.started, count |-> own.count + 1]
             moved == Moved(job, "tenant")
             place == <<own.started, own.count + 1>>
             after == [moved EXCEPT !.pass = place]
  <2>1. /\ own \in Counters(Callers) /\ own.key = c
        /\ \/ own \in Elements(identities) /\ now - own.started < Window
           \/ /\ own.started = now /\ own.count = 0
              /\ \A f \in Elements(identities) : f.key = c => now - f.started >= Window
    BY <1>5, <1>6, CurrentFacts
  <2>2. identities' = Stored(identities, g)
    BY <1>4, <1>5, <1>6, <1>11, AllowFacts
  <2>3. own.count < IdentityLimit
    BY <1>11 DEF WithinLimit
  <2>4. thread' = [thread EXCEPT ![th] = after]
    BY <1>4, <1>11
  <2>5. /\ moved \in Working /\ moved.pc = "tenant" /\ moved.caller = c /\ moved.since = clock
    BY <1>2, <1>3, <1>7, MovedFacts DEF Pcs
  <2> HIDE DEF own, moved
  <2>6. own.started \in Nat /\ own.count \in Nat
    BY <2>1 DEF Counters
  <2>7. PICK start \in Nat, n \in Nat : start = own.started /\ n = own.count
    BY <2>6
  <2>8. g \in Counters(Callers) /\ g.key = c /\ g.started = start /\ g.count = n + 1
    BY <2>7 DEF Counters
  <2>9. place = <<start, n + 1>> /\ place \in Nat \X Nat /\ place[1] = start /\ place[2] = n + 1
    BY <2>7
  <2> HIDE DEF g, place
  <2>10. /\ after \in Working /\ after.pc = "tenant" /\ after.caller = c /\ after.since = clock
         /\ after.pass = place
    BY <2>5, <2>9, WithPass
  <2> HIDE DEF after
  <2>11. after \in Jobs
    BY <2>10 DEF Jobs
  <2>12. /\ identities' \in Seq(Counters(Callers)) /\ Distinct(identities')
         /\ g \in Elements(identities')
         /\ \A f \in Elements(identities') : f = g \/ (f \in Elements(identities) /\ f.key # c)
    BY <1>6, <2>2, <2>8, StoredFacts
  <2>13. n < IdentityLimit
    BY <2>3, <2>7
  <2>14. start <= clock /\ now - start < Window /\ (n = 0 => start = now)
    <3>1. CASE own \in Elements(identities) /\ now - own.started < Window
      <4>1. own.started <= clock /\ own.count >= 1
        BY <1>7, <3>1 DEF ClockOK, CountersOK
      <4>2. QED BY <2>7, <3>1, <4>1
    <3>2. CASE own.started = now
      BY <1>5, <2>7, <3>2
    <3>3. QED BY <2>1, <3>1, <3>2
  <2>15. /\ thread' \in [Threads -> Jobs] /\ thread'[th] = after
         /\ \A u \in Threads : u # th => thread'[u] = thread[u]
    BY <1>7, <2>4, <2>11, NewJob
  <2>16. Types'
    BY <1>1, <1>7, <2>12, <2>15 DEF Types
  <2>17. ClockOK'
    <3>1. \A u \in Threads :
            thread'[u] # Idle => thread'[u].since <= clock' /\ clock' <= thread'[u].since + MaxDelay
      BY <1>1, <1>7, <2>4, <2>10, <2>11, MoveClock
    <3>2. \A e \in Elements(identities') : e.started <= clock
      BY <1>7, <2>8, <2>12, <2>14 DEF ClockOK
    <3>3. QED BY <1>1, <1>7, <1>8, <3>1, <3>2 DEF ClockOK
  <2>18. CountersOK'
    <3>1. Distinct(identities)' /\ Distinct(tenants)' /\ Distinct(violations)'
      BY <1>1, <1>7, <2>12 DEF CountersOK, Distinct
    <3>2. g.count >= 1 /\ g.count <= IdentityLimit
      BY <1>5, <2>8, <2>13
    <3>3. \A e \in Elements(identities') : e.count >= 1 /\ e.count <= IdentityLimit
      BY <1>7, <2>12, <3>2 DEF CountersOK
    <3>4. QED BY <1>7, <1>8, <3>1, <3>3 DEF CountersOK
  <2>19. PendingOK'
    <3> SUFFICES ASSUME NEW u \in Threads, thread'[u].pc = "tenant"
                 PROVE  /\ thread'[u].pass[1] <= thread'[u].since
                        /\ thread'[u].since < thread'[u].pass[1] + Window + MaxDelay
                        /\ thread'[u].pass[2] = 1 => thread'[u].since <= thread'[u].pass[1] + MaxDelay
      BY DEF PendingOK
    <3>1. CASE u # th
      BY <1>7, <2>15, <3>1 DEF PendingOK
    <3>2. CASE u = th
      <4>1. /\ thread'[u].since = clock /\ thread'[u].pass[1] = start
            /\ thread'[u].pass[2] = n + 1
        BY <2>9, <2>10, <2>15, <3>2
      <4>2. start <= clock /\ clock < start + Window + MaxDelay
        BY <1>5, <2>14
      <4>3. n + 1 = 1 => clock <= start + MaxDelay
        BY <1>5, <2>14
      <4>4. QED BY <4>1, <4>2, <4>3
    <3>3. QED BY <3>1, <3>2
  <2>20. StrikesOK'
    <3>1. after.pc \notin {"judge", "record"} /\ forgotten \subseteq forgotten'
      BY <1>1, <2>10
    <3>2. QED BY <1>1, <1>7, <2>4, <2>11, <3>1, MoveStrikes
  <2>21. PlacesOK'
    <3> SUFFICES ASSUME NEW d \in Callers, d \notin forgotten,
                        d \notin Keys(identities) \ Keys(identities')
                 PROVE  /\ d \notin Keys(identities') => Made(d)' = {}
                        /\ \A e \in Elements(identities') :
                             e.key = d =>
                               \A p \in Made(d)' :
                                 /\ p[2] \in 1..IdentityLimit
                                 /\ \/ p[1] = e.started /\ p[2] <= e.count
                                    \/ p[1] + Window <= e.started
                        /\ \A p, q \in Made(d)' : Apart(p, q)
                        /\ \A u \in Threads :
                             Pending(u, d)' =>
                               /\ thread'[u].pass \notin passes[d]
                               /\ \A v \in Threads :
                                    Pending(v, d)' /\ v # u => thread'[v].pass # thread'[u].pass
      BY <1>1, <1>8 DEF PlacesOK, Apart
    <3>1. /\ \A u \in Threads : u # th => (Pending(u, d)' <=> Pending(u, d))
          /\ Pending(th, d)' <=> d = c
          /\ ~Pending(th, d)
      BY <1>1, <2>10, <2>15 DEF Pending
    <3>2. Made(d)' = IF d = c THEN Made(d) \cup {place} ELSE Made(d)
      <4>1. Made(d)' = passes[d] \cup {thread'[u].pass : u \in {t \in Threads : Pending(t, d)'}}
        BY <1>1 DEF Made
      <4>2. {u \in Threads : Pending(u, d)'} =
              IF d = c THEN {u \in Threads : Pending(u, d)} \cup {th}
              ELSE {u \in Threads : Pending(u, d)}
        BY <3>1
      <4>3. th \notin {u \in Threads : Pending(u, d)}
        BY <3>1
      <4> DEFINE U == {u \in Threads : Pending(u, d)}
      <4>4. \A u \in U : thread'[u].pass = thread[u].pass
        BY <2>15, <4>3
      <4>5. thread'[th].pass = place
        BY <2>10, <2>15
      <4>6. Made(d) = passes[d] \cup {thread[u].pass : u \in U}
        BY DEF Made
      <4> HIDE DEF U
      <4>7. CASE d = c
        <5>1. Made(d)' = passes[d] \cup {thread'[u].pass : u \in U \cup {th}}
          BY <4>1, <4>2, <4>7 DEF U
        <5>2. QED BY <4>4, <4>5, <4>6, <4>7, <5>1
      <4>8. CASE d # c
        <5>1. Made(d)' = passes[d] \cup {thread'[u].pass : u \in U}
          BY <4>1, <4>2, <4>8 DEF U
        <5>2. QED BY <4>4, <4>6, <4>8, <5>1
      <4>9. QED BY <4>7, <4>8
    <3>3. CASE d # c
      <4>1. /\ d \in Keys(identities') <=> d \in Keys(identities)
            /\ \A e \in Elements(identities') : e.key = d => e \in Elements(identities)
        BY <1>6, <2>2, <2>8, <3>3, StoredOthers
      <4>2. \A u \in Threads : Pending(u, d)' <=> Pending(u, d)
        BY <3>1, <3>3
      <4>3. \A u \in Threads : Pending(u, d) => thread'[u] = thread[u]
        BY <2>15, <3>1
      <4>4. Made(d)' = Made(d)
        BY <3>2, <3>3
      <4>5. QED BY <1>7, <4>1, <4>2, <4>3, <4>4 DEF PlacesOK
    <3>4. CASE d = c
      <4>1. c \in Keys(identities')
        BY <2>8, <2>12, KeysFacts
      <4>2. \A e \in Elements(identities') : e.key = c => e = g
        BY <2>8, <2>12
      <4>3. ASSUME NEW p \in Made(c)
            PROVE  /\ p[2] \in 1..IdentityLimit
                   /\ (p[1] = start /\ p[2] <= n) \/ p[1] + Window <= start
        <5>1. p[1] \in Nat /\ p[2] \in Nat
          BY <1>7, MadeTyped
        <5>2. c \in Keys(identities)
          BY <1>7, <3>4 DEF PlacesOK
        <5>3. PICK f \in Elements(identities) : f.key = c
          BY <5>2, KeysFacts
        <5>4. /\ p[2] \in 1..IdentityLimit
              /\ (p[1] = f.started /\ p[2] <= f.count) \/ p[1] + Window <= f.started
          BY <1>7, <3>4, <5>3 DEF PlacesOK
        <5>5. f.started \in Nat /\ f.count \in Nat
          BY <1>6, ElementsTyped DEF Counters
        <5>6. CASE own \in Elements(identities)
          <6>1. own = f
            BY <1>6, <2>1, <5>3, <5>6 DEF Elements, Distinct
          <6>2. QED BY <2>7, <5>4, <6>1
        <5>7. CASE own.started = now /\ now - f.started >= Window
          BY <1>5, <2>7, <5>1, <5>4, <5>5, <5>7
        <5>8. QED BY <2>1, <5>3, <5>6, <5>7
      <4>4. place \notin Made(c)
        BY <1>5, <2>9, <4>3
      <4>5. ASSUME NEW p \in Made(c)
            PROVE  Apart(p, place) /\ Apart(place, p)
        BY <2>9, <4>3 DEF Apart
      <4>6. Apart(place, place)
        BY DEF Apart
      <4>7. \A p, q \in Made(c) : Apart(p, q)
        BY <1>7, <3>4 DEF PlacesOK
      <4>8. \A p, q \in Made(c)' : Apart(p, q)
        BY <3>2, <3>4, <4>5, <4>6, <4>7
      <4>9. ASSUME NEW p \in Made(c)'
            PROVE  /\ p[2] \in 1..IdentityLimit
                   /\ (p[1] = g.started /\ p[2] <= g.count) \/ p[1] + Window <= g.started
        <5>1. CASE p = place
          BY <1>5, <2>8, <2>9, <2>13, <5>1
        <5>2. CASE p \in Made(c)
          <6>1. p[1] \in Nat /\ p[2] \in Nat
            BY <1>7, <5>2, MadeTyped
          <6>2. QED BY <2>8, <4>3, <5>2, <6>1
        <5>3. QED BY <3>2, <3>4, <5>1, <5>2
      <4>10. passes[c] \subseteq Made(c) /\ \A u \in Threads : Pending(u, c) => thread[u].pass \in Made(c)
        BY DEF Made
      <4>11. ASSUME NEW u \in Threads, Pending(u, c)'
             PROVE  /\ thread'[u].pass \notin passes[c]
                    /\ \A v \in Threads :
                         Pending(v, c)' /\ v # u => thread'[v].pass # thread'[u].pass
        <5>1. \A v \in Threads : v # th => (Pending(v, c)' <=> Pending(v, c)) /\ thread'[v] = thread[v]
          BY <2>15, <3>1, <3>4
        <5>2. thread'[th].pass = place
          BY <2>10, <2>15
        <5>3. CASE u = th
          BY <4>4, <4>10, <5>1, <5>2, <5>3
        <5>4. CASE u # th
          <6>1. Pending(u, c) /\ thread'[u] = thread[u]
            BY <4>11, <5>1, <5>4
          <6>2. thread[u].pass # place
            BY <4>4, <4>10, <6>1
          <6>3. QED BY <1>7, <3>4, <5>1, <5>2, <6>1, <6>2 DEF PlacesOK
        <5>5. QED BY <5>3, <5>4
      <4>12. QED BY <3>4, <4>1, <4>2, <4>8, <4>9, <4>11
    <3>5. QED BY <3>3, <3>4
  <2>22. QED BY <1>9, <2>16, <2>17, <2>18, <2>19, <2>20, <2>21 DEF IInv
<1>12. QED BY <1>10, <1>11

(* A thread that is no longer pending leaves no place that was not there.  *)
LEMMA FewerPlaces ==
  ASSUME Types, PlacesOK, NEW th \in Threads, NEW job \in Jobs, NEW c \in Callers,
         thread' = [thread EXCEPT ![th] = job], job.pc # "tenant",
         thread[th].pc = "tenant", thread[th].caller = c,
         UNCHANGED <<identities, forgotten>>,
         \A d \in Callers : passes'[d] \subseteq passes[d] \cup IF d = c THEN {thread[th].pass} ELSE {}
  PROVE  PlacesOK'
<1>1. /\ Keys(identities)' = Keys(identities) /\ Elements(identities)' = Elements(identities)
  BY DEF Keys, Elements
<1> SUFFICES ASSUME NEW d \in Callers, d \notin forgotten
             PROVE  /\ d \notin Keys(identities) => Made(d)' = {}
                    /\ \A e \in Elements(identities) :
                         e.key = d =>
                           \A p \in Made(d)' :
                             /\ p[2] \in 1..IdentityLimit
                             /\ \/ p[1] = e.started /\ p[2] <= e.count
                                \/ p[1] + Window <= e.started
                    /\ \A p, q \in Made(d)' : Apart(p, q)
                    /\ \A u \in Threads :
                         Pending(u, d)' =>
                           /\ thread'[u].pass \notin passes'[d]
                           /\ \A v \in Threads :
                                Pending(v, d)' /\ v # u => thread'[v].pass # thread'[u].pass
  BY <1>1 DEF PlacesOK, Apart
<1>2. \A u \in Threads : Pending(u, d)' => u # th /\ Pending(u, d) /\ thread'[u] = thread[u]
  BY NewJob DEF Pending
<1>3. Pending(th, c)
  BY DEF Pending
<1>4. Made(d)' \subseteq Made(d)
  <2>1. Made(d)' = passes'[d] \cup {thread'[u].pass : u \in {t \in Threads : Pending(t, d)'}}
    BY DEF Made
  <2>2. passes'[d] \subseteq Made(d)
    BY <1>3 DEF Made
  <2>3. QED BY <1>2, <2>1, <2>2 DEF Made
<1>5. ASSUME NEW u \in Threads, Pending(u, d)'
      PROVE  /\ thread'[u].pass \notin passes'[d]
             /\ \A v \in Threads : Pending(v, d)' /\ v # u => thread'[v].pass # thread'[u].pass
  <2>1. u # th /\ Pending(u, d) /\ thread'[u] = thread[u]
    BY <1>2, <1>5
  <2>2. thread[u].pass \notin passes[d] /\ (d = c => thread[u].pass # thread[th].pass)
    BY <1>3, <2>1 DEF PlacesOK
  <2>3. thread[u].pass \notin passes'[d]
    BY <2>2
  <2>4. ASSUME NEW v \in Threads, Pending(v, d)', v # u
        PROVE  thread'[v].pass # thread'[u].pass
    BY <1>2, <2>1, <2>4 DEF PlacesOK
  <2>5. QED BY <2>1, <2>3, <2>4
<1>6. QED BY <1>4, <1>5 DEF PlacesOK

(* The tenant's quota counts what the caller's let through. *)
LEMMA CountTenantIInv ==
  ASSUME IInv, NEW th \in Threads, CountTenant(th)
  PROVE  IInv'
<1> DEFINE job == thread[th]
<1>1. job.pc = "tenant" /\ UNCHANGED <<clock, identities, violations, strikes, forgotten>>
  BY DEF CountTenant
<1>2. job \in Working /\ job # Idle
  BY <1>1, JobKinds DEF IInv, Types, Idle
<1>3. PICK c \in Callers : c = job.caller
  BY <1>2 DEF Working
<1>4. PICK place \in Nat \X Nat : place = job.pass
  BY <1>2 DEF Working
<1>5. PICK now \in job.since..clock :
        LET fresh == Current(tenants, Tenant, now, Window).count = 0
            before == IF fresh THEN [d \in Callers |-> 0] ELSE share
            others == IF fresh THEN [d \in Callers |-> {}] ELSE passes
        IN /\ tenants' = Allow(tenants, Tenant, now, Window, TenantLimit)
           /\ IF WithinLimit(tenants, Tenant, now, Window, TenantLimit)
              THEN /\ share' = [before EXCEPT ![c] = @ + 1]
                   /\ passes' = [others EXCEPT ![c] = @ \cup {place}]
                   /\ thread' = [thread EXCEPT ![th] =
                        [Moved(@, "lockout") EXCEPT !.pass = NoPass]]
              ELSE /\ UNCHANGED <<share, passes>>
                   /\ Finish(th)
  BY <1>3, <1>4 DEF CountTenant
<1>6. /\ job.since \in Nat /\ clock \in Nat /\ now \in Nat
      /\ MaxDelay \in Nat /\ 2 * MaxDelay <= Window
      /\ job.since <= now /\ now <= clock /\ clock <= job.since + MaxDelay
      /\ Window \in Nat \ {0} /\ TenantLimit \in Nat \ {0}
  <2>1. job.since \in Nat /\ clock \in Nat /\ clock <= job.since + MaxDelay
    BY <1>2 DEF Working, IInv, Types, ClockOK
  <2>2. QED BY <2>1, LimitsAssumption, DelayAssumption
<1>7. /\ place[1] \in Nat /\ place[2] \in Nat /\ place[1] <= job.since
      /\ job.since < place[1] + Window + MaxDelay
      /\ place[2] = 1 => job.since <= place[1] + MaxDelay
  BY <1>1, <1>4 DEF IInv, PendingOK
<1>8. tenants \in Seq(Counters({Tenant})) /\ Distinct(tenants)
  BY DEF IInv, Types, CountersOK
<1>9. CountersOK /\ ClockOK /\ PlacesOK /\ PendingOK /\ TakenOK /\ ShareOK /\ StrikesOK /\ Types
  BY DEF IInv
<1>10. /\ Elements(identities)' = Elements(identities)
       /\ Elements(violations)' = Elements(violations)
       /\ Elements(tenants)' = Elements(tenants')
  BY <1>1 DEF Elements
<1>11. CASE ~WithinLimit(tenants, Tenant, now, Window, TenantLimit)
  <2>1. /\ tenants' \in Seq(Counters({Tenant})) /\ Distinct(tenants')
        /\ Elements(tenants') = Elements(tenants)
    <3>1. tenants' = Allow(tenants, Tenant, now, Window, TenantLimit)
      BY <1>5
    <3>2. PICK K : K = {Tenant}
      OBVIOUS
    <3>3. tenants \in Seq(Counters(K)) /\ Tenant \in K
      BY <1>8, <3>2
    <3>4. /\ tenants' \in Seq(Counters(K)) /\ Distinct(tenants')
          /\ Elements(tenants') = Elements(tenants)
      BY <1>6, <1>8, <1>11, <3>1, <3>3, RefusedFacts
    <3>5. QED BY <3>2, <3>4
  <2>2. thread' = [thread EXCEPT ![th] = Idle] /\ UNCHANGED <<share, passes>>
    BY <1>5, <1>11 DEF Finish
  <2>3. Idle \in Jobs /\ Idle.pc = "idle"
    BY DEF Idle, Jobs
  <2>4. Types'
    BY <1>1, <1>9, <2>1, <2>2, <2>3, NewJob DEF Types
  <2>5. ClockOK'
    <3>1. \A u \in Threads :
            thread'[u] # Idle => thread'[u].since <= clock' /\ clock' <= thread'[u].since + MaxDelay
      BY <1>1, <1>9, <2>2, <2>3, MoveClock
    <3>2. QED BY <1>1, <1>9, <1>10, <2>1, <3>1 DEF ClockOK
  <2>6. CountersOK'
    <3>1. Distinct(identities)' /\ Distinct(tenants)' /\ Distinct(violations)'
      BY <1>1, <1>9, <2>1 DEF CountersOK, Distinct
    <3>2. QED BY <1>9, <1>10, <2>1, <3>1 DEF CountersOK
  <2>7. PlacesOK'
    BY <1>1, <1>3, <1>9, <2>2, <2>3, FewerPlaces
  <2>8. PendingOK'
    BY <1>9, <2>2, <2>3, MovePending
  <2>9. TakenOK' /\ ShareOK'
    BY <1>1, <1>9, <1>10, <2>1, <2>2 DEF TakenOK, ShareOK
  <2>10. StrikesOK'
    BY <1>1, <1>9, <2>2, <2>3, MoveStrikes
  <2>11. QED BY <2>4, <2>5, <2>6, <2>7, <2>8, <2>9, <2>10 DEF IInv
<1>12. CASE WithinLimit(tenants, Tenant, now, Window, TenantLimit)
  <2> DEFINE t == Current(tenants, Tenant, now, Window)
             fresh == t.count = 0
             before == IF fresh THEN [d \in Callers |-> 0] ELSE share
             others == IF fresh THEN [d \in Callers |-> {}] ELSE passes
             g == [key |-> Tenant, started |-> t.started, count |-> t.count + 1]
             moved == Moved(job, "lockout")
             after == [moved EXCEPT !.pass = NoPass]
  <2>1. /\ t \in Counters({Tenant}) /\ t.key = Tenant
        /\ \/ t \in Elements(tenants) /\ now - t.started < Window
           \/ t.started = now /\ t.count = 0
    <3>1. PICK K : K = {Tenant}
      OBVIOUS
    <3>2. tenants \in Seq(Counters(K)) /\ Tenant \in K
      BY <1>8, <3>1
    <3>3. /\ t \in Counters(K) /\ t.key = Tenant
          /\ \/ t \in Elements(tenants) /\ now - t.started < Window
             \/ t.started = now /\ t.count = 0
      BY <1>6, <1>8, <3>2, CurrentFacts
    <3>4. QED BY <3>1, <3>3
  <2>2. tenants' = Stored(tenants, g)
    <3>1. PICK K : K = {Tenant}
      OBVIOUS
    <3>2. tenants \in Seq(Counters(K)) /\ Tenant \in K
      BY <1>8, <3>1
    <3>3. Allow(tenants, Tenant, now, Window, TenantLimit) = Stored(tenants, g)
      BY <1>6, <1>8, <1>12, <3>2, AllowFacts
    <3>4. QED BY <1>5, <3>3
  <2>3. /\ share' = [before EXCEPT ![c] = @ + 1]
        /\ passes' = [others EXCEPT ![c] = @ \cup {place}]
        /\ thread' = [thread EXCEPT ![th] = after]
    BY <1>5, <1>12
  <2>4. /\ moved \in Working /\ moved.pc = "lockout" /\ moved.caller = c /\ moved.since = clock
    BY <1>2, <1>3, <1>9, MovedFacts DEF Pcs
  <2> HIDE DEF t, moved
  <2>5. t.started \in Nat /\ t.count \in Nat
    BY <2>1 DEF Counters
  <2>6. PICK start \in Nat : start = t.started
    BY <2>5
  <2>7. g \in Counters({Tenant}) /\ g.key = Tenant /\ g.started = start /\ g.count >= 1
    BY <2>5, <2>6 DEF Counters
  <2>8. /\ after \in Jobs /\ after.pc = "lockout" /\ after.since = clock
    <3>1. NoPass \in Nat \X Nat
      BY DEF NoPass
    <3>2. QED BY <2>4, <3>1, WithPass DEF Jobs
  <2> HIDE DEF g, after
  <2>9. /\ tenants' \in Seq(Counters({Tenant})) /\ Distinct(tenants')
        /\ Elements(tenants') = {g}
    <3>1. /\ tenants' \in Seq(Counters({Tenant})) /\ Distinct(tenants')
          /\ g \in Elements(tenants')
          /\ \A f \in Elements(tenants') : f = g \/ (f \in Elements(tenants) /\ f.key # Tenant)
      BY <1>8, <2>2, <2>7, StoredFacts
    <3>2. \A f \in Elements(tenants) : f.key = Tenant
      BY <1>8, ElementsTyped DEF Counters
    <3>3. QED BY <3>1, <3>2
  <2>10. start <= clock /\ now - start < Window
    <3>1. CASE t \in Elements(tenants) /\ now - t.started < Window
      BY <1>9, <2>6, <3>1 DEF ClockOK
    <3>2. CASE t.started = now
      BY <1>6, <2>6, <3>2
    <3>3. QED BY <2>1, <3>1, <3>2
  <2>11. ~fresh => t \in Elements(tenants)
    BY <2>1
  <2>12. /\ before \in [Callers -> Nat] /\ others \in [Callers -> SUBSET (Nat \X Nat)]
         /\ \A d \in Callers : others[d] \subseteq passes[d]
         /\ fresh => \A d \in Callers : before[d] = 0 /\ others[d] = {}
         /\ ~fresh => before = share /\ others = passes
    BY <1>9 DEF Types
  <2> HIDE DEF fresh, before, others
  <2>13. /\ share' \in [Callers -> Nat] /\ passes' \in [Callers -> SUBSET (Nat \X Nat)]
         /\ share'[c] = before[c] + 1 /\ passes'[c] = others[c] \cup {place}
         /\ \A d \in Callers : d # c => share'[d] = before[d] /\ passes'[d] = others[d]
    BY <2>3, <2>12
  <2>14. Types'
    BY <1>1, <1>9, <2>3, <2>8, <2>9, <2>13, NewJob DEF Types
  <2>15. ClockOK'
    <3>1. \A u \in Threads :
            thread'[u] # Idle => thread'[u].since <= clock' /\ clock' <= thread'[u].since + MaxDelay
      BY <1>1, <1>9, <2>3, <2>8, MoveClock
    <3>2. \A e \in Elements(tenants') : e.started <= clock
      BY <2>7, <2>9, <2>10
    <3>3. QED BY <1>1, <1>9, <1>10, <3>1, <3>2 DEF ClockOK
  <2>16. CountersOK'
    <3>1. Distinct(identities)' /\ Distinct(tenants)' /\ Distinct(violations)'
      BY <1>1, <1>9, <2>9 DEF CountersOK, Distinct
    <3>2. QED BY <1>9, <1>10, <2>7, <2>9, <3>1 DEF CountersOK
  <2>17. PlacesOK'
    <3>1. \A d \in Callers : passes'[d] \subseteq passes[d] \cup IF d = c THEN {job.pass} ELSE {}
      BY <1>4, <2>12, <2>13
    <3>2. after.pc # "tenant"
      BY <2>8
    <3>3. /\ thread' = [thread EXCEPT ![th] = after] /\ after \in Jobs
          /\ thread[th].pc = "tenant" /\ thread[th].caller = c
          /\ UNCHANGED <<identities, forgotten>>
      BY <1>1, <1>3, <2>3, <2>8
    <3>4. QED BY <1>9, <3>1, <3>2, <3>3, FewerPlaces
  <2>18. PendingOK'
    <3>1. after.pc # "tenant"
      BY <2>8
    <3>2. QED BY <1>9, <2>3, <2>8, <3>1, MovePending
  <2>19. TakenOK'
    <3>1. /\ place[1] < start + Window /\ start < place[1] + 2 * Window
          /\ place[2] = 1 => start <= place[1] + Window
      BY <1>6, <1>7, <2>10
    <3>2. ASSUME NEW d \in Callers, NEW p \in passes'[d]
          PROVE  /\ p[1] < start + Window /\ start < p[1] + 2 * Window
                 /\ p[2] = 1 => start <= p[1] + Window
      <4>1. CASE p = place
        BY <3>1, <4>1
      <4>2. CASE p \in others[d]
        <5>1. ~fresh /\ p \in passes[d]
          BY <2>12, <4>2
        <5>2. QED BY <1>9, <2>6, <2>11, <5>1 DEF TakenOK
      <4>3. QED BY <2>13, <4>1, <4>2
    <3>3. QED BY <1>10, <2>7, <2>9, <3>2 DEF TakenOK
  <2>20. ShareOK'
    <3> SUFFICES ASSUME NEW d \in Callers
                 PROVE  /\ IsFiniteSet(passes'[d])
                        /\ d \notin forgotten => share'[d] = Cardinality(passes'[d])
      BY <1>1 DEF ShareOK
    <3>1. IsFiniteSet(others[d]) /\ (d \notin forgotten => before[d] = Cardinality(others[d]))
      BY <1>9, <2>12, FS_EmptySet DEF ShareOK
    <3>2. CASE d # c
      BY <2>13, <3>1, <3>2
    <3>3. CASE d = c
      <4>1. d \notin forgotten => place \notin others[c]
        BY <1>1, <1>3, <1>4, <1>9, <2>12, <3>3 DEF PlacesOK, Pending
      <4>2. IsFiniteSet(others[c] \cup {place})
        BY <3>1, <3>3, FS_AddElement
      <4>3. d \notin forgotten => Cardinality(others[c] \cup {place}) = Cardinality(others[c]) + 1
        BY <3>1, <3>3, <4>1, FS_AddElement
      <4>4. QED BY <2>13, <3>1, <3>3, <4>2, <4>3
    <3>4. QED BY <3>2, <3>3
  <2>21. StrikesOK'
    <3>1. after.pc \notin {"judge", "record"} /\ forgotten \subseteq forgotten'
      BY <1>1, <2>8
    <3>2. QED BY <1>1, <1>9, <2>3, <2>8, <3>1, MoveStrikes
  <2>22. QED BY <2>14, <2>15, <2>16, <2>17, <2>18, <2>19, <2>20, <2>21 DEF IInv
<1>13. QED BY <1>11, <1>12

LEMMA NextIInv ==
  ASSUME IInv, [Next]_vars
  PROVE  IInv'
<1>1. CASE Tick
  BY <1>1, TickIInv
<1>2. ASSUME NEW th \in Threads, NEW c \in Callers, NEW docs \in DocCounts, Receive(th, c, docs)
      PROVE  IInv'
  BY <1>2, ReceiveIInv
<1>3. ASSUME NEW th \in Threads, CountIdentity(th)
      PROVE  IInv'
  BY <1>3, CountIdentityIInv
<1>4. ASSUME NEW th \in Threads, CountTenant(th)
      PROVE  IInv'
  BY <1>4, CountTenantIInv
<1>5. ASSUME NEW th \in Threads, AskLockout(th)
      PROVE  IInv'
  BY <1>5, AskLockoutIInv
<1>6. ASSUME NEW th \in Threads, JudgeContent(th)
      PROVE  IInv'
  BY <1>6, JudgeContentIInv
<1>7. ASSUME NEW th \in Threads, JudgeViolation(th)
      PROVE  IInv'
  BY <1>7, JudgeViolationIInv
<1>8. ASSUME NEW th \in Threads, NEW size \in Sizes, AdmitDocument(th, size)
      PROVE  IInv'
  BY <1>8, AdmitDocumentIInv
<1>9. ASSUME NEW th \in Threads, RefuseDocument(th)
      PROVE  IInv'
  BY <1>9, RefuseDocumentIInv
<1>10. ASSUME NEW th \in Threads, Conclude(th)
       PROVE  IInv'
  BY <1>10, ConcludeIInv
<1>11. ASSUME NEW th \in Threads, RecordViolation(th)
       PROVE  IInv'
  BY <1>11, RecordViolationIInv
<1>12. CASE UNCHANGED vars
  <2>1. /\ UNCHANGED <<clock, thread, identities, tenants, violations>>
        /\ UNCHANGED <<share, passes, strikes, forgotten>>
    BY <1>12 DEF vars
  <2>2. Types' /\ ClockOK' /\ CountersOK' /\ PendingOK' /\ TakenOK' /\ ShareOK'
    <3>1. Types' /\ PendingOK' /\ ShareOK'
      BY <2>1 DEF IInv, Types, PendingOK, ShareOK
    <3>2. ClockOK' /\ TakenOK'
      BY <2>1 DEF IInv, ClockOK, TakenOK, Elements
    <3>3. CountersOK'
      BY <2>1 DEF IInv, CountersOK, Distinct, Elements
    <3>4. QED BY <3>1, <3>2, <3>3
  <2>3. PlacesOK'
    BY <2>1 DEF IInv, PlacesOK, Elements, Keys, Made, Pending, Apart
  <2>4. StrikesOK'
    <3>1. Elements(violations)' = Elements(violations) /\ Keys(violations)' = Keys(violations)
      BY <2>1 DEF Elements, Keys
    <3>2. ASSUME NEW c \in Callers, NEW e \in Elements(violations)
          PROVE  Coming(c, e.started)' = Coming(c, e.started)
      BY <2>1 DEF Coming, Adds, Docs
    <3>3. QED BY <2>1, <3>1, <3>2 DEF IInv, StrikesOK, Ceiling
  <2>5. QED BY <2>2, <2>3, <2>4 DEF IInv
<1>13. QED BY <1>1, <1>2, <1>3, <1>4, <1>5, <1>6, <1>7, <1>8, <1>9, <1>10, <1>11, <1>12 DEF Next

LEMMA Invariance == Spec => []IInv
<1>1. IInv /\ [Next]_vars => IInv'
  BY NextIInv
<1>2. QED BY <1>1, InitIInv, PTL DEF Spec

-----------------------------------------------------------------------------
(* What it shows *)

(* Places in windows of one length that do not overlap, of which none      *)
(* starts two lengths before a time or a length after it and those that    *)
(* start more than one before it have lost their first place.              *)
LEMMA ThreeWindows ==
  ASSUME NEW P \in SUBSET (Nat \X Nat), NEW T \in Nat,
         \A p \in P : /\ p[2] \in 1..IdentityLimit
                      /\ p[1] < T + Window /\ T < p[1] + 2 * Window
                      /\ p[2] = 1 => T <= p[1] + Window,
         \A p, q \in P : Apart(p, q)
  PROVE  Cardinality(P) <= 3 * IdentityLimit - 1
<1> DEFINE zone(p) == IF p[1] + Window < T THEN 1 ELSE IF p[1] < T THEN 2 ELSE 3
           all == (1..3) \X (1..IdentityLimit)
           most == all \ {<<1, 1>>}
           f == [p \in P |-> <<zone(p), p[2]>>]
<1>1. IdentityLimit \in Nat \ {0} /\ Window \in Nat \ {0}
  BY LimitsAssumption
<1>2. IsFiniteSet(most) /\ Cardinality(most) = 3 * IdentityLimit - 1
  <2>1. IsFiniteSet(1..3) /\ Cardinality(1..3) = 3
    <3>1. 1 \in Int /\ 3 \in Int /\ ~(1 > 3) /\ 3 - 1 + 1 = 3
      OBVIOUS
    <3>2. QED BY <3>1, FS_Interval
  <2>2. IsFiniteSet(1..IdentityLimit) /\ Cardinality(1..IdentityLimit) = IdentityLimit
    <3>1. /\ 1 \in Int /\ IdentityLimit \in Int /\ ~(1 > IdentityLimit)
          /\ IdentityLimit - 1 + 1 = IdentityLimit
      BY <1>1
    <3>2. QED BY <3>1, FS_Interval
  <2>3. IsFiniteSet(all) /\ Cardinality(all) = 3 * IdentityLimit
    <3>1. PICK S, U : S = 1..3 /\ U = 1..IdentityLimit
      OBVIOUS
    <3>2. IsFiniteSet(S \X U) /\ Cardinality(S \X U) = Cardinality(S) * Cardinality(U)
      BY <2>1, <2>2, <3>1, FS_Product
    <3>3. QED BY <2>1, <2>2, <3>1, <3>2
  <2>4. <<1, 1>> \in all
    BY <1>1
  <2> HIDE DEF all
  <2>5. QED BY <2>3, <2>4, FS_RemoveElement
<1>3. ASSUME NEW p \in P
      PROVE  <<zone(p), p[2]>> \in most
  <2>1. zone(p) \in 1..3
    OBVIOUS
  <2>2. p[1] \in Nat /\ p[2] \in 1..IdentityLimit
    OBVIOUS
  <2>3. ~(zone(p) = 1 /\ p[2] = 1)
    BY <1>1, <2>2
  <2>4. QED BY <2>1, <2>2, <2>3
<1>4. ASSUME NEW p \in P, NEW q \in P, zone(p) = zone(q), p[2] = q[2]
      PROVE  p = q
  <2>1. p[1] \in Nat /\ q[1] \in Nat /\ p = <<p[1], p[2]>> /\ q = <<q[1], q[2]>>
    OBVIOUS
  <2>2. /\ p[1] < T + Window /\ T < p[1] + 2 * Window
        /\ q[1] < T + Window /\ T < q[1] + 2 * Window
    OBVIOUS
  <2>3. p[1] = q[1] \/ p[1] + Window <= q[1] \/ q[1] + Window <= p[1]
    BY DEF Apart
  <2>4. p[1] = q[1]
    BY <1>1, <1>4, <2>1, <2>2, <2>3
  <2>5. QED BY <1>4, <2>1, <2>4
<1> HIDE DEF zone, most
<1>5. f \in [P -> most]
  BY <1>3
<1>6. \A p, q \in P : f[p] = f[q] => p = q
  BY <1>4
<1> HIDE DEF f
<1>7. f \in Injection(P, most)
  BY <1>5, <1>6, Fun_IsInj
<1>8. QED BY <1>2, <1>7, FS_Injection

(* service.py _within_quota: one window of the tenant takes from a caller  *)
(* less than the allowance of three of the caller's own windows, however   *)
(* the threads that count interleave and whatever the limits are.          *)
THEOREM CallerSparesTenant == Spec => []NoisyCallerSparesTenant
<1>1. IInv => NoisyCallerSparesTenant
  <2> SUFFICES ASSUME IInv, NEW c \in Callers, c \notin forgotten
               PROVE  share[c] <= 3 * IdentityLimit - 1
    BY DEF NoisyCallerSparesTenant
  <2>1. share[c] = Cardinality(passes[c]) /\ passes[c] \in SUBSET (Nat \X Nat)
    BY DEF IInv, ShareOK, Types
  <2>2. CASE Elements(tenants) = {}
    <3>1. share[c] = 0
      BY <2>1, <2>2, FS_EmptySet DEF IInv, TakenOK
    <3>2. QED BY <3>1, LimitsAssumption
  <2>3. CASE Elements(tenants) # {}
    <3>1. PICK e \in Elements(tenants) : TRUE
      BY <2>3
    <3>2. e.started \in Nat
      <4>1. e \in Counters({Tenant})
        BY ElementsTyped DEF IInv, Types
      <4>2. QED BY <4>1 DEF Counters
    <3>3. passes[c] \subseteq Made(c)
      BY DEF Made
    <3>4. ASSUME NEW p \in passes[c]
          PROVE  /\ p[2] \in 1..IdentityLimit
                 /\ p[1] < e.started + Window /\ e.started < p[1] + 2 * Window
                 /\ p[2] = 1 => e.started <= p[1] + Window
      <4>1. PICK f \in Elements(identities) : f.key = c
        BY <3>3, KeysFacts DEF IInv, PlacesOK
      <4>2. p[2] \in 1..IdentityLimit
        BY <3>3, <4>1 DEF IInv, PlacesOK
      <4>3. QED BY <4>2 DEF IInv, TakenOK
    <3>5. \A p, q \in passes[c] : Apart(p, q)
      BY <3>3 DEF IInv, PlacesOK
    <3>6. QED BY <2>1, <3>2, <3>4, <3>5, ThreeWindows
  <2>4. QED BY <2>2, <2>3
<1>2. QED BY <1>1, Invariance, PTL

(* limits.py ViolationHistory, asked once per request: past the threshold  *)
(* the violations of a window come only from requests that were past the   *)
(* lockout already, whatever the threads, batches and thresholds are.      *)
THEOREM LockoutBounds == Spec => []LockoutHolds
<1>1. IInv => LockoutHolds
  <2> SUFFICES ASSUME IInv, NEW c \in Callers, c \notin forgotten
               PROVE  strikes[c] <= Ceiling
    BY DEF LockoutHolds, Ceiling
  <2>1. strikes[c] \in Nat /\ Threshold \in Nat \ {0}
    BY LimitsAssumption DEF IInv, Types
  <2>2. Ceiling \in Int /\ Threshold - 1 <= Ceiling
    <3>1. {} \subseteq Threads \X (1..MaxDocs) /\ Cardinality({}) = 0
      BY FS_EmptySet
    <3>2. QED BY <2>1, <3>1, PairsFacts
  <2>3. CASE strikes[c] < Threshold
    BY <2>1, <2>2, <2>3
  <2>4. CASE strikes[c] >= Threshold
    <3>1. PICK e \in Elements(violations) : e.key = c
      BY <2>1, <2>4, KeysFacts DEF IInv, StrikesOK
    <3> DEFINE n == Cardinality(Coming(c, e.started))
    <3>2. strikes[c] + n <= Ceiling
      BY <2>4, <3>1 DEF IInv, StrikesOK
    <3>3. n \in Nat
      BY ComingPairs, PairsFacts
    <3> HIDE DEF n
    <3>4. QED BY <2>1, <2>2, <3>2, <3>3
  <2>5. QED BY <2>1, <2>3, <2>4
<1>2. QED BY <1>1, Invariance, PTL

-----------------------------------------------------------------------------
(* The least element of a set of numbers, which stands for induction.      *)

LEMMA LeastOf ==
  ASSUME NEW T \in SUBSET Nat, T # {}
  PROVE  \E n \in T : \A m \in T : n <= m
<1> DEFINE R == {ss \in Nat \X Nat : ss[1] < ss[2]}
<1>1. IsWellFoundedOn(R, Nat)
  BY NatLessThanWellFounded DEF OpToRel
<1>2. \A m \in Nat, n \in Nat : <<m, n>> \in R <=> m < n
  OBVIOUS
<1> HIDE DEF R
<1>3. PICK n \in T : \A m \in T : ~(<<m, n>> \in R)
  BY <1>1, WFMin
<1>4. ASSUME NEW m \in T
      PROVE  n <= m
  <2>1. m \in Nat /\ n \in Nat
    OBVIOUS
  <2>2. ~(m < n)
    BY <1>2, <1>3, <2>1
  <2>3. QED BY <2>1, <2>2
<1>5. QED BY <1>4

-----------------------------------------------------------------------------
(* Tables of rules *)

(* A table whose rule i applies, and none before it, decides as i says. *)
LEMMA FirstOfIs ==
  ASSUME NEW rules, NEW n \in Nat, DOMAIN rules = 1..n, NEW i \in 1..n,
         rules[i].when, \A j \in 1..(i - 1) : ~rules[j].when
  PROVE  FirstOf(rules) = rules[i].then
<1> DEFINE First(k) == k \in DOMAIN rules /\ rules[k].when /\ \A j \in 1..(k - 1) : ~rules[j].when
           c == CHOOSE k \in DOMAIN rules : rules[k].when /\ \A j \in 1..(k - 1) : ~rules[j].when
<1>1. First(c)
  OBVIOUS
<1>2. \A k : First(k) => k = i
  OBVIOUS
<1>3. c = i
  BY <1>1, <1>2
<1>4. FirstOf(rules) = rules[c].then
  BY Zenon DEF FirstOf
<1>5. QED BY <1>3, <1>4

(* If some rule applies, one of those that apply decides, the first.       *)
LEMMA FirstOfSome ==
  ASSUME NEW rules, NEW n \in Nat, DOMAIN rules = 1..n, \E i \in 1..n : rules[i].when
  PROVE  \E i \in 1..n : /\ rules[i].when /\ \A j \in 1..(i - 1) : ~rules[j].when
                         /\ FirstOf(rules) = rules[i].then
<1> DEFINE T == {i \in 1..n : rules[i].when}
<1>1. T \in SUBSET Nat /\ T # {}
  OBVIOUS
<1>2. PICK i \in T : \A j \in T : i <= j
  <2> HIDE DEF T
  <2>1. QED BY <1>1, LeastOf
<1>3. \A j \in 1..(i - 1) : ~rules[j].when
  BY <1>2
<1>4. QED BY <1>2, <1>3, FirstOfIs

-----------------------------------------------------------------------------
(* The policies *)

Kinds(evidence) == {e.category : e \in evidence}
Governed(evidence, rule) == {rule[c] : c \in Kinds(evidence) \cap Sensitive} \ {"allow"}

(* What the first ten rules of a policy on contents ask, and answer. *)
Asks(t, req, evidence, rule) ==
  /\ t[1].when <=> req.source \notin {NoTenant, req.tenant}
  /\ t[2].when <=> "canary" \in Kinds(evidence)
  /\ t[3].when <=> \E e \in evidence : e.decoded
  /\ t[4].when <=> "embedded_action" \in Kinds(evidence) /\ req.point \in {"output", "context"}
  /\ t[5].when <=> /\ Kinds(evidence) \cap {"prompt_injection", "jailbreak"} # {}
                   /\ req.point = "context" \/ req.trust = "untrusted"
  /\ t[6].when <=> "deny" \in Governed(evidence, rule)
  /\ t[7].when <=> Governed(evidence, rule) # {} /\ req.point = "output"
  /\ t[8].when <=> Governed(evidence, rule) = {"pseudonymize"}
  /\ t[9].when <=> Governed(evidence, rule) # {}
  /\ t[10].when

Answers(t) ==
  /\ t[1].then = <<"deny", "cross_tenant_context">>
  /\ t[2].then = <<"deny", "canary_leak_detected">>
  /\ t[3].then = <<"deny", "obfuscated_content_detected">>
  /\ t[4].then = <<"deny", "embedded_action_detected">>
  /\ t[5].then = <<"deny", "prompt_injection_detected">>
  /\ t[6].then = <<"deny", "sensitive_content_denied">>
  /\ t[7].then = <<"deny", "sensitive_output_detected">>
  /\ t[8].then = <<"transform", "sensitive_content_pseudonymized">>
  /\ t[9].then = <<"transform", "sensitive_content_redacted">>
  /\ t[10].then = <<"allow", "policy_allow">>

(* The built-in policy on contents, rule by rule. *)
LEMMA ContentTable ==
  ASSUME NEW req, NEW evidence, NEW rule, NEW t, t = ContentRules(req, evidence, rule)
  PROVE  DOMAIN t = 1..10 /\ Asks(t, req, evidence, rule) /\ Answers(t)
<1>1. DOMAIN t = 1..10
  BY DEF ContentRules, Deny, Rule
<1>2. /\ t[1].when <=> req.source \notin {NoTenant, req.tenant}
      /\ t[2].when <=> "canary" \in Kinds(evidence)
      /\ t[3].when <=> \E e \in evidence : e.decoded
      /\ t[4].when <=> "embedded_action" \in Kinds(evidence) /\ req.point \in {"output", "context"}
      /\ t[5].when <=> /\ Kinds(evidence) \cap {"prompt_injection", "jailbreak"} # {}
                       /\ req.point = "context" \/ req.trust = "untrusted"
  BY DEF Kinds, ContentRules, Deny, Rule
<1>3. /\ t[6].when <=> "deny" \in Governed(evidence, rule)
      /\ t[7].when <=> Governed(evidence, rule) # {} /\ req.point = "output"
      /\ t[8].when <=> Governed(evidence, rule) = {"pseudonymize"}
      /\ t[9].when <=> Governed(evidence, rule) # {}
      /\ t[10].when
  BY DEF Kinds, Governed, ContentRules, Deny, Rule
<1>4. Asks(t, req, evidence, rule)
  BY <1>2, <1>3 DEF Asks
<1>5. /\ t[1].then = <<"deny", "cross_tenant_context">>
      /\ t[2].then = <<"deny", "canary_leak_detected">>
      /\ t[3].then = <<"deny", "obfuscated_content_detected">>
      /\ t[4].then = <<"deny", "embedded_action_detected">>
      /\ t[5].then = <<"deny", "prompt_injection_detected">>
  BY DEF ContentRules, Deny, Rule
<1>6. /\ t[6].then = <<"deny", "sensitive_content_denied">>
      /\ t[7].then = <<"deny", "sensitive_output_detected">>
      /\ t[8].then = <<"transform", "sensitive_content_pseudonymized">>
      /\ t[9].then = <<"transform", "sensitive_content_redacted">>
      /\ t[10].then = <<"allow", "policy_allow">>
  BY DEF ContentRules, Deny, Rule
<1>7. Answers(t)
  BY <1>5, <1>6 DEF Answers
<1>8. QED BY <1>1, <1>4, <1>7

(* The Rego module, rule by rule. *)
Ruled(doc, c) == IF c \in DOMAIN doc.entity_actions THEN doc.entity_actions[c] ELSE "redact"
RegoGoverned(doc) == {a \in {Ruled(doc, c) : c \in Kinds(doc.evidence) \cap Sensitive} : a # "allow"}

LEMMA RegoTable ==
  ASSUME NEW doc, NEW t, t = RegoContentRules(doc)
  PROVE  /\ DOMAIN t = 1..11
         /\ t[1].when <=> doc.req.source # NoTenant /\ doc.req.source # doc.req.tenant
         /\ t[2].when <=> "canary" \in Kinds(doc.evidence)
         /\ t[3].when <=> \E item \in doc.evidence : item.obfuscated
         /\ t[4].when <=> /\ "embedded_action" \in Kinds(doc.evidence)
                          /\ doc.req.point \in {"output", "context"}
         /\ t[5].when <=> /\ Kinds(doc.evidence) \cap {"prompt_injection", "jailbreak"} # {}
                          /\ doc.req.point = "context" \/ doc.req.trust = "untrusted"
         /\ t[6].when <=> "deny" \in RegoGoverned(doc)
         /\ t[7].when <=> RegoGoverned(doc) # {} /\ doc.req.point = "output"
         /\ t[8].when <=> RegoGoverned(doc) = {"pseudonymize"}
         /\ t[9].when <=> RegoGoverned(doc) # {}
         /\ t[10].when <=> doc.req.point \in {"input", "context", "output"}
         /\ Answers(t)
<1>1. DOMAIN t = 1..11
  BY DEF RegoContentRules, Deny, Rule
<1>2. /\ t[1].when <=> doc.req.source # NoTenant /\ doc.req.source # doc.req.tenant
      /\ t[2].when <=> "canary" \in Kinds(doc.evidence)
      /\ t[3].when <=> \E item \in doc.evidence : item.obfuscated
      /\ t[4].when <=> /\ "embedded_action" \in Kinds(doc.evidence)
                       /\ doc.req.point \in {"output", "context"}
      /\ t[5].when <=> /\ Kinds(doc.evidence) \cap {"prompt_injection", "jailbreak"} # {}
                       /\ doc.req.point = "context" \/ doc.req.trust = "untrusted"
  BY DEF Kinds, RegoContentRules, Deny, Rule
<1>3. /\ t[6].when <=> "deny" \in RegoGoverned(doc)
      /\ t[7].when <=> RegoGoverned(doc) # {} /\ doc.req.point = "output"
      /\ t[8].when <=> RegoGoverned(doc) = {"pseudonymize"}
      /\ t[9].when <=> RegoGoverned(doc) # {}
      /\ t[10].when <=> doc.req.point \in {"input", "context", "output"}
  BY DEF Kinds, RegoGoverned, Ruled, RegoContentRules, Deny, Rule
<1>4. /\ t[1].then = <<"deny", "cross_tenant_context">>
      /\ t[2].then = <<"deny", "canary_leak_detected">>
      /\ t[3].then = <<"deny", "obfuscated_content_detected">>
      /\ t[4].then = <<"deny", "embedded_action_detected">>
      /\ t[5].then = <<"deny", "prompt_injection_detected">>
  BY DEF RegoContentRules, Deny, Rule
<1>5. /\ t[6].then = <<"deny", "sensitive_content_denied">>
      /\ t[7].then = <<"deny", "sensitive_output_detected">>
      /\ t[8].then = <<"transform", "sensitive_content_pseudonymized">>
      /\ t[9].then = <<"transform", "sensitive_content_redacted">>
      /\ t[10].then = <<"allow", "policy_allow">>
  BY DEF RegoContentRules, Deny, Rule
<1>6. Answers(t)
  BY <1>4, <1>5 DEF Answers
<1>7. QED BY <1>1, <1>2, <1>3, <1>6

(* What the decision point is told says as much as the evidence itself. *)
LEMMA Told ==
  ASSUME NEW req, NEW evidence, NEW rule, NEW doc, doc = ContentDocument(req, evidence, rule)
  PROVE  /\ doc.req = req
         /\ Kinds(doc.evidence) = Kinds(evidence)
         /\ (\E item \in doc.evidence : item.obfuscated) <=> \E e \in evidence : e.decoded
         /\ RegoGoverned(doc) = Governed(evidence, rule)
<1> DEFINE told(e) == [category |-> e.category, obfuscated |-> e.decoded]
<1>1. /\ doc.req = req
      /\ doc.evidence = {told(e) : e \in evidence}
      /\ DOMAIN doc.entity_actions = Kinds(evidence)
      /\ \A c \in Kinds(evidence) :
           doc.entity_actions[c] = IF c \in Sensitive THEN rule[c] ELSE "redact"
  BY DEF ContentDocument, Kinds
<1>2. /\ \A e \in evidence : told(e) \in doc.evidence
      /\ \A item \in doc.evidence : \E e \in evidence : item = told(e)
  BY <1>1
<1>3. \A e : told(e).category = e.category /\ told(e).obfuscated = e.decoded
  OBVIOUS
<1> HIDE DEF told
<1>4. ASSUME NEW e \in evidence, e.decoded
      PROVE  \E item \in doc.evidence : item.obfuscated
  BY <1>2, <1>3, <1>4
<1>5. ASSUME NEW item \in doc.evidence, item.obfuscated
      PROVE  \E e \in evidence : e.decoded
  BY <1>2, <1>3, <1>5
<1>6. Kinds(doc.evidence) = Kinds(evidence)
  BY <1>2, <1>3 DEF Kinds
<1>7. \A c \in Kinds(evidence) \cap Sensitive : Ruled(doc, c) = rule[c]
  BY <1>1 DEF Ruled
<1>8. RegoGoverned(doc) = Governed(evidence, rule)
  BY <1>6, <1>7 DEF RegoGoverned, Governed
<1>9. QED BY <1>1, <1>4, <1>5, <1>6, <1>8

(* For one content the deployed rules decide what the built-in ones do. *)
LEMMA ContentAgrees ==
  ASSUME NEW req, req.point \in {"input", "context", "output"}, NEW evidence, NEW rule
  PROVE  RegoContent(ContentDocument(req, evidence, rule)) = ContentVerdict(req, evidence, rule)
<1> DEFINE a == ContentRules(req, evidence, rule)
           doc == ContentDocument(req, evidence, rule)
           b == RegoContentRules(doc)
<1>1. DOMAIN a = 1..10 /\ Asks(a, req, evidence, rule) /\ Answers(a)
  BY ContentTable
<1>2. /\ doc.req = req
      /\ Kinds(doc.evidence) = Kinds(evidence)
      /\ (\E item \in doc.evidence : item.obfuscated) <=> \E e \in evidence : e.decoded
      /\ RegoGoverned(doc) = Governed(evidence, rule)
  BY Told
<1> HIDE DEF doc
<1>3. DOMAIN b = 1..11 /\ Asks(b, req, evidence, rule) /\ Answers(b)
  <2> HIDE DEF b
  <2>1. b = RegoContentRules(doc)
    BY DEF b
  <2>2. QED BY <1>2, <2>1, RegoTable DEF Asks
<1> HIDE DEF a, b
<1>4. \A i \in {1, 2, 3, 4, 5, 6, 7, 8, 9, 10} : a[i].when <=> b[i].when
  BY <1>1, <1>3 DEF Asks
<1>5. \A i \in {1, 2, 3, 4, 5, 6, 7, 8, 9, 10} : a[i].then = b[i].then
  BY <1>1, <1>3 DEF Answers
<1>6. \A i \in 1..10 : i \in {1, 2, 3, 4, 5, 6, 7, 8, 9, 10}
  OBVIOUS
<1>7. PICK i \in 1..10 : /\ a[i].when /\ \A j \in 1..(i - 1) : ~a[j].when
                         /\ FirstOf(a) = a[i].then
  <2>1. \E i \in 1..10 : a[i].when
    BY <1>1 DEF Asks
  <2>2. QED BY <1>1, <2>1, FirstOfSome
<1>8. i \in 1..11 /\ b[i].when /\ b[i].then = a[i].then
  BY <1>4, <1>5, <1>6, <1>7
<1>9. \A j \in 1..(i - 1) : ~b[j].when
  BY <1>4, <1>6, <1>7
<1>10. FirstOf(b) = b[i].then
  BY <1>3, <1>8, <1>9, FirstOfIs
<1>11. QED BY <1>7, <1>8, <1>10 DEF a, b, doc, ContentVerdict, RegoContent

-----------------------------------------------------------------------------
(* The policies on actions *)

(* What may be wrong with arguments. *)
Violations ==
  {Fine, "invalid_tool_arguments", "invalid_sql_arguments", "sql_not_read_only",
   "sql_function_not_allowed", "path_outside_workspace", "url_not_permitted",
   "url_host_not_allowlisted", "network_requires_approval"}

(* What argument_violation says is one of its codes. *)
LEMMA ViolationKnown ==
  ASSUME NEW req
  PROVE  ArgumentViolation(req) \in Violations
<1>1. SqlViolation(req.arguments.query) \in Violations
  BY DEF SqlViolation, Violations
<1>2. PathViolation(req.arguments.path) \in Violations
  BY DEF PathViolation, Violations
<1>3. UrlViolation(req.arguments.url) \in Violations
  BY DEF UrlViolation, Violations
<1>4. QED
  BY <1>1, <1>2, <1>3 DEF ArgumentViolation, Violations

(* What the first seven rules of a policy on actions answer. *)
ActionAnswers(t, violation) ==
  /\ t[1].then = <<"deny", "tool_not_allowlisted">>
  /\ t[2].then = <<"deny", "tool_not_authorized_for_role">>
  /\ t[3].then = <<"deny", "side_effect_mismatch">>
  /\ t[4].then = <<"deny", "resource_tenant_mismatch">>
  /\ t[5].then = <<"deny", violation>>
  /\ t[6].then = <<"require_approval", "risky_action_requires_approval">>
  /\ t[7].then = <<"allow", "action_policy_allow">>

(* The built-in policy on actions, rule by rule. *)
LEMMA ActionTable ==
  ASSUME NEW req, NEW t, t = ActionRules(req)
  PROVE  /\ DOMAIN t = 1..7
         /\ t[1].when <=> req.tool \notin DOMAIN Tools
         /\ t[2].when <=> req.roles \cap Permitted(req.tool).roles = {}
         /\ t[3].when <=> req.effect \notin Permitted(req.tool).effects
         /\ t[4].when <=> req.resource # req.tenant
         /\ t[5].when <=> ArgumentViolation(req) # Fine
         /\ t[6].when <=> req.effect \in ApprovalEffects
         /\ t[7].when
         /\ ActionAnswers(t, ArgumentViolation(req))
<1>1. DOMAIN t = 1..7
  BY DEF ActionRules, Deny, Rule
<1>2. /\ t[1].when <=> req.tool \notin DOMAIN Tools
      /\ t[2].when <=> req.roles \cap Permitted(req.tool).roles = {}
      /\ t[3].when <=> req.effect \notin Permitted(req.tool).effects
      /\ t[4].when <=> req.resource # req.tenant
  BY DEF ActionRules, Deny, Rule
<1>3. /\ t[5].when <=> ArgumentViolation(req) # Fine
      /\ t[6].when <=> req.effect \in ApprovalEffects
      /\ t[7].when
  BY DEF ActionRules, Deny, Rule
<1>4. ActionAnswers(t, ArgumentViolation(req))
  BY DEF ActionRules, Deny, Rule, ActionAnswers
<1>5. QED BY <1>1, <1>2, <1>3, <1>4

(* The Rego module for actions, rule by rule. *)
LEMMA RegoActionTable ==
  ASSUME NEW doc, NEW t, t = RegoActionRules(doc)
  PROVE  /\ DOMAIN t = 1..8
         /\ t[1].when <=> doc.tool \notin DOMAIN Tools
         /\ t[2].when <=> {r \in doc.roles : r \in Permitted(doc.tool).roles} = {}
         /\ t[3].when <=> doc.effect \notin Permitted(doc.tool).effects
         /\ t[4].when <=> doc.resource # doc.tenant
         /\ t[5].when <=> doc.violation # Fine
         /\ t[6].when <=> doc.effect \in ApprovalEffects /\ doc.violation = Fine
         /\ t[7].when <=> doc.violation = Fine
         /\ ActionAnswers(t, doc.violation)
<1>1. DOMAIN t = 1..8
  BY DEF RegoActionRules, Deny, Rule
<1>2. /\ t[1].when <=> doc.tool \notin DOMAIN Tools
      /\ t[2].when <=> {r \in doc.roles : r \in Permitted(doc.tool).roles} = {}
      /\ t[3].when <=> doc.effect \notin Permitted(doc.tool).effects
      /\ t[4].when <=> doc.resource # doc.tenant
  BY DEF RegoActionRules, Deny, Rule
<1>3. /\ t[5].when <=> doc.violation # Fine
      /\ t[6].when <=> doc.effect \in ApprovalEffects /\ doc.violation = Fine
      /\ t[7].when <=> doc.violation = Fine
  BY DEF RegoActionRules, Deny, Rule
<1>4. ActionAnswers(t, doc.violation)
  BY DEF RegoActionRules, Deny, Rule, ActionAnswers
<1>5. QED BY <1>1, <1>2, <1>3, <1>4

(* Which rule of the built-in policy decides about an action; one about    *)
(* the arguments decides before any that lets it go on.                    *)
LEMMA ActionDecided ==
  ASSUME NEW req
  PROVE  LET t == ActionRules(req) IN
         \E i \in 1..7 : /\ t[i].when /\ \A j \in 1..(i - 1) : ~t[j].when
                         /\ ActionVerdict(req) = t[i].then
                         /\ t[i].then[1] = "deny" \/ ArgumentViolation(req) = Fine
                         /\ t[i].then[1] \in {"allow", "deny", "require_approval"}
                         /\ t[i].then[2] # "not a code"
<1> DEFINE t == ActionRules(req)
<1>1. /\ DOMAIN t = 1..7
      /\ t[5].when <=> ArgumentViolation(req) # Fine
      /\ t[7].when
      /\ ActionAnswers(t, ArgumentViolation(req))
  BY ActionTable
<1>2. ActionVerdict(req) = FirstOf(t)
  BY DEF ActionVerdict
<1>3. ArgumentViolation(req) \in Violations
  BY ViolationKnown
<1> HIDE DEF t
<1>4. PICK i \in 1..7 : /\ t[i].when /\ \A j \in 1..(i - 1) : ~t[j].when
                        /\ FirstOf(t) = t[i].then
  <2>1. \E i \in 1..7 : t[i].when
    BY <1>1
  <2>2. QED BY <1>1, <2>1, FirstOfSome
<1>5. i \in {1, 2, 3, 4, 5, 6, 7}
  OBVIOUS
<1>6. /\ t[i].then[1] \in {"allow", "deny", "require_approval"}
      /\ t[i].then[2] # "not a code"
  <2>1. \A k \in {1, 2, 3, 4, 6, 7} :
          /\ t[k].then[1] \in {"allow", "deny", "require_approval"}
          /\ t[k].then[2] # "not a code"
    <3> DEFINE Fit(a) == a[1] \in {"allow", "deny", "require_approval"} /\ a[2] # "not a code"
    <3>1. /\ Fit(<<"deny", "tool_not_allowlisted">>)
          /\ Fit(<<"deny", "tool_not_authorized_for_role">>)
          /\ Fit(<<"deny", "side_effect_mismatch">>)
          /\ Fit(<<"deny", "resource_tenant_mismatch">>)
          /\ Fit(<<"require_approval", "risky_action_requires_approval">>)
          /\ Fit(<<"allow", "action_policy_allow">>)
      OBVIOUS
    <3> HIDE DEF Fit
    <3>2. \A k \in {1, 2, 3, 4, 6, 7} : Fit(t[k].then)
      BY <1>1, <3>1 DEF ActionAnswers
    <3>3. QED BY <3>2 DEF Fit
  <2>2. t[5].then[1] = "deny" /\ t[5].then[2] = ArgumentViolation(req)
    BY <1>1 DEF ActionAnswers
  <2>3. "not a code" \notin Violations
    BY DEF Violations, Fine
  <2>4. QED BY <1>3, <1>5, <2>1, <2>2, <2>3
<1>7. t[i].then[1] = "deny" \/ ArgumentViolation(req) = Fine
  <2>1. i \in {1, 2, 3, 4, 5} => t[i].then[1] = "deny"
    BY <1>1 DEF ActionAnswers
  <2>2. i \in {6, 7} => 5 \in 1..(i - 1)
    OBVIOUS
  <2>3. QED BY <1>1, <1>4, <1>5, <2>1, <2>2
<1>8. QED BY <1>2, <1>4, <1>6, <1>7 DEF t

(* For one action the deployed rules, asked through the client, decide     *)
(* what the built-in ones do, and the floor changes nothing.               *)
LEMMA ActionAgrees ==
  ASSUME NEW req
  PROVE  OpaAction(req, ActionAnswer("rules", req)) = ActionVerdict(req)
<1> DEFINE a == ActionRules(req)
           doc == ActionDocument(req)
           b == RegoActionRules(doc)
           v == ArgumentViolation(req)
<1>1. PICK i \in 1..7 : /\ a[i].when /\ \A j \in 1..(i - 1) : ~a[j].when
                        /\ ActionVerdict(req) = a[i].then
                        /\ a[i].then[1] = "deny" \/ v = Fine
                        /\ a[i].then[1] \in {"allow", "deny", "require_approval"}
                        /\ a[i].then[2] # "not a code"
  BY ActionDecided
<1>2. /\ a[1].when <=> req.tool \notin DOMAIN Tools
      /\ a[2].when <=> req.roles \cap Permitted(req.tool).roles = {}
      /\ a[3].when <=> req.effect \notin Permitted(req.tool).effects
      /\ a[4].when <=> req.resource # req.tenant
      /\ a[5].when <=> v # Fine
      /\ a[6].when <=> req.effect \in ApprovalEffects
      /\ a[7].when
      /\ ActionAnswers(a, v)
  BY ActionTable
<1>3. /\ doc.tool = req.tool /\ doc.roles = req.roles /\ doc.effect = req.effect
      /\ doc.resource = req.resource /\ doc.tenant = req.tenant /\ doc.violation = v
  BY DEF ActionDocument
<1>4. /\ DOMAIN b = 1..8
      /\ b[1].when <=> doc.tool \notin DOMAIN Tools
      /\ b[2].when <=> {r \in doc.roles : r \in Permitted(doc.tool).roles} = {}
      /\ b[3].when <=> doc.effect \notin Permitted(doc.tool).effects
      /\ b[4].when <=> doc.resource # doc.tenant
      /\ b[5].when <=> doc.violation # Fine
      /\ b[6].when <=> doc.effect \in ApprovalEffects /\ doc.violation = Fine
      /\ b[7].when <=> doc.violation = Fine
      /\ ActionAnswers(b, doc.violation)
  <2> HIDE DEF b, doc
  <2>1. b = RegoActionRules(doc)
    BY DEF b
  <2>2. QED BY <2>1, RegoActionTable
<1>5. RegoAction(doc) = FirstOf(b) /\ ActionAnswer("rules", req) = RegoAction(doc)
  <2>1. RegoAction(doc) = FirstOf(b)
    BY DEF RegoAction
  <2>2. ActionAnswer("rules", req) = RegoAction(doc)
    BY DEF ActionAnswer, Verdicts
  <2>3. QED BY <2>1, <2>2
<1> HIDE DEF a, b, doc, v
<1>6. i \in {1, 2, 3, 4, 5, 6, 7}
  OBVIOUS
<1>7. \A k \in {1, 2, 3, 4, 5} : b[k].when <=> a[k].when
  <2>1. {r \in doc.roles : r \in Permitted(doc.tool).roles} = {}
          <=> req.roles \cap Permitted(req.tool).roles = {}
    BY <1>3
  <2>2. QED BY <1>2, <1>3, <1>4, <2>1
<1>8. \A k \in {6, 7} : b[k].when <=> a[k].when /\ v = Fine
  BY <1>2, <1>3, <1>4
<1>9. \A k \in {1, 2, 3, 4, 5, 6, 7} : b[k].then = a[k].then
  <2>1. ActionAnswers(a, v) /\ ActionAnswers(b, v)
    BY <1>2, <1>3, <1>4
  <2>2. \A k \in {1, 2, 3, 4} : b[k].then = a[k].then
    BY <2>1 DEF ActionAnswers
  <2>3. \A k \in {5, 6, 7} : b[k].then = a[k].then
    BY <2>1 DEF ActionAnswers
  <2>4. QED BY <2>2, <2>3
<1>10. v = Fine \/ i \in {1, 2, 3, 4, 5}
  <2>1. i \in {6, 7} => 5 \in 1..(i - 1)
    OBVIOUS
  <2>2. QED BY <1>1, <1>2, <1>6, <2>1
<1>11. i \in 1..8 /\ b[i].when
  <2> i \in 1..8
    OBVIOUS
  <2> a[i].when
    BY <1>1
  <2>1. CASE i \in {1, 2, 3, 4, 5}
    BY <1>7, <2>1
  <2>2. CASE i \in {6, 7}
    BY <1>8, <1>10, <2>2
  <2>3. QED BY <1>6, <2>1, <2>2
<1>12. ASSUME NEW j \in 1..(i - 1)
       PROVE  ~b[j].when
  <2>1. ~a[j].when
    BY <1>1
  <2>2. j \in 1..7
    OBVIOUS
  <2>3. j \in {1, 2, 3, 4, 5, 6, 7}
    BY <2>2
  <2>4. QED BY <1>7, <1>8, <2>1, <2>3
<1>13. FirstOf(b) = b[i].then
  BY <1>4, <1>11, <1>12, FirstOfIs
<1>14. ActionAnswer("rules", req) = a[i].then
  BY <1>5, <1>6, <1>9, <1>13
<1>15. Decide(a[i].then, {"allow", "deny", "require_approval"}) = a[i].then
  BY <1>1 DEF Decide
<1>16. Floored(req, a[i].then) = a[i].then
  BY <1>1 DEF Floored, v
<1>17. QED BY <1>1, <1>14, <1>15, <1>16 DEF OpaAction

-----------------------------------------------------------------------------
(* What is judged about a content *)

Injected(req, evidence) ==
  /\ Kinds(evidence) \cap {"prompt_injection", "jailbreak"} # {}
  /\ req.point = "context" \/ req.trust = "untrusted"

(* An answer the client takes for a decision about a content. *)
Usable(a) == a # Unavailable /\ OpaContent(a) = a /\ a[1] \in {"allow", "deny", "transform"}

(* What the built-in policy decides about a content. *)
LEMMA ContentDecided ==
  ASSUME NEW req, NEW evidence, NEW rule, NEW v, v = ContentVerdict(req, evidence, rule)
  PROVE  /\ Usable(v)
         /\ Injected(req, evidence) => v[1] = "deny"
         /\ "deny" \in Governed(evidence, rule) => v[1] = "deny"
         /\ Governed(evidence, rule) # {} => v[1] # "allow"
<1> DEFINE t == ContentRules(req, evidence, rule)
<1>1. DOMAIN t = 1..10 /\ Asks(t, req, evidence, rule) /\ Answers(t)
  BY ContentTable
<1>2. v = FirstOf(t)
  BY DEF ContentVerdict
<1> HIDE DEF t
<1>3. PICK i \in 1..10 : /\ t[i].when /\ \A j \in 1..(i - 1) : ~t[j].when
                         /\ FirstOf(t) = t[i].then
  <2>1. \E i \in 1..10 : t[i].when
    BY <1>1 DEF Asks
  <2>2. QED BY <1>1, <2>1, FirstOfSome
<1>4. i \in {1, 2, 3, 4, 5, 6, 7, 8, 9, 10}
  OBVIOUS
<1>5. Usable(v)
  <2>1. /\ Usable(<<"deny", "cross_tenant_context">>)
        /\ Usable(<<"deny", "canary_leak_detected">>)
        /\ Usable(<<"deny", "obfuscated_content_detected">>)
        /\ Usable(<<"deny", "embedded_action_detected">>)
        /\ Usable(<<"deny", "prompt_injection_detected">>)
    BY DEF Usable, OpaContent, Decide, Unavailable
  <2>2. /\ Usable(<<"deny", "sensitive_content_denied">>)
        /\ Usable(<<"deny", "sensitive_output_detected">>)
        /\ Usable(<<"transform", "sensitive_content_pseudonymized">>)
        /\ Usable(<<"transform", "sensitive_content_redacted">>)
        /\ Usable(<<"allow", "policy_allow">>)
    BY DEF Usable, OpaContent, Decide, Unavailable
  <2>3. \A k \in {1, 2, 3, 4, 5, 6, 7, 8, 9, 10} : Usable(t[k].then)
    BY <1>1, <2>1, <2>2 DEF Answers
  <2>4. QED BY <1>2, <1>3, <1>4, <2>3
<1>6. \A k \in {1, 2, 3, 4, 5, 6, 7} : t[k].then[1] = "deny"
  BY <1>1 DEF Answers
<1>7. ASSUME NEW k \in {5, 6, 9}, t[k].when
      PROVE  i \in 1..k
  BY <1>3, <1>7
<1>8. Injected(req, evidence) => v[1] = "deny"
  <2>1. Injected(req, evidence) => t[5].when
    BY <1>1 DEF Asks, Injected
  <2>2. i \in 1..5 => i \in {1, 2, 3, 4, 5, 6, 7}
    OBVIOUS
  <2>3. QED BY <1>2, <1>3, <1>6, <1>7, <2>1, <2>2
<1>9. "deny" \in Governed(evidence, rule) => v[1] = "deny"
  <2>1. "deny" \in Governed(evidence, rule) => t[6].when
    BY <1>1 DEF Asks
  <2>2. i \in 1..6 => i \in {1, 2, 3, 4, 5, 6, 7}
    OBVIOUS
  <2>3. QED BY <1>2, <1>3, <1>6, <1>7, <2>1, <2>2
<1>10. Governed(evidence, rule) # {} => v[1] # "allow"
  <2>1. Governed(evidence, rule) # {} => t[9].when
    BY <1>1 DEF Asks
  <2>2. i \in 1..9 => i \in {1, 2, 3, 4, 5, 6, 7, 8, 9}
    OBVIOUS
  <2>3. \A k \in {8, 9} : t[k].then[1] = "transform"
    BY <1>1 DEF Answers
  <2>4. QED BY <1>2, <1>3, <1>6, <1>7, <2>1, <2>2, <2>3
<1>11. QED BY <1>5, <1>8, <1>9, <1>10

Points == {"input", "context", "output"}

(* The remote decision is the built-in one, or there is none. *)
LEMMA RemoteIs ==
  ASSUME NEW req, req.point \in Points, NEW evidence, NEW rule, NEW reply
  PROVE  LET local == ContentVerdict(req, evidence, rule)
             remote == OpaContent(ContentAnswer(reply, req, evidence, rule))
         IN  /\ reply = "rules" => remote = local
             /\ remote \in {local, Unavailable}
<1> DEFINE local == ContentVerdict(req, evidence, rule)
<1>1. Usable(local)
  BY ContentDecided
<1>2. RegoContent(ContentDocument(req, evidence, rule)) = local
  BY ContentAgrees DEF Points
<1>3. OpaContent(Unavailable) = Unavailable
  BY DEF OpaContent, Decide, Unavailable
<1>4. QED BY <1>1, <1>2, <1>3 DEF ContentAnswer, Usable

(* Whichever of the policies is asked, and however the request is served   *)
(* when none can be, nothing is let through that the built-in policy stops *)
(* and nothing it transforms is passed on untransformed.                   *)
LEMMA Judged ==
  ASSUME NEW req, req.point \in Points, NEW text, NEW reply
  PROVE  LET local == ContentVerdict(req, Findings(text), Resolve(settings))
             judged == Judge(req, text, reply)
         IN  /\ judged[1] \in {"allow", "deny", "transform"}
             /\ judged[1] \in {"deny", local[1]}
             /\ ~Inspectable(text) => judged[1] = "deny"
<1> DEFINE local == ContentVerdict(req, Findings(text), Resolve(settings))
           remote == OpaContent(ContentAnswer(reply, req, Findings(text), Resolve(settings)))
<1>1. Usable(local)
  BY ContentDecided
<1>2. remote \in {local, Unavailable}
  BY RemoteIs
<1>3. Judge(req, text, reply) =
        IF ~Inspectable(text) THEN <<"deny", "content_inspection_unavailable">>
        ELSE IF ~settings.opa THEN local
        ELSE IF remote # Unavailable THEN remote
        ELSE IF ~settings.restricted THEN <<"deny", "policy_engine_unavailable">>
        ELSE IF local[1] = "allow" THEN <<"allow", "restricted_read_only_mode">>
        ELSE local
  BY Zenon DEF Judge
<1> HIDE DEF local, remote
<1>4. local[1] \in {"allow", "deny", "transform"}
  BY <1>1 DEF Usable
<1>5. Judge(req, text, reply) \in
        {local, <<"deny", "content_inspection_unavailable">>, <<"deny", "policy_engine_unavailable">>}
        \/ (local[1] = "allow" /\ Judge(req, text, reply) = <<"allow", "restricted_read_only_mode">>)
  BY <1>2, <1>3
<1>6. Judge(req, text, reply)[1] \in {"deny", local[1]}
  BY <1>5
<1>7. ~Inspectable(text) => Judge(req, text, reply)[1] = "deny"
  BY <1>3
<1>8. QED BY <1>4, <1>6, <1>7 DEF local

-----------------------------------------------------------------------------
(* The invariant of the inspection, and that the policies agree *)

ToolNames == DOMAIN Tools \cup {"run_shell"}

(* The call at hand was made with inputs that are possible, and decided    *)
(* under the settings that still hold.                                     *)
ContentCall(c) ==
  /\ c.req \in ContentRequests \cup Documents
  /\ c.text \in Texts
  /\ \E reply, output : c.decision = DecideContent(c.req, c.text, reply, output)

ActionCall(c) ==
  /\ \E tool \in ToolNames : \E arguments \in Argument(tool) : \E roles, effect, resource :
       c.req = ActionRequest(tool, roles, effect, resource, arguments)
  /\ \E reply \in Replies : c.decided = JudgeAction(c.req, reply)

CallOK ==
  /\ settings \in Settings
  /\ call.kind = "content" => ContentCall(call)
  /\ call.kind = "action" => ActionCall(call)

(* Before the first call there is none. *)
LEMMA InspectionInitOK == InspectionInit => CallOK
  BY DEF InspectionInit, CallOK, NoCall

(* Every step leaves a call that was possible, decided as it should be. *)
LEMMA InspectionNextOK == CallOK /\ [InspectionNext]_inspection => CallOK'
<1> SUFFICES ASSUME CallOK, [InspectionNext]_inspection
             PROVE  CallOK'
  OBVIOUS
<1>1. CASE UNCHANGED inspection
  <2>1. settings' = settings /\ call' = call
    BY <1>1 DEF inspection
  <2>2. ASSUME NEW req, NEW text, NEW reply, NEW output
        PROVE  DecideContent(req, text, reply, output)' = DecideContent(req, text, reply, output)
    BY <2>1 DEF DecideContent, Judge
  <2>3. ContentCall(call)' <=> ContentCall(call)
    BY <2>1, <2>2 DEF ContentCall
  <2>4. ActionCall(call)' <=> ActionCall(call)
    BY <2>1 DEF ActionCall, JudgeAction
  <2>5. QED BY <2>1, <2>3, <2>4 DEF CallOK
<1>2. ASSUME NEW req \in ContentRequests \cup Documents, RefuseContent(req)
      PROVE  CallOK'
  <2>1. settings' = settings /\ call'.kind = "refused"
    BY <1>2 DEF RefuseContent
  <2>2. QED BY <2>1 DEF CallOK
<1>3. ASSUME NEW req \in ContentRequests \cup Documents, NEW text \in Texts, NEW reply, NEW output,
             InspectContent(req, text, reply, output)
      PROVE  CallOK'
  <2>1. /\ settings' = settings /\ call'.kind = "content" /\ call'.req = req /\ call'.text = text
        /\ call'.decision = DecideContent(req, text, reply, output)
    BY <1>3 DEF InspectContent
  <2>2. DecideContent(req, text, reply, output)' = DecideContent(req, text, reply, output)
    BY <2>1 DEF DecideContent, Judge
  <2>3. ContentCall(call)'
    BY <2>1, <2>2 DEF ContentCall
  <2>4. QED BY <2>1, <2>3 DEF CallOK
<1>4. ASSUME NEW tool \in ToolNames, NEW roles, NEW effect, NEW resource, NEW reply \in Replies,
             NEW arguments \in Argument(tool),
             InspectAction(ActionRequest(tool, roles, effect, resource, arguments), reply)
      PROVE  CallOK'
  <2> DEFINE req == ActionRequest(tool, roles, effect, resource, arguments)
  <2>1. /\ settings' = settings /\ call'.kind = "action" /\ call'.req = req
        /\ call'.decided = JudgeAction(req, reply)
    BY <1>4 DEF InspectAction
  <2>2. JudgeAction(req, reply)' = JudgeAction(req, reply)
    BY <2>1 DEF JudgeAction
  <2>3. ActionCall(call)'
    BY <2>1, <2>2 DEF ActionCall
  <2>4. QED BY <2>1, <2>3 DEF CallOK
<1>5. CASE Respond
  <2>1. settings' = settings /\ call'.kind = "idle"
    BY <1>5 DEF Respond, NoCall
  <2>2. QED BY <2>1 DEF CallOK
<1>6. QED BY <1>1, <1>2, <1>3, <1>4, <1>5 DEF InspectionNext, ToolNames

(* The invariant: whatever call is at hand, it was possible and decided    *)
(* under the settings.                                                     *)
LEMMA InspectionInvariance == InspectionSpec => []CallOK
  BY InspectionInitOK, InspectionNextOK, PTL DEF InspectionSpec

(* Contents and documents are inspected at one of the three points. *)
LEMMA PointsOfRequests ==
  ASSUME NEW req \in ContentRequests \cup Documents
  PROVE  req.point \in Points
  BY DEF ContentRequests, Documents, Points

(* The invariant makes the two policies agree. *)
LEMMA CallRemoteAgrees == CallOK => RemoteAgrees
<1>1. ASSUME CallOK, call.kind = "content"
      PROVE  LET rule == Resolve(settings)
                 evidence == Findings(call.text)
             IN OpaContent(ContentAnswer("rules", call.req, evidence, rule))
                  = ContentVerdict(call.req, evidence, rule)
  <2>1. call.req.point \in Points
    BY <1>1, PointsOfRequests DEF CallOK, ContentCall
  <2>2. QED BY <2>1, RemoteIs
<1>2. OpaAction(call.req, ActionAnswer("rules", call.req)) = ActionVerdict(call.req)
  BY ActionAgrees
<1>3. QED BY <1>1, <1>2 DEF RemoteAgrees

(* opa.py and deploy/opa: the decision point with the deployed rules       *)
(* decides every content and every action as policy.py does, with the same *)
(* reason, for any rules of deployment and tenant, any categories of       *)
(* personal data and texts of any length: enabling it changes no decision. *)
THEOREM RemoteAgreement == InspectionSpec => []RemoteAgrees
  BY InspectionInvariance, CallRemoteAgrees, PTL

-----------------------------------------------------------------------------
(* Injections *)

(* A sighting of a text. *)
LEMMA SightingsOfText ==
  ASSUME NEW text \in Texts, NEW s \in text
  PROVE  s \in Sightings
<1>1. ASSUME NEW n, NEW S, text \in UpTo(n, S)
      PROVE  s \in S
  <2>1. text \in {{f[i] : i \in 1..n} : f \in [1..n -> S]}
    BY <1>1 DEF UpTo
  <2>2. PICK f \in [1..n -> S] : text = {f[i] : i \in 1..n}
    BY <2>1
  <2>3. PICK i \in 1..n : s = f[i]
    BY <2>2
  <2>4. QED BY <2>3
<1>2. [by : {"pattern"}, category : {"secret"}, at : Spans] \subseteq Sightings
  BY DEF Sightings, PatternSightings
<1>3. [by : {"presidio"}, category : Pii, at : Spans] \subseteq Sightings
  BY DEF Sightings, PresidioSightings
<1>4. QED BY <1>1, <1>2, <1>3 DEF Texts

(* What each inspector can see. *)
LEMMA SightingKinds ==
  ASSUME NEW s \in Sightings
  PROVE  \/ s \in PatternSightings /\ s.by = "pattern"
         \/ s \in ReadingSightings /\ s.by = "reading"
         \/ s \in CanarySightings /\ s.by = "canary"
         \/ s \in PresidioSightings /\ s.by = "presidio"
         \/ s \in ClassifierSightings /\ s.by = "classifier"
<1>1. s \in PatternSightings => s.by = "pattern"
  BY DEF PatternSightings
<1>2. s \in ReadingSightings => s.by = "reading"
  BY DEF ReadingSightings
<1>3. s \in CanarySightings => s.by = "canary"
  BY DEF CanarySightings
<1>4. s \in PresidioSightings => s.by = "presidio"
  BY DEF PresidioSightings
<1>5. s \in ClassifierSightings => s.by = "classifier"
  BY DEF ClassifierSightings
<1>6. QED BY <1>1, <1>2, <1>3, <1>4, <1>5 DEF Sightings

(* "enough overlap that a sentence split by a boundary is still read whole *)
(* by one window"                                                          *)
LEMMA WindowsCover ==
  ASSUME NEW a \in Nat, NEW b \in Nat, a < b, b <= Length, b - a <= OverlapChars + 1
  PROVE  \E w \in Windows(Length) : w.from <= a /\ b <= w.to
<1> Length \in Nat /\ OverlapChars \in Nat /\ WindowChars \in Nat /\ OverlapChars < WindowChars
  BY TextAssumption, WindowAssumption
<1>1. CASE Length <= WindowChars
  <2>1. Windows(Length) = {[from |-> 0, to |-> Length]}
    BY <1>1 DEF Windows
  <2>2. QED BY <2>1
<1>2. CASE ~(Length <= WindowChars)
  <2> DEFINE step == WindowChars - OverlapChars
             starts == {k \in 0..(Length - OverlapChars - 1) : k % step = 0}
  <2>1. Windows(Length) = {[from |-> k, to |-> k + WindowChars] : k \in starts}
    BY <1>2 DEF Windows
  <2>2. step \in Nat \ {0}
    OBVIOUS
  <2> HIDE DEF step
  <2>3. ASSUME NEW n \in Nat
        PROVE  n % step \in 0..(step - 1) /\ n - (n % step) \in Nat /\ (n - (n % step)) % step = 0
    <3>1. n % step \in 0..(step - 1) /\ n - (n % step) \in Nat
      BY <2>2
    <3>2. n \div step \in Nat /\ n = step * (n \div step) + (n % step)
      BY <2>2
    <3>3. \A q \in Nat : step * q \in Nat /\ (step * q) % step = 0
      BY <2>2
    <3>4. \A p \in Nat, r \in Nat : n = p + r => n - r = p
      OBVIOUS
    <3>5. n - (n % step) = step * (n \div step)
      <4> DEFINE p == step * (n \div step)
                 r == n % step
      <4>1. p \in Nat /\ r \in Nat /\ n = p + r
        BY <2>2, <3>1, <3>2, <3>3
      <4> HIDE DEF p, r
      <4>2. n - r = p
        BY <4>1
      <4>3. QED BY <4>2 DEF p, r
    <3>6. QED BY Zenon, <3>1, <3>2, <3>3, <3>5
  <2>4. ASSUME NEW k \in starts, k <= a, b <= k + WindowChars
        PROVE  \E w \in Windows(Length) : w.from <= a /\ b <= w.to
    <3>1. [from |-> k, to |-> k + WindowChars] \in Windows(Length)
      BY <2>1
    <3>2. QED BY <2>4, <3>1
  <2> DEFINE first == a - (a % step)
             m == Length - OverlapChars - 1
             last == m - (m % step)
  <2>5. m \in Nat
    BY <1>2
  <2>6. ASSUME NEW x \in Nat
        PROVE  /\ x - (x % step) \in Nat
               /\ x - (x % step) <= x
               /\ x < (x - (x % step)) + step
               /\ (x - (x % step)) % step = 0
    <3>1. x % step \in 0..(step - 1) /\ x - (x % step) \in Nat /\ (x - (x % step)) % step = 0
      BY <2>3
    <3>2. \A r \in 0..(step - 1) : x - r <= x /\ x < (x - r) + step
      BY <2>2
    <3>3. x - (x % step) <= x /\ x < (x - (x % step)) + step
      <4>1. x % step \in 0..(step - 1)
        BY <3>1
      <4> DEFINE r == x % step
      <4>2. r \in 0..(step - 1)
        BY <4>1
      <4> HIDE DEF r
      <4>3. x - r <= x /\ x < (x - r) + step
        BY <3>2, <4>2
      <4>4. QED BY <4>3 DEF r
    <3>4. QED BY Zenon, <3>1, <3>3
  <2>7. first \in Nat /\ first <= a /\ a < first + step /\ first % step = 0
    BY Zenon, <2>6
  <2>8. last \in Nat /\ last <= m /\ m < last + step /\ last % step = 0
    <3> HIDE DEF m
    <3>1. QED BY <2>5, <2>6
  <2> HIDE DEF first, last
  <2>9. CASE first <= m
    <3>1. first \in starts
      BY <2>7, <2>9
    <3>2. b <= first + WindowChars
      BY <2>2, <2>7 DEF step
    <3>3. QED BY <2>4, <2>7, <3>1, <3>2
  <2>10. CASE m < first
    <3>1. last \in starts
      BY <2>8
    <3>2. last <= a
      BY <2>5, <2>7, <2>8, <2>10
    <3>3. b <= last + WindowChars
      BY <2>2, <2>8 DEF step
    <3>4. QED BY <2>4, <3>1, <3>2, <3>3
  <2>11. QED BY <2>5, <2>7, <2>9, <2>10
<1>3. QED BY <1>1, <1>2

(* An injection of the kind the classifier is given, or any that a pattern *)
(* matches or a reading shows, is among the findings.                      *)
LEMMA InjectionFound ==
  ASSUME NEW text \in Texts, Inspectable(text), NEW s \in text, s.category = "prompt_injection",
         s.by = "classifier" => s.at[2] - s.at[1] <= OverlapChars + 1
  PROVE  "prompt_injection" \in Kinds(Findings(text))
<1>1. /\ s \in Sightings
      /\ Length \in Nat
  BY SightingsOfText, TextAssumption
<1>2. \A at, decoded : Finding("prompt_injection", decoded, at).category = "prompt_injection"
  BY DEF Finding
<1>3. SUFFICES \E at, decoded : Finding("prompt_injection", decoded, at) \in Findings(text)
  BY <1>2 DEF Kinds
<1> HIDE <1>2
<1>4. CASE s.by = "pattern"
  <2>1. Finding("prompt_injection", FALSE, s.at) \in DeterministicFindings(text)
    BY <1>4 DEF DeterministicFindings, By
  <2>2. QED BY <2>1 DEF Findings
<1>5. CASE s.by = "reading"
  <2>1. CASE \E p \in text : p.by = "pattern" /\ p.category = "prompt_injection"
    <3>1. PICK p \in text : p.by = "pattern" /\ p.category = "prompt_injection"
      BY <2>1
    <3>2. Finding("prompt_injection", FALSE, p.at) \in DeterministicFindings(text)
      BY <3>1 DEF DeterministicFindings, By
    <3>3. QED BY <3>2 DEF Findings
  <2>2. CASE ~\E p \in text : p.by = "pattern" /\ p.category = "prompt_injection"
    <3>1. Finding("prompt_injection", TRUE, NoWhere) \in DeterministicFindings(text)
      BY <1>5, <2>2 DEF DeterministicFindings, By
    <3>2. QED BY <3>1 DEF Findings
  <2>3. QED BY <2>1, <2>2
<1>6. CASE s.by = "classifier"
  <2>1. s \in ClassifierSightings /\ s.at # NoWhere
    BY <1>1, <1>6, SightingKinds DEF Inspectable, ClassifierReadable, By
  <2>2. s.at \in Spans
    BY <2>1 DEF ClassifierSightings
  <2>3. PICK w \in Windows(Length) : w.from <= s.at[1] /\ s.at[2] <= w.to
    BY <1>1, <1>6, <2>2, WindowsCover DEF Spans
  <2>4. Finding("prompt_injection", FALSE, NoWhere) \in ClassifierFindings(text)
    BY <1>6, <2>3 DEF ClassifierFindings, By
  <2>5. QED BY <2>4 DEF Findings
<1>7. s.by \notin {"canary", "presidio"}
  <2>1. s \notin CanarySightings
    BY DEF CanarySightings
  <2>2. s \notin PresidioSightings
    BY PiiAssumption DEF PresidioSightings
  <2>3. QED BY <1>1, <2>1, <2>2, SightingKinds
<1>8. QED BY <1>1, <1>4, <1>5, <1>6, <1>7, SightingKinds

(* Of a content that is denied nothing is delivered. *)
LEMMA DeniedNothing ==
  ASSUME NEW req, NEW text, NEW reply, NEW output, Judge(req, text, reply)[1] = "deny"
  PROVE  DecideContent(req, text, reply, output).delivered = Nothing
  BY DEF DecideContent, Decision

(* The invariant stops injections. *)
LEMMA CallInjection == CallOK => InjectionNeverPasses
<1> SUFFICES ASSUME CallOK, call.kind = "content",
                    call.req.point = "context" \/ call.req.trust = "untrusted",
                    NEW s \in call.text, s.category = "prompt_injection",
                    s.by = "classifier" => s.at[2] - s.at[1] <= OverlapChars + 1
             PROVE  call.decision.delivered = Nothing
  BY DEF InjectionNeverPasses
<1> DEFINE local == ContentVerdict(call.req, Findings(call.text), Resolve(settings))
<1>1. call.text \in Texts /\ call.req.point \in Points
  BY PointsOfRequests DEF CallOK, ContentCall
<1>2. PICK reply, output : call.decision = DecideContent(call.req, call.text, reply, output)
  BY DEF CallOK, ContentCall
<1>3. Inspectable(call.text) => local[1] = "deny"
  <2>1. Inspectable(call.text) => "prompt_injection" \in Kinds(Findings(call.text))
    BY <1>1, InjectionFound
  <2>2. Inspectable(call.text) => Injected(call.req, Findings(call.text))
    BY <2>1 DEF Injected
  <2>3. QED BY <2>2, ContentDecided
<1>4. Judge(call.req, call.text, reply)[1] = "deny"
  <2> HIDE DEF local
  <2>1. /\ Judge(call.req, call.text, reply)[1] \in {"deny", local[1]}
        /\ ~Inspectable(call.text) => Judge(call.req, call.text, reply)[1] = "deny"
    BY <1>1, Judged DEF local
  <2>2. QED BY <1>3, <2>1
<1>5. QED BY <1>2, <1>4, DeniedNothing

(* classifier.py windows and service._judge: in a retrieved or untrusted   *)
(* text of any length no injection of at most one character more than the  *)
(* overlap passes, wherever it stands, for every window and overlap, nor   *)
(* one that a pattern or a reading shows, whichever policy decides and     *)
(* when none can.                                                          *)
THEOREM InjectionStopped == InspectionSpec => []InjectionNeverPasses
  BY InspectionInvariance, CallInjection, PTL

-----------------------------------------------------------------------------
(* Arguments *)

(* A value for each number up to n, each made of the one before, exists:   *)
(* what the recursive definitions of the model take for granted.           *)
LEMMA NormStepsDefined ==
  ASSUME NEW steps, Len(steps) \in Nat
  PROVE  NormSteps(steps) =
           [k \in 0..Len(steps) |->
              IF k = 0 THEN << >> ELSE NormStep(NormSteps(steps)[k - 1], steps[k])]
<1> DEFINE Def(g, m) == g = [k \in 0..m |-> IF k = 0 THEN << >> ELSE NormStep(g[k - 1], steps[k])]
           T == {m \in Nat : ~\E g : Def(g, m)}
<1>1. ASSUME T # {}
      PROVE  FALSE
  <2>1. T \in SUBSET Nat
    OBVIOUS
  <2>2. PICK m \in T : \A j \in T : m <= j
    <3> HIDE DEF T
    <3>1. QED BY <1>1, <2>1, LeastOf
  <2>3. CASE m = 0
    <3>1. Def([k \in 0..0 |-> << >>], 0)
      OBVIOUS
    <3>2. QED BY <2>3, <3>1
  <2>4. CASE m > 0
    <3>1. m - 1 \in Nat /\ m - 1 \notin T
      <4> HIDE DEF T
      <4>1. QED BY <2>1, <2>2, <2>4
    <3>2. PICK g : Def(g, m - 1)
      BY <3>1
    <3> DEFINE h == [k \in 0..m |-> IF k = m THEN NormStep(g[m - 1], steps[m]) ELSE g[k]]
    <3>3. \A k \in 0..m : h[k] = IF k = 0 THEN << >> ELSE NormStep(h[k - 1], steps[k])
      BY <2>4, <3>2
    <3>4. Def(h, m)
      BY <3>3
    <3>5. QED BY <3>4
  <2>5. QED BY <2>2, <2>3, <2>4
<1>2. PICK g : Def(g, Len(steps))
  BY <1>1
<1>3. QED BY <1>2 DEF NormSteps

(* The same for the walk. *)
LEMMA WalkedDefined ==
  ASSUME NEW steps, Len(steps) \in Nat
  PROVE  Walked(steps) =
           [k \in 0..Len(steps) |->
              IF k = 0 THEN <<"srv">> ELSE Walk(Walked(steps)[k - 1], steps[k])]
<1> DEFINE Def(g, m) == g = [k \in 0..m |-> IF k = 0 THEN <<"srv">> ELSE Walk(g[k - 1], steps[k])]
           T == {m \in Nat : ~\E g : Def(g, m)}
<1>1. ASSUME T # {}
      PROVE  FALSE
  <2>1. T \in SUBSET Nat
    OBVIOUS
  <2>2. PICK m \in T : \A j \in T : m <= j
    <3> HIDE DEF T
    <3>1. QED BY <1>1, <2>1, LeastOf
  <2>3. CASE m = 0
    <3>1. Def([k \in 0..0 |-> <<"srv">>], 0)
      OBVIOUS
    <3>2. QED BY <2>3, <3>1
  <2>4. CASE m > 0
    <3>1. m - 1 \in Nat /\ m - 1 \notin T
      <4> HIDE DEF T
      <4>1. QED BY <2>1, <2>2, <2>4
    <3>2. PICK g : Def(g, m - 1)
      BY <3>1
    <3> DEFINE h == [k \in 0..m |-> IF k = m THEN Walk(g[m - 1], steps[m]) ELSE g[k]]
    <3>3. \A k \in 0..m : h[k] = IF k = 0 THEN <<"srv">> ELSE Walk(h[k - 1], steps[k])
      BY <2>4, <3>2
    <3>4. Def(h, m)
      BY <3>3
    <3>5. QED BY <3>4
  <2>5. QED BY <2>2, <2>3, <2>4
<1>2. PICK g : Def(g, Len(steps))
  BY <1>1
<1>3. QED BY <1>2 DEF Walked

Names == {"workspace", "notes", ".."}

(* A normalised path that does not begin by climbing does not climb at     *)
(* all, and names the place where walking the path leads to.               *)
Climbs(done) == done # << >> /\ done[1] = ".."
Stays(done, at) == (\A i \in 1..Len(done) : done[i] # "..") /\ at = <<"srv">> \o done

(* One step of posixpath.normpath keeps that. *)
LEMMA NormStepRight ==
  ASSUME NEW done \in Seq(Names), NEW at, NEW step \in Names \cup {"."},
         Climbs(done) \/ Stays(done, at)
  PROVE  /\ NormStep(done, step) \in Seq(Names)
         /\ Climbs(NormStep(done, step)) \/ Stays(NormStep(done, step), Walk(at, step))
<1>1. CASE step = "."
  BY <1>1 DEF NormStep, Walk
<1>2. CASE step \in {"workspace", "notes"}
  <2>1. NormStep(done, step) = Append(done, step) /\ Walk(at, step) = Append(at, step)
    BY <1>2 DEF NormStep, Walk
  <2>2. Append(done, step) \in Seq(Names)
    BY <1>2 DEF Names
  <2>3. Climbs(done) => Climbs(Append(done, step))
    BY DEF Climbs
  <2>4. Stays(done, at) => Stays(Append(done, step), Append(at, step))
    <3>1. SUFFICES ASSUME Stays(done, at)
                   PROVE  Stays(Append(done, step), Append(at, step))
      OBVIOUS
    <3>2. Append(<<"srv">> \o done, step) = <<"srv">> \o Append(done, step)
      OBVIOUS
    <3>3. \A i \in 1..Len(Append(done, step)) : Append(done, step)[i] # ".."
      BY <1>2, <3>1 DEF Stays
    <3>4. QED BY <3>1, <3>2, <3>3 DEF Stays
  <2>5. QED BY <2>1, <2>2, <2>3, <2>4
<1>3. CASE step = ".." /\ (done = << >> \/ Last(done) = "..")
  <2>1. NormStep(done, step) = Append(done, step)
    BY <1>3 DEF NormStep
  <2>2. Append(done, step) \in Seq(Names)
    BY <1>3 DEF Names
  <2>3. Climbs(Append(done, step))
    <3>1. CASE done = << >>
      BY <1>3, <3>1 DEF Climbs
    <3>2. CASE done # << >>
      <4>1. ~Stays(done, at)
        BY <1>3, <3>2 DEF Stays, Last
      <4>2. QED BY <4>1 DEF Climbs
    <3>3. QED BY <3>1, <3>2
  <2>4. QED BY <2>1, <2>2, <2>3
<1>4. CASE step = ".." /\ done # << >> /\ Last(done) # ".."
  <2> DEFINE n == Len(done)
  <2>1. NormStep(done, step) = SubSeq(done, 1, n - 1)
    BY <1>4 DEF NormStep, Front
  <2>2. SubSeq(done, 1, n - 1) \in Seq(Names)
    BY <1>4
  <2>3. Climbs(done) => Climbs(SubSeq(done, 1, n - 1))
    <3>1. SUFFICES ASSUME Climbs(done)
                   PROVE  Climbs(SubSeq(done, 1, n - 1))
      OBVIOUS
    <3>2. n \in Nat /\ n # 0 /\ n # 1
      BY <1>4, <3>1 DEF Climbs, Last
    <3>3. Len(SubSeq(done, 1, n - 1)) = n - 1 /\ SubSeq(done, 1, n - 1)[1] = done[1]
      BY <3>2
    <3>4. SubSeq(done, 1, n - 1) # << >>
      <4>1. Len(<< >>) = 0
        OBVIOUS
      <4>2. n - 1 # 0
        BY <3>2
      <4>3. QED BY Zenon, <3>3, <4>1, <4>2
    <3>5. QED BY <3>1, <3>3, <3>4 DEF Climbs
  <2>4. Stays(done, at) => Stays(SubSeq(done, 1, n - 1), Walk(at, step))
    <3>1. SUFFICES ASSUME Stays(done, at)
                   PROVE  Stays(SubSeq(done, 1, n - 1), Walk(at, step))
      OBVIOUS
    <3>2. at # << >> /\ Len(at) = n + 1
      BY <3>1 DEF Stays
    <3>3. Walk(at, step) = SubSeq(at, 1, n)
      BY <1>4, <3>2 DEF Walk, Front
    <3>4. SubSeq(<<"srv">> \o done, 1, n) = <<"srv">> \o SubSeq(done, 1, n - 1)
      BY <1>4
    <3>5. \A i \in 1..Len(SubSeq(done, 1, n - 1)) : SubSeq(done, 1, n - 1)[i] # ".."
      BY <1>4, <3>1 DEF Stays
    <3>6. QED BY <3>1, <3>3, <3>4, <3>5 DEF Stays
  <2>5. QED BY <2>1, <2>2, <2>3, <2>4
<1>5. QED BY <1>1, <1>2, <1>3, <1>4 DEF Names

(* So does all of it, for paths of any length. *)
LEMMA NormPathRight ==
  ASSUME NEW steps \in Seq(Names \cup {"."})
  PROVE  /\ NormPath(steps) \in Seq(Names)
         /\ Climbs(NormPath(steps)) \/ Stays(NormPath(steps), LeadsTo(steps))
<1> DEFINE n == Len(steps)
           N == NormSteps(steps)
           W == Walked(steps)
<1>1. n \in Nat /\ \A k \in 1..n : steps[k] \in Names \cup {"."}
  OBVIOUS
<1>2. N[0] = << >> /\ \A k \in 1..n : N[k] = NormStep(N[k - 1], steps[k])
  <2> HIDE DEF N
  <2>1. N = [k \in 0..n |-> IF k = 0 THEN << >> ELSE NormStep(N[k - 1], steps[k])]
    BY <1>1, NormStepsDefined DEF N
  <2> HIDE DEF n
  <2>2. QED BY <1>1, <2>1
<1>3. W[0] = <<"srv">> /\ \A k \in 1..n : W[k] = Walk(W[k - 1], steps[k])
  <2> HIDE DEF W
  <2>1. W = [k \in 0..n |-> IF k = 0 THEN <<"srv">> ELSE Walk(W[k - 1], steps[k])]
    BY <1>1, WalkedDefined DEF W
  <2> HIDE DEF n
  <2>2. QED BY <1>1, <2>1
<1>4. NormPath(steps) = N[n] /\ LeadsTo(steps) = W[n]
  BY DEF NormPath, LeadsTo
<1> HIDE DEF n, N, W
<1> DEFINE Right(k) == N[k] \in Seq(Names) /\ (Climbs(N[k]) \/ Stays(N[k], W[k]))
           T == {k \in 0..n : ~Right(k)}
<1>5. T \in SUBSET Nat
  BY <1>1
<1>6. ASSUME T # {}
      PROVE  FALSE
  <2>1. PICK k \in T : \A j \in T : k <= j
    <3> HIDE DEF T
    <3>1. QED BY <1>5, <1>6, LeastOf
  <2>2. CASE k = 0
    <3>1. << >> \in Seq(Names) /\ Stays(<< >>, <<"srv">>)
      BY DEF Stays
    <3>2. QED BY <1>2, <1>3, <2>2, <3>1
  <2>3. CASE k > 0
    <3>1. k \in 1..n /\ k - 1 \in 0..n
      BY <1>1, <2>1, <2>3
    <3>2. k - 1 \notin T
      <4> HIDE DEF T
      <4>1. QED BY <1>5, <2>1
    <3>3. Right(k - 1)
      BY <3>1, <3>2
    <3>4. Right(k)
      BY <1>1, <1>2, <1>3, <3>1, <3>3, NormStepRight
    <3>5. QED BY <3>4
  <2>4. QED BY <1>1, <2>1, <2>2, <2>3
<1>7. Right(n)
  BY <1>1, <1>6
<1>8. QED BY <1>4, <1>7

-----------------------------------------------------------------------------
(* An action that is not denied has arguments nothing is wrong with,       *)
(* whatever the decision point answers.                                    *)
LEMMA NotDeniedFine ==
  ASSUME NEW req, NEW reply, JudgeAction(req, reply)[1] # "deny"
  PROVE  ArgumentViolation(req) = Fine
<1> DEFINE local == ActionVerdict(req)
           decided == Decide(ActionAnswer(reply, req), {"allow", "deny", "require_approval"})
           remote == OpaAction(req, ActionAnswer(reply, req))
<1>1. local[1] = "deny" \/ ArgumentViolation(req) = Fine
  BY ActionDecided
<1>2. remote # Unavailable => remote[1] = "deny" \/ ArgumentViolation(req) = Fine
  <2>1. remote = Floored(req, decided)
    BY DEF OpaAction
  <2> HIDE DEF decided, remote
  <2>2. QED BY <2>1 DEF Floored
<1>3. JudgeAction(req, reply) =
        IF ~settings.opa THEN local
        ELSE IF remote # Unavailable THEN remote
        ELSE IF ~(settings.restricted /\ req.effect \in {"none", "read"})
             THEN <<"deny", "policy_engine_unavailable">>
        ELSE IF local[1] # "allow" THEN <<"deny", local[2]>>
        ELSE <<"allow", "restricted_read_only_mode">>
  BY Zenon DEF JudgeAction
<1> HIDE DEF local, remote, decided
<1>4. QED BY <1>1, <1>2, <1>3

(* The bounded sequences are sequences. *)
LEMMA SequencesUpTo ==
  ASSUME NEW S, NEW n \in Nat, NEW q \in SeqOf(S, n)
  PROVE  q \in Seq(S)
<1>1. PICK m \in 0..n : q \in [1..m -> S]
  BY DEF SeqOf
<1>2. QED BY <1>1

(* tools.path_violation: a path it accepts leads into the workspace. *)
LEMMA FinePath ==
  ASSUME NEW path, path.steps \in Seq(Names \cup {"."}), PathViolation(path) = Fine
  PROVE  /\ ~path.odd /\ Len(LeadsTo(path.steps)) >= 2
         /\ SubSeq(LeadsTo(path.steps), 1, 2) = <<"srv", "workspace">>
<1> DEFINE canonical == NormPath(path.steps)
<1>1. ~path.odd /\ canonical # << >> /\ Head(canonical) = "workspace"
  BY DEF PathViolation, Fine
<1>2. canonical \in Seq(Names) /\ (Climbs(canonical) \/ Stays(canonical, LeadsTo(path.steps)))
  BY NormPathRight
<1> HIDE DEF canonical
<1>3. canonical[1] = "workspace" /\ Len(canonical) >= 1
  BY <1>1, <1>2
<1>4. LeadsTo(path.steps) = <<"srv">> \o canonical
  BY <1>2, <1>3 DEF Climbs, Stays
<1>5. Len(<<"srv">> \o canonical) >= 2
  BY <1>2, <1>3
<1>6. (<<"srv">> \o canonical)[1] = "srv" /\ (<<"srv">> \o canonical)[2] = "workspace"
  BY <1>2, <1>3
<1>7. ASSUME NEW q \in Seq(Names \cup {"srv"}), Len(q) >= 2
      PROVE  SubSeq(q, 1, 2) = <<q[1], q[2]>>
  <2>1. SubSeq(q, 1, 2) = [i \in 1..2 |-> q[i]]
    BY <1>7
  <2>2. [i \in 1..2 |-> q[i]] = <<q[1], q[2]>>
    OBVIOUS
  <2>3. QED BY <2>1, <2>2
<1>8. <<"srv">> \o canonical \in Seq(Names \cup {"srv"})
  BY <1>2
<1>9. QED BY <1>1, <1>4, <1>5, <1>6, <1>7, <1>8

(* tools.sql_violation: a query it accepts is one plain SELECT. *)
LEMMA FineQuery ==
  ASSUME NEW query, query.statements \in Seq(StatementKinds), SqlViolation(query) = Fine
  PROVE  query.parses /\ query.statements = <<"select">>
<1>1. query.parses
  BY DEF SqlViolation, Fine
<1>2. Len(query.statements) = 1
  BY DEF SqlViolation, Fine
<1>3. query.statements[1] = "select"
  BY <1>2 DEF SqlViolation, Fine
<1>4. QED BY <1>1, <1>2, <1>3

(* tools.url_violation: a URL it accepts leads to an allowed host. *)
LEMMA FineUrl ==
  ASSUME NEW url, UrlViolation(url) = Fine
  PROVE  /\ url.parses /\ url.scheme = "https" /\ ~url.userinfo
         /\ url.port # "8443" /\ url.host \in {"listed.example", "Listed.Example."}
  BY DEF UrlViolation, CanonicalHost, Fine

(* Arguments with which nothing is found wrong are safe. *)
LEMMA FineArguments ==
  ASSUME NEW tool \in DOMAIN Tools, NEW roles, NEW effect, NEW resource,
         NEW arguments \in Argument(tool), NEW req,
         req = ActionRequest(tool, roles, effect, resource, arguments),
         ArgumentViolation(req) = Fine
  PROVE  SafeArguments(req)
<1>1. req.tool = tool /\ req.arguments = arguments /\ req.effect = effect
  BY DEF ActionRequest
<1>2. arguments.fit
  BY <1>1 DEF ArgumentViolation, Fine
<1>3. ASSUME tool = "read_file"
      PROVE  /\ ~arguments.path.odd /\ Len(LeadsTo(arguments.path.steps)) >= 2
             /\ SubSeq(LeadsTo(arguments.path.steps), 1, 2) = <<"srv", "workspace">>
  <2>1. PICK o \in BOOLEAN, s \in SeqOf({"workspace", "notes", ".", ".."}, MaxSteps) :
          arguments = [fit |-> TRUE, path |-> [odd |-> o, steps |-> s]]
    BY <1>2, <1>3 DEF Argument
  <2>2. arguments.path.steps \in Seq(Names \cup {"."})
    <3>1. {"workspace", "notes", ".", ".."} = Names \cup {"."}
      BY DEF Names
    <3>2. s \in Seq(Names \cup {"."})
      BY <3>1, SequencesUpTo, StepsAssumption
    <3>3. QED BY <2>1, <3>2
  <2>3. PathViolation(arguments.path) = Fine
    BY <1>1, <1>2, <1>3 DEF ArgumentViolation
  <2>4. QED BY <2>2, <2>3, FinePath
<1>4. ASSUME tool = "execute_sql"
      PROVE  arguments.query.parses /\ arguments.query.statements = <<"select">>
  <2>1. PICK p \in BOOLEAN, s \in SeqOf(StatementKinds, 2) :
          arguments = [fit |-> TRUE, query |-> [parses |-> p, statements |-> s]]
    BY <1>2, <1>4 DEF Argument
  <2>2. arguments.query.statements \in Seq(StatementKinds)
    BY <2>1, SequencesUpTo
  <2>3. SqlViolation(arguments.query) = Fine
    BY <1>1, <1>2, <1>4 DEF ArgumentViolation
  <2>4. QED BY <2>2, <2>3, FineQuery
<1>5. ASSUME tool = "fetch_url"
      PROVE  UrlViolation(arguments.url) = Fine
  BY <1>1, <1>2, <1>5 DEF ArgumentViolation
<1>6. ASSUME tool = "run_code", arguments.network
      PROVE  effect = "external"
  BY <1>1, <1>2, <1>6 DEF ArgumentViolation, Fine
<1>7. QED BY <1>1, <1>2, <1>3, <1>4, <1>5, <1>6, FineUrl DEF SafeArguments

(* The invariant refuses unsafe arguments. *)
LEMMA CallArguments == CallOK => UnsafeArgumentsRefused
<1> SUFFICES ASSUME CallOK, call.kind = "action", call.req.tool \in DOMAIN Tools,
                    call.decided[1] # "deny"
             PROVE  SafeArguments(call.req)
  BY DEF UnsafeArgumentsRefused
<1>1. PICK tool \in ToolNames : \E arguments \in Argument(tool) : \E roles, effect, resource :
        call.req = ActionRequest(tool, roles, effect, resource, arguments)
  BY DEF CallOK, ActionCall
<1>2. PICK reply : call.decided = JudgeAction(call.req, reply)
  BY DEF CallOK, ActionCall
<1>3. tool \in DOMAIN Tools
  BY <1>1 DEF ActionRequest
<1>4. ArgumentViolation(call.req) = Fine
  BY <1>2, NotDeniedFine
<1>5. QED BY <1>1, <1>3, <1>4, FineArguments

(* opa.py, the floor: an action of a known tool that is not denied has     *)
(* safe arguments, whatever the decision point answers and however many    *)
(* steps its path has.                                                     *)
THEOREM ArgumentsSafe == InspectionSpec => []UnsafeArgumentsRefused
  BY InspectionInvariance, CallArguments, PTL

-----------------------------------------------------------------------------
(* Sensitive values *)

(* A located value to be replaced. *)
Located ==
  {r \in [from : 0..Length, to : 0..Length, action : {"redact", "pseudonymize"}] : r.from < r.to}

(* A text has room for finitely many values. *)
LEMMA LocatedFinite == IsFiniteSet(Located)
<1> DEFINE Places == ((0..Length) \X (0..Length)) \X {"redact", "pseudonymize"}
           g == [r \in Located |-> <<<<r.from, r.to>>, r.action>>]
<1>1. IsFiniteSet(0..Length)
  BY FS_Interval, TextAssumption
<1>2. IsFiniteSet({"redact", "pseudonymize"})
  <2>1. IsFiniteSet({"redact"})
    BY FS_Singleton
  <2>2. IsFiniteSet({"redact"} \cup {"pseudonymize"})
    BY <2>1, FS_AddElement
  <2>3. {"redact"} \cup {"pseudonymize"} = {"redact", "pseudonymize"}
    OBVIOUS
  <2>4. QED BY <2>2, <2>3
<1>3. IsFiniteSet((0..Length) \X (0..Length))
  BY <1>1, FS_Product
<1>4. IsFiniteSet(Places)
  BY <1>2, <1>3, FS_Product
<1>5. g \in [Located -> Places]
  BY DEF Located
<1>6. \A a, b \in Located : g[a] = g[b] => a = b
  BY DEF Located
<1>7. g \in Injection(Located, Places)
  BY <1>5, <1>6 DEF Injection, IsInjective
<1>8. QED BY <1>4, <1>7, FS_Injection

(* Some value of a set of values comes before no other. *)
LEMMA EarliestOf ==
  ASSUME NEW S \in SUBSET Located, S # {}
  PROVE  \E x \in S : \A y \in S : ~Before(y, x)
<1>0. Length \in Nat /\ \A r \in S : r.from \in Nat /\ r.to \in 0..Length
  BY TextAssumption DEF Located
<1> DEFINE Starts == {r.from : r \in S}
<1>1. Starts \in SUBSET Nat /\ Starts # {}
  BY <1>0
<1>2. PICK f \in Starts : \A g \in Starts : f <= g
  <2> HIDE DEF Starts
  <2>1. QED BY <1>1, LeastOf
<1> DEFINE Together == {r \in S : r.from = f}
           Short == {Length - r.to : r \in Together}
<1>3. Short \in SUBSET Nat /\ Short # {}
  <2>1. \A r \in S : Length - r.to \in Nat
    BY <1>0
  <2>2. QED BY <1>2, <2>1
<1>4. PICK l \in Short : \A m \in Short : l <= m
  <2> HIDE DEF Short
  <2>1. QED BY <1>3, LeastOf
<1>5. PICK x \in S : x.from = f /\ l = Length - x.to
  BY <1>4
<1>6. ASSUME NEW y \in S
      PROVE  ~Before(y, x)
  <2>1. x.from <= y.from
    BY <1>2, <1>5
  <2>2. y.from = x.from => Length - x.to <= Length - y.to
    BY <1>4, <1>5
  <2>3. QED BY <1>0, <2>1, <2>2 DEF Before
<1>7. QED BY <1>6

InOrder(q) == \A i, j \in DOMAIN q : i < j => ~Before(q[j], q[i])

(* Every set of values can be sorted. *)
LEMMA SortedExists ==
  ASSUME NEW S \in SUBSET Located
  PROVE  \E q \in SetToSeqs(S) : InOrder(q)
<1> DEFINE Bad(n) == \E U \in SUBSET Located :
                       Cardinality(U) = n /\ ~\E q \in SetToSeqs(U) : InOrder(q)
           T == {n \in Nat : Bad(n)}
<1>1. \A U \in SUBSET Located : IsFiniteSet(U) /\ Cardinality(U) \in Nat
  BY LocatedFinite, FS_Subset, FS_CardinalityType
<1>2. ASSUME T # {}
      PROVE  FALSE
  <2>1. T \in SUBSET Nat
    OBVIOUS
  <2>2. PICK n \in T : \A m \in T : n <= m
    <3> HIDE DEF T
    <3>1. QED BY <1>2, <2>1, LeastOf
  <2>3. PICK U \in SUBSET Located : Cardinality(U) = n /\ ~\E q \in SetToSeqs(U) : InOrder(q)
    BY <2>2
  <2>4. CASE U = {}
    <3> DEFINE q == [i \in 1..0 |-> i]
    <3>1. Cardinality(U) = 0
      BY <2>4, FS_EmptySet
    <3>2. q \in SetToSeqs(U)
      BY <3>1, <2>4 DEF SetToSeqs
    <3>3. InOrder(q)
      BY DEF InOrder
    <3>4. QED BY <2>3, <3>2, <3>3
  <2>5. CASE U # {}
    <3>1. PICK x \in U : \A y \in U : ~Before(y, x)
      BY <2>5, EarliestOf
    <3> DEFINE R == U \ {x}
    <3>2. R \in SUBSET Located /\ Cardinality(R) = n - 1 /\ n - 1 \in Nat
      <4>1. Cardinality(R) = Cardinality(U) - 1
        BY <1>1, <3>1, FS_RemoveElement
      <4>2. R \in SUBSET Located
        OBVIOUS
      <4>3. Cardinality(R) \in Nat
        BY <1>1, <4>2
      <4>4. QED BY <2>3, <4>1, <4>2, <4>3
    <3>3. n - 1 \notin T
      <4> HIDE DEF T
      <4>1. QED BY <2>1, <2>2, <3>2
    <3>4. PICK q \in SetToSeqs(R) : InOrder(q)
      BY <3>2, <3>3
    <3> HIDE DEF R
    <3>5. /\ q \in [1..(n - 1) -> R]
          /\ \A i, j \in 1..(n - 1) : i # j => q[i] # q[j]
      BY <3>2, <3>4 DEF SetToSeqs
    <3>6. \A i, j \in 1..(n - 1) : i < j => ~Before(q[j], q[i])
      BY <3>4, <3>5 DEF InOrder
    <3> DEFINE p == [i \in 1..n |-> IF i = 1 THEN x ELSE q[i - 1]]
    <3>7. n \in Nat /\ \A i \in 1..n : i = 1 \/ i - 1 \in 1..(n - 1)
      BY <3>2
    <3>8. \A i \in 1..n : p[i] \in U /\ (i = 1 => p[i] = x) /\ (i # 1 => p[i] = q[i - 1] /\ p[i] # x)
      BY <3>5, <3>7 DEF R
    <3>9. \A i, j \in 1..n : i # j => p[i] # p[j]
      <4>1. ASSUME NEW i \in 1..n, NEW j \in 1..n, i # j, i # 1, j # 1
            PROVE  p[i] # p[j]
        BY <3>5, <3>7, <3>8, <4>1
      <4>2. QED BY <3>8, <4>1
    <3>10. p \in SetToSeqs(U)
      BY <2>3, <3>8, <3>9 DEF SetToSeqs
    <3>11. InOrder(p)
      <4>1. ASSUME NEW i \in 1..n, NEW j \in 1..n, i < j
            PROVE  ~Before(p[j], p[i])
        <5>1. CASE i = 1
          BY <3>1, <3>8, <4>1, <5>1
        <5>2. CASE i # 1
          <6>1. j # 1 /\ i - 1 \in 1..(n - 1) /\ j - 1 \in 1..(n - 1) /\ i - 1 < j - 1
            BY <3>7, <4>1, <5>2
          <6>2. QED BY <3>6, <3>8, <5>2, <6>1
        <5>3. QED BY <5>1, <5>2
      <4>2. DOMAIN p = 1..n
        OBVIOUS
      <4> HIDE DEF p
      <4>3. QED BY <4>1, <4>2 DEF InOrder
    <3>12. QED BY <2>3, <3>10, <3>11
  <2>6. QED BY <2>4, <2>5
<1>3. QED BY <1>1, <1>2

(* Sorting loses nothing. *)
LEMMA SortedIs ==
  ASSUME NEW S \in SUBSET Located
  PROVE  /\ Sorted(S) \in Seq(S)
         /\ InOrder(Sorted(S))
         /\ \A s \in S : \E i \in 1..Len(Sorted(S)) : Sorted(S)[i] = s
<1> DEFINE q == Sorted(S)
           n == Cardinality(S)
<1>1. q \in SetToSeqs(S) /\ InOrder(q)
  <2>1. \E t \in SetToSeqs(S) : \A i, j \in DOMAIN t : i < j => ~Before(t[j], t[i])
    BY SortedExists DEF InOrder
  <2>2. QED BY <2>1 DEF Sorted, InOrder
<1>2. IsFiniteSet(S) /\ n \in Nat
  BY LocatedFinite, FS_Subset, FS_CardinalityType
<1> HIDE DEF q
<1>3. q \in [1..n -> S] /\ \A i, j \in 1..n : i # j => q[i] # q[j]
  BY <1>1 DEF SetToSeqs
<1> HIDE DEF n
<1>4. q \in Injection(1..n, S)
  BY <1>3 DEF Injection, IsInjective
<1>5. Cardinality(1..n) = n
  BY <1>2, FS_Interval
<1>6. q \in Surjection(1..n, S)
  BY <1>2, <1>4, <1>5, FS_Injection DEF n
<1>7. \A s \in S : \E i \in 1..n : q[i] = s
  BY <1>3, <1>6 DEF Surjection
<1>8. q \in Seq(S) /\ Len(q) = n
  BY <1>2, <1>3
<1>9. QED BY <1>1, <1>7, <1>8 DEF q

(* The turns of the loop of _merged exist, as for normpath. *)
LEMMA MergingDefined ==
  ASSUME NEW q, Len(q) \in Nat
  PROVE  Merging(q) = [k \in 0..Len(q) |-> IF k = 0 THEN << >> ELSE Held(Merging(q)[k - 1], q[k])]
<1> DEFINE Def(g, m) == g = [k \in 0..m |-> IF k = 0 THEN << >> ELSE Held(g[k - 1], q[k])]
           T == {m \in Nat : ~\E g : Def(g, m)}
<1>1. ASSUME T # {}
      PROVE  FALSE
  <2>1. T \in SUBSET Nat
    OBVIOUS
  <2>2. PICK m \in T : \A j \in T : m <= j
    <3> HIDE DEF T
    <3>1. QED BY <1>1, <2>1, LeastOf
  <2>3. CASE m = 0
    <3>1. Def([k \in 0..0 |-> << >>], 0)
      OBVIOUS
    <3>2. QED BY <2>3, <3>1
  <2>4. CASE m > 0
    <3>1. m - 1 \in Nat /\ m - 1 \notin T
      <4> HIDE DEF T
      <4>1. QED BY <2>1, <2>2, <2>4
    <3>2. PICK g : Def(g, m - 1)
      BY <3>1
    <3> DEFINE h == [k \in 0..m |-> IF k = m THEN Held(g[m - 1], q[m]) ELSE g[k]]
    <3>3. \A k \in 0..m : h[k] = IF k = 0 THEN << >> ELSE Held(h[k - 1], q[k])
      BY <2>4, <3>2
    <3>4. Def(h, m)
      BY <3>3
    <3>5. QED BY <3>4
  <2>5. QED BY <2>2, <2>3, <2>4
<1>2. PICK g : Def(g, Len(q))
  BY <1>1
<1>3. QED BY <1>2 DEF Merging

(* Merged values do not overlap and are in order. *)
Ordered(m) == \A i, j \in 1..Len(m) : i < j => m[i].to <= m[j].from

(* One value holds another, and what must not be reversible stays so. *)
Holds(held, span) ==
  /\ held.from <= span.from /\ span.to <= held.to
  /\ span.action = "redact" => held.action = "redact"

Holding(m, span) == \E i \in 1..Len(m) : Holds(m[i], span)

(* One turn of the loop, given that the value does not start before those  *)
(* that are held.                                                          *)
LEMMA JoinedIs ==
  ASSUME NEW held \in Located, NEW span \in Located, held.from <= span.from
  PROVE  /\ Joined(held, span) \in Located
         /\ Joined(held, span).from = held.from
         /\ Holds(Joined(held, span), span)
         /\ \A s \in Located : Holds(held, s) => Holds(Joined(held, span), s)
<1> DEFINE new == Joined(held, span)
           to == IF span.to > held.to THEN span.to ELSE held.to
           action == IF "redact" \in {held.action, span.action} THEN "redact" ELSE span.action
<1>0. /\ held.from \in 0..Length /\ held.to \in 0..Length /\ held.from < held.to
      /\ span.from \in 0..Length /\ span.to \in 0..Length /\ span.from < span.to
      /\ held.action \in {"redact", "pseudonymize"} /\ span.action \in {"redact", "pseudonymize"}
      /\ Length \in Nat
  BY TextAssumption DEF Located
<1>1. new = [[held EXCEPT !.to = to] EXCEPT !.action = action]
  BY DEF Joined, Located
<1>2. /\ new \in [from : 0..Length, to : 0..Length, action : {"redact", "pseudonymize"}]
      /\ new.from = held.from /\ new.to = to
  BY <1>0, <1>1 DEF Located
<1>3. new.action = action
  BY <1>0, <1>1 DEF Located
<1>4. to \in 0..Length /\ held.to <= to /\ span.to <= to /\ held.from < to
  BY <1>0
<1>5. action \in {"redact", "pseudonymize"}
  BY <1>0
<1>6. new \in Located
  BY <1>2, <1>4 DEF Located
<1>7. /\ span.action = "redact" => action = "redact"
      /\ held.action = "redact" => action = "redact"
  OBVIOUS
<1> HIDE DEF new, to, action
<1>8. Holds(new, span)
  BY <1>0, <1>2, <1>3, <1>4, <1>7 DEF Holds
<1>9. ASSUME NEW s \in Located, Holds(held, s)
      PROVE  Holds(new, s)
  <2>1. s.from \in Int /\ s.to \in Int
    BY <1>0 DEF Located
  <2>2. s.to <= to
    BY <1>0, <1>4, <1>9, <2>1 DEF Holds
  <2>3. QED BY <1>2, <1>3, <1>7, <1>9, <2>2 DEF Holds
<1>10. QED BY <1>2, <1>3, <1>6, <1>8, <1>9 DEF new

(* _merged, one turn: what was apart stays apart, and nothing that was     *)
(* held is lost.                                                           *)
LEMMA HeldIs ==
  ASSUME NEW m \in Seq(Located), Ordered(m), NEW span \in Located,
         \A i \in 1..Len(m) : m[i].from <= span.from
  PROVE  /\ Held(m, span) \in Seq(Located)
         /\ Ordered(Held(m, span))
         /\ Holding(Held(m, span), span)
         /\ \A s \in Located : Holding(m, s) => Holding(Held(m, span), s)
         /\ \A i \in 1..Len(Held(m, span)) : Held(m, span)[i].from <= span.from
<1> DEFINE n == Len(m)
           h == Held(m, span)
<1>0. /\ n \in Nat /\ Length \in Nat
      /\ \A r \in Located : /\ r.from \in 0..Length /\ r.to \in 0..Length /\ r.from < r.to
                            /\ r.action \in {"redact", "pseudonymize"}
      /\ \A i \in 1..n : m[i] \in Located
  BY TextAssumption DEF Located
<1>1. CASE m # << >> /\ span.from < Last(m).to
  <2>1. n \in 1..n /\ n > 0
    BY <1>0, <1>1
  <2> DEFINE new == Joined(m[n], span)
  <2>2. /\ new \in Located
        /\ new.from = m[n].from
        /\ Holds(new, span)
        /\ \A s \in Located : Holds(m[n], s) => Holds(new, s)
    BY <1>0, <2>1, JoinedIs
  <2>3. h = [m EXCEPT ![n] = new]
    BY <1>1 DEF Held
  <2> HIDE DEF new
  <2>4. h \in Seq(Located) /\ Len(h) = n /\ h[n] = new /\ \A i \in 1..n : i # n => h[i] = m[i]
    BY <2>1, <2>2, <2>3
  <2> HIDE DEF h
  <2>5. \A i \in 1..n : h[i].from = m[i].from
    BY <2>2, <2>4
  <2>6. Ordered(h)
    <3>1. ASSUME NEW i \in 1..n, NEW j \in 1..n, i < j
          PROVE  h[i].to <= h[j].from
      <4>1. i # n
        BY <1>0, <3>1
      <4>2. h[i].to = m[i].to /\ h[j].from = m[j].from
        BY <2>4, <2>5, <4>1
      <4>3. QED BY <3>1, <4>2 DEF Ordered
    <3>2. QED BY <2>4, <3>1 DEF Ordered
  <2>7. Holding(h, span)
    BY <2>1, <2>2, <2>4 DEF Holding
  <2>8. ASSUME NEW s \in Located, Holding(m, s)
        PROVE  Holding(h, s)
    <3>1. PICK i \in 1..n : Holds(m[i], s)
      BY <2>8 DEF Holding
    <3>2. Holds(h[i], s)
      BY <2>2, <2>4, <3>1
    <3>3. QED BY <2>4, <3>2 DEF Holding
  <2>9. \A i \in 1..n : h[i].from <= span.from
    BY <2>5
  <2>10. QED BY <2>4, <2>6, <2>7, <2>8, <2>9 DEF h
<1>2. CASE ~(m # << >> /\ span.from < Last(m).to)
  <2>1. h = Append(m, span)
    BY <1>2 DEF Held
  <2>2. /\ h \in Seq(Located) /\ Len(h) = n + 1 /\ h[n + 1] = span
        /\ \A i \in 1..n : h[i] = m[i]
    BY <2>1
  <2> HIDE DEF h
  <2>3. \A i \in 1..n : m[i].to <= span.from
    <3>1. SUFFICES ASSUME NEW i \in 1..n
                   PROVE  m[i].to <= span.from
      OBVIOUS
    <3>2. n \in 1..n /\ m # << >>
      BY <1>0
    <3>3. m[n].to <= span.from
      BY <1>0, <1>2, <3>2 DEF Last
    <3>4. i # n => m[i].to <= m[n].from
      BY <1>0, <3>2 DEF Ordered
    <3>5. QED BY <1>0, <3>2, <3>3, <3>4
  <2>4. Ordered(h)
    <3>1. ASSUME NEW i \in 1..(n + 1), NEW j \in 1..(n + 1), i < j
          PROVE  h[i].to <= h[j].from
      <4>1. i \in 1..n
        BY <1>0, <3>1
      <4>2. CASE j = n + 1
        BY <2>2, <2>3, <4>1, <4>2
      <4>3. CASE j # n + 1
        <5>1. j \in 1..n
          BY <1>0, <4>3
        <5>2. QED BY <2>2, <3>1, <4>1, <5>1 DEF Ordered
      <4>4. QED BY <4>2, <4>3
    <3>2. QED BY <2>2, <3>1 DEF Ordered
  <2>5. Holding(h, span)
    <3>1. Holds(span, span)
      BY <1>0 DEF Holds
    <3>2. n + 1 \in 1..Len(h)
      BY <1>0, <2>2
    <3>3. QED BY <2>2, <3>1, <3>2 DEF Holding
  <2>6. ASSUME NEW s \in Located, Holding(m, s)
        PROVE  Holding(h, s)
    <3>1. PICK i \in 1..n : Holds(m[i], s)
      BY <2>6 DEF Holding
    <3>2. i \in 1..Len(h) /\ h[i] = m[i]
      BY <1>0, <2>2
    <3>3. QED BY <3>1, <3>2 DEF Holding
  <2>7. \A i \in 1..(n + 1) : h[i].from <= span.from
    <3>1. ASSUME NEW i \in 1..(n + 1)
          PROVE  h[i].from <= span.from
      <4>1. CASE i = n + 1
        BY <1>0, <2>2, <4>1
      <4>2. CASE i # n + 1
        <5>1. i \in 1..n
          BY <1>0, <4>2
        <5>2. QED BY <2>2, <5>1
      <4>3. QED BY <4>1, <4>2
    <3>2. QED BY <3>1
  <2>8. QED BY <2>2, <2>4, <2>5, <2>6, <2>7 DEF h
<1>3. QED BY <1>1, <1>2

(* _merged: what is left does not overlap, and holds every value. *)
LEMMA MergedIs ==
  ASSUME NEW S \in SUBSET Located
  PROVE  /\ Merged(S) \in Seq(Located)
         /\ Ordered(Merged(S))
         /\ \A s \in S : Holding(Merged(S), s)
<1> DEFINE q == Sorted(S)
           n == Len(q)
           M == Merging(q)
<1>1. /\ q \in Seq(S) /\ InOrder(q)
      /\ \A s \in S : \E i \in 1..n : q[i] = s
  BY SortedIs
<1>2. n \in Nat /\ \A i \in 1..n : q[i] \in S
  BY <1>1
<1>3. Merged(S) = M[n]
  BY DEF Merged
<1>4. M[0] = << >> /\ \A k \in 1..n : M[k] = Held(M[k - 1], q[k])
  <2> HIDE DEF q
  <2>1. M = [k \in 0..n |-> IF k = 0 THEN << >> ELSE Held(M[k - 1], q[k])]
    BY <1>2, MergingDefined
  <2> HIDE DEF n, M
  <2>2. QED BY <1>2, <2>1
<1>5. \A i, j \in 1..n : i < j => q[i].from <= q[j].from
  <2>1. DOMAIN q = 1..n
    BY <1>1
  <2> HIDE DEF q, n
  <2>2. \A i, j \in 1..n : q[i].from \in Int /\ q[j].from \in Int
    BY <1>2 DEF Located
  <2>3. QED BY <1>1, <2>1, <2>2 DEF InOrder, Before
<1> HIDE DEF q, n, M
<1> DEFINE Right(k) == /\ M[k] \in Seq(Located) /\ Ordered(M[k])
                       /\ \A j \in 1..k : Holding(M[k], q[j])
                       /\ \A i \in 1..Len(M[k]), j \in (k + 1)..n : M[k][i].from <= q[j].from
           T == {k \in 0..n : ~Right(k)}
<1>6. T \in SUBSET Nat
  BY <1>2
<1>7. ASSUME T # {}
      PROVE  FALSE
  <2>1. PICK k \in T : \A j \in T : k <= j
    <3> HIDE DEF T
    <3>1. QED BY <1>6, <1>7, LeastOf
  <2>2. CASE k = 0
    <3>1. << >> \in Seq(Located) /\ Ordered(<< >>)
      BY DEF Ordered
    <3>2. Len(<< >>) = 0
      OBVIOUS
    <3>3. Right(0)
      BY <1>4, <3>1, <3>2
    <3>4. QED BY <2>2, <3>3
  <2>3. CASE k > 0
    <3>1. k \in 1..n /\ k - 1 \in 0..n
      BY <1>2, <2>1, <2>3
    <3>2. k - 1 \notin T
      <4> HIDE DEF T
      <4>1. QED BY <1>6, <2>1
    <3>3. Right(k - 1)
      BY <3>1, <3>2
    <3> DEFINE m == M[k - 1]
    <3>4. q[k] \in Located /\ m \in Seq(Located) /\ Ordered(m)
      BY <1>2, <3>1, <3>3
    <3>5. \A i \in 1..Len(m) : m[i].from <= q[k].from
      <4>1. k \in ((k - 1) + 1)..n
        BY <1>2, <3>1
      <4>2. QED BY <3>3, <4>1
    <3>6. M[k] = Held(m, q[k])
      BY <1>4, <3>1
    <3> HIDE DEF m
    <3>7. /\ M[k] \in Seq(Located) /\ Ordered(M[k])
          /\ Holding(M[k], q[k])
          /\ \A s \in Located : Holding(m, s) => Holding(M[k], s)
          /\ \A i \in 1..Len(M[k]) : M[k][i].from <= q[k].from
      BY <3>4, <3>5, <3>6, HeldIs
    <3>8. ASSUME NEW j \in 1..k
          PROVE  Holding(M[k], q[j])
      <4>1. CASE j = k
        BY <3>7, <4>1
      <4>2. CASE j # k
        <5>1. j \in 1..(k - 1) /\ j \in 1..n
          BY <1>2, <3>1, <4>2
        <5>2. Holding(m, q[j])
          BY <3>3, <5>1 DEF m
        <5>3. QED BY <1>2, <3>7, <5>1, <5>2
      <4>3. QED BY <4>1, <4>2
    <3>9. ASSUME NEW i \in 1..Len(M[k]), NEW j \in (k + 1)..n
          PROVE  M[k][i].from <= q[j].from
      <4>1. j \in 1..n /\ k < j
        BY <1>2, <3>1
      <4>2. q[k].from <= q[j].from
        BY <1>5, <3>1, <4>1
      <4>3. M[k][i].from \in Int /\ q[k].from \in Int /\ q[j].from \in Int
        <5>1. q[j] \in Located
          BY <1>2, <4>1
        <5>2. M[k] \in Seq(Located)
          BY <3>7
        <5>3. M[k][i] \in Located
          BY <5>2
        <5>4. QED BY <3>4, <5>1, <5>3 DEF Located
      <4>4. QED BY <3>7, <4>2, <4>3
    <3>10. Right(k)
      BY <3>7, <3>8, <3>9
    <3>11. QED BY <3>10
  <2>4. QED BY <1>6, <2>1, <2>2, <2>3
<1>8. Right(n)
  BY <1>2, <1>7
<1>9. QED BY <1>1, <1>3, <1>8

(* Nothing that is kept lies in a merged value, and a passage that is      *)
(* stored is one of them.                                                  *)
LEMMA KeptOutside ==
  ASSUME NEW findings, NEW rule, Replaced(findings, rule) \in SUBSET Located,
         NEW s \in Replaced(findings, rule)
  PROVE  /\ (s.from..(s.to - 1)) \cap Transform(findings, rule).kept = {}
         /\ s.action = "redact" =>
              \A v \in Transform(findings, rule).vaulted :
                (s.from..(s.to - 1)) \cap (v[1]..(v[2] - 1)) = {}
<1> DEFINE m == Merged(Replaced(findings, rule))
           n == Len(m)
           cursor(k) == IF k = 0 THEN 0 ELSE m[k].to
           stop(k)   == IF k = n THEN Length ELSE m[k + 1].from
           t == Transform(findings, rule)
<1>1. m \in Seq(Located) /\ Ordered(m) /\ Holding(m, s)
  BY MergedIs
<1>2. /\ t.kept = UNION {cursor(k)..(stop(k) - 1) : k \in 0..n}
      /\ t.vaulted = {<<m[k].from, m[k].to>> : k \in {k \in 1..n : m[k].action = "pseudonymize"}}
  BY DEF Transform
<1> HIDE DEF m, t
<1>3. /\ n \in Nat /\ Length \in Nat
      /\ \A i \in 1..n : /\ m[i].from \in 0..Length /\ m[i].to \in 0..Length
                         /\ m[i].from < m[i].to
      /\ s.from \in 0..Length /\ s.to \in 0..Length
  BY <1>1, TextAssumption DEF Located
<1>4. PICK i \in 1..n : Holds(m[i], s)
  BY <1>1 DEF Holding
<1>5. m[i].from <= s.from /\ s.to <= m[i].to /\ (s.action = "redact" => m[i].action = "redact")
  BY <1>4 DEF Holds
<1>6. \A a, b \in 1..n : a < b => m[a].to <= m[b].from
  BY <1>1 DEF Ordered
<1> HIDE DEF n
<1>7. ASSUME NEW x \in s.from..(s.to - 1), x \in t.kept
      PROVE  FALSE
  <2>1. PICK k \in 0..n : x \in cursor(k)..(stop(k) - 1)
    BY <1>2, <1>7
  <2>2. x \in Int /\ m[i].from <= x /\ x < m[i].to
    BY <1>3, <1>5
  <2>3. CASE i <= k
    <3>1. k \in 1..n /\ cursor(k) = m[k].to
      BY <1>3, <2>3
    <3>2. m[i].to <= m[k].to
      <4>1. CASE i = k
        BY <1>3, <4>1
      <4>2. CASE i < k
        BY <1>3, <1>6, <3>1, <4>2
      <4>3. QED BY <1>3, <2>3, <4>1, <4>2
    <3>3. m[k].to <= x
      BY <1>3, <2>1, <3>1
    <3>4. QED BY <1>3, <2>2, <3>1, <3>2, <3>3
  <2>4. CASE k < i
    <3>1. k + 1 \in 1..n /\ stop(k) = m[k + 1].from
      BY <1>3, <2>4
    <3>2. m[k + 1].from <= m[i].from
      <4>1. CASE i = k + 1
        BY <1>3, <4>1
      <4>2. CASE k + 1 < i
        <5>1. m[k + 1].to <= m[i].from
          BY <1>6, <3>1, <4>2
        <5>2. QED BY <1>3, <3>1, <5>1
      <4>3. QED BY <1>3, <2>4, <4>1, <4>2
    <3>3. x < m[k + 1].from
      BY <1>3, <2>1, <2>2, <3>1
    <3>4. QED BY <1>3, <2>2, <3>1, <3>2, <3>3
  <2>5. QED BY <1>3, <2>3, <2>4
<1>8. ASSUME s.action = "redact", NEW v \in t.vaulted,
             NEW x \in s.from..(s.to - 1), x \in v[1]..(v[2] - 1)
      PROVE  FALSE
  <2>1. PICK k \in 1..n : m[k].action = "pseudonymize" /\ v = <<m[k].from, m[k].to>>
    BY <1>2
  <2>2. k # i
    BY <1>5, <1>8, <2>1
  <2>3. x \in Int /\ m[i].from <= x /\ x < m[i].to /\ m[k].from <= x /\ x < m[k].to
    <3>1. v[1] = m[k].from /\ v[2] = m[k].to
      BY <2>1
    <3>2. QED BY <1>3, <1>5, <1>8, <3>1
  <2>4. m[i].to <= m[k].from \/ m[k].to <= m[i].from
    <3>1. i < k \/ k < i
      BY <1>3, <2>2
    <3>2. QED BY <1>6, <3>1
  <2>5. QED BY <1>3, <2>3, <2>4
<1>9. (s.from..(s.to - 1)) \cap t.kept = {}
  BY <1>7
<1>10. ASSUME s.action = "redact", NEW v \in t.vaulted
       PROVE  (s.from..(s.to - 1)) \cap (v[1]..(v[2] - 1)) = {}
  BY <1>8, <1>10
<1>11. QED BY <1>9, <1>10 DEF t

(* A sensitive value in a text that can be inspected: it is found, where   *)
(* it is.                                                                  *)
LEMMA SensitiveFound ==
  ASSUME NEW text \in Texts, NEW s \in text, s.category \in Sensitive, s.at # NoWhere
  PROVE  /\ Finding(s.category, FALSE, s.at) \in Findings(text)
         /\ s.category \in Kinds(Findings(text))
<1> DEFINE f == Finding(s.category, FALSE, s.at)
<1>1. s \in Sightings
  BY SightingsOfText
<1>2. s.by \in {"pattern", "presidio"}
  <2>1. s \notin ReadingSightings
    BY DEF ReadingSightings
  <2>2. s \notin CanarySightings
    BY PiiAssumption DEF CanarySightings, Sensitive
  <2>3. s \notin ClassifierSightings
    BY PiiAssumption DEF ClassifierSightings, Sensitive
  <2>4. QED BY <1>1, <2>1, <2>2, <2>3, SightingKinds
<1>3. CASE s.by = "pattern"
  <2>1. f \in DeterministicFindings(text)
    BY <1>3 DEF DeterministicFindings, By
  <2>2. QED BY <2>1 DEF Findings, Kinds, Finding
<1>4. CASE s.by = "presidio"
  <2>1. f \in PresidioFindings(text)
    BY <1>4 DEF PresidioFindings, By
  <2>2. QED BY <2>1 DEF Findings, Kinds, Finding
<1>5. QED BY <1>2, <1>3, <1>4

(* Every finding that can be replaced has a place in the text. *)
LEMMA ReplacedLocated ==
  ASSUME NEW text \in Texts, Inspectable(text), NEW rule
  PROVE  Replaced(Findings(text), rule) \in SUBSET Located
<1>1. ASSUME NEW f \in Findings(text), f.at # NoWhere, f.category \in Sensitive
      PROVE  f.at \in Spans
  <2>1. CASE f \in DeterministicFindings(text)
    <3>1. f.at = NoWhere \/ \E s \in By(text, "pattern") : f = Finding(s.category, FALSE, s.at)
      BY <2>1 DEF DeterministicFindings, Finding
    <3>2. PICK s \in text : s.by = "pattern" /\ f.category = s.category /\ f.at = s.at
      BY <1>1, <3>1 DEF By, Finding
    <3>3. s \in PatternSightings
      BY <3>2, SightingsOfText, SightingKinds
    <3>4. "prompt_injection" \notin Sensitive /\ "embedded_action" \notin Sensitive
      BY PiiAssumption DEF Sensitive
    <3>5. s.at \in Spans
      BY <1>1, <3>2, <3>3, <3>4 DEF PatternSightings
    <3>6. QED BY <3>2, <3>5
  <2>2. f \notin CanaryFindings(text)
    BY <1>1, PiiAssumption DEF CanaryFindings, Finding, Sensitive
  <2>3. f \notin ClassifierFindings(text)
    BY <1>1 DEF ClassifierFindings, Finding
  <2>4. CASE f \in PresidioFindings(text)
    <3>1. PICK s \in By(text, "presidio") : f = Finding(s.category, FALSE, s.at)
      BY <2>4 DEF PresidioFindings
    <3>2. s \in text /\ s.by = "presidio" /\ f.at = s.at
      BY <3>1 DEF By, Finding
    <3>3. 0 <= s.at[1] /\ s.at[1] < s.at[2] /\ s.at[2] <= Length
      BY <3>1 DEF Inspectable, PresidioReadable
    <3>4. s \in PresidioSightings
      BY <3>2, SightingsOfText, SightingKinds
    <3>5. s.at \in Spans \/ s.at = <<0, Length + 1>>
      BY <3>4 DEF PresidioSightings
    <3>6. s.at # <<0, Length + 1>>
      BY <3>3, TextAssumption
    <3>7. QED BY <3>2, <3>5, <3>6
  <2>5. QED BY <2>1, <2>2, <2>3, <2>4 DEF Findings
<1>2. ASSUME NEW r \in Replaced(Findings(text), rule)
      PROVE  r \in Located
  <2>1. PICK f \in Findings(text) :
          /\ f.at # NoWhere /\ f.category \in Sensitive
          /\ rule[f.category] \in {"redact", "pseudonymize"}
          /\ r = [from |-> f.at[1], to |-> f.at[2], action |-> rule[f.category]]
    BY DEF Replaced
  <2>2. f.at \in Spans
    BY <1>1, <2>1
  <2>3. QED BY <2>1, <2>2 DEF Spans, Located
<1>3. QED BY <1>2

(* The rule for secrets, whatever is configured: never one that could be   *)
(* undone.                                                                 *)
LEMMA SecretRule ==
  ASSUME settings \in Settings
  PROVE  Resolve(settings)["secret"] \in {"redact", "deny"}
<1> DEFINE t == settings.tenantRules["secret"]
           d == settings.rules["secret"]
<1>1. t \in TenantRules /\ d \in DeploymentRules /\ t \notin {"allow", "pseudonymize"}
      /\ d \notin {"allow", "pseudonymize"}
  BY DEF Settings, KeepSecretsIrreversible, Sensitive
<1>2. t \in {"redact", "deny", "unset"} /\ d \in {"redact", "deny", "unset"}
  BY <1>1, RulesAssumption DEF EntityActions
<1>3. Resolve(settings)["secret"] = IF t # "unset" THEN t ELSE IF d # "unset" THEN d ELSE "redact"
  BY DEF Resolve, Sensitive
<1>4. QED BY <1>2, <1>3

(* What is delivered of a content, by what is judged about it. *)
LEMMA DeliveredIs ==
  ASSUME NEW req, NEW text, NEW reply, NEW output, NEW judged, judged = Judge(req, text, reply)
  PROVE  LET d == DecideContent(req, text, reply, output)
         IN  /\ judged[1] = "deny" => d.delivered = Nothing
             /\ judged[1] = "allow" => d.delivered \in {Nothing, Whole}
             /\ judged[1] = "transform" /\ req.model = "local" =>
                  d.delivered = Whole /\ d.reason = "sensitive_content_local_only"
             /\ judged[1] = "transform" /\ req.model # "local" =>
                  d.delivered = Transform(Findings(text), Resolve(settings))
  BY DEF DecideContent, Decision

(* The invariant keeps sensitive values from passing. *)
LEMMA CallSensitive == CallOK => NothingSensitivePasses
<1> SUFFICES ASSUME CallOK, call.kind = "content"
             PROVE  NothingSensitivePasses
  BY DEF NothingSensitivePasses
<1> DEFINE rule == Resolve(settings)
           text == call.text
           req == call.req
           delivered == call.decision.delivered
           local == ContentVerdict(req, Findings(text), rule)
           transformed == Transform(Findings(text), rule)
           Characters(s) == s.at[1]..(s.at[2] - 1)
           Found(s) == s \in text /\ s.category \in Sensitive /\ s.at # NoWhere
<1>1. settings \in Settings /\ text \in Texts /\ req.point \in Points
  BY PointsOfRequests DEF CallOK, ContentCall
<1>2. PICK reply, output : call.decision = DecideContent(req, text, reply, output)
  BY DEF CallOK, ContentCall
<1> DEFINE judged == Judge(req, text, reply)
<1>3. /\ judged[1] \in {"allow", "deny", "transform"}
      /\ judged[1] \in {"deny", local[1]}
      /\ ~Inspectable(text) => judged[1] = "deny"
  BY <1>1, Judged
<1>4. /\ judged[1] = "deny" => delivered = Nothing
      /\ judged[1] = "allow" => delivered \in {Nothing, Whole}
      /\ judged[1] = "transform" /\ req.model = "local" =>
           delivered = Whole /\ call.decision.reason = "sensitive_content_local_only"
      /\ judged[1] = "transform" /\ req.model # "local" => delivered = transformed
  BY <1>2, DeliveredIs
<1>5. /\ "deny" \in Governed(Findings(text), rule) => local[1] = "deny"
      /\ Governed(Findings(text), rule) # {} => local[1] # "allow"
  BY ContentDecided
<1>6. ASSUME NEW s, Found(s)
      PROVE  rule[s.category] = "allow" \/ rule[s.category] \in Governed(Findings(text), rule)
  <2>1. s.category \in Kinds(Findings(text))
    BY <1>1, <1>6, SensitiveFound
  <2>2. QED BY <1>6, <2>1 DEF Governed
<1>7. ASSUME NEW s, Found(s), rule[s.category] \in {"redact", "pseudonymize"},
             judged[1] = "transform"
      PROVE  /\ Characters(s) \cap transformed.kept = {}
             /\ rule[s.category] = "redact" =>
                  \A v \in transformed.vaulted : Characters(s) \cap (v[1]..(v[2] - 1)) = {}
  <2> DEFINE r == [from |-> s.at[1], to |-> s.at[2], action |-> rule[s.category]]
  <2>1. Inspectable(text)
    BY <1>3, <1>7
  <2>2. Replaced(Findings(text), rule) \in SUBSET Located
    BY <1>1, <2>1, ReplacedLocated
  <2>3. r \in Replaced(Findings(text), rule)
    <3> DEFINE f == Finding(s.category, FALSE, s.at)
    <3>1. f \in Findings(text)
      BY <1>1, <1>7, SensitiveFound
    <3>2. f.at = s.at /\ f.category = s.category
      BY DEF Finding
    <3> HIDE DEF f, rule
    <3>3. QED BY <1>7, <3>1, <3>2 DEF Replaced
  <2>4. r.from = s.at[1] /\ r.to = s.at[2] /\ r.action = rule[s.category]
    OBVIOUS
  <2> HIDE DEF r, rule
  <2>5. QED BY <2>2, <2>3, <2>4, KeptOutside
<1> HIDE DEF judged, local, transformed
<1>8. Nothing.kept = {} /\ Nothing.vaulted = {} /\ Whole.vaulted = {}
  BY DEF Nothing, Whole
<1>9. ASSUME NEW s, Found(s), rule[s.category] \in {"redact", "pseudonymize"}
      PROVE  \/ call.decision.reason = "sensitive_content_local_only" /\ req.model = "local"
             \/ Characters(s) \cap delivered.kept = {}
  <2>1. judged[1] \in {"deny", "transform"}
    BY <1>3, <1>5, <1>6, <1>9
  <2>2. QED BY <1>4, <1>7, <1>8, <1>9, <2>1
<1>10. ASSUME NEW s, Found(s), rule[s.category] = "deny"
       PROVE  delivered = Nothing
  <2>1. judged[1] = "deny"
    BY <1>3, <1>5, <1>6, <1>10
  <2>2. QED BY <1>4, <2>1
<1>11. ASSUME NEW s, Found(s), s.category = "secret" \/ rule[s.category] = "redact",
              NEW v \in delivered.vaulted
       PROVE  Characters(s) \cap (v[1]..(v[2] - 1)) = {}
  <2>1. rule[s.category] \in {"redact", "deny"}
    BY <1>1, <1>11, SecretRule
  <2>2. judged[1] = "transform" /\ delivered = transformed
    BY <1>3, <1>4, <1>8, <1>11
  <2>3. rule[s.category] = "redact"
    BY <1>8, <1>10, <1>11, <2>1
  <2>4. QED BY <1>7, <1>11, <2>2, <2>3
<1>12. QED BY <1>9, <1>10, <1>11 DEF NothingSensitivePasses

(* sensitive._merged and transform, service._judge: however many values    *)
(* overlap, in a text of any length and under any rules, no character of   *)
(* one that is governed is delivered outside the trusted boundary, nothing *)
(* that touches a secret or a value to redact is stored, and a value whose *)
(* rule is to deny stops the text.                                         *)
THEOREM SensitiveStays == InspectionSpec => []NothingSensitivePasses
  BY InspectionInvariance, CallSensitive, PTL
=============================================================================
