------------------------ MODULE AuditPipelineProofs ------------------------
(***************************************************************************)
(* AuditPipeline loses, repeats and reorders nothing, for any number of    *)
(* handlers, tenants and events, any buffer and any failures of the client *)
(* and the broker.                                                         *)
(*                                                                         *)
(* The transport is looked at through what it carries: an accepted send    *)
(* adds one event, and a refused send, an acknowledgement and a refusal of *)
(* the broker add and lose none.  The sink adds what it is delivering.     *)
(***************************************************************************)
EXTENDS AuditPipeline, FiniteSetTheorems, SequenceTheorems, TLAPS

(* What the transport carries, and how much. *)
Carried      == Elements(queue) \cup Elements(refused) \cup Elements(acked)
CarriedCount == Len(queue) + Len(refused) + Len(acked)

TransportOK ==
  /\ queue \in Seq(Event) /\ refused \in Seq(Event) /\ acked \in Seq(Event)
  /\ connected \in BOOLEAN /\ holdOff \in BOOLEAN /\ faults \in Nat
  /\ inFlight = Len(queue)

(* Events are numbered as the sink took them. *)
Numbered ==
  /\ IsFiniteSet(published)
  /\ \A e \in published : e.n <= Cardinality(published)
  /\ \A e, f \in published : e.n = f.n => e = f

(* The event being delivered is the last. *)
DeliveryOK ==
  lock.op = "deliver" =>
    lock.event \in published /\ lock.event.n = Cardinality(published)

(* The transport was handed events in order, all before the buffered ones. *)
OrderOK ==
  /\ Elements(handed) \subseteq published \ Delivering
  /\ Increasing(handed) /\ Increasing(pending)
  /\ \A e \in Elements(handed), f \in Elements(pending) : e.n < f.n

(* An admitted request that is alone, or its event, has room in the buffer. *)
RoomOK ==
  Mandatory =>
    /\ \A h \in Handlers : handler[h].pc = "gated" /\ handler[h].alone => Len(pending) < MaxLen
    /\ lock.op = "deliver" /\ lock.event.alone => Len(pending) < MaxLen

IInv ==
  /\ TypeOK
  /\ TransportOK
  /\ Numbered
  /\ DeliveryOK
  /\ OrderOK
  /\ RoomOK
  /\ NothingVanishes
  /\ NothingTwice
  /\ AdmittedAloneIsKept

-----------------------------------------------------------------------------
(* Lemmas on sequences and what they hold. *)

LEMMA ElementsOf ==
  ASSUME NEW S, NEW s \in Seq(S)
  PROVE  /\ Elements(s) \subseteq S
         /\ \A k \in 1..Len(s) : s[k] \in Elements(s)
         /\ Len(s) \in Nat
BY DEF Elements

LEMMA ElementsEmpty == Elements(<< >>) = {} /\ Len(<< >>) = 0
BY DEF Elements

LEMMA ElementsAppend ==
  ASSUME NEW S, NEW s \in Seq(S), NEW e \in S
  PROVE  /\ Append(s, e) \in Seq(S) /\ Len(Append(s, e)) = Len(s) + 1
         /\ Elements(Append(s, e)) = Elements(s) \cup {e}
<1> DEFINE t == Append(s, e)
           n == Len(s)
<1>1. /\ t \in Seq(S) /\ Len(t) = n + 1 /\ t[n + 1] = e /\ n \in Nat
      /\ \A k \in 1..n : t[k] = s[k]
  BY AppendProperties
<1> HIDE DEF t, n
<1>2. \A k \in 1..(n + 1) : k \in 1..n \/ k = n + 1
  BY <1>1
<1>3. 1..n \subseteq 1..(n + 1) /\ n + 1 \in 1..(n + 1)
  BY <1>1
<1>4. Elements(s) = {s[k] : k \in 1..n} /\ Elements(t) = {t[k] : k \in 1..(n + 1)}
  BY <1>1 DEF Elements, n
<1>5. {t[k] : k \in 1..(n + 1)} = {s[k] : k \in 1..n} \cup {e}
  BY <1>1, <1>2, <1>3
<1>6. QED BY <1>1, <1>4, <1>5 DEF t, n

LEMMA ElementsConcat ==
  ASSUME NEW S, NEW s \in Seq(S), NEW t \in Seq(S)
  PROVE  /\ s \o t \in Seq(S) /\ Len(s \o t) = Len(s) + Len(t)
         /\ Elements(s \o t) = Elements(s) \cup Elements(t)
<1> DEFINE u == s \o t
           m == Len(s)
           n == Len(t)
<1>1. /\ u \in Seq(S) /\ Len(u) = m + n /\ m \in Nat /\ n \in Nat
      /\ \A k \in 1..(m + n) : u[k] = IF k <= m THEN s[k] ELSE t[k - m]
  BY ConcatProperties
<1> HIDE DEF u, m, n
<1>2. Elements(s) = {s[k] : k \in 1..m} /\ Elements(t) = {t[k] : k \in 1..n}
      /\ Elements(u) = {u[k] : k \in 1..(m + n)}
  BY <1>1 DEF Elements, m, n
<1>3. \A k \in 1..m : k \in 1..(m + n) /\ u[k] = s[k]
  BY <1>1
<1>4. \A k \in 1..n : k + m \in 1..(m + n) /\ u[k + m] = t[k]
  BY <1>1
<1>5. \A k \in 1..(m + n) : (k \in 1..m /\ u[k] = s[k]) \/ (k - m \in 1..n /\ u[k] = t[k - m])
  BY <1>1
<1>6. Elements(u) = Elements(s) \cup Elements(t)
  BY <1>2, <1>3, <1>4, <1>5
<1>7. QED BY <1>1, <1>6 DEF u, m, n

LEMMA ElementsTail ==
  ASSUME NEW S, NEW s \in Seq(S), s # << >>
  PROVE  /\ Head(s) \in S /\ Tail(s) \in Seq(S) /\ Len(Tail(s)) = Len(s) - 1 /\ Len(s) >= 1
         /\ Head(s) = s[1] /\ \A k \in 1..(Len(s) - 1) : Tail(s)[k] = s[k + 1]
         /\ Elements(s) = {Head(s)} \cup Elements(Tail(s))
<1> DEFINE t == Tail(s)
           n == Len(s)
<1>1. /\ Head(s) = s[1] /\ Head(s) \in S /\ t \in Seq(S) /\ Len(t) = n - 1 /\ n \in Nat
      /\ \A k \in 1..Len(t) : t[k] = s[k + 1]
  BY HeadTailProperties
<1>2. n >= 1
  BY <1>1, EmptySeq
<1> HIDE DEF t, n
<1>3. Elements(s) = {s[k] : k \in 1..n} /\ Elements(t) = {t[k] : k \in 1..(n - 1)}
  BY <1>1 DEF Elements, n
<1>4. \A k \in 1..n : k = 1 \/ (k - 1 \in 1..(n - 1) /\ t[k - 1] = s[k])
  BY <1>1, <1>2
<1>5. 1 \in 1..n /\ \A k \in 1..(n - 1) : k + 1 \in 1..n /\ t[k] = s[k + 1]
  BY <1>1, <1>2
<1>6. Elements(s) = {s[1]} \cup Elements(t)
  BY <1>3, <1>4, <1>5
<1>7. QED BY <1>1, <1>2, <1>5, <1>6 DEF t, n

(* A sequence cut in two. *)
LEMMA ElementsSplit ==
  ASSUME NEW S, NEW s \in Seq(S), NEW p \in 0..Len(s)
  PROVE  /\ SubSeq(s, 1, p) \in Seq(S) /\ SubSeq(s, p + 1, Len(s)) \in Seq(S)
         /\ Len(SubSeq(s, 1, p)) = p /\ Len(SubSeq(s, p + 1, Len(s))) = Len(s) - p
         /\ Elements(SubSeq(s, 1, p)) \cup Elements(SubSeq(s, p + 1, Len(s))) = Elements(s)
<1> DEFINE n == Len(s)
           l == SubSeq(s, 1, p)
           r == SubSeq(s, p + 1, n)
<1>1. n \in Nat /\ p \in Nat /\ p <= n
  OBVIOUS
<1>2. l \in Seq(S) /\ Len(l) = p /\ \A k \in 1..p : l[k] = s[k]
  OBVIOUS
<1>3. r \in Seq(S) /\ Len(r) = n - p /\ \A k \in 1..(n - p) : r[k] = s[k + p]
  OBVIOUS
<1> HIDE DEF n, l, r
<1>4. /\ Elements(s) = {s[k] : k \in 1..n} /\ Elements(l) = {l[k] : k \in 1..p}
      /\ Elements(r) = {r[k] : k \in 1..(n - p)}
  BY <1>2, <1>3 DEF Elements, n
<1>5. \A k \in 1..n : (k \in 1..p /\ l[k] = s[k]) \/ (k - p \in 1..(n - p) /\ r[k - p] = s[k])
  BY <1>1, <1>2, <1>3
<1>6. /\ \A k \in 1..p : k \in 1..n /\ l[k] = s[k]
      /\ \A k \in 1..(n - p) : k + p \in 1..n /\ r[k] = s[k + p]
  BY <1>1, <1>2, <1>3
<1>7. Elements(l) \cup Elements(r) = Elements(s)
  BY <1>4, <1>5, <1>6
<1>8. QED BY <1>2, <1>3, <1>7 DEF n, l, r

(* A sequence with one message taken out. *)
LEMMA DequeuedFacts ==
  ASSUME queue \in Seq(Event), NEW k \in 1..Len(queue)
  PROVE  /\ queue[k] \in Event
         /\ Dequeued(k) \in Seq(Event) /\ Len(Dequeued(k)) = Len(queue) - 1
         /\ Elements(queue) = Elements(Dequeued(k)) \cup {queue[k]}
<1> DEFINE n    == Len(queue)
           head == SubSeq(queue, 1, k)
           l    == SubSeq(queue, 1, k - 1)
           r    == SubSeq(queue, k + 1, n)
<1>1. n \in Nat /\ k \in 1..n /\ k - 1 \in 0..n /\ k \in 0..n /\ queue[k] \in Event
  BY ElementOfSeq
<1>2. /\ r \in Seq(Event) /\ Len(r) = n - k /\ Len(head) = k /\ head \in Seq(Event)
      /\ Elements(head) \cup Elements(r) = Elements(queue)
  BY <1>1, ElementsSplit
<1>3. l \in Seq(Event) /\ Len(l) = k - 1
  BY <1>1, ElementsSplit
<1>4. head = Append(l, queue[k])
  <2>1. \A j \in 1..k : head[j] = queue[j]
    BY <1>1
  <2>2. \A j \in 1..(k - 1) : l[j] = queue[j]
    BY <1>1
  <2> HIDE DEF head, l
  <2>3. /\ Append(l, queue[k]) \in Seq(Event) /\ Len(Append(l, queue[k])) = k
        /\ \A j \in 1..k : Append(l, queue[k])[j] = queue[j]
    <3>1. /\ Append(l, queue[k]) \in Seq(Event) /\ Len(Append(l, queue[k])) = (k - 1) + 1
          /\ \A j \in 1..(k - 1) : Append(l, queue[k])[j] = l[j]
          /\ Append(l, queue[k])[(k - 1) + 1] = queue[k]
      BY <1>1, <1>3, AppendProperties
    <3>2. (k - 1) + 1 = k /\ \A j \in 1..k : j \in 1..(k - 1) \/ j = k
      BY <1>1
    <3>3. QED BY <2>2, <3>1, <3>2
  <2>4. QED BY <1>2, <2>1, <2>3, SeqEqual
<1> HIDE DEF head, l, r, n
<1>5. Elements(head) = Elements(l) \cup {queue[k]}
  BY <1>1, <1>3, <1>4, ElementsAppend
<1>6. l \o r \in Seq(Event) /\ Len(l \o r) = Len(l) + Len(r)
      /\ Elements(l \o r) = Elements(l) \cup Elements(r)
  <2>1. l \in Seq(Event) /\ r \in Seq(Event)
    BY <1>2, <1>3
  <2>2. QED BY <2>1, ElementsConcat
<1>7. Dequeued(k) = l \o r
  BY DEF Dequeued, l, r, n
<1>8. Len(l) + Len(r) = n - 1
  BY <1>1, <1>2, <1>3
<1>9. QED BY <1>1, <1>2, <1>5, <1>6, <1>7, <1>8 DEF n

-----------------------------------------------------------------------------
(* What the transport does with what it carries. *)

(* kafka.KafkaTransport.send, accepted: one event more. *)
LEMMA AcceptedFacts ==
  ASSUME TransportOK, NEW e \in Event, SendAccepted(e)
  PROVE  /\ TransportOK'
         /\ Carried' = Carried \cup {e} /\ CarriedCount' = CarriedCount + 1
<1> DEFINE q == queue \o refused
<1>1. /\ q \in Seq(Event) /\ Len(q) = Len(queue) + Len(refused)
      /\ Elements(q) = Elements(queue) \cup Elements(refused)
  BY ElementsConcat DEF TransportOK
<1>2. /\ <<e>> \in Seq(Event) /\ Len(<<e>>) = 1 /\ Elements(<<e>>) = {e}
  BY DEF Elements
<1>3. queue' = q \o <<e>> /\ refused' = << >> /\ acked' = acked
      /\ inFlight' = inFlight + Len(refused) + 1 /\ connected' = TRUE
      /\ UNCHANGED <<holdOff, faults>>
  BY DEF SendAccepted
<1> HIDE DEF q
<1>4. /\ queue' \in Seq(Event) /\ Len(queue') = Len(q) + 1
      /\ Elements(queue') = Elements(q) \cup {e}
  <2> DEFINE t == <<e>>
  <2>1. q \in Seq(Event) /\ t \in Seq(Event) /\ Len(t) = 1 /\ Elements(t) = {e} /\ queue' = q \o t
    BY <1>1, <1>2, <1>3
  <2> HIDE DEF t
  <2>2. /\ q \o t \in Seq(Event) /\ Len(q \o t) = Len(q) + Len(t)
        /\ Elements(q \o t) = Elements(q) \cup Elements(t)
    <3>1. PICK a \in Seq(Event), b \in Seq(Event) : a = q /\ b = t
      BY <2>1
    <3>2. /\ a \o b \in Seq(Event) /\ Len(a \o b) = Len(a) + Len(b)
          /\ Elements(a \o b) = Elements(a) \cup Elements(b)
      BY ElementsConcat
    <3>3. QED BY <3>1, <3>2
  <2>3. QED BY <2>1, <2>2
<1>5. Len(queue) \in Nat /\ Len(refused) \in Nat /\ Len(acked) \in Nat
  BY DEF TransportOK
<1>6. Len(queue') = Len(queue) + Len(refused) + 1
  BY <1>1, <1>4, <1>5
<1>7. TransportOK'
  BY <1>3, <1>4, <1>6 DEF TransportOK
<1>8. Carried' = Carried \cup {e}
  BY <1>1, <1>3, <1>4, ElementsEmpty DEF Carried
<1>9. CarriedCount' = CarriedCount + 1
  BY <1>3, <1>5, <1>6, ElementsEmpty DEF CarriedCount
<1>10. QED BY <1>7, <1>8, <1>9

(* send, raising: nothing comes and nothing goes. *)
LEMMA RefusedFacts ==
  ASSUME TransportOK, SendRefused
  PROVE  TransportOK' /\ Carried' = Carried /\ CarriedCount' = CarriedCount
<1>1. CASE Unconnectable
  <2>1. UNCHANGED <<connected, queue, inFlight, refused, acked>>
    BY <1>1 DEF Unconnectable
  <2>2. holdOff' \in BOOLEAN
    BY <1>1, Zenon DEF Unconnectable, TransportOK
  <2>3. faults' \in Nat
    BY <1>1, SMT DEF Unconnectable, TransportOK
  <2>4. QED BY <2>1, <2>2, <2>3 DEF TransportOK, Carried, CarriedCount
<1>2. ASSUME NEW p \in 0..Len(refused), QueuedUpTo(p)
      PROVE  TransportOK' /\ Carried' = Carried /\ CarriedCount' = CarriedCount
  <2> DEFINE l == SubSeq(refused, 1, p)
             r == SubSeq(refused, p + 1, Len(refused))
  <2>1. /\ l \in Seq(Event) /\ r \in Seq(Event) /\ Len(l) = p /\ Len(r) = Len(refused) - p
        /\ Elements(l) \cup Elements(r) = Elements(refused)
    BY ElementsSplit DEF TransportOK
  <2>2. /\ queue' = queue \o l /\ refused' = r /\ acked' = acked /\ holdOff' = holdOff
        /\ inFlight' = inFlight + p /\ connected' = TRUE /\ faults' \in Nat
    BY <1>2 DEF QueuedUpTo, StillRefused, TransportOK
  <2> HIDE DEF l, r
  <2>3. /\ queue' \in Seq(Event) /\ Len(queue') = Len(queue) + p
        /\ Elements(queue') = Elements(queue) \cup Elements(l)
    <3>1. queue \in Seq(Event) /\ l \in Seq(Event) /\ Len(l) = p /\ queue' = queue \o l
      BY <2>1, <2>2 DEF TransportOK
    <3>2. /\ queue \o l \in Seq(Event) /\ Len(queue \o l) = Len(queue) + Len(l)
          /\ Elements(queue \o l) = Elements(queue) \cup Elements(l)
      <4>1. PICK a \in Seq(Event), b \in Seq(Event) : a = queue /\ b = l
        BY <3>1
      <4>2. /\ a \o b \in Seq(Event) /\ Len(a \o b) = Len(a) + Len(b)
            /\ Elements(a \o b) = Elements(a) \cup Elements(b)
        BY ElementsConcat
      <4>3. QED BY <4>1, <4>2
    <3>3. QED BY <3>1, <3>2
  <2>4. Len(queue) \in Nat /\ Len(refused) \in Nat /\ Len(acked) \in Nat
    BY DEF TransportOK
  <2>5. TransportOK'
    BY <2>1, <2>2, <2>3 DEF TransportOK
  <2>6. Carried' = Carried
    BY <2>1, <2>2, <2>3 DEF Carried
  <2>7. CarriedCount' = CarriedCount
    <3>1. /\ p \in Nat /\ Len(queue') = Len(queue) + p /\ Len(refused') = Len(refused) - p
          /\ acked' = acked
      BY <2>1, <2>2, <2>3
    <3>2. QED BY <2>4, <3>1 DEF CarriedCount
  <2>8. QED BY <2>5, <2>6, <2>7
<1>3. QED BY <1>1, <1>2 DEF SendRefused

(* The callbacks of the client: a message moves. *)
LEMMA CallbackFacts ==
  ASSUME TransportOK, Acknowledged \/ Refused \/ HoldOffEnds
  PROVE  TransportOK' /\ Carried' = Carried /\ CarriedCount' = CarriedCount
<1>0. Len(queue) \in Nat /\ Len(refused) \in Nat /\ Len(acked) \in Nat
  BY DEF TransportOK
<1>1. CASE Acknowledged
  <2>1. PICK k \in 1..Len(queue) : queue' = Dequeued(k) /\ acked' = Append(acked, queue[k])
    BY <1>1 DEF Acknowledged
  <2>2. inFlight' = inFlight - 1 /\ UNCHANGED <<connected, holdOff, refused, faults>>
    BY <1>1 DEF Acknowledged
  <2>3. /\ queue[k] \in Event /\ queue' \in Seq(Event) /\ Len(queue') = Len(queue) - 1
        /\ Elements(queue) = Elements(queue') \cup {queue[k]}
    BY <2>1, DequeuedFacts DEF TransportOK
  <2>4. /\ acked' \in Seq(Event) /\ Len(acked') = Len(acked) + 1
        /\ Elements(acked') = Elements(acked) \cup {queue[k]}
    BY <2>1, <2>3, ElementsAppend DEF TransportOK
  <2>5. TransportOK'
    BY <2>2, <2>3, <2>4 DEF TransportOK
  <2>6. Carried' = Carried
    BY <2>2, <2>3, <2>4 DEF Carried
  <2>7. CarriedCount' = CarriedCount
    BY <1>0, <2>2, <2>3, <2>4 DEF CarriedCount
  <2>8. QED BY <2>5, <2>6, <2>7
<1>2. CASE Refused
  <2>1. PICK k \in 1..Len(queue) : queue' = Dequeued(k) /\ refused' = Append(refused, queue[k])
    BY <1>2 DEF Refused
  <2>2. inFlight' = inFlight - 1 /\ UNCHANGED <<connected, holdOff, acked>> /\ faults' \in Nat
    BY <1>2 DEF Refused, TransportOK
  <2>3. /\ queue[k] \in Event /\ queue' \in Seq(Event) /\ Len(queue') = Len(queue) - 1
        /\ Elements(queue) = Elements(queue') \cup {queue[k]}
    BY <2>1, DequeuedFacts DEF TransportOK
  <2>4. /\ refused' \in Seq(Event) /\ Len(refused') = Len(refused) + 1
        /\ Elements(refused') = Elements(refused) \cup {queue[k]}
    BY <2>1, <2>3, ElementsAppend DEF TransportOK
  <2>5. TransportOK'
    BY <2>2, <2>3, <2>4 DEF TransportOK
  <2>6. Carried' = Carried
    BY <2>2, <2>3, <2>4 DEF Carried
  <2>7. CarriedCount' = CarriedCount
    BY <1>0, <2>2, <2>3, <2>4 DEF CarriedCount
  <2>8. QED BY <2>5, <2>6, <2>7
<1>3. CASE HoldOffEnds
  BY <1>3 DEF HoldOffEnds, TransportOK, Carried, CarriedCount
<1>4. QED BY <1>1, <1>2, <1>3

-----------------------------------------------------------------------------
(* The thread that holds the lock, and the requests. *)

LEMMA LockFacts ==
  ASSUME NEW l \in {Free} \cup Holding
  PROVE  /\ l.op = "deliver" => l.by \in Handlers /\ l.event \in Event
         /\ l.op = "accepting" => /\ l.by \in Handlers /\ l.tenant \in Tenants
                                  /\ l.left \in 1..MaxBatch
         /\ l # Free => l \in Holding
         /\ Free.op # "deliver"
BY DEF Free, Holding

LEMMA StuckFacts ==
  ASSUME NEW l \in Holding
  PROVE  LET m == [l EXCEPT !.stuck = TRUE]
         IN  /\ m \in Holding /\ m.op = l.op
             /\ l.op = "deliver" => m.event = l.event
<1> DEFINE m == [l EXCEPT !.stuck = TRUE]
<1>1. CASE l \in [op : {"state"}, stuck : BOOLEAN]
  <2>1. m \in [op : {"state"}, stuck : BOOLEAN] /\ m.op = l.op /\ l.op = "state"
    BY <1>1
  <2>2. QED BY <2>1 DEF Holding
<1>2. CASE l \in [op : {"accepting"}, by : Handlers, tenant : Tenants, left : 1..MaxBatch,
                  stuck : BOOLEAN]
  <2>1. /\ m \in [op : {"accepting"}, by : Handlers, tenant : Tenants, left : 1..MaxBatch,
                  stuck : BOOLEAN]
        /\ m.op = l.op /\ l.op = "accepting"
    BY <1>2
  <2>2. QED BY <2>1 DEF Holding
<1>3. CASE l \in [op : {"deliver"}, by : Handlers, event : Event, stuck : BOOLEAN]
  <2>1. /\ m \in [op : {"deliver"}, by : Handlers, event : Event, stuck : BOOLEAN]
        /\ m.op = l.op /\ m.event = l.event
    BY <1>3
  <2>2. QED BY <2>1 DEF Holding
<1>4. QED BY <1>1, <1>2, <1>3 DEF Holding

(* How many events are settled: all but the one being delivered. *)
LEMMA SettledFacts ==
  ASSUME IInv
  PROVE  /\ IsFiniteSet(published) /\ Cardinality(published) \in Nat
         /\ IsFiniteSet(dropped) /\ Cardinality(dropped) \in Nat
         /\ published \subseteq Event
         /\ lock.op = "deliver" =>
              /\ lock.event \in published /\ lock.event \in Event /\ Delivering = {lock.event}
              /\ lock.event.n = Cardinality(published)
              /\ \A e \in published \ Delivering : e.n < lock.event.n
         /\ lock.op # "deliver" => Delivering = {}
<1>1. IsFiniteSet(published) /\ Cardinality(published) \in Nat
  BY FS_CardinalityType DEF IInv, Numbered
<1>2. dropped \in SUBSET published /\ published \subseteq Event
  BY DEF IInv, TypeOK
<1>3. IsFiniteSet(dropped) /\ Cardinality(dropped) \in Nat
  <2>1. IsFiniteSet(dropped)
    BY <1>1, <1>2, FS_Subset
  <2>2. QED BY <2>1, FS_CardinalityType
<1>4. lock.op # "deliver" => Delivering = {}
  BY DEF Delivering
<1>5. ASSUME lock.op = "deliver"
      PROVE  /\ lock.event \in published /\ Delivering = {lock.event}
             /\ lock.event.n = Cardinality(published)
             /\ \A e \in published \ Delivering : e.n < lock.event.n
  <2>1. /\ lock.event \in published /\ Delivering = {lock.event}
        /\ lock.event.n = Cardinality(published)
    BY <1>5 DEF Delivering, IInv, DeliveryOK
  <2> SUFFICES ASSUME NEW e \in published \ Delivering PROVE e.n < lock.event.n
    BY <2>1
  <2>2. e.n # lock.event.n /\ e.n <= Cardinality(published)
    BY <2>1 DEF IInv, Numbered
  <2>3. e.n \in Nat
    BY <1>2 DEF Event
  <2>4. QED BY <1>1, <2>1, <2>2, <2>3
<1>6. QED BY <1>1, <1>2, <1>3, <1>4, <1>5

(* The places an event can be in, by what the transport carries. *)
LEMMA Places ==
  /\ NothingVanishes <=> published \ Delivering = Elements(pending) \cup Carried \cup dropped
  /\ NothingVanishes' <=>
       (published \ Delivering)' = Elements(pending') \cup Carried' \cup dropped'
BY DEF NothingVanishes, Carried

LEMMA CountsForm ==
  ASSUME TransportOK, Len(pending) \in Nat, Cardinality(dropped) \in Nat
  PROVE  NothingTwice <=>
           Cardinality(published \ Delivering) = Len(pending) + CarriedCount + Cardinality(dropped)
<1>1. Len(queue) \in Nat /\ Len(refused) \in Nat /\ Len(acked) \in Nat /\ inFlight = Len(queue)
  BY DEF TransportOK
<1>2. QED BY <1>1 DEF CarriedCount, NothingTwice

LEMMA CountsFormPrimed ==
  ASSUME TransportOK', Len(pending') \in Nat, Cardinality(dropped') \in Nat
  PROVE  NothingTwice' <=>
           Cardinality((published \ Delivering)')
             = Len(pending') + CarriedCount' + Cardinality(dropped')
<1>1. /\ Len(queue') \in Nat /\ Len(refused') \in Nat /\ Len(acked') \in Nat
      /\ inFlight' = Len(queue')
  BY DEF TransportOK
<1>2. QED BY <1>1 DEF CarriedCount, NothingTwice

(* A step in which the sink takes, hands over and drops nothing. *)
LEMMA QuietStep ==
  ASSUME IInv, TransportOK', Carried' = Carried, CarriedCount' = CarriedCount,
         UNCHANGED <<pending, dropped, handed, published>>,
         lock' \in {Free} \cup Holding, handler' \in [Handlers -> Request],
         (lock'.op = "deliver") <=> (lock.op = "deliver"),
         lock.op = "deliver" => lock'.event = lock.event,
         \A h \in Handlers : Mandatory /\ handler'[h].pc = "gated" /\ handler'[h].alone =>
           handler'[h] = handler[h] \/ Len(pending) < MaxLen
  PROVE  IInv'
<1>1. Delivering' = Delivering
  BY DEF Delivering
<1>2. TypeOK'
  <2>1. inFlight' \in Nat
    BY DEF TransportOK
  <2>2. QED BY <2>1 DEF IInv, TypeOK, TransportOK
<1>3. Numbered' /\ DeliveryOK' /\ AdmittedAloneIsKept'
  BY DEF IInv, Numbered, DeliveryOK, AdmittedAloneIsKept
<1>4. OrderOK'
  BY <1>1 DEF IInv, OrderOK, Increasing, Elements
<1>5. RoomOK'
  BY DEF IInv, RoomOK
<1>6. NothingVanishes'
  BY <1>1, Places DEF IInv
<1>7. NothingTwice'
  <2>1. Len(pending) \in Nat /\ Cardinality(dropped) \in Nat
    BY SettledFacts DEF IInv, TypeOK
  <2>2. Cardinality(published \ Delivering)
          = Len(pending) + CarriedCount + Cardinality(dropped)
    BY <2>1, CountsForm DEF IInv
  <2>3. QED BY <1>1, <2>1, <2>2, CountsFormPrimed
<1>8. QED BY <1>2, <1>3, <1>4, <1>5, <1>6, <1>7 DEF IInv

LEMMA CallbackIInv == ASSUME IInv, Acknowledged \/ Refused \/ HoldOffEnds PROVE IInv'
<1>1. TransportOK' /\ Carried' = Carried /\ CarriedCount' = CarriedCount
  BY CallbackFacts DEF IInv
<1>2. UNCHANGED sink
  BY DEF Acknowledged, Refused, HoldOffEnds
<1>3. UNCHANGED <<lock, pending, dropped, handler, handed, published>>
  BY <1>2 DEF sink
<1>4. QED BY <1>1, <1>3, QuietStep DEF IInv, TypeOK

(* The lock is taken for an operation that delivers nothing, or released. *)
LEMMA LockIInv ==
  ASSUME IInv,
         \/ Probe \/ ProbeEnds
         \/ \E h \in Handlers, t \in Tenants, left \in 1..MaxBatch : Accepting(h, t, left)
  PROVE  IInv'
<1>1. UNCHANGED <<pending, dropped, handler, handed, published>> /\ UNCHANGED transport
  BY DEF Probe, ProbeEnds, Accepting
<1>2. TransportOK' /\ Carried' = Carried /\ CarriedCount' = CarriedCount
  BY <1>1 DEF transport, IInv, TransportOK, Carried, CarriedCount
<1>3. /\ lock' \in {Free} \cup Holding /\ lock.op # "deliver" /\ lock'.op # "deliver"
  <2>1. CASE Probe
    BY <2>1 DEF Probe, Free, Holding
  <2>2. CASE ProbeEnds
    BY <2>2 DEF ProbeEnds, Free
  <2>3. ASSUME NEW h \in Handlers, NEW t \in Tenants, NEW left \in 1..MaxBatch,
               Accepting(h, t, left)
        PROVE  lock' \in {Free} \cup Holding /\ lock.op # "deliver" /\ lock'.op # "deliver"
    BY <2>3 DEF Accepting, Free, Holding
  <2>4. QED BY <2>1, <2>2, <2>3
<1>4. QED BY <1>1, <1>2, <1>3, QuietStep DEF IInv, TypeOK

LEMMA AcceptingEndsIInv == ASSUME IInv, AcceptingEnds PROVE IInv'
<1>1. UNCHANGED <<pending, dropped, handed, published>> /\ UNCHANGED transport
  BY DEF AcceptingEnds
<1>2. TransportOK' /\ Carried' = Carried /\ CarriedCount' = CarriedCount
  BY <1>1 DEF transport, IInv, TransportOK, Carried, CarriedCount
<1>3. lock' = Free /\ lock' \in {Free} \cup Holding /\ lock.op = "accepting" /\ lock'.op # "deliver"
  BY DEF AcceptingEnds, Free
<1> DEFINE h   == lock.by
           req == IF Accepts
                  THEN [pc |-> "gated", tenant |-> lock.tenant, left |-> lock.left, alone |-> TRUE]
                  ELSE [pc |-> "blocked", tenant |-> lock.tenant]
<1>4. h \in Handlers /\ lock.tenant \in Tenants /\ lock.left \in 1..MaxBatch
  BY <1>3, LockFacts DEF IInv, TypeOK
<1>5. req \in Request /\ (req.pc = "gated" => Accepts)
  BY <1>4 DEF Request
<1>6. handler' = [handler EXCEPT ![h] = req] /\ handler \in [Handlers -> Request]
  BY DEF AcceptingEnds, IInv, TypeOK
<1> HIDE DEF req, h
<1>7. handler' \in [Handlers -> Request]
  BY <1>5, <1>6
<1>8. \A g \in Handlers : handler'[g] = handler[g] \/ (g = h /\ handler'[g] = req)
  BY <1>4, <1>6
<1>9. \A g \in Handlers : Mandatory /\ handler'[g].pc = "gated" /\ handler'[g].alone =>
        handler'[g] = handler[g] \/ Len(pending) < MaxLen
  BY <1>5, <1>8 DEF Accepts
<1>10. QED BY <1>1, <1>2, <1>3, <1>7, <1>9, QuietStep

(* _flush hands the oldest buffered event over. *)
LEMMA FlushOneIInv == ASSUME IInv, FlushOne PROVE IInv'
<1>0. lock \in Holding /\ pending # << >> /\ pending \in Seq(Event) /\ handed \in Seq(Event)
      /\ UNCHANGED <<dropped, handler, published>>
  BY LockFacts DEF FlushOne, IInv, TypeOK
<1>1. CASE SendRefused /\ lock' = [lock EXCEPT !.stuck = TRUE] /\ UNCHANGED <<pending, handed>>
  <2>1. TransportOK' /\ Carried' = Carried /\ CarriedCount' = CarriedCount
    BY <1>1, RefusedFacts DEF IInv
  <2>2. /\ lock' \in Holding /\ lock'.op = lock.op
        /\ lock.op = "deliver" => lock'.event = lock.event
    BY <1>0, <1>1, StuckFacts
  <2>3. QED BY <1>0, <1>1, <2>1, <2>2, QuietStep DEF IInv, TypeOK
<1>2. CASE /\ SendAccepted(Head(pending)) /\ pending' = Tail(pending)
           /\ handed' = Append(handed, Head(pending)) /\ lock' = lock
  <2> DEFINE e == Head(pending)
             n == Len(pending)
  <2>1. /\ e \in Event /\ pending' \in Seq(Event) /\ Len(pending') = n - 1 /\ n >= 1
        /\ e = pending[1] /\ \A k \in 1..(n - 1) : pending'[k] = pending[k + 1]
        /\ Elements(pending) = {e} \cup Elements(pending') /\ n \in Nat
    BY <1>0, <1>2, ElementsTail
  <2>2. TransportOK' /\ Carried' = Carried \cup {e} /\ CarriedCount' = CarriedCount + 1
    BY <1>2, <2>1, AcceptedFacts DEF IInv
  <2>3. handed' \in Seq(Event) /\ Len(handed') = Len(handed) + 1
        /\ Elements(handed') = Elements(handed) \cup {e}
    BY <1>0, <1>2, <2>1, ElementsAppend
  <2>4. Delivering' = Delivering
    BY <1>2 DEF Delivering
  <2>5. e \in published \ Delivering
    BY <2>1, Places DEF IInv
  <2>6. /\ handed'[Len(handed) + 1] = e /\ Len(handed) \in Nat
        /\ \A k \in 1..Len(handed) : handed'[k] = handed[k]
    BY <1>0, <1>2, <2>1, AppendProperties
  <2> HIDE DEF e, n
  <2>7. TypeOK'
    <3>1. inFlight' \in Nat
      BY <2>2 DEF TransportOK
    <3>2. n <= MaxLen /\ n - 1 <= MaxLen
      BY <2>1, MaxLenAssumption DEF IInv, TypeOK, n
    <3>3. QED BY <1>0, <1>2, <2>1, <2>2, <2>3, <3>1, <3>2 DEF IInv, TypeOK, TransportOK
  <2>8. Numbered' /\ DeliveryOK' /\ AdmittedAloneIsKept'
    BY <1>0, <1>2 DEF IInv, Numbered, DeliveryOK, AdmittedAloneIsKept
  <2>9. RoomOK'
    <3>1. Len(pending) < MaxLen => Len(pending') < MaxLen
      BY <2>1, MaxLenAssumption DEF n
    <3>2. QED BY <1>0, <1>2, <3>1 DEF IInv, RoomOK
  <2>10. OrderOK'
    <3>1. Increasing(pending) /\ Increasing(handed)
          /\ \A d \in Elements(handed), f \in Elements(pending) : d.n < f.n
      BY DEF IInv, OrderOK
    <3>2. Increasing(pending')
      <4> SUFFICES ASSUME NEW j \in 1..(n - 1), NEW k \in 1..(n - 1), j < k
                   PROVE  pending'[j].n < pending'[k].n
        BY <2>1 DEF Increasing
      <4>1. PICK a \in 1..n, b \in 1..n : a = j + 1 /\ b = k + 1 /\ a < b
        BY <2>1
      <4>2. pending[a].n < pending[b].n
        BY <3>1, <4>1 DEF Increasing, n
      <4>3. QED BY <2>1, <4>1, <4>2
    <3>3. \A f \in Elements(pending') : e.n < f.n
      <4>1. \A k \in 1..(n - 1) : pending[1].n < pending[k + 1].n
        BY <2>1, <3>1 DEF Increasing, n
      <4>2. QED BY <2>1, <4>1 DEF Elements
    <3>4. \A k \in 1..Len(handed) : handed[k].n < e.n
      BY <2>1, <3>1 DEF Elements
    <3>5. Increasing(handed')
      <4>1. \A j, k \in 1..(Len(handed) + 1) :
              j < k => j \in 1..Len(handed) /\ (k \in 1..Len(handed) \/ k = Len(handed) + 1)
        BY <2>6
      <4>2. QED BY <2>3, <2>6, <3>1, <3>4, <4>1 DEF Increasing
    <3>6. \A d \in Elements(handed'), f \in Elements(pending') : d.n < f.n
      BY <2>1, <2>3, <3>1, <3>3
    <3>7. Elements(handed') \subseteq published' \ Delivering'
      BY <1>0, <2>3, <2>4, <2>5 DEF IInv, OrderOK
    <3>8. QED BY <3>2, <3>5, <3>6, <3>7 DEF OrderOK
  <2>11. NothingVanishes'
    BY <1>0, <2>1, <2>2, <2>4, Places DEF IInv
  <2>12. NothingTwice'
    <3>1. Len(pending) \in Nat /\ Cardinality(dropped) \in Nat /\ CarriedCount \in Nat
      BY SettledFacts DEF IInv, TypeOK, TransportOK, CarriedCount
    <3>2. Cardinality(published \ Delivering)
            = Len(pending) + CarriedCount + Cardinality(dropped)
      BY <3>1, CountsForm DEF IInv
    <3>3. Len(pending) + CarriedCount = Len(pending') + CarriedCount'
      BY <2>1, <2>2, <3>1 DEF n
    <3>4. QED BY <1>0, <2>1, <2>2, <2>4, <3>1, <3>2, <3>3, CountsFormPrimed DEF n
  <2>13. QED BY <2>2, <2>7, <2>8, <2>9, <2>10, <2>11, <2>12 DEF IInv
<1>3. QED BY <1>1, <1>2 DEF FlushOne

(* _deliver takes the lock with a new event. *)
LEMMA DeliverIInv ==
  ASSUME IInv, NEW h \in Handlers, NEW t \in Tenants \cup {Keyless}, NEW k \in Kinds,
         NEW alone \in BOOLEAN, Deliver(h, t, k, alone),
         Mandatory /\ alone => Len(pending) < MaxLen
  PROVE  IInv'
<1> DEFINE N == Cardinality(published)
           e == [n |-> N + 1, tenant |-> t, kind |-> k, alone |-> alone]
<1>1. N \in Nat /\ IsFiniteSet(published) /\ Delivering = {} /\ N < MaxEvents /\ lock = Free
      /\ published \subseteq Event
  BY SettledFacts DEF Deliver, Free
<1>2. e \in Event /\ e.n = N + 1 /\ e.alone = alone
  BY <1>1, BoundsAssumption DEF Event
<1>3. /\ lock' = [op |-> "deliver", by |-> h, event |-> e, stuck |-> FALSE]
      /\ published' = published \cup {e}
      /\ UNCHANGED <<pending, dropped, handler, handed>> /\ UNCHANGED transport
  BY DEF Deliver
<1>4. TransportOK' /\ Carried' = Carried /\ CarriedCount' = CarriedCount
  BY <1>3 DEF transport, IInv, TransportOK, Carried, CarriedCount
<1> HIDE DEF e
<1>5. lock' \in Holding /\ lock'.op = "deliver" /\ lock'.event = e
  BY <1>2, <1>3 DEF Holding
<1>6. \A f \in published : f.n <= N /\ f.n \in Nat
  BY <1>1 DEF IInv, Numbered, Event
<1>7. e \notin published
  BY <1>1, <1>2, <1>6
<1>8. IsFiniteSet(published') /\ Cardinality(published') = N + 1
  BY <1>1, <1>3, <1>7, FS_AddElement
<1> HIDE DEF N
<1>9. Numbered'
  <2>1. \A f \in published' : f = e \/ f \in published
    BY <1>3
  <2>2. \A f \in published' : f.n <= N + 1
    BY <1>1, <1>2, <1>6, <2>1
  <2>3. \A f, g \in published' : f.n = g.n => f = g
    <3>1. \A f \in published : f.n # e.n
      BY <1>1, <1>2, <1>6
    <3>2. QED BY <2>1, <3>1 DEF IInv, Numbered
  <2>4. QED BY <1>8, <2>2, <2>3 DEF Numbered
<1>10. DeliveryOK'
  BY <1>2, <1>3, <1>5, <1>8 DEF DeliveryOK
<1>11. Delivering' = {e} /\ published' \ Delivering' = published /\ published \ Delivering = published
  BY <1>1, <1>3, <1>5, <1>7 DEF Delivering
<1>12. TypeOK'
  <2>1. inFlight' \in Nat
    BY <1>4 DEF TransportOK
  <2>2. dropped' \subseteq published' /\ published' \subseteq Event
    BY <1>1, <1>2, <1>3 DEF IInv, TypeOK
  <2>3. QED BY <1>3, <1>4, <1>5, <2>1, <2>2 DEF IInv, TypeOK, TransportOK
<1>13. OrderOK'
  BY <1>3, <1>11 DEF IInv, OrderOK, Increasing, Elements
<1>14. RoomOK'
  BY <1>2, <1>3, <1>5 DEF IInv, RoomOK
<1>15. NothingVanishes'
  BY <1>3, <1>4, <1>11, Places DEF IInv
<1>16. NothingTwice'
  <2>1. Len(pending) \in Nat /\ Cardinality(dropped) \in Nat
    BY SettledFacts DEF IInv, TypeOK
  <2>2. Cardinality(published)
          = Len(pending) + CarriedCount + Cardinality(dropped)
    BY <1>11, <2>1, CountsForm DEF IInv
  <2>3. QED BY <1>3, <1>4, <1>11, <2>1, <2>2, CountsFormPrimed
<1>17. AdmittedAloneIsKept'
  BY <1>3 DEF IInv, AdmittedAloneIsKept
<1>18. QED BY <1>4, <1>9, <1>10, <1>12, <1>13, <1>14, <1>15, <1>16, <1>17 DEF IInv

LEMMA PublishIInv ==
  ASSUME IInv, NEW h \in Handlers,
         \/ PublishEnforced(h) \/ PublishBlocked(h)
         \/ \E t \in Tenants \cup {Keyless} : PublishUnasked(h, t)
  PROVE  IInv'
<1>0. handler[h] \in Request
  BY DEF IInv, TypeOK
<1>1. CASE PublishEnforced(h)
  <2>1. handler[h].pc = "gated" /\ Deliver(h, handler[h].tenant, "enforced", handler[h].alone)
    BY <1>1 DEF PublishEnforced
  <2>2. handler[h].tenant \in Tenants /\ handler[h].alone \in BOOLEAN
    BY <1>0, <2>1 DEF Request, Idle
  <2>3. Mandatory /\ handler[h].alone => Len(pending) < MaxLen
    BY <2>1 DEF IInv, RoomOK
  <2> DEFINE t == handler[h].tenant
             a == handler[h].alone
  <2> HIDE DEF t, a
  <2>4. /\ Deliver(h, t, "enforced", a) /\ t \in Tenants \cup {Keyless} /\ a \in BOOLEAN
        /\ "enforced" \in Kinds /\ (Mandatory /\ a => Len(pending) < MaxLen)
    BY <2>1, <2>2, <2>3 DEF t, a, Kinds
  <2>5. QED BY <2>4, DeliverIInv
<1>2. CASE PublishBlocked(h)
  <2>1. handler[h].pc = "blocked" /\ Deliver(h, handler[h].tenant, "other", FALSE)
    BY <1>2 DEF PublishBlocked
  <2>2. handler[h].tenant \in Tenants
    BY <1>0, <2>1 DEF Request, Idle
  <2> DEFINE t == handler[h].tenant
  <2> HIDE DEF t
  <2>3. Deliver(h, t, "other", FALSE) /\ t \in Tenants \cup {Keyless} /\ "other" \in Kinds
    BY <2>1, <2>2 DEF t, Kinds
  <2>4. QED BY <2>3, DeliverIInv
<1>3. ASSUME NEW t \in Tenants \cup {Keyless}, PublishUnasked(h, t) PROVE IInv'
  <2>1. Deliver(h, t, "other", FALSE) /\ "other" \in Kinds
    BY <1>3 DEF PublishUnasked, Kinds
  <2>2. QED BY <2>1, DeliverIInv
<1>4. QED BY <1>1, <1>2, <1>3

(* A delivery leaves nobody alone. *)
LEMMA AfterDeliveryFacts ==
  ASSUME handler \in [Handlers -> Request], NEW h \in Handlers
  PROVE  /\ AfterDelivery(h) \in [Handlers -> Request]
         /\ \A g \in Handlers : AfterDelivery(h)[g].pc = "gated" => ~AfterDelivery(h)[g].alone
<1> SUFFICES ASSUME NEW g \in Handlers
             PROVE  /\ AfterDelivery(h)[g] \in Request
                    /\ AfterDelivery(h)[g].pc = "gated" => ~AfterDelivery(h)[g].alone
  BY DEF AfterDelivery
<1> DEFINE r == handler[g]
           a == [r EXCEPT !.alone = FALSE]
           q == [a EXCEPT !.left = IF g = h THEN @ - 1 ELSE @]
<1>1. r \in Request
  OBVIOUS
<1>2. CASE r.pc = "gated" /\ (g # h \/ r.left > 1)
  <2>1. r \in [pc : {"gated"}, tenant : Tenants, left : 1..MaxBatch, alone : BOOLEAN]
    BY <1>1, <1>2 DEF Request, Idle
  <2>2. /\ a \in [pc : {"gated"}, tenant : Tenants, left : 1..MaxBatch, alone : BOOLEAN]
        /\ a.alone = FALSE /\ a.left = r.left
    BY <2>1
  <2>3. AfterDelivery(h)[g] = q
    BY <1>2 DEF AfterDelivery
  <2>4. (IF g = h THEN r.left - 1 ELSE r.left) \in 1..MaxBatch
    BY <1>2, <2>1, BoundsAssumption
  <2> HIDE DEF a
  <2>5. q \in [pc : {"gated"}, tenant : Tenants, left : 1..MaxBatch, alone : BOOLEAN]
        /\ q.alone = FALSE
    BY <2>2, <2>4
  <2>6. QED BY <2>3, <2>5 DEF Request
<1>3. CASE ~(r.pc = "gated" /\ (g # h \/ r.left > 1))
  <2>1. AfterDelivery(h)[g] = IF g = h THEN Idle ELSE r
    BY <1>3 DEF AfterDelivery
  <2>2. Idle \in Request /\ Idle.pc # "gated"
    BY DEF Request, Idle
  <2>3. QED BY <1>1, <1>3, <2>1, <2>2
<1>4. QED BY <1>2, <1>3

(* The event being delivered finds its place. *)
LEMMA PlacedStep ==
  ASSUME IInv, lock.op = "deliver", lock' = Free, published' = published,
         handler' \in [Handlers -> Request],
         \A g \in Handlers : handler'[g].pc = "gated" => ~handler'[g].alone,
         TransportOK', pending' \in Seq(Event), Len(pending') <= MaxLen,
         handed' \in Seq(Event), dropped' \subseteq published, Cardinality(dropped') \in Nat,
         Elements(pending') \cup Carried' \cup dropped'
           = (Elements(pending) \cup Carried \cup dropped) \cup {lock.event},
         Len(pending') + CarriedCount' + Cardinality(dropped')
           = (Len(pending) + CarriedCount + Cardinality(dropped)) + 1,
         OrderOK', AdmittedAloneIsKept'
  PROVE  IInv'
<1> DEFINE e == lock.event
           P == published \ {e}
<1>1. /\ e \in published /\ Delivering = {e} /\ IsFiniteSet(published)
      /\ Cardinality(published) \in Nat /\ Cardinality(dropped) \in Nat
  BY SettledFacts
<1>2. lock'.op # "deliver" /\ Delivering' = {}
  BY DEF Free, Delivering
<1>3. published \ Delivering = P /\ published' \ Delivering' = P \cup {e}
  BY <1>1, <1>2
<1>4. TypeOK'
  <2>1. inFlight' \in Nat
    BY DEF TransportOK
  <2>2. QED BY <2>1 DEF IInv, TypeOK, TransportOK
<1>5. Numbered' /\ DeliveryOK'
  BY <1>2 DEF IInv, Numbered, DeliveryOK
<1>6. RoomOK'
  BY <1>2 DEF RoomOK
<1>7. NothingVanishes'
  BY <1>3, Places DEF IInv
<1>8. NothingTwice'
  <2>1. Len(pending) \in Nat /\ Len(pending') \in Nat
    BY DEF IInv, TypeOK
  <2>2. Cardinality(P) = Len(pending) + CarriedCount + Cardinality(dropped)
    BY <1>1, <1>3, <2>1, CountsForm DEF IInv
  <2>3. IsFiniteSet(P) /\ e \notin P
    BY <1>1, FS_RemoveElement
  <2> HIDE DEF P
  <2>4. Cardinality(P \cup {e}) = Cardinality(P) + 1
    BY <2>3, FS_AddElement
  <2>5. QED BY <1>3, <2>1, <2>2, <2>4, CountsFormPrimed
<1>9. QED BY <1>4, <1>5, <1>6, <1>7, <1>8 DEF IInv

LEMMA DeliverEndsIInv == ASSUME IInv, DeliverEnds PROVE IInv'
<1> DEFINE e == lock.event
<1>1. lock.op = "deliver" /\ lock' = Free /\ published' = published
      /\ handler' = AfterDelivery(lock.by)
  BY DEF DeliverEnds
<1>2. /\ e \in published /\ e \in Event /\ Delivering = {e}
      /\ \A f \in published \ Delivering : f.n < e.n
      /\ IsFiniteSet(dropped) /\ Cardinality(dropped) \in Nat
  BY <1>1, SettledFacts
<1>3. /\ handler' \in [Handlers -> Request]
      /\ \A g \in Handlers : handler'[g].pc = "gated" => ~handler'[g].alone
  <2>1. lock.by \in Handlers
    BY <1>1, LockFacts DEF IInv, TypeOK
  <2>2. QED BY <1>1, <2>1, AfterDeliveryFacts DEF IInv, TypeOK
<1>4. Delivering' = {} /\ published' \ Delivering' = published
  BY <1>1 DEF Delivering, Free
<1>5. /\ pending \in Seq(Event) /\ handed \in Seq(Event) /\ Len(pending) <= MaxLen
      /\ dropped \subseteq published /\ Len(pending) \in Nat /\ Len(handed) \in Nat
  BY DEF IInv, TypeOK
<1>6. CarriedCount \in Nat
  BY DEF IInv, TransportOK, CarriedCount
<1>7. /\ Increasing(handed) /\ Increasing(pending)
      /\ Elements(handed) \subseteq published /\ Elements(pending) \subseteq published
      /\ \A f \in Elements(handed) : f.n < e.n
      /\ \A f \in Elements(pending) : f.n < e.n
      /\ \A d \in Elements(handed), f \in Elements(pending) : d.n < f.n
  <2>1. Elements(pending) \subseteq published \ Delivering
    BY Places DEF IInv
  <2>2. QED BY <1>2, <2>1 DEF IInv, OrderOK
<1> HIDE DEF e
<1>8. CASE /\ InTurn /\ SendAccepted(lock.event)
           /\ handed' = Append(handed, lock.event) /\ UNCHANGED <<pending, dropped>>
  <2>1. TransportOK' /\ Carried' = Carried \cup {e} /\ CarriedCount' = CarriedCount + 1
    BY <1>2, <1>8, AcceptedFacts DEF IInv, e
  <2>2. /\ handed' \in Seq(Event) /\ Len(handed') = Len(handed) + 1
        /\ Elements(handed') = Elements(handed) \cup {e}
    BY <1>2, <1>5, <1>8, ElementsAppend DEF e
  <2>3. handed'[Len(handed) + 1] = e /\ \A k \in 1..Len(handed) : handed'[k] = handed[k]
    BY <1>2, <1>5, <1>8, AppendProperties DEF e
  <2>4. OrderOK'
    <3>1. Elements(pending') = {}
      BY <1>8, ElementsEmpty DEF InTurn
    <3>2. \A k \in 1..Len(handed) : handed[k].n < e.n
      BY <1>7 DEF Elements
    <3>3. Increasing(handed')
      <4>1. \A j, k \in 1..(Len(handed) + 1) :
              j < k => j \in 1..Len(handed) /\ (k \in 1..Len(handed) \/ k = Len(handed) + 1)
        BY <1>5
      <4>2. QED BY <1>7, <2>2, <2>3, <3>2, <4>1 DEF Increasing
    <3>4. Elements(handed') \subseteq published' \ Delivering'
      BY <1>2, <1>4, <1>7, <2>2
    <3>5. Increasing(pending')
      BY <1>7, <1>8 DEF Increasing
    <3>6. QED BY <3>1, <3>3, <3>4, <3>5 DEF OrderOK
  <2>5. AdmittedAloneIsKept'
    BY <1>8 DEF IInv, AdmittedAloneIsKept
  <2>6. Len(pending') + CarriedCount' + Cardinality(dropped')
          = (Len(pending) + CarriedCount + Cardinality(dropped)) + 1
    BY <1>2, <1>5, <1>6, <1>8, <2>1
  <2>7. Elements(pending') \cup Carried' \cup dropped'
          = (Elements(pending) \cup Carried \cup dropped) \cup {lock.event}
    BY <1>8, <2>1 DEF e
  <2>8. QED BY <1>1, <1>2, <1>3, <1>5, <1>8, <2>1, <2>2, <2>4, <2>5, <2>6, <2>7, PlacedStep
<1>9. CASE (IF InTurn THEN SendRefused ELSE UNCHANGED transport) /\ Keep(lock.event)
           /\ UNCHANGED handed
  <2>1. TransportOK' /\ Carried' = Carried /\ CarriedCount' = CarriedCount
    <3>1. CASE SendRefused
      BY <3>1, RefusedFacts DEF IInv
    <3>2. CASE UNCHANGED transport
      BY <3>2 DEF transport, IInv, TransportOK, Carried, CarriedCount
    <3>3. QED BY <1>9, <3>1, <3>2
  <2>2. CASE Len(pending) < MaxLen
    <3>1. pending' = Append(pending, e) /\ dropped' = dropped
      BY <1>9, <2>2 DEF Keep, e
    <3>2. /\ pending' \in Seq(Event) /\ Len(pending') = Len(pending) + 1
          /\ Elements(pending') = Elements(pending) \cup {e}
      BY <1>2, <1>5, <3>1, ElementsAppend
    <3>3. /\ pending'[Len(pending) + 1] = e
          /\ \A k \in 1..Len(pending) : pending'[k] = pending[k]
      BY <1>2, <1>5, <3>1, AppendProperties
    <3>4. OrderOK'
      <4>1. \A k \in 1..Len(pending) : pending[k].n < e.n
        BY <1>7 DEF Elements
      <4>2. Increasing(pending')
        <5>1. \A j, k \in 1..(Len(pending) + 1) :
                j < k => j \in 1..Len(pending) /\ (k \in 1..Len(pending) \/ k = Len(pending) + 1)
          BY <1>5
        <5>2. QED BY <1>7, <3>2, <3>3, <4>1, <5>1 DEF Increasing
      <4>3. Increasing(handed') /\ Elements(handed') \subseteq published' \ Delivering'
        BY <1>4, <1>7, <1>9 DEF Increasing
      <4>4. \A d \in Elements(handed'), f \in Elements(pending') : d.n < f.n
        BY <1>7, <1>9, <3>2
      <4>5. QED BY <4>2, <4>3, <4>4 DEF OrderOK
    <3>5. AdmittedAloneIsKept'
      BY <3>1 DEF IInv, AdmittedAloneIsKept
    <3>6. Len(pending') <= MaxLen
      BY <1>5, <2>2, <3>2, MaxLenAssumption
    <3>7. Len(pending') + CarriedCount' + Cardinality(dropped')
            = (Len(pending) + CarriedCount + Cardinality(dropped)) + 1
      BY <1>2, <1>5, <1>6, <2>1, <3>1, <3>2
    <3>8. Elements(pending') \cup Carried' \cup dropped'
            = (Elements(pending) \cup Carried \cup dropped) \cup {lock.event}
      BY <2>1, <3>1, <3>2 DEF e
    <3>9. handed' \in Seq(Event) /\ dropped' \subseteq published /\ Cardinality(dropped') \in Nat
      BY <1>2, <1>5, <1>9, <3>1
    <3>10. QED BY <1>1, <1>3, <2>1, <3>2, <3>4, <3>5, <3>6, <3>7, <3>8, <3>9, PlacedStep
  <2>3. CASE ~(Len(pending) < MaxLen)
    <3>1. dropped' = dropped \cup {e} /\ pending' = pending
      BY <1>9, <2>3 DEF Keep, e
    <3>2. e \notin dropped
      BY <1>2, Places DEF IInv
    <3>3. Cardinality(dropped') = Cardinality(dropped) + 1
      BY <1>2, <3>1, <3>2, FS_AddElement
    <3>4. OrderOK'
      <4>1. Increasing(pending') /\ Increasing(handed') /\ Elements(handed') = Elements(handed)
            /\ Elements(pending') = Elements(pending)
        BY <1>7, <1>9, <3>1 DEF Increasing
      <4>2. QED BY <1>4, <1>7, <4>1 DEF OrderOK
    <3>5. AdmittedAloneIsKept'
      <4>1. Mandatory => ~e.alone
        BY <1>1, <2>3 DEF IInv, RoomOK, e
      <4>2. QED BY <3>1, <4>1 DEF IInv, AdmittedAloneIsKept
    <3>6. Len(pending') + CarriedCount' + Cardinality(dropped')
            = (Len(pending) + CarriedCount + Cardinality(dropped)) + 1
      BY <1>2, <1>5, <1>6, <2>1, <3>1, <3>3
    <3>7. Elements(pending') \cup Carried' \cup dropped'
            = (Elements(pending) \cup Carried \cup dropped) \cup {lock.event}
      BY <2>1, <3>1 DEF e
    <3>8. handed' \in Seq(Event) /\ dropped' \subseteq published /\ Cardinality(dropped') \in Nat
          /\ pending' \in Seq(Event) /\ Len(pending') <= MaxLen
      BY <1>2, <1>5, <1>9, <3>1, <3>3
    <3>9. QED BY <1>1, <1>3, <2>1, <3>4, <3>5, <3>6, <3>7, <3>8, PlacedStep
  <2>4. QED BY <2>2, <2>3
<1>10. QED BY <1>8, <1>9 DEF DeliverEnds

-----------------------------------------------------------------------------
LEMMA InitIInv == Init => IInv
<1> SUFFICES ASSUME Init PROVE IInv
  OBVIOUS
<1>1. /\ pending = << >> /\ queue = << >> /\ refused = << >> /\ acked = << >> /\ handed = << >>
      /\ dropped = {} /\ published = {} /\ lock = Free /\ inFlight = 0 /\ faults = MaxFaults
      /\ connected = FALSE /\ holdOff = FALSE /\ handler = [h \in Handlers |-> Idle]
  BY DEF Init
<1>2. lock.op # "deliver" /\ Delivering = {}
  BY <1>1 DEF Free, Delivering
<1>2a. << >> \in Seq(Event) /\ Len(<< >>) = 0 /\ faults \in Nat /\ inFlight \in Nat
  BY <1>1, BoundsAssumption
<1>2b. connected \in BOOLEAN /\ holdOff \in BOOLEAN
  BY <1>1, Zenon
<1>3. TransportOK
  BY <1>1, <1>2a, <1>2b, Zenon DEF TransportOK
<1>4. TypeOK
  <2>1. handler \in [Handlers -> Request]
    BY <1>1 DEF Request
  <2>2. Len(pending) <= MaxLen
    BY <1>1, MaxLenAssumption
  <2>3. dropped \subseteq published /\ published \subseteq Event /\ lock \in {Free} \cup Holding
    BY <1>1
  <2>4. QED BY <1>1, <1>2a, <1>2b, <2>1, <2>2, <2>3, Zenon DEF TypeOK
<1>5. Numbered /\ DeliveryOK /\ AdmittedAloneIsKept
  BY <1>1, <1>2, FS_EmptySet DEF Numbered, DeliveryOK, AdmittedAloneIsKept
<1>6. OrderOK
  BY <1>1, <1>2, ElementsEmpty DEF OrderOK, Increasing
<1>7. RoomOK
  BY <1>1, <1>2 DEF RoomOK, Idle
<1>8. NothingVanishes
  BY <1>1, <1>2, ElementsEmpty DEF NothingVanishes
<1>9. NothingTwice
  <2>1. Cardinality({}) = 0 /\ published \ Delivering = {}
    BY <1>1, FS_EmptySet
  <2>2. QED BY <1>1, <2>1, ElementsEmpty DEF NothingTwice
<1>10. QED BY <1>3, <1>4, <1>5, <1>6, <1>7, <1>8, <1>9 DEF IInv

LEMMA NextIInv == IInv /\ [Next]_vars => IInv'
<1> SUFFICES ASSUME IInv, [Next]_vars PROVE IInv'
  OBVIOUS
<1>1. CASE HoldOffEnds \/ Acknowledged \/ Refused
  BY <1>1, CallbackIInv
<1>2. CASE FlushOne
  BY <1>2, FlushOneIInv
<1>3. CASE \/ Probe \/ ProbeEnds
           \/ \E h \in Handlers, t \in Tenants, left \in 1..MaxBatch : Accepting(h, t, left)
  BY <1>3, LockIInv
<1>4. CASE AcceptingEnds
  BY <1>4, AcceptingEndsIInv
<1>5. CASE DeliverEnds
  BY <1>5, DeliverEndsIInv
<1>6. ASSUME NEW h \in Handlers,
             \/ PublishEnforced(h) \/ PublishBlocked(h)
             \/ \E t \in Tenants \cup {Keyless} : PublishUnasked(h, t)
      PROVE  IInv'
  BY <1>6, PublishIInv
<1>7. CASE UNCHANGED vars
  <2>1. UNCHANGED <<lock, pending, dropped, handler, handed, published>> /\ UNCHANGED transport
    BY <1>7 DEF vars, transport
  <2>2. TransportOK' /\ Carried' = Carried /\ CarriedCount' = CarriedCount
    BY <2>1 DEF transport, IInv, TransportOK, Carried, CarriedCount
  <2>3. QED BY <2>1, <2>2, QuietStep DEF IInv, TypeOK
<1>8. QED BY <1>1, <1>2, <1>3, <1>4, <1>5, <1>6, <1>7 DEF Next

LEMMA Invariance == Spec => []IInv
BY InitIInv, NextIInv, PTL DEF Spec

(* The sink and the transport always have their types, and the buffer of   *)
(* audit.AuditSink never holds more than maxlen events.                    *)
THEOREM TypeCorrect == Spec => []TypeOK
<1>1. IInv => TypeOK
  BY DEF IInv
<1>2. QED BY <1>1, Invariance, PTL

(* Whatever audit.AuditSink has taken is buffered, with the client, waiting *)
(* to be sent again, acknowledged or counted as dropped.                   *)
THEOREM EventsAccountedFor == Spec => []NothingVanishes
<1>1. IInv => NothingVanishes
  BY DEF IInv
<1>2. QED BY <1>1, Invariance, PTL

(* Each event is in one of those places only, and kafka.KafkaTransport     *)
(* counts exactly what is in flight.                                       *)
THEOREM EventsKeptOnce == Spec => []NothingTwice
<1>1. IInv => NothingTwice
  BY DEF IInv
<1>2. QED BY <1>1, Invariance, PTL

(* audit.py:170: the transport is handed events in audit order, buffered   *)
(* ones included, however deliveries and flushes fail and interleave.      *)
THEOREM AuditOrderKept == Spec => []NeverOvertakes
<1>1. IInv => NeverOvertakes
  <2> SUFFICES ASSUME IInv PROVE Increasing(handed \o pending)
    BY DEF NeverOvertakes
  <2> DEFINE m == Len(handed)
             n == Len(pending)
             u == handed \o pending
  <2>1. /\ Len(u) = m + n /\ m \in Nat /\ n \in Nat
        /\ \A k \in 1..(m + n) : u[k] = IF k <= m THEN handed[k] ELSE pending[k - m]
    BY ConcatProperties DEF IInv, TypeOK
  <2>2. /\ \A j, k \in 1..m : j < k => handed[j].n < handed[k].n
        /\ \A j, k \in 1..n : j < k => pending[j].n < pending[k].n
        /\ \A j \in 1..m, k \in 1..n : handed[j].n < pending[k].n
    BY DEF IInv, OrderOK, Increasing, Elements
  <2> HIDE DEF m, n, u
  <2>3. ASSUME NEW j \in 1..(m + n), NEW k \in 1..(m + n), j < k PROVE u[j].n < u[k].n
    <3>1. CASE k <= m
      <4>1. j \in 1..m /\ k \in 1..m /\ u[j] = handed[j] /\ u[k] = handed[k]
        BY <2>1, <2>3, <3>1
      <4>2. QED BY <2>2, <2>3, <4>1
    <3>2. CASE j <= m /\ ~(k <= m)
      <4>1. j \in 1..m /\ k - m \in 1..n /\ u[j] = handed[j] /\ u[k] = pending[k - m]
        BY <2>1, <2>3, <3>2
      <4>2. QED BY <2>2, <4>1
    <3>3. CASE ~(j <= m)
      <4>1. /\ j - m \in 1..n /\ k - m \in 1..n /\ j - m < k - m
            /\ u[j] = pending[j - m] /\ u[k] = pending[k - m]
        BY <2>1, <2>3, <3>3
      <4>2. QED BY <2>2, <4>1
    <3>4. QED BY <3>1, <3>2, <3>3
  <2>4. QED BY <2>1, <2>3 DEF Increasing, u
<1>2. QED BY <1>1, Invariance, PTL

(* With mandatory audit, a decision audit.AuditSink.accepting admitted is  *)
(* never dropped unless another event was delivered in between.            *)
THEOREM AdmittedAloneKept == Spec => []AdmittedAloneIsKept
<1>1. IInv => AdmittedAloneIsKept
  BY DEF IInv
<1>2. QED BY <1>1, Invariance, PTL
=============================================================================
