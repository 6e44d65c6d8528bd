--------------------------- MODULE AuditPipeline ---------------------------
(***************************************************************************)
(* The path of an audit event from a handler to the broker:                *)
(* audit.AuditSink, which buffers while its transport refuses, and         *)
(* kafka.KafkaTransport, which keeps what the broker refuses later.        *)
(*                                                                         *)
(* The sink's lock is held through a whole operation, and the transport's  *)
(* lock through a whole `send`, but delivery callbacks run on the client's *)
(* sender thread and take only the transport's lock: they come between the *)
(* sends of one flush.  An operation of the sink is therefore a sequence   *)
(* of steps of the thread that holds its lock.                             *)
(*                                                                         *)
(* The Kafka client and the broker are modelled from how kafka.py uses     *)
(* them: a message may not be queued, the messages with one key are        *)
(* resolved in the order they were queued, and a message that is reported  *)
(* as failed leaves the client.                                            *)
(***************************************************************************)
EXTENDS Naturals, Sequences, FiniteSets

CONSTANTS Handlers,    \* threads serving requests
          Tenants,
          Keyless,     \* tenant of an event that has none (publish_rejection)
          MaxLen,      \* _maxlen of the sink
          Mandatory,   \* _mandatory
          MaxBatch,    \* bound: events one gated request publishes
          MaxEvents,   \* bound: events published
          MaxFaults    \* bound: failures of the client or the broker

ASSUME MaxLenAssumption    == MaxLen \in Nat \ {0}
ASSUME MandatoryAssumption == Mandatory \in BOOLEAN
ASSUME KeylessAssumption   == Keyless \notin Tenants
ASSUME BoundsAssumption    == MaxBatch \in Nat /\ MaxEvents \in Nat /\ MaxFaults \in Nat

VARIABLES
  lock,        \* who holds the sink's lock, and how far its operation is
  pending,     \* _pending
  dropped,     \* the events _dropped counts
  handler,     \* what each request has left to publish
  connected,   \* _producer is not None
  holdOff,     \* the clock is before _reconnect_at
  refused,     \* _refused
  inFlight,    \* _in_flight
  queue,       \* messages the client holds, oldest first (external)
  acked,       \* history: events the broker acknowledged, in that order
  handed,      \* history: events in the order the transport first took them
  published,   \* history: every event, numbered in the order the sink took them
  faults       \* failures still to come

sink      == <<lock, pending, dropped, handler, handed, published>>
transport == <<connected, holdOff, refused, inFlight, queue, acked, faults>>
vars      == <<lock, pending, dropped, handler, handed, published,
               connected, holdOff, refused, inFlight, queue, acked, faults>>

(* An event: `enforced` for an allow or transform decided after accepting  *)
(* said yes (`alone` if nothing was delivered in between), `other` for a   *)
(* refusal (publish, publish_rejection) or an operation                    *)
(* (publish_operation).                                                    *)
Kinds == {"enforced", "other"}
Event == [n : 1..MaxEvents, tenant : Tenants \cup {Keyless}, kind : Kinds, alone : BOOLEAN]

Free == [op |-> "none"]
Idle == [pc |-> "idle"]

Holding ==
  [op : {"state"}, stuck : BOOLEAN]
    \cup [op : {"accepting"}, by : Handlers, tenant : Tenants, left : 1..MaxBatch,
          stuck : BOOLEAN]
    \cup [op : {"deliver"}, by : Handlers, event : Event, stuck : BOOLEAN]

Request ==
  {Idle} \cup [pc : {"gated"}, tenant : Tenants, left : 1..MaxBatch, alone : BOOLEAN]
         \cup [pc : {"blocked"}, tenant : Tenants]

Elements(s) == {s[k] : k \in 1..Len(s)}

Init ==
  /\ lock = Free
  /\ pending = << >> /\ dropped = {}
  /\ handler = [h \in Handlers |-> Idle]
  /\ connected = FALSE /\ holdOff = FALSE
  /\ refused = << >> /\ inFlight = 0
  /\ queue = << >> /\ acked = << >>
  /\ handed = << >> /\ published = {}
  /\ faults = MaxFaults

-----------------------------------------------------------------------------
(* KafkaTransport *)

(* send(event) succeeds: what the broker refused goes first. *)
SendAccepted(event) ==
  /\ connected \/ ~holdOff
  /\ connected' = TRUE
  /\ queue' = queue \o refused \o <<event>>
  /\ inFlight' = inFlight + Len(refused) + 1
  /\ refused' = << >>
  /\ UNCHANGED <<holdOff, acked, faults>>

(* send(event) raises: the client cannot be created, is not tried again    *)
(* yet, or does not queue the message at some position of the retried      *)
(* ones (the last position is the event's).  What was not queued is kept.  *)
Unconnectable ==
  /\ ~connected
  /\ \/ holdOff /\ UNCHANGED <<holdOff, faults>>
     \/ ~holdOff /\ faults > 0 /\ holdOff' = TRUE /\ faults' = faults - 1
  /\ UNCHANGED <<connected, queue, inFlight, refused, acked>>

(* Mutants of StillRefused: the event that was not queued is skipped, and  *)
(* what was queued is kept to be sent again.                               *)
SkipsOne(position) == SubSeq(refused, position + 2, Len(refused))

KeepsAll(position) == refused

StillRefused(position) == SubSeq(refused, position + 1, Len(refused))

QueuedUpTo(position) ==
  /\ connected \/ ~holdOff
  /\ faults > 0
  /\ faults' = faults - 1
  /\ connected' = TRUE
  /\ queue' = queue \o SubSeq(refused, 1, position)
  /\ inFlight' = inFlight + position
  /\ refused' = StillRefused(position)
  /\ UNCHANGED <<holdOff, acked>>

SendRefused == Unconnectable \/ \E position \in 0..Len(refused) : QueuedUpTo(position)

(* _RECONNECT_SECONDS have passed. *)
HoldOffEnds ==
  /\ holdOff
  /\ holdOff' = FALSE
  /\ UNCHANGED <<connected, refused, inFlight, queue, acked, faults>>
  /\ UNCHANGED sink

(* The broker settles messages with the same key in order; messages        *)
(* without a key are spread over partitions and have no order.             *)
Resolvable(k) ==
  \/ queue[k].tenant = Keyless
  \/ \A j \in 1..(k - 1) : queue[j].tenant # queue[k].tenant

Dequeued(k) == SubSeq(queue, 1, k - 1) \o SubSeq(queue, k + 1, Len(queue))

(* _acknowledged, on the sender thread. *)
Acknowledged ==
  /\ \E k \in 1..Len(queue) :
       /\ Resolvable(k)
       /\ queue' = Dequeued(k)
       /\ acked' = Append(acked, queue[k])
  /\ inFlight' = inFlight - 1
  /\ UNCHANGED <<connected, holdOff, refused, faults>>
  /\ UNCHANGED sink

(* The errback of _refuse, on the sender thread. *)
Refused ==
  /\ faults > 0
  /\ faults' = faults - 1
  /\ \E k \in 1..Len(queue) :
       /\ Resolvable(k)
       /\ queue' = Dequeued(k)
       /\ refused' = Append(refused, queue[k])
  /\ inFlight' = inFlight - 1
  /\ UNCHANGED <<connected, holdOff, acked>>
  /\ UNCHANGED sink

-----------------------------------------------------------------------------
(* AuditSink *)

(* _flush hands the oldest event over, or gives up until the next          *)
(* operation.                                                              *)
FlushOne ==
  /\ lock # Free
  /\ ~lock.stuck
  /\ pending # << >>
  /\ \/ /\ SendAccepted(Head(pending))
        /\ pending' = Tail(pending)
        /\ handed' = Append(handed, Head(pending))
        /\ UNCHANGED lock
     \/ /\ SendRefused
        /\ lock' = [lock EXCEPT !.stuck = TRUE]
        /\ UNCHANGED <<pending, handed>>
  /\ UNCHANGED <<dropped, handler, published>>

Flushed == lock.stuck \/ pending = << >>

(* Mutant of Probe: it reports the state without flushing. *)
ProbeReadsOnly ==
  /\ lock = Free
  /\ lock' = [op |-> "state", stuck |-> TRUE]
  /\ UNCHANGED <<pending, dropped, handler, handed, published>>
  /\ UNCHANGED transport

(* state, called by the health probes. *)
Probe ==
  /\ lock = Free
  /\ lock' = [op |-> "state", stuck |-> FALSE]
  /\ UNCHANGED <<pending, dropped, handler, handed, published>>
  /\ UNCHANGED transport

ProbeEnds ==
  /\ lock.op = "state"
  /\ Flushed
  /\ lock' = Free
  /\ UNCHANGED <<pending, dropped, handler, handed, published>>
  /\ UNCHANGED transport

(* accepting, called by an enforcement handler that will publish `left`    *)
(* decisions: one, or one per document of a batch and one for the batch.   *)
Accepting(h, tenant, left) ==
  /\ lock = Free
  /\ handler[h] = Idle
  /\ lock' = [op |-> "accepting", by |-> h, tenant |-> tenant, left |-> left, stuck |-> FALSE]
  /\ UNCHANGED <<pending, dropped, handler, handed, published>>
  /\ UNCHANGED transport

(* Mutant of Accepts: off by one. *)
AcceptsAtLimit == ~Mandatory \/ Len(pending) <= MaxLen

Accepts == ~Mandatory \/ Len(pending) < MaxLen

AcceptingEnds ==
  /\ lock.op = "accepting"
  /\ Flushed
  /\ handler' = [handler EXCEPT ![lock.by] =
       IF Accepts
       THEN [pc |-> "gated", tenant |-> lock.tenant, left |-> lock.left, alone |-> TRUE]
       ELSE [pc |-> "blocked", tenant |-> lock.tenant]]
  /\ lock' = Free
  /\ UNCHANGED <<pending, dropped, handed, published>>
  /\ UNCHANGED transport

(* _deliver, once it has the lock. *)
Deliver(h, tenant, kind, alone) ==
  LET event == [n |-> Cardinality(published) + 1, tenant |-> tenant, kind |-> kind,
                alone |-> alone]
  IN /\ lock = Free
     /\ Cardinality(published) < MaxEvents
     /\ lock' = [op |-> "deliver", by |-> h, event |-> event, stuck |-> FALSE]
     /\ published' = published \cup {event}
     /\ UNCHANGED <<pending, dropped, handler, handed>>
     /\ UNCHANGED transport

PublishEnforced(h) ==
  /\ handler[h].pc = "gated"
  /\ Deliver(h, handler[h].tenant, "enforced", handler[h].alone)

(* audit_durability_unavailable: the refusal is published as well. *)
PublishBlocked(h) ==
  /\ handler[h].pc = "blocked"
  /\ Deliver(h, handler[h].tenant, "other", FALSE)

(* Published without asking first: identity_assertion_mismatch and         *)
(* credential refusals, and operations such as pseudonyms_restored.        *)
PublishUnasked(h, tenant) ==
  /\ handler[h] = Idle
  /\ Deliver(h, tenant, "other", FALSE)

(* Mutant of InTurn: the new event is tried whatever is buffered. *)
AnyTurn == TRUE

(* Never overtake buffered events: send only past an empty buffer. *)
InTurn == pending = << >>

(* Mutant of Keep: off by one. *)
KeepOneMore(event) ==
  IF Len(pending) <= MaxLen
  THEN pending' = Append(pending, event) /\ UNCHANGED dropped
  ELSE dropped' = dropped \cup {event} /\ UNCHANGED pending

(* What is not sent is buffered within the bound, or dropped and counted. *)
Keep(event) ==
  IF Len(pending) < MaxLen
  THEN pending' = Append(pending, event) /\ UNCHANGED dropped
  ELSE dropped' = dropped \cup {event} /\ UNCHANGED pending

(* What this delivery leaves the requests with: its own request has one    *)
(* event less to publish, and no gated request is alone any more.          *)
AfterDelivery(h) ==
  [g \in Handlers |->
     IF handler[g].pc = "gated" /\ (g # h \/ handler[g].left > 1)
     THEN [handler[g] EXCEPT !.alone = FALSE, !.left = IF g = h THEN @ - 1 ELSE @]
     ELSE IF g = h THEN Idle ELSE handler[g]]

DeliverEnds ==
  /\ lock.op = "deliver"
  /\ Flushed
  /\ \/ /\ InTurn
        /\ SendAccepted(lock.event)
        /\ handed' = Append(handed, lock.event)
        /\ UNCHANGED <<pending, dropped>>
     \/ /\ IF InTurn THEN SendRefused ELSE UNCHANGED transport
        /\ Keep(lock.event)
        /\ UNCHANGED handed
  /\ handler' = AfterDelivery(lock.by)
  /\ lock' = Free
  /\ UNCHANGED published

Next ==
  \/ HoldOffEnds
  \/ Acknowledged
  \/ Refused
  \/ FlushOne
  \/ Probe
  \/ ProbeEnds
  \/ AcceptingEnds
  \/ DeliverEnds
  \/ \E h \in Handlers :
       \/ PublishEnforced(h)
       \/ PublishBlocked(h)
       \/ \E t \in Tenants, left \in 1..MaxBatch : Accepting(h, t, left)
       \/ \E t \in Tenants \cup {Keyless} : PublishUnasked(h, t)

(* A thread that holds the lock goes on, the back-off passes, and          *)
(* readiness is probed again and again.  Nothing makes a request arrive or *)
(* the broker answer.                                                      *)
Fairness ==
  /\ WF_vars(FlushOne) /\ WF_vars(ProbeEnds) /\ WF_vars(AcceptingEnds)
  /\ WF_vars(DeliverEnds) /\ WF_vars(HoldOffEnds)
  /\ WF_vars(Probe)

Spec == Init /\ [][Next]_vars /\ Fairness

-----------------------------------------------------------------------------
TypeOK ==
  /\ lock \in {Free} \cup Holding
  /\ pending \in Seq(Event) /\ refused \in Seq(Event)
  /\ queue \in Seq(Event) /\ acked \in Seq(Event) /\ handed \in Seq(Event)
  /\ dropped \subseteq published /\ published \subseteq Event
  /\ handler \in [Handlers -> Request]
  /\ connected \in BOOLEAN /\ holdOff \in BOOLEAN
  /\ inFlight \in Nat /\ faults \in Nat
  /\ Len(pending) <= MaxLen

Delivering == IF lock.op = "deliver" THEN {lock.event} ELSE {}

(* No event vanishes: whatever fails and however a flush, a retry and the  *)
(* delivery callbacks interleave, every event the sink has taken is        *)
(* buffered, with the client, refused and waiting, acknowledged, or        *)
(* counted as dropped.                                                     *)
NothingVanishes ==
  published \ Delivering =
    Elements(pending) \cup Elements(queue) \cup Elements(refused)
      \cup Elements(acked) \cup dropped

(* ... and nothing is in two of those places or twice in one: no event is  *)
(* sent again that is not lost, and the in-flight gauge is exact.          *)
NothingTwice ==
  /\ inFlight = Len(queue)
  /\ Cardinality(published \ Delivering) =
       Len(pending) + Len(queue) + Len(refused) + Len(acked) + Cardinality(dropped)

(* audit.py:170 "Never overtake buffered events: delivery order is audit   *)
(* order": the transport is first handed events in the order the sink took *)
(* them, and what is buffered continues that order.                        *)
Increasing(s) == \A j, k \in 1..Len(s) : j < k => s[j].n < s[k].n

NeverOvertakes == Increasing(handed \o pending)

(* What accepting() does guarantee: when audit is mandatory, a decision it *)
(* admitted is never dropped unless another event was delivered between    *)
(* the check and the publication.                                          *)
AdmittedAloneIsKept == Mandatory => \A e \in dropped : ~e.alone

(* A buffered event does reach the transport once the transport works      *)
(* again, even if no request ever arrives: the readiness probe flushes.    *)
BufferDrains ==
  \A n \in 1..MaxEvents :
    (\E e \in Elements(pending) : e.n = n) ~> (\E e \in Elements(handed) : e.n = n)

(* audit.py:80 says that with mandatory audit "the caller must refuse the  *)
(* request instead of enforcing without a trail": no decision that let     *)
(* something through is dropped.                                           *)
EnforcedIsRecorded == Mandatory => \A e \in dropped : e.kind # "enforced"
=============================================================================
