---------------------------- MODULE SqlIncidents ----------------------------
(***************************************************************************)
(* stores.SqlIncidentStore, the decision log of each replica               *)
(* (incidents.DecisionLog), and what uses them: the canary section of      *)
(* service._publish, which opens or joins a case by itself, and the        *)
(* incident endpoints of app.py, with which reviewers open cases that cite *)
(* decisions and update them.                                              *)
(*                                                                         *)
(* A worker is a handler thread of a replica.  A case is written in        *)
(* several statements that commit one by one; a statement may fail, its    *)
(* reply may be lost, and a replica may restart, which empties its log.    *)
(* What is only displayed (severity, disposition, remediation, dates) is   *)
(* left out; two cases may carry any creation dates, since replicas have   *)
(* clocks of their own.                                                    *)
(***************************************************************************)
EXTENDS Naturals, Sequences, FiniteSets

CONSTANTS Replicas,
          Slots,          \* handler threads of one replica
          Tenants, Traces,
          Ids,            \* case identifiers (uuid4)
          Canary,         \* _CANARY_INCIDENT, the title of a canary case
          OtherTitle,     \* any other title a reviewer may choose
          MaxLog,         \* _max_decisions of the log
          MaxDecisions    \* bound: decisions published

ASSUME MaxLogAssumption == MaxLog \in Nat \ {0}
ASSUME TitleAssumption  == Canary # OtherTitle
ASSUME MaxDecisionsAssumption == MaxDecisions \in Nat

VARIABLES
  log,        \* _decisions of each replica, oldest first
  cases,      \* table incidents: id -> row
  cited,      \* table incident_decisions
  covers,     \* table incident_traces
  work,       \* what each worker is doing
  published,  \* history: the decisions published
  asked,      \* history: what each case was opened with
  handled     \* history: canary sightings whose handling met no failure

vars == <<log, cases, cited, covers, work, published, asked, handled>>

Workers  == Replicas \X Slots
Home(w)  == w[1]
Titles   == {Canary, OtherTitle}
Statuses == {"open", "settled"}     \* _OPEN (open, investigating); resolved, closed

Decision == [n : 1..MaxDecisions, tenant : Tenants, trace : Traces, leak : BOOLEAN]
Case     == [tenant : Tenants, title : Titles, status : Statuses]
Citing   == [decisions : SUBSET Decision, traces : SUBSET Traces]

Idle == [pc |-> "idle"]

(* A sighting about to look for its case or to join one; a reviewer's      *)
(* request still looking up decisions; a case being written.               *)
Job ==
  {Idle} \cup [pc : {"look"}, for : Decision]
         \cup [pc : {"join"}, id : Ids, for : Decision]
         \cup [pc : {"gather"}, tenant : Tenants, title : Titles,
               left : SUBSET Decision, found : SUBSET Decision]
         \cup [pc : {"write"}, id : Ids, tenant : Tenants, title : Titles,
               cite : SUBSET Decision, cover : SUBSET Traces, for : SUBSET Decision]

Init ==
  /\ log = [r \in Replicas |-> << >>]
  /\ cases = << >> /\ asked = << >>
  /\ cited = {} /\ covers = {}
  /\ work = [w \in Workers |-> Idle]
  /\ published = {} /\ handled = {}

Put(map, i, x) == [j \in DOMAIN map \cup {i} |-> IF j = i THEN x ELSE map[j]]

Goto(w, job) == work' = [work EXCEPT ![w] = job]

(* Mutant of Logged: off by one. *)
LoggedOneMore(entries, d) ==
  LET grown == Append(entries, d)
  IN IF Len(grown) > MaxLog + 1 THEN Tail(grown) ELSE grown

(* DecisionLog.record: insert, then drop the oldest past the bound. *)
Logged(entries, d) ==
  LET grown == Append(entries, d)
  IN IF Len(grown) > MaxLog THEN Tail(grown) ELSE grown

(* service._publish: the decision is logged, and a leak goes on to its     *)
(* incident.                                                               *)
Publish(w, tenant, trace, leak) ==
  LET d == [n |-> Cardinality(published) + 1, tenant |-> tenant, trace |-> trace,
            leak |-> leak]
  IN /\ work[w] = Idle
     /\ Cardinality(published) < MaxDecisions
     /\ published' = published \cup {d}
     /\ log' = [log EXCEPT ![Home(w)] = Logged(@, d)]
     /\ IF leak THEN Goto(w, [pc |-> "look", for |-> d]) ELSE UNCHANGED work
     /\ UNCHANGED <<cases, cited, covers, asked, handled>>

(* Mutant of Matches: the trace is not part of the WHERE clause. *)
MatchesAnyTrace(i, d) ==
  cases[i].tenant = d.tenant /\ cases[i].title = Canary /\ cases[i].status = "open"

(* The WHERE clause of open_for_trace. *)
Matches(i, d) ==
  /\ cases[i].tenant = d.tenant
  /\ cases[i].title = Canary
  /\ cases[i].status = "open"
  /\ <<i, d.trace>> \in covers

(* A uuid4 is in no row and in no case being written. *)
Fresh(i) == i \notin DOMAIN asked

(* open, up to its first statement. *)
Begin(w, i, tenant, title, decisions, for) ==
  LET traces == {d.trace : d \in decisions}
  IN /\ Fresh(i)
     /\ asked' = Put(asked, i, [decisions |-> decisions, traces |-> traces])
     /\ Goto(w, [pc |-> "write", id |-> i, tenant |-> tenant, title |-> title,
                 cite |-> decisions, cover |-> traces, for |-> for])

(* _open_canary_incident: look for an open case, then join it or open one. *)
Look(w) ==
  LET d == work[w].for
      found == {i \in DOMAIN cases : Matches(i, d)}
  IN /\ work[w].pc = "look"
     /\ \/ /\ \E i \in found : Goto(w, [pc |-> "join", id |-> i, for |-> d])
           /\ UNCHANGED asked
        \/ /\ found = {}
           /\ \E i \in Ids : Begin(w, i, d.tenant, Canary, {d}, {d})
     /\ UNCHANGED <<log, cases, cited, covers, published, handled>>

(* attach: INSERT ... ON CONFLICT DO NOTHING. *)
Join(w, answered) ==
  LET job == work[w] IN
  /\ job.pc = "join"
  /\ cited' = cited \cup {<<job.id, job.for>>}
  /\ handled' = IF answered THEN handled \cup {job.for} ELSE handled
  /\ Goto(w, Idle)
  /\ UNCHANGED <<log, cases, covers, published, asked>>

(* app.open_incident: a reviewer names decisions (by guessed or known ids) *)
(* and each is looked up in this replica's log.                            *)
Request(w, tenant, title, decisions) ==
  /\ work[w] = Idle
  /\ decisions # {}
  /\ Goto(w, [pc |-> "gather", tenant |-> tenant, title |-> title,
              left |-> decisions, found |-> {}])
  /\ UNCHANGED <<log, cases, cited, covers, published, asked, handled>>

(* Mutant of Known: the tenant is not compared. *)
KnownToAnyone(w, d) == d \in {log[Home(w)][k] : k \in 1..Len(log[Home(w)])}

(* DecisionLog.get: another tenant's decision is missing. *)
Known(w, d) ==
  /\ d \in {log[Home(w)][k] : k \in 1..Len(log[Home(w)])}
  /\ d.tenant = work[w].tenant

(* One look-up; the first unknown decision leads to 404. *)
Gather(w) ==
  LET job == work[w] IN
  /\ job.pc = "gather"
  /\ \E d \in job.left :
       IF Known(w, d)
       THEN Goto(w, [job EXCEPT !.left = @ \ {d}, !.found = @ \cup {d}])
       ELSE Goto(w, Idle)
  /\ UNCHANGED <<log, cases, cited, covers, published, asked, handled>>

Open(w) ==
  LET job == work[w] IN
  /\ job.pc = "gather"
  /\ job.left = {}
  /\ \E i \in Ids : Begin(w, i, job.tenant, job.title, job.found, {})
  /\ UNCHANGED <<log, cases, cited, covers, published, handled>>

(* open, statement by statement: the decisions, then the traces, and at    *)
(* last the case itself.                                                   *)
Cite(w, answered) ==
  LET job == work[w] IN
  /\ job.pc = "write"
  /\ \E d \in job.cite :
       /\ cited' = cited \cup {<<job.id, d>>}
       /\ Goto(w, IF answered THEN [job EXCEPT !.cite = @ \ {d}] ELSE Idle)
  /\ UNCHANGED <<log, cases, covers, published, asked, handled>>

Cover(w, answered) ==
  LET job == work[w] IN
  /\ job.pc = "write"
  /\ job.cite = {}
  /\ \E t \in job.cover :
       /\ covers' = covers \cup {<<job.id, t>>}
       /\ Goto(w, IF answered THEN [job EXCEPT !.cover = @ \ {t}] ELSE Idle)
  /\ UNCHANGED <<log, cases, cited, published, asked, handled>>

(* Mutant of Written: the case is written before its children. *)
WrittenFirst(job) == job.pc = "write" /\ job.id \notin DOMAIN cases

Written(job) == job.pc = "write" /\ job.cite = {} /\ job.cover = {}

InsertCase(w, answered) ==
  LET job == work[w] IN
  /\ Written(job)
  /\ cases' = Put(cases, job.id, [tenant |-> job.tenant, title |-> job.title,
                                  status |-> "open"])
  /\ handled' = IF answered THEN handled \cup job.for ELSE handled
  /\ Goto(w, Idle)
  /\ UNCHANGED <<log, cited, covers, published, asked>>

(* update: one conditional UPDATE by a reviewer of the tenant, to any      *)
(* status.                                                                 *)
Update(w, i, tenant, status) ==
  /\ work[w] = Idle
  /\ i \in DOMAIN cases
  /\ cases[i].tenant = tenant
  /\ cases' = [cases EXCEPT ![i].status = status]
  /\ UNCHANGED <<log, cited, covers, work, published, asked, handled>>

(* A statement fails without effect: suppressed for a sighting, 503 for a  *)
(* reviewer.                                                               *)
Fail(w) ==
  /\ work[w] # Idle
  /\ Goto(w, Idle)
  /\ UNCHANGED <<log, cases, cited, covers, published, asked, handled>>

Restart(r) ==
  /\ log' = [log EXCEPT ![r] = << >>]
  /\ work' = [w \in Workers |-> IF Home(w) = r THEN Idle ELSE work[w]]
  /\ UNCHANGED <<cases, cited, covers, published, asked, handled>>

Next ==
  \/ \E r \in Replicas : Restart(r)
  \/ \E w \in Workers :
       \/ \E t \in Tenants, x \in Traces, leak \in BOOLEAN : Publish(w, t, x, leak)
       \/ Look(w)
       \/ Gather(w)
       \/ Open(w)
       \/ Fail(w)
       \/ \E answered \in BOOLEAN :
            Join(w, answered) \/ Cite(w, answered) \/ Cover(w, answered)
              \/ InsertCase(w, answered)
       \/ \E t \in Tenants, title \in Titles, ds \in SUBSET published : Request(w, t, title, ds)
       \/ \E i \in Ids, t \in Tenants, s \in Statuses : Update(w, i, t, s)

Spec == Init /\ [][Next]_vars

-----------------------------------------------------------------------------
TypeOK ==
  /\ log \in [Replicas -> Seq(Decision)]
  /\ \A r \in Replicas : Len(log[r]) <= MaxLog
  /\ DOMAIN cases \subseteq DOMAIN asked /\ DOMAIN asked \subseteq Ids
  /\ \A i \in DOMAIN cases : cases[i] \in Case
  /\ \A i \in DOMAIN asked : asked[i] \in Citing
  /\ cited \subseteq Ids \X Decision /\ covers \subseteq Ids \X Traces
  /\ work \in [Workers -> Job]
  /\ published \subseteq Decision /\ IsFiniteSet(published) /\ handled \subseteq published

(* stores.py:351: "a case becomes visible only once its own row exists, so *)
(* a reader never sees one without the decisions it cites", although the   *)
(* statements commit one by one, may fail half way, and are interleaved    *)
(* with those of other replicas.                                           *)
CompleteOnceVisible ==
  \A i \in DOMAIN cases :
    /\ \A d \in asked[i].decisions : <<i, d>> \in cited
    /\ \A x \in asked[i].traces : <<i, x>> \in covers

(* A case cites only decisions of its own tenant, whose traces it covers:  *)
(* trace identifiers are chosen by callers, so two tenants may share one.  *)
CitationsBelong ==
  \A i \in DOMAIN cases, d \in published :
    <<i, d>> \in cited => d.tenant = cases[i].tenant /\ <<i, d.trace>> \in covers

(* A sighting handled without a failure is on record: it is cited by a     *)
(* canary case of its tenant that covers its trace, whatever reviewers and *)
(* other replicas do to that case between the look-up and the attachment.  *)
SightingOnRecord ==
  \A d \in handled :
    \E i \in DOMAIN cases :
      /\ cases[i].tenant = d.tenant /\ cases[i].title = Canary
      /\ <<i, d>> \in cited /\ <<i, d.trace>> \in covers

(* service.py:589: "Further sightings in the same trace join the open case *)
(* instead of opening one each": no two open canary cases are of one       *)
(* tenant and trace.                                                       *)
OneCasePerLeak ==
  \A i, j \in DOMAIN cases :
    /\ \A k \in {i, j} : cases[k].title = Canary /\ cases[k].status = "open"
    /\ cases[i].tenant = cases[j].tenant
    /\ asked[i].traces \cap asked[j].traces # {}
    => i = j
=============================================================================
