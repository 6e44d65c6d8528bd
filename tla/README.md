# Guardrail gateway: TLA+ models and proofs

The gateway (`src/src/guardrail_gateway/`) stands between an application, its
language model and the tools the model calls.  It inspects content, decides
proposed tool actions, asks a human where policy says so, runs code in a
container, and writes an audit event for every decision.  This directory models
the parts of it that keep state or talk to something that can fail, checks them
with TLC on small instances, and proves the main results with TLAPS.

Run a model with `tlc -config MCX.cfg MCX`; check the proofs with
`tlapm XProofs.tla`.  `PROJECT.json` maps every definition to the source lines it
models and lists the runs, the mutants, the hazards, the findings and the
theorems.

## Inventory

The HTTP endpoints are synchronous functions, so FastAPI runs them in a thread
pool: every handler interleaves with every other, and all shared objects carry a
lock of their own.  Replicas share a database when one is configured.

| Part | State | Operations | Talks to | What is hard | What makes it correct |
| --- | --- | --- | --- | --- | --- |
| `approvals.ApprovalStore` | records in insertion order, totals of evicted ones | create, get, approve, reject, consume, counts | called by `service`, `app` | concurrent presenters, expiry, eviction of open records, check and decision in two calls | one exact action once; never adjudicated by its requester; totals complete and monotonic |
| `stores.SqlApprovalStore` | table `approvals` | the same, and purge | database | each statement commits alone; replies get lost; clocks differ | the same, across replicas |
| `audit.AuditSink` | outage buffer, dropped count | accepting, state, publish* | transport | check before publish; order; bounded buffer | no event vanishes or is doubled; order of hand-over; buffer drains |
| `kafka.KafkaTransport` | client, refused events, in-flight gauge, reconnect time | send, callbacks, close | Kafka client | callbacks between sends; partial retries; back-off | refused events are kept and sent again |
| `service.inspect_action`, `execute` | execution budget | decide an action, run code | policy decision point, approvals, sandbox, audit | outages between steps, fallback mode | a side effect needs an approval of its own; budget per trace |
| `limits` | counters per identity, tenant, trace (LRU) | allow, consume, record, locked | - | window boundary, eviction | no more than the limit per window |
| `service.inspect_content`, `inspect_context_batch` | - | inspect, transform | detectors, policy, vault | detector failures, overlapping findings | fail closed; nothing sensitive passes |
| `incidents`, `stores.SqlIncidentStore` | incidents, decision log | open, attach, update, list | decisions | look-up and open in two calls; many statements per incident | one open case per leak; citations resolve |
| `sensitive` | pseudonyms per tenant and trace (TTL, LRU) | tokenize, restore | - | expiry and eviction while tokens are out | a token restores to the value it was minted for |
| `identity` | cached provider keys | verify, refresh | identity provider | staleness, refresh storms | no credential accepted on stale keys |
| `opa`, `policy` | - | content and action verdicts | policy decision point | remote verdicts weaker than the floor | never less strict than the built-in floor |
| `sandbox` | a container per run | available, run | container runtime | timeout and overflow racing the end | every run ends; limits are reported |
| `output`, `classifier`, `detectors`, `normalize`, `presidio` | - | match text | external models | window coverage | every character is inspected |
| `app` | - | endpoints, health | all | readiness reflects the parts | - |
| `redteam` | - | replay scenarios | gateway | - | gate fails on any regression |

## Modules

`ApprovalLifecycle` is the abstract specification: what any approval repository
promises, one automaton per identifier (requested, adjudicated once by somebody
else, given up, spent at most once for its exact digest and tenant).  An approval
may be spent without anybody being told (a reply lost), never the other way round.

`ApprovalStore` models `approvals.py` and the adjudication endpoints of `app.py`.
A store method holds the lock throughout, so it is one action; what a handler does
between two calls is state: `drafts` are records that `create` has dated and not
inserted, `reviews` are adjudications that passed `adjudicable` and are not
recorded.  Every lookup marks expired records as the code does.  `order` is the
insertion order of the `OrderedDict`.  `retired` and `grants` are history.  The
clock never goes back: the code reads wall time, and a clock set back by an
operator is outside the model.

`SqlApprovalStore` models `stores.SqlApprovalStore` for any number of workers (a
worker is a handler thread of a replica).  A worker builds a statement with its
own clock reading, and the database executes it later, or it fails, or its reply
is lost after it took effect.  The conditional UPDATEs are `ConsumeRow` and
`UpdateRow`, with their WHERE clauses `Consumable` and `StillPending`.

`AuditPipeline` composes `audit.AuditSink` and `kafka.KafkaTransport`.  The sink's
lock is a variable that says who holds it and how far its operation is, because
delivery callbacks (`Acknowledged`, `Refused`) run between the sends of one flush.
A `send` is one step, since it holds the transport's lock: accepted, or refused
with the retried events queued up to any position.  The client and the broker are
external: messages with one key settle in the order they were queued.

`ActionGateway` composes `service.inspect_action` and `service.execute` with the
approval repository (at its interface), the policy decision point, the execution
budget (with the eviction of `Limits`) and the sandbox.  A handler thread is a program
counter and its request.  Whether a call of the policy or the store fails is a choice of each call;
`sandboxUp` is a variable because the code asks first and runs later.  A container
client that starts and cannot reach its runtime counts as "down" like one that
cannot start: the code did not run.  A denial for identity, audit or quota is one
action (`Turned`), since each ends the request in the same way.

`SqlIncidents` models `stores.SqlIncidentStore`, the decision log of each replica,
the canary section of `service._publish` and the incident endpoints.  `open` writes
a case as one statement per cited decision, one per trace and the row itself last;
each may fail, lose its reply or be cut off by a restart, which also empties the
replica's log.  `asked` and `handled` are history.

`Limits` gives `RateLimiter` and `ViolationHistory` as functions of their
`OrderedDict`, a sequence of entries with the least recently used first.
`ContentGateway` extends it with `inspect_content` and `inspect_context_batch`: a
handler is counted for its identity, then for its tenant, asks for a lockout once,
and judges its content or its documents one by one.  Each counter reads the clock
before it takes its lock, so a step may count with any reading since the handler's
last step, at most `MaxDelay` old.  The verdict on one text is an input: the
gateway's next step depends only on whether it is a violation and, in a batch, on
whether the document is admitted; `Inspection` says what the verdict is.  `share`, `passes`
(which place in which of its caller's windows each of them has), `strikes` and `forgotten`
(callers some counter evicted) are history.  The action endpoint spends the same quotas;
its requests look like single content here.

`Policy` is the policy as pure operators: the built-in verdicts on content and actions
(`policy.py`), the checks of arguments and the registry they rest on (`tools.py`), the
documents the client sends to a decision point and the answers it accepts (`opa.py`), and
the two Rego modules under `deploy/opa`.  A rule is a condition with its verdict and its
reason, a policy a table of them, and `FirstOf` takes the first that applies, as an `if` chain
does.  Normalising a path is a recursive function over its steps.

`Inspection` composes them into the judgement of one request.  A text is a few positions
with *sightings* - what a pattern, an alternative reading, a canary, Presidio or the
classifier has to find in it; whether a regular expression or a model recognises a string
is not modelled.  From there on everything is: the findings each inspector makes of the
sightings, an answer that cannot be read, the windows of `classifier.py`, `_judge` with
its fallbacks, `_merged` and `transform` as the set of characters that are kept and the
passages that go to the vault (`Sorted` orders the located values as `sorted` does, `Merging`
is what `_merged` holds after each turn of its loop; values that start and end together may
come in either order, which the result does not show), the output policy, and for actions the floor under any
answer.  An inspector that cannot be reached and one whose answer cannot be read raise the
same error, so they are one case.  `call` is the request just decided; one request is
judged at a time, since the judgement reads no shared state but the settings.

`PseudonymVault` gives `InMemoryPseudonymVault` as functions of its `OrderedDict`.
`Restore` extends it with the threads that come to it: a credential is checked against
`ProviderKeys`, whose lock is held through a fetch (`EnterKeys`, `FetchAnswers`,
`FetchFails`, `Resume`), then its tenant and trace lead to a scope.  A text has two values
and each is a call of the vault of its own, so time may pass and the scope may go in
between.  The provider publishes and withdraws keys and may fail at any fetch.  `published`,
`withdrawn`, `troubled`, `outcome`, `noted` and `rounds` (which start of a scope it is) are
history.

`Sandbox` models one `ContainerSandbox.run`: the calling thread, a reader per stream, the
client process and the container, which lives on when its client dies.  Output is a number
of bytes.  The bounded waits (`Reap`, `Join`) may each end with or without what they wait
for.  `gaveUp` and `missed` are history.

MC modules add only the symmetry sets.  Operators whose comment begins with
"Mutant of" are deliberately wrong variants: replacing the original by the
mutant makes TLC find a violation, which shows the property depends on that line.

## Runs

| Run | Result | States | What it shows |
| --- | --- | --- | --- |
| `approval_store` | pass | 136 k | single exact use, separation of duties, complete and monotonic totals, queue and records agree, refinement of `ApprovalLifecycle` |
| `sql_approval_store` | pass | 756 k | the same use and duties across replicas; nobody allowed who asked after expiry on every clock; a confirmed adjudication holds; refinement |
| `audit_pipeline` | pass | 630 k | nothing vanishes, nothing twice, first hand-over in order, an event admitted with nothing in between is kept, the buffer drains |
| `action_gateway` | pass | 2.0 M | a risky action needs its own approval, a trace gets its budget once and once more for each eviction of it, approvals live by `ApprovalLifecycle` |
| `sql_incidents` | pass | 902 k | a visible case is complete, cites only its tenant's decisions, and a sighting handled without failure is on record |
| `content_gateway` | pass | 3.4 M | what a caller can take of its tenant's window, how far violations overshoot a lockout |
| `verdicts` | pass | 909 k | nothing sensitive is delivered or stored reversibly whatever overlaps; an injection no longer than the overlap is read whole; the Rego rules and the built-in policy agree; no answer lifts the floor |
| `restore` | pass | 1.3 M | a withdrawn key lapses, a new one is picked up, pseudonyms and values correspond one to one, and are restored only to their owner |
| `sandbox` | pass | 514 k | the result of a run is true, its container is gone, and it ends |
| `action_spent_approval` | violation | | an approval is spent and the code does not run |
| `audit_recorded` | violation | | a decision that allowed something is dropped although audit is mandatory |
| `sql_incidents_leak` | violation | | two sightings of one leak open a case each |

Bounds and why they suffice.
- `approval_store`: two identifiers with `MaxRecords = 1` make every insertion after
  the first evict; two digests, tenants and users give every mismatch; `Ttl = 2` and
  three ticks let a record be inserted before, at and after its time.
- `sql_approval_store`: approvals do not interact (every statement names one row), so
  one identifier; two workers give every pairwise interleaving of presenters and
  reviewers; `Skew = 1`, `Retention = 0` let a fast clock purge what a slow one would spend.
- `audit_pipeline`: a buffer of one is empty or full; three events allow one
  acknowledged, one refused and one buffered; three faults allow a failed connection,
  an asynchronous refusal and a failed retry in one behaviour.  A batch of two is the
  smallest that publishes after its own first event.
- `action_gateway`: three requests are enough to create an approval and present it
  twice; two traces with a budget of one and room for one of them let a trace used twice
  exceed it, and a trace used before and after the other start again.
- `sql_incidents`: two handlers race; two cases, tenants and traces give every wrong
  match; a log of one decision forgets the first when the second is published.
- `content_gateway`: a limit of one and windows of two ticks make three requests
  enough to exceed the bound of two (three windows' allowance less one); `MaxKeys = 1` evicts a caller whenever the other
  is counted; batches of two documents, a budget of two and documents of one, two and
  too many characters give every order of documents that fit and do not.  A delay of one
  tick is half a window, the most for which the bound holds.
  Deadlock is not checked in this run: the clock and the number of requests are bounded,
  and an idle gateway that nobody calls has nothing to do.
- `verdicts`: three characters give spans that nest, overlap, touch and are apart, and
  three located values give a merge of a merge; a window of two with an overlap of one gives
  two windows and an end.  Two sightings of any kind give every pair of inspectors.
  The configured rules make every action come out for a category, from the tenant, from the
  deployment and by default; one category of personal data stands for all, since no rule tells
  them apart.  Paths of three steps can leave the workspace and come back.
- `restore`: two keys, a cache of two ticks, one of grace and a floor of one between
  fetches; with four ticks a key can be withdrawn, lapse and be asked for after that.
  `MaxScopes = 1` evicts whenever the other tenant is served.  `Receive` states which
  requests are combined with a provider and which without.  Deadlock is not checked: clock
  and requests are bounded.
- `sandbox`: a limit, a chunk and a pipe of two bytes and four bytes to write make output
  fit, fill the limit exactly, exceed it within a chunk and exceed it in a later one.

Fairness.  In `AuditPipeline` a thread that holds the lock goes on, the reconnect
delay passes, and the health probe comes again and again, as the orchestrator's
configuration makes it do.  No request is assumed to arrive and the broker is not
assumed to answer.  Faults are finite, which is what "once the transport works" means.
In `Sandbox` the threads of the gateway run, time passes, a killed process dies, and the
runtime starts a container or fails to.  Nothing is assumed of the program, of the kill
command or of the client otherwise.  The assumption about the runtime is needed: `_send`
writes the code before the deadline starts, so a client that neither reads nor exits holds
up a run whose code does not fit in a pipe.

## Findings

1. `service.execute` says an approval is never spent on code that cannot run.  The
   sandbox is checked before the decision, the approval is consumed by the decision,
   and the run afterwards can still fail with `SandboxUnavailableError`.
2. `AuditSink.accepting` is a check without a reservation.  While the transport
   refuses, other requests or the earlier events of the same batch take the room it
   saw, and an allow is dropped.  What does hold is `AdmittedAloneIsKept`.
3. `_open_canary_incident` says further sightings in a trace join the open case.  The
   look-up and the opening are separate calls, and a case is visible only after its last
   statement, so two sightings can open one case each.  What does hold is
   `SightingOnRecord`.

Read in the code while modelling, without a run:
- An event the broker refuses asynchronously is sent again behind events of its tenant that
  the client already held, so it is read back after newer ones (`kafka.py:160`; the class
  says events are "read back in the order they were decided").  `NeverOvertakes` is what
  does hold, for the first hand-over.
- An output that declines to answer is accepted before the disclaimer is looked at, so a
  required disclaimer is not appended to it (`output.py:62`).
- A kill command that fails is suppressed, and one that comes before the container exists
  does nothing (`sandbox.py:233`), so a run past a limit may leave its container.
  `NoOrphan` excepts exactly this.
- A category whose rule is "allow" is also allowed in model output (`policy.py`), where the
  README says sensitive content is denied whatever the rule.

## Proofs

Each `XProofs` module proves, for every value of the constants, what the run of `X` checks
on one instance; `ContentProofs` does so for `ContentGateway` and `Inspection`, the gates and the
judgement on the way of one content.  The assumptions are the named ASSUMEs of the modules: positive limits and
lifetimes, marker values that are no members of the sets they mark, and where noted below
more.  A proof has one lemma per action under an inductive invariant `IInv`, which TLC
checked first; `NextIInv` combines them and the temporal theorems follow by PTL.

`ApprovalStoreProofs`: `TypeOK`, `ExactSingleUse`, `SeparationOfDuties`,
`QueueMatchesRecords`, `EveryApprovalCounted`, `TotalsNeverGoBackwards` and the refinement of
`ApprovalLifecycle`.  The invariant adds to the type:
- `QueueOK`: the queue names records, each once - eviction takes a record that is there;
- `Disjoint`: drafts, records and retired records share no identifier - so `Known` is
  well defined, and an insertion never resurrects an approval;
- `GrantsOK`: a grant exists only for a consumed approval, is single, and is for its
  digest and tenant; a draft has none;
- `ReviewersOK`: an open-and-unreviewed record has no reviewer, a reviewer is not the
  requester, and approved or consumed records have one;
- `ReviewsOK`: a review waiting to be recorded names a reviewer other than the
  requester of that record, which is what survives the gap between check and decision.

On top of it, `TableInv` (the queue lists the table, which is finite) and `CountInv` (the
evicted totals count the retired records) carry the cardinality arguments: the five classes
of records are disjoint and cover the table.

`SqlApprovalStoreProofs`: `TypeOK`, `ExactSingleUse`, `SeparationOfDuties`, `GrantedInTime`,
`AnswersHold` and the refinement.  Its invariant replaces the queue by facts about
statements under way: `FreshOK` (an identifier with no row has no grant), `JobsOK`
(a pending INSERT carries a fresh, pending row; a checked review is not by the
requester; a consuming statement's clock is within the skew of when it was asked),
`InsertsOK` (two pending INSERTs differ in identifier), `RowsOK` (rows and grants
agree, reviewers are proper), `ToldOK` (an answer given is backed by its row).

Refinement: the initial states map to the initial state of `ApprovalLifecycle`, and for each
identifier every step of a store is one of its transitions or a stutter (`Evolves`), which
needs the invariant only to rule out states that no store reaches.

`ActionGatewayProofs`: `TypeOK`, `RiskyNeedsOwnApproval`, `BudgetHolds` and the refinement by
the approvals as the gateway uses them.  `GroundsOK` says what an ALLOW rests on, published
or about to be; `TokensOK` that no approval grounds two of them - the decision is published
a step after the approval was spent.  `BudgetOK` counts the handlers that may still
allow together with those that did.  Lemmas on `Limits` (`OthersFacts`, `StoredFacts`) say
what storing and evicting an entry leaves.

`SqlIncidentsProofs`: `TypeOK`, `CompleteOnceVisible`, `CitationsBelong`, `SightingOnRecord`.
`WriteOK` says of a case being written that what it lacks is what its worker has left to
write, `WritersOK` that no other worker writes it, `JoinOK` what a sighting relies on between
the look-up and the attachment, and `CitedOK` that nothing else is cited before a case is
visible.

`AuditPipelineProofs`: `TypeOK`, `NothingVanishes`, `NothingTwice`, `NeverOvertakes`,
`AdmittedAloneIsKept`.  Events are numbered as the sink took them (`Numbered`); the one being
delivered is the last (`DeliveryOK`), and all that was handed over is before all that is
buffered (`OrderOK`).  `NothingTwice` is about lengths and sets, so every step on a sequence
comes with what it does to both.  `RoomOK` keeps the room that an admitted request saw, as long as
nothing is published in between.

`SandboxProofs`: `NoOrphan`, `ReportIsTrue`.  `OutputOK` relates what was written, what is
in the pipe or in a reader's hand and what was kept; `KillOK` and `ProcessOK` relate the
caller's decision to the two processes; `JoinOK` says that a reader that was waited for has
seen the end of its stream.

`RestoreProofs`: `RevokedKeyLapses`, `RotationPickedUp`, `ToldApart`, `RestoresOwnValue`.
`KeysOK` dates the cached keys by the beginning of the fetch that brought them; `LockOK` says
that whoever holds the lock asked after that beginning, and that the last fetch begun either
dates the cache or left a trouble.  `VaultOK` and `CopiesOK` relate the entries of the
vault, and the copies handlers take of them, to the pseudonyms given in the same round.
The floor between two fetches is positive, as the constant in the code is.

`ContentProofs`, the gates: `NoisyCallerSparesTenant`, `LockoutHolds`.  Assumed: a thread counts
with a reading of the clock at most half a quota window old and less than a lockout window old,
threads are finitely many, and a batch has at most `MaxDocs` documents (100 in `models.py`).
- The share.  Every request that a caller's quota let through has a place in one of the
  caller's windows; these are a window's length apart (`PlacesOK`), and `PendingOK` and
  `TakenOK` bound how far they start from the tenant's window.  So at most three of them
  reach into it, and the earliest has lost its first place: a caller takes at most
  `3 * limit - 1` (`ThreeWindows`, by an injection into three windows' places but one).
  An earlier version of the property claimed `2 * limit`, which holds for a limit of one,
  the instance that is run, and for no other: the last places of a caller's first window may
  reach the tenant's counter late, after a new window of the tenant began, its second window lies
  within that one, and its third starts before that one ends.
- The lockout.  `StrikesOK` adds to the violations recorded those that requests past the
  lockout may still record, one for each thread and document left (`Coming`).  A violation
  recorded past the threshold was one of these and leaves the set; a request joins it
  only when its caller is not locked out.

`ContentProofs`, the judgement: `NothingSensitivePasses`, `InjectionNeverPasses`,
`RemoteAgrees`, `UnsafeArgumentsRefused`.  The invariant, `CallOK`, says that the settings are
possible ones and that the call at hand was made with possible inputs and decided under these
settings; one request is judged at a time, so there is no more to carry from step to step
(it only repeats the inputs of the step, so it is not checked by a run of its own).
The work is in what the operators compute, for texts of any length with any number of
sightings, any window and overlap, any rules and categories, and paths of any number of steps.
Assumed: the overlap is shorter than the window, configured rules are `EntityAction`s or unset,
personal data is no category of another kind, and secrets are never configured to be allowed or
pseudonymised, which `Settings` refuses at start.
- Loops.  The library's induction theorems take the property as a parameter, which the
  provers cannot instantiate.  `LeastOf` (a set of numbers that is not empty has a least
  element, from the well-foundedness of `<`) serves instead: a claim about every turn of a loop
  holds because there is no first turn at which it fails.  In the same way
  `NormStepsDefined`, `WalkedDefined` and `MergingDefined` show that the recursive functions
  satisfy their equations, and `SortedExists` that every set of values can be put in order.
- Policies.  `ContentTable`, `RegoTable`, `ActionTable` and `RegoActionTable` state the rules
  one by one, `Told` that the document sent says as much as the evidence.  The rules then agree
  one by one, so the first that applies is the same (`ContentAgrees`, `ActionAgrees`).  `Judged`
  says what the fallbacks add: nothing passes that the built-in policy stops, and nothing
  goes untransformed that it transforms.
- Injections.  `WindowsCover`: a passage no longer than the overlap and a character lies in the
  window that starts at the last multiple of the step before it, or, at the end of the text,
  in the last window.
- Arguments.  `NormPathRight`: at every step what `normpath` has left either begins with `..`,
  and will ever after, or has no `..` at all and names the place that walking the path has
  reached.  So a path whose normal form begins with the workspace stays in it.
- Sensitive values.  `HeldIs`: one turn of `_merged` leaves values that do not overlap and
  hold every value seen so far, a redacted one only in a redacted one - given that no value
  starts before those held, which sorting provides.  `KeptOutside` follows for the characters
  between them and for what is given to the vault.

Only model-checked: liveness (`BufferDrains`, `RunEnds`), which the prover does not do.

## Next

1. The in-memory incident store, and a stop of the process in `AuditPipeline`.
2. What `OutputVerdict` promises about citations, as a property of its own.

## Not modelled

- The in-memory `IncidentStore`: each of its operations holds one lock, and the case that
  races two of them is in `SqlIncidents`.
- The matching itself: regular expressions, the alternative readings of `normalize.py` and
  the external models.  `Inspection` begins with what is there to be found.
- Bounds and formats of request models and settings, which are declarations; those that
  decide something (the rule on secrets, the access lists of a document) are in `Inspection`.
- Metrics, tracing and the wording of events, and the readiness report, which reads state
  kept elsewhere (its effect on the audit buffer and on the cached keys is modelled).
- The red-team runner and its scenarios: a sequential client of the gateway, and data.
- Signature verification, hashing, the SQL parser, the database and the HTTP client are
  libraries, used at their interface.
