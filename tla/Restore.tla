------------------------------ MODULE Restore ------------------------------
(***************************************************************************)
(* Who may turn pseudonyms back into values: the verification of a         *)
(* caller's credential against the keys of an identity provider that       *)
(* rotates them and may be unreachable (identity.py), and the vault the    *)
(* verified tenant and the trace lead to (sensitive.py).                   *)
(*                                                                         *)
(* Handlers run in threads.  ProviderKeys holds its lock while it fetches, *)
(* so threads queue behind a fetch; the vault takes its lock once for each *)
(* value of a text, so scopes may lapse between two values of one text.    *)
(* Time passes between any two steps.                                      *)
(***************************************************************************)
EXTENDS PseudonymVault, FiniteSets

CONSTANTS Threads, Tenants, Traces, Values,
          Keys, FirstKey, NoKid,      \* key ids; a token may name none
          CacheSeconds, MaxStale, MinRefresh,
          Never,                      \* a time that has not come
          MaxClock, MaxRequests       \* bounds

ASSUME KeysAssumption  == FirstKey \in Keys /\ NoKid \notin Keys /\ Never \notin 0..MaxClock
ASSUME TimesAssumption == /\ MinRefresh \in Nat \ {0} /\ MaxStale \in Nat
                          /\ CacheSeconds \in Nat /\ MinRefresh <= CacheSeconds
                          /\ MaxClock \in Nat

VARIABLES
  clock,
  provider,    \* whether keys come from a provider or jwt_secret is set
  published,   \* the provider: when each key was published
  withdrawn,   \* the provider: when each key was withdrawn
  cached,      \* ProviderKeys: _keys, _fetched_at, _attempted_at
  lock,        \* ProviderKeys: who holds _lock
  thread,      \* what each handler is doing
  requests,
  scopes,      \* the vault
  rounds,      \* history: times each scope was started
  noted,       \* history: the pseudonyms given
  troubled,    \* history: when a fetch last brought nothing
  outcome      \* history: the verification that has just ended, if one has

vars == <<clock, provider, published, withdrawn, cached, lock, thread, requests, scopes, rounds,
          noted, troubled, outcome>>

NoOne == "nobody"
ASSUME ThreadsAssumption == NoOne \notin Threads

Scopes == Tenants \X Traces
Home == CHOOSE s \in Scopes : TRUE

Idle == [pc |-> "idle"]
NoOutcome == [verdict |-> "none"]

(* A credential names the key it is signed with or none; one names another *)
(* key than that.                                                          *)
Credentials ==
  {c \in [kid : Keys \cup {NoKid}, signer : Keys] :
     c.kid = c.signer \/ (c.kid = NoKid <=> c.signer = FirstKey)}

Init ==
  /\ clock = 0
  /\ provider \in BOOLEAN
  /\ published = [k \in Keys |-> IF k = FirstKey THEN 0 ELSE Never]
  /\ withdrawn = [k \in Keys |-> Never]
  /\ cached = [keys |-> {}, fetched |-> Never, attempted |-> Never]
  /\ lock = NoOne
  /\ thread = [th \in Threads |-> Idle]
  /\ requests = 0
  /\ scopes = << >>
  /\ rounds = [s \in Scopes |-> 0]
  /\ noted = {}
  /\ troubled = Never
  /\ outcome = NoOutcome

theProvider == <<published, withdrawn>>
theKeys     == <<cached, lock, troubled>>
theVault    == <<scopes, rounds, noted>>

Tick ==
  /\ clock < MaxClock
  /\ clock' = clock + 1
  /\ UNCHANGED <<provider, theProvider, theKeys, thread, requests, theVault>>

-----------------------------------------------------------------------------
(* The identity provider *)

Published(k) == published[k] # Never /\ withdrawn[k] = Never

Publish(k) ==
  /\ provider /\ published[k] = Never
  /\ published' = [published EXCEPT ![k] = clock]
  /\ UNCHANGED <<clock, provider, withdrawn, theKeys, thread, requests, theVault>>

Withdraw(k) ==
  /\ provider /\ Published(k)
  /\ withdrawn' = [withdrawn EXCEPT ![k] = clock]
  /\ UNCHANGED <<clock, provider, published, theKeys, thread, requests, theVault>>

-----------------------------------------------------------------------------
(* identity.py *)

Since(time) == clock - time

(* _refresh_if_due *)
Due == cached.fetched = Never \/ Since(cached.fetched) >= CacheSeconds

(* _refresh goes on to fetch, at most once in MinRefresh. *)
MayFetch == cached.attempted = Never \/ Since(cached.attempted) >= MinRefresh

(* Mutant of Trusted: keys are never too old. *)
TrustedAnyAge == cached.fetched # Never

(* _trusted *)
Trusted ==
  /\ cached.fetched # Never
  /\ Since(cached.fetched) <= CacheSeconds + MaxStale

(* Mutant of Unknown: only the cache decides when keys are fetched. *)
NeverUnknown(kid) == FALSE

(* A key id that triggers a fetch. *)
Unknown(kid) == kid \in Keys /\ kid \notin cached.keys

(* A request with a credential: to protect a text, to restore one, or a    *)
(* readiness probe, which asks usable() and carries none.  The body claims *)
(* a tenant.  Bounds: texts are protected only where the key is            *)
(* configured, where every credential is good; with a provider one caller  *)
(* makes every request.                                                    *)
Receive(th, op, tenant, trace, claim, credential) ==
  /\ thread[th] = Idle /\ requests < MaxRequests
  /\ IF provider THEN op # "protect" /\ tenant = claim /\ <<tenant, trace>> = Home
                 ELSE op # "probe"
  /\ ~provider \/ op = "probe" => credential = [kid |-> NoKid, signer |-> FirstKey]
  /\ thread' = [thread EXCEPT ![th] =
       [pc |-> IF provider THEN "verify" ELSE "claims", op |-> op, tenant |-> tenant,
        trace |-> trace, claim |-> claim, credential |-> credential,
        entered |-> Never, looked |-> Never]]
  /\ requests' = requests + 1
  /\ UNCHANGED <<clock, provider, theProvider, theKeys, theVault>>

(* The two calls of _refresh, and where each goes on. *)
Then == [refresh |-> "look", refetch |-> "check"]

(* _refresh fetches, with the lock held. *)
Fetch(th, job, call) ==
  /\ lock' = th
  /\ cached' = [cached EXCEPT !.attempted = clock]
  /\ thread' = [thread EXCEPT ![th] = [job EXCEPT !.pc = call]]
  /\ outcome' = NoOutcome

(* The key for the credential: a token that names none is only unambiguous *)
(* when there is exactly one.                                              *)
KeysFor(kid) ==
  IF kid \in Keys THEN cached.keys \cap {kid}
  ELSE IF Cardinality(cached.keys) = 1 THEN cached.keys ELSE {}

Verdict(credential) ==
  IF ~Trusted THEN "unavailable"
  ELSE IF credential.signer \in KeysFor(credential.kid) THEN "genuine"
  ELSE "invalid"

(* The end of key_for, and the signature: 401 or 503 unless it is good. *)
Check(th, job) ==
  /\ lock' = NoOne
  /\ outcome' = [verdict |-> Verdict(job.credential), credential |-> job.credential,
                 entered |-> job.entered, looked |-> job.looked, checked |-> clock]
  /\ thread' = [thread EXCEPT ![th] =
       IF Verdict(job.credential) # "genuine" THEN Idle
       ELSE [job EXCEPT !.pc = "claims", !.entered = Never, !.looked = Never]]
  /\ UNCHANGED cached

(* usable answers; key_for fetches for a key id it does not know. *)
Look(th, job) ==
  IF job.op = "probe"
  THEN /\ lock' = NoOne
       /\ thread' = [thread EXCEPT ![th] = Idle]
       /\ outcome' = NoOutcome
       /\ UNCHANGED cached
  ELSE LET looking == [job EXCEPT !.looked = clock] IN
       IF Unknown(job.credential.kid) /\ MayFetch
       THEN Fetch(th, looking, "refetch")
       ELSE Check(th, looking)

(* key_for and usable take the lock and keep it while they fetch; where    *)
(* they do not fetch they go on at once.                                   *)
EnterKeys(th) ==
  LET job == [thread[th] EXCEPT !.entered = clock] IN
  /\ thread[th].pc = "verify"
  /\ lock = NoOne
  /\ IF Due /\ MayFetch THEN Fetch(th, job, "refresh") ELSE Look(th, job)
  /\ UNCHANGED <<clock, provider, theProvider, requests, theVault, troubled>>

Resume(th) ==
  /\ \/ thread[th].pc = "look" /\ Look(th, thread[th])
     \/ thread[th].pc = "check" /\ Check(th, thread[th])
  /\ UNCHANGED <<clock, provider, theProvider, requests, theVault, troubled>>

(* _fetch brings the keys published now; they are dated when the fetch     *)
(* was attempted, and an empty set changes nothing.                        *)
FetchAnswers(th) ==
  LET keys == {k \in Keys : Published(k)} IN
  /\ thread[th].pc \in DOMAIN Then
  /\ IF keys # {}
     THEN /\ cached' = [cached EXCEPT !.keys = keys, !.fetched = cached.attempted]
          /\ UNCHANGED troubled
     ELSE /\ UNCHANGED cached
          /\ troubled' = clock
  /\ thread' = [thread EXCEPT ![th].pc = Then[@]]
  /\ UNCHANGED <<clock, provider, theProvider, lock, requests, theVault>>

(* The provider, or its discovery document, cannot be had or read. *)
FetchFails(th) ==
  /\ thread[th].pc \in DOMAIN Then
  /\ troubled' = clock
  /\ thread' = [thread EXCEPT ![th].pc = Then[@]]
  /\ UNCHANGED <<clock, provider, theProvider, cached, lock, requests, theVault>>

(* A good signature on a credential that has expired or names nobody. *)
Refuse(th) ==
  /\ thread[th].pc = "claims"
  /\ thread' = [thread EXCEPT ![th] = Idle]
  /\ UNCHANGED <<clock, provider, theProvider, theKeys, requests, theVault>>

-----------------------------------------------------------------------------
(* service.py and sensitive.py *)

(* Mutant of Scope: the trace alone. *)
ScopeOfTrace(tenant, trace) == <<CHOOSE t \in Tenants : TRUE, trace>>

Scope(tenant, trace) == <<tenant, trace>>

(* _asserts_another_identity, then the vault is asked. *)
Accept(th) ==
  LET job == thread[th] IN
  /\ job.pc = "claims"
  /\ thread' = [thread EXCEPT ![th] =
       IF job.claim # job.tenant THEN Idle
       ELSE [pc |-> job.op, scope |-> Scope(job.tenant, job.trace),
             owner |-> <<job.tenant, job.trace>>, values |-> 2]]
  /\ UNCHANGED <<clock, provider, theProvider, theKeys, requests, theVault>>

(* transform asks for the pseudonyms of the two values of a text, one call *)
(* of the vault for each.                                                  *)
Tokenize(th, value) ==
  LET job   == thread[th]
      after == Tokenized(scopes, job.scope, value, clock, rounds[job.scope])
  IN
  /\ job.pc = "protect"
  /\ scopes' = after
  /\ rounds' = IF Live(scopes, job.scope, clock) THEN rounds
               ELSE [rounds EXCEPT ![job.scope] = @ + 1]
  /\ noted' = noted \cup {[owner |-> job.owner, value |-> value, token |-> Token(after, value),
                            round |-> Last(after).round]}
  /\ thread' = [thread EXCEPT ![th] = IF job.values = 1 THEN Idle
                                      ELSE [job EXCEPT !.values = @ - 1]]
  /\ UNCHANGED <<clock, provider, theProvider, theKeys, requests>>

(* restore copies the mapping under the lock; `round` is history. *)
CopyMapping(th) ==
  LET job == thread[th] IN
  /\ job.pc = "restore"
  /\ scopes' = Restored(scopes, job.scope, clock)
  /\ thread' = [thread EXCEPT ![th] =
       [pc |-> "answer", owner |-> job.owner, mapping |-> Restorable(scopes, job.scope, clock),
        round |-> IF Live(scopes, job.scope, clock) THEN EntryOf(scopes, job.scope).round
                  ELSE rounds[job.scope]]]
  /\ UNCHANGED <<clock, provider, theProvider, theKeys, requests, rounds, noted>>

(* ... and substitutes after it has let go of it. *)
Answer(th) ==
  /\ thread[th].pc = "answer"
  /\ thread' = [thread EXCEPT ![th] = Idle]
  /\ UNCHANGED <<clock, provider, theProvider, theKeys, requests, theVault>>

Environment ==
  \/ Tick
  \/ \E k \in Keys : Publish(k)
  \/ Withdraw(FirstKey)

Handler(th) ==
  \/ \E op \in {"protect", "restore", "probe"}, tenant, claim \in Tenants, trace \in Traces,
        credential \in Credentials :
       Receive(th, op, tenant, trace, claim, credential)
  \/ FetchAnswers(th) \/ FetchFails(th)
  \/ Refuse(th) \/ Accept(th)
  \/ \E value \in Values : Tokenize(th, value)
  \/ CopyMapping(th) \/ Answer(th)

Next ==
  \/ \E th \in Threads : EnterKeys(th) \/ Resume(th)
  \/ outcome' = NoOutcome /\ (Environment \/ \E th \in Threads : Handler(th))

Spec == Init /\ [][Next]_vars

-----------------------------------------------------------------------------
(* README "A key revoked during an outage could otherwise stay trusted     *)
(* indefinitely": a credential is accepted on a withdrawn key only within  *)
(* the cache and staleness limits, and only within the cache's life if no  *)
(* fetch has failed since the key was withdrawn, however threads queue     *)
(* behind slow fetches.                                                    *)
RevokedKeyLapses ==
  outcome.verdict = "genuine" =>
    LET gone == withdrawn[outcome.credential.signer] IN
    \/ gone = Never
    \/ /\ outcome.checked - gone <= CacheSeconds + MaxStale
       /\ outcome.entered - gone < CacheSeconds \/ (troubled # Never /\ troubled >= gone)

(* README "A token naming a key the gateway has not seen triggers one      *)
(* fetch, which is how a rotation is picked up at once": a credential      *)
(* signed with a key the provider publishes is found invalid only within   *)
(* the refresh floor of its publication, or if a fetch failed since.       *)
RotationPickedUp ==
  outcome.verdict = "invalid" /\ outcome.credential.kid = outcome.credential.signer =>
    LET k == outcome.credential.kid IN
    \/ published[k] = Never \/ published[k] > outcome.looked
    \/ withdrawn[k] # Never /\ withdrawn[k] <= outcome.checked
    \/ outcome.looked - published[k] < MinRefresh
    \/ troubled # Never /\ troubled >= published[k]

(* README "stable within a trace, so the model can still tell two people   *)
(* apart": until a scope lapses or is pushed out, its values and its       *)
(* pseudonyms correspond one to one, whichever handlers ask for them.      *)
ToldApart ==
  \A a, b \in noted :
    a.owner = b.owner /\ a.round = b.round => (a.value = b.value <=> a.token = b.token)

(* README "turns a trace's tokens back into values for the tenant that     *)
(* owns them; another tenant or another trace resolves nothing": what is   *)
(* restored was protected for the same tenant and trace, and is the value  *)
(* the pseudonym was given for, unless the scope was started again since.  *)
RestoresOwnValue ==
  \A th \in Threads :
    LET job == thread[th] IN
    job.pc = "answer" =>
      /\ \A n \in DOMAIN job.mapping :
           \E a \in noted : a.owner = job.owner /\ a.value = job.mapping[n] /\ a.token = n
      /\ \A a \in noted :
           a.owner = job.owner /\ a.round = job.round /\ a.token \in DOMAIN job.mapping
             => job.mapping[a.token] = a.value
=============================================================================
