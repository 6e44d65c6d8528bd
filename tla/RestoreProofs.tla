--------------------------- MODULE RestoreProofs ---------------------------
(***************************************************************************)
(* Keys that were withdrawn lapse, keys that were published are picked up, *)
(* pseudonyms tell values apart and restore their own, for any threads,    *)
(* tenants, traces, values and keys, any cache life, staleness limit,      *)
(* refresh floor, life and number of scopes.                               *)
(*                                                                         *)
(* The keys: what is cached is what was published at some time after the   *)
(* fetch it is dated with was begun, and once no fetch is under way the    *)
(* last one begun either dates the cache or has left a trouble.  The       *)
(* vault: the values of a scope are exactly the pseudonyms given in its    *)
(* present round.                                                          *)
(***************************************************************************)
EXTENDS Restore, SequenceTheorems, TLAPS

Times == 0..MaxClock
TimesN == Times \cup {Never}

(* The steps of a request that is verified, and those with the lock held. *)
Locking   == {"refresh", "look", "refetch", "check"}
Verifying == {"verify", "claims"} \cup Locking

Requests ==
  [pc : Verifying, op : {"protect", "restore", "probe"}, tenant : Tenants, trace : Traces,
   claim : Tenants, credential : [kid : Keys \cup {NoKid}, signer : Keys],
   entered : TimesN, looked : TimesN]

Vaulting  == [pc : {"protect", "restore"}, scope : Scopes, owner : Scopes, values : {1, 2}]
Answering == [pc : {"answer"}, owner : Scopes, mapping : Seq(Values), round : Nat]
Jobs      == {Idle} \cup Requests \cup Vaulting \cup Answering

Entries == [scope : Scopes, started : Times, values : Seq(Values), round : Nat]
Given   == [owner : Scopes, value : Values, token : Nat, round : Nat]

Types ==
  /\ clock \in Times
  /\ published \in [Keys -> TimesN] /\ withdrawn \in [Keys -> TimesN]
  /\ cached \in [keys : SUBSET Keys, fetched : TimesN, attempted : TimesN]
  /\ troubled \in TimesN
  /\ thread \in [Threads -> Jobs]
  /\ scopes \in Seq(Entries) /\ rounds \in [Scopes -> Nat] /\ noted \subseteq Given

Past(time) == time = Never \/ time <= clock

(* Nothing is dated ahead of the clock, and a probe asks no further. *)
PastOK ==
  /\ \A k \in Keys : Past(published[k]) /\ Past(withdrawn[k])
  /\ Past(cached.fetched) /\ Past(cached.attempted) /\ Past(troubled)

ProbesOK ==
  \A th \in Threads : thread[th].pc \in {"refetch", "check", "claims"} => thread[th].op # "probe"

(* The cached keys were published after the fetch they are dated with was  *)
(* begun, and all that were published before it and are not withdrawn are  *)
(* among them.                                                             *)
KeysOK ==
  /\ \A k \in cached.keys :
       /\ cached.fetched # Never
       /\ withdrawn[k] = Never \/ withdrawn[k] >= cached.fetched
  /\ cached.fetched # Never =>
       \A k \in Keys :
         published[k] # Never /\ published[k] < cached.fetched /\ withdrawn[k] = Never
           => k \in cached.keys

(* The last fetch begun dates the cache or left a trouble. *)
Settled ==
  \/ cached.attempted = Never
  \/ cached.fetched = cached.attempted
  \/ troubled # Never /\ troubled >= cached.attempted

LockOK ==
  /\ lock = NoOne => Settled
  /\ \A th \in Threads :
       thread[th].pc \in Locking =>
         /\ lock = th
         /\ cached.attempted # Never
         /\ thread[th].entered # Never /\ thread[th].entered <= cached.attempted
         /\ thread[th].pc \in {"look", "check"} => Settled
         /\ thread[th].pc \in {"refetch", "check"} => thread[th].looked = cached.attempted

OutcomeOK == RevokedKeyLapses /\ RotationPickedUp

(* The values of a scope are the pseudonyms given in its present round. *)
EntryOK(e, given, begun) ==
  /\ e.round + 1 = begun[e.scope]
  /\ \A m, n \in 1..Len(e.values) : e.values[m] = e.values[n] => m = n
  /\ \A n \in 1..Len(e.values) :
       [owner |-> e.scope, value |-> e.values[n], token |-> n, round |-> e.round] \in given
  /\ \A a \in given :
       a.owner = e.scope /\ a.round = e.round
         => a.token \in 1..Len(e.values) /\ e.values[a.token] = a.value

Distinct(entries) ==
  \A i, j \in 1..Len(entries) : entries[i].scope = entries[j].scope => i = j

VaultOK ==
  /\ Distinct(scopes)
  /\ \A i \in 1..Len(scopes) : EntryOK(scopes[i], noted, rounds)
  /\ \A a \in noted : a.round < rounds[a.owner]
  /\ ToldApart

(* A copy of a mapping stays within what was given in its round. *)
CopiesOK ==
  \A th \in Threads :
    LET job == thread[th] IN
    /\ job.pc \in {"protect", "restore"} => job.scope = job.owner
    /\ job.pc = "answer" =>
         \A n \in 1..Len(job.mapping) :
           [owner |-> job.owner, value |-> job.mapping[n], token |-> n, round |-> job.round]
             \in noted

IInv ==
  /\ Types
  /\ PastOK
  /\ ProbesOK
  /\ KeysOK
  /\ LockOK
  /\ OutcomeOK
  /\ VaultOK
  /\ CopiesOK

-----------------------------------------------------------------------------
(* What kind of job a thread has, by where it is. *)
LEMMA JobKinds ==
  ASSUME NEW job \in Jobs
  PROVE  /\ job.pc \in Verifying => job \in Requests
         /\ job.pc \in {"protect", "restore"} => job \in Vaulting
         /\ job.pc = "answer" => job \in Answering
BY DEF Jobs, Idle, Requests, Vaulting, Answering, Verifying, Locking

(* A thread takes up another job. *)
LEMMA NewJob ==
  ASSUME Types, NEW th \in Threads, NEW job \in Jobs, thread' = [thread EXCEPT ![th] = job]
  PROVE  /\ thread' \in [Threads -> Jobs]
         /\ thread'[th] = job
         /\ \A u \in Threads : u # th => thread'[u] = thread[u]
BY DEF Types

(* Jobs with a field set. *)
LEMMA WithPc ==
  ASSUME NEW job \in Requests, NEW pc \in Verifying
  PROVE  LET after == [job EXCEPT !.pc = pc] IN
         /\ after \in Requests /\ after.pc = pc /\ after.op = job.op
         /\ after.credential = job.credential
         /\ after.entered = job.entered /\ after.looked = job.looked
BY DEF Requests

LEMMA WithEntered ==
  ASSUME NEW job \in Requests, NEW time \in TimesN
  PROVE  LET after == [job EXCEPT !.entered = time] IN
         /\ after \in Requests /\ after.pc = job.pc /\ after.op = job.op
         /\ after.credential = job.credential
         /\ after.entered = time /\ after.looked = job.looked
BY DEF Requests

LEMMA WithLooked ==
  ASSUME NEW job \in Requests, NEW time \in TimesN
  PROVE  LET after == [job EXCEPT !.looked = time] IN
         /\ after \in Requests /\ after.pc = job.pc /\ after.op = job.op
         /\ after.credential = job.credential
         /\ after.entered = job.entered /\ after.looked = time
BY DEF Requests

(* Times are numbers, and Never is none of them. *)
LEMMA TimeFacts ==
  ASSUME NEW time \in TimesN, time # Never
  PROVE  time \in Nat /\ time <= MaxClock
BY TimesAssumption DEF TimesN, Times

LEMMA ClockFacts ==
  ASSUME Types
  PROVE  clock \in Nat /\ clock \in TimesN /\ clock # Never
BY TimesAssumption, KeysAssumption DEF Types, TimesN, Times

-----------------------------------------------------------------------------
(* Steps that leave the vault alone, or the keys. *)
LEMMA VaultKept ==
  ASSUME IInv, UNCHANGED theVault, NEW th \in Threads, NEW job \in Jobs,
         thread' = [thread EXCEPT ![th] = job],
         job.pc \notin {"protect", "restore", "answer"}
  PROVE  VaultOK' /\ CopiesOK'
<1>1. UNCHANGED <<scopes, rounds, noted>>
  BY DEF theVault
<1>2. VaultOK'
  BY <1>1 DEF IInv, VaultOK, ToldApart, EntryOK, Distinct
<1>3. thread'[th] = job /\ \A u \in Threads : u # th => thread'[u] = thread[u]
  BY NewJob DEF IInv
<1>4. CopiesOK'
  BY <1>1, <1>3 DEF IInv, CopiesOK
<1>5. QED BY <1>2, <1>4

LEMMA KeysKept ==
  ASSUME IInv, UNCHANGED <<clock, published, withdrawn, cached, lock, troubled>>,
         outcome' = NoOutcome, NEW th \in Threads, NEW job \in Jobs,
         thread' = [thread EXCEPT ![th] = job],
         job.pc \notin Locking, job.pc = "claims" => job.op # "probe"
  PROVE  PastOK' /\ ProbesOK' /\ KeysOK' /\ LockOK' /\ OutcomeOK'
<1>1. thread'[th] = job /\ \A u \in Threads : u # th => thread'[u] = thread[u]
  BY NewJob DEF IInv
<1>2. PastOK'
  BY DEF IInv, PastOK, Past
<1>3. ProbesOK'
  BY <1>1 DEF IInv, ProbesOK, Locking
<1>4. KeysOK'
  BY DEF IInv, KeysOK
<1>5. LockOK'
  BY <1>1 DEF IInv, LockOK, Settled
<1>6. OutcomeOK'
  BY DEF OutcomeOK, RevokedKeyLapses, RotationPickedUp, NoOutcome
<1>7. QED BY <1>2, <1>3, <1>4, <1>5, <1>6

(* A verification that ends no handler's step leaves no outcome. *)
LEMMA NoOutcomeOK ==
  ASSUME outcome' = NoOutcome
  PROVE  OutcomeOK'
BY DEF OutcomeOK, RevokedKeyLapses, RotationPickedUp, NoOutcome

-----------------------------------------------------------------------------
(* Time, the provider, and the steps outside of the locks. *)
LEMMA InitIInv == Init => IInv
<1> SUFFICES ASSUME Init PROVE IInv
  OBVIOUS
<1>1. 0 \in Times /\ Never \in TimesN
  BY TimesAssumption DEF Times, TimesN
<1>2. Types
  <2>1. /\ clock \in Times /\ troubled \in TimesN
        /\ withdrawn \in [Keys -> TimesN] /\ published \in [Keys -> TimesN]
    BY <1>1 DEF Init, TimesN
  <2>2. cached \in [keys : SUBSET Keys, fetched : TimesN, attempted : TimesN]
    BY <1>1 DEF Init
  <2>3. thread \in [Threads -> Jobs]
    BY DEF Init, Jobs
  <2>4. scopes \in Seq(Entries) /\ rounds \in [Scopes -> Nat] /\ noted \subseteq Given
    BY DEF Init
  <2>5. QED BY <2>1, <2>2, <2>3, <2>4 DEF Types
<1>3. PastOK
  BY DEF Init, PastOK, Past
<1>4. \A th \in Threads : thread[th].pc = "idle"
  BY DEF Init, Idle
<1>5. ProbesOK /\ CopiesOK
  BY <1>4 DEF ProbesOK, CopiesOK
<1>6. KeysOK /\ LockOK
  BY <1>4 DEF Init, KeysOK, LockOK, Settled, Locking
<1>7. OutcomeOK
  BY DEF Init, NoOutcome, OutcomeOK, RevokedKeyLapses, RotationPickedUp
<1>8. VaultOK
  BY DEF Init, VaultOK, Distinct, ToldApart
<1>9. QED BY <1>2, <1>3, <1>5, <1>6, <1>7, <1>8 DEF IInv

LEMMA TickIInv == ASSUME IInv, Tick, outcome' = NoOutcome PROVE IInv'
<1>1. /\ clock' = clock + 1 /\ clock < MaxClock
      /\ UNCHANGED <<published, withdrawn, cached, lock, troubled, thread, scopes, rounds, noted>>
  BY DEF Tick, theProvider, theKeys, theVault
<1>2. clock \in Nat /\ clock' \in Times
  BY <1>1, TimesAssumption DEF IInv, Types, Times
<1>3. Types'
  BY <1>1, <1>2 DEF IInv, Types
<1>4. PastOK'
  <2>1. \A time \in TimesN : Past(time) => Past(time)'
    BY <1>1, <1>2, TimeFacts DEF Past
  <2>2. QED BY <1>1, <2>1 DEF IInv, Types, PastOK
<1>5. ProbesOK' /\ KeysOK' /\ LockOK'
  BY <1>1 DEF IInv, ProbesOK, KeysOK, LockOK, Settled
<1>6. VaultOK' /\ CopiesOK'
  BY <1>1 DEF IInv, VaultOK, ToldApart, EntryOK, Distinct, CopiesOK
<1>7. QED BY <1>3, <1>4, <1>5, <1>6, NoOutcomeOK DEF IInv

LEMMA ProviderKept ==
  ASSUME IInv, UNCHANGED <<clock, cached, lock, troubled, thread, theVault>>,
         outcome' = NoOutcome,
         published' \in [Keys -> TimesN], withdrawn' \in [Keys -> TimesN],
         \A k \in Keys : Past(published'[k]) /\ Past(withdrawn'[k]),
         KeysOK'
  PROVE  IInv'
<1>1. Types'
  BY DEF IInv, Types, theVault
<1>2. PastOK'
  BY DEF IInv, PastOK, Past
<1>3. ProbesOK' /\ LockOK'
  BY DEF IInv, ProbesOK, LockOK, Settled
<1>4. VaultOK' /\ CopiesOK'
  BY DEF theVault, IInv, VaultOK, ToldApart, EntryOK, Distinct, CopiesOK
<1>5. QED BY <1>1, <1>2, <1>3, <1>4, NoOutcomeOK DEF IInv

LEMMA PublishIInv ==
  ASSUME IInv, NEW k \in Keys, Publish(k), outcome' = NoOutcome
  PROVE  IInv'
<1>1. clock \in Nat /\ clock \in TimesN /\ clock # Never
  BY ClockFacts DEF IInv
<1>2. /\ published' = [published EXCEPT ![k] = clock] /\ withdrawn' = withdrawn
      /\ UNCHANGED <<clock, cached, lock, troubled, thread, theVault>>
  BY DEF Publish, theKeys
<1>3. published' \in [Keys -> TimesN] /\ withdrawn' \in [Keys -> TimesN]
  BY <1>1, <1>2 DEF IInv, Types
<1>4. \A j \in Keys : published'[j] = IF j = k THEN clock ELSE published[j]
  BY <1>2 DEF IInv, Types
<1>5. \A j \in Keys : Past(published'[j]) /\ Past(withdrawn'[j])
  BY <1>1, <1>2, <1>4 DEF IInv, PastOK, Past
<1>6. cached.fetched # Never => cached.fetched \in Nat /\ cached.fetched <= clock
  BY TimeFacts DEF IInv, Types, PastOK, Past
<1>7. KeysOK'
  BY <1>1, <1>2, <1>4, <1>6 DEF IInv, KeysOK
<1>8. QED BY <1>2, <1>3, <1>5, <1>7, ProviderKept

LEMMA WithdrawIInv ==
  ASSUME IInv, NEW k \in Keys, Withdraw(k), outcome' = NoOutcome
  PROVE  IInv'
<1>1. clock \in Nat /\ clock \in TimesN /\ clock # Never
  BY ClockFacts DEF IInv
<1>2. /\ withdrawn' = [withdrawn EXCEPT ![k] = clock] /\ published' = published
      /\ UNCHANGED <<clock, cached, lock, troubled, thread, theVault>>
  BY DEF Withdraw, theKeys
<1>3. published' \in [Keys -> TimesN] /\ withdrawn' \in [Keys -> TimesN]
  BY <1>1, <1>2 DEF IInv, Types
<1>4. \A j \in Keys : withdrawn'[j] = IF j = k THEN clock ELSE withdrawn[j]
  BY <1>2 DEF IInv, Types
<1>5. \A j \in Keys : Past(published'[j]) /\ Past(withdrawn'[j])
  BY <1>1, <1>2, <1>4 DEF IInv, PastOK, Past
<1>6. cached.fetched # Never => cached.fetched \in Nat /\ cached.fetched <= clock
  BY TimeFacts DEF IInv, Types, PastOK, Past
<1>7. cached.keys \subseteq Keys
  BY DEF IInv, Types
<1>8. KeysOK'
  BY <1>1, <1>2, <1>4, <1>6, <1>7 DEF IInv, KeysOK
<1>9. QED BY <1>2, <1>3, <1>5, <1>8, ProviderKept

(* A handler's step that touches neither the keys nor the vault. *)
LEMMA HandlerIInv ==
  ASSUME IInv, UNCHANGED <<clock, theProvider, theKeys, theVault>>, outcome' = NoOutcome,
         NEW th \in Threads, NEW job \in Jobs, thread' = [thread EXCEPT ![th] = job],
         job.pc \notin Locking, job.pc = "claims" => job.op # "probe",
         job.pc \notin {"protect", "restore", "answer"}
  PROVE  IInv'
<1>1. UNCHANGED <<published, withdrawn, cached, lock, troubled>>
  BY DEF theProvider, theKeys
<1>2. PastOK' /\ ProbesOK' /\ KeysOK' /\ LockOK' /\ OutcomeOK'
  BY <1>1, KeysKept
<1>3. VaultOK' /\ CopiesOK'
  BY VaultKept
<1>4. Types'
  BY <1>1, NewJob DEF theVault, IInv, Types
<1>5. QED BY <1>2, <1>3, <1>4 DEF IInv

LEMMA ToIdle ==
  ASSUME IInv, UNCHANGED <<clock, theProvider, theKeys, theVault>>, outcome' = NoOutcome,
         NEW th \in Threads, thread' = [thread EXCEPT ![th] = Idle]
  PROVE  IInv'
<1>1. Idle \in Jobs /\ Idle.pc = "idle"
  BY DEF Jobs, Idle
<1> DEFINE job == Idle
<1> HIDE DEF job
<1>2. job \in Jobs /\ job.pc = "idle" /\ thread' = [thread EXCEPT ![th] = job]
  BY <1>1 DEF job
<1>3. QED BY <1>2, HandlerIInv DEF Locking

LEMMA RefuseIInv ==
  ASSUME IInv, NEW th \in Threads, Refuse(th), outcome' = NoOutcome
  PROVE  IInv'
BY ToIdle DEF Refuse

LEMMA AnswerIInv ==
  ASSUME IInv, NEW th \in Threads, Answer(th), outcome' = NoOutcome
  PROVE  IInv'
BY ToIdle DEF Answer

LEMMA ReceiveIInv ==
  ASSUME IInv, NEW th \in Threads, NEW op \in {"protect", "restore", "probe"},
         NEW tenant \in Tenants, NEW claim \in Tenants, NEW trace \in Traces,
         NEW credential \in Credentials,
         Receive(th, op, tenant, trace, claim, credential), outcome' = NoOutcome
  PROVE  IInv'
<1> DEFINE job ==
       [pc |-> IF provider THEN "verify" ELSE "claims", op |-> op, tenant |-> tenant,
        trace |-> trace, claim |-> claim, credential |-> credential,
        entered |-> Never, looked |-> Never]
<1>1. thread' = [thread EXCEPT ![th] = job]
  BY DEF Receive
<1>2. credential \in [kid : Keys \cup {NoKid}, signer : Keys] /\ Never \in TimesN
  BY DEF Credentials, TimesN
<1>3. job \in Requests /\ job.pc \in {"verify", "claims"}
  BY <1>2 DEF Requests, Verifying
<1>4. job.pc = "claims" => job.op # "probe"
  BY DEF Receive
<1>5. UNCHANGED <<clock, theProvider, theKeys, theVault>>
  BY DEF Receive
<1> HIDE DEF job
<1>6. QED BY <1>1, <1>3, <1>4, <1>5, HandlerIInv DEF Jobs, Locking

LEMMA AcceptIInv ==
  ASSUME IInv, NEW th \in Threads, Accept(th), outcome' = NoOutcome
  PROVE  IInv'
<1> DEFINE job == thread[th]
           next == [pc |-> job.op, scope |-> Scope(job.tenant, job.trace),
                    owner |-> <<job.tenant, job.trace>>, values |-> 2]
<1>1. /\ job.pc = "claims" /\ UNCHANGED <<clock, theProvider, theKeys, theVault>>
      /\ thread' = [thread EXCEPT ![th] = IF job.claim # job.tenant THEN Idle ELSE next]
  BY DEF Accept
<1>2. job \in Requests /\ job.op # "probe"
  BY <1>1, JobKinds DEF IInv, Types, ProbesOK, Verifying
<1>3. CASE job.claim # job.tenant
  BY <1>1, <1>3, ToIdle
<1>4. CASE job.claim = job.tenant
  <2>1. job.op \in {"protect", "restore"} /\ job.tenant \in Tenants /\ job.trace \in Traces
    BY <1>2 DEF Requests
  <2>2. next \in Vaulting /\ next.scope = next.owner /\ next.pc \in {"protect", "restore"}
    BY <2>1 DEF Vaulting, Scopes, Scope
  <2>3. thread' = [thread EXCEPT ![th] = next]
    BY <1>1, <1>4
  <2> HIDE DEF next
  <2>4. next \in Jobs
    BY <2>2 DEF Jobs
  <2>5. /\ thread' \in [Threads -> Jobs] /\ thread'[th] = next
        /\ \A u \in Threads : u # th => thread'[u] = thread[u]
    BY <2>3, <2>4, NewJob DEF IInv
  <2>6. UNCHANGED <<published, withdrawn, cached, lock, troubled, scopes, rounds, noted>>
    BY <1>1 DEF theProvider, theKeys, theVault
  <2>7. PastOK' /\ ProbesOK' /\ KeysOK' /\ LockOK' /\ OutcomeOK'
    BY <1>1, <2>2, <2>3, <2>4, <2>6, KeysKept DEF Locking
  <2>8. Types'
    BY <1>1, <2>5, <2>6 DEF IInv, Types
  <2>9. VaultOK'
    BY <2>6 DEF IInv, VaultOK, ToldApart, EntryOK, Distinct
  <2>10. CopiesOK'
    BY <2>2, <2>5, <2>6 DEF IInv, CopiesOK
  <2>11. QED BY <2>7, <2>8, <2>9, <2>10 DEF IInv
<1>5. QED BY <1>3, <1>4

-----------------------------------------------------------------------------
(* The keys.  A thread that has the lock, or finds it free, is the only    *)
(* one inside.                                                             *)
LEMMA Alone ==
  ASSUME IInv, NEW th \in Threads, lock \in {NoOne, th}, NEW u \in Threads, u # th
  PROVE  thread[u].pc \notin Locking
BY ThreadsAssumption DEF IInv, LockOK

LEMMA FetchIInv ==
  ASSUME IInv, NEW th \in Threads, lock \in {NoOne, th}, NEW job \in Requests,
         NEW call \in {"refresh", "refetch"},
         job.entered # Never, job.entered <= clock,
         call = "refetch" => job.looked = clock /\ job.op # "probe",
         Fetch(th, job, call), UNCHANGED <<clock, theProvider, theVault, troubled>>
  PROVE  IInv'
<1> DEFINE next == [job EXCEPT !.pc = call]
<1>1. clock \in Nat /\ clock \in TimesN /\ clock # Never
  BY ClockFacts DEF IInv
<1>2. /\ next \in Requests /\ next.pc = call /\ next.op = job.op
      /\ next.entered = job.entered /\ next.looked = job.looked
  <2>1. call \in Verifying
    BY DEF Verifying, Locking
  <2>2. QED BY <2>1, WithPc
<1>3. thread' = [thread EXCEPT ![th] = next]
  BY DEF Fetch
<1> HIDE DEF next
<1>4. next \in Jobs
  BY <1>2 DEF Jobs
<1>5. /\ thread' \in [Threads -> Jobs] /\ thread'[th] = next
      /\ \A u \in Threads : u # th => thread'[u] = thread[u]
  BY <1>3, <1>4, NewJob DEF IInv
<1>6. /\ cached' \in [keys : SUBSET Keys, fetched : TimesN, attempted : TimesN]
      /\ cached'.keys = cached.keys /\ cached'.fetched = cached.fetched
      /\ cached'.attempted = clock
  BY <1>1 DEF Fetch, IInv, Types
<1>7. UNCHANGED <<clock, published, withdrawn, troubled, scopes, rounds, noted>>
  BY DEF theProvider, theVault
<1>8. Types'
  BY <1>5, <1>6, <1>7 DEF IInv, Types
<1>9. PastOK'
  BY <1>1, <1>6, <1>7 DEF IInv, PastOK, Past
<1>10. ProbesOK'
  BY <1>2, <1>5 DEF IInv, ProbesOK
<1>11. KeysOK'
  BY <1>6, <1>7 DEF IInv, KeysOK
<1>12. LockOK'
  <2>1. lock' = th /\ th # NoOne
    BY ThreadsAssumption DEF Fetch
  <2>2. \A u \in Threads : u # th => thread'[u].pc \notin Locking
    BY <1>5, Alone
  <2>3. QED BY <1>1, <1>2, <1>5, <1>6, <2>1, <2>2 DEF LockOK
<1>13. OutcomeOK'
  BY NoOutcomeOK DEF Fetch
<1>14. VaultOK' /\ CopiesOK'
  BY <1>2, <1>3, <1>4, VaultKept
<1>15. QED BY <1>8, <1>9, <1>10, <1>11, <1>12, <1>13, <1>14 DEF IInv

(* What a verification knows when it comes to the check: when it entered,  *)
(* the keys had not outlived the cache or a fetch was begun since they     *)
(* had; when it looked, the key was there or the floor forbade a fetch.    *)
Fresh(job) ==
  \/ cached.fetched # Never /\ job.entered - cached.fetched < CacheSeconds
  \/ cached.attempted # Never /\ job.entered - cached.attempted < CacheSeconds

Floor(job) ==
  Unknown(job.credential.kid) =>
    cached.attempted # Never /\ job.looked - cached.attempted < MinRefresh

LEMMA Lapses ==
  ASSUME IInv, Settled, NEW job \in Requests, job.entered # Never, Fresh(job), Trusted,
         NEW k \in cached.keys, withdrawn[k] # Never
  PROVE  /\ clock - withdrawn[k] <= CacheSeconds + MaxStale
         /\ \/ job.entered - withdrawn[k] < CacheSeconds
            \/ troubled # Never /\ troubled >= withdrawn[k]
<1> DEFINE gone == withdrawn[k]
<1>1. /\ cached.fetched # Never /\ cached.fetched \in TimesN /\ cached.attempted \in TimesN
      /\ troubled \in TimesN /\ gone \in TimesN /\ gone >= cached.fetched
      /\ job.entered \in TimesN /\ clock \in Nat
  BY ClockFacts DEF IInv, Types, KeysOK, Requests
<1>2. gone \in Nat /\ cached.fetched \in Nat /\ job.entered \in Nat
  BY <1>1, TimeFacts
<1>3. cached.attempted # Never => cached.attempted \in Nat
  BY <1>1, TimeFacts
<1>4. troubled # Never => troubled \in Nat
  BY <1>1, TimeFacts
<1> HIDE DEF gone
<1>5. clock - gone <= CacheSeconds + MaxStale
  BY <1>1, <1>2, TimesAssumption DEF Trusted, Since
<1>6. job.entered - gone < CacheSeconds \/ (troubled # Never /\ troubled >= gone)
  <2>1. CASE job.entered - cached.fetched < CacheSeconds
    BY <1>1, <1>2, <2>1, TimesAssumption
  <2>2. CASE cached.attempted # Never /\ job.entered - cached.attempted < CacheSeconds
    <3>1. CASE cached.fetched = cached.attempted
      BY <1>1, <1>2, <2>2, <3>1, TimesAssumption
    <3>2. CASE troubled # Never /\ troubled >= cached.attempted
      BY <1>1, <1>2, <1>3, <1>4, <2>2, <3>2, TimesAssumption
    <3>3. QED BY <2>2, <3>1, <3>2 DEF Settled
  <2>3. QED BY <2>1, <2>2 DEF Fresh
<1>7. QED BY <1>5, <1>6 DEF gone

LEMMA PickedUp ==
  ASSUME IInv, Settled, NEW job \in Requests, job.looked # Never, Floor(job),
         NEW k \in Keys, k = job.credential.kid, k \notin cached.keys,
         published[k] # Never, withdrawn[k] = Never
  PROVE  \/ job.looked - published[k] < MinRefresh
         \/ troubled # Never /\ troubled >= published[k]
<1> DEFINE new == published[k]
<1>1. /\ cached.attempted # Never /\ job.looked - cached.attempted < MinRefresh
      /\ cached.attempted \in TimesN /\ new \in TimesN /\ troubled \in TimesN
      /\ job.looked \in TimesN
  BY DEF IInv, Types, Floor, Unknown, Requests
<1>2. new \in Nat /\ cached.attempted \in Nat /\ job.looked \in Nat
  BY <1>1, TimeFacts
<1>3. troubled # Never => troubled \in Nat
  BY <1>1, TimeFacts
<1>4. CASE cached.fetched = cached.attempted
  <2>1. ~(new < cached.fetched)
    BY <1>1, <1>4 DEF IInv, KeysOK
  <2>2. QED BY <1>1, <1>2, <1>4, <2>1, TimesAssumption
<1>5. CASE troubled # Never /\ troubled >= cached.attempted
  BY <1>1, <1>2, <1>3, <1>5, TimesAssumption
<1>6. QED BY <1>1, <1>4, <1>5 DEF Settled

LEMMA CheckIInv ==
  ASSUME IInv, NEW th \in Threads, lock \in {NoOne, th}, Settled, NEW job \in Requests,
         job.op # "probe", job.entered # Never, job.looked # Never,
         Fresh(job), Floor(job),
         Check(th, job), UNCHANGED <<clock, theProvider, theVault, troubled>>
  PROVE  IInv'
<1> DEFINE credential == job.credential
           unset == [job EXCEPT !.pc = "claims"]
           halfway == [unset EXCEPT !.entered = Never]
           passed == [halfway EXCEPT !.looked = Never]
           next == IF Verdict(credential) # "genuine" THEN Idle ELSE passed
<1>1. passed \in Requests /\ passed.pc = "claims" /\ passed.op # "probe"
  <2>1. "claims" \in Verifying /\ Never \in TimesN
    BY DEF Verifying, TimesN
  <2>2. unset \in Requests /\ unset.pc = "claims" /\ unset.op # "probe"
    BY <2>1, WithPc
  <2> HIDE DEF unset
  <2>3. halfway \in Requests /\ halfway.pc = "claims" /\ halfway.op # "probe"
    BY <2>1, <2>2, WithEntered
  <2> HIDE DEF halfway
  <2>4. QED BY <2>1, <2>3, WithLooked
<1>2. thread' = [thread EXCEPT ![th] = next]
  BY DEF Check
<1> HIDE DEF passed
<1>3. next \in Jobs /\ next.pc \in {"idle", "claims"} /\ (next.pc = "claims" => next.op # "probe")
  BY <1>1 DEF Jobs, Idle
<1> HIDE DEF next
<1>4. /\ thread' \in [Threads -> Jobs] /\ thread'[th] = next
      /\ \A u \in Threads : u # th => thread'[u] = thread[u]
  BY <1>2, <1>3, NewJob DEF IInv
<1>5. UNCHANGED <<clock, published, withdrawn, troubled, scopes, rounds, noted, cached>>
  BY DEF Check, theProvider, theVault
<1>6. Types' /\ PastOK' /\ KeysOK'
  BY <1>4, <1>5 DEF IInv, Types, PastOK, Past, KeysOK
<1>7. ProbesOK'
  BY <1>3, <1>4 DEF IInv, ProbesOK
<1>8. LockOK'
  <2>1. \A u \in Threads : thread'[u].pc \notin Locking
    BY <1>3, <1>4, Alone DEF Locking
  <2>2. QED BY <1>5, <2>1 DEF LockOK, Settled
<1>9. VaultOK' /\ CopiesOK'
  BY <1>2, <1>3, VaultKept
<1>10. /\ outcome'.verdict = Verdict(credential) /\ outcome'.credential = credential
       /\ outcome'.entered = job.entered /\ outcome'.looked = job.looked
       /\ outcome'.checked = clock
  BY DEF Check
<1>11. credential.kid \in Keys \cup {NoKid} /\ credential.signer \in Keys
  BY DEF Requests
<1>12. RevokedKeyLapses'
  <2> SUFFICES ASSUME Verdict(credential) = "genuine", withdrawn[credential.signer] # Never
               PROVE  LET gone == withdrawn[credential.signer] IN
                      /\ clock - gone <= CacheSeconds + MaxStale
                      /\ \/ job.entered - gone < CacheSeconds
                         \/ troubled # Never /\ troubled >= gone
    BY <1>5, <1>10 DEF RevokedKeyLapses
  <2>1. Trusted /\ credential.signer \in cached.keys
    BY DEF Verdict, KeysFor
  <2>2. QED BY <2>1, Lapses
<1>13. RotationPickedUp'
  <2> DEFINE k == credential.kid
  <2> SUFFICES ASSUME Verdict(credential) = "invalid", k = credential.signer,
                      published[k] # Never, withdrawn[k] = Never \/ ~(withdrawn[k] <= clock)
               PROVE  \/ job.looked - published[k] < MinRefresh
                      \/ troubled # Never /\ troubled >= published[k]
    BY <1>5, <1>10 DEF RotationPickedUp
  <2>1. k \in Keys /\ k \notin cached.keys
    BY <1>11 DEF Verdict, KeysFor
  <2>2. withdrawn[k] = Never
    BY <2>1 DEF IInv, PastOK, Past
  <2>3. QED BY <2>1, <2>2, PickedUp
<1>14. QED BY <1>6, <1>7, <1>8, <1>9, <1>12, <1>13 DEF IInv, OutcomeOK

LEMMA LookIInv ==
  ASSUME IInv, NEW th \in Threads, lock \in {NoOne, th}, Settled, NEW job \in Requests,
         job.entered # Never, job.entered <= clock, Fresh(job),
         Look(th, job), UNCHANGED <<clock, theProvider, theVault, troubled>>
  PROVE  IInv'
<1>1. clock \in Nat /\ clock \in TimesN /\ clock # Never
  BY ClockFacts DEF IInv
<1>2. CASE job.op = "probe"
  <2>1. /\ thread' = [thread EXCEPT ![th] = Idle] /\ lock' = NoOne /\ outcome' = NoOutcome
        /\ UNCHANGED <<clock, published, withdrawn, troubled, scopes, rounds, noted, cached>>
    BY <1>2 DEF Look, theProvider, theVault
  <2> DEFINE next == Idle
  <2>2. next \in Jobs /\ next.pc = "idle"
    BY DEF Jobs, Idle
  <2>3. thread' = [thread EXCEPT ![th] = next]
    BY <2>1
  <2> HIDE DEF next
  <2>4. /\ thread' \in [Threads -> Jobs] /\ thread'[th] = next
        /\ \A u \in Threads : u # th => thread'[u] = thread[u]
    BY <2>2, <2>3, NewJob DEF IInv
  <2>5. Types' /\ PastOK' /\ KeysOK'
    BY <2>1, <2>4 DEF IInv, Types, PastOK, Past, KeysOK
  <2>6. ProbesOK'
    BY <2>2, <2>4 DEF IInv, ProbesOK
  <2>7. LockOK'
    <3>1. \A u \in Threads : thread'[u].pc \notin Locking
      BY <2>2, <2>4, Alone DEF Locking
    <3>2. QED BY <2>1, <3>1 DEF LockOK, Settled
  <2>8. VaultOK' /\ CopiesOK'
    BY <2>2, <2>3, VaultKept
  <2>9. QED BY <2>1, <2>5, <2>6, <2>7, <2>8, NoOutcomeOK DEF IInv
<1>3. CASE job.op # "probe"
  <2> DEFINE looking == [job EXCEPT !.looked = clock]
  <2>1. /\ looking \in Requests /\ looking.op = job.op /\ looking.credential = job.credential
        /\ looking.entered = job.entered /\ looking.looked = clock
    BY <1>1, WithLooked
  <2>2. IF Unknown(job.credential.kid) /\ MayFetch
        THEN Fetch(th, looking, "refetch") ELSE Check(th, looking)
    BY <1>3 DEF Look
  <2> HIDE DEF looking
  <2>3. CASE Unknown(job.credential.kid) /\ MayFetch
    BY <1>3, <2>1, <2>2, <2>3, FetchIInv
  <2>4. CASE ~(Unknown(job.credential.kid) /\ MayFetch)
    <3>1. Fresh(looking)
      BY <2>1 DEF Fresh
    <3>2. Floor(looking)
      <4>1. cached.attempted # Never => cached.attempted \in Nat
        BY TimeFacts DEF IInv, Types
      <4>2. QED BY <1>1, <2>1, <2>4, <4>1, TimesAssumption DEF Floor, MayFetch, Since
    <3>3. QED BY <1>1, <1>3, <2>1, <2>2, <2>4, <3>1, <3>2, CheckIInv
  <2>5. QED BY <2>3, <2>4
<1>4. QED BY <1>2, <1>3

LEMMA EnterKeysIInv ==
  ASSUME IInv, NEW th \in Threads, EnterKeys(th)
  PROVE  IInv'
<1> DEFINE job == [thread[th] EXCEPT !.entered = clock]
<1>1. clock \in Nat /\ clock \in TimesN /\ clock # Never
  BY ClockFacts DEF IInv
<1>2. thread[th] \in Requests
  BY JobKinds DEF EnterKeys, IInv, Types, Verifying
<1>3. job \in Requests /\ job.entered = clock
  BY <1>1, <1>2, WithEntered
<1>4. /\ lock = NoOne /\ UNCHANGED <<clock, theProvider, theVault, troubled>>
      /\ IF Due /\ MayFetch THEN Fetch(th, job, "refresh") ELSE Look(th, job)
  BY DEF EnterKeys
<1> HIDE DEF job
<1>5. CASE Due /\ MayFetch
  BY <1>1, <1>3, <1>4, <1>5, FetchIInv
<1>6. CASE ~(Due /\ MayFetch)
  <2>1. cached.attempted # Never => cached.attempted \in Nat
    BY TimeFacts DEF IInv, Types
  <2>2. cached.fetched # Never => cached.fetched \in Nat
    BY TimeFacts DEF IInv, Types
  <2>3. Fresh(job)
    BY <1>1, <1>3, <1>6, <2>1, <2>2, TimesAssumption DEF Fresh, Due, MayFetch, Since
  <2>4. Settled
    BY <1>4 DEF IInv, LockOK
  <2>5. QED BY <1>1, <1>3, <1>4, <1>6, <2>3, <2>4, LookIInv
<1>7. QED BY <1>5, <1>6

LEMMA ResumeIInv ==
  ASSUME IInv, NEW th \in Threads, Resume(th)
  PROVE  IInv'
<1> DEFINE job == thread[th]
<1>1. clock \in Nat /\ UNCHANGED <<clock, theProvider, theVault, troubled>>
  BY ClockFacts DEF IInv, Resume
<1>2. job.pc \in {"look", "check"}
  BY DEF Resume
<1>3. job \in Requests
  BY <1>2, JobKinds DEF IInv, Types, Verifying, Locking
<1>4. /\ lock = th /\ Settled
      /\ cached.attempted # Never /\ job.entered # Never /\ job.entered <= cached.attempted
      /\ job.pc = "check" => job.looked = cached.attempted
  BY <1>2 DEF IInv, LockOK, Locking
<1>5. job.entered \in Nat /\ cached.attempted \in Nat /\ cached.attempted <= clock
  BY <1>3, <1>4, TimeFacts DEF Requests, IInv, Types, PastOK, Past
<1>6. Fresh(job) /\ job.entered <= clock
  BY <1>1, <1>4, <1>5, TimesAssumption DEF Fresh
<1>7. CASE job.pc = "look"
  <2>1. Look(th, job)
    BY <1>7 DEF Resume
  <2> HIDE DEF job
  <2>2. QED BY <1>1, <1>3, <1>4, <1>6, <2>1, LookIInv
<1>8. CASE job.pc = "check"
  <2>1. Check(th, job) /\ job.op # "probe"
    BY <1>8 DEF Resume, IInv, ProbesOK
  <2>2. Floor(job) /\ job.looked # Never
    BY <1>4, <1>5, <1>8, TimesAssumption DEF Floor
  <2> HIDE DEF job
  <2>3. QED BY <1>1, <1>3, <1>4, <1>6, <2>1, <2>2, CheckIInv
<1>9. QED BY <1>2, <1>7, <1>8

(* A fetch that ends: the thread goes on with the lock in its hands. *)
LEMMA FetchEnds ==
  ASSUME IInv, NEW th \in Threads, thread[th].pc \in DOMAIN Then,
         thread' = [thread EXCEPT ![th].pc = Then[@]],
         UNCHANGED <<clock, theProvider, lock, theVault>>, outcome' = NoOutcome,
         cached' \in [keys : SUBSET Keys, fetched : TimesN, attempted : TimesN],
         troubled' \in TimesN, cached'.attempted = cached.attempted,
         Past(cached'.fetched), Past(troubled'), KeysOK', Settled'
  PROVE  IInv'
<1> DEFINE job == thread[th]
           next == [job EXCEPT !.pc = Then[job.pc]]
<1>1. job.pc \in {"refresh", "refetch"}
  BY DEF Then
<1>2. job \in Requests
  BY <1>1, JobKinds DEF IInv, Types, Verifying, Locking
<1>3. /\ Then[job.pc] \in {"look", "check"} /\ Then[job.pc] \in Verifying
      /\ Then[job.pc] = "check" <=> job.pc = "refetch"
  BY <1>1 DEF Then, Verifying, Locking
<1>4. /\ next \in Requests /\ next.pc = Then[job.pc] /\ next.op = job.op
      /\ next.entered = job.entered /\ next.looked = job.looked
  BY <1>2, <1>3, WithPc
<1>5. thread' = [thread EXCEPT ![th] = next]
  OBVIOUS
<1> HIDE DEF next
<1>6. next \in Jobs
  BY <1>4 DEF Jobs
<1>7. /\ thread' \in [Threads -> Jobs] /\ thread'[th] = next
      /\ \A u \in Threads : u # th => thread'[u] = thread[u]
  BY <1>5, <1>6, NewJob DEF IInv
<1>8. UNCHANGED <<published, withdrawn, scopes, rounds, noted>>
  BY DEF theProvider, theVault
<1>9. Types'
  BY <1>7, <1>8 DEF IInv, Types
<1>10. PastOK'
  BY <1>8 DEF IInv, PastOK, Past
<1>11. ProbesOK'
  BY <1>3, <1>4, <1>7 DEF IInv, ProbesOK
<1>12. LockOK'
  <2>1. /\ lock = th /\ cached.attempted # Never /\ job.entered # Never
        /\ job.entered <= cached.attempted
        /\ job.pc = "refetch" => job.looked = cached.attempted
    BY <1>1 DEF IInv, LockOK, Locking
  <2>2. \A u \in Threads : u # th => thread'[u].pc \notin Locking
    BY <1>7, <2>1, Alone
  <2>3. QED BY <1>3, <1>4, <1>7, <2>1, <2>2 DEF LockOK
<1>13. VaultOK' /\ CopiesOK'
  BY <1>3, <1>4, <1>5, <1>6, VaultKept
<1>14. QED BY <1>9, <1>10, <1>11, <1>12, <1>13, NoOutcomeOK DEF IInv

LEMMA FetchFailsIInv ==
  ASSUME IInv, NEW th \in Threads, FetchFails(th), outcome' = NoOutcome
  PROVE  IInv'
<1>1. clock \in Nat /\ clock \in TimesN /\ clock # Never
  BY ClockFacts DEF IInv
<1>2. /\ troubled' = clock /\ thread[th].pc \in DOMAIN Then
      /\ thread' = [thread EXCEPT ![th].pc = Then[@]]
      /\ UNCHANGED <<clock, theProvider, lock, theVault, cached>>
  BY DEF FetchFails
<1>3. KeysOK'
  BY <1>2 DEF theProvider, IInv, KeysOK
<1>4. Settled' /\ Past(troubled') /\ Past(cached'.fetched)
  BY <1>1, <1>2 DEF Settled, Past, IInv, PastOK
<1>5. /\ cached' \in [keys : SUBSET Keys, fetched : TimesN, attempted : TimesN]
      /\ troubled' \in TimesN
  BY <1>1, <1>2 DEF IInv, Types
<1>6. QED BY <1>2, <1>3, <1>4, <1>5, FetchEnds

LEMMA FetchAnswersIInv ==
  ASSUME IInv, NEW th \in Threads, FetchAnswers(th), outcome' = NoOutcome
  PROVE  IInv'
<1> DEFINE keys == {k \in Keys : Published(k)}
<1>1. clock \in Nat /\ clock \in TimesN /\ clock # Never
  BY ClockFacts DEF IInv
<1>2. /\ thread[th].pc \in DOMAIN Then /\ thread' = [thread EXCEPT ![th].pc = Then[@]]
      /\ UNCHANGED <<clock, theProvider, lock, theVault>>
  BY DEF FetchAnswers
<1>3. UNCHANGED <<published, withdrawn>>
  BY <1>2 DEF theProvider
<1>4. cached.attempted # Never
  BY <1>2 DEF IInv, LockOK, Locking, Then
<1>5. CASE keys # {}
  <2>1. /\ cached' \in [keys : SUBSET Keys, fetched : TimesN, attempted : TimesN]
        /\ cached'.keys = keys /\ cached'.fetched = cached.attempted
        /\ cached'.attempted = cached.attempted /\ troubled' = troubled
    <3> DEFINE middle == [cached EXCEPT !.keys = keys]
    <3>1. /\ middle \in [keys : SUBSET Keys, fetched : TimesN, attempted : TimesN]
          /\ middle.keys = keys /\ middle.attempted = cached.attempted
          /\ cached.attempted \in TimesN
      BY DEF IInv, Types
    <3>2. cached' = [middle EXCEPT !.fetched = cached.attempted] /\ troubled' = troubled
      BY <1>5 DEF FetchAnswers
    <3> HIDE DEF middle, keys
    <3>3. QED BY <3>1, <3>2
  <2>2. KeysOK'
    BY <1>3, <1>4, <2>1 DEF KeysOK, Published
  <2>3. Settled' /\ Past(troubled') /\ Past(cached'.fetched)
    BY <2>1 DEF Settled, Past, IInv, PastOK
  <2>4. troubled' \in TimesN
    BY <2>1 DEF IInv, Types
  <2>5. QED BY <1>2, <2>1, <2>2, <2>3, <2>4, FetchEnds
<1>6. CASE keys = {}
  <2>1. cached' = cached /\ troubled' = clock
    BY <1>6 DEF FetchAnswers
  <2>2. KeysOK'
    BY <1>3, <2>1 DEF IInv, KeysOK
  <2>3. Settled' /\ Past(troubled') /\ Past(cached'.fetched)
    BY <1>1, <1>2, <2>1 DEF Settled, Past, IInv, PastOK
  <2>4. /\ cached' \in [keys : SUBSET Keys, fetched : TimesN, attempted : TimesN]
        /\ troubled' \in TimesN
    BY <1>1, <2>1 DEF IInv, Types
  <2>5. QED BY <1>2, <2>1, <2>2, <2>3, <2>4, FetchEnds
<1>7. QED BY <1>5, <1>6

-----------------------------------------------------------------------------
(* The vault. *)
LEMMA PlaceFacts ==
  ASSUME NEW entries \in Seq(Entries), NEW scope, Held(entries, scope) # {}
  PROVE  /\ Place(entries, scope) \in 1..Len(entries)
         /\ entries[Place(entries, scope)].scope = scope
BY DEF Place, Held

(* Entries that all come from others, for another scope. *)
Leaves(rest, entries, scope) ==
  \A i \in 1..Len(rest) :
    rest[i].scope # scope /\ \E j \in 1..Len(entries) : rest[i] = entries[j]

LEMMA WithoutFacts ==
  ASSUME NEW entries \in Seq(Entries), Distinct(entries), NEW scope
  PROVE  /\ Without(entries, scope) \in Seq(Entries)
         /\ Distinct(Without(entries, scope))
         /\ Leaves(Without(entries, scope), entries, scope)
<1>1. CASE Held(entries, scope) = {}
  <2>1. Without(entries, scope) = entries
    BY <1>1 DEF Without
  <2>2. \A i \in 1..Len(entries) : entries[i].scope # scope
    BY <1>1 DEF Held
  <2>3. QED BY <2>1, <2>2 DEF Leaves
<1>2. CASE Held(entries, scope) # {}
  <2> DEFINE k == Place(entries, scope)
             n == Len(entries)
             front == SubSeq(entries, 1, k - 1)
             back == SubSeq(entries, k + 1, n)
             rest == front \o back
  <2>1. k \in 1..n /\ entries[k].scope = scope /\ n \in Nat
    BY <1>2, PlaceFacts
  <2>2. Without(entries, scope) = rest
    BY <1>2 DEF Without, RemoveAt
  <2> HIDE DEF k
  <2>3. front \in Seq(Entries) /\ Len(front) = k - 1 /\ \A i \in 1..(k - 1) : front[i] = entries[i]
    BY <2>1, SubSeqProperties
  <2>4. /\ back \in Seq(Entries) /\ Len(back) = n - k
        /\ \A i \in 1..(n - k) : back[i] = entries[k + i]
    BY <2>1, SubSeqProperties
  <2> HIDE DEF front, back
  <2>5. /\ rest \in Seq(Entries) /\ Len(rest) = n - 1
        /\ \A i \in 1..(n - 1) : rest[i] = IF i <= k - 1 THEN front[i] ELSE back[i - (k - 1)]
    <3>1. (k - 1) + (n - k) = n - 1
      BY <2>1
    <3>2. QED BY <2>3, <2>4, <3>1, ConcatProperties
  <2> HIDE DEF rest
  <2> DEFINE at(i) == IF i < k THEN i ELSE i + 1
  <2>6. \A i \in 1..(n - 1) : at(i) \in 1..n /\ at(i) # k /\ rest[i] = entries[at(i)]
    <3> SUFFICES ASSUME NEW i \in 1..(n - 1)
                 PROVE  at(i) \in 1..n /\ at(i) # k /\ rest[i] = entries[at(i)]
      OBVIOUS
    <3>1. CASE i < k
      BY <2>1, <2>3, <2>5, <3>1
    <3>2. CASE ~(i < k)
      <4>1. i - (k - 1) \in 1..(n - k) /\ k + (i - (k - 1)) = i + 1
        BY <2>1, <3>2
      <4>2. rest[i] = back[i - (k - 1)]
        BY <2>1, <2>5, <3>2
      <4>3. QED BY <2>1, <2>4, <3>2, <4>1, <4>2
    <3>3. QED BY <3>1, <3>2
  <2>7. \A i, j \in 1..(n - 1) : at(i) = at(j) => i = j
    BY <2>1
  <2> HIDE DEF at
  <2>8. Distinct(rest)
    BY <2>5, <2>6, <2>7 DEF Distinct
  <2>9. Leaves(rest, entries, scope)
    <3> SUFFICES ASSUME NEW i \in 1..(n - 1)
                 PROVE  rest[i].scope # scope /\ \E j \in 1..n : rest[i] = entries[j]
      BY <2>5 DEF Leaves
    <3>1. at(i) \in 1..n /\ at(i) # k /\ rest[i] = entries[at(i)]
      BY <2>6
    <3>2. QED BY <2>1, <3>1 DEF Distinct
  <2>10. QED BY <2>2, <2>5, <2>8, <2>9
<1>3. QED BY <1>1, <1>2

(* The entry that tokenize moves to the end. *)
Touched(scope, round) ==
  IF Live(scopes, scope, clock) THEN EntryOf(scopes, scope)
  ELSE [scope |-> scope, started |-> clock, values |-> << >>, round |-> round]

LEMMA LiveFacts ==
  ASSUME IInv, NEW scope \in Scopes, Live(scopes, scope, clock)
  PROVE  LET e == EntryOf(scopes, scope) IN
         /\ e \in Entries /\ e.scope = scope
         /\ \E i \in 1..Len(scopes) : e = scopes[i]
<1>1. scopes \in Seq(Entries) /\ Held(scopes, scope) # {}
  BY DEF IInv, Types, Live
<1>2. Place(scopes, scope) \in 1..Len(scopes) /\ scopes[Place(scopes, scope)].scope = scope
  BY <1>1, PlaceFacts
<1>3. scopes[Place(scopes, scope)] \in Entries
  BY <1>1, <1>2, ElementOfSeq
<1>4. QED BY <1>2, <1>3 DEF EntryOf

LEMMA TouchedFacts ==
  ASSUME IInv, NEW scope \in Scopes
  PROVE  LET e == Touched(scope, rounds[scope]) IN e \in Entries /\ e.scope = scope
<1>1. CASE Live(scopes, scope, clock)
  BY <1>1, LiveFacts DEF Touched
<1>2. CASE ~Live(scopes, scope, clock)
  <2>1. clock \in Times /\ rounds[scope] \in Nat /\ << >> \in Seq(Values)
    BY DEF IInv, Types
  <2>2. QED BY <1>2, <2>1 DEF Touched, Entries
<1>3. QED BY <1>1, <1>2

LEMMA OpenedFacts ==
  ASSUME IInv, NEW scope \in Scopes
  PROVE  LET opened == Opened(scopes, scope, clock, rounds[scope])
             n      == Len(opened)
         IN /\ opened \in Seq(Entries) /\ n \in Nat \ {0}
            /\ opened[n] = Touched(scope, rounds[scope])
            /\ Distinct(opened)
            /\ \A i \in 1..n : i # n =>
                 opened[i].scope # scope /\ \E j \in 1..Len(scopes) : opened[i] = scopes[j]
<1> DEFINE e == Touched(scope, rounds[scope])
           rest == Without(scopes, scope)
           grown == Append(rest, e)
           m == Len(rest)
           opened == Opened(scopes, scope, clock, rounds[scope])
<1>1. e \in Entries /\ e.scope = scope
  BY TouchedFacts
<1>2. opened = IF Len(grown) > MaxScopes THEN Tail(grown) ELSE grown
  BY DEF Opened, Touched
<1> HIDE DEF e, opened
<1>3. rest \in Seq(Entries) /\ Distinct(rest) /\ Leaves(rest, scopes, scope) /\ m \in Nat
  BY WithoutFacts DEF IInv, Types, VaultOK
<1> HIDE DEF rest
<1>4. /\ grown \in Seq(Entries) /\ Len(grown) = m + 1 /\ grown[m + 1] = e
      /\ \A i \in 1..m : grown[i] = rest[i]
  BY <1>1, <1>3, AppendProperties
<1> HIDE DEF grown
<1>5. \A i \in 1..m : grown[i].scope # scope /\ \E j \in 1..Len(scopes) : grown[i] = scopes[j]
  BY <1>3, <1>4 DEF Leaves
<1> HIDE DEF m
<1>6. Distinct(grown)
  <2> SUFFICES ASSUME NEW i \in 1..(m + 1), NEW j \in 1..(m + 1),
                      grown[i].scope = grown[j].scope
               PROVE  i = j
    BY <1>4 DEF Distinct
  <2>1. CASE i \in 1..m /\ j \in 1..m
    BY <1>3, <1>4, <2>1 DEF Distinct, m
  <2>2. CASE i = m + 1 \/ j = m + 1
    BY <1>1, <1>3, <1>4, <1>5, <2>2
  <2>3. QED BY <1>3, <2>1, <2>2
<1>7. CASE ~(Len(grown) > MaxScopes)
  <2>1. opened = grown /\ Len(opened) = m + 1
    BY <1>2, <1>4, <1>7
  <2>2. \A i \in 1..(m + 1) : i # m + 1 => i \in 1..m
    BY <1>3
  <2>3. QED BY <1>3, <1>4, <1>5, <1>6, <2>1, <2>2 DEF e, opened
<1>8. CASE Len(grown) > MaxScopes
  <2> DEFINE kept == Tail(grown)
  <2>1. m >= 1 /\ opened = kept
    BY <1>2, <1>3, <1>4, <1>8, VaultAssumption
  <2>2. kept \in Seq(Entries) /\ Len(kept) = m /\ \A i \in 1..m : kept[i] = grown[i + 1]
    <3>1. grown # << >> /\ Len(grown) - 1 = m
      BY <1>3, <1>4
    <3>2. /\ kept \in Seq(Entries) /\ Len(kept) = Len(grown) - 1
          /\ \A i \in 1..Len(kept) : kept[i] = grown[i + 1]
      BY <1>4, <3>1, HeadTailProperties
    <3>3. QED BY <3>1, <3>2
  <2> HIDE DEF kept
  <2>3. \A i \in 1..m : i + 1 \in 1..(m + 1) /\ (i # m => i + 1 \in 1..m)
    BY <1>3
  <2>4. Distinct(kept)
    <3> SUFFICES ASSUME NEW i \in 1..m, NEW j \in 1..m, kept[i].scope = kept[j].scope
                 PROVE  i = j
      BY <2>2 DEF Distinct
    <3>1. kept[i] = grown[i + 1] /\ kept[j] = grown[j + 1]
      BY <2>2
    <3>2. i + 1 \in 1..Len(grown) /\ j + 1 \in 1..Len(grown)
      BY <1>4, <2>3
    <3>3. PICK a \in 1..Len(grown), b \in 1..Len(grown) : a = i + 1 /\ b = j + 1
      BY <3>2
    <3>4. a = b
      BY <1>6, <3>1, <3>3 DEF Distinct
    <3>5. QED BY <3>3, <3>4
  <2>5. m \in 1..m /\ kept[m] = e
    BY <1>3, <1>4, <2>1, <2>2
  <2>6. \A i \in 1..m : i # m =>
          kept[i].scope # scope /\ \E j \in 1..Len(scopes) : kept[i] = scopes[j]
    <3> SUFFICES ASSUME NEW i \in 1..m, i # m
                 PROVE  kept[i].scope # scope /\ \E j \in 1..Len(scopes) : kept[i] = scopes[j]
      OBVIOUS
    <3>1. PICK k \in 1..m : k = i + 1
      BY <2>3
    <3>2. kept[i] = grown[k]
      BY <2>2, <3>1
    <3>3. QED BY <1>5, <3>2
  <2>7. QED BY <1>3, <2>1, <2>2, <2>4, <2>5, <2>6 DEF e, opened
<1>9. QED BY <1>7, <1>8

(* What tokenize makes of the values of a scope: those it had, each in its *)
(* place, and the one asked for.                                           *)
LEMMA NotedFacts ==
  ASSUME NEW values \in Seq(Values), NEW value \in Values,
         \A m, n \in 1..Len(values) : values[m] = values[n] => m = n
  PROVE  LET after == Noted(values, value) IN
         /\ after \in Seq(Values)
         /\ \A m, n \in 1..Len(after) : after[m] = after[n] => m = n
         /\ \A n \in 1..Len(values) : n \in 1..Len(after) /\ after[n] = values[n]
         /\ \A n \in 1..Len(after) : n \in 1..Len(values) \/ after[n] = value
         /\ \E n \in 1..Len(after) : after[n] = value
<1> DEFINE after == Noted(values, value)
           n == Len(values)
<1>1. CASE Contains(values, value)
  <2>1. after = values
    BY <1>1 DEF Noted
  <2>2. \E i \in 1..Len(values) : values[i] = value
    BY <1>1 DEF Contains
  <2>3. QED BY <2>1, <2>2
<1>2. CASE ~Contains(values, value)
  <2>1. \A i \in 1..n : values[i] # value
    BY <1>2 DEF Contains
  <2>2. after = Append(values, value)
    BY <1>2 DEF Noted
  <2>3. /\ after \in Seq(Values) /\ Len(after) = n + 1 /\ after[n + 1] = value /\ n \in Nat
        /\ \A i \in 1..n : after[i] = values[i]
    BY <2>2, AppendProperties
  <2> HIDE DEF after, n
  <2>4. \A i, j \in 1..(n + 1) : after[i] = after[j] => i = j
    <3> SUFFICES ASSUME NEW i \in 1..(n + 1), NEW j \in 1..(n + 1), after[i] = after[j]
                 PROVE  i = j
      OBVIOUS
    <3>1. CASE i \in 1..n /\ j \in 1..n
      BY <2>3, <3>1 DEF n
    <3>2. CASE i = n + 1 \/ j = n + 1
      BY <2>1, <2>3, <3>2
    <3>3. QED BY <2>3, <3>1, <3>2
  <2>5. \A i \in 1..n : i \in 1..(n + 1)
    BY <2>3
  <2>6. \A i \in 1..(n + 1) : i \in 1..n \/ after[i] = value
    BY <2>3
  <2>7. n + 1 \in 1..(n + 1)
    BY <2>3
  <2>8. QED BY <2>3, <2>4, <2>5, <2>6, <2>7 DEF after, n
<1>3. QED BY <1>1, <1>2

(* An entry that is touched accounts for what was given in its round, also *)
(* when it is started again: nothing was given in the round it begins.     *)
LEMMA TouchedOK ==
  ASSUME IInv, NEW scope \in Scopes,
         rounds' = IF Live(scopes, scope, clock) THEN rounds
                   ELSE [rounds EXCEPT ![scope] = @ + 1]
  PROVE  /\ rounds' \in [Scopes -> Nat]
         /\ \A s \in Scopes : s # scope => rounds'[s] = rounds[s]
         /\ rounds[scope] <= rounds'[scope]
         /\ EntryOK(Touched(scope, rounds[scope]), noted, rounds')
<1>1. rounds \in [Scopes -> Nat] /\ rounds[scope] \in Nat
  BY DEF IInv, Types
<1>2. CASE Live(scopes, scope, clock)
  <2>1. rounds' = rounds /\ Touched(scope, rounds[scope]) = EntryOf(scopes, scope)
    BY <1>2 DEF Touched
  <2>2. EntryOK(EntryOf(scopes, scope), noted, rounds)
    BY <1>2, LiveFacts DEF IInv, VaultOK
  <2>3. QED BY <1>1, <2>1, <2>2
<1>3. CASE ~Live(scopes, scope, clock)
  <2> DEFINE e == [scope |-> scope, started |-> clock, values |-> << >>,
                   round |-> rounds[scope]]
  <2>1. rounds' = [rounds EXCEPT ![scope] = @ + 1] /\ Touched(scope, rounds[scope]) = e
    BY <1>3 DEF Touched
  <2>2. /\ rounds' \in [Scopes -> Nat] /\ rounds'[scope] = rounds[scope] + 1
        /\ \A s \in Scopes : s # scope => rounds'[s] = rounds[s]
    BY <1>1, <2>1
  <2>3. /\ e.scope = scope /\ e.round = rounds[scope] /\ e.values = << >>
        /\ Len(e.values) = 0
    OBVIOUS
  <2> HIDE DEF e
  <2>4. \A a \in noted : ~(a.owner = scope /\ a.round = rounds[scope])
    <3>1. \A a \in noted : a.round \in Nat /\ a.round < rounds[a.owner]
      BY DEF IInv, Types, VaultOK, Given
    <3>2. QED BY <1>1, <3>1
  <2>5. EntryOK(e, noted, rounds')
    BY <2>2, <2>3, <2>4 DEF EntryOK
  <2>6. QED BY <1>1, <2>1, <2>2, <2>5
<1>4. QED BY <1>2, <1>3

LEMMA TokenizeIInv ==
  ASSUME IInv, NEW th \in Threads, NEW value \in Values, Tokenize(th, value),
         outcome' = NoOutcome
  PROVE  IInv'
<1> DEFINE job == thread[th]
           scope == job.scope
           opened == Opened(scopes, scope, clock, rounds[scope])
           last == Len(opened)
           e == Touched(scope, rounds[scope])
           values == Noted(e.values, value)
           e1 == [e EXCEPT !.values = values]
           after == Tokenized(scopes, scope, value, clock, rounds[scope])
           token == Token(after, value)
           given == [owner |-> scope, value |-> value, token |-> token, round |-> e.round]
<1>1. job \in Vaulting /\ scope \in Scopes /\ job.owner = scope
  <2>1. job.pc = "protect"
    BY DEF Tokenize
  <2>2. job \in Vaulting
    BY <2>1, JobKinds DEF IInv, Types
  <2>3. QED BY <2>1, <2>2 DEF Vaulting, IInv, CopiesOK
<1>2. /\ scopes' = after
      /\ rounds' = IF Live(scopes, scope, clock) THEN rounds
                   ELSE [rounds EXCEPT ![scope] = @ + 1]
      /\ noted' = noted \cup {[owner |-> job.owner, value |-> value, token |-> token,
                               round |-> Last(after).round]}
      /\ thread' = [thread EXCEPT ![th] = IF job.values = 1 THEN Idle
                                          ELSE [job EXCEPT !.values = @ - 1]]
      /\ UNCHANGED <<clock, published, withdrawn, cached, lock, troubled>>
  BY DEF Tokenize, theProvider, theKeys
<1>3. e \in Entries /\ e.scope = scope
  BY <1>1, TouchedFacts
<1>4. /\ opened \in Seq(Entries) /\ last \in Nat \ {0} /\ opened[last] = e
      /\ Distinct(opened)
      /\ \A i \in 1..last : i # last =>
           opened[i].scope # scope /\ \E j \in 1..Len(scopes) : opened[i] = scopes[j]
  BY <1>1, OpenedFacts
<1>5. /\ rounds' \in [Scopes -> Nat]
      /\ \A s \in Scopes : s # scope => rounds'[s] = rounds[s]
      /\ rounds[scope] <= rounds'[scope]
      /\ EntryOK(e, noted, rounds')
  BY <1>1, <1>2, TouchedOK
<1>6. after = [opened EXCEPT ![last] = e1]
  BY <1>4 DEF Tokenized
<1> HIDE DEF e, opened, last, after
<1>7. /\ values \in Seq(Values)
      /\ \A m, n \in 1..Len(values) : values[m] = values[n] => m = n
      /\ \A n \in 1..Len(e.values) : n \in 1..Len(values) /\ values[n] = e.values[n]
      /\ \A n \in 1..Len(values) : n \in 1..Len(e.values) \/ values[n] = value
      /\ \E n \in 1..Len(values) : values[n] = value
  <2>1. e.values \in Seq(Values)
    BY <1>3 DEF Entries
  <2>2. \A m, n \in 1..Len(e.values) : e.values[m] = e.values[n] => m = n
    BY <1>5 DEF EntryOK
  <2> DEFINE old == e.values
  <2> HIDE DEF old
  <2>3. old \in Seq(Values) /\ \A m, n \in 1..Len(old) : old[m] = old[n] => m = n
    BY <2>1, <2>2 DEF old
  <2>4. LET new == Noted(old, value) IN
        /\ new \in Seq(Values)
        /\ \A m, n \in 1..Len(new) : new[m] = new[n] => m = n
        /\ \A n \in 1..Len(old) : n \in 1..Len(new) /\ new[n] = old[n]
        /\ \A n \in 1..Len(new) : n \in 1..Len(old) \/ new[n] = value
        /\ \E n \in 1..Len(new) : new[n] = value
    BY <2>3, NotedFacts
  <2>5. QED BY <2>4 DEF old
<1> HIDE DEF values
<1>8. e1 \in Entries /\ e1.scope = scope /\ e1.round = e.round /\ e1.values = values
  BY <1>3, <1>7 DEF Entries
<1> HIDE DEF e1
<1>9. /\ after \in Seq(Entries) /\ Len(after) = last /\ after[last] = e1
      /\ \A i \in 1..last : i # last => after[i] = opened[i]
  BY <1>4, <1>6, <1>8 DEF last
<1>10. Last(after) = e1
  BY <1>9 DEF Last
<1>11. token \in 1..Len(values) /\ values[token] = value
  <2>1. token = CHOOSE n \in DOMAIN values :
                  values[n] = value /\ \A k \in DOMAIN values : values[k] = value => k <= n
    BY <1>8, <1>10 DEF Token
  <2>2. DOMAIN values = 1..Len(values)
    BY <1>7
  <2>3. \E n \in DOMAIN values :
          values[n] = value /\ \A k \in DOMAIN values : values[k] = value => k <= n
    <3>1. PICK n \in 1..Len(values) : values[n] = value
      BY <1>7
    <3>2. \A k \in 1..Len(values) : values[k] = value => k = n
      BY <1>7, <3>1
    <3>3. n <= n
      BY <3>1
    <3>4. QED BY <2>2, <3>1, <3>2, <3>3
  <2>4. QED BY <2>1, <2>2, <2>3
<1> HIDE DEF token
<1>12. noted' = noted \cup {given}
  BY <1>1, <1>2, <1>8, <1>10
<1>13. /\ given.owner = scope /\ given.value = value /\ given.token = token
       /\ given.round = e.round /\ given \in Given
  <2>1. token \in Nat /\ e.round \in Nat
    BY <1>3, <1>7, <1>11 DEF Entries
  <2>2. QED BY <1>1, <2>1 DEF Given
<1>14. EntryOK(e1, noted', rounds')
  <2>1. e1.round + 1 = rounds'[e1.scope]
    BY <1>3, <1>5, <1>8 DEF EntryOK
  <2>2. ASSUME NEW n \in 1..Len(values)
        PROVE  [owner |-> scope, value |-> values[n], token |-> n, round |-> e.round] \in noted'
    <3>1. CASE n \in 1..Len(e.values)
      <4>1. [owner |-> e.scope, value |-> e.values[n], token |-> n, round |-> e.round] \in noted
        BY <1>5, <3>1 DEF EntryOK
      <4>2. QED BY <1>3, <1>7, <1>12, <3>1, <4>1
    <3>2. CASE values[n] = value
      <4>1. n = token
        BY <1>7, <1>11, <3>2
      <4>2. QED BY <1>12, <3>2, <4>1
    <3>3. QED BY <1>7, <3>1, <3>2
  <2>3. ASSUME NEW a \in noted', a.owner = scope, a.round = e.round
        PROVE  a.token \in 1..Len(values) /\ values[a.token] = a.value
    <3>1. CASE a \in noted
      <4>1. a.token \in 1..Len(e.values) /\ e.values[a.token] = a.value
        BY <1>3, <1>5, <2>3, <3>1 DEF EntryOK
      <4>2. QED BY <1>7, <4>1
    <3>2. CASE a = given
      BY <1>11, <1>13, <3>2
    <3>3. QED BY <1>12, <3>1, <3>2
  <2> HIDE DEF given
  <2>4. QED BY <1>7, <1>8, <2>1, <2>2, <2>3 DEF EntryOK
<1> HIDE DEF given
<1>15. Distinct(scopes')
  BY <1>2, <1>3, <1>4, <1>8, <1>9 DEF Distinct, last
<1>16. \A i \in 1..Len(scopes') : EntryOK(scopes'[i], noted', rounds')
  <2> SUFFICES ASSUME NEW i \in 1..last PROVE EntryOK(after[i], noted', rounds')
    BY <1>2, <1>9
  <2>1. CASE i = last
    BY <1>9, <1>14, <2>1
  <2>2. CASE i # last
    <3>1. PICK j \in 1..Len(scopes) : after[i] = scopes[j] /\ scopes[j].scope # scope
      BY <1>4, <1>9, <2>2
    <3>2. EntryOK(scopes[j], noted, rounds) /\ scopes[j] \in Entries
      BY ElementOfSeq DEF IInv, VaultOK, Types
    <3>3. scopes[j].scope \in Scopes
      BY <3>2 DEF Entries
    <3>4. rounds'[scopes[j].scope] = rounds[scopes[j].scope]
      BY <1>5, <3>1, <3>3
    <3>5. EntryOK(scopes[j], noted', rounds')
      BY <1>12, <1>13, <3>1, <3>2, <3>4 DEF EntryOK
    <3>6. QED BY <3>1, <3>5
  <2>3. QED BY <2>1, <2>2
<1>17. \A a \in noted' : a.round < rounds'[a.owner]
  <2> SUFFICES ASSUME NEW a \in noted' PROVE a.round < rounds'[a.owner]
    OBVIOUS
  <2>1. CASE a \in noted
    <3>1. a.round \in Nat /\ a.owner \in Scopes /\ a.round < rounds[a.owner]
      BY <2>1 DEF IInv, Types, VaultOK, Given
    <3>2. rounds[a.owner] \in Nat /\ rounds'[a.owner] \in Nat
      BY <1>5, <3>1 DEF IInv, Types
    <3>3. rounds[a.owner] <= rounds'[a.owner]
      BY <1>5, <3>1, <3>2
    <3>4. QED BY <3>1, <3>2, <3>3
  <2>2. CASE a = given
    <3>1. e.round \in Nat /\ e.round + 1 = rounds'[scope]
      BY <1>3, <1>5 DEF Entries, EntryOK
    <3>2. QED BY <1>13, <2>2, <3>1
  <2>3. QED BY <1>12, <2>1, <2>2
<1>18. ToldApart'
  <2> SUFFICES ASSUME NEW a \in noted', NEW b \in noted', a.owner = b.owner, a.round = b.round
               PROVE  a.value = b.value <=> a.token = b.token
    BY DEF ToldApart
  <2>1. CASE a \in noted /\ b \in noted
    BY <2>1 DEF IInv, VaultOK, ToldApart
  <2>2. CASE a = given \/ b = given
    <3>1. a.owner = scope /\ a.round = e.round
      BY <1>13, <2>2
    <3>2. a.token \in 1..Len(values) /\ values[a.token] = a.value
      BY <1>8, <1>14, <3>1 DEF EntryOK
    <3>3. b.token \in 1..Len(values) /\ values[b.token] = b.value
      BY <1>8, <1>14, <3>1 DEF EntryOK
    <3>4. QED BY <1>7, <3>2, <3>3
  <2>3. QED BY <1>12, <2>1, <2>2
<1>19. VaultOK'
  BY <1>15, <1>16, <1>17, <1>18 DEF VaultOK
<1> DEFINE next == IF job.values = 1 THEN Idle ELSE [job EXCEPT !.values = @ - 1]
<1>20. /\ next \in Jobs /\ next.pc \in {"idle", "protect", "restore"}
       /\ next.pc # "idle" => next.scope = next.owner
  <2>1. CASE job.values = 1
    BY <2>1 DEF Jobs, Idle
  <2>2. CASE job.values = 2
    <3>1. next = [job EXCEPT !.values = 1]
      BY <2>2
    <3>2. next \in Vaulting /\ next.scope = job.scope /\ next.owner = job.owner
      BY <1>1, <3>1 DEF Vaulting
    <3> HIDE DEF next
    <3>3. next.pc \in {"protect", "restore"}
      BY <3>2 DEF Vaulting
    <3>4. QED BY <1>1, <3>2, <3>3 DEF Jobs
  <2>3. QED BY <1>1, <2>1, <2>2 DEF Vaulting
<1>21. thread' = [thread EXCEPT ![th] = next]
  BY <1>2
<1> HIDE DEF next
<1>22. /\ thread' \in [Threads -> Jobs] /\ thread'[th] = next
       /\ \A u \in Threads : u # th => thread'[u] = thread[u]
  BY <1>20, <1>21, NewJob DEF IInv
<1>23. PastOK' /\ ProbesOK' /\ KeysOK' /\ LockOK' /\ OutcomeOK'
  BY <1>2, <1>20, <1>21, KeysKept DEF Locking
<1>24. Types'
  BY <1>2, <1>5, <1>9, <1>12, <1>13, <1>22 DEF IInv, Types
<1>25. CopiesOK'
  <2> SUFFICES ASSUME NEW u \in Threads
               PROVE  LET j == thread'[u] IN
                      /\ j.pc \in {"protect", "restore"} => j.scope = j.owner
                      /\ j.pc = "answer" =>
                           \A n \in 1..Len(j.mapping) :
                             [owner |-> j.owner, value |-> j.mapping[n], token |-> n,
                              round |-> j.round] \in noted'
    BY DEF CopiesOK
  <2>1. CASE u = th
    BY <1>20, <1>22, <2>1
  <2>2. CASE u # th
    BY <1>12, <1>22, <2>2 DEF IInv, CopiesOK
  <2>3. QED BY <2>1, <2>2
<1>26. QED BY <1>19, <1>23, <1>24, <1>25 DEF IInv

LEMMA CopyMappingIInv ==
  ASSUME IInv, NEW th \in Threads, CopyMapping(th), outcome' = NoOutcome
  PROVE  IInv'
<1> DEFINE job == thread[th]
           scope == job.scope
           mapping == Restorable(scopes, scope, clock)
           round == IF Live(scopes, scope, clock) THEN EntryOf(scopes, scope).round
                    ELSE rounds[scope]
           next == [pc |-> "answer", owner |-> job.owner, mapping |-> mapping, round |-> round]
<1>1. scope \in Scopes /\ job.owner = scope
  <2>1. job.pc = "restore"
    BY DEF CopyMapping
  <2>2. job \in Vaulting
    BY <2>1, JobKinds DEF IInv, Types
  <2>3. QED BY <2>1, <2>2 DEF Vaulting, IInv, CopiesOK
<1>2. /\ scopes' = Restored(scopes, scope, clock)
      /\ thread' = [thread EXCEPT ![th] = next]
      /\ UNCHANGED <<clock, published, withdrawn, cached, lock, troubled, rounds, noted>>
  BY DEF CopyMapping, theProvider, theKeys
<1>3. /\ mapping \in Seq(Values) /\ round \in Nat
      /\ \A n \in 1..Len(mapping) :
           [owner |-> scope, value |-> mapping[n], token |-> n, round |-> round] \in noted
  <2>1. CASE Live(scopes, scope, clock)
    <3> DEFINE e == EntryOf(scopes, scope)
    <3>1. e \in Entries /\ e.scope = scope /\ EntryOK(e, noted, rounds)
      BY <1>1, <2>1, LiveFacts DEF IInv, VaultOK
    <3>2. mapping = e.values /\ round = e.round
      BY <2>1 DEF Restorable
    <3> HIDE DEF e, mapping, round
    <3>3. QED BY <3>1, <3>2 DEF Entries, EntryOK
  <2>2. CASE ~Live(scopes, scope, clock)
    <3>1. mapping = << >> /\ round = rounds[scope]
      BY <2>2 DEF Restorable
    <3>2. mapping \in Seq(Values) /\ Len(mapping) = 0
      BY <3>1
    <3>3. round \in Nat
      BY <1>1, <3>1 DEF IInv, Types
    <3> HIDE DEF mapping, round
    <3>4. QED BY <3>2, <3>3
  <2>3. QED BY <2>1, <2>2
<1> HIDE DEF mapping, round
<1>4. /\ next \in Answering /\ next.pc = "answer" /\ next.owner = scope
      /\ next.mapping = mapping /\ next.round = round
  BY <1>1, <1>3 DEF Answering
<1> HIDE DEF next
<1>5. next \in Jobs
  BY <1>4 DEF Jobs
<1>6. /\ thread' \in [Threads -> Jobs] /\ thread'[th] = next
      /\ \A u \in Threads : u # th => thread'[u] = thread[u]
  BY <1>2, <1>5, NewJob DEF IInv
<1>7. PastOK' /\ ProbesOK' /\ KeysOK' /\ LockOK' /\ OutcomeOK'
  BY <1>2, <1>4, <1>5, KeysKept DEF Locking
<1>8. /\ scopes' \in Seq(Entries) /\ Distinct(scopes')
      /\ \A i \in 1..Len(scopes') : \E j \in 1..Len(scopes) : scopes'[i] = scopes[j]
  <2>1. CASE Live(scopes, scope, clock)
    BY <1>2, <2>1 DEF Restored, IInv, Types, VaultOK
  <2>2. CASE ~Live(scopes, scope, clock)
    <3>1. scopes' = Without(scopes, scope)
      BY <1>2, <2>2 DEF Restored
    <3>2. scopes \in Seq(Entries) /\ Distinct(scopes)
      BY DEF IInv, Types, VaultOK
    <3>3. QED BY <3>1, <3>2, WithoutFacts DEF Leaves
  <2>3. QED BY <2>1, <2>2
<1>9. Types'
  BY <1>2, <1>6, <1>8 DEF IInv, Types
<1>10. VaultOK'
  <2>1. \A i \in 1..Len(scopes') : EntryOK(scopes'[i], noted', rounds')
    BY <1>2, <1>8 DEF IInv, VaultOK
  <2>2. ToldApart' /\ \A a \in noted' : a.round < rounds'[a.owner]
    BY <1>2 DEF IInv, VaultOK, ToldApart
  <2>3. QED BY <1>8, <2>1, <2>2 DEF VaultOK
<1>11. CopiesOK'
  <2> SUFFICES ASSUME NEW u \in Threads
               PROVE  LET j == thread'[u] IN
                      /\ j.pc \in {"protect", "restore"} => j.scope = j.owner
                      /\ j.pc = "answer" =>
                           \A n \in 1..Len(j.mapping) :
                             [owner |-> j.owner, value |-> j.mapping[n], token |-> n,
                              round |-> j.round] \in noted'
    BY DEF CopiesOK
  <2>1. CASE u = th
    BY <1>2, <1>3, <1>4, <1>6, <2>1
  <2>2. CASE u # th
    BY <1>2, <1>6, <2>2 DEF IInv, CopiesOK
  <2>3. QED BY <2>1, <2>2
<1>12. QED BY <1>7, <1>9, <1>10, <1>11 DEF IInv

-----------------------------------------------------------------------------
LEMMA NextIInv == IInv /\ [Next]_vars => IInv'
<1> SUFFICES ASSUME IInv, [Next]_vars PROVE IInv'
  OBVIOUS
<1>1. ASSUME NEW th \in Threads, EnterKeys(th) \/ Resume(th) PROVE IInv'
  BY <1>1, EnterKeysIInv, ResumeIInv
<1>2. ASSUME outcome' = NoOutcome, Environment PROVE IInv'
  BY <1>2, TickIInv, PublishIInv, WithdrawIInv, KeysAssumption DEF Environment
<1>3. ASSUME outcome' = NoOutcome, NEW th \in Threads, Handler(th) PROVE IInv'
  BY <1>3, ReceiveIInv, FetchAnswersIInv, FetchFailsIInv, RefuseIInv, AcceptIInv,
     TokenizeIInv, CopyMappingIInv, AnswerIInv DEF Handler
<1>4. CASE UNCHANGED vars
  BY <1>4 DEF vars, IInv, Types, PastOK, Past, ProbesOK, KeysOK, LockOK, Settled, OutcomeOK,
     RevokedKeyLapses, RotationPickedUp, VaultOK, ToldApart, Distinct, EntryOK, CopiesOK
<1>5. QED BY <1>1, <1>2, <1>3, <1>4 DEF Next

LEMMA Invariance == Spec => []IInv
BY InitIInv, NextIInv, PTL DEF Spec

(* A credential on a key the provider has withdrawn is accepted only       *)
(* within the cache and staleness limits of ProviderKeys, and past the     *)
(* cache's life only if a fetch has failed since, however handlers queue   *)
(* behind the lock of key_for (identity.py).                               *)
THEOREM WithdrawnKeysLapse == Spec => []RevokedKeyLapses
<1>1. IInv => RevokedKeyLapses
  BY DEF IInv, OutcomeOK
<1>2. QED BY <1>1, Invariance, PTL

(* A credential on a published key that key_for does not know yet is found *)
(* invalid only within _MIN_REFRESH_SECONDS of its publication, or if a    *)
(* fetch failed since (identity.py).                                       *)
THEOREM NewKeysPickedUp == Spec => []RotationPickedUp
<1>1. IInv => RotationPickedUp
  BY DEF IInv, OutcomeOK
<1>2. QED BY <1>1, Invariance, PTL

(* Within one round of a scope the vault's tokenize gives one pseudonym to *)
(* a value and one value to a pseudonym, for any handlers that share the   *)
(* scope and whichever scopes are pushed out meanwhile (sensitive.py).     *)
THEOREM PseudonymsTellApart == Spec => []ToldApart
<1>1. IInv => ToldApart
  BY DEF IInv, VaultOK
<1>2. QED BY <1>1, Invariance, PTL

(* What restore substitutes from was given for the same tenant and trace,  *)
(* and a pseudonym of its round comes back as its own value, although the  *)
(* scope may change after the copy was made (sensitive.py).                *)
THEOREM RestoredToOwner == Spec => []RestoresOwnValue
<1>1. IInv => RestoresOwnValue
  <2> SUFFICES ASSUME IInv, NEW th \in Threads, thread[th].pc = "answer"
               PROVE  LET job == thread[th] IN
                      /\ \A n \in DOMAIN job.mapping :
                           \E a \in noted : /\ a.owner = job.owner
                                            /\ a.value = job.mapping[n] /\ a.token = n
                      /\ \A a \in noted :
                           a.owner = job.owner /\ a.round = job.round
                             /\ a.token \in DOMAIN job.mapping
                           => job.mapping[a.token] = a.value
    BY DEF RestoresOwnValue
  <2> DEFINE job == thread[th]
             note(n) == [owner |-> job.owner, value |-> job.mapping[n], token |-> n,
                         round |-> job.round]
  <2>1. job.mapping \in Seq(Values)
    BY JobKinds DEF IInv, Types, Answering
  <2>2. DOMAIN job.mapping = 1..Len(job.mapping)
    BY <2>1
  <2>3. \A n \in DOMAIN job.mapping : note(n) \in noted
    BY <2>2 DEF IInv, CopiesOK
  <2>4. ASSUME NEW n \in DOMAIN job.mapping
        PROVE  \E a \in noted : a.owner = job.owner /\ a.value = job.mapping[n] /\ a.token = n
    BY <2>3
  <2>5. ASSUME NEW a \in noted, a.owner = job.owner, a.round = job.round,
               a.token \in DOMAIN job.mapping
        PROVE  job.mapping[a.token] = a.value
    <3> DEFINE b == note(a.token)
    <3>1. /\ b \in noted /\ b.owner = a.owner /\ b.round = a.round /\ b.token = a.token
          /\ b.value = job.mapping[a.token]
      BY <2>3, <2>5
    <3> HIDE DEF b
    <3>2. a.value = b.value
      BY <3>1 DEF IInv, VaultOK, ToldApart
    <3>3. QED BY <3>1, <3>2
  <2>6. QED BY <2>4, <2>5
<1>2. QED BY <1>1, Invariance, PTL
=============================================================================
