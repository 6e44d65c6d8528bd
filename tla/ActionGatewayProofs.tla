------------------------ MODULE ActionGatewayProofs ------------------------
(***************************************************************************)
(* The handlers of service.py allow a risky action only on an approval of  *)
(* its own and no more actions of a trace than its budget, and drive each  *)
(* approval as ApprovalLifecycle promises, for any number of threads,      *)
(* traces, users, approvals and remembered budgets.                        *)
(***************************************************************************)
EXTENDS ActionGateway, FiniteSetTheorems, SequenceTheorems, TLAPS

(* No key has two entries. *)
Distinct(entries) ==
  \A j, k \in 1..Len(entries) : entries[j].key = entries[k].key => j = k

Elements(entries) == {entries[k] : k \in 1..Len(entries)}

(* The request an approval was made for and the identity that asked agree, *)
(* and somebody else approved it.                                          *)
ApprovalsOK ==
  \A i \in Ids : approval[i] # Unused =>
    /\ approval[i].digest[1] = approval[i].requestedBy
    /\ approval[i].status \in {"approved", "consumed"} =>
         approval[i].reviewer \in Users \ {approval[i].requestedBy}

(* What an ALLOW rests on: a spent approval for the very request, or an    *)
(* action that needs none.                                                 *)
Grounded(req, by) ==
  IF by = "approval"
  THEN /\ req.token \in Ids
       /\ approval[req.token].status = "consumed"
       /\ approval[req.token].digest = Digest(req)
  ELSE req.action \notin Risky

(* A thread that is about to publish an ALLOW. *)
Allowing(th) == thread[th].pc = "decide" /\ thread[th].verdict = "allow"

GroundsOK ==
  /\ \A k \in 1..Len(allowed) : Grounded(allowed[k].req, allowed[k].by)
  /\ \A th \in Threads : Allowing(th) => Grounded(thread[th].req, thread[th].by)

(* No approval grounds two of the ALLOWs published or about to be.         *)
TokensOK ==
  /\ \A j, k \in 1..Len(allowed) :
       allowed[j].by = "approval" /\ allowed[k].by = "approval"
         /\ allowed[j].req.token = allowed[k].req.token => j = k
  /\ \A th \in Threads : Allowing(th) /\ thread[th].by = "approval" =>
       /\ \A k \in 1..Len(allowed) :
            allowed[k].by = "approval" => allowed[k].req.token # thread[th].req.token
       /\ \A other \in Threads :
            Allowing(other) /\ thread[other].by = "approval"
              /\ thread[other].req.token = thread[th].req.token => other = th

(* The ALLOWs of a trace, and the threads that may still publish one. *)
Passed(t) == {k \in 1..Len(allowed) : allowed[k].req.trace = t}

MayPass(th) == thread[th].pc \in {"policy", "approval"} \/ Allowing(th)

Live(t) == {th \in Threads : MayPass(th) /\ thread[th].req.trace = t}

(* What the budget has let through since the trace was last forgotten. *)
LetThrough(t) ==
  LET count == Entry(spent, t, 0).count
  IN IF count < MaxActions THEN count ELSE MaxActions

BudgetOK ==
  \A t \in Traces :
    /\ IsFiniteSet(Live(t))
    /\ Cardinality(Passed(t)) + Cardinality(Live(t))
         <= MaxActions * forgotten[t] + LetThrough(t)

IInv ==
  /\ TypeOK
  /\ Distinct(spent)
  /\ ApprovalsOK
  /\ GroundsOK
  /\ TokensOK
  /\ BudgetOK

-----------------------------------------------------------------------------
(* Lemmas on the counters of limits.py *)

LEMMA PlaceFacts ==
  ASSUME NEW S, NEW entries \in Seq(S), NEW key \in Keys(entries)
  PROVE  /\ Place(entries, key) \in 1..Len(entries)
         /\ entries[Place(entries, key)].key = key
BY DEF Place, Keys

LEMMA EntryFacts ==
  ASSUME NEW S, NEW entries \in Seq(S), Distinct(entries), NEW e \in Elements(entries), NEW now
  PROVE  e.key \in Keys(entries) /\ Entry(entries, e.key, now) = e
<1>1. e.key \in Keys(entries)
  BY DEF Elements, Keys
<1>2. QED BY <1>1, PlaceFacts DEF Entry, Elements, Distinct

LEMMA OthersFacts ==
  ASSUME NEW S, NEW entries \in Seq(S), Distinct(entries), NEW key
  PROVE  /\ Others(entries, key) \in Seq(S)
         /\ Distinct(Others(entries, key))
         /\ Elements(Others(entries, key)) = {e \in Elements(entries) : e.key # key}
<1>1. CASE key \notin Keys(entries)
  BY <1>1 DEF Others, Elements, Keys
<1>2. CASE key \in Keys(entries)
  <2> DEFINE k == Place(entries, key)
             n == Len(entries)
             front == SubSeq(entries, 1, k - 1)
             back == SubSeq(entries, k + 1, n)
             rest == front \o back
  <2>1. k \in 1..n /\ entries[k].key = key /\ n \in Nat
    BY <1>2, PlaceFacts
  <2>2. Others(entries, key) = rest
    BY <1>2 DEF Others
  <2> HIDE DEF k
  <2>3. front \in Seq(S) /\ Len(front) = k - 1 /\ \A i \in 1..(k - 1) : front[i] = entries[i]
    BY <2>1, SubSeqProperties
  <2>4. back \in Seq(S) /\ Len(back) = n - k /\ \A i \in 1..(n - k) : back[i] = entries[k + i]
    BY <2>1, SubSeqProperties
  <2> HIDE DEF front, back
  <2>5. /\ rest \in Seq(S) /\ Len(rest) = n - 1
        /\ \A i \in 1..(n - 1) : rest[i] = IF i <= k - 1 THEN front[i] ELSE back[i - (k - 1)]
    <3>1. (k - 1) + (n - k) = n - 1
      BY <2>1
    <3>2. QED BY <2>3, <2>4, <3>1, ConcatProperties
  <2> HIDE DEF rest
  <2>6. ASSUME NEW i \in 1..(n - 1)
        PROVE  rest[i] = IF i < k THEN entries[i] ELSE entries[i + 1]
    <3>1. CASE i < k
      BY <2>1, <2>3, <2>5, <3>1
    <3>2. CASE ~(i < k)
      <4>1. i - (k - 1) \in 1..(n - k) /\ k + (i - (k - 1)) = i + 1
        BY <2>1, <3>2
      <4>2. QED BY <2>1, <2>4, <2>5, <3>2, <4>1
    <3>3. QED BY <3>1, <3>2
  <2> DEFINE at(i) == IF i < k THEN i ELSE i + 1
  <2>7. \A i \in 1..(n - 1) : at(i) \in 1..n /\ at(i) # k /\ rest[i] = entries[at(i)]
    <3> SUFFICES ASSUME NEW i \in 1..(n - 1)
                 PROVE  at(i) \in 1..n /\ at(i) # k /\ rest[i] = entries[at(i)]
      OBVIOUS
    <3>1. CASE i < k
      BY <2>1, <2>6, <3>1
    <3>2. CASE ~(i < k)
      BY <2>1, <2>6, <3>2
    <3>3. QED BY <3>1, <3>2
  <2>8. \A i \in 1..n : i # k => \E j \in 1..(n - 1) : i = at(j)
    <3> SUFFICES ASSUME NEW i \in 1..n, i # k PROVE \E j \in 1..(n - 1) : i = at(j)
      OBVIOUS
    <3>1. CASE i < k
      BY <2>1, <3>1
    <3>2. CASE i > k
      <4>1. i - 1 \in 1..(n - 1) /\ at(i - 1) = i
        BY <2>1, <3>2
      <4>2. QED BY <4>1
    <3>3. QED BY <2>1, <3>1, <3>2
  <2>9. \A i, j \in 1..(n - 1) : at(i) = at(j) => i = j
    BY <2>1
  <2> HIDE DEF at
  <2>10. Distinct(rest)
    BY <2>5, <2>7, <2>9 DEF Distinct
  <2>11. \A i \in 1..n : entries[i].key = key => i = k
    BY <2>1 DEF Distinct
  <2>12. Elements(rest) \subseteq {e \in Elements(entries) : e.key # key}
    <3> SUFFICES ASSUME NEW i \in 1..(n - 1)
                 PROVE  rest[i] \in Elements(entries) /\ rest[i].key # key
      BY <2>5 DEF Elements
    <3>1. PICK j \in 1..n : j # k /\ rest[i] = entries[j]
      BY <2>7
    <3>2. QED BY <2>11, <3>1 DEF Elements
  <2>13. {e \in Elements(entries) : e.key # key} \subseteq Elements(rest)
    <3> SUFFICES ASSUME NEW i \in 1..n, entries[i].key # key
                 PROVE  entries[i] \in Elements(rest)
      BY DEF Elements
    <3>1. PICK j \in 1..(n - 1) : i = at(j)
      BY <2>1, <2>8
    <3>2. QED BY <2>5, <2>7, <3>1 DEF Elements
  <2>14. QED BY <2>2, <2>5, <2>10, <2>12, <2>13
<1>3. QED BY <1>1, <1>2

(* Storing an entry keeps the keys distinct, keeps that entry, and brings  *)
(* no other; an entry that leaves with it leaves with its key.             *)
LEMMA StoredFacts ==
  ASSUME NEW S, NEW entries \in Seq(S), Distinct(entries), NEW e \in S
  PROVE  /\ Stored(entries, e) \in Seq(S)
         /\ Distinct(Stored(entries, e))
         /\ e \in Elements(Stored(entries, e))
         /\ \A f \in Elements(Stored(entries, e)) :
              f = e \/ (f \in Elements(entries) /\ f.key # e.key)
<1> DEFINE others == Others(entries, e.key)
           grown  == Append(others, e)
           n      == Len(others)
<1>1. /\ others \in Seq(S) /\ Distinct(others) /\ n \in Nat
      /\ Elements(others) = {f \in Elements(entries) : f.key # e.key}
  BY OthersFacts
<1> HIDE DEF others
<1>2. /\ grown \in Seq(S) /\ Len(grown) = n + 1 /\ grown[n + 1] = e
      /\ \A i \in 1..n : grown[i] = others[i]
  BY <1>1, AppendProperties
<1> HIDE DEF grown, n
<1>3. \A i \in 1..n : grown[i] \in Elements(others) /\ grown[i].key # e.key
  BY <1>1, <1>2 DEF Elements, n
<1>4. Distinct(grown)
  <2> SUFFICES ASSUME NEW j \in 1..(n + 1), NEW k \in 1..(n + 1), grown[j].key = grown[k].key
               PROVE  j = k
    BY <1>2 DEF Distinct
  <2>1. CASE j \in 1..n /\ k \in 1..n
    BY <1>1, <1>2, <2>1 DEF Distinct, n
  <2>2. CASE j = n + 1 \/ k = n + 1
    BY <1>1, <1>2, <1>3, <2>2
  <2>3. QED BY <1>1, <2>1, <2>2
<1>5. \A i \in 1..(n + 1) : grown[i] = e \/ (grown[i] \in Elements(entries) /\ grown[i].key # e.key)
  BY <1>1, <1>2, <1>3
<1>6. CASE ~(Len(grown) > MaxKeys)
  <2>1. Stored(entries, e) = grown
    BY <1>6 DEF Stored, grown, others
  <2>2. n + 1 \in 1..Len(grown)
    BY <1>1, <1>2
  <2>3. QED BY <1>2, <1>4, <1>5, <2>1, <2>2 DEF Elements
<1>7. CASE Len(grown) > MaxKeys
  <2> DEFINE kept == Tail(grown)
  <2>1. Stored(entries, e) = kept
    BY <1>7 DEF Stored, grown, others
  <2>2. n >= 1
    BY <1>1, <1>2, <1>7, MaxKeysAssumption
  <2>3. kept \in Seq(S) /\ Len(kept) = n /\ \A i \in 1..n : kept[i] = grown[i + 1]
    <3>1. grown # << >> /\ Len(grown) - 1 = n
      BY <1>1, <1>2
    <3>2. /\ kept \in Seq(S) /\ Len(kept) = Len(grown) - 1
          /\ \A i \in 1..Len(kept) : kept[i] = grown[i + 1]
      BY <1>2, <3>1, HeadTailProperties
    <3>3. QED BY <3>1, <3>2
  <2> HIDE DEF kept
  <2>4. \A i \in 1..n : i + 1 \in 1..(n + 1)
    BY <1>1
  <2>5. Distinct(kept)
    <3> SUFFICES ASSUME NEW j \in 1..n, NEW k \in 1..n, kept[j].key = kept[k].key
                 PROVE  j = k
      BY <2>3 DEF Distinct
    <3>1. kept[j] = grown[j + 1] /\ kept[k] = grown[k + 1]
      BY <2>3
    <3>2. grown[j + 1].key = grown[k + 1].key
      BY <3>1
    <3>3. j + 1 \in 1..Len(grown) /\ k + 1 \in 1..Len(grown)
      BY <1>2, <2>4
    <3>4. PICK a \in 1..Len(grown), b \in 1..Len(grown) : a = j + 1 /\ b = k + 1
      BY <3>3
    <3>5. grown[a].key = grown[b].key
      BY <3>2, <3>4
    <3>6. a = b
      BY <1>4, <3>5 DEF Distinct
    <3>7. QED BY <3>4, <3>6
  <2>6. n \in 1..n /\ kept[n] = e
    BY <1>1, <1>2, <2>2, <2>3
  <2>7. QED BY <1>5, <2>1, <2>3, <2>4, <2>5, <2>6 DEF Elements
<1>8. QED BY <1>6, <1>7

-----------------------------------------------------------------------------
(* Lemmas on the requests and the threads *)

LEMMA RequestFacts ==
  ASSUME NEW req \in Request
  PROVE  /\ req.action \in Actions /\ req.trace \in Traces /\ req.user \in Users
         /\ req.token \in Ids \cup {NoOne} /\ req.execute \in BOOLEAN
         /\ Digest(req) \in Users \X Actions
         /\ Digest(req)[1] = req.user /\ Digest(req)[2] = req.action
BY DEF Request, Digest

(* A thread that is not idle has a request, and a ground once decided. *)
LEMMA ThreadFacts ==
  ASSUME TypeOK, NEW th \in Threads
  PROVE  /\ thread[th] \in {Idle} \cup Busy
         /\ thread[th].pc \in {"idle", "inspect", "policy", "approval", "decide", "run"}
         /\ thread[th].pc # "idle" => thread[th].req \in Request
         /\ thread[th].pc \in {"decide", "run"} => thread[th].by \in Grounds
         /\ thread[th].pc = "decide" =>
              thread[th].verdict \in {"allow", "deny", "require_approval"}
<1>1. thread[th] \in {Idle} \cup Busy
  BY DEF TypeOK
<1>2. QED BY <1>1 DEF Idle, Busy

LEMMA BusyFacts ==
  ASSUME NEW req \in Request, NEW by \in Grounds
  PROVE  /\ \A pc \in {"inspect", "policy", "approval"} : [pc |-> pc, req |-> req] \in Busy
         /\ \A v \in {"allow", "deny", "require_approval"} :
              [pc |-> "decide", req |-> req, verdict |-> v, by |-> by] \in Busy
         /\ [pc |-> "run", req |-> req, by |-> by] \in Busy
BY DEF Busy

(* Only the budget's lookup of the trace matters. *)
LEMMA LetThroughFacts ==
  ASSUME TypeOK, Distinct(spent), NEW t \in Traces
  PROVE  /\ Entry(spent, t, 0).count \in 0..(MaxActions + 1)
         /\ LetThrough(t) \in 0..MaxActions
         /\ t \notin Keys(spent) => Entry(spent, t, 0).count = 0
<1>1. CASE t \in Keys(spent)
  <2>1. Entry(spent, t, 0) \in [key : Traces, count : 1..(MaxActions + 1)]
    <3>1. Place(spent, t) \in 1..Len(spent)
      BY <1>1, PlaceFacts DEF TypeOK
    <3>2. Entry(spent, t, 0) = spent[Place(spent, t)]
      BY <1>1 DEF Entry
    <3>3. spent \in Seq([key : Traces, count : 1..(MaxActions + 1)])
      BY DEF TypeOK
    <3>4. spent[Place(spent, t)] \in [key : Traces, count : 1..(MaxActions + 1)]
      BY <3>1, <3>3, ElementOfSeq
    <3>5. QED BY <3>2, <3>4
  <2>2. QED BY <1>1, <2>1, MaxActionsAssumption DEF LetThrough
<1>2. CASE t \notin Keys(spent)
  BY <1>2, MaxActionsAssumption DEF LetThrough, Entry
<1>3. QED BY <1>1, <1>2

LEMMA PassedFinite ==
  ASSUME TypeOK, NEW t \in Traces
  PROVE  IsFiniteSet(Passed(t)) /\ Cardinality(Passed(t)) \in Nat
<1>1. IsFiniteSet(1..Len(allowed)) /\ Passed(t) \subseteq 1..Len(allowed)
  BY FS_Interval DEF TypeOK, Passed
<1>2. QED BY <1>1, FS_Subset, FS_CardinalityType

-----------------------------------------------------------------------------
(* The steps *)

LEMMA InitIInv == Init => IInv
<1> SUFFICES ASSUME Init PROVE IInv
  OBVIOUS
<1>1. /\ spent = << >> /\ Len(spent) = 0 /\ allowed = << >> /\ Len(allowed) = 0
      /\ \A th \in Threads : thread[th] = Idle
      /\ \A i \in Ids : approval[i] = Unused
      /\ \A t \in Traces : forgotten[t] = 0
  BY DEF Init
<1>2. TypeOK
  BY DEF Init, TypeOK
<1>3. Distinct(spent) /\ ApprovalsOK
  BY <1>1 DEF Distinct, ApprovalsOK
<1>4. \A th \in Threads : ~MayPass(th) /\ ~Allowing(th)
  BY <1>1 DEF MayPass, Allowing, Idle
<1>5. GroundsOK /\ TokensOK
  BY <1>1, <1>4 DEF GroundsOK, TokensOK
<1>6. BudgetOK
  <2> SUFFICES ASSUME NEW t \in Traces
               PROVE  /\ IsFiniteSet(Live(t))
                      /\ Cardinality(Passed(t)) + Cardinality(Live(t))
                           <= MaxActions * forgotten[t] + LetThrough(t)
    BY DEF BudgetOK
  <2>1. Live(t) = {} /\ Passed(t) = {}
    BY <1>1, <1>4 DEF Live, Passed
  <2>2. LetThrough(t) \in Nat /\ MaxActions * forgotten[t] = 0
    BY <1>1, <1>2, <1>3, LetThroughFacts, MaxActionsAssumption
  <2> HIDE DEF Live, Passed, LetThrough
  <2>3. QED BY <2>1, <2>2, FS_EmptySet
<1>7. QED BY <1>2, <1>3, <1>5, <1>6 DEF IInv

(* The budget is kept by a step that publishes nothing, leaves the budget  *)
(* alone and lets no further thread through.                               *)
LEMMA KeptBudget ==
  ASSUME IInv, UNCHANGED <<spent, forgotten, allowed>>,
         \A th \in Threads :
           MayPass(th)' => MayPass(th) /\ thread'[th].req.trace = thread[th].req.trace
  PROVE  BudgetOK'
<1> SUFFICES ASSUME NEW t \in Traces
             PROVE  /\ IsFiniteSet(Live(t)')
                    /\ Cardinality(Passed(t)') + Cardinality(Live(t)')
                         <= MaxActions * forgotten'[t] + LetThrough(t)'
  BY DEF BudgetOK
<1>1. Live(t)' \subseteq Live(t)
  BY DEF Live
<1>2. Passed(t)' = Passed(t) /\ LetThrough(t)' = LetThrough(t) /\ forgotten' = forgotten
  BY DEF Passed, LetThrough
<1>3. /\ IsFiniteSet(Live(t))
      /\ Cardinality(Passed(t)) + Cardinality(Live(t))
           <= MaxActions * forgotten[t] + LetThrough(t)
  BY DEF IInv, BudgetOK
<1>4. IsFiniteSet(Live(t)') /\ Cardinality(Live(t)') <= Cardinality(Live(t))
  BY <1>1, <1>3, FS_Subset
<1>5. Cardinality(Live(t)) \in Nat /\ Cardinality(Live(t)') \in Nat
  BY <1>3, <1>4, FS_CardinalityType
<1>6. Cardinality(Passed(t)) \in Nat
  BY PassedFinite DEF IInv
<1>7. forgotten[t] \in Nat /\ LetThrough(t) \in Nat /\ MaxActions \in Nat
  BY LetThroughFacts, MaxActionsAssumption DEF IInv, TypeOK
<1> HIDE DEF Live, Passed, LetThrough
<1>8. MaxActions * forgotten[t] \in Nat
  BY <1>7
<1>9. QED BY <1>2, <1>3, <1>4, <1>5, <1>6, <1>7, <1>8

(* A step that publishes no decision and spends no approval keeps the      *)
(* invariant, if no thread comes to allow a risky action by it.            *)
LEMMA KeptIInv ==
  ASSUME IInv, TypeOK', ApprovalsOK', UNCHANGED <<spent, forgotten, allowed>>,
         \A i \in Ids : approval[i].status = "consumed" =>
           approval'[i].status = "consumed" /\ approval'[i].digest = approval[i].digest,
         \A th \in Threads :
           \/ thread'[th] = thread[th]
           \/ /\ Allowing(th)' => /\ thread'[th].by # "approval"
                                  /\ thread'[th].req.action \notin Risky
              /\ MayPass(th)' => /\ MayPass(th)
                                 /\ thread'[th].req.trace = thread[th].req.trace
  PROVE  IInv'
<1>1. Distinct(spent)'
  BY DEF IInv, Distinct
<1>2. \A req, by : Grounded(req, by) => Grounded(req, by)'
  BY DEF Grounded, Digest
<1>3. \A th \in Threads :
        Allowing(th)' => \/ thread'[th] = thread[th] /\ Allowing(th)
                         \/ thread'[th].by # "approval" /\ thread'[th].req.action \notin Risky
  BY DEF Allowing
<1>4. \A req, by : by # "approval" /\ req.action \notin Risky => Grounded(req, by)'
  BY DEF Grounded
<1>5. GroundsOK'
  BY <1>2, <1>3, <1>4 DEF IInv, GroundsOK
<1>6. TokensOK'
  BY <1>3 DEF IInv, TokensOK
<1>7. \A th \in Threads :
        MayPass(th)' => MayPass(th) /\ thread'[th].req.trace = thread[th].req.trace
  BY DEF MayPass, Allowing
<1>8. BudgetOK'
  BY <1>7, KeptBudget
<1>9. QED BY <1>1, <1>5, <1>6, <1>8 DEF IInv

(* The steps of a thread that only move it on. *)
LEMMA MovedType ==
  ASSUME TypeOK, NEW th \in Threads, NEW state \in {Idle} \cup Busy, Goto(th, state)
  PROVE  /\ thread' \in [Threads -> {Idle} \cup Busy]
         /\ thread'[th] = state
         /\ \A other \in Threads \ {th} : thread'[other] = thread[other]
BY DEF TypeOK, Goto

LEMMA MovedIInv ==
  ASSUME IInv, NEW th \in Threads, NEW state \in {Idle} \cup Busy, Goto(th, state),
         UNCHANGED <<approval, theBudget, allowed>>,
         sandboxUp' \in BOOLEAN, requests' \in Nat, runs' \in Seq(Outcome),
         Allowing(th)' => state.by # "approval" /\ state.req.action \notin Risky,
         MayPass(th)' => MayPass(th) /\ state.req.trace = thread[th].req.trace
  PROVE  IInv'
<1>1. /\ thread' \in [Threads -> {Idle} \cup Busy] /\ thread'[th] = state
      /\ \A other \in Threads \ {th} : thread'[other] = thread[other]
  BY MovedType DEF IInv
<1>2. TypeOK'
  BY <1>1 DEF IInv, TypeOK, theBudget
<1>3. ApprovalsOK' /\ UNCHANGED <<spent, forgotten, allowed, approval>>
  BY DEF IInv, ApprovalsOK, theBudget
<1>4. QED BY <1>1, <1>2, <1>3, KeptIInv

LEMMA DenyIInv ==
  ASSUME IInv, NEW th \in Threads, thread[th].pc # "idle", Deny(th, thread[th].req),
         UNCHANGED <<approval, theBudget, sandboxUp, requests, allowed, runs>>
  PROVE  IInv'
<1> DEFINE state == [pc |-> "decide", req |-> thread[th].req, verdict |-> "deny", by |-> "policy"]
<1>1. state \in {Idle} \cup Busy
  BY ThreadFacts, BusyFacts DEF IInv, Grounds
<1>2. Goto(th, state)
  BY DEF Deny
<1>3. thread'[th] = state
  BY <1>1, <1>2, MovedType DEF IInv
<1>4. ~Allowing(th)' /\ ~MayPass(th)'
  BY <1>3 DEF Allowing, MayPass
<1>5. sandboxUp' \in BOOLEAN /\ requests' \in Nat /\ runs' \in Seq(Outcome)
  BY DEF IInv, TypeOK
<1> HIDE DEF state
<1>6. QED BY <1>1, <1>2, <1>4, <1>5, MovedIInv

LEMMA ReceiveIInv ==
  ASSUME IInv, NEW th \in Threads, NEW req \in Request, Receive(th, req)
  PROVE  IInv'
<1> DEFINE state == [pc |-> "inspect", req |-> req]
<1>1. sandboxUp' \in BOOLEAN /\ requests' \in Nat /\ runs' \in Seq(Outcome)
      /\ UNCHANGED <<approval, theBudget, allowed>>
  BY DEF IInv, TypeOK, Receive
<1>2. CASE req.execute /\ ~sandboxUp
  <2>1. UNCHANGED thread
    BY <1>2 DEF Receive
  <2>2. TypeOK' /\ ApprovalsOK'
    BY <1>1, <2>1 DEF IInv, TypeOK, ApprovalsOK, theBudget
  <2>3. QED BY <1>1, <2>1, <2>2, KeptIInv DEF theBudget
<1>3. CASE ~(req.execute /\ ~sandboxUp)
  <2>1. Goto(th, state)
    BY <1>3 DEF Receive
  <2>2. state \in {Idle} \cup Busy
    BY DEF Busy
  <2>3. thread'[th] = state
    BY <2>1, <2>2, MovedType DEF IInv
  <2>4. ~Allowing(th)' /\ ~MayPass(th)'
    BY <2>3 DEF Allowing, MayPass
  <2> HIDE DEF state
  <2>5. QED BY <1>1, <2>1, <2>2, <2>4, MovedIInv
<1>4. QED BY <1>2, <1>3

LEMMA AskPolicyIInv ==
  ASSUME IInv, NEW th \in Threads, AskPolicy(th)
  PROVE  IInv'
<1> DEFINE req   == thread[th].req
           asked == [pc |-> "approval", req |-> req]
           told  == [pc |-> "decide", req |-> req, verdict |-> Verdict(req.action),
                     by |-> "policy"]
<1>1. req \in Request /\ MayPass(th) /\ thread[th].pc = "policy"
  BY ThreadFacts DEF IInv, AskPolicy, MayPass
<1>2. sandboxUp' \in BOOLEAN /\ requests' \in Nat /\ runs' \in Seq(Outcome)
      /\ UNCHANGED <<approval, theBudget, allowed>>
  BY DEF IInv, TypeOK, AskPolicy
<1>3. CASE Verdict(req.action) = "require_approval"
  <2>1. Goto(th, asked)
    BY <1>3 DEF AskPolicy
  <2>2. asked \in {Idle} \cup Busy
    BY <1>1, BusyFacts DEF Grounds
  <2>3. thread'[th] = asked
    BY <2>1, <2>2, MovedType DEF IInv
  <2>4. ~Allowing(th)' /\ asked.req.trace = thread[th].req.trace
    BY <2>3 DEF Allowing
  <2> HIDE DEF asked
  <2>5. QED BY <1>1, <1>2, <2>1, <2>2, <2>4, MovedIInv
<1>4. CASE Verdict(req.action) # "require_approval"
  <2>1. Goto(th, told)
    BY <1>4 DEF AskPolicy
  <2>2. told \in {Idle} \cup Busy
    BY <1>1, BusyFacts DEF Grounds, Verdict
  <2>3. thread'[th] = told
    BY <2>1, <2>2, MovedType DEF IInv
  <2>4. told.by # "approval" /\ told.req.trace = thread[th].req.trace
        /\ (Allowing(th)' => told.req.action \notin Risky)
    BY <1>4, <2>3 DEF Allowing, Verdict
  <2> HIDE DEF told
  <2>5. QED BY <1>1, <1>2, <2>1, <2>2, <2>4, MovedIInv
<1>5. QED BY <1>3, <1>4

LEMMA PolicyDownIInv ==
  ASSUME IInv, NEW th \in Threads, PolicyDown(th)
  PROVE  IInv'
<1> DEFINE req  == thread[th].req
           told == [pc |-> "decide", req |-> req, verdict |-> Verdict(req.action),
                    by |-> "restricted"]
<1>1. req \in Request /\ MayPass(th) /\ thread[th].pc = "policy"
  BY ThreadFacts DEF IInv, PolicyDown, MayPass
<1>2. CASE Restricted /\ req.action \notin Risky
  <2>1. Goto(th, told)
    BY <1>2 DEF PolicyDown
  <2>2. told \in {Idle} \cup Busy
    BY <1>1, <1>2, BusyFacts DEF Grounds, Verdict
  <2>3. sandboxUp' \in BOOLEAN /\ requests' \in Nat /\ runs' \in Seq(Outcome)
        /\ UNCHANGED <<approval, theBudget, allowed>>
    BY DEF IInv, TypeOK, PolicyDown
  <2>4. told.by # "approval" /\ told.req.trace = thread[th].req.trace
        /\ told.req.action \notin Risky
    BY <1>2
  <2> HIDE DEF told
  <2>5. QED BY <1>1, <2>1, <2>2, <2>3, <2>4, MovedIInv
<1>3. CASE ~(Restricted /\ req.action \notin Risky)
  BY <1>1, <1>3, DenyIInv DEF PolicyDown
<1>4. QED BY <1>2, <1>3

LEMMA RunIInv ==
  ASSUME IInv, NEW th \in Threads, Run(th)
  PROVE  IInv'
<1>1. Goto(th, Idle) /\ UNCHANGED <<approval, theBudget, allowed>>
  BY DEF Run
<1>2. thread[th].req \in Request /\ thread[th].by \in Grounds
  BY ThreadFacts DEF IInv, Run
<1>3. sandboxUp' \in BOOLEAN /\ requests' \in Nat /\ runs' \in Seq(Outcome)
  <2>1. sandboxUp' \in BOOLEAN /\ requests' \in Nat /\ runs \in Seq(Outcome)
    BY DEF IInv, TypeOK, Run
  <2>2. [req |-> thread[th].req, by |-> thread[th].by] \in Outcome
    BY <1>2 DEF Outcome
  <2>3. runs' \in {runs, Append(runs, [req |-> thread[th].req, by |-> thread[th].by])}
    BY DEF Run
  <2>4. QED BY <2>1, <2>2, <2>3, AppendProperties
<1>4. thread'[th] = Idle
  BY <1>1, MovedType DEF IInv
<1>5. ~Allowing(th)' /\ ~MayPass(th)'
  BY <1>4 DEF Allowing, MayPass, Idle
<1>6. QED BY <1>1, <1>3, <1>5, MovedIInv

LEMMA TurnedIInv ==
  ASSUME IInv, NEW th \in Threads, Turned(th)
  PROVE  IInv'
BY DenyIInv DEF Turned

LEMMA NotConsumedIInv ==
  ASSUME IInv, NEW th \in Threads, NotConsumed(th)
  PROVE  IInv'
BY DenyIInv DEF NotConsumed

(* The services around the gateway. *)
LEMMA SandboxFlipsIInv ==
  ASSUME IInv, SandboxFlips
  PROVE  IInv'
<1>1. UNCHANGED <<thread, approval, spent, forgotten, allowed>>
  BY DEF SandboxFlips, theBudget
<1>2. TypeOK' /\ ApprovalsOK'
  BY <1>1 DEF IInv, TypeOK, ApprovalsOK, SandboxFlips
<1>3. QED BY <1>1, <1>2, KeptIInv

LEMMA AdjudicateIInv ==
  ASSUME IInv, NEW i \in Ids, NEW u \in Users, NEW o \in {"approved", "rejected"},
         Adjudicate(i, u, o)
  PROVE  IInv'
<1>1. UNCHANGED <<thread, spent, forgotten, allowed, sandboxUp, requests, runs>>
  BY DEF Adjudicate, theBudget
<1>2. approval[i] \in Approval /\ approval[i].status = "pending"
  BY DEF IInv, TypeOK, Adjudicate, Unused
<1>3. /\ approval'[i] = [approval[i] EXCEPT !.status = o, !.reviewer = u]
      /\ \A j \in Ids : j # i => approval'[j] = approval[j]
      /\ DOMAIN approval' = Ids /\ approval' = [j \in Ids |-> approval'[j]]
  BY DEF IInv, TypeOK, Adjudicate
<1>4. /\ approval'[i] \in Approval /\ approval'[i].digest = approval[i].digest
      /\ approval'[i].requestedBy = approval[i].requestedBy
      /\ approval'[i].reviewer = u /\ u # approval[i].requestedBy
  BY <1>2, <1>3 DEF Approval, Adjudicate
<1>5. \A j \in Ids : approval[j] \in {Unused} \cup Approval
  BY DEF IInv, TypeOK
<1>6. \A j \in Ids : approval'[j] \in {Unused} \cup Approval
  BY <1>3, <1>4, <1>5
<1>7. TypeOK'
  BY <1>1, <1>3, <1>6 DEF IInv, TypeOK
<1>8. ApprovalsOK'
  <2>1. \A j \in Ids \ {i} : approval'[j] # Unused =>
          /\ approval'[j].digest[1] = approval'[j].requestedBy
          /\ approval'[j].status \in {"approved", "consumed"} =>
               approval'[j].reviewer \in Users \ {approval'[j].requestedBy}
    BY <1>3 DEF IInv, ApprovalsOK
  <2>2. approval[i].digest[1] = approval[i].requestedBy
    BY <1>2 DEF IInv, ApprovalsOK, Unused
  <2>3. QED BY <1>4, <2>1, <2>2 DEF ApprovalsOK
<1>9. QED BY <1>1, <1>2, <1>3, <1>7, <1>8, KeptIInv

LEMMA ExpireIInv ==
  ASSUME IInv, NEW i \in Ids, Expire(i)
  PROVE  IInv'
<1>1. UNCHANGED <<thread, spent, forgotten, allowed, sandboxUp, requests, runs>>
  BY DEF Expire, theBudget
<1>2. approval[i] \in Approval /\ approval[i].status \in {"pending", "approved"}
  BY DEF IInv, TypeOK, Expire, Unused
<1>3. /\ approval'[i] = [approval[i] EXCEPT !.status = "expired"]
      /\ \A j \in Ids : j # i => approval'[j] = approval[j]
      /\ DOMAIN approval' = Ids /\ approval' = [j \in Ids |-> approval'[j]]
  BY DEF IInv, TypeOK, Expire
<1>4. /\ approval'[i] \in Approval /\ approval'[i].digest = approval[i].digest
      /\ approval'[i].requestedBy = approval[i].requestedBy
      /\ approval'[i].status = "expired"
  BY <1>2, <1>3 DEF Approval
<1>5. \A j \in Ids : approval[j] \in {Unused} \cup Approval
  BY DEF IInv, TypeOK
<1>6. \A j \in Ids : approval'[j] \in {Unused} \cup Approval
  BY <1>3, <1>4, <1>5
<1>7. TypeOK'
  BY <1>1, <1>3, <1>6 DEF IInv, TypeOK
<1>8. ApprovalsOK'
  <2>1. \A j \in Ids \ {i} : approval'[j] # Unused =>
          /\ approval'[j].digest[1] = approval'[j].requestedBy
          /\ approval'[j].status \in {"approved", "consumed"} =>
               approval'[j].reviewer \in Users \ {approval'[j].requestedBy}
    BY <1>3 DEF IInv, ApprovalsOK
  <2>2. approval[i].digest[1] = approval[i].requestedBy
    BY <1>2 DEF IInv, ApprovalsOK, Unused
  <2>3. QED BY <1>4, <2>1, <2>2 DEF ApprovalsOK
<1>9. QED BY <1>1, <1>2, <1>3, <1>7, <1>8, KeptIInv

LEMMA PendingFacts ==
  ASSUME NEW req \in Request
  PROVE  Pending(req) \in Approval /\ Pending(req).digest = Digest(req)
         /\ Pending(req).requestedBy = req.user /\ Pending(req).status = "pending"
BY RequestFacts DEF Pending, Approval

LEMMA CreateApprovalIInv ==
  ASSUME IInv, NEW th \in Threads, NEW i \in Ids,
         NEW stored \in BOOLEAN, NEW answered \in BOOLEAN,
         CreateApproval(th, i, stored, answered)
  PROVE  IInv'
<1> DEFINE req    == thread[th].req
           denied == [pc |-> "decide", req |-> req, verdict |-> "deny", by |-> "policy"]
           asked  == [pc |-> "decide", req |-> req, verdict |-> "require_approval",
                      by |-> "policy"]
<1>1. req \in Request
  BY ThreadFacts DEF IInv, CreateApproval
<1>2. denied \in {Idle} \cup Busy /\ asked \in {Idle} \cup Busy
  BY <1>1, BusyFacts DEF Grounds
<1>3. Goto(th, denied) \/ Goto(th, asked)
  BY DEF CreateApproval, Deny
<1>4. /\ thread' \in [Threads -> {Idle} \cup Busy]
      /\ thread'[th] \in {denied, asked}
      /\ \A other \in Threads : other # th => thread'[other] = thread[other]
  BY <1>2, <1>3, MovedType DEF IInv
<1>5. ~Allowing(th)' /\ ~MayPass(th)'
  BY <1>4 DEF Allowing, MayPass
<1>6. approval \in [Ids -> {Unused} \cup Approval] /\ approval[i] = Unused
  BY DEF IInv, TypeOK, CreateApproval
<1>7. approval' = approval \/ approval' = [approval EXCEPT ![i] = Pending(req)]
  BY DEF CreateApproval
<1>8. approval' \in [Ids -> {Unused} \cup Approval]
  BY <1>1, <1>6, <1>7, PendingFacts
<1>9. /\ \A j \in Ids : j # i => approval'[j] = approval[j]
      /\ approval'[i] \in {Unused, Pending(req)}
  BY <1>6, <1>7
<1>10. UNCHANGED <<spent, forgotten, allowed, sandboxUp, requests, runs>>
  BY DEF CreateApproval, theBudget
<1>11. TypeOK'
  BY <1>4, <1>8, <1>10 DEF IInv, TypeOK
<1>12. ApprovalsOK'
  BY <1>1, <1>9, PendingFacts, RequestFacts DEF IInv, ApprovalsOK
<1>13. \A j \in Ids : approval[j].status = "consumed" => j # i
  BY <1>6 DEF Unused
<1> HIDE DEF denied, asked
<1>14. QED BY <1>4, <1>5, <1>9, <1>10, <1>11, <1>12, <1>13, KeptIInv

(* What consume does to the repository. *)
LEMMA Consumption ==
  ASSUME IInv, NEW th \in Threads, NEW answered \in BOOLEAN, ConsumeApproval(th, answered)
  PROVE  LET i == thread[th].req.token IN
         /\ thread[th].req \in Request /\ i \in Ids
         /\ approval[i] \in Approval /\ approval[i].status = "approved"
         /\ approval[i].digest = Digest(thread[th].req)
         /\ approval'[i].status = "consumed" /\ approval'[i].digest = approval[i].digest
         /\ approval'[i].requestedBy = approval[i].requestedBy
         /\ approval'[i].reviewer = approval[i].reviewer
         /\ \A j \in Ids : j # i => approval'[j] = approval[j]
         /\ approval' \in [Ids -> {Unused} \cup Approval]
         /\ ApprovalsOK'
<1> DEFINE req   == thread[th].req
           i     == req.token
           grant == [digest |-> Digest(req), tenant |-> Tenant]
<1>1. req \in Request
  BY ThreadFacts DEF IInv, ConsumeApproval
<1>2. i \in Ids
  BY <1>1, RequestFacts DEF ConsumeApproval
<1>3. approval[i].status = "approved" /\ approval[i].digest = Digest(req)
  BY DEF ConsumeApproval, Consumable
<1>4. approval[i] \in Approval
  BY <1>2, <1>3 DEF IInv, TypeOK, Unused
<1>5. grant \in [digest : Users \X Actions, tenant : {Tenant}]
  BY <1>1, RequestFacts
<1>6. PICK told \in {approval[i].grants, Append(approval[i].grants, grant)} :
        approval' = [approval EXCEPT ![i].status = "consumed", ![i].grants = told]
  BY <1>2 DEF ConsumeApproval, IInv, TypeOK
<1>7. told \in Seq([digest : Users \X Actions, tenant : {Tenant}])
  <2>1. approval[i].grants \in Seq([digest : Users \X Actions, tenant : {Tenant}])
    BY <1>4 DEF Approval
  <2> HIDE DEF grant
  <2>2. Append(approval[i].grants, grant) \in Seq([digest : Users \X Actions, tenant : {Tenant}])
    BY <1>5, <2>1, AppendProperties
  <2>3. QED BY <1>6, <2>1, <2>2
<1>8. /\ approval'[i] = [approval[i] EXCEPT !.status = "consumed", !.grants = told]
      /\ \A j \in Ids : j # i => approval'[j] = approval[j]
      /\ approval' = [j \in Ids |-> approval'[j]]
  BY <1>2, <1>6 DEF IInv, TypeOK
<1>9. /\ approval'[i] \in Approval /\ approval'[i].status = "consumed"
      /\ approval'[i].digest = approval[i].digest
      /\ approval'[i].requestedBy = approval[i].requestedBy
      /\ approval'[i].reviewer = approval[i].reviewer
  BY <1>4, <1>7, <1>8 DEF Approval
<1>10. \A j \in Ids : approval'[j] \in {Unused} \cup Approval
  BY <1>8, <1>9 DEF IInv, TypeOK
<1>11. approval' \in [Ids -> {Unused} \cup Approval]
  BY <1>8, <1>10
<1>12. ApprovalsOK'
  <2>1. \A j \in Ids \ {i} : approval'[j] # Unused =>
          /\ approval'[j].digest[1] = approval'[j].requestedBy
          /\ approval'[j].status \in {"approved", "consumed"} =>
               approval'[j].reviewer \in Users \ {approval'[j].requestedBy}
    BY <1>8 DEF IInv, ApprovalsOK
  <2>2. approval[i].digest[1] = approval[i].requestedBy
        /\ approval[i].reviewer \in Users \ {approval[i].requestedBy}
    <3>1. approval[i] # Unused
      <4>1. Unused.status # "approved"
        BY DEF Unused
      <4>2. QED BY <1>3, <4>1
    <3>2. QED BY <1>2, <1>3, <3>1 DEF IInv, ApprovalsOK
  <2>3. QED BY <1>9, <2>1, <2>2 DEF ApprovalsOK
<1>13. QED BY <1>1, <1>2, <1>3, <1>4, <1>8, <1>9, <1>11, <1>12

LEMMA ConsumeApprovalIInv ==
  ASSUME IInv, NEW th \in Threads, NEW answered \in BOOLEAN, ConsumeApproval(th, answered)
  PROVE  IInv'
<1> DEFINE req    == thread[th].req
           i      == req.token
           denied == [pc |-> "decide", req |-> req, verdict |-> "deny", by |-> "policy"]
           told   == [pc |-> "decide", req |-> req, verdict |-> "allow", by |-> "approval"]
<1>1. /\ req \in Request /\ i \in Ids
      /\ approval[i].status = "approved" /\ approval[i].digest = Digest(req)
      /\ approval'[i].status = "consumed" /\ approval'[i].digest = approval[i].digest
      /\ \A j \in Ids : j # i => approval'[j] = approval[j]
      /\ approval' \in [Ids -> {Unused} \cup Approval]
      /\ ApprovalsOK'
  BY Consumption
<1>2. denied \in {Idle} \cup Busy /\ told \in {Idle} \cup Busy
  BY <1>1, BusyFacts DEF Grounds
<1>3. Goto(th, IF answered THEN told ELSE denied)
  BY DEF ConsumeApproval, Deny
<1>4. /\ thread' \in [Threads -> {Idle} \cup Busy]
      /\ thread'[th] = IF answered THEN told ELSE denied
      /\ \A other \in Threads : other # th => thread'[other] = thread[other]
  BY <1>2, <1>3, MovedType DEF IInv
<1>5. UNCHANGED <<spent, forgotten, allowed, sandboxUp, requests, runs>>
  BY DEF ConsumeApproval, theBudget
<1>6. TypeOK' /\ Distinct(spent)'
  BY <1>1, <1>4, <1>5 DEF IInv, TypeOK, Distinct
<1>7. \A j \in Ids : approval[j].status = "consumed" =>
        j # i /\ approval'[j].status = "consumed" /\ approval'[j].digest = approval[j].digest
  BY <1>1
<1>8. CASE ~answered
  <2>1. ~Allowing(th)' /\ ~MayPass(th)'
    BY <1>4, <1>8 DEF Allowing, MayPass
  <2> HIDE DEF denied, told
  <2>2. \A u \in Threads : thread'[u] = thread[u] \/ (~Allowing(u)' /\ ~MayPass(u)')
    BY <1>4, <2>1
  <2>3. UNCHANGED <<spent, forgotten, allowed>> /\ ApprovalsOK'
    BY <1>1, <1>5
  <2>4. \A j \in Ids : approval[j].status = "consumed" =>
          approval'[j].status = "consumed" /\ approval'[j].digest = approval[j].digest
    BY <1>7
  <2>5. QED BY <1>6, <2>2, <2>3, <2>4, KeptIInv
<1>9. CASE answered
  <2>1. /\ thread'[th].req = req /\ thread'[th].by = "approval" /\ Allowing(th)'
        /\ MayPass(th)
    <3>1. thread'[th] = told /\ thread[th].pc = "approval"
      BY <1>4, <1>9 DEF ConsumeApproval
    <3>2. told.req = req /\ told.by = "approval" /\ told.pc = "decide" /\ told.verdict = "allow"
      OBVIOUS
    <3> HIDE DEF told
    <3>3. QED BY <3>1, <3>2 DEF Allowing, MayPass
  <2>2. \A q, by : Grounded(q, by) => Grounded(q, by)' /\ (by = "approval" => q.token # i)
    BY <1>7 DEF Grounded, Digest
  <2>3. \A q : q = req => Grounded(q, "approval")'
    BY <1>1 DEF Grounded, Digest
  <2>4. \A other \in Threads : other # th => (Allowing(other)' <=> Allowing(other))
    BY <1>4 DEF Allowing
  <2>5. GroundsOK'
    <3>1. (\A k \in 1..Len(allowed) : Grounded(allowed[k].req, allowed[k].by))'
      BY <1>5, <2>2 DEF IInv, GroundsOK
    <3>2. (\A other \in Threads : Allowing(other) => Grounded(thread[other].req, thread[other].by))'
      BY <1>4, <2>1, <2>2, <2>3, <2>4 DEF IInv, GroundsOK
    <3>3. QED BY <3>1, <3>2 DEF GroundsOK
  <2>6. TokensOK'
    <3>1. \A k \in 1..Len(allowed) : allowed[k].by = "approval" => allowed[k].req.token # i
      BY <2>2 DEF IInv, GroundsOK
    <3>2. \A other \in Threads :
            Allowing(other) /\ thread[other].by = "approval" => thread[other].req.token # i
      BY <2>2 DEF IInv, GroundsOK
    <3>3. QED BY <1>4, <1>5, <2>1, <2>4, <3>1, <3>2 DEF IInv, TokensOK
  <2>7. \A other \in Threads :
          MayPass(other)' => MayPass(other) /\ thread'[other].req.trace = thread[other].req.trace
    BY <1>4, <2>1 DEF MayPass, Allowing
  <2>8. BudgetOK'
    BY <1>5, <2>7, KeptBudget
  <2>9. QED BY <1>1, <1>6, <2>5, <2>6, <2>8 DEF IInv
<1>10. QED BY <1>8, <1>9

(* What counting an action does to the budget: nothing is let through that *)
(* the cap does not cover, and what is evicted is accounted for.           *)
LEMMA Counting ==
  ASSUME IInv, NEW th \in Threads, Count(th), NEW t \in Traces
  PROVE  /\ spent' \in Seq([key : Traces, count : 1..(MaxActions + 1)])
         /\ Distinct(spent)'
         /\ forgotten' \in [Traces -> Nat]
         /\ MaxActions * forgotten'[t] + LetThrough(t)'
              >= MaxActions * forgotten[t] + LetThrough(t)
                   + IF /\ t = thread[th].req.trace
                        /\ InBudget(Entry(spent, t, 0).count)
                     THEN 1 ELSE 0
<1> DEFINE key   == thread[th].req.trace
           count == Entry(spent, key, 0).count
           S     == [key : Traces, count : 1..(MaxActions + 1)]
           e     == [key |-> key, count |-> Spend(count)]
<1>1. key \in Traces /\ spent \in Seq(S) /\ Distinct(spent) /\ forgotten \in [Traces -> Nat]
  BY ThreadFacts, RequestFacts DEF IInv, TypeOK, Count
<1>2. /\ count \in 0..(MaxActions + 1)
      /\ Entry(spent, t, 0).count \in 0..(MaxActions + 1)
      /\ LetThrough(t) \in 0..MaxActions
      /\ t \notin Keys(spent) => Entry(spent, t, 0).count = 0
  BY <1>1, LetThroughFacts DEF IInv
<1>3. MaxActions \in Nat /\ MaxActions >= 1
  BY MaxActionsAssumption
<1>4. Spend(count) \in 1..(MaxActions + 1)
  BY <1>2, <1>3 DEF Spend
<1>5. e \in S /\ e.key = key /\ e.count = Spend(count)
  BY <1>1, <1>4
<1>6. spent' = Stored(spent, e)
  BY DEF Count
<1> HIDE DEF e, S
<1>7. /\ spent' \in Seq(S) /\ Distinct(spent') /\ e \in Elements(spent')
      /\ \A f \in Elements(spent') : f = e \/ (f \in Elements(spent) /\ f.key # key)
  BY <1>1, <1>5, <1>6, StoredFacts
<1>8. \A r \in Traces :
        forgotten'[r] = forgotten[r] + IF r \in Keys(spent) \ Keys(spent') THEN 1 ELSE 0
  BY DEF Count
<1>9. forgotten' \in [Traces -> Nat]
  BY <1>1 DEF Count
<1>10. CASE t = key
  <2>1. t \in Keys(spent') /\ Entry(spent', t, 0) = e
    BY <1>5, <1>7, <1>10, EntryFacts
  <2>2. forgotten'[t] = forgotten[t]
    BY <1>1, <1>8, <2>1
  <2>3. Entry(spent', t, 0).count = Spend(count)
    BY <1>5, <2>1
  <2>4. LetThrough(t)' = IF Spend(count) < MaxActions THEN Spend(count) ELSE MaxActions
    BY <2>3 DEF LetThrough
  <2>5. LetThrough(t)' \in Nat
        /\ LetThrough(t)' >= LetThrough(t) + (IF InBudget(count) THEN 1 ELSE 0)
    BY <1>2, <1>3, <1>10, <2>4 DEF LetThrough, InBudget, Spend
  <2>6. forgotten[t] \in Nat /\ MaxActions * forgotten[t] \in Nat
    BY <1>1, <1>3
  <2> HIDE DEF LetThrough, InBudget, count
  <2>7. QED BY <1>2, <1>7, <1>9, <1>10, <2>2, <2>5, <2>6 DEF S, count
<1>11. CASE t # key /\ t \in Keys(spent')
  <2>1. PICK f \in Elements(spent') : f.key = t
    BY <1>11 DEF Keys, Elements
  <2>2. f \in Elements(spent)
    BY <1>5, <1>7, <1>11, <2>1
  <2>3. Entry(spent', t, 0) = f
    BY <1>7, <2>1, EntryFacts
  <2>4. Entry(spent, t, 0) = f
    BY <1>1, <2>1, <2>2, EntryFacts
  <2>5. LetThrough(t)' = LetThrough(t)
    BY <2>3, <2>4 DEF LetThrough
  <2>6. forgotten'[t] = forgotten[t]
    BY <1>1, <1>8, <1>11
  <2>7. forgotten[t] \in Nat /\ MaxActions * forgotten[t] \in Nat
    BY <1>1, <1>3
  <2> HIDE DEF LetThrough
  <2>8. QED BY <1>2, <1>7, <1>9, <1>11, <2>5, <2>6, <2>7 DEF S
<1>12. CASE t # key /\ t \notin Keys(spent')
  <2>1. LetThrough(t)' = 0
    BY <1>3, <1>12 DEF LetThrough, Entry
  <2>2. forgotten[t] \in Nat /\ MaxActions * forgotten[t] \in Nat
    BY <1>1, <1>3
  <2>3. CASE t \in Keys(spent)
    <3>1. forgotten'[t] = forgotten[t] + 1
      BY <1>8, <1>12, <2>3
    <3>2. MaxActions * forgotten'[t] = MaxActions * forgotten[t] + MaxActions
      BY <1>3, <2>2, <3>1
    <3> HIDE DEF LetThrough
    <3>3. MaxActions * forgotten'[t] + LetThrough(t)' >= MaxActions * forgotten[t] + LetThrough(t)
      BY <1>2, <1>3, <2>1, <2>2, <3>2
    <3>4. spent' \in Seq([key : Traces, count : 1..(MaxActions + 1)]) /\ Distinct(spent')
      BY <1>7 DEF S
    <3>5. ~(t = key)
      BY <1>12
    <3>6. MaxActions * forgotten[t] + LetThrough(t) \in Int
      BY <1>2, <1>3, <2>2
    <3>7. QED BY <1>9, <3>3, <3>4, <3>5, <3>6
  <2>4. CASE t \notin Keys(spent)
    <3>1. forgotten'[t] = forgotten[t]
      BY <1>1, <1>8, <2>4
    <3>2. LetThrough(t) = 0
      BY <1>2, <1>3, <2>4 DEF LetThrough
    <3> HIDE DEF LetThrough
    <3>3. QED BY <1>2, <1>7, <1>9, <1>12, <2>1, <2>2, <3>1, <3>2 DEF S
  <2>5. QED BY <2>3, <2>4
<1>13. QED BY <1>10, <1>11, <1>12

LEMMA CountIInv ==
  ASSUME IInv, NEW th \in Threads, Count(th)
  PROVE  IInv'
<1> DEFINE req   == thread[th].req
           count == Entry(spent, req.trace, 0).count
           on    == [pc |-> "policy", req |-> req]
           off   == [pc |-> "decide", req |-> req, verdict |-> "deny", by |-> "policy"]
<1>1. req \in Request /\ req.trace \in Traces
  BY ThreadFacts, RequestFacts DEF IInv, Count
<1>2. on \in {Idle} \cup Busy /\ off \in {Idle} \cup Busy
  BY <1>1, BusyFacts DEF Grounds
<1>3. Goto(th, IF InBudget(count) THEN on ELSE off)
  BY DEF Count, Deny
<1>4. /\ thread' \in [Threads -> {Idle} \cup Busy]
      /\ thread'[th] = IF InBudget(count) THEN on ELSE off
      /\ \A other \in Threads : other # th => thread'[other] = thread[other]
  BY <1>2, <1>3, MovedType DEF IInv
<1>5. UNCHANGED <<approval, sandboxUp, requests, allowed, runs>>
  BY DEF Count
<1>6. spent' \in Seq([key : Traces, count : 1..(MaxActions + 1)])
      /\ Distinct(spent)' /\ forgotten' \in [Traces -> Nat]
  BY <1>1, Counting
<1>7. TypeOK' /\ ApprovalsOK'
  BY <1>4, <1>5, <1>6 DEF IInv, TypeOK, ApprovalsOK
<1>8. ~Allowing(th)' /\ \A other \in Threads :
        Allowing(other)' => Allowing(other) /\ thread'[other] = thread[other]
  BY <1>4 DEF Allowing
<1>9. \A q, by : Grounded(q, by) => Grounded(q, by)'
  BY <1>5 DEF Grounded, Digest
<1>10. GroundsOK' /\ TokensOK'
  <2>1. GroundsOK'
    BY <1>5, <1>8, <1>9 DEF IInv, GroundsOK
  <2>2. TokensOK'
    BY <1>5, <1>8 DEF IInv, TokensOK
  <2>3. QED BY <2>1, <2>2
<1>11. BudgetOK'
  <2> SUFFICES ASSUME NEW t \in Traces
               PROVE  /\ IsFiniteSet(Live(t)')
                      /\ Cardinality(Passed(t)') + Cardinality(Live(t)')
                           <= MaxActions * forgotten'[t] + LetThrough(t)'
    BY DEF BudgetOK
  <2> DEFINE counted == t = req.trace /\ InBudget(Entry(spent, t, 0).count)
             more    == IF counted THEN {th} ELSE {}
  <2>1. /\ IsFiniteSet(Live(t))
        /\ Cardinality(Passed(t)) + Cardinality(Live(t))
             <= MaxActions * forgotten[t] + LetThrough(t)
    BY DEF IInv, BudgetOK
  <2>2. Live(t)' \subseteq Live(t) \cup more
    <3> SUFFICES ASSUME NEW other \in Live(t)' PROVE other \in Live(t) \cup more
      OBVIOUS
    <3>1. other \in Threads /\ MayPass(other)' /\ thread'[other].req.trace = t
      BY DEF Live
    <3>2. CASE other = th
      BY <1>4, <3>1, <3>2 DEF MayPass, Allowing
    <3>3. CASE other # th
      BY <1>4, <3>1, <3>3 DEF Live, MayPass, Allowing
    <3>4. QED BY <3>2, <3>3
  <2>3. /\ IsFiniteSet(Live(t) \cup more)
        /\ Cardinality(Live(t) \cup more) <= Cardinality(Live(t)) + IF counted THEN 1 ELSE 0
        /\ Cardinality(Live(t) \cup more) \in Nat /\ Cardinality(Live(t)) \in Nat
    <3> HIDE DEF counted, Live
    <3>1. Cardinality(Live(t)) \in Nat
      BY <2>1, FS_CardinalityType
    <3>2. CASE counted
      <4>1. Live(t) \cup more = Live(t) \cup {th}
        BY <3>2
      <4>2. IsFiniteSet(Live(t) \cup {th})
            /\ Cardinality(Live(t) \cup {th}) \in {Cardinality(Live(t)), Cardinality(Live(t)) + 1}
        BY <2>1, FS_AddElement
      <4>3. QED BY <3>1, <3>2, <4>1, <4>2
    <3>3. CASE ~counted
      <4>1. Live(t) \cup more = Live(t)
        BY <3>3
      <4>2. QED BY <2>1, <3>1, <3>3, <4>1
    <3>4. QED BY <3>2, <3>3
  <2>4. /\ IsFiniteSet(Live(t)') /\ Cardinality(Live(t)') <= Cardinality(Live(t) \cup more)
        /\ Cardinality(Live(t)') \in Nat
    BY <2>2, <2>3, FS_Subset, FS_CardinalityType
  <2>5. Passed(t)' = Passed(t) /\ Cardinality(Passed(t)) \in Nat
    <3>1. Passed(t)' = Passed(t)
      BY <1>5 DEF Passed
    <3>2. QED BY <3>1, PassedFinite DEF IInv
  <2>6. MaxActions * forgotten'[t] + LetThrough(t)'
          >= MaxActions * forgotten[t] + LetThrough(t) + (IF counted THEN 1 ELSE 0)
    BY Counting
  <2>7. /\ MaxActions * forgotten[t] + LetThrough(t) \in Nat
        /\ MaxActions * forgotten'[t] + LetThrough(t)' \in Nat
    <3>1. LetThrough(t) \in Nat
      BY LetThroughFacts, MaxActionsAssumption DEF IInv
    <3>2. LetThrough(t)' \in Nat
      <4>1. Entry(spent', t, 0).count \in Nat
        <5>1. CASE t \in Keys(spent')
          <6>1. Entry(spent', t, 0) \in Elements(spent')
            BY <1>6, <5>1, PlaceFacts DEF Entry, Elements
          <6>2. Elements(spent') \subseteq [key : Traces, count : 1..(MaxActions + 1)]
            <7> SUFFICES ASSUME NEW k \in 1..Len(spent')
                         PROVE  spent'[k] \in [key : Traces, count : 1..(MaxActions + 1)]
              BY DEF Elements
            <7>1. QED BY <1>6, ElementOfSeq
          <6>3. QED BY <6>1, <6>2, MaxActionsAssumption
        <5>2. CASE t \notin Keys(spent')
          BY <5>2 DEF Entry
        <5>3. QED BY <5>1, <5>2
      <4>2. QED BY <4>1, MaxActionsAssumption DEF LetThrough
    <3>3. forgotten[t] \in Nat /\ forgotten'[t] \in Nat
      BY <1>6 DEF IInv, TypeOK
    <3> HIDE DEF LetThrough
    <3>4. QED BY <3>1, <3>2, <3>3, MaxActionsAssumption
  <2> HIDE DEF Live, Passed, LetThrough, counted, more
  <2>8. QED BY <2>1, <2>3, <2>4, <2>5, <2>6, <2>7
<1>12. QED BY <1>6, <1>7, <1>10, <1>11 DEF IInv

(* Publishing an ALLOW moves its thread from the live ones to the passed.  *)
LEMMA Publishing ==
  ASSUME IInv, NEW th \in Threads, Allowing(th), ~MayPass(th)',
         allowed' = Append(allowed, [req |-> thread[th].req, by |-> thread[th].by]),
         \A other \in Threads : other # th => thread'[other] = thread[other],
         UNCHANGED <<spent, forgotten>>
  PROVE  BudgetOK'
<1> SUFFICES ASSUME NEW t \in Traces
             PROVE  /\ IsFiniteSet(Live(t)')
                    /\ Cardinality(Passed(t)') + Cardinality(Live(t)')
                         <= MaxActions * forgotten'[t] + LetThrough(t)'
  BY DEF BudgetOK
<1> DEFINE n == Len(allowed)
<1>1. /\ n \in Nat /\ Len(allowed') = n + 1 /\ allowed'[n + 1].req = thread[th].req
      /\ \A k \in 1..n : allowed'[k] = allowed[k]
  BY DEF IInv, TypeOK
<1>2. /\ IsFiniteSet(Live(t))
      /\ Cardinality(Passed(t)) + Cardinality(Live(t))
           <= MaxActions * forgotten[t] + LetThrough(t)
  BY DEF IInv, BudgetOK
<1>3. Live(t)' = Live(t) \ {th}
  BY DEF Live, MayPass, Allowing
<1>4. LetThrough(t)' = LetThrough(t) /\ forgotten' = forgotten
  BY DEF LetThrough
<1>5. IsFiniteSet(Passed(t)) /\ Cardinality(Passed(t)) \in Nat
  BY PassedFinite DEF IInv
<1>6. Cardinality(Live(t)) \in Nat
  BY <1>2, FS_CardinalityType
<1>7. IsFiniteSet(Live(t)') /\ Cardinality(Live(t)') =
        IF th \in Live(t) THEN Cardinality(Live(t)) - 1 ELSE Cardinality(Live(t))
  BY <1>2, <1>3, FS_RemoveElement
<1>8. Passed(t)' = {k \in 1..(n + 1) : allowed'[k].req.trace = t}
  BY <1>1 DEF Passed
<1>9. CASE thread[th].req.trace = t
  <2>1. Passed(t)' = Passed(t) \cup {n + 1}
    BY <1>1, <1>8, <1>9 DEF Passed
  <2>2. n + 1 \notin Passed(t)
    BY <1>1 DEF Passed
  <2>3. Cardinality(Passed(t)') = Cardinality(Passed(t)) + 1
    BY <1>5, <2>1, <2>2, FS_AddElement
  <2>4. th \in Live(t)
    BY <1>9 DEF Live, MayPass
  <2>5. MaxActions * forgotten[t] + LetThrough(t) \in Nat
    <3>1. LetThrough(t) \in Nat
      BY LetThroughFacts, MaxActionsAssumption DEF IInv
    <3>2. forgotten[t] \in Nat
      BY DEF IInv, TypeOK
    <3> HIDE DEF LetThrough
    <3>3. MaxActions * forgotten[t] \in Nat
      BY <3>2, MaxActionsAssumption
    <3>4. QED BY <3>1, <3>3
  <2> HIDE DEF Live, Passed, LetThrough
  <2>6. QED BY <1>2, <1>4, <1>5, <1>6, <1>7, <2>3, <2>4, <2>5
<1>10. CASE thread[th].req.trace # t
  <2>1. Passed(t)' = Passed(t)
    BY <1>1, <1>8, <1>10 DEF Passed
  <2>2. th \notin Live(t)
    BY <1>10 DEF Live
  <2> HIDE DEF Live, Passed, LetThrough
  <2>3. QED BY <1>2, <1>4, <1>7, <2>1, <2>2
<1>11. QED BY <1>9, <1>10

LEMMA DecideIInv ==
  ASSUME IInv, NEW th \in Threads, Decide(th)
  PROVE  IInv'
<1> DEFINE now     == thread[th]
           state   == IF Runnable(now) THEN [pc |-> "run", req |-> now.req, by |-> now.by] ELSE Idle
           outcome == [req |-> now.req, by |-> now.by]
<1>1. now.pc = "decide" /\ now.req \in Request /\ now.by \in Grounds
  BY ThreadFacts DEF IInv, Decide
<1>2. state \in {Idle} \cup Busy /\ outcome \in Outcome
  BY <1>1, BusyFacts DEF Outcome
<1>3. Goto(th, state)
  BY DEF Decide
<1>4. /\ thread' \in [Threads -> {Idle} \cup Busy]
      /\ thread'[th] = state
      /\ \A other \in Threads : other # th => thread'[other] = thread[other]
  BY <1>2, <1>3, MovedType DEF IInv
<1>5. ~Allowing(th)' /\ ~MayPass(th)'
  BY <1>4 DEF Allowing, MayPass, Idle
<1>6. UNCHANGED <<approval, spent, forgotten, sandboxUp, requests, runs>>
  BY DEF Decide, theBudget
<1>7. CASE ~Allowing(th)
  <2>1. UNCHANGED allowed
    BY <1>1, <1>7 DEF Decide, Allowing
  <2>2. TypeOK' /\ ApprovalsOK'
    BY <1>4, <1>6, <2>1 DEF IInv, TypeOK, ApprovalsOK
  <2> HIDE DEF state, outcome
  <2>3. QED BY <1>4, <1>5, <1>6, <2>1, <2>2, KeptIInv
<1>8. CASE Allowing(th)
  <2> DEFINE n == Len(allowed)
  <2>1. allowed' = Append(allowed, outcome)
    BY <1>8 DEF Decide, Allowing
  <2>2. allowed \in Seq(Outcome)
    BY DEF IInv, TypeOK
  <2> HIDE DEF state
  <2>3. /\ allowed' \in Seq(Outcome) /\ n \in Nat /\ Len(allowed') = n + 1
        /\ allowed'[n + 1] = outcome /\ \A k \in 1..n : allowed'[k] = allowed[k]
    BY <1>2, <2>1, <2>2, AppendProperties
  <2>4. TypeOK' /\ ApprovalsOK' /\ Distinct(spent)'
    BY <1>4, <1>6, <2>3 DEF IInv, TypeOK, ApprovalsOK, Distinct
  <2>5. \A other \in Threads :
          Allowing(other)' => Allowing(other) /\ other # th /\ thread'[other] = thread[other]
    BY <1>4, <1>5 DEF Allowing
  <2>6. \A q, by : Grounded(q, by) => Grounded(q, by)'
    BY <1>6 DEF Grounded, Digest
  <2>7. Grounded(now.req, now.by)
    BY <1>8 DEF IInv, GroundsOK
  <2>8. outcome.req = now.req /\ outcome.by = now.by
    OBVIOUS
  <2> HIDE DEF outcome
  <2>9. GroundsOK'
    <3>1. \A k \in 1..(n + 1) : Grounded(allowed'[k].req, allowed'[k].by)
      BY <2>3, <2>7, <2>8 DEF IInv, GroundsOK
    <3>2. (\A k \in 1..Len(allowed) : Grounded(allowed[k].req, allowed[k].by))'
      BY <2>3, <2>6, <3>1
    <3>3. (\A other \in Threads : Allowing(other) => Grounded(thread[other].req, thread[other].by))'
      BY <2>5, <2>6 DEF IInv, GroundsOK
    <3>4. QED BY <3>2, <3>3 DEF GroundsOK
  <2>10. TokensOK'
    <3>1. \A j, k \in 1..(n + 1) :
            allowed'[j].by = "approval" /\ allowed'[k].by = "approval"
              /\ allowed'[j].req.token = allowed'[k].req.token => j = k
      <4>1. \A j, k \in 1..n :
              allowed'[j].by = "approval" /\ allowed'[k].by = "approval"
                /\ allowed'[j].req.token = allowed'[k].req.token => j = k
        BY <2>3 DEF IInv, TokensOK
      <4>2. \A k \in 1..n :
              now.by = "approval" /\ allowed'[k].by = "approval"
                => allowed'[k].req.token # now.req.token
        BY <1>8, <2>3 DEF IInv, TokensOK
      <4>3. \A k \in 1..(n + 1) : k \in 1..n \/ k = n + 1
        BY <2>3
      <4>4. QED BY <2>3, <2>8, <4>1, <4>2, <4>3
    <3>2. \A other \in Threads : Allowing(other)' /\ thread'[other].by = "approval" =>
            \A k \in 1..(n + 1) :
              allowed'[k].by = "approval" => allowed'[k].req.token # thread'[other].req.token
      <4> SUFFICES ASSUME NEW other \in Threads, Allowing(other)', thread'[other].by = "approval",
                          NEW k \in 1..(n + 1), allowed'[k].by = "approval"
                   PROVE  allowed'[k].req.token # thread'[other].req.token
        OBVIOUS
      <4>1. Allowing(other) /\ other # th /\ thread'[other] = thread[other]
        BY <2>5
      <4>2. CASE k \in 1..n
        BY <2>3, <4>1, <4>2 DEF IInv, TokensOK
      <4>3. CASE k = n + 1
        BY <1>8, <2>3, <2>8, <4>1, <4>3 DEF IInv, TokensOK
      <4>4. QED BY <2>3, <4>2, <4>3
    <3>3. \A one, other \in Threads :
            Allowing(one)' /\ thread'[one].by = "approval" /\ Allowing(other)'
              /\ thread'[other].by = "approval"
              /\ thread'[other].req.token = thread'[one].req.token => other = one
      BY <2>5 DEF IInv, TokensOK
    <3>4. QED BY <2>3, <3>1, <3>2, <3>3 DEF TokensOK
  <2>11. BudgetOK'
    BY <1>4, <1>5, <1>6, <1>8, <2>1, Publishing DEF outcome
  <2>12. QED BY <2>4, <2>9, <2>10, <2>11 DEF IInv
<1>9. QED BY <1>7, <1>8

-----------------------------------------------------------------------------
LEMMA NextIInv == IInv /\ [Next]_vars => IInv'
<1> SUFFICES ASSUME IInv, [Next]_vars PROVE IInv'
  OBVIOUS
<1>1. CASE SandboxFlips
  BY <1>1, SandboxFlipsIInv
<1>2. ASSUME NEW i \in Ids, Expire(i) PROVE IInv'
  BY <1>2, ExpireIInv
<1>3. ASSUME NEW i \in Ids, NEW u \in Users, NEW o \in {"approved", "rejected"},
             Adjudicate(i, u, o)
      PROVE  IInv'
  BY <1>3, AdjudicateIInv
<1>4. ASSUME NEW th \in Threads, NEW req \in Request, Receive(th, req) PROVE IInv'
  BY <1>4, ReceiveIInv
<1>5. ASSUME NEW th \in Threads,
             Turned(th) \/ Count(th) \/ AskPolicy(th) \/ PolicyDown(th)
               \/ NotConsumed(th) \/ Decide(th) \/ Run(th)
      PROVE  IInv'
  BY <1>5, TurnedIInv, CountIInv, AskPolicyIInv, PolicyDownIInv, NotConsumedIInv,
     DecideIInv, RunIInv
<1>6. ASSUME NEW th \in Threads, NEW i \in Ids, NEW stored \in BOOLEAN, NEW answered \in BOOLEAN,
             CreateApproval(th, i, stored, answered)
      PROVE  IInv'
  BY <1>6, CreateApprovalIInv
<1>7. ASSUME NEW th \in Threads, NEW answered \in BOOLEAN, ConsumeApproval(th, answered)
      PROVE  IInv'
  BY <1>7, ConsumeApprovalIInv
<1>8. CASE UNCHANGED vars
  <2>1. UNCHANGED <<thread, approval, spent, forgotten, allowed, sandboxUp, requests, runs>>
    BY <1>8 DEF vars
  <2>2. TypeOK' /\ ApprovalsOK'
    BY <2>1 DEF IInv, TypeOK, ApprovalsOK
  <2>3. QED BY <2>1, <2>2, KeptIInv
<1>9. QED BY <1>1, <1>2, <1>3, <1>4, <1>5, <1>6, <1>7, <1>8 DEF Next

LEMMA Invariance == Spec => []IInv
BY InitIInv, NextIInv, PTL DEF Spec

(* The state of every thread, approval, budget and decision is one the     *)
(* handlers of service.py can leave, at every step.                        *)
THEOREM TypeCorrect == Spec => []TypeOK
<1>1. IInv => TypeOK
  BY DEF IInv
<1>2. QED BY <1>1, Invariance, PTL

(* service.inspect_action allows an action with a side effect only on an   *)
(* approval of its own: asked for by the same identity for the same        *)
(* action, granted by another, and spent by no other decision, whatever    *)
(* the policy decision point, the store and the other threads do.          *)
THEOREM SideEffectsApproved == Spec => []RiskyNeedsOwnApproval
<1>1. IInv => RiskyNeedsOwnApproval
  <2> SUFFICES ASSUME IInv, NEW k \in 1..Len(allowed), allowed[k].req.action \in Risky
               PROVE  LET req == allowed[k].req IN
                      /\ allowed[k].by = "approval"
                      /\ approval[req.token].status = "consumed"
                      /\ approval[req.token].digest[2] = req.action
                      /\ approval[req.token].requestedBy = req.user
                      /\ approval[req.token].reviewer \in Users \ {req.user}
                      /\ \A j \in 1..(k - 1) :
                           allowed[j].by = "approval" => allowed[j].req.token # req.token
    BY DEF RiskyNeedsOwnApproval
  <2> DEFINE req == allowed[k].req
             i   == req.token
  <2>1. /\ allowed[k].by = "approval" /\ i \in Ids
        /\ approval[i].status = "consumed" /\ approval[i].digest = Digest(req)
    BY DEF IInv, GroundsOK, Grounded
  <2>2. req \in Request
    <3>1. allowed[k] \in Outcome
      BY ElementOfSeq DEF IInv, TypeOK
    <3>2. QED BY <3>1 DEF Outcome
  <2>3. approval[i].digest[2] = req.action /\ approval[i].digest[1] = req.user
    BY <2>1, <2>2, RequestFacts
  <2>4. /\ approval[i].digest[1] = approval[i].requestedBy
        /\ approval[i].reviewer \in Users \ {approval[i].requestedBy}
    BY <2>1 DEF IInv, ApprovalsOK, Unused
  <2>5. \A j \in 1..(k - 1) : allowed[j].by = "approval" => allowed[j].req.token # i
    <3>1. \A j \in 1..(k - 1) : j \in 1..Len(allowed) /\ j # k
      BY DEF IInv, TypeOK
    <3>2. QED BY <2>1, <3>1 DEF IInv, TokensOK
  <2>6. QED BY <2>1, <2>3, <2>4, <2>5
<1>2. QED BY <1>1, Invariance, PTL

(* limits.ActionBudget: a trace is allowed at most max_actions_per_trace   *)
(* actions, and as many again each time its count was evicted, however     *)
(* many threads propose actions for it at once.                            *)
THEOREM BudgetBoundsTraces == Spec => []BudgetHolds
<1>1. IInv => BudgetHolds
  <2> SUFFICES ASSUME IInv, NEW t \in Traces
               PROVE  Cardinality(Passed(t)) <= MaxActions * (forgotten[t] + 1)
    BY DEF BudgetHolds, Passed
  <2>1. /\ IsFiniteSet(Live(t))
        /\ Cardinality(Passed(t)) + Cardinality(Live(t))
             <= MaxActions * forgotten[t] + LetThrough(t)
    BY DEF IInv, BudgetOK
  <2>2. Cardinality(Passed(t)) \in Nat /\ Cardinality(Live(t)) \in Nat
    BY <2>1, PassedFinite, FS_CardinalityType DEF IInv
  <2>3. LetThrough(t) \in 0..MaxActions /\ MaxActions \in Nat
    BY LetThroughFacts, MaxActionsAssumption DEF IInv
  <2>4. forgotten[t] \in Nat
    BY DEF IInv, TypeOK
  <2> HIDE DEF Live, Passed, LetThrough
  <2>5. MaxActions * (forgotten[t] + 1) = MaxActions * forgotten[t] + MaxActions
        /\ MaxActions * forgotten[t] \in Nat
    BY <2>3, <2>4
  <2>6. QED BY <2>1, <2>2, <2>3, <2>5
<1>2. QED BY <1>1, Invariance, PTL

-----------------------------------------------------------------------------
(* Refinement: each step moves each approval as ApprovalLifecycle allows.  *)

LEMMA StepEvolves ==
  ASSUME IInv, [Next]_vars
  PROVE  [Lifecycle!Next]_approval
<1> USE DEF Lifecycle!Evolves
<1>1. TypeOK /\ TypeOK'
  BY NextIInv DEF IInv
<1>2. DOMAIN approval' = Ids
  BY <1>1 DEF TypeOK
<1>3. ASSUME NEW i \in Ids, Expire(i) PROVE Lifecycle!Next
  <2>1. /\ approval[i].status \in {"pending", "approved"}
        /\ approval'[i] = [approval[i] EXCEPT !.status = "expired"]
        /\ \A j \in Ids : j # i => approval'[j] = approval[j]
    BY <1>1, <1>3 DEF Expire, TypeOK
  <2>2. Lifecycle!IsGivenUp(approval[i], approval'[i])
    BY <2>1 DEF Lifecycle!IsGivenUp, Lifecycle!Open
  <2>3. QED BY <1>2, <2>1, <2>2 DEF Lifecycle!Next
<1>4. ASSUME NEW i \in Ids, NEW u \in Users, NEW o \in {"approved", "rejected"},
             Adjudicate(i, u, o)
      PROVE  Lifecycle!Next
  <2>1. /\ approval[i].status = "pending" /\ u \in Users \ {approval[i].requestedBy}
        /\ approval'[i] = [approval[i] EXCEPT !.status = o, !.reviewer = u]
        /\ \A j \in Ids : j # i => approval'[j] = approval[j]
    BY <1>1, <1>4 DEF Adjudicate, TypeOK
  <2>2. Lifecycle!IsAdjudicated(approval[i], approval'[i])
    BY <2>1 DEF Lifecycle!IsAdjudicated
  <2>3. QED BY <1>2, <2>1, <2>2 DEF Lifecycle!Next
<1>5. ASSUME NEW th \in Threads, NEW i \in Ids, NEW stored \in BOOLEAN, NEW answered \in BOOLEAN,
             CreateApproval(th, i, stored, answered)
      PROVE  [Lifecycle!Next]_approval
  <2>1. CASE stored
    <3>1. /\ approval[i] = Unused /\ approval'[i] = Pending(thread[th].req)
          /\ \A j \in Ids : j # i => approval'[j] = approval[j]
      BY <1>1, <1>5, <2>1 DEF CreateApproval, TypeOK
    <3>2. thread[th].req \in Request
      BY <1>1, <1>5, ThreadFacts DEF CreateApproval
    <3>3. Lifecycle!IsRequested(approval[i], approval'[i])
      BY <3>1, <3>2, RequestFacts
         DEF Lifecycle!IsRequested, Lifecycle!Unused, Lifecycle!Requested, Unused, Pending
    <3>4. QED BY <1>2, <3>1, <3>3 DEF Lifecycle!Next
  <2>2. CASE ~stored
    BY <1>5, <2>2 DEF CreateApproval
  <2>3. QED BY <2>1, <2>2
<1>6. ASSUME NEW th \in Threads, NEW answered \in BOOLEAN, ConsumeApproval(th, answered)
      PROVE  Lifecycle!Next
  <2> DEFINE req   == thread[th].req
             i     == req.token
             a     == approval[i]
             told  == IF answered THEN <<[digest |-> a.digest, tenant |-> a.tenant]>> ELSE << >>
  <2>1. /\ i \in Ids /\ a \in Approval /\ a.status = "approved" /\ a.digest = Digest(req)
        /\ \A j \in Ids : j # i => approval'[j] = approval[j]
    BY <1>6, Consumption
  <2>2. a.tenant = Tenant /\ a.grants \in Seq([digest : Users \X Actions, tenant : {Tenant}])
    BY <2>1 DEF Approval
  <2>3. approval'[i] =
          [a EXCEPT !.status = "consumed",
                    !.grants = IF answered THEN Append(@, [digest |-> a.digest, tenant |-> a.tenant])
                               ELSE @]
    BY <1>1, <1>6, <2>1, <2>2 DEF ConsumeApproval, TypeOK
  <2>4. (IF answered THEN Append(a.grants, [digest |-> a.digest, tenant |-> a.tenant])
         ELSE a.grants) = a.grants \o told
    <3> DEFINE grant == [digest |-> a.digest, tenant |-> a.tenant]
    <3>1. grant \in [digest : Users \X Actions, tenant : {Tenant}]
      BY <2>1 DEF Approval
    <3> HIDE DEF grant, a
    <3>2. Append(a.grants, grant) = a.grants \o <<grant>> /\ a.grants \o << >> = a.grants
      BY <2>2, <3>1, AppendIsConcat, ConcatEmptySeq
    <3>3. QED BY <3>2 DEF grant
  <2>5. approval'[i] = [a EXCEPT !.status = "consumed", !.grants = @ \o told]
    BY <2>3, <2>4
  <2>6. Lifecycle!IsSpent(approval[i], approval'[i])
    BY <2>1, <2>5 DEF Lifecycle!IsSpent
  <2>7. QED BY <1>2, <2>1, <2>6 DEF Lifecycle!Next
<1>7. CASE SandboxFlips
  BY <1>7 DEF SandboxFlips
<1>8. ASSUME NEW th \in Threads, NEW req \in Request, Receive(th, req)
      PROVE  UNCHANGED approval
  BY <1>8 DEF Receive
<1>9. ASSUME NEW th \in Threads,
             Turned(th) \/ Count(th) \/ AskPolicy(th) \/ PolicyDown(th)
               \/ NotConsumed(th) \/ Decide(th) \/ Run(th)
      PROVE  UNCHANGED approval
  BY <1>9 DEF Turned, Count, AskPolicy, PolicyDown, NotConsumed, Decide, Run
<1>10. CASE UNCHANGED vars
  BY <1>10 DEF vars
<1>11. QED BY <1>3, <1>4, <1>5, <1>6, <1>7, <1>8, <1>9, <1>10 DEF Next

(* Whatever the handlers of service.py do, and whatever calls of the       *)
(* repository fail, an approval lives by ApprovalLifecycle: requested for  *)
(* one action, adjudicated at most once and by somebody else, spent once.  *)
THEOREM ImplementsLifecycle == Spec => KeepsLifecycle
<1>1. Init => Lifecycle!Init
  BY DEF Init, Lifecycle!Init, Unused, Lifecycle!Unused
<1>2. IInv /\ [Next]_vars => [Lifecycle!Next]_approval
  BY StepEvolves
<1>3. QED BY <1>1, <1>2, Invariance, PTL DEF Spec, KeepsLifecycle, Lifecycle!Spec
=============================================================================
