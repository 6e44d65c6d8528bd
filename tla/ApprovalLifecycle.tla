------------------------- MODULE ApprovalLifecycle -------------------------
(***************************************************************************)
(* What the gateway promises about approvals, whichever repository keeps   *)
(* them (approvals.ApprovalRepository).  Each approval has a life of its   *)
(* own: it is requested for one exact action, adjudicated at most once and *)
(* never by the identity that asked for it, and it authorizes that action  *)
(* at most once.  It may be given up (expired) as long as it is open.      *)
(*                                                                         *)
(* ApprovalStore (one process) and SqlApprovalStore (a database shared by  *)
(* replicas, with lost replies) are shown to implement this specification. *)
(***************************************************************************)
EXTENDS Sequences, Naturals

CONSTANTS Ids,        \* identifiers the repository may hand out (UUIDs)
          Digests,    \* digests of actions (policy.action_digest)
          Tenants,
          Users,
          NoOne       \* reviewer of an approval nobody adjudicated

VARIABLE approval     \* approval[i]: the life of identifier i so far

(* models.ApprovalStatus, and the state of an identifier not yet used. *)
Open     == {"pending", "approved"}
Settled  == {"rejected", "expired", "consumed"}
Statuses == Open \cup Settled

(* What the action of an authorization was, as the caller presented it. *)
Grant == [digest : Digests, tenant : Tenants]

Unused == [status |-> "unused"]

(* A request recorded after its time has passed starts out expired. *)
Requested ==
  [status : {"pending", "expired"}, digest : Digests, tenant : Tenants,
   requestedBy : Users, reviewer : {NoOne}, grants : {<< >>}]

(* The steps one approval may take.  `a` is its life before, `b` after. *)
IsRequested(a, b) == a = Unused /\ b \in Requested

IsAdjudicated(a, b) ==
  /\ a.status = "pending"
  /\ \E who \in Users \ {a.requestedBy}, outcome \in {"approved", "rejected"} :
       b = [a EXCEPT !.status = outcome, !.reviewer = who]

IsGivenUp(a, b) == a.status \in Open /\ b = [a EXCEPT !.status = "expired"]

(* The authorization may be lost on its way to the caller: an approval can *)
(* be spent without anyone being allowed, but never the other way round.   *)
IsSpent(a, b) ==
  /\ a.status = "approved"
  /\ \E told \in {<< >>, <<[digest |-> a.digest, tenant |-> a.tenant]>>} :
       b = [a EXCEPT !.status = "consumed", !.grants = @ \o told]

Evolves(a, b) ==
  \/ b = a
  \/ IsRequested(a, b)
  \/ IsAdjudicated(a, b)
  \/ IsGivenUp(a, b)
  \/ IsSpent(a, b)

Init == approval = [i \in Ids |-> Unused]

(* Approvals are independent: a step may move any number of them. *)
Next ==
  /\ DOMAIN approval' = Ids
  /\ \A i \in Ids : Evolves(approval[i], approval'[i])

Spec == Init /\ [][Next]_approval
=============================================================================
