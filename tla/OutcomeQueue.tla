---------------------------- MODULE OutcomeQueue ----------------------------
(***************************************************************************)
(* The approved outcome queue of one user: a table with one row for every  *)
(* outcome, worked by supervisors (Hermes bridges, each with a durable     *)
(* store of its own) and steered by the operator.  Every request is one    *)
(* database transaction, so an action below is one committed transaction;  *)
(* one that is refused or rolled back changes no row and is a stutter.     *)
(*                                                                         *)
(* A supervisor's capability to act on a row is what it saved of the       *)
(* answer to its last acquisition: acquisition key, version and fence.     *)
(* The execution binding and the lease token are drawn with the key and    *)
(* never change without it, so the key stands for the three.  Lease        *)
(* deadlines are abstracted to whether the lease still runs; renewing one  *)
(* only puts off LeaseExpires, and is no step.                             *)
(***************************************************************************)
EXTENDS Integers

CONSTANTS
  Outcomes,     \* outcome keys, queued or still to be queued
  Supervisors,  \* the supervisors that acquire outcomes
  Campaign,     \* the outcomes of the protected V1.2 campaign
  MaxChanges,   \* bound of the versions of any two rows together
  MaxKeys       \* bound of the acquisition keys drawn

\* blocked reasons a supervisor's settlement may leave; each has its own resume.
Walls == {"OWNER_DECISION", "VALIDATION_EXHAUSTED", "REVIEW_EXHAUSTED"}

\* A pause for a reason of the operator's own is not recognised as a pause later.
Pauses == {"OPERATOR_PAUSED", "OPERATOR_REASON"}

ValidationRecoveries == {"VALIDATION_RECOVERED", "VALIDATION_RECLAIMED"}
Recoveries ==
  ValidationRecoveries \cup {"DECISION_RESUMED", "REVIEW_RECOVERED", "REVIEW_RECLAIMED"}

Reasons ==
  Walls \cup Pauses \cup Recoveries
    \cup {"none", "PROVIDER_UNAVAILABLE", "STALE_LEASE_RECOVERED",
          "STALE_LEASE_AUTHORIZATION_INELIGIBLE",
          "OPERATOR_DECLINED", "OPERATOR_SUPERSEDED"}

Terminals == {"completed", "declined", "superseded"}
Waiting == {"suggested", "approved", "blocked"}
States == {"absent", "active"} \cup Waiting \cup Terminals

\* Whether a decision (a grant) is recorded on the row, and still in force: it
\* was withdrawn (lapsed), or its time is over although nobody revoked it.
Standings == {"none", "live", "lapsed", "expired"}

Row == [state: States, reason: Reasons, version: Nat, fence: Nat, key: Nat,
        leased: BOOLEAN,  \* the lease still runs
        approval: Standings, authority: Standings, deps: SUBSET Outcomes]

Ticket == [key: Nat, version: Nat, fence: Nat]

NoTicket == [key |-> 0, version |-> 0, fence |-> 0]

ASSUME BoundsAssumption == MaxChanges \in Nat /\ MaxKeys \in Nat
ASSUME CampaignAssumption == Campaign \subseteq Outcomes

VARIABLES
  queue,  \* [Outcomes -> Row], the table
  saved,  \* [Supervisors -> [Outcomes -> Ticket]], the bindings they saved
  keys    \* acquisition keys drawn so far; random identifiers in the code

vars == <<queue, saved, keys>>

AbsentRow ==
  [state |-> "absent", reason |-> "none", version |-> 0, fence |-> 0,
   key |-> 0, leased |-> FALSE, approval |-> "none", authority |-> "none",
   deps |-> {}]

Init ==
  /\ queue = [o \in Outcomes |-> AbsentRow]
  /\ saved = [s \in Supervisors |-> [o \in Outcomes |-> NoTicket]]
  /\ keys = 0

-----------------------------------------------------------------------------
(* The predicates of the SQL statements, over a table q.                   *)

Active(q, o) == q[o].state = "active"

Live(q, o) == Active(q, o) /\ q[o].leased

\* A provider wait: the holder gave the work up until its lease ends.
Parked(q, o) == Live(q, o) /\ q[o].reason = "PROVIDER_UNAVAILABLE"

InFlight(q, o) == Live(q, o) /\ q[o].reason # "PROVIDER_UNAVAILABLE"

\* A grant whose time is over is taken for one in force.
FaultyAuthorized(q, o) ==
  q[o].approval = "live" /\ q[o].authority \in {"live", "expired"}

Authorized(q, o) == q[o].approval = "live" /\ q[o].authority = "live"

DependenciesCompleted(q, o) == \A d \in q[o].deps : q[d].state = "completed"

\* Only leases as they were first acquired are looked for.
FaultyOtherLive(q, o) ==
  \E p \in Outcomes \ {o} : Live(q, p) /\ q[p].reason = "none"

OtherLive(q, o) == \E p \in Outcomes \ {o} : Live(q, p)

\* ELIGIBILITY_PREDICATE: a provider wait does not occupy the slot.
Eligible(q, o) ==
  /\ Authorized(q, o)
  /\ \/ /\ q[o].state = "approved"
        /\ \A p \in Outcomes : Active(q, p) => Parked(q, p)
     \/ Active(q, o) /\ ~q[o].leased
  /\ DependenciesCompleted(q, o)
  /\ \A p \in Outcomes : ~InFlight(q, p)

\* Active rows whose lease ended and whose authorization is gone; those of the
\* campaign are left to the renewal of their authority.
StaleIneligible(q) ==
  {o \in Outcomes \ Campaign :
     Active(q, o) /\ ~q[o].leased /\ ~Authorized(q, o)}

\* Grants that are still in force are renewed along with those that ran out.
FaultyExpired(q, o) == o \in Campaign /\ q[o].approval # "none"

\* A campaign row whose grant ran out, under a decision that was recorded.
Expired(q, o) ==
  o \in Campaign /\ q[o].authority = "expired" /\ q[o].approval # "none"

\* Its decision still is the accepted one, and a row that waits to be acquired
\* kept nothing of an earlier holding.
ExactlyRenewable(q, o) ==
  q[o].approval = "live" /\ (q[o].state = "approved" => q[o].key = 0)

\* What an acquisition that found nothing tries to renew.
RenewalCandidates(q) ==
  {o \in Outcomes :
     /\ Expired(q, o)
     /\ \/ q[o].state \in {"approved", "active"}
        \/ q[o].state = "blocked" /\ q[o].reason = "OPERATOR_PAUSED"}

\* No cycle: every set of outcomes has one that depends on none of them.
Acyclic(d) ==
  \A S \in SUBSET Outcomes : S # {} => \E o \in S : d[o] \cap S = {}

Deps(q) == [o \in Outcomes |-> q[o].deps]

-----------------------------------------------------------------------------
(* What a statement writes into a row.                                     *)

\* A lease granted on the fence of the holding before it.
FaultyGrant(r, key, reason) ==
  [r EXCEPT !.state = "active", !.reason = reason, !.key = key,
            !.leased = TRUE, !.version = @ + 1,
            !.fence = IF r.fence = 0 THEN 1 ELSE @]

\* SET lifecycleState = 'active' with a fresh lease and a fence one higher.
Grant(r, key, reason) ==
  [r EXCEPT !.state = "active", !.reason = reason, !.key = key,
            !.leased = TRUE, !.fence = @ + 1, !.version = @ + 1]

\* A stale lease taken over without a fence of its own.
FaultyAcquired(r, key) ==
  IF r.state = "active"
    THEN [r EXCEPT !.reason = "STALE_LEASE_RECOVERED", !.key = key,
                   !.leased = TRUE, !.version = @ + 1]
    ELSE Grant(r, key, "none")

Acquired(r, key) ==
  Grant(r, key, IF r.state = "active" THEN "STALE_LEASE_RECOVERED" ELSE "none")

\* The capability is withdrawn: key, binding and lease go, the fence moves on.
Withdraw(r, reason) ==
  [r EXCEPT !.state = "blocked", !.reason = reason, !.key = 0,
            !.leased = FALSE, !.version = @ + 1,
            !.fence = IF r.state = "active" THEN @ + 1 ELSE @]

\* A supervisor's settlement: the lease goes, key and fence stay for a resume.
Settle(r, state, reason) ==
  [r EXCEPT !.state = state, !.reason = reason, !.leased = FALSE,
            !.version = @ + 1]

Rewrite(r, state, reason) ==
  [r EXCEPT !.state = state, !.reason = reason, !.version = @ + 1]

Depend(r, D) == [r EXCEPT !.deps = D, !.version = @ + 1]

\* A decision and a grant for it.
Approve(r) ==
  [Rewrite(r, "approved", "none") EXCEPT !.approval = "live", !.authority = "live"]

\* Another grant: bound by the operator, or in the campaign by a renewal.
Match(r) == [r EXCEPT !.authority = "live", !.version = @ + 1]

TicketOf(r) == [key |-> r.key, version |-> r.version, fence |-> r.fence]

\* The answer reaches the supervisor and is saved, or it dies before that.
SaveOrLose(s, o) ==
  \/ saved' = [saved EXCEPT ![s][o] = TicketOf(queue'[o])]
  \/ UNCHANGED saved

-----------------------------------------------------------------------------
(* Supervisors.                                                            *)

\* The stale ineligible slot is blocked in the acquiring transaction; two of
\* them fail it (the cardinality wall).
ReleaseSlot(q) ==
  [o \in Outcomes |->
     IF o \in StaleIneligible(q)
       THEN Withdraw(q[o], "STALE_LEASE_AUTHORIZATION_INELIGIBLE") ELSE q[o]]

\* Nothing is left to select: the expired campaign authorities are renewed.
RenewIfIdle(q) ==
  [o \in Outcomes |->
     IF o \in RenewalCandidates(q) /\ \A p \in Outcomes : ~Eligible(q, p)
       THEN Match(q[o]) ELSE q[o]]

\* One candidate that is not exactly as the campaign left it fails them all.
RenewalWall(q) ==
  /\ \A o \in Outcomes : ~Eligible(q, o)
  /\ \E o \in RenewalCandidates(q) : ~ExactlyRenewable(q, o)

\* Nothing selected although something waits: the proof of who holds the
\* slot fails the transaction unless exactly one lease runs.
ContentionWall(q) ==
  /\ \E o \in Outcomes : /\ q[o].state \in Waiting \cup {"active"}
                         /\ Authorized(q, o) /\ DependenciesCompleted(q, o)
  /\ \E o \in Outcomes : Live(q, o) /\ OtherLive(q, o)

\* acquireNextEligibleOutcome with a key drawn for this request.  Which of the
\* eligible rows it takes is left open: the queue's order is the operator's to
\* change, and SKIP LOCKED passes over a row another statement is updating.
AcquireNext(s) ==
  LET released == ReleaseSlot(queue)
      offered == RenewIfIdle(released) IN
  /\ \A o, p \in StaleIneligible(queue) : o = p
  /\ ~RenewalWall(released)
  /\ \/ \E o \in Outcomes :
          /\ Eligible(offered, o)
          /\ queue' = [offered EXCEPT ![o] = Acquired(@, keys + 1)]
          /\ keys' = keys + 1
          /\ SaveOrLose(s, o)
     \/ /\ \A o \in Outcomes : ~Eligible(offered, o)
        /\ ~ContentionWall(offered)
        /\ queue' = offered
        /\ UNCHANGED <<saved, keys>>

\* The authority of a row renewed first for the request that needs it; wall is
\* the blocked reason that request resumes from.
Renewed(o, wall) ==
  IF /\ Expired(queue, o) /\ ExactlyRenewable(queue, o)
     /\ Active(queue, o) \/ (queue[o].state = "blocked" /\ queue[o].reason = wall)
    THEN [queue EXCEPT ![o] = Match(@)] ELSE queue

\* Same key, lease still running: the same holding is answered again.
ReplayAcquisition(s, o) ==
  /\ saved[s][o].key # 0 /\ saved[s][o].key = queue[o].key
  /\ Live(queue, o) /\ Authorized(Renewed(o, "none"), o)
  /\ queue' = Renewed(o, "none")
  /\ SaveOrLose(s, o)
  /\ UNCHANGED keys

\* Same key, lease ended: reclaimAcquisition grants it anew, or finds that the
\* slot is taken and leaves nothing but a renewed authority.
ReclaimAcquisition(s, o) ==
  LET q == Renewed(o, "none") IN
  /\ saved[s][o].key # 0 /\ saved[s][o].key = queue[o].key
  /\ Active(queue, o) /\ ~queue[o].leased /\ Authorized(q, o)
  /\ \/ /\ DependenciesCompleted(queue, o) /\ ~OtherLive(queue, o)
        /\ queue' = [q EXCEPT ![o] = Grant(@, @.key, "STALE_LEASE_RECOVERED")]
        /\ SaveOrLose(s, o)
     \/ /\ ~DependenciesCompleted(queue, o) \/ OtherLive(queue, o)
        /\ queue' = q /\ UNCHANGED saved
  /\ UNCHANGED keys

\* The fence every statement of a holder carries in its WHERE.
Holds(s, o) == Live(queue, o) /\ saved[s][o] = TicketOf(queue[o])

DeferLease(s, o) ==
  /\ Holds(s, o) /\ Authorized(queue, o)
  /\ queue' = [queue EXCEPT ![o].reason = "PROVIDER_UNAVAILABLE"]
  /\ UNCHANGED <<saved, keys>>

\* transitionOutcomeQueueItem from active: the only legal target is blocked.
Terminalize(s, o) ==
  /\ Holds(s, o)
  /\ \E wall \in Walls : queue' = [queue EXCEPT ![o] = Settle(@, "blocked", wall)]
  /\ UNCHANGED <<saved, keys>>

Complete(s, o) ==
  /\ Holds(s, o) /\ Authorized(queue, o)
  /\ queue' = [queue EXCEPT ![o] = Settle(@, "completed", "none")]
  /\ UNCHANGED <<saved, keys>>

\* What the three resumes share: the saved binding is one version behind the
\* settled row, and the grant it gets is the row's next one.
ResumeFrom(s, o, wall, reason) ==
  LET t == saved[s][o]
      q == Renewed(o, wall) IN
  /\ queue[o].state = "blocked" /\ queue[o].reason = wall
  /\ t.key # 0 /\ t.key = queue[o].key /\ t.fence = queue[o].fence
  /\ queue[o].version = t.version + 1
  /\ Authorized(q, o) /\ DependenciesCompleted(queue, o)
  /\ queue' = [q EXCEPT ![o] = Grant(@, @.key, reason)]
  /\ SaveOrLose(s, o)
  /\ UNCHANGED keys

ResumeAfterDecision(s, o) ==
  ~OtherLive(queue, o) /\ ResumeFrom(s, o, "OWNER_DECISION", "DECISION_RESUMED")

ResumeAfterValidationRecovery(s, o) ==
  /\ ~OtherLive(queue, o)
  /\ ResumeFrom(s, o, "VALIDATION_EXHAUSTED", "VALIDATION_RECOVERED")

\* A review recovery waits until no other row is active at all.
ResumeAfterReviewRecovery(s, o) ==
  /\ \A p \in Outcomes \ {o} : ~Active(queue, p)
  /\ ResumeFrom(s, o, "REVIEW_EXHAUSTED", "REVIEW_RECOVERED")

\* The versions a row moved on since its settlement beyond its grants.
Renewals(t, r) == (r.version - t.version - 1) - (r.fence - t.fence)

\* The row was granted again from the settlement of the holding the ticket is
\* for: nothing but grants, and in the campaign renewals, moved it since.
GrantedAfter(t, o) ==
  /\ t.key # 0 /\ t.key = queue[o].key /\ queue[o].fence > t.fence
  /\ Renewals(t, queue[o]) = 0 \/ (o \in Campaign /\ Renewals(t, queue[o]) > 0)

\* reclaimExpiredValidationRecovery, tried when there is nothing to resume any
\* more: alone among the grants it asks neither for the slot nor for dependencies.
ReclaimValidationRecovery(s, o) ==
  LET q == Renewed(o, "none") IN
  /\ Active(queue, o) /\ ~queue[o].leased
  /\ queue[o].reason \in ValidationRecoveries
  /\ GrantedAfter(saved[s][o], o)
  /\ Authorized(q, o)
  /\ queue' = [q EXCEPT ![o] = Grant(@, @.key, "VALIDATION_RECLAIMED")]
  /\ SaveOrLose(s, o)
  /\ UNCHANGED keys

\* reclaimExpiredReviewRecovery: once, with the slot to itself; asked with the
\* binding the resume was asked with, or with the one it answered.
ReclaimReviewRecovery(s, o) ==
  LET t == saved[s][o] IN
  /\ Active(queue, o) /\ ~queue[o].leased /\ queue[o].reason = "REVIEW_RECOVERED"
  /\ \/ GrantedAfter(t, o) /\ Renewals(t, queue[o]) = 0
     \/ t = TicketOf(queue[o])
  /\ Authorized(queue, o) /\ DependenciesCompleted(queue, o)
  /\ \A p \in Outcomes \ {o} : ~Active(queue, p)
  /\ queue' = [queue EXCEPT ![o] = Grant(@, @.key, "REVIEW_RECLAIMED")]
  /\ SaveOrLose(s, o)
  /\ UNCHANGED keys

\* The same resume asked again after its answer was lost, or, of a review, after
\* the answer to its reclaim was; recoveries renew an expired authority first.
ReplayResume(s, o) ==
  LET t == saved[s][o]
      r == queue[o] IN
  /\ Live(queue, o) /\ r.reason \in Recoveries
  /\ \/ /\ GrantedAfter(t, o)
        /\ r.reason = "DECISION_RESUMED" => r.fence = t.fence + 1 /\ Renewals(t, r) < 2
        /\ r.reason = "REVIEW_RECLAIMED" => Renewals(t, r) = 0
     \/ /\ r.reason = "REVIEW_RECLAIMED" /\ t.key # 0 /\ t.key = r.key
        /\ r.version = t.version + 1 /\ r.fence = t.fence + 1
  /\ \/ UNCHANGED queue
     \/ /\ \/ r.reason \in ValidationRecoveries
           \/ r.reason = "REVIEW_RECOVERED" /\ Renewals(t, r) = 0
        /\ queue' = Renewed(o, "none")
  /\ Authorized(queue', o)
  /\ SaveOrLose(s, o)
  /\ UNCHANGED keys

-----------------------------------------------------------------------------
(* The operator and the intake.                                            *)

\* persistOutcomeQueueItem: a new row, or one nobody has governed yet.
Enqueue(o, D) ==
  /\ \/ queue[o].state = "absent"
     \/ /\ queue[o].state = "suggested"
        /\ queue[o].approval = "none" /\ queue[o].authority = "none"
  /\ \A d \in D : queue[d].state # "superseded"
  /\ D # {} => Acyclic([Deps(queue) EXCEPT ![o] = D])
  /\ queue' = [queue EXCEPT ![o] =
       IF queue[o].state = "absent"
         THEN [AbsentRow EXCEPT !.state = "suggested", !.deps = D]
         ELSE Depend(queue[o], D)]
  /\ UNCHANGED <<saved, keys>>

\* approveOutcomeQueueItem: a decision alone.
ApproveDecision(o) ==
  /\ queue[o].state \in {"suggested", "blocked"}
  /\ queue' = [queue EXCEPT ![o] =
       [Rewrite(@, "approved", "none") EXCEPT !.approval = "live"]]
  /\ UNCHANGED <<saved, keys>>

MatchAuthority(o) ==
  /\ queue[o].state \in Waiting
  /\ queue' = [queue EXCEPT ![o] = Match(@)]
  /\ UNCHANGED <<saved, keys>>

\* recordVerifiedPrimaryAuthorization: the owner's one consent to the whole
\* campaign, all of it still as it was suggested.
RecordPrimaryAuthorization ==
  /\ Campaign # {}
  /\ \A o \in Campaign :
       queue[o].state = "suggested" /\ queue[o].approval = "none"
                                   /\ queue[o].authority = "none"
  /\ queue' = [o \in Outcomes |->
       IF o \in Campaign THEN Approve(queue[o]) ELSE queue[o]]
  /\ UNCHANGED <<saved, keys>>

\* The operator's approve (of a suggested row) and resume (of a blocked one); a
\* blocked campaign row must be one the operator paused.
GovernedApproval(o) ==
  /\ queue[o].state \in {"suggested", "blocked"}
  /\ o \in Campaign /\ queue[o].state = "blocked" =>
       queue[o].reason = "OPERATOR_PAUSED" /\ queue[o].key = 0
  /\ queue' = [queue EXCEPT ![o] = Approve(@)]
  /\ UNCHANGED <<saved, keys>>

Pause(o) ==
  /\ queue[o].state \in {"approved", "active"}
  /\ \E why \in Pauses : queue' = [queue EXCEPT ![o] = Withdraw(@, why)]
  /\ UNCHANGED <<saved, keys>>

\* Of the campaign only what never ran and has no grant in force.
Decline(o) ==
  /\ queue[o].state \in Waiting
  /\ o \in Campaign => queue[o].fence = 0 /\ queue[o].authority # "live"
  /\ queue' = [queue EXCEPT ![o] = Rewrite(@, "declined", "OPERATOR_DECLINED")]
  /\ UNCHANGED <<saved, keys>>

\* Only rows that were never approved are moved.
FaultyRebind(r, old, new) ==
  IF r.state = "suggested" /\ old \in r.deps
    THEN [r EXCEPT !.deps = (@ \ {old}) \cup {new}, !.version = @ + 1] ELSE r

\* History is moved with the rows that still wait.
RebindHistory(r, old, new) ==
  IF old \in r.deps
    THEN [r EXCEPT !.deps = (@ \ {old}) \cup {new}, !.version = @ + 1] ELSE r

\* Rows that still wait are moved to the successor of what they waited for.
Rebind(r, old, new) ==
  IF r.state \in Waiting /\ old \in r.deps
    THEN [r EXCEPT !.deps = (@ \ {old}) \cup {new}, !.version = @ + 1] ELSE r

\* The successor's key is a digest of this very request: nobody named it yet.
Supersede(o, new) ==
  /\ queue[o].state \in Waiting /\ {o, new} \cap Campaign = {}
  /\ queue[new].state = "absent"
  /\ \A p \in Outcomes : new \notin queue[p].deps
  /\ LET replaced == [queue EXCEPT
           ![o] = Rewrite(@, "superseded", "OPERATOR_SUPERSEDED"),
           ![new] = [AbsentRow EXCEPT !.state = "suggested",
                                      !.deps = queue[o].deps]]
     IN queue' = [p \in Outcomes |-> Rebind(replaced[p], o, new)]
  /\ UNCHANGED <<saved, keys>>

\* reorderMutation: of the rows that wait, those outside the campaign whose place
\* in the queue changes (moved) are rewritten; the places are not kept.
Reorder(o) ==
  /\ queue[o].state \in Waiting /\ o \notin Campaign
  /\ \E moved \in SUBSET {p \in Outcomes \ Campaign : queue[p].state \in Waiting} :
       queue' = [p \in Outcomes |->
         IF p \in moved THEN [queue[p] EXCEPT !.version = @ + 1] ELSE queue[p]]
  /\ UNCHANGED <<saved, keys>>

\* The dependencies of an outcome at work may be changed too.
FaultyChangeDependencies(o, D) ==
  /\ queue[o].state \in Waiting \cup {"active"} /\ o \notin Campaign
  /\ o \notin D
  /\ \A d \in D : queue[d].state \notin {"absent", "declined", "superseded"}
  /\ Acyclic([Deps(queue) EXCEPT ![o] = D])
  /\ queue' = [queue EXCEPT ![o] = Depend(@, D)]
  /\ UNCHANGED <<saved, keys>>

\* dependenciesMutation.
ChangeDependencies(o, D) ==
  /\ queue[o].state \in Waiting /\ o \notin Campaign
  /\ o \notin D
  /\ \A d \in D : queue[d].state \notin {"absent", "declined", "superseded"}
  /\ Acyclic([Deps(queue) EXCEPT ![o] = D])
  /\ queue' = [queue EXCEPT ![o] = Depend(@, D)]
  /\ UNCHANGED <<saved, keys>>

-----------------------------------------------------------------------------
(* Time and the registers the predicates read.                             *)

LeaseExpires(o) ==
  /\ Live(queue, o)
  /\ queue' = [queue EXCEPT ![o].leased = FALSE]
  /\ UNCHANGED <<saved, keys>>

\* The decision is withdrawn.
ApprovalLapses(o) ==
  /\ queue[o].approval = "live"
  /\ queue' = [queue EXCEPT ![o].approval = "lapsed"]
  /\ UNCHANGED <<saved, keys>>

\* The grant runs out, which only the campaign can repair, or is revoked.
AuthorityLapses(o) ==
  /\ queue[o].authority = "live"
  /\ \E how \in {"lapsed"} \cup (IF o \in Campaign THEN {"expired"} ELSE {}) :
       queue' = [queue EXCEPT ![o].authority = how]
  /\ UNCHANGED <<saved, keys>>

Supervise(s) ==
  \/ AcquireNext(s)
  \/ \E o \in Outcomes :
       \/ ReplayAcquisition(s, o) \/ ReclaimAcquisition(s, o)
       \/ DeferLease(s, o) \/ Terminalize(s, o) \/ Complete(s, o)
       \/ ResumeAfterDecision(s, o) \/ ResumeAfterValidationRecovery(s, o)
       \/ ResumeAfterReviewRecovery(s, o) \/ ReplayResume(s, o)
       \/ ReclaimValidationRecovery(s, o) \/ ReclaimReviewRecovery(s, o)

Operate(o) ==
  \/ ApproveDecision(o) \/ MatchAuthority(o) \/ GovernedApproval(o)
  \/ Pause(o) \/ Decline(o) \/ Reorder(o)
  \/ \E new \in Outcomes \ {o} : Supersede(o, new)
  \/ \E D \in SUBSET Outcomes : Enqueue(o, D) \/ ChangeDependencies(o, D)

Lapse(o) == LeaseExpires(o) \/ ApprovalLapses(o) \/ AuthorityLapses(o)

\* The bounds of the two counters; nothing in the code stops there.
WithinBounds ==
  /\ keys =< MaxKeys
  /\ \A o, p \in Outcomes :
       o # p => queue[o].version + queue[p].version =< MaxChanges

Next ==
  /\ \/ \E s \in Supervisors : Supervise(s)
     \/ RecordPrimaryAuthorization
     \/ \E o \in Outcomes : Operate(o) \/ Lapse(o)
  /\ WithinBounds'

Spec == Init /\ [][Next]_vars

-----------------------------------------------------------------------------
(* What the queue promises.                                                *)

TypeOK ==
  /\ queue \in [Outcomes -> Row]
  /\ saved \in [Supervisors -> [Outcomes -> Ticket]]
  /\ keys \in Nat

\* The comment of ELIGIBILITY_PREDICATE: at most one outcome is ever really in
\* flight; of the rows whose lease runs, all but one are provider waits.
OneInFlight ==
  \A o, p \in Outcomes : InFlight(queue, o) /\ InFlight(queue, p) => o = p

\* What the code keeps of it: a second outcome is in flight only if one of the two
\* was reclaimed after a validation recovery.  Every other way into the slot
\* (acquire, reclaim, three resumes, the review's reclaim) has a check of its own,
\* and they differ.
OneInFlightUnlessReclaimed ==
  \A o, p \in Outcomes :
    InFlight(queue, o) /\ InFlight(queue, p) /\ o # p =>
      "VALIDATION_RECLAIMED" \in {queue[o].reason, queue[p].reason}

\* Work that runs or is done had all its dependencies completed, whatever the
\* operator did to the graph before, between or after.
DependenciesFirst ==
  \A o \in Outcomes :
    queue[o].state \in {"active", "completed"} => DependenciesCompleted(queue, o)

\* The operator's edits never tie outcomes into a cycle nobody could start, and
\* nothing that still waits depends on an outcome that was superseded.
GraphIsLive ==
  /\ Acyclic(Deps(queue))
  /\ \A o \in Outcomes : queue[o].state \in Waiting =>
       \A d \in queue[o].deps : queue[d].state # "superseded"

\* A fence names one holding: two saved bindings with the same fence, wherever
\* they are saved, carry the same acquisition key, and none is ahead of its row.
FencesNameOneHolding ==
  \A s, t \in Supervisors, o \in Outcomes :
    /\ saved[s][o].fence =< queue[o].fence
    /\ saved[s][o].fence = saved[t][o].fence => saved[s][o].key = saved[t][o].key

\* A lease that starts, or starts again after it ended, carries a fence no
\* earlier holder of that outcome ever had.
LeasesStartWithNewFence ==
  [][\A o \in Outcomes :
       Live(queue', o) /\ (~Live(queue, o) \/ queue'[o].key # queue[o].key)
         => queue'[o].fence > queue[o].fence]_vars

\* Whichever of the seven ways a lease starts, the decision and the authority of
\* the outcome are in force when it does.
LeasesStartAuthorized ==
  [][\A o \in Outcomes :
       queue'[o].fence > queue[o].fence /\ Live(queue', o)
         => queue'[o].approval = "live" /\ queue'[o].authority = "live"]_vars

\* The comment of reorderMutation: "Active work owns its version until it pauses or
\* terminalizes".  It does not in the campaign: a holder's authority that ran out is
\* renewed under it, by its own replay or by another supervisor's idle poll, and the
\* version it saved is refused from then on.  That is the only thing that moves the
\* version under a running lease; key, fence, lease and reason stay, and the row is
\* authorized again, so that the holder is answered when it asks for its key again.
ActiveWorkOwnsItsVersion ==
  [][\A o \in Outcomes :
       Live(queue, o) /\ Live(queue', o) /\ queue'[o].version # queue[o].version
         => /\ o \in Campaign /\ queue[o].authority = "expired"
            /\ queue'[o] = Match(queue[o]) /\ Authorized(queue', o)]_vars

\* Completed, declined and superseded are final.
TerminalsAreFinal ==
  [][\A o \in Outcomes : queue[o].state \in Terminals =>
       queue'[o].state = queue[o].state /\ queue'[o].deps = queue[o].deps]_vars

\* Whatever a request can have read and decided on, its change moves the version:
\* a request made on the older one is refused instead of overwriting it.
ChangesMoveVersion ==
  [][\A o \in Outcomes :
       queue[o].state # "absent"
       /\ (\/ queue'[o].state # queue[o].state \/ queue'[o].deps # queue[o].deps
           \/ queue'[o].key # queue[o].key \/ queue'[o].fence # queue[o].fence)
         => queue'[o].version > queue[o].version]_vars

=============================================================================
