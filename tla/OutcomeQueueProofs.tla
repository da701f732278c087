------------------------- MODULE OutcomeQueueProofs -------------------------
(***************************************************************************)
(* Theorems about OutcomeQueue for any number of outcomes and supervisors  *)
(* and whatever the bounds are.                                            *)
(***************************************************************************)
EXTENDS OutcomeQueue, TLAPS

-----------------------------------------------------------------------------
(* What a statement writes is a row.                                       *)

LEMMA WrittenStates ==
  ASSUME NEW r \in Row, NEW reason, NEW state
  PROVE  /\ Rewrite(r, state, reason).state = state
         /\ [Rewrite(r, state, reason) EXCEPT !.approval = "live"].state = state
         /\ Approve(r).state = "approved"
         /\ Withdraw(r, reason).state = "blocked"
  BY DEF Rewrite, Withdraw, Approve, Row

\* Rows are put together two fields at a time.
LEMMA FieldUpdates ==
  ASSUME NEW r \in Row
  PROVE  /\ \A s \in States, w \in Reasons :
              [r EXCEPT !.state = s, !.reason = w] \in Row
         /\ \A k \in Nat, l \in BOOLEAN :
              [r EXCEPT !.key = k, !.leased = l] \in Row
         /\ \A f \in Nat, v \in Nat :
              [r EXCEPT !.fence = f, !.version = v] \in Row
         /\ \A a \in Standings : /\ [r EXCEPT !.approval = a] \in Row
                                  /\ [r EXCEPT !.authority = a] \in Row
         /\ \A a \in Standings, b \in Standings :
              [r EXCEPT !.approval = a, !.authority = b] \in Row
         /\ \A a \in Standings, v \in Nat :
              [r EXCEPT !.authority = a, !.version = v] \in Row
         /\ [r EXCEPT !.leased = FALSE] \in Row
         /\ \A w \in Reasons : [r EXCEPT !.reason = w] \in Row
         /\ \A D \in SUBSET Outcomes, v \in Nat :
              [r EXCEPT !.deps = D, !.version = v] \in Row
         /\ r.fence \in Nat /\ r.fence + 1 \in Nat
         /\ r.version + 1 \in Nat /\ r.key \in Nat
<1>1. \A s \in States, w \in Reasons :
        [r EXCEPT !.state = s, !.reason = w] \in Row
  BY DEF Row
<1>2. \A k \in Nat, l \in BOOLEAN : [r EXCEPT !.key = k, !.leased = l] \in Row
  BY DEF Row
<1>3. \A f \in Nat, v \in Nat : [r EXCEPT !.fence = f, !.version = v] \in Row
  BY DEF Row
<1>4. \A a \in Standings, b \in Standings :
        /\ [r EXCEPT !.approval = a] \in Row
        /\ [r EXCEPT !.authority = a] \in Row
        /\ [r EXCEPT !.approval = a, !.authority = b] \in Row
  BY DEF Row
<1>7. \A a \in Standings, v \in Nat :
        [r EXCEPT !.authority = a, !.version = v] \in Row
  BY DEF Row
<1>8. \A w \in Reasons : [r EXCEPT !.reason = w] \in Row
  BY DEF Row
<1>9. [r EXCEPT !.leased = FALSE] \in Row
  BY DEF Row
<1>5. \A D \in SUBSET Outcomes, v \in Nat :
        [r EXCEPT !.deps = D, !.version = v] \in Row
  BY DEF Row
<1>6. /\ r.fence \in Nat /\ r.fence + 1 \in Nat
      /\ r.version + 1 \in Nat /\ r.key \in Nat
  BY DEF Row
<1> QED
  BY <1>1, <1>2, <1>3, <1>4, <1>5, <1>6, <1>7, <1>8, <1>9

LEMMA WritesAreRows ==
  ASSUME NEW r \in Row, NEW state \in States, NEW reason \in Reasons,
         NEW k \in Nat, NEW l \in BOOLEAN, NEW f \in Nat, NEW v \in Nat
  PROVE  /\ [r EXCEPT !.state = state, !.reason = reason, !.version = v] \in Row
         /\ [r EXCEPT !.state = state, !.reason = reason, !.leased = l,
                      !.version = v] \in Row
         /\ [r EXCEPT !.state = state, !.reason = reason, !.key = k,
                      !.leased = l, !.version = v, !.fence = f] \in Row
         /\ [r EXCEPT !.state = state, !.reason = reason, !.key = k,
                      !.leased = l, !.fence = f, !.version = v] \in Row
<1> DEFINE a == [r EXCEPT !.state = state, !.reason = reason]
           b == [a EXCEPT !.key = k, !.leased = l]
           c == [a EXCEPT !.key = r.key, !.leased = l]
<1>1. /\ a \in Row /\ a.fence = r.fence /\ a.key = r.key
  BY FieldUpdates DEF Row
<1>2. b \in Row /\ c \in Row /\ c.fence = r.fence
  BY <1>1, FieldUpdates DEF Row
<1>3. /\ [a EXCEPT !.fence = r.fence, !.version = v] \in Row
      /\ [b EXCEPT !.fence = f, !.version = v] \in Row
      /\ [c EXCEPT !.fence = r.fence, !.version = v] \in Row
  BY <1>1, <1>2, FieldUpdates
<1>4. [r EXCEPT !.state = state, !.reason = reason, !.version = v]
        = [a EXCEPT !.fence = r.fence, !.version = v]
  BY DEF Row
<1>5. [r EXCEPT !.state = state, !.reason = reason, !.leased = l, !.version = v]
        = [c EXCEPT !.fence = r.fence, !.version = v]
  BY DEF Row
<1>6. [r EXCEPT !.state = state, !.reason = reason, !.key = k, !.leased = l,
                !.version = v, !.fence = f]
        = [b EXCEPT !.fence = f, !.version = v]
  BY DEF Row
<1>7. [r EXCEPT !.state = state, !.reason = reason, !.key = k, !.leased = l,
                !.fence = f, !.version = v]
        = [b EXCEPT !.fence = f, !.version = v]
  BY DEF Row
<1> QED
  BY <1>3, <1>4, <1>5, <1>6, <1>7

LEMMA RowsAreRows ==
  ASSUME NEW r \in Row, NEW key \in Nat, NEW reason \in Reasons
  PROVE  /\ Grant(r, key, reason) \in Row
         /\ Acquired(r, key) \in Row
         /\ Withdraw(r, reason) \in Row
         /\ \A state \in States : Settle(r, state, reason) \in Row
         /\ \A state \in States : Rewrite(r, state, reason) \in Row
         /\ TicketOf(r) \in Ticket
<1>1. \A why \in Reasons : Grant(r, key, why) \in Row
  <2> TAKE why \in Reasons
  <2>1. "active" \in States
    BY DEF States
  <2> QED
    BY <2>1, FieldUpdates, WritesAreRows DEF Grant
<1>2. Acquired(r, key) \in Row
  BY <1>1 DEF Acquired, Reasons
<1>3. Withdraw(r, reason) \in Row
  <2>1. "blocked" \in States
    BY DEF States, Waiting
  <2> QED
    BY <2>1, FieldUpdates, WritesAreRows DEF Withdraw
<1>4. \A state \in States : Settle(r, state, reason) \in Row
  BY FieldUpdates, WritesAreRows DEF Settle
<1>5. \A state \in States : Rewrite(r, state, reason) \in Row
  BY FieldUpdates, WritesAreRows DEF Rewrite
<1>6. TicketOf(r) \in Ticket
  BY DEF Ticket, TicketOf, Row
<1> QED
  BY <1>1, <1>2, <1>3, <1>4, <1>5, <1>6

LEMMA ReboundIsRow ==
  ASSUME NEW r \in Row, NEW old \in Outcomes, NEW new \in Outcomes
  PROVE  Rebind(r, old, new) \in Row
<1>1. (r.deps \ {old}) \cup {new} \in SUBSET Outcomes
  BY DEF Row
<1> QED
  BY <1>1, FieldUpdates DEF Rebind

\* A renewed grant changes nothing else that the predicates read.
LEMMA MatchedRow ==
  ASSUME NEW r \in Row, NEW n \in {r, Match(r)}
  PROVE  /\ n \in Row
         /\ n.state = r.state /\ n.reason = r.reason /\ n.leased = r.leased
         /\ n.key = r.key /\ n.fence = r.fence /\ n.deps = r.deps
         /\ n.approval = r.approval /\ n.version >= r.version
<1>1. CASE n = r
  BY <1>1 DEF Row
<1>2. CASE n = Match(r)
  <2>1. n \in Row
    BY <1>2, FieldUpdates DEF Match, Standings
  <2>2. n = [r EXCEPT !.authority = "live", !.version = r.version + 1]
    BY <1>2 DEF Match
  <2> QED
    BY <2>1, <2>2 DEF Row
<1> QED
  BY <1>1, <1>2

LEMMA ApprovedRow ==
  ASSUME NEW r \in Row
  PROVE  /\ Approve(r) \in Row
         /\ [Rewrite(r, "approved", "none") EXCEPT !.approval = "live"] \in Row
<1> DEFINE a == Rewrite(r, "approved", "none")
<1>1. a \in Row /\ "live" \in Standings
  BY RowsAreRows DEF Reasons, States, Waiting, Standings
<1> HIDE DEF a
<1>2. /\ [a EXCEPT !.approval = "live"] \in Row
      /\ [a EXCEPT !.approval = "live", !.authority = "live"] \in Row
  BY <1>1, FieldUpdates
<1> QED
  BY <1>2 DEF Approve, a

\* A grant of the campaign that ran out, replaced under a decision in force.
RenewedUnder(o, n) ==
  /\ o \in Campaign /\ queue[o].authority = "expired" /\ queue[o].approval = "live"
  /\ n = Match(queue[o])

\* Renewing a row's authority on request concerns that row alone.
LEMMA RenewedRows ==
  ASSUME queue \in [Outcomes -> Row], NEW o \in Outcomes, NEW wall
  PROVE  \E n \in {queue[o], Match(queue[o])} :
           /\ Renewed(o, wall) = [queue EXCEPT ![o] = n]
           /\ Renewed(o, wall)[o] = n
           /\ n = queue[o] \/ o \in Campaign
           /\ n = queue[o] \/ RenewedUnder(o, n)
<1>1. CASE Renewed(o, wall) = queue
  BY <1>1
<1>2. CASE /\ Renewed(o, wall) = [queue EXCEPT ![o] = Match(@)]
           /\ RenewedUnder(o, Match(queue[o]))
  BY <1>2 DEF RenewedUnder
<1> QED
  BY <1>1, <1>2 DEF Renewed, Expired, ExactlyRenewable, RenewedUnder

\* Rows that are given another place in the queue only get another version.
LEMMA ReorderedRows ==
  ASSUME queue \in [Outcomes -> Row], NEW o \in Outcomes, Reorder(o)
  PROVE  /\ queue' \in [Outcomes -> Row]
         /\ \A p \in Outcomes :
              /\ queue[p].state \notin Waiting => queue'[p] = queue[p]
              /\ queue'[p].state = queue[p].state /\ queue'[p].deps = queue[p].deps
              /\ queue'[p].key = queue[p].key /\ queue'[p].fence = queue[p].fence
              /\ queue'[p].version >= queue[p].version
<1>1. PICK moved \in SUBSET {p \in Outcomes \ Campaign : queue[p].state \in Waiting} :
        queue' = [p \in Outcomes |->
          IF p \in moved THEN [queue[p] EXCEPT !.version = @ + 1] ELSE queue[p]]
  BY DEF Reorder
<1>2. ASSUME NEW r \in Row
      PROVE  LET n == [r EXCEPT !.version = @ + 1] IN
             /\ n \in Row /\ n.state = r.state /\ n.deps = r.deps
             /\ n.key = r.key /\ n.fence = r.fence /\ n.version >= r.version
  BY DEF Row
<1>3. \A r \in Row : r.version >= r.version
  BY DEF Row
<1>4. ASSUME NEW p \in Outcomes, p \in moved
      PROVE  queue'[p] = [queue[p] EXCEPT !.version = @ + 1] /\ queue[p].state \in Waiting
  BY <1>1, <1>4
<1>5. \A p \in Outcomes \ moved : queue'[p] = queue[p]
  BY <1>1
<1>6. queue' \in [Outcomes -> Row]
  BY <1>1, <1>2
<1> QED
  BY <1>2, <1>3, <1>4, <1>5, <1>6

\* What an acquisition selects from: rows as they were, with a renewed authority,
\* or with the stale lease withdrawn.
Offered == RenewIfIdle(ReleaseSlot(queue))

LEMMA OfferedRows ==
  ASSUME queue \in [Outcomes -> Row]
  PROVE  /\ Offered \in [Outcomes -> Row]
         /\ \A p \in Outcomes :
              \/ Offered[p] \in {queue[p], Match(queue[p])}
              \/ /\ queue[p].state = "active"
                 /\ Offered[p] = Withdraw(queue[p], "STALE_LEASE_AUTHORIZATION_INELIGIBLE")
<1> DEFINE q == ReleaseSlot(queue)
           W(p) == Withdraw(queue[p], "STALE_LEASE_AUTHORIZATION_INELIGIBLE")
<1>1. ASSUME NEW p \in Outcomes
      PROVE  /\ \/ Offered[p] \in {queue[p], Match(queue[p])}
                \/ queue[p].state = "active" /\ Offered[p] = W(p)
             /\ Offered[p] \in Row
  <2>1. Offered[p] \in {q[p], Match(q[p])}
    BY DEF Offered, RenewIfIdle
  <2>2. CASE p \in StaleIneligible(queue)
    <3>1. q[p] = W(p) /\ queue[p].state = "active" /\ p \notin Campaign
      BY <2>2 DEF ReleaseSlot, StaleIneligible, Active
    <3>2. Offered[p] = q[p]
      BY <3>1 DEF Offered, RenewIfIdle, RenewalCandidates, Expired
    <3>3. W(p) \in Row
      <4>1. "STALE_LEASE_AUTHORIZATION_INELIGIBLE" \in Reasons /\ queue[p] \in Row
        BY DEF Reasons
      <4>2. queue[p].key \in Nat
        BY <4>1 DEF Row
      <4> QED
        BY <4>1, <4>2, RowsAreRows
    <3> QED
      BY <3>1, <3>2, <3>3
  <2>3. CASE p \notin StaleIneligible(queue)
    <3>1. q[p] = queue[p]
      BY <2>3 DEF ReleaseSlot
    <3>2. Offered[p] \in {queue[p], Match(queue[p])}
      BY <2>1, <3>1
    <3> QED
      BY <3>2, MatchedRow
  <2> QED
    BY <2>2, <2>3
<1>2. Offered = [p \in Outcomes |-> Offered[p]]
  BY DEF Offered, RenewIfIdle
<1> QED
  BY <1>1, <1>2

\* What the grants of a row that is still somebody's have in common.
GrantedAgain(s, o) ==
  \E n \in {queue[o], Match(queue[o])},
     reason \in Recoveries \cup {"STALE_LEASE_RECOVERED"} :
    /\ queue' = [queue EXCEPT ![o] = Grant(n, n.key, reason)]
    /\ SaveOrLose(s, o) /\ UNCHANGED keys
    /\ queue[o].state \in {"active", "blocked"} /\ ~Live(queue, o)
    /\ queue[o].state = "active" \/ DependenciesCompleted(queue, o)
    /\ n.approval = "live" /\ n.authority = "live"
    /\ reason = "VALIDATION_RECLAIMED" \/ ~OtherLive(queue, o)

\* An answer that grants nothing new.
AnsweredAgain(s, o) ==
  \E n \in {queue[o], Match(queue[o])} :
    /\ queue' = [queue EXCEPT ![o] = n]
    /\ n = queue[o] \/ o \in Campaign
    /\ n = queue[o] \/ RenewedUnder(o, n)
    /\ UNCHANGED saved \/ (SaveOrLose(s, o) /\ queue[o].key # 0)
    /\ UNCHANGED keys

LEMMA GrantsAgain ==
  ASSUME queue \in [Outcomes -> Row], NEW s \in Supervisors, NEW o \in Outcomes,
         \/ ReclaimAcquisition(s, o) \/ ResumeAfterDecision(s, o)
         \/ ResumeAfterValidationRecovery(s, o) \/ ResumeAfterReviewRecovery(s, o)
         \/ ReclaimValidationRecovery(s, o) \/ ReclaimReviewRecovery(s, o)
  PROVE  GrantedAgain(s, o) \/ AnsweredAgain(s, o)
<1>1. CASE ReclaimAcquisition(s, o)
  <2>1. PICK n \in {queue[o], Match(queue[o])} :
          /\ Renewed(o, "none") = [queue EXCEPT ![o] = n]
          /\ Renewed(o, "none")[o] = n
          /\ n = queue[o] \/ o \in Campaign
          /\ n = queue[o] \/ RenewedUnder(o, n)
    BY RenewedRows
  <2>2. CASE DependenciesCompleted(queue, o) /\ ~OtherLive(queue, o)
    <3>1. /\ queue' = [Renewed(o, "none") EXCEPT
                         ![o] = Grant(@, @.key, "STALE_LEASE_RECOVERED")]
          /\ SaveOrLose(s, o) /\ UNCHANGED keys
          /\ Authorized(Renewed(o, "none"), o) /\ queue[o].state = "active"
          /\ ~Live(queue, o)
      BY <1>1, <2>2 DEF ReclaimAcquisition, Active, Live
    <3>2. queue' = [queue EXCEPT ![o] = Grant(n, n.key, "STALE_LEASE_RECOVERED")]
      BY <2>1, <3>1
    <3> QED
      BY <2>1, <2>2, <3>1, <3>2 DEF GrantedAgain, Authorized
  <2>3. CASE ~DependenciesCompleted(queue, o) \/ OtherLive(queue, o)
    BY <1>1, <2>1, <2>3 DEF ReclaimAcquisition, AnsweredAgain
  <2> QED
    BY <2>2, <2>3
<1>2. ASSUME NEW wall, NEW reason \in Recoveries, ResumeFrom(s, o, wall, reason),
             ~OtherLive(queue, o)
      PROVE  GrantedAgain(s, o)
  <2>1. PICK n \in {queue[o], Match(queue[o])} :
          /\ Renewed(o, wall) = [queue EXCEPT ![o] = n]
          /\ Renewed(o, wall)[o] = n
    BY RenewedRows
  <2>2. /\ queue' = [Renewed(o, wall) EXCEPT ![o] = Grant(@, @.key, reason)]
        /\ SaveOrLose(s, o) /\ UNCHANGED keys
        /\ Authorized(Renewed(o, wall), o) /\ DependenciesCompleted(queue, o)
        /\ queue[o].state = "blocked" /\ ~Live(queue, o)
    BY <1>2 DEF ResumeFrom, Live, Active
  <2>3. queue' = [queue EXCEPT ![o] = Grant(n, n.key, reason)]
    BY <2>1, <2>2
  <2> QED
    BY <1>2, <2>1, <2>2, <2>3 DEF GrantedAgain, Authorized
<1>3. CASE \/ ResumeAfterDecision(s, o) \/ ResumeAfterValidationRecovery(s, o)
           \/ ResumeAfterReviewRecovery(s, o)
  BY <1>2, <1>3 DEF ResumeAfterDecision, ResumeAfterValidationRecovery,
       ResumeAfterReviewRecovery, Recoveries, ValidationRecoveries, OtherLive, Live
<1>4. CASE ReclaimValidationRecovery(s, o)
  <2>1. PICK n \in {queue[o], Match(queue[o])} :
          /\ Renewed(o, "none") = [queue EXCEPT ![o] = n]
          /\ Renewed(o, "none")[o] = n
    BY RenewedRows
  <2>2. /\ queue' = [Renewed(o, "none") EXCEPT
                       ![o] = Grant(@, @.key, "VALIDATION_RECLAIMED")]
        /\ SaveOrLose(s, o) /\ UNCHANGED keys
        /\ Authorized(Renewed(o, "none"), o) /\ queue[o].state = "active"
        /\ ~Live(queue, o)
    BY <1>4 DEF ReclaimValidationRecovery, Active, Live
  <2>3. queue' = [queue EXCEPT ![o] = Grant(n, n.key, "VALIDATION_RECLAIMED")]
    BY <2>1, <2>2
  <2> QED
    BY <2>1, <2>2, <2>3
       DEF GrantedAgain, Authorized, Recoveries, ValidationRecoveries
<1>5. CASE ReclaimReviewRecovery(s, o)
  <2>1. /\ queue' = [queue EXCEPT
                       ![o] = Grant(queue[o], queue[o].key, "REVIEW_RECLAIMED")]
        /\ SaveOrLose(s, o) /\ UNCHANGED keys
        /\ Authorized(queue, o) /\ queue[o].state = "active"
        /\ ~OtherLive(queue, o) /\ ~Live(queue, o)
    BY <1>5 DEF ReclaimReviewRecovery, Active, OtherLive, Live
  <2> QED
    BY <2>1 DEF GrantedAgain, Authorized, Recoveries
<1> QED
  BY <1>1, <1>3, <1>4, <1>5

LEMMA ReplaysAnswer ==
  ASSUME queue \in [Outcomes -> Row], NEW s \in Supervisors, NEW o \in Outcomes,
         ReplayAcquisition(s, o) \/ ReplayResume(s, o)
  PROVE  AnsweredAgain(s, o)
<1>1. PICK n \in {queue[o], Match(queue[o])} :
        /\ Renewed(o, "none") = [queue EXCEPT ![o] = n]
        /\ n = queue[o] \/ o \in Campaign
        /\ n = queue[o] \/ RenewedUnder(o, n)
  BY RenewedRows
<1>2. queue = [queue EXCEPT ![o] = queue[o]]
  OBVIOUS
<1>3. /\ queue' \in {queue, Renewed(o, "none")}
      /\ SaveOrLose(s, o) /\ queue[o].key # 0 /\ UNCHANGED keys
  BY DEF ReplayAcquisition, ReplayResume, GrantedAfter
<1> QED
  BY <1>1, <1>2, <1>3 DEF AnsweredAgain

\* The steps of a supervisor, sorted by what they do to the row they concern.
LEMMA SuperviseCases ==
  ASSUME queue \in [Outcomes -> Row], NEW s \in Supervisors, Supervise(s)
  PROVE  \/ AcquireNext(s)
         \/ \E o \in Outcomes :
              \/ GrantedAgain(s, o) \/ AnsweredAgain(s, o)
              \/ DeferLease(s, o) \/ Terminalize(s, o) \/ Complete(s, o)
  BY GrantsAgain, ReplaysAnswer DEF Supervise

\* An answer that is saved, or lost, leaves tickets.
LEMMA SavedTickets ==
  ASSUME saved \in [Supervisors -> [Outcomes -> Ticket]],
         queue' \in [Outcomes -> Row],
         NEW s \in Supervisors, NEW o \in Outcomes, SaveOrLose(s, o)
  PROVE  saved' \in [Supervisors -> [Outcomes -> Ticket]]
<1>1. TicketOf(queue'[o]) \in Ticket
  BY DEF TicketOf, Ticket, Row
<1> QED
  BY <1>1 DEF SaveOrLose

LEMMA AbsentIsRow == AbsentRow \in Row
  BY DEF AbsentRow, Row, States, Standings, Reasons

-----------------------------------------------------------------------------
LEMMA TypeInit == Init => TypeOK
  BY AbsentIsRow DEF Init, TypeOK, NoTicket, Ticket

LEMMA SuperviseKeepsTypes ==
  ASSUME TypeOK, NEW s \in Supervisors, Supervise(s)
  PROVE  TypeOK'
<1> USE DEF TypeOK
<1>1. CASE AcquireNext(s)
  <2>1. Offered \in [Outcomes -> Row]
    BY OfferedRows
  <2>2. ASSUME NEW o \in Outcomes,
               queue' = [Offered EXCEPT ![o] = Acquired(@, keys + 1)],
               keys' = keys + 1,
               SaveOrLose(s, o)
        PROVE  TypeOK'
    <3>1. Offered[o] \in Row /\ keys + 1 \in Nat /\ "none" \in Reasons
      BY <2>1 DEF Reasons
    <3>2. Acquired(Offered[o], keys + 1) \in Row
      BY <3>1, RowsAreRows
    <3>3. queue' \in [Outcomes -> Row]
      BY <2>1, <2>2, <3>2
    <3> QED
      BY <2>2, <3>3, SavedTickets
  <2>3. CASE queue' = Offered /\ UNCHANGED <<saved, keys>>
    BY <2>1, <2>3
  <2> QED
    BY <1>1, <2>2, <2>3 DEF AcquireNext, Offered
<1>2. CASE \E o \in Outcomes : AnsweredAgain(s, o)
  <2>1. PICK o \in Outcomes : AnsweredAgain(s, o)
    BY <1>2
  <2>2. queue' \in [Outcomes -> Row] /\ UNCHANGED keys
    BY <2>1, MatchedRow DEF AnsweredAgain
  <2> QED
    BY <2>1, <2>2, SavedTickets DEF AnsweredAgain
<1>3. CASE \E o \in Outcomes : GrantedAgain(s, o)
  <2>0. PICK o \in Outcomes : GrantedAgain(s, o)
    BY <1>3
  <2>1. PICK n \in {queue[o], Match(queue[o])},
             reason \in Recoveries \cup {"STALE_LEASE_RECOVERED"} :
          /\ queue' = [queue EXCEPT ![o] = Grant(n, n.key, reason)]
          /\ SaveOrLose(s, o) /\ UNCHANGED keys
    BY <2>0 DEF GrantedAgain
  <2>2. n \in Row /\ reason \in Reasons
    BY MatchedRow DEF Reasons
  <2>3. Grant(n, n.key, reason) \in Row
    BY <2>2, RowsAreRows DEF Row
  <2>4. queue' \in [Outcomes -> Row]
    BY <2>1, <2>3
  <2> QED
    BY <2>1, <2>4, SavedTickets
<1>4. CASE \E o \in Outcomes : DeferLease(s, o)
  BY <1>4 DEF DeferLease, Row, Reasons
<1>5. CASE \E o \in Outcomes : Terminalize(s, o) \/ Complete(s, o)
  <2>1. PICK o \in Outcomes, state \in States, reason \in Reasons :
          /\ queue' = [queue EXCEPT ![o] = Settle(@, state, reason)]
          /\ UNCHANGED <<saved, keys>>
    BY <1>5 DEF Terminalize, Complete, Reasons, States, Waiting, Terminals
  <2>2. Settle(queue[o], state, reason) \in Row
    BY RowsAreRows
  <2> QED
    BY <2>1, <2>2
<1> QED
  BY <1>1, <1>2, <1>3, <1>4, <1>5, SuperviseCases

LEMMA OperateKeepsTypes ==
  ASSUME TypeOK, NEW o \in Outcomes, Operate(o)
  PROVE  TypeOK'
<1> USE DEF TypeOK
<1>1. CASE ApproveDecision(o) \/ MatchAuthority(o) \/ GovernedApproval(o)
  BY <1>1, ApprovedRow, MatchedRow
     DEF ApproveDecision, MatchAuthority, GovernedApproval
<1>2. CASE Pause(o)
  <2>1. PICK why \in Pauses :
          /\ queue' = [queue EXCEPT ![o] = Withdraw(queue[o], why)]
          /\ UNCHANGED <<saved, keys>>
    BY <1>2 DEF Pause
  <2>2. queue[o] \in Row /\ queue[o].key \in Nat /\ why \in Reasons
    BY DEF Row, Reasons
  <2>3. Withdraw(queue[o], why) \in Row
    BY <2>2, RowsAreRows
  <2> QED
    BY <2>1, <2>3
<1>3. CASE Decline(o)
  BY <1>3, RowsAreRows DEF Decline, Reasons, States, Terminals
<1>4. CASE \E new \in Outcomes \ {o} : Supersede(o, new)
  <2>1. PICK new \in Outcomes \ {o} : Supersede(o, new)
    BY <1>4
  <2> DEFINE replaced == [queue EXCEPT
               ![o] = Rewrite(@, "superseded", "OPERATOR_SUPERSEDED"),
               ![new] = [AbsentRow EXCEPT !.state = "suggested",
                                          !.deps = queue[o].deps]]
  <2>2. Rewrite(queue[o], "superseded", "OPERATOR_SUPERSEDED") \in Row
    BY RowsAreRows DEF Reasons, States, Terminals
  <2>3. [AbsentRow EXCEPT !.state = "suggested", !.deps = queue[o].deps] \in Row
    BY AbsentIsRow DEF Row, States, Waiting
  <2>4. \A p \in Outcomes : Rebind(replaced[p], o, new) \in Row
    BY <2>2, <2>3, ReboundIsRow
  <2> QED
    BY <2>1, <2>4 DEF Supersede
<1>5. CASE \E D \in SUBSET Outcomes : Enqueue(o, D)
  <2>1. PICK D \in SUBSET Outcomes : Enqueue(o, D)
    BY <1>5
  <2>2. [AbsentRow EXCEPT !.state = "suggested", !.deps = D] \in Row
    BY AbsentIsRow DEF Row, States, Waiting
  <2>3. Depend(queue[o], D) \in Row
    BY FieldUpdates DEF Depend
  <2>4. queue' \in [Outcomes -> Row]
    BY <2>1, <2>2, <2>3 DEF Enqueue
  <2> QED
    BY <2>1, <2>4 DEF Enqueue
<1>6. CASE \E D \in SUBSET Outcomes : ChangeDependencies(o, D)
  <2>1. PICK D \in SUBSET Outcomes : ChangeDependencies(o, D)
    BY <1>6
  <2>2. Depend(queue[o], D) \in Row
    BY FieldUpdates DEF Depend
  <2> QED
    BY <2>1, <2>2 DEF ChangeDependencies
<1>7. CASE Reorder(o)
  <2>1. queue' \in [Outcomes -> Row]
    BY <1>7, ReorderedRows
  <2> QED
    BY <1>7, <2>1 DEF Reorder
<1> QED
  BY <1>1, <1>2, <1>3, <1>4, <1>5, <1>6, <1>7 DEF Operate

LEMMA LapseKeepsTypes ==
  ASSUME TypeOK, NEW o \in Outcomes, Lapse(o)
  PROVE  TypeOK'
<1>1. /\ [queue[o] EXCEPT !.leased = FALSE] \in Row
      /\ [queue[o] EXCEPT !.approval = "lapsed"] \in Row
      /\ [queue[o] EXCEPT !.authority = "lapsed"] \in Row
      /\ [queue[o] EXCEPT !.authority = "expired"] \in Row
  BY FieldUpdates DEF TypeOK, Standings
<1> QED
  BY <1>1 DEF TypeOK, Lapse, LeaseExpires, ApprovalLapses, AuthorityLapses

LEMMA PrimaryKeepsTypes ==
  ASSUME TypeOK, RecordPrimaryAuthorization
  PROVE  TypeOK'
  BY ApprovedRow DEF TypeOK, RecordPrimaryAuthorization

\* The table, the saved bindings and the key counter keep their types, for
\* every number of outcomes and supervisors.
THEOREM TypeCorrect == Spec => []TypeOK
<1>1. Init => TypeOK
  BY TypeInit
<1>2. TypeOK /\ [Next]_vars => TypeOK'
  BY SuperviseKeepsTypes, OperateKeepsTypes, LapseKeepsTypes, PrimaryKeepsTypes
     DEF Next, vars, TypeOK
<1> QED
  BY <1>1, <1>2, PTL DEF Spec
-----------------------------------------------------------------------------
(* What one step may do to one row.                                        *)

\* A row that is not in the table yet carries no fence and no key.
AbsentIsBlank ==
  \A o \in Outcomes :
    queue[o].state = "absent" => queue[o].fence = 0 /\ queue[o].key = 0

RowStep(r, n) ==
  /\ r.state \in Terminals => n.state = r.state /\ n.deps = r.deps
  /\ r.state # "absent" /\ ( \/ n.state # r.state \/ n.deps # r.deps
                            \/ n.key # r.key \/ n.fence # r.fence)
       => n.version > r.version
  /\ n.fence >= r.fence
  /\ n.key # r.key => n.key = 0 \/ n.fence > r.fence
  /\ n.state = "active" /\ n.leased
       /\ (~(r.state = "active" /\ r.leased) \/ n.key # r.key)
       => n.fence > r.fence
  /\ n.state = "absent" => n.fence = r.fence /\ n.key = r.key /\ r.state = "absent"
  /\ n.state \in {"active", "completed"} => n.deps = r.deps
  /\ n.state = "active" /\ n.leased /\ n.fence > r.fence
       => n.approval = "live" /\ n.authority = "live"

LEMMA SameRow == ASSUME NEW r \in Row PROVE RowStep(r, r)
  BY DEF RowStep, Row

\* A row granted again, or for the first time, after a renewal of its authority.
LEMMA GrantStep ==
  ASSUME NEW r \in Row, NEW n \in {r, Match(r)},
         r.state \notin Terminals, r.state # "absent",
         n.approval = "live", n.authority = "live",
         NEW key \in Nat, NEW reason
  PROVE  /\ RowStep(r, Grant(n, key, reason))
         /\ Grant(n, key, reason).fence > r.fence
         /\ Grant(n, key, reason).reason = reason
<1>1. /\ n \in Row
      /\ n.state = r.state /\ n.key = r.key /\ n.fence = r.fence
      /\ n.deps = r.deps /\ n.version >= r.version
  BY MatchedRow
<1> QED
  BY <1>1 DEF RowStep, Row, Grant

LEMMA MatchStep ==
  ASSUME NEW r \in Row, NEW n \in {r, Match(r)}
  PROVE  RowStep(r, n)
  BY MatchedRow DEF RowStep, Row

LEMMA WithdrawStep ==
  ASSUME NEW r \in Row, NEW reason \in Reasons, r.state \notin Terminals
  PROVE  RowStep(r, Withdraw(r, reason))
  BY DEF RowStep, Row, Withdraw

LEMMA SettleStep ==
  ASSUME NEW r \in Row, NEW reason \in Reasons, r.state \notin Terminals
  PROVE  /\ RowStep(r, Settle(r, "blocked", reason))
         /\ RowStep(r, Settle(r, "completed", reason))
  BY DEF RowStep, Row, Settle

LEMMA RewriteStep ==
  ASSUME NEW r \in Row, NEW reason \in Reasons, r.state \notin Terminals,
         NEW state \in {"approved", "declined", "superseded"}
  PROVE  /\ RowStep(r, Rewrite(r, state, reason))
         /\ RowStep(r, [Rewrite(r, state, reason) EXCEPT !.approval = "live"])
         /\ RowStep(r, Approve(r))
  BY DEF RowStep, Row, Rewrite, Approve

LEMMA DependStep ==
  ASSUME NEW r \in Row, r.state \in Waiting, NEW D \in SUBSET Outcomes
  PROVE  RowStep(r, Depend(r, D))
  BY DEF RowStep, Row, Depend, Waiting, Terminals

LEMMA ReboundStep ==
  ASSUME NEW r \in Row, NEW old \in Outcomes, NEW new \in Outcomes
  PROVE  /\ RowStep(r, Rebind(r, old, new))
         /\ Rebind(r, old, new).state = r.state
         /\ Rebind(r, old, new).fence = r.fence
         /\ Rebind(r, old, new).key = r.key
         /\ r.state \notin Waiting => Rebind(r, old, new) = r
<1>1. CASE r.state \in Waiting /\ old \in r.deps
  <2>1. (r.deps \ {old}) \cup {new} \in SUBSET Outcomes
    BY DEF Row
  <2>2. Rebind(r, old, new) = Depend(r, (r.deps \ {old}) \cup {new})
    BY <1>1 DEF Rebind, Depend
  <2>3. /\ Rebind(r, old, new).state = r.state
        /\ Rebind(r, old, new).fence = r.fence
        /\ Rebind(r, old, new).key = r.key
    BY <2>2 DEF Depend, Row
  <2> QED
    BY <1>1, <2>1, <2>2, <2>3, DependStep
<1>2. CASE ~(r.state \in Waiting /\ old \in r.deps)
  <2>1. Rebind(r, old, new) = r
    BY <1>2 DEF Rebind
  <2> QED
    BY <2>1, SameRow
<1> QED
  BY <1>1, <1>2

LEMMA QuietStep ==
  ASSUME NEW r \in Row, NEW a
  PROVE  /\ RowStep(r, [r EXCEPT !.reason = a])
         /\ RowStep(r, [r EXCEPT !.approval = a])
         /\ RowStep(r, [r EXCEPT !.authority = a])
         /\ RowStep(r, [r EXCEPT !.leased = FALSE])
  BY DEF RowStep, Row

-----------------------------------------------------------------------------
(* What one step may do to the table.                                      *)

LEMMA OneRowStep ==
  ASSUME TypeOK, NEW o \in Outcomes, NEW n, RowStep(queue[o], n),
         queue' = [queue EXCEPT ![o] = n]
  PROVE  \A p \in Outcomes : RowStep(queue[p], queue'[p])
<1> TAKE p \in Outcomes
<1>1. CASE p = o
  BY <1>1 DEF TypeOK
<1>2. CASE p # o
  BY <1>2, SameRow DEF TypeOK
<1> QED
  BY <1>1, <1>2

\* A row that is offered for acquisition, as it was before the transaction.
LEMMA OfferedStep ==
  ASSUME TypeOK, NEW o \in Outcomes
  PROVE  /\ RowStep(queue[o], Offered[o])
         /\ Offered[o].state \in {queue[o].state, "blocked"}
         /\ Offered[o].state \in {"active", "approved"} =>
              Offered[o] \in {queue[o], Match(queue[o])}
         /\ Offered[o].state = queue[o].state =>
              Offered[o] \in {queue[o], Match(queue[o])}
<1> DEFINE W == Withdraw(queue[o], "STALE_LEASE_AUTHORIZATION_INELIGIBLE")
<1>0. queue[o] \in Row
  BY DEF TypeOK
<1>1. CASE Offered[o] \in {queue[o], Match(queue[o])}
  BY <1>0, <1>1, MatchStep, MatchedRow
<1>2. CASE queue[o].state = "active" /\ Offered[o] = W
  <2>1. RowStep(queue[o], W)
    BY <1>0, <1>2, WithdrawStep DEF Reasons, Terminals
  <2>2. W.state = "blocked"
    BY <1>0, WrittenStates
  <2> QED
    BY <1>2, <2>1, <2>2
<1> QED
  BY <1>1, <1>2, OfferedRows DEF TypeOK

LEMMA OfferedEligible ==
  ASSUME TypeOK, NEW o \in Outcomes, Eligible(Offered, o)
  PROVE  /\ Offered[o] \in {queue[o], Match(queue[o])}
         /\ queue[o].state \in {"active", "approved"}
         /\ Offered[o].approval = "live" /\ Offered[o].authority = "live"
         /\ DependenciesCompleted(queue, o)
<1>1. /\ Offered[o].state \in {"active", "approved"}
      /\ Offered[o].approval = "live" /\ Offered[o].authority = "live"
      /\ \A d \in Offered[o].deps : Offered[d].state = "completed"
  BY DEF Eligible, Active, Authorized, DependenciesCompleted
<1>2. /\ Offered[o] \in {queue[o], Match(queue[o])}
      /\ queue[o].state \in {"active", "approved"}
  BY <1>1, OfferedStep
<1>3. Offered[o].deps = queue[o].deps /\ queue[o].deps \subseteq Outcomes
  BY <1>2, MatchedRow DEF TypeOK, Row
<1> QED
  BY <1>1, <1>2, <1>3, OfferedStep DEF DependenciesCompleted

\* Rows that come to be active or completed had their dependencies completed.
Ready ==
  \A o \in Outcomes :
    queue'[o].state \in {"active", "completed"} =>
      queue[o].state \in {"active", "completed"} \/ DependenciesCompleted(queue, o)

LEMMA OneRowReady ==
  ASSUME TypeOK, NEW o \in Outcomes, NEW n, queue' = [queue EXCEPT ![o] = n],
         \/ n.state \notin {"active", "completed"}
         \/ queue[o].state \in {"active", "completed"}
         \/ DependenciesCompleted(queue, o)
  PROVE  Ready
  BY DEF Ready, TypeOK

LEMMA AcquireSteps ==
  ASSUME TypeOK, NEW s \in Supervisors, AcquireNext(s)
  PROVE  Ready /\ \A p \in Outcomes : RowStep(queue[p], queue'[p])
<1>1. Offered \in [Outcomes -> Row]
  BY OfferedRows DEF TypeOK
<1>2. ASSUME NEW o \in Outcomes, Eligible(Offered, o),
             queue' = [Offered EXCEPT ![o] = Acquired(@, keys + 1)]
      PROVE  Ready /\ \A p \in Outcomes : RowStep(queue[p], queue'[p])
  <2>1. /\ Offered[o] \in {queue[o], Match(queue[o])}
        /\ queue[o].state \in {"active", "approved"}
        /\ Offered[o].approval = "live" /\ Offered[o].authority = "live"
        /\ DependenciesCompleted(queue, o)
    BY <1>2, OfferedEligible
  <2>2. RowStep(queue[o], Acquired(Offered[o], keys + 1))
    <3>1. /\ keys + 1 \in Nat /\ queue[o] \in Row
          /\ queue[o].state \notin Terminals /\ queue[o].state # "absent"
      BY <2>1 DEF TypeOK, Terminals
    <3> QED
      BY <2>1, <3>1, GrantStep DEF Acquired
  <2>3. ASSUME NEW p \in Outcomes
        PROVE  /\ RowStep(queue[p], queue'[p])
               /\ p # o => queue'[p] = Offered[p]
    BY <1>1, <1>2, <2>2, OfferedStep
  <2>4. ASSUME NEW p \in Outcomes, Offered[p].state \in {"active", "completed"}
        PROVE  queue[p].state \in {"active", "completed"}
    BY <2>4, OfferedStep
  <2> QED
    BY <2>1, <2>3, <2>4 DEF Ready
<1>3. CASE queue' = Offered
  <2>1. ASSUME NEW p \in Outcomes, Offered[p].state \in {"active", "completed"}
        PROVE  queue[p].state \in {"active", "completed"}
    BY <2>1, OfferedStep
  <2> QED
    BY <1>3, <2>1, OfferedStep DEF Ready
<1> QED
  BY <1>2, <1>3 DEF AcquireNext, Offered

LEMMA SuperviseSteps ==
  ASSUME TypeOK, NEW s \in Supervisors, Supervise(s)
  PROVE  Ready /\ \A p \in Outcomes : RowStep(queue[p], queue'[p])
<1>1. CASE AcquireNext(s)
  BY <1>1, AcquireSteps
<1>2. CASE \E o \in Outcomes : AnsweredAgain(s, o)
  <2>1. PICK o \in Outcomes : AnsweredAgain(s, o)
    BY <1>2
  <2>2. PICK n \in {queue[o], Match(queue[o])} : queue' = [queue EXCEPT ![o] = n]
    BY <2>1 DEF AnsweredAgain
  <2>3. queue[o] \in Row
    BY DEF TypeOK
  <2>4. RowStep(queue[o], n) /\ n.state = queue[o].state
    BY <2>3, MatchStep, MatchedRow
  <2> QED
    BY <2>2, <2>4, OneRowStep, OneRowReady
<1>3. CASE \E o \in Outcomes : GrantedAgain(s, o)
  <2>1. PICK o \in Outcomes : GrantedAgain(s, o)
    BY <1>3
  <2>2. PICK n \in {queue[o], Match(queue[o])},
             reason \in Recoveries \cup {"STALE_LEASE_RECOVERED"} :
          /\ queue' = [queue EXCEPT ![o] = Grant(n, n.key, reason)]
          /\ queue[o].state \in {"active", "blocked"}
          /\ queue[o].state = "active" \/ DependenciesCompleted(queue, o)
          /\ n.approval = "live" /\ n.authority = "live"
    BY <2>1 DEF GrantedAgain
  <2>3. /\ queue[o] \in Row /\ n \in Row /\ n.key \in Nat
        /\ queue[o].state \notin Terminals /\ queue[o].state # "absent"
    BY <2>2, MatchedRow DEF TypeOK, Row, Terminals
  <2>4. RowStep(queue[o], Grant(n, n.key, reason))
    BY <2>2, <2>3, GrantStep
  <2> QED
    BY <2>2, <2>4, OneRowStep, OneRowReady
<1>4. CASE \E o \in Outcomes : DeferLease(s, o)
  <2>1. PICK o \in Outcomes : DeferLease(s, o)
    BY <1>4
  <2>2. queue[o] \in Row
    BY DEF TypeOK
  <2>3. queue' = [queue EXCEPT ![o] =
                    [queue[o] EXCEPT !.reason = "PROVIDER_UNAVAILABLE"]]
    BY <2>1 DEF DeferLease
  <2>4. queue[o].state = "active"
    BY <2>1 DEF DeferLease, Holds, Live, Active
  <2>5. RowStep(queue[o], [queue[o] EXCEPT !.reason = "PROVIDER_UNAVAILABLE"])
    BY <2>2, QuietStep
  <2> QED
    BY <2>3, <2>4, <2>5, OneRowStep, OneRowReady
<1>5. CASE \E o \in Outcomes : Terminalize(s, o) \/ Complete(s, o)
  <2>1. PICK o \in Outcomes : Terminalize(s, o) \/ Complete(s, o)
    BY <1>5
  <2>2. queue[o] \in Row /\ queue[o].state = "active"
    BY <2>1 DEF TypeOK, Terminalize, Complete, Holds, Live, Active
  <2>3. \A reason \in Reasons :
          /\ RowStep(queue[o], Settle(queue[o], "blocked", reason))
          /\ RowStep(queue[o], Settle(queue[o], "completed", reason))
    BY <2>2, SettleStep DEF Terminals
  <2>4. PICK n : RowStep(queue[o], n) /\ queue' = [queue EXCEPT ![o] = n]
    BY <2>1, <2>3 DEF Terminalize, Complete, Reasons
  <2> QED
    BY <2>2, <2>4, OneRowStep, OneRowReady
<1> QED
  BY <1>1, <1>2, <1>3, <1>4, <1>5, SuperviseCases DEF TypeOK

\* The row, its successor and those that are rebound.
LEMMA SupersededRows ==
  ASSUME TypeOK, NEW o \in Outcomes, NEW new \in Outcomes \ {o},
         Supersede(o, new)
  PROVE  /\ RowStep(queue[o], queue'[o]) /\ queue'[o].state = "superseded"
         /\ queue[new].state = "absent" /\ queue'[new].state = "suggested"
         /\ queue'[new].fence = 0 /\ queue'[new].key = 0
         /\ \A p \in Outcomes \ {o, new} :
              /\ RowStep(queue[p], queue'[p])
              /\ queue'[p].state = queue[p].state
              /\ queue[p].state \notin Waiting => queue'[p] = queue[p]
<1> DEFINE r == queue[o]
           old == Rewrite(r, "superseded", "OPERATOR_SUPERSEDED")
           successor == [AbsentRow EXCEPT !.state = "suggested", !.deps = r.deps]
           replaced == [queue EXCEPT ![o] = old, ![new] = successor]
<1>1. r \in Row
  BY DEF TypeOK
<1>2. queue' = [p \in Outcomes |-> Rebind(replaced[p], o, new)]
  BY DEF Supersede
<1>3. /\ replaced[o] = old /\ replaced[new] = successor
      /\ \A p \in Outcomes \ {o, new} : replaced[p] = queue[p]
  BY DEF TypeOK
<1>4. r.state \in Waiting /\ queue[new].state = "absent"
  BY DEF Supersede
<1>5. /\ old \in Row /\ old.state = "superseded" /\ RowStep(r, old)
  <2>1. r.state \notin Terminals
    BY <1>4 DEF Waiting, Terminals
  <2>2. "OPERATOR_SUPERSEDED" \in Reasons /\ "superseded" \in States
    BY DEF Reasons, States, Terminals
  <2>3. old \in Row
    BY <1>1, <2>2, RowsAreRows
  <2>4. old.state = "superseded"
    BY <1>1, WrittenStates
  <2>5. RowStep(r, old)
    BY <1>1, <2>1, <2>2, RewriteStep
  <2> QED
    BY <2>3, <2>4, <2>5
<1>6. queue'[o] = old
  BY <1>2, <1>3, <1>5, ReboundStep DEF Waiting
<1>7. /\ successor \in Row /\ successor.state = "suggested"
      /\ successor.fence = 0 /\ successor.key = 0
  BY <1>1, AbsentIsRow DEF AbsentRow, Row, States, Waiting
<1>8. /\ queue'[new].state = "suggested"
      /\ queue'[new].fence = 0 /\ queue'[new].key = 0
  <2>1. queue'[new] = Rebind(successor, o, new)
    BY <1>2, <1>3
  <2> HIDE DEF successor
  <2> QED
    BY <1>7, <2>1, ReboundStep
<1>9. ASSUME NEW p \in Outcomes \ {o, new}
      PROVE  /\ RowStep(queue[p], queue'[p])
             /\ queue'[p].state = queue[p].state
             /\ queue[p].state \notin Waiting => queue'[p] = queue[p]
  BY <1>2, <1>3, ReboundStep DEF TypeOK
<1> QED
  BY <1>4, <1>5, <1>6, <1>8, <1>9

LEMMA OperateSteps ==
  ASSUME TypeOK, AbsentIsBlank, NEW o \in Outcomes, Operate(o)
  PROVE  Ready /\ \A p \in Outcomes : RowStep(queue[p], queue'[p])
<1> DEFINE r == queue[o]
<1>0. r \in Row
  BY DEF TypeOK
<1>1. CASE ApproveDecision(o) \/ MatchAuthority(o) \/ GovernedApproval(o)
  <2>1. r.state \notin Terminals /\ r.state # "active"
    BY <1>1 DEF ApproveDecision, MatchAuthority, GovernedApproval, Waiting, Terminals
  <2> DEFINE a == [Rewrite(r, "approved", "none") EXCEPT !.approval = "live"]
             b == Approve(r)
             c == Match(r)
  <2>3. RowStep(r, a) /\ RowStep(r, b) /\ RowStep(r, c)
    BY <1>0, <2>1, RewriteStep, MatchStep DEF Reasons
  <2>4. a.state = "approved" /\ b.state = "approved" /\ c.state = r.state
    BY <1>0, WrittenStates, MatchedRow
  <2>5. PICK n \in {a, b, c} : queue' = [queue EXCEPT ![o] = n]
    BY <1>1 DEF ApproveDecision, MatchAuthority, GovernedApproval
  <2>6. r.state # "completed"
    BY <2>1 DEF Terminals
  <2>7. n.state \notin {"active", "completed"}
    BY <2>1, <2>4, <2>6
  <2>8. RowStep(r, n)
    BY <2>3
  <2> HIDE DEF a, b, c
  <2> QED
    BY <2>5, <2>7, <2>8, OneRowStep, OneRowReady
<1>2. CASE Pause(o)
  <2>1. PICK why \in Pauses : queue' = [queue EXCEPT ![o] = Withdraw(queue[o], why)]
    BY <1>2 DEF Pause
  <2>2. RowStep(r, Withdraw(r, why))
    BY <1>0, <1>2, WithdrawStep DEF Pause, Terminals, Reasons
  <2>3. Withdraw(r, why).state = "blocked"
    BY <1>0, WrittenStates
  <2> QED
    BY <2>1, <2>2, <2>3, OneRowStep, OneRowReady
<1>3. CASE Decline(o)
  <2>1. RowStep(r, Rewrite(r, "declined", "OPERATOR_DECLINED"))
    BY <1>0, <1>3, RewriteStep DEF Decline, Waiting, Terminals, Reasons
  <2>2. Rewrite(r, "declined", "OPERATOR_DECLINED").state = "declined"
    BY <1>0 DEF Rewrite, Row
  <2> QED
    BY <1>3, <2>1, <2>2, OneRowStep, OneRowReady DEF Decline
<1>4. CASE \E new \in Outcomes \ {o} : Supersede(o, new)
  <2>1. PICK new \in Outcomes \ {o} : Supersede(o, new)
    BY <1>4
  <2>2. RowStep(queue[new], queue'[new])
    BY <2>1, SupersededRows DEF RowStep, AbsentIsBlank, Terminals
  <2>3. \A p \in Outcomes : RowStep(queue[p], queue'[p])
    BY <2>1, <2>2, SupersededRows
  <2>4. Ready
    BY <2>1, SupersededRows DEF Ready
  <2> QED
    BY <2>3, <2>4
<1>5. CASE \E D \in SUBSET Outcomes : Enqueue(o, D)
  <2>1. PICK D \in SUBSET Outcomes : Enqueue(o, D)
    BY <1>5
  <2> DEFINE a == [AbsentRow EXCEPT !.state = "suggested", !.deps = D]
  <2>2. CASE r.state = "absent"
    <3>1. RowStep(r, a) /\ a.state = "suggested"
      BY <1>0, <2>2 DEF RowStep, AbsentRow, Row, AbsentIsBlank, Terminals
    <3>2. queue' = [queue EXCEPT ![o] = a]
      BY <2>1, <2>2 DEF Enqueue
    <3> QED
      BY <3>1, <3>2, OneRowStep, OneRowReady
  <2>3. CASE r.state # "absent"
    <3>1. r.state = "suggested"
      BY <2>1, <2>3 DEF Enqueue
    <3>2. RowStep(r, Depend(r, D)) /\ Depend(r, D).state = "suggested"
      BY <1>0, <3>1, DependStep DEF Waiting, Depend, Row
    <3>3. queue' = [queue EXCEPT ![o] = Depend(r, D)]
      BY <2>1, <2>3 DEF Enqueue
    <3> QED
      BY <3>2, <3>3, OneRowStep, OneRowReady
  <2> QED
    BY <2>2, <2>3
<1>6. CASE \E D \in SUBSET Outcomes : ChangeDependencies(o, D)
  <2>1. PICK D \in SUBSET Outcomes : ChangeDependencies(o, D)
    BY <1>6
  <2>2. r.state \in Waiting
    BY <2>1 DEF ChangeDependencies
  <2>3. RowStep(r, Depend(r, D)) /\ Depend(r, D).state = r.state
    BY <1>0, <2>2, DependStep DEF Depend, Row
  <2>4. queue' = [queue EXCEPT ![o] = Depend(r, D)]
    BY <2>1 DEF ChangeDependencies
  <2> QED
    BY <2>2, <2>3, <2>4, OneRowStep, OneRowReady DEF Waiting
<1>7. CASE Reorder(o)
  <2>1. \A p \in Outcomes : RowStep(queue[p], queue'[p])
    BY <1>7, SameRow, ReorderedRows DEF RowStep, TypeOK, Waiting, Terminals
  <2>2. Ready
    BY <1>7, ReorderedRows DEF Ready, TypeOK
  <2> QED
    BY <2>1, <2>2
<1> QED
  BY <1>1, <1>2, <1>3, <1>4, <1>5, <1>6, <1>7 DEF Operate

LEMMA LapseSteps ==
  ASSUME TypeOK, NEW o \in Outcomes, Lapse(o)
  PROVE  Ready /\ \A p \in Outcomes : RowStep(queue[p], queue'[p])
<1> DEFINE r == queue[o]
           a == [r EXCEPT !.leased = FALSE]
           b == [r EXCEPT !.approval = "lapsed"]
           c(how) == [r EXCEPT !.authority = how]
<1>1. r \in Row
  BY DEF TypeOK
<1>2. RowStep(r, a) /\ RowStep(r, b) /\ \A how : RowStep(r, c(how))
  BY <1>1, QuietStep
<1>3. a.state = r.state /\ b.state = r.state /\ \A how : c(how).state = r.state
  BY <1>1 DEF Row
<1>4. PICK n : /\ n \in {a, b} \/ \E how : n = c(how)
               /\ queue' = [queue EXCEPT ![o] = n]
  BY DEF Lapse, LeaseExpires, ApprovalLapses, AuthorityLapses
<1>5. \/ n.state \notin {"active", "completed"}
      \/ r.state \in {"active", "completed"}
  BY <1>3, <1>4
<1>6. RowStep(r, n)
  BY <1>2, <1>4
<1> QED
  BY <1>4, <1>5, <1>6, OneRowStep, OneRowReady

\* The owner's consent concerns rows that were only suggested.
LEMMA PrimaryRows ==
  ASSUME TypeOK, RecordPrimaryAuthorization, NEW p \in Outcomes
  PROVE  \/ queue'[p] = queue[p]
         \/ /\ queue[p].state = "suggested" /\ queue'[p] = Approve(queue[p])
            /\ queue'[p].state = "approved"
            /\ RowStep(queue[p], queue'[p])
<1>1. queue[p] \in Row
  BY DEF TypeOK
<1>2. CASE p \in Campaign
  <2>1. queue[p].state = "suggested" /\ queue'[p] = Approve(queue[p])
    BY <1>2 DEF RecordPrimaryAuthorization
  <2>2. RowStep(queue[p], Approve(queue[p]))
    BY <1>1, <2>1, RewriteStep DEF Terminals, Reasons
  <2> QED
    BY <1>1, <2>1, <2>2, WrittenStates
<1>3. CASE p \notin Campaign
  BY <1>3 DEF RecordPrimaryAuthorization
<1> QED
  BY <1>2, <1>3

LEMMA PrimarySteps ==
  ASSUME TypeOK, RecordPrimaryAuthorization
  PROVE  Ready /\ \A p \in Outcomes : RowStep(queue[p], queue'[p])
  BY PrimaryRows, SameRow DEF Ready, TypeOK

LEMMA Steps ==
  ASSUME TypeOK, AbsentIsBlank, [Next]_vars
  PROVE  Ready /\ \A p \in Outcomes : RowStep(queue[p], queue'[p])
<1>1. CASE Next
  BY <1>1, SuperviseSteps, OperateSteps, LapseSteps, PrimarySteps DEF Next
<1>2. CASE UNCHANGED vars
  BY <1>2, SameRow DEF vars, Ready, TypeOK
<1> QED
  BY <1>1, <1>2

-----------------------------------------------------------------------------
\* Rows that are not in the table stay blank.
THEOREM AbsentStaysBlank == Spec => [](TypeOK /\ AbsentIsBlank)
<1>1. Init => TypeOK /\ AbsentIsBlank
  BY TypeInit DEF Init, AbsentRow, AbsentIsBlank
<1>2. TypeOK /\ AbsentIsBlank /\ [Next]_vars => (TypeOK /\ AbsentIsBlank)'
  <2> SUFFICES ASSUME TypeOK, AbsentIsBlank, [Next]_vars
               PROVE  (TypeOK /\ AbsentIsBlank)'
    OBVIOUS
  <2>1. TypeOK'
    BY SuperviseKeepsTypes, OperateKeepsTypes, LapseKeepsTypes, PrimaryKeepsTypes
       DEF Next, vars, TypeOK
  <2>2. AbsentIsBlank'
    BY Steps DEF AbsentIsBlank, RowStep
  <2> QED
    BY <2>1, <2>2
<1> QED
  BY <1>1, <1>2, PTL DEF Spec

\* Completed, declined and superseded outcomes are final, whatever happens.
THEOREM HistoryIsFinal == Spec => TerminalsAreFinal
<1>1. TypeOK /\ AbsentIsBlank /\ [Next]_vars =>
        [\A o \in Outcomes : queue[o].state \in Terminals =>
           queue'[o].state = queue[o].state /\ queue'[o].deps = queue[o].deps]_vars
  BY Steps DEF RowStep
<1> QED
  BY <1>1, AbsentStaysBlank, PTL DEF Spec, TerminalsAreFinal

\* Every change of state, dependencies, key or fence moves the version, so a
\* request that was decided on an older one is refused.
THEOREM ChangesAreVersioned == Spec => ChangesMoveVersion
<1>1. TypeOK /\ AbsentIsBlank /\ [Next]_vars =>
        [\A o \in Outcomes :
           queue[o].state # "absent"
           /\ (\/ queue'[o].state # queue[o].state \/ queue'[o].deps # queue[o].deps
               \/ queue'[o].key # queue[o].key \/ queue'[o].fence # queue[o].fence)
             => queue'[o].version > queue[o].version]_vars
  BY Steps DEF RowStep
<1> QED
  BY <1>1, AbsentStaysBlank, PTL DEF Spec, ChangesMoveVersion

\* A lease that starts, or starts again, has a fence no earlier holder had.
THEOREM FencesAreFresh == Spec => LeasesStartWithNewFence
<1>1. TypeOK /\ AbsentIsBlank /\ [Next]_vars =>
        [\A o \in Outcomes :
           Live(queue', o) /\ (~Live(queue, o) \/ queue'[o].key # queue[o].key)
             => queue'[o].fence > queue[o].fence]_vars
  BY Steps DEF RowStep, Live, Active
<1> QED
  BY <1>1, AbsentStaysBlank, PTL DEF Spec, LeasesStartWithNewFence

\* Whichever way a lease starts, the outcome is authorized when it does.
THEOREM StartsAreAuthorized == Spec => LeasesStartAuthorized
<1>1. TypeOK /\ AbsentIsBlank /\ [Next]_vars =>
        [\A o \in Outcomes :
           queue'[o].fence > queue[o].fence /\ Live(queue', o)
             => queue'[o].approval = "live" /\ queue'[o].authority = "live"]_vars
  BY Steps DEF RowStep, Live, Active
<1> QED
  BY <1>1, AbsentStaysBlank, PTL DEF Spec, LeasesStartAuthorized

\* Work that runs or is done had all its dependencies completed.
THEOREM DependenciesAreMet == Spec => []DependenciesFirst
<1>1. Init => DependenciesFirst
  BY DEF Init, DependenciesFirst, AbsentRow
<1>2. TypeOK /\ AbsentIsBlank /\ DependenciesFirst /\ [Next]_vars
        => DependenciesFirst'
  <2> SUFFICES ASSUME TypeOK, AbsentIsBlank, DependenciesFirst, [Next]_vars,
                      NEW o \in Outcomes,
                      queue'[o].state \in {"active", "completed"}
               PROVE  DependenciesCompleted(queue', o)
    BY DEF DependenciesFirst
  <2>1. Ready /\ \A p \in Outcomes : RowStep(queue[p], queue'[p])
    BY Steps
  <2>2. DependenciesCompleted(queue, o) /\ queue'[o].deps = queue[o].deps
    BY <2>1 DEF Ready, RowStep, DependenciesFirst
  <2>3. \A d \in Outcomes :
          queue[d].state = "completed" => queue'[d].state = "completed"
    BY <2>1 DEF RowStep, Terminals
  <2>4. queue[o].deps \subseteq Outcomes
    BY DEF TypeOK, Row
  <2> QED
    BY <2>2, <2>3, <2>4 DEF DependenciesCompleted
<1> QED
  BY <1>1, <1>2, AbsentStaysBlank, PTL DEF Spec

-----------------------------------------------------------------------------
(* Only a renewal moves the version under a running lease.                 *)

KeepsVersion(r, n) ==
  r.state = "active" /\ r.leased /\ n.state = "active" /\ n.leased
    => n.version = r.version

\* No version moves under a lease but by a renewal.
VersionsOwned ==
  \A p \in Outcomes : KeepsVersion(queue[p], queue'[p]) \/ RenewedUnder(p, queue'[p])

LEMMA OneRowVersion ==
  ASSUME TypeOK, NEW o \in Outcomes, NEW n, KeepsVersion(queue[o], n),
         queue' = [queue EXCEPT ![o] = n]
  PROVE  \A p \in Outcomes : KeepsVersion(queue[p], queue'[p])
<1> TAKE p \in Outcomes
<1>1. CASE p = o
  BY <1>1 DEF TypeOK
<1>2. CASE p # o
  BY <1>2 DEF TypeOK, KeepsVersion
<1> QED
  BY <1>1, <1>2

\* What is offered is as it was, renewed, or withdrawn.  No candidate that is not
\* exactly as the campaign left it gets through the wall.
LEMMA OfferedVersions ==
  ASSUME TypeOK, ~RenewalWall(ReleaseSlot(queue)), NEW p \in Outcomes
  PROVE  \/ Offered[p] = queue[p] \/ Offered[p].state = "blocked"
         \/ RenewedUnder(p, Offered[p])
<1> DEFINE q == ReleaseSlot(queue)
<1>1. CASE p \in StaleIneligible(queue)
  <2>2. p \notin Campaign /\ q[p].state = "blocked"
    BY <1>1, WrittenStates DEF StaleIneligible, ReleaseSlot, TypeOK
  <2>3. Offered[p] = q[p]
    BY <2>2 DEF Offered, RenewIfIdle, RenewalCandidates, Expired
  <2> QED
    BY <2>2, <2>3
<1>2. CASE p \notin StaleIneligible(queue)
  <2>1. q[p] = queue[p]
    BY <1>2 DEF ReleaseSlot
  <2>2. CASE p \in RenewalCandidates(q) /\ \A o \in Outcomes : ~Eligible(q, o)
    <3>1. Offered[p] = Match(queue[p])
      BY <2>1, <2>2 DEF Offered, RenewIfIdle
    <3>2. Expired(q, p) /\ ExactlyRenewable(q, p)
      BY <2>2 DEF RenewalWall, RenewalCandidates
    <3> QED
      BY <2>1, <3>1, <3>2 DEF RenewedUnder, Expired, ExactlyRenewable
  <2>3. CASE ~(p \in RenewalCandidates(q) /\ \A o \in Outcomes : ~Eligible(q, o))
    BY <2>1, <2>3 DEF Offered, RenewIfIdle
  <2> QED
    BY <2>2, <2>3
<1> QED
  BY <1>1, <1>2

LEMMA SuperviseVersions ==
  ASSUME TypeOK, NEW s \in Supervisors, Supervise(s)
  PROVE  VersionsOwned
<1>1. CASE AcquireNext(s)
  <2>1. Offered \in [Outcomes -> Row]
    BY OfferedRows DEF TypeOK
  <2>2. \A p \in Outcomes : \/ Offered[p] = queue[p] \/ Offered[p].state = "blocked"
                            \/ RenewedUnder(p, Offered[p])
    BY <1>1, OfferedVersions DEF AcquireNext
  <2>3. ASSUME NEW o \in Outcomes, Eligible(Offered, o),
               queue' = [Offered EXCEPT ![o] = Acquired(@, keys + 1)]
        PROVE  VersionsOwned
    <3>1. \A p \in Outcomes \ {o} : \/ KeepsVersion(queue[p], queue'[p])
                                    \/ RenewedUnder(p, queue'[p])
      BY <2>1, <2>2, <2>3 DEF KeepsVersion
    <3>2. ~(Offered[o].state = "active" /\ Offered[o].leased)
      BY <2>3 DEF Eligible, Active
    <3>3. ~(queue[o].state = "active" /\ queue[o].leased)
      <4>1. Offered[o] \in {queue[o], Match(queue[o])}
        BY <2>2, <2>3 DEF Eligible, Active, RenewedUnder
      <4> QED
        BY <3>2, <4>1, MatchedRow DEF TypeOK
    <3> QED
      BY <3>1, <3>3 DEF KeepsVersion, VersionsOwned
  <2>4. CASE queue' = Offered
    BY <2>2, <2>4 DEF KeepsVersion, VersionsOwned
  <2> QED
    BY <1>1, <2>3, <2>4 DEF AcquireNext, Offered
<1>2. CASE \E o \in Outcomes : AnsweredAgain(s, o)
  <2>1. PICK o \in Outcomes : AnsweredAgain(s, o)
    BY <1>2
  <2>2. PICK n : /\ queue' = [queue EXCEPT ![o] = n]
                 /\ n = queue[o] \/ RenewedUnder(o, n)
    BY <2>1 DEF AnsweredAgain
  <2> QED
    BY <2>2 DEF KeepsVersion, VersionsOwned, TypeOK
<1>3. CASE \E o \in Outcomes : GrantedAgain(s, o)
  <2>0. PICK o \in Outcomes : GrantedAgain(s, o)
    BY <1>3
  <2>1. PICK n :
          /\ queue' = [queue EXCEPT ![o] = n]
          /\ ~Live(queue, o)
    BY <2>0 DEF GrantedAgain
  <2>2. KeepsVersion(queue[o], n)
    BY <2>1 DEF KeepsVersion, Live, Active
  <2> QED
    BY <2>1, <2>2, OneRowVersion DEF VersionsOwned
<1>4. CASE \E o \in Outcomes : DeferLease(s, o)
  <2>1. PICK o \in Outcomes :
          queue' = [queue EXCEPT ![o] =
                      [queue[o] EXCEPT !.reason = "PROVIDER_UNAVAILABLE"]]
    BY <1>4 DEF DeferLease
  <2>2. KeepsVersion(queue[o], [queue[o] EXCEPT !.reason = "PROVIDER_UNAVAILABLE"])
    BY DEF KeepsVersion, TypeOK, Row
  <2> QED
    BY <2>1, <2>2, OneRowVersion DEF VersionsOwned
<1>5. CASE \E o \in Outcomes : Terminalize(s, o) \/ Complete(s, o)
  <2>1. PICK o \in Outcomes, state \in States, reason \in Reasons :
          queue' = [queue EXCEPT ![o] = Settle(queue[o], state, reason)]
    BY <1>5 DEF Terminalize, Complete, Reasons, States, Waiting, Terminals
  <2>2. KeepsVersion(queue[o], Settle(queue[o], state, reason))
    BY DEF KeepsVersion, Settle, TypeOK, Row
  <2> QED
    BY <2>1, <2>2, OneRowVersion DEF VersionsOwned
<1> QED
  BY <1>1, <1>2, <1>3, <1>4, <1>5, SuperviseCases DEF TypeOK

LEMMA OperateVersions ==
  ASSUME TypeOK, NEW o \in Outcomes, Operate(o)
  PROVE  \A p \in Outcomes : KeepsVersion(queue[p], queue'[p])
<1> DEFINE r == queue[o]
<1>0. r \in Row
  BY DEF TypeOK
<1>1. CASE \E new \in Outcomes \ {o} : Supersede(o, new)
  <2>1. PICK new \in Outcomes \ {o} : Supersede(o, new)
    BY <1>1
  <2> QED
    BY <2>1, SupersededRows DEF KeepsVersion, Waiting
<1>2. CASE Pause(o)
  <2>1. PICK why \in Pauses : queue' = [queue EXCEPT ![o] = Withdraw(queue[o], why)]
    BY <1>2 DEF Pause
  <2>2. KeepsVersion(r, Withdraw(r, why))
    BY <1>0, WrittenStates DEF KeepsVersion
  <2> QED
    BY <2>1, <2>2, OneRowVersion
<1>3. CASE Reorder(o)
  BY <1>3, ReorderedRows DEF KeepsVersion, TypeOK, Waiting
<1>4. CASE /\ ~Pause(o) /\ ~Reorder(o)
           /\ ~\E new \in Outcomes \ {o} : Supersede(o, new)
  <2>1. r.state # "active"
    BY <1>4 DEF Operate, ApproveDecision, MatchAuthority, GovernedApproval, Decline,
         Enqueue, ChangeDependencies, Waiting
  <2>2. PICK n : queue' = [queue EXCEPT ![o] = n]
    BY <1>4 DEF Operate, ApproveDecision, MatchAuthority, GovernedApproval, Decline,
         Enqueue, ChangeDependencies
  <2> QED
    BY <2>1, <2>2, OneRowVersion DEF KeepsVersion
<1> QED
  BY <1>1, <1>2, <1>3, <1>4

LEMMA LapseVersions ==
  ASSUME TypeOK, NEW o \in Outcomes, Lapse(o)
  PROVE  \A p \in Outcomes : KeepsVersion(queue[p], queue'[p])
<1> DEFINE r == queue[o]
           a == [r EXCEPT !.leased = FALSE]
           b == [r EXCEPT !.approval = "lapsed"]
           c(how) == [r EXCEPT !.authority = how]
<1>1. KeepsVersion(r, a) /\ KeepsVersion(r, b) /\ \A how : KeepsVersion(r, c(how))
  BY DEF KeepsVersion, TypeOK, Row
<1>2. PICK n : /\ n \in {a, b} \/ \E how : n = c(how)
               /\ queue' = [queue EXCEPT ![o] = n]
  BY DEF Lapse, LeaseExpires, ApprovalLapses, AuthorityLapses
<1>3. KeepsVersion(r, n)
  BY <1>1, <1>2
<1> QED
  BY <1>2, <1>3, OneRowVersion

\* For any campaign: active work owns its version, but for the renewal of an
\* authority of the campaign that ran out, which leaves the holder its key, fence
\* and lease and the row authorized.
THEOREM WorkOwnsItsVersion == Spec => ActiveWorkOwnsItsVersion
<1>1. TypeOK /\ [Next]_vars =>
        [\A o \in Outcomes :
           Live(queue, o) /\ Live(queue', o) /\ queue'[o].version # queue[o].version
             => /\ o \in Campaign /\ queue[o].authority = "expired"
                /\ queue'[o] = Match(queue[o]) /\ Authorized(queue', o)]_vars
  <2>1. ASSUME TypeOK, Next
        PROVE  VersionsOwned
    <3>1. CASE RecordPrimaryAuthorization
      <4>1. \A p \in Outcomes : queue'[p] = queue[p] \/ queue[p].state = "suggested"
        BY <3>1 DEF RecordPrimaryAuthorization
      <4> QED
        BY <4>1 DEF VersionsOwned, KeepsVersion
    <3> QED
      BY <2>1, <3>1, SuperviseVersions, OperateVersions, LapseVersions
         DEF Next, VersionsOwned
  <2>2. ASSUME TypeOK, NEW o \in Outcomes, RenewedUnder(o, queue'[o])
        PROVE  Authorized(queue', o)
    BY <2>2, MatchedRow DEF RenewedUnder, Authorized, Match, TypeOK, Row
  <2> QED
    BY <2>1, <2>2 DEF VersionsOwned, RenewedUnder, KeepsVersion, Live, Active
<1> QED
  BY <1>1, TypeCorrect, PTL DEF Spec, ActiveWorkOwnsItsVersion

-----------------------------------------------------------------------------
(* One outcome in flight: a step that puts one in flight finds no other,   *)
(* unless it reclaims a validation recovery, and says so in the row.       *)

\* What is in flight was in flight, for the same reason.
NoEntry ==
  \A p \in Outcomes :
    InFlight(queue', p) => InFlight(queue, p) /\ queue'[p].reason = queue[p].reason

\* At most o is in flight afterwards.
OnlyEntry(o) == \A p \in Outcomes \ {o} : ~InFlight(queue', p)

\* Only o may come to be in flight, and would be marked as reclaimed.
ReclaimedEntry(o) ==
  /\ queue'[o].reason = "VALIDATION_RECLAIMED"
  /\ \A p \in Outcomes \ {o} : queue'[p] = queue[p]

LEMMA OneRowEntry ==
  ASSUME TypeOK, NEW o \in Outcomes, NEW n, queue' = [queue EXCEPT ![o] = n],
         \/ n.state # "active"
         \/ ~n.leased
         \/ n.reason = "PROVIDER_UNAVAILABLE"
  PROVE  NoEntry
  BY DEF NoEntry, InFlight, Live, Active, TypeOK

LEMMA AcquireEntry ==
  ASSUME TypeOK, NEW s \in Supervisors, AcquireNext(s)
  PROVE  NoEntry \/ \E o \in Outcomes : OnlyEntry(o)
<1>1. Offered \in [Outcomes -> Row]
  BY OfferedRows DEF TypeOK
<1>2. ASSUME NEW o \in Outcomes, Eligible(Offered, o),
             queue' = [Offered EXCEPT ![o] = Acquired(@, keys + 1)]
      PROVE  OnlyEntry(o)
  <2>1. \A p \in Outcomes \ {o} : queue'[p] = Offered[p]
    BY <1>1, <1>2
  <2>2. \A p \in Outcomes : ~InFlight(Offered, p)
    BY <1>2 DEF Eligible
  <2> QED
    BY <2>1, <2>2 DEF OnlyEntry, InFlight, Live, Active
<1>3. CASE queue' = Offered
  <2> SUFFICES ASSUME NEW p \in Outcomes, InFlight(Offered, p)
               PROVE  /\ InFlight(queue, p)
                      /\ Offered[p].reason = queue[p].reason
    BY <1>3 DEF NoEntry, InFlight, Live, Active
  <2>1. Offered[p].state = "active"
    BY DEF InFlight, Live, Active
  <2>2. Offered[p] \in {queue[p], Match(queue[p])}
    BY <2>1, OfferedStep
  <2> QED
    BY <2>2, MatchedRow DEF TypeOK, InFlight, Live, Active
<1> QED
  BY <1>2, <1>3 DEF AcquireNext, Offered

LEMMA SuperviseEntry ==
  ASSUME TypeOK, NEW s \in Supervisors, Supervise(s)
  PROVE  NoEntry \/ \E o \in Outcomes : OnlyEntry(o) \/ ReclaimedEntry(o)
<1>1. CASE AcquireNext(s)
  BY <1>1, AcquireEntry
<1>2. CASE \E o \in Outcomes : AnsweredAgain(s, o)
  <2>1. PICK o \in Outcomes : AnsweredAgain(s, o)
    BY <1>2
  <2>2. PICK n \in {queue[o], Match(queue[o])} : queue' = [queue EXCEPT ![o] = n]
    BY <2>1 DEF AnsweredAgain
  <2>3. queue[o] \in Row
    BY DEF TypeOK
  <2>4. n.state = queue[o].state /\ n.reason = queue[o].reason
                                 /\ n.leased = queue[o].leased
    BY <2>3, MatchedRow
  <2> QED
    BY <2>2, <2>4 DEF NoEntry, InFlight, Live, Active, TypeOK
<1>3. CASE \E o \in Outcomes : GrantedAgain(s, o)
  <2>1. PICK o \in Outcomes : GrantedAgain(s, o)
    BY <1>3
  <2>2. PICK n \in {queue[o], Match(queue[o])},
             reason \in Recoveries \cup {"STALE_LEASE_RECOVERED"} :
          /\ queue' = [queue EXCEPT ![o] = Grant(n, n.key, reason)]
          /\ reason = "VALIDATION_RECLAIMED" \/ ~OtherLive(queue, o)
    BY <2>1 DEF GrantedAgain
  <2>3. n \in Row
    BY MatchedRow DEF TypeOK
  <2>4. Grant(n, n.key, reason).reason = reason
    BY <2>3 DEF Grant, Row
  <2>5. /\ queue'[o].reason = reason
        /\ \A p \in Outcomes \ {o} : queue'[p] = queue[p]
    BY <2>2, <2>4 DEF TypeOK
  <2>6. CASE reason = "VALIDATION_RECLAIMED"
    BY <2>5, <2>6 DEF ReclaimedEntry
  <2>7. CASE ~OtherLive(queue, o)
    BY <2>5, <2>7 DEF OnlyEntry, OtherLive, InFlight, Live, Active
  <2> QED
    BY <2>2, <2>6, <2>7
<1>4. CASE \E o \in Outcomes : DeferLease(s, o)
  <2>1. PICK o \in Outcomes : DeferLease(s, o)
    BY <1>4
  <2> DEFINE n == [queue[o] EXCEPT !.reason = "PROVIDER_UNAVAILABLE"]
  <2>2. queue' = [queue EXCEPT ![o] = n]
    BY <2>1 DEF DeferLease
  <2>3. n.reason = "PROVIDER_UNAVAILABLE"
    BY DEF TypeOK, Row
  <2> QED
    BY <2>2, <2>3, OneRowEntry
<1>5. CASE \E o \in Outcomes : Terminalize(s, o) \/ Complete(s, o)
  <2>1. PICK o \in Outcomes, state \in States, reason \in Reasons :
          queue' = [queue EXCEPT ![o] = Settle(@, state, reason)]
    BY <1>5 DEF Terminalize, Complete, Reasons, States, Waiting, Terminals
  <2>2. ~Settle(queue[o], state, reason).leased
    BY DEF Settle, TypeOK, Row
  <2> QED
    BY <2>1, <2>2, OneRowEntry
<1> QED
  BY <1>1, <1>2, <1>3, <1>4, <1>5, SuperviseCases DEF TypeOK

\* Neither the operator nor time ever puts an outcome in flight.
LEMMA OperateEntry ==
  ASSUME TypeOK, NEW o \in Outcomes, Operate(o)
  PROVE  NoEntry
<1> DEFINE r == queue[o]
<1>0. r \in Row
  BY DEF TypeOK
<1>1. CASE ApproveDecision(o) \/ GovernedApproval(o)
  <2> DEFINE a == [Rewrite(r, "approved", "none") EXCEPT !.approval = "live"]
             b == Approve(r)
  <2>1. a.state = "approved" /\ b.state = "approved"
    BY <1>0, WrittenStates
  <2>2. queue' = [queue EXCEPT ![o] = a] \/ queue' = [queue EXCEPT ![o] = b]
    BY <1>1 DEF ApproveDecision, GovernedApproval
  <2> HIDE DEF a, b
  <2> QED
    BY <2>1, <2>2, OneRowEntry
<1>5. CASE Decline(o)
  <2> DEFINE a == Rewrite(r, "declined", "OPERATOR_DECLINED")
  <2>1. a.state = "declined"
    BY <1>0, WrittenStates
  <2>2. queue' = [queue EXCEPT ![o] = a]
    BY <1>5 DEF Decline
  <2> HIDE DEF a
  <2> QED
    BY <2>1, <2>2, OneRowEntry
<1>6. CASE Pause(o)
  <2>0. PICK why \in Pauses : queue' = [queue EXCEPT ![o] = Withdraw(queue[o], why)]
    BY <1>6 DEF Pause
  <2> DEFINE a == Withdraw(r, why)
  <2>1. a.state = "blocked"
    BY <1>0, WrittenStates
  <2>2. queue' = [queue EXCEPT ![o] = a]
    BY <2>0
  <2> HIDE DEF a
  <2> QED
    BY <2>1, <2>2, OneRowEntry
<1>7. CASE \E D \in SUBSET Outcomes : Enqueue(o, D)
  <2>1. PICK D \in SUBSET Outcomes : Enqueue(o, D)
    BY <1>7
  <2> DEFINE a == [AbsentRow EXCEPT !.state = "suggested", !.deps = D]
             b == Depend(r, D)
  <2>2. a.state = "suggested"
    BY DEF AbsentRow
  <2>3. r.state # "absent" => b.state = "suggested"
    BY <1>0, <2>1 DEF Enqueue, Depend, Row
  <2>4. queue' = [queue EXCEPT ![o] = IF r.state = "absent" THEN a ELSE b]
    BY <2>1 DEF Enqueue
  <2> HIDE DEF a, b
  <2> QED
    BY <2>2, <2>3, <2>4, OneRowEntry
<1>2. CASE MatchAuthority(o)
  <2> DEFINE n == Match(r)
  <2>1. n.state = r.state /\ r.state # "active"
    BY <1>0, <1>2, MatchedRow DEF MatchAuthority, Waiting
  <2>2. queue' = [queue EXCEPT ![o] = n]
    BY <1>2 DEF MatchAuthority
  <2> QED
    BY <2>1, <2>2, OneRowEntry
<1>3. CASE \E D \in SUBSET Outcomes : ChangeDependencies(o, D)
  <2>1. PICK D \in SUBSET Outcomes : ChangeDependencies(o, D)
    BY <1>3
  <2>2. Depend(r, D).state # "active"
    BY <1>0, <2>1 DEF ChangeDependencies, Depend, Row, Waiting
  <2>3. queue' = [queue EXCEPT ![o] = Depend(r, D)]
    BY <2>1 DEF ChangeDependencies
  <2> QED
    BY <2>2, <2>3, OneRowEntry
<1>4. CASE \E new \in Outcomes \ {o} : Supersede(o, new)
  <2>1. PICK new \in Outcomes \ {o} : Supersede(o, new)
    BY <1>4
  <2>2. \A p \in Outcomes : queue'[p].state = "active" => queue'[p] = queue[p]
    BY <2>1, SupersededRows DEF Waiting
  <2> QED
    BY <2>2 DEF NoEntry, InFlight, Live, Active
<1>8. CASE Reorder(o)
  <2>1. \A p \in Outcomes : queue'[p].state = "active" => queue'[p] = queue[p]
    BY <1>8, ReorderedRows DEF Waiting, TypeOK
  <2> QED
    BY <2>1 DEF NoEntry, InFlight, Live, Active
<1> QED
  BY <1>1, <1>2, <1>3, <1>4, <1>5, <1>6, <1>7, <1>8 DEF Operate

LEMMA LapseEntry ==
  ASSUME TypeOK, NEW o \in Outcomes, Lapse(o)
  PROVE  NoEntry
<1> DEFINE r == queue[o]
           a == [r EXCEPT !.leased = FALSE]
           b == [r EXCEPT !.approval = "lapsed"]
           c(how) == [r EXCEPT !.authority = how]
<1>1. r \in Row
  BY DEF TypeOK
<1>2. ~a.leased
  BY <1>1 DEF Row
<1>3. /\ b.state = r.state /\ b.leased = r.leased /\ b.reason = r.reason
      /\ \A how : /\ c(how).state = r.state /\ c(how).leased = r.leased
                  /\ c(how).reason = r.reason
  BY <1>1 DEF Row
<1>4. CASE queue' = [queue EXCEPT ![o] = a]
  BY <1>2, <1>4, OneRowEntry
<1>5. CASE \E n : /\ n = b \/ \E how : n = c(how)
                  /\ queue' = [queue EXCEPT ![o] = n]
  <2>1. PICK n : /\ n = b \/ \E how : n = c(how)
                 /\ queue' = [queue EXCEPT ![o] = n]
    BY <1>5
  <2>2. n.state = r.state /\ n.leased = r.leased /\ n.reason = r.reason
    BY <1>3, <2>1
  <2>3. queue'[o] = n /\ \A p \in Outcomes \ {o} : queue'[p] = queue[p]
    BY <2>1 DEF TypeOK
  <2> QED
    BY <2>2, <2>3 DEF NoEntry, InFlight, Live, Active
<1> QED
  BY <1>4, <1>5 DEF Lapse, LeaseExpires, ApprovalLapses, AuthorityLapses

LEMMA PrimaryEntry ==
  ASSUME TypeOK, RecordPrimaryAuthorization
  PROVE  NoEntry
  BY PrimaryRows DEF NoEntry, InFlight, Live, Active

\* Whatever supervisors, operator and clock do, a second outcome is in flight
\* only when one of the two was reclaimed after a validation recovery.
THEOREM OnlyOneInFlight == Spec => []OneInFlightUnlessReclaimed
<1>1. Init => OneInFlightUnlessReclaimed
  BY DEF Init, OneInFlightUnlessReclaimed, InFlight, Live, Active, AbsentRow
<1>2. TypeOK /\ OneInFlightUnlessReclaimed /\ [Next]_vars
        => OneInFlightUnlessReclaimed'
  <2> SUFFICES ASSUME TypeOK, OneInFlightUnlessReclaimed, [Next]_vars
               PROVE  OneInFlightUnlessReclaimed'
    OBVIOUS
  <2>1. NoEntry \/ \E o \in Outcomes : OnlyEntry(o) \/ ReclaimedEntry(o)
    <3>1. CASE Next
      BY <3>1, SuperviseEntry, OperateEntry, LapseEntry, PrimaryEntry DEF Next
    <3>2. CASE UNCHANGED vars
      BY <3>2 DEF vars, NoEntry, InFlight, Live, Active
    <3> QED
      BY <3>1, <3>2
  <2>2. CASE NoEntry
    BY <2>2 DEF NoEntry, OneInFlightUnlessReclaimed
  <2>3. CASE \E o \in Outcomes : OnlyEntry(o)
    BY <2>3 DEF OnlyEntry, OneInFlightUnlessReclaimed
  <2>4. CASE \E o \in Outcomes : ReclaimedEntry(o)
    BY <2>4 DEF ReclaimedEntry, OneInFlightUnlessReclaimed, InFlight, Live, Active
  <2> QED
    BY <2>1, <2>2, <2>3, <2>4
<1> QED
  BY <1>1, <1>2, TypeCorrect, PTL DEF Spec

-----------------------------------------------------------------------------
(* Fences and the bindings the supervisors keep.                           *)

\* A binding is saved for a fence that is new, or for the holding it names.
SavedStep ==
  \/ UNCHANGED saved
  \/ \E s \in Supervisors, o \in Outcomes :
       /\ saved' = [saved EXCEPT ![s][o] = TicketOf(queue'[o])]
       /\ \/ queue'[o].fence > queue[o].fence
          \/ /\ queue'[o].fence = queue[o].fence
             /\ queue'[o].key = queue[o].key /\ queue[o].key # 0

LEMMA SuperviseSaves ==
  ASSUME TypeOK, NEW s \in Supervisors, Supervise(s)
  PROVE  SavedStep
<1>1. CASE AcquireNext(s)
  <2>1. ASSUME NEW o \in Outcomes, Eligible(Offered, o), SaveOrLose(s, o),
               queue' = [Offered EXCEPT ![o] = Acquired(@, keys + 1)]
        PROVE  SavedStep
    <3>1. Offered[o] \in {queue[o], Match(queue[o])}
      BY <2>1, OfferedEligible
    <3>2. Offered[o] \in Row /\ Offered[o].fence = queue[o].fence
      BY <3>1, MatchedRow DEF TypeOK
    <3>3. queue'[o] = Acquired(Offered[o], keys + 1)
      BY <2>1, OfferedRows DEF TypeOK
    <3>4. Acquired(Offered[o], keys + 1).fence > Offered[o].fence
      BY <3>2 DEF Acquired, Grant, Row
    <3> QED
      BY <2>1, <3>2, <3>3, <3>4 DEF SaveOrLose, SavedStep
  <2> QED
    BY <1>1, <2>1 DEF AcquireNext, SavedStep, Offered
<1>2. CASE \E o \in Outcomes : AnsweredAgain(s, o)
  <2>1. PICK o \in Outcomes : AnsweredAgain(s, o)
    BY <1>2
  <2>2. PICK n \in {queue[o], Match(queue[o])} : queue' = [queue EXCEPT ![o] = n]
    BY <2>1 DEF AnsweredAgain
  <2>3. queue'[o].fence = queue[o].fence /\ queue'[o].key = queue[o].key
    BY <2>2, MatchedRow DEF TypeOK
  <2> QED
    BY <2>1, <2>3 DEF AnsweredAgain, SaveOrLose, SavedStep
<1>3. CASE \E o \in Outcomes : GrantedAgain(s, o)
  <2>1. PICK o \in Outcomes : GrantedAgain(s, o)
    BY <1>3
  <2>2. PICK n \in {queue[o], Match(queue[o])},
             reason \in Recoveries \cup {"STALE_LEASE_RECOVERED"} :
          /\ queue' = [queue EXCEPT ![o] = Grant(n, n.key, reason)]
          /\ SaveOrLose(s, o)
    BY <2>1 DEF GrantedAgain
  <2>3. n \in Row /\ n.fence = queue[o].fence
    BY MatchedRow DEF TypeOK
  <2>4. Grant(n, n.key, reason).fence > n.fence
    BY <2>3 DEF Grant, Row
  <2>5. queue'[o].fence > queue[o].fence
    BY <2>2, <2>3, <2>4 DEF TypeOK
  <2> QED
    BY <2>2, <2>5 DEF SaveOrLose, SavedStep
<1>4. CASE \E o \in Outcomes : DeferLease(s, o) \/ Terminalize(s, o) \/ Complete(s, o)
  BY <1>4 DEF DeferLease, Terminalize, Complete, SavedStep
<1> QED
  BY <1>1, <1>2, <1>3, <1>4, SuperviseCases DEF TypeOK

LEMMA Saves ==
  ASSUME TypeOK, [Next]_vars
  PROVE  SavedStep
<1>1. ASSUME NEW o \in Outcomes, Operate(o) PROVE UNCHANGED saved
  BY <1>1 DEF Operate, ApproveDecision, MatchAuthority, GovernedApproval, Pause,
       Decline, Supersede, Enqueue, Reorder, ChangeDependencies
<1>2. ASSUME NEW o \in Outcomes, Lapse(o) PROVE UNCHANGED saved
  BY <1>2 DEF Lapse, LeaseExpires, ApprovalLapses, AuthorityLapses
<1> QED
  BY <1>1, <1>2, SuperviseSaves DEF Next, vars, SavedStep, RecordPrimaryAuthorization

\* A binding saved for the fence a row now has names the row's holding.
FenceOfHolding ==
  \A s \in Supervisors, o \in Outcomes :
    saved[s][o].fence = queue[o].fence /\ queue[o].key # 0
      => saved[s][o].key = queue[o].key

FenceInvariant == FencesNameOneHolding /\ FenceOfHolding

LEMMA FenceStep ==
  ASSUME TypeOK, TypeOK', AbsentIsBlank, FenceInvariant, [Next]_vars
  PROVE  FenceInvariant'
<1>1. SavedStep
  BY Saves
<1>2. ASSUME NEW o \in Outcomes
      PROVE  /\ queue[o].fence \in Nat /\ queue'[o].fence \in Nat
             /\ queue'[o].fence >= queue[o].fence
             /\ queue'[o].key # queue[o].key =>
                  queue'[o].key = 0 \/ queue'[o].fence > queue[o].fence
             /\ \A s \in Supervisors : saved[s][o].fence \in Nat
  BY Steps DEF RowStep, TypeOK, Row, Ticket
<1>3. CASE UNCHANGED saved
  BY <1>2, <1>3 DEF FenceInvariant, FencesNameOneHolding, FenceOfHolding
<1>4. ASSUME NEW s \in Supervisors, NEW o \in Outcomes,
             saved' = [saved EXCEPT ![s][o] = TicketOf(queue'[o])],
             \/ queue'[o].fence > queue[o].fence
             \/ /\ queue'[o].fence = queue[o].fence
                /\ queue'[o].key = queue[o].key /\ queue[o].key # 0
      PROVE  FenceInvariant'
  <2>1. /\ saved'[s][o].fence = queue'[o].fence
        /\ saved'[s][o].key = queue'[o].key
        /\ \A t \in Supervisors, p \in Outcomes :
             t # s \/ p # o => saved'[t][p] = saved[t][p]
    BY <1>4 DEF TypeOK, TicketOf
  <2>2. ASSUME NEW t \in Supervisors, NEW p \in Outcomes
        PROVE  /\ saved'[t][p].fence =< queue'[p].fence
               /\ saved'[t][p].fence = queue'[p].fence /\ queue'[p].key # 0
                    => saved'[t][p].key = queue'[p].key
    <3>1. CASE t = s /\ p = o
      BY <1>2, <2>1, <3>1
    <3>2. CASE t # s \/ p # o
      BY <1>2, <2>1, <3>2 DEF FenceInvariant, FencesNameOneHolding, FenceOfHolding
    <3> QED
      BY <3>1, <3>2
  <2>3. ASSUME NEW t \in Supervisors, t # s, saved'[t][o].fence = queue'[o].fence
        PROVE  saved'[t][o].key = queue'[o].key
    BY <1>2, <1>4, <2>1, <2>3 DEF FenceInvariant, FencesNameOneHolding, FenceOfHolding
  <2>4. ASSUME NEW t \in Supervisors, NEW u \in Supervisors, NEW p \in Outcomes,
               saved'[t][p].fence = saved'[u][p].fence
        PROVE  saved'[t][p].key = saved'[u][p].key
    <3>1. CASE p = o /\ (t = s \/ u = s)
      BY <2>1, <2>3, <2>4, <3>1
    <3>2. CASE p # o \/ (t # s /\ u # s)
      BY <2>1, <2>4, <3>2 DEF FenceInvariant, FencesNameOneHolding
    <3> QED
      BY <3>1, <3>2
  <2> QED
    BY <2>2, <2>4 DEF FenceInvariant, FencesNameOneHolding, FenceOfHolding
<1> QED
  BY <1>1, <1>3, <1>4 DEF SavedStep

\* A fence names one holding, among all bindings any supervisor has saved.
THEOREM FencesAreNames == Spec => []FencesNameOneHolding
<1>1. Init => FenceInvariant
  BY DEF Init, FenceInvariant, FencesNameOneHolding, FenceOfHolding, NoTicket,
         AbsentRow
<1>2. TypeOK /\ TypeOK' /\ AbsentIsBlank /\ FenceInvariant /\ [Next]_vars
        => FenceInvariant'
  BY FenceStep
<1>3. FenceInvariant => FencesNameOneHolding
  BY DEF FenceInvariant
<1> QED
  BY <1>1, <1>2, <1>3, AbsentStaysBlank, PTL DEF Spec

-----------------------------------------------------------------------------
(* The operator's edits of the graph, and everything else.                 *)

\* What every step but an edit does to a row: its dependencies stay, it is not
\* superseded by it, and what comes to wait was at work.
KeepsGraph(r, n) ==
  /\ n.deps = r.deps
  /\ n.state = "superseded" <=> r.state = "superseded"
  /\ n.state \in Waiting => r.state \in Waiting \cup {"active"}

GraphKept == \A p \in Outcomes : KeepsGraph(queue[p], queue'[p])

\* Taking dependencies away leaves a graph acyclic.
LEMMA FewerEdges ==
  ASSUME NEW d, NEW e, Acyclic(d), \A o \in Outcomes : e[o] \subseteq d[o]
  PROVE  Acyclic(e)
<1> SUFFICES ASSUME NEW S \in SUBSET Outcomes, S # {}
             PROVE  \E o \in S : e[o] \cap S = {}
  BY DEF Acyclic
<1>1. PICK o \in S : d[o] \cap S = {}
  BY DEF Acyclic
<1> QED
  BY <1>1

\* Nobody depends on itself.
LEMMA NoLoop ==
  ASSUME NEW d, Acyclic(d), NEW o \in Outcomes
  PROVE  o \notin d[o]
<1>1. \E p \in {o} : d[p] \cap {o} = {}
  BY DEF Acyclic
<1> QED
  BY <1>1

\* The successor nobody named yet takes the place of the outcome it supersedes
\* among what that depends on and, for some rows, among what depends on it.
LEMMA Succession ==
  ASSUME NEW d, NEW e, Acyclic(d), NEW o \in Outcomes, NEW new \in Outcomes \ {o},
         \A p \in Outcomes : new \notin d[p],
         e[new] = d[o],
         \A p \in Outcomes \ {new} :
           e[p] = d[p] \/ (o \in d[p] /\ e[p] = (d[p] \ {o}) \cup {new})
  PROVE  Acyclic(e)
<1> SUFFICES ASSUME NEW S \in SUBSET Outcomes, S # {}
             PROVE  \E p \in S : e[p] \cap S = {}
  BY DEF Acyclic
<1>1. CASE new \notin S
  <2>1. PICK p \in S : d[p] \cap S = {}
    BY DEF Acyclic
  <2>2. e[p] \subseteq d[p] \cup {new}
    BY <1>1, <2>1
  <2> QED
    BY <1>1, <2>1, <2>2
<1>2. CASE new \in S
  <2> DEFINE T == (S \ {new}) \cup {o}
  <2>1. T \in SUBSET Outcomes /\ T # {}
    OBVIOUS
  <2>2. PICK p \in T : d[p] \cap T = {}
    BY <2>1 DEF Acyclic
  <2>3. d[p] \cap S = {}
    BY <2>1, <2>2
  <2>4. CASE p = o
    BY <1>2, <2>3, <2>4
  <2>5. CASE p # o
    <3>1. p \in S /\ p # new /\ o \notin d[p]
      BY <2>2, <2>5
    <3> QED
      BY <2>3, <3>1
  <2> QED
    BY <2>4, <2>5
<1> QED
  BY <1>1, <1>2

\* What a statement that is no edit writes keeps the graph.
LEMMA QuietWrites ==
  ASSUME NEW r \in Row, NEW a, NEW b, NEW n \in {r, Match(r)}
  PROVE  /\ KeepsGraph(r, n)
         /\ r.state \in {"active", "approved", "blocked"} => KeepsGraph(r, Grant(n, a, b))
         /\ r.state \in {"active", "approved"} => KeepsGraph(r, Withdraw(r, b))
         /\ r.state = "active" =>
              KeepsGraph(r, Settle(r, "blocked", b)) /\ KeepsGraph(r, Settle(r, "completed", b))
         /\ r.state \in Waiting =>
              /\ KeepsGraph(r, Approve(r))
              /\ KeepsGraph(r, [Rewrite(r, "approved", b) EXCEPT !.approval = "live"])
              /\ KeepsGraph(r, Rewrite(r, "declined", b))
         /\ KeepsGraph(r, [r EXCEPT !.reason = b]) /\ KeepsGraph(r, [r EXCEPT !.leased = FALSE])
         /\ KeepsGraph(r, [r EXCEPT !.approval = a]) /\ KeepsGraph(r, [r EXCEPT !.authority = a])
<1>0. n \in Row /\ n.state = r.state /\ n.deps = r.deps
  BY MatchedRow
<1>1. CASE r.state \in States
  <2>1. KeepsGraph(r, n)
    BY <1>0, <1>1 DEF KeepsGraph, States, Waiting, Terminals
  <2> QED
    BY <1>0, <2>1
    DEF KeepsGraph, Row, Grant, Withdraw, Settle, Approve, Rewrite, Waiting
<1> QED
  BY <1>1 DEF Row

LEMMA OneRowGraph ==
  ASSUME TypeOK, NEW o \in Outcomes, NEW n, KeepsGraph(queue[o], n),
         queue' = [queue EXCEPT ![o] = n]
  PROVE  GraphKept
<1> SUFFICES ASSUME NEW p \in Outcomes PROVE KeepsGraph(queue[p], queue'[p])
  BY DEF GraphKept
<1>1. CASE p = o
  BY <1>1 DEF TypeOK
<1>2. CASE p # o
  <2>1. queue'[p] = queue[p] /\ queue[p] \in Row
    BY <1>2 DEF TypeOK
  <2> QED
    BY <2>1, QuietWrites
<1> QED
  BY <1>1, <1>2

LEMMA SuperviseKeepsGraph ==
  ASSUME TypeOK, NEW s \in Supervisors, Supervise(s)
  PROVE  GraphKept
<1>0. \A o \in Outcomes : queue[o] \in Row
  BY DEF TypeOK
<1>1. CASE AcquireNext(s)
  <2>1. Offered \in [Outcomes -> Row]
    BY OfferedRows DEF TypeOK
  <2>2. ASSUME NEW p \in Outcomes
        PROVE  KeepsGraph(queue[p], Offered[p])
    <3> DEFINE W == Withdraw(queue[p], "STALE_LEASE_AUTHORIZATION_INELIGIBLE")
    <3>1. \/ Offered[p] \in {queue[p], Match(queue[p])}
          \/ queue[p].state = "active" /\ Offered[p] = W
      BY OfferedRows DEF TypeOK
    <3>2. queue[p].state = "active" => KeepsGraph(queue[p], W)
      BY <1>0, QuietWrites
    <3>3. Offered[p] \in {queue[p], Match(queue[p])} => KeepsGraph(queue[p], Offered[p])
      BY <1>0, QuietWrites
    <3> HIDE DEF W
    <3> QED
      BY <3>1, <3>2, <3>3
  <2>3. ASSUME NEW o \in Outcomes, Eligible(Offered, o),
               queue' = [Offered EXCEPT ![o] = Acquired(@, keys + 1)]
        PROVE  GraphKept
    <3>1. /\ Offered[o] \in {queue[o], Match(queue[o])}
          /\ queue[o].state \in {"active", "approved"}
      BY <2>3, OfferedEligible
    <3>2. KeepsGraph(queue[o], Acquired(Offered[o], keys + 1))
      BY <1>0, <3>1, QuietWrites DEF Acquired
    <3> QED
      BY <2>1, <2>2, <2>3, <3>2 DEF GraphKept
  <2>4. CASE queue' = Offered
    BY <2>2, <2>4 DEF GraphKept
  <2> QED
    BY <1>1, <2>3, <2>4 DEF AcquireNext, Offered
<1>2. ASSUME NEW o \in Outcomes, AnsweredAgain(s, o) PROVE GraphKept
  BY <1>0, <1>2, QuietWrites, OneRowGraph DEF AnsweredAgain
<1>3. ASSUME NEW o \in Outcomes, GrantedAgain(s, o) PROVE GraphKept
  <2>1. PICK n \in {queue[o], Match(queue[o])},
             reason \in Recoveries \cup {"STALE_LEASE_RECOVERED"} :
          /\ queue' = [queue EXCEPT ![o] = Grant(n, n.key, reason)]
          /\ queue[o].state \in {"active", "blocked"}
    BY <1>3 DEF GrantedAgain
  <2>2. KeepsGraph(queue[o], Grant(n, n.key, reason))
    BY <1>0, <2>1, QuietWrites
  <2> QED
    BY <2>1, <2>2, OneRowGraph
<1>4. ASSUME NEW o \in Outcomes, DeferLease(s, o) PROVE GraphKept
  <2>1. queue' = [queue EXCEPT ![o] = [queue[o] EXCEPT !.reason = "PROVIDER_UNAVAILABLE"]]
    BY <1>4 DEF DeferLease
  <2> QED
    BY <1>0, <2>1, QuietWrites, OneRowGraph
<1>5. ASSUME NEW o \in Outcomes, Terminalize(s, o) \/ Complete(s, o) PROVE GraphKept
  <2>1. queue[o].state = "active"
    BY <1>5 DEF Terminalize, Complete, Holds, Live, Active
  <2>2. PICK n : /\ \E b : n \in {Settle(queue[o], "blocked", b), Settle(queue[o], "completed", b)}
                 /\ queue' = [queue EXCEPT ![o] = n]
    BY <1>5 DEF Terminalize, Complete
  <2> QED
    BY <1>0, <2>1, <2>2, QuietWrites, OneRowGraph
<1> QED
  BY <1>1, <1>2, <1>3, <1>4, <1>5, SuperviseCases DEF TypeOK

LEMMA LapseKeepsGraph ==
  ASSUME TypeOK, NEW o \in Outcomes, Lapse(o)
  PROVE  GraphKept
<1> DEFINE r == queue[o]
           a == [r EXCEPT !.leased = FALSE]
           b == [r EXCEPT !.approval = "lapsed"]
           c(how) == [r EXCEPT !.authority = how]
<1>1. PICK n : /\ n \in {a, b} \/ \E how : n = c(how)
               /\ queue' = [queue EXCEPT ![o] = n]
  BY DEF Lapse, LeaseExpires, ApprovalLapses, AuthorityLapses
<1>2. KeepsGraph(r, n)
  <2>1. r \in Row
    BY DEF TypeOK
  <2>2. KeepsGraph(r, a) /\ KeepsGraph(r, b)
    BY <2>1, QuietWrites
  <2>3. \A how : KeepsGraph(r, c(how))
    BY <2>1, QuietWrites
  <2> HIDE DEF r, a, b, c
  <2> QED
    BY <1>1, <2>2, <2>3
<1> QED
  BY <1>1, <1>2, OneRowGraph

LEMMA PrimaryKeepsGraph ==
  ASSUME TypeOK, RecordPrimaryAuthorization
  PROVE  GraphKept
<1> SUFFICES ASSUME NEW p \in Outcomes PROVE KeepsGraph(queue[p], queue'[p])
  BY DEF GraphKept
<1>1. queue[p] \in Row
  BY DEF TypeOK
<1> QED
  BY <1>1, PrimaryRows, QuietWrites DEF Waiting

\* The operator's decisions are no edits of the graph.
LEMMA DecisionsKeepGraph ==
  ASSUME TypeOK, NEW o \in Outcomes,
         \/ ApproveDecision(o) \/ MatchAuthority(o) \/ GovernedApproval(o)
         \/ Pause(o) \/ Decline(o)
  PROVE  GraphKept
<1> DEFINE r == queue[o]
<1>0. r \in Row
  BY DEF TypeOK
<1>1. CASE ApproveDecision(o) \/ MatchAuthority(o) \/ GovernedApproval(o)
  <2> DEFINE a == [Rewrite(r, "approved", "none") EXCEPT !.approval = "live"]
             b == Approve(r)
             c == Match(r)
  <2>1. PICK n \in {a, b, c} : queue' = [queue EXCEPT ![o] = n]
    BY <1>1 DEF ApproveDecision, MatchAuthority, GovernedApproval
  <2>2. r.state \in Waiting
    BY <1>1 DEF ApproveDecision, MatchAuthority, GovernedApproval, Waiting
  <2>3. KeepsGraph(r, a) /\ KeepsGraph(r, b)
    BY <1>0, <2>2, QuietWrites
  <2>4. KeepsGraph(r, c)
    BY <1>0, QuietWrites
  <2> HIDE DEF a, b, c
  <2>5. KeepsGraph(r, n)
    BY <2>1, <2>3, <2>4
  <2> QED
    BY <2>1, <2>5, OneRowGraph
<1>2. CASE Pause(o)
  <2>1. PICK why : queue' = [queue EXCEPT ![o] = Withdraw(r, why)]
    BY <1>2 DEF Pause
  <2>2. KeepsGraph(r, Withdraw(r, why))
    BY <1>0, <1>2, QuietWrites DEF Pause
  <2> QED
    BY <2>1, <2>2, OneRowGraph
<1>3. CASE Decline(o)
  <2>1. KeepsGraph(r, Rewrite(r, "declined", "OPERATOR_DECLINED"))
    BY <1>0, <1>3, QuietWrites DEF Decline
  <2> QED
    BY <1>3, <2>1, OneRowGraph DEF Decline
<1> QED
  BY <1>1, <1>2, <1>3

-----------------------------------------------------------------------------
(* The graph stays live.                                                   *)

\* Work that waits again depends on completed work only: it was active.
LEMMA KeptIsLive ==
  ASSUME TypeOK, DependenciesFirst, GraphIsLive, GraphKept
  PROVE  GraphIsLive'
<1>1. Deps(queue') = Deps(queue)
  BY DEF GraphKept, KeepsGraph, Deps
<1>2. ASSUME NEW o \in Outcomes, queue'[o].state \in Waiting, NEW d \in queue'[o].deps
      PROVE  queue'[d].state # "superseded"
  <2>1. d \in queue[o].deps /\ d \in Outcomes
    BY <1>2 DEF GraphKept, KeepsGraph, TypeOK, Row
  <2>2. queue[d].state # "superseded"
    <3>1. queue[o].state \in Waiting \cup {"active"}
      BY <1>2 DEF GraphKept, KeepsGraph
    <3> QED
      BY <2>1, <3>1 DEF GraphIsLive, DependenciesFirst, DependenciesCompleted
  <2> QED
    BY <2>1, <2>2 DEF GraphKept, KeepsGraph
<1> QED
  BY <1>1, <1>2 DEF GraphIsLive

\* A row gets dependencies, none of which is superseded, and the graph they
\* make was looked at.
LEMMA EditIsLive ==
  ASSUME TypeOK, GraphIsLive, NEW o \in Outcomes, NEW D \in SUBSET Outcomes, NEW n,
         n.deps = D, n.state # "superseded", queue' = [queue EXCEPT ![o] = n],
         \A d \in D : queue[d].state # "superseded",
         D # {} => Acyclic([Deps(queue) EXCEPT ![o] = D])
  PROVE  GraphIsLive'
<1>1. Deps(queue') = [Deps(queue) EXCEPT ![o] = D]
  BY DEF Deps, TypeOK
<1>2. Acyclic(Deps(queue'))
  <2>1. CASE D # {}
    BY <1>1, <2>1
  <2>2. CASE D = {}
    <3>1. \A p \in Outcomes : Deps(queue')[p] \subseteq Deps(queue)[p]
      BY <1>1, <2>2 DEF Deps
    <3> QED
      BY <3>1, FewerEdges DEF GraphIsLive
  <2> QED
    BY <2>1, <2>2
<1>3. \A p \in Outcomes : queue'[p].state = "superseded" => queue[p].state = "superseded"
  BY DEF TypeOK
<1>4. ASSUME NEW p \in Outcomes, queue'[p].state \in Waiting, NEW d \in queue'[p].deps
      PROVE  queue'[d].state # "superseded"
  <2>1. CASE p = o
    <3>1. d \in D
      BY <1>4, <2>1 DEF TypeOK
    <3> QED
      BY <1>3, <3>1
  <2>2. CASE p # o
    <3>1. queue'[p] = queue[p] /\ d \in Outcomes
      BY <1>4, <2>2 DEF TypeOK, Row
    <3> QED
      BY <1>3, <1>4, <3>1 DEF GraphIsLive
  <2> QED
    BY <2>1, <2>2
<1> QED
  BY <1>2, <1>4 DEF GraphIsLive

\* The successor inherits what the superseded outcome waited for, and the rows
\* that waited for that wait for the successor.
LEMMA SupersedeIsLive ==
  ASSUME TypeOK, DependenciesFirst, GraphIsLive, NEW o \in Outcomes,
         NEW new \in Outcomes \ {o}, Supersede(o, new)
  PROVE  GraphIsLive'
<1> DEFINE r == queue[o]
           old == Rewrite(r, "superseded", "OPERATOR_SUPERSEDED")
           successor == [AbsentRow EXCEPT !.state = "suggested", !.deps = r.deps]
           replaced == [queue EXCEPT ![o] = old, ![new] = successor]
<1>1. /\ r.state \in Waiting /\ queue[new].state = "absent"
      /\ \A p \in Outcomes : new \notin queue[p].deps
      /\ queue' = [p \in Outcomes |-> Rebind(replaced[p], o, new)]
  BY DEF Supersede
<1>2. /\ replaced[o] = old /\ replaced[new] = successor
      /\ \A p \in Outcomes \ {o, new} : replaced[p] = queue[p]
  BY DEF TypeOK
<1>3. r \in Row /\ r.deps \subseteq Outcomes /\ o \notin r.deps
  BY NoLoop DEF TypeOK, Row, GraphIsLive, Deps
<1>4. old.state = "superseded" /\ old.deps = r.deps
  BY <1>3 DEF Rewrite, Row
<1>5. successor.state = "suggested" /\ successor.deps = r.deps
  BY DEF AbsentRow
<1> HIDE DEF old, successor, replaced
<1>6. queue'[o] = old
  <2>1. queue'[o] = Rebind(old, o, new)
    BY <1>1, <1>2
  <2>2. old.state \notin Waiting
    BY <1>4 DEF Waiting
  <2> QED
    BY <2>1, <2>2 DEF Rebind
<1>7. queue'[new] = successor
  <2>1. queue'[new] = Rebind(successor, o, new)
    BY <1>1, <1>2
  <2> QED
    BY <1>3, <1>5, <2>1 DEF Rebind
<1>8. ASSUME NEW p \in Outcomes \ {o, new}
      PROVE  /\ queue'[p].state = queue[p].state
             /\ IF queue[p].state \in Waiting /\ o \in queue[p].deps
                  THEN queue'[p].deps = (queue[p].deps \ {o}) \cup {new}
                  ELSE queue'[p].deps = queue[p].deps
  <2>1. queue'[p] = Rebind(queue[p], o, new)
    BY <1>1, <1>2
  <2>2. queue[p] \in Row
    BY DEF TypeOK
  <2> QED
    BY <2>1, <2>2 DEF Rebind, Row
<1>9. Acyclic(Deps(queue'))
  <2> DEFINE d == Deps(queue)
             e == Deps(queue')
  <2>1. \A p \in Outcomes : d[p] = queue[p].deps /\ e[p] = queue'[p].deps
    BY DEF Deps
  <2>2. Acyclic(d) /\ \A p \in Outcomes : new \notin d[p]
    BY <1>1, <2>1 DEF GraphIsLive
  <2>3. e[new] = d[o] /\ e[o] = d[o]
    BY <1>4, <1>5, <1>6, <1>7, <2>1
  <2>4. \A p \in Outcomes \ {new} :
          e[p] = d[p] \/ (o \in d[p] /\ e[p] = (d[p] \ {o}) \cup {new})
    BY <1>8, <2>1, <2>3
  <2> HIDE DEF d, e
  <2>5. Acyclic(e)
    BY <2>2, <2>3, <2>4, Succession
  <2> QED
    BY <2>5 DEF e
<1>10. ASSUME NEW p \in Outcomes, queue'[p].state \in Waiting, NEW d \in queue'[p].deps
       PROVE  queue'[d].state # "superseded"
  <2>1. p # o
    BY <1>4, <1>6, <1>10 DEF Waiting
  <2>2. d = new \/ (d # o /\ d \in Outcomes /\ queue[d].state # "superseded")
    <3>1. CASE p = new
      BY <1>1, <1>3, <1>5, <1>7, <1>10, <3>1 DEF GraphIsLive
    <3>2. CASE p # new
      BY <1>8, <1>10, <2>1, <3>2 DEF GraphIsLive, TypeOK, Row
    <3> QED
      BY <3>1, <3>2
  <2> QED
    BY <1>5, <1>7, <1>8, <2>2
<1> QED
  BY <1>9, <1>10 DEF GraphIsLive

LEMMA StepsKeepGraphLive ==
  ASSUME TypeOK, DependenciesFirst, GraphIsLive, [Next]_vars
  PROVE  GraphIsLive'
<1>1. CASE UNCHANGED vars
  BY <1>1 DEF vars, GraphIsLive
<1>2. CASE (\E s \in Supervisors : Supervise(s)) \/ RecordPrimaryAuthorization
             \/ \E o \in Outcomes : Lapse(o)
  BY <1>2, SuperviseKeepsGraph, PrimaryKeepsGraph, LapseKeepsGraph, KeptIsLive
<1>3. ASSUME NEW o \in Outcomes, Operate(o) PROVE GraphIsLive'
  <2>1. CASE \/ ApproveDecision(o) \/ MatchAuthority(o) \/ GovernedApproval(o)
             \/ Pause(o) \/ Decline(o)
    BY <2>1, DecisionsKeepGraph, KeptIsLive
  <2>2. CASE \E new \in Outcomes \ {o} : Supersede(o, new)
    BY <2>2, SupersedeIsLive
  <2>3. ASSUME NEW D \in SUBSET Outcomes, Enqueue(o, D) PROVE GraphIsLive'
    <3> DEFINE n == IF queue[o].state = "absent"
                      THEN [AbsentRow EXCEPT !.state = "suggested", !.deps = D]
                      ELSE Depend(queue[o], D)
    <3>1. n.deps = D /\ n.state = "suggested"
      BY <2>3 DEF Enqueue, AbsentRow, Depend, TypeOK, Row
    <3>2. queue' = [queue EXCEPT ![o] = n]
      BY <2>3 DEF Enqueue
    <3> HIDE DEF n
    <3> QED
      BY <2>3, <3>1, <3>2, EditIsLive DEF Enqueue
  <2>4. ASSUME NEW D \in SUBSET Outcomes, ChangeDependencies(o, D) PROVE GraphIsLive'
    <3>1. Depend(queue[o], D).deps = D /\ Depend(queue[o], D).state \in Waiting
      BY <2>4 DEF ChangeDependencies, Depend, TypeOK, Row
    <3> QED
      BY <2>4, <3>1, EditIsLive DEF ChangeDependencies, Waiting
  <2>5. CASE Reorder(o)
    <3>1. GraphKept
      BY <2>5, ReorderedRows DEF GraphKept, KeepsGraph, TypeOK, Waiting
    <3> QED
      BY <3>1, KeptIsLive
  <2> QED
    BY <1>3, <2>1, <2>2, <2>3, <2>4, <2>5 DEF Operate
<1> QED
  BY <1>1, <1>2, <1>3 DEF Next

\* The operator's edits never tie outcomes into a cycle, and what waits is never
\* left behind a superseded outcome, however often work is taken back to wait.
THEOREM GraphStaysLive == Spec => []GraphIsLive
<1>1. Init => GraphIsLive
  <2> SUFFICES ASSUME Init PROVE GraphIsLive
    OBVIOUS
  <2>0. \A o \in Outcomes : queue[o].deps = {}
    BY DEF Init, AbsentRow
  <2>1. \A o \in Outcomes : Deps(queue)[o] = {}
    BY <2>0 DEF Deps
  <2>2. Acyclic(Deps(queue))
    <3> SUFFICES ASSUME NEW S \in SUBSET Outcomes, S # {}
                 PROVE  \E o \in S : Deps(queue)[o] \cap S = {}
      BY DEF Acyclic
    <3>1. PICK o \in S : TRUE
      OBVIOUS
    <3>2. Deps(queue)[o] = {}
      BY <2>1
    <3> QED
      BY <3>2
  <2> QED
    BY <2>0, <2>2 DEF GraphIsLive
<1>2. TypeOK /\ DependenciesFirst /\ GraphIsLive /\ [Next]_vars => GraphIsLive'
  BY StepsKeepGraphLive
<1> QED
  BY <1>1, <1>2, TypeCorrect, DependenciesAreMet, PTL DEF Spec
=============================================================================
