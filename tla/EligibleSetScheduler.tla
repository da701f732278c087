------------------------- MODULE EligibleSetScheduler -------------------------
(***************************************************************************)
(* The eligible-set scheduler.  It hands work orders to workers, records   *)
(* what the providers answer, reaps the claims whose answer stayed         *)
(* ambiguous, and recovers from its own death.                             *)
(*                                                                         *)
(* A claim lives in four durable places that no write changes together:    *)
(* the scheduler state, the journal of transactions, the reservation       *)
(* ledger and the lane-lease store with its evidence ledger.  One call     *)
(* runs at a time (the scheduler lock), and each of its writes is a step   *)
(* of this module: between any two the process may die, a lease may run    *)
(* out, and every write may fail.                                          *)
(*                                                                         *)
(* The identity of a claim is its work order: a second claim for the same  *)
(* lane is refused as a replay.  Who may claim at all (trust, authority,   *)
(* the DAG, the ranking of candidates) is decided before the first write   *)
(* and shows here as the choice of the works a call names.                 *)
(***************************************************************************)
EXTENDS LaneLeases, ReservationLedger, FiniteSets, SequencesExt

CONSTANTS
  Capacity,        \* the global budget
  MaxReservations, \* bound of the reservation tokens ever issued
  MaxJournal,      \* bound of the pending transactions a call may start with
  MaxMishaps       \* bound of the deaths, failed writes and leases that run out

ASSUME SchedulerAssumption ==
  /\ IsFiniteSet(Works) /\ Capacity \in Nat
  /\ MaxReservations \in Nat /\ MaxJournal \in Nat
  /\ MaxMishaps \in Nat

VARIABLES
  sched,     \* the scheduler state on disk: one entry per work order
  journal,   \* the transactions on disk whose phase is not terminal
  evidence,  \* the events of the evidence ledger
  pc,        \* the next step of the call that holds the scheduler lock
  call,      \* what that call is doing
  mem,       \* its copy of the scheduler state
  jm,        \* recovery's copy of the journal
  mishaps,   \* deaths, failed writes and leases that ran out so far
  orphans,   \* works whose fence was lost with the process before the journal named it
  torn       \* works whose entry was lost after the journal called it done, until a scan

storeVars == <<laneVars, ledgerVars, evidence>>
lostVars == <<orphans, torn>>
vars == <<storeVars, sched, journal, pc, call, mem, jm, mishaps, lostVars>>

Places == {"NONE", "ACTIVE", "RECONCILIATION", "RELEASED"}

\* What the provider answered: RUNNING stands for every answer that ends
\* nothing, FAILED for CANCELLED too, UNKNOWN for every answer that cannot be
\* attributed or was not received.
Answers == {"RUNNING", "SUCCEEDED", "FAILED", "UNKNOWN"}
EndsClaim(k) == k \in {"SUCCEEDED", "FAILED"}

Outcomes == Answers \cup {"NONE", "AMBIGUOUS_REAPED", "STORE_DIVERGENCE_COMPENSATED"}

\* ev is the lease and the checkpoint the entry's last event is about;
\* rebound is set while the lease is not the one its owner's proof names.
NoEntry == [place |-> "NONE", lease |-> 0, res |-> 0, life |-> "PLANNED",
            ev |-> <<0, 0>>, rebound |-> FALSE, outcome |-> "NONE"]

NoCall == [op |-> "NONE", todo |-> <<>>, made |-> <<>>, w |-> "NONE",
           kind |-> "NONE", need |-> 0, targets |-> <<>>, second |-> FALSE,
           res |-> 0, lease |-> 0, undo |-> <<>>, failed |-> FALSE,
           at |-> 0, first |-> {}, left |-> {}, wrote |-> FALSE, changed |-> FALSE]

Transaction(op, works, kind, lease) ==
  [op |-> op, works |-> works, kind |-> kind, phase |-> "INTENT", res |-> 0, lease |-> lease]

ClosedPhases == {"COMMITTED", "ROLLED_BACK", "SUPERSEDED_BY_REAP"}

\* The elements of s at the positions of I, in their order.
Kept(s, I) ==
  LET kept[n \in 0 .. Len(s)] ==
        IF n = 0 THEN <<>>
        ELSE IF n \in I THEN Append(kept[n - 1], s[n]) ELSE kept[n - 1]
  IN  kept[Len(s)]

\* Nothing reads a transaction again once its phase is terminal.
Pending(j) == Kept(j, {i \in DOMAIN j : j[i].phase \notin ClosedPhases})

Mentions(t, w) == \E i \in DOMAIN t.works : t.works[i] = w
OpenFor(w) == \E i \in DOMAIN journal : Mentions(journal[i], w)

\* advanceTransaction: the transaction of this call about works ws.
Mine(ws) == CHOOSE i \in DOMAIN journal :
  journal[i].works = ws /\ \A j \in i + 1 .. Len(journal) : journal[j].works # ws
Advanced(ws, phase) == [journal EXCEPT ![Mine(ws)].phase = phase]

Holders(s) == {w \in Works : s[w].place \in {"ACTIVE", "RECONCILIATION"}}

-----------------------------------------------------------------------------
\* Control.  A store either does what it is asked, refuses (ok is false), or
\* fails to write; the caller cannot tell the last two apart.
Try(ok, Succeed, Fail) ==
  \/ ok /\ Succeed /\ UNCHANGED mishaps
  \/ ~ok /\ Fail /\ UNCHANGED mishaps
  \/ ok /\ mishaps < MaxMishaps /\ Fail /\ mishaps' = mishaps + 1

Goto(l) == pc' = l
At(l) == pc = l /\ UNCHANGED lostVars

\* The call ends, leaving transactions j behind, and the lock is released.
EndCall(j) ==
  /\ journal' = Pending(j)
  /\ Goto("idle") /\ call' = NoCall
  /\ mem' = [w \in Works |-> NoEntry] /\ jm' = <<>>

Begin(c, l) ==
  /\ pc = "idle" /\ Goto(l)
  /\ mem' = sched
  /\ call' = c
  /\ UNCHANGED <<storeVars, sched, mishaps, lostVars>>

-----------------------------------------------------------------------------
\* scheduleEligibleSet
StartSchedule(order) ==
  /\ nextReservationFence <= MaxReservations /\ Len(journal) < MaxJournal
  /\ Begin([NoCall EXCEPT !.op = "SCHEDULE", !.todo = order], "pick")
  /\ UNCHANGED <<journal, jm>>

\* Mutant: a fenced claim gives its capacity back.
FaultyHasCapacity == Cardinality({w \in Works : mem[w].place = "ACTIVE"}) < Capacity

\* The claims of the fenced reconciliations count: their workers may be alive.
HasCapacity == Cardinality(Holders(mem)) < Capacity

\* Mutant: the reservation ledger alone keeps conflicting works apart.
FaultyBlocked(w) == mem[w].place # "NONE" \/ ~HasCapacity

Blocked(w) ==
  \/ mem[w].place # "NONE"
  \/ ~HasCapacity
  \/ \E v \in Holders(mem) : {v, w} \in Conflicts

\* The catch clauses of a batch: every claim made so far is taken back, the
\* last one first.
TakeBack(claims) ==
  IF claims = <<>> THEN EndCall(journal)
  ELSE /\ Goto("undoLease")
       /\ call' = [call EXCEPT !.undo = claims, !.failed = FALSE]
       /\ UNCHANGED <<journal, mem, jm>>

Claim(w) == [w |-> w, res |-> mem[w].res, lease |-> mem[w].lease]
ClaimsMade == Reverse([i \in DOMAIN call.made |-> Claim(call.made[i])])
Unfinished == [w |-> call.w, res |-> call.res, lease |-> call.lease]
ClaimFails == TakeBack(<<Unfinished>> \o ClaimsMade)

Skip ==
  /\ At("pick") /\ call.todo # <<>> /\ Blocked(Head(call.todo))
  /\ call' = [call EXCEPT !.todo = Tail(@)]
  /\ UNCHANGED <<storeVars, sched, journal, pc, mem, jm, mishaps>>

BeginTransaction ==
  /\ At("pick") /\ call.todo # <<>> /\ ~Blocked(Head(call.todo))
  /\ LET w == Head(call.todo) IN
     Try(TRUE,
         /\ journal' = Append(journal, Transaction("SCHEDULE", <<w>>, "NONE", 0))
         /\ Goto("reserve")
         /\ call' = [call EXCEPT !.w = w, !.todo = Tail(@), !.res = 0, !.lease = 0]
         /\ UNCHANGED <<mem, jm>>,
         TakeBack(ClaimsMade))
  /\ UNCHANGED <<storeVars, sched>>

AcquireReservation ==
  /\ At("reserve")
  /\ Try(MayReserve(call.w),
         /\ Reserve(call.w)
         /\ Goto("noteReservation") /\ call' = [call EXCEPT !.res = reserved'[call.w]]
         /\ UNCHANGED <<journal, mem, jm>>,
         ClaimFails /\ UNCHANGED ledgerVars)
  /\ UNCHANGED <<laneVars, evidence, sched>>

NoteReservation ==
  /\ At("noteReservation")
  /\ Try(TRUE,
         /\ journal' = [journal EXCEPT ![Mine(<<call.w>>)].res = call.res]
         /\ Goto("lease") /\ UNCHANGED <<call, mem, jm>>,
         ClaimFails)
  /\ UNCHANGED <<storeVars, sched>>

\* The store answers a repeated acquisition with what it answered first.
AcquireLaneLease ==
  /\ At("lease")
  /\ Try(TRUE,
         /\ IF lanes[call.w].status = "NONE" THEN AcquireLease(call.w) ELSE UNCHANGED laneVars
         /\ Goto("noteLease") /\ call' = [call EXCEPT !.lease = lanes'[call.w].first]
         /\ UNCHANGED <<journal, mem, jm>>,
         ClaimFails /\ UNCHANGED laneVars)
  /\ UNCHANGED <<ledgerVars, evidence, sched>>

NoteLease ==
  /\ At("noteLease")
  /\ Try(TRUE,
         /\ journal' = [journal EXCEPT ![Mine(<<call.w>>)].lease = call.lease]
         /\ Goto("dispatch") /\ UNCHANGED <<call, mem, jm>>,
         ClaimFails)
  /\ UNCHANGED <<storeVars, sched>>

\* A repetition is recognised by its evidence, which names the reservation.
IsRepeatedDispatch == lanes[call.w].under # 0 /\ lanes[call.w].under = call.res
MayDispatch ==
  \/ IsRepeatedDispatch
  \/ lanes[call.w].under = 0 /\ MayCheckpoint(call.w, call.lease, "PROVIDER_DISPATCHED")

Dispatch ==
  /\ At("dispatch")
  /\ Try(MayDispatch,
         /\ IF IsRepeatedDispatch THEN UNCHANGED laneVars
            ELSE CheckpointLane(call.w, call.lease, "PROVIDER_DISPATCHED", call.res)
         /\ Goto("dispatchEvidence") /\ UNCHANGED <<journal, call, mem, jm>>,
         ClaimFails /\ UNCHANGED laneVars)
  /\ UNCHANGED <<ledgerVars, evidence, sched>>

Event(kind, w) == [kind |-> kind, w |-> w, fence |-> lanes[w].fence, seq |-> lanes[w].seq]
EventsOf(kind, w) == {e \in evidence : e.kind = kind /\ e.w = w}

\* An identity is dispatched once: the same event at a later time is refused.
DispatchEvidence ==
  /\ At("dispatchEvidence")
  /\ LET w == call.w IN
     Try(Current(w, call.lease) /\ EventsOf("TRANSITION", w) = {},
         /\ evidence' = evidence \cup {Event("TRANSITION", w)}
         /\ mem' = [mem EXCEPT ![w] =
              [NoEntry EXCEPT !.place = "ACTIVE", !.lease = call.lease, !.res = call.res,
                 !.life = "PROVIDER_DISPATCHED", !.ev = <<lanes[w].fence, lanes[w].seq>>]]
         /\ Goto("pick") /\ call' = [call EXCEPT !.made = Append(@, w)]
         /\ UNCHANGED <<journal, jm>>,
         ClaimFails /\ UNCHANGED evidence)
  /\ UNCHANGED <<laneVars, ledgerVars, sched>>

SaveSchedule ==
  /\ At("pick") /\ call.todo = <<>>
  /\ Try(TRUE,
         sched' = mem /\ Goto("commit") /\ UNCHANGED <<journal, call, mem, jm>>,
         TakeBack(ClaimsMade) /\ UNCHANGED sched)
  /\ UNCHANGED storeVars

CommitSchedule ==
  /\ At("commit")
  /\ IF call.made = <<>> THEN EndCall(journal) /\ UNCHANGED mishaps
     ELSE Try(TRUE,
              /\ journal' = Advanced(<<Head(call.made)>>, "COMMITTED")
              /\ call' = [call EXCEPT !.made = Tail(@)]
              /\ UNCHANGED <<pc, mem, jm>>,
              EndCall(journal))
  /\ UNCHANGED <<storeVars, sched>>

-----------------------------------------------------------------------------
\* rollbackPhaseTwoClaim, for a batch that failed and for recovery alike.  A
\* refusal is remembered and does not stop the release of the reservation.
Undoing == Head(call.undo)

\* A lane that the rollback released before answers as it did then.
MayUndoLease(c) == lanes[c.w].status = "RELEASED" \/ Current(c.w, c.lease)

Noting(f, l) == call' = [call EXCEPT !.failed = @ \/ f] /\ Goto(l)

UndoLease ==
  /\ At("undoLease")
  /\ LET c == Undoing IN
     IF c.lease = 0 THEN Noting(FALSE, "undoReservation") /\ UNCHANGED <<laneVars, mishaps>>
     ELSE Try(MayUndoLease(c),
              /\ IF lanes[c.w].status = "RELEASED" THEN UNCHANGED laneVars
                 ELSE ReleaseLease(c.w, c.lease)
              /\ Noting(FALSE, "undoReservation"),
              Noting(TRUE, "undoReservation") /\ UNCHANGED laneVars)
  /\ UNCHANGED <<ledgerVars, evidence, sched, journal, mem, jm>>

UndoReservation ==
  /\ At("undoReservation")
  /\ LET c == Undoing IN
     IF c.res = 0 THEN Noting(FALSE, "undone") /\ UNCHANGED <<ledgerVars, mishaps>>
     ELSE Try(MayFree(c.w, c.res),
              Free(c.w, c.res) /\ Noting(FALSE, "undone"),
              Noting(TRUE, "undone") /\ UNCHANGED ledgerVars)
  /\ UNCHANGED <<laneVars, evidence, sched, journal, mem, jm>>

\* Mutant: a rollback that was refused counts as done.
FaultyUndoPhase == "ROLLED_BACK"

UndoPhase == IF call.failed THEN "RECOVERY_REQUIRED" ELSE "ROLLED_BACK"

\* The fences of the claim that only the running call knows.
NotJournaled(w) ==
  LET t == journal[Mine(<<w>>)] IN
  t.phase = "INTENT" /\ (call.res # t.res \/ call.lease # t.lease)

Undone ==
  /\ pc = "undone" /\ call.op = "SCHEDULE"
  /\ LET w == Undoing.w
         j == Advanced(<<w>>, UndoPhase)
         more == Tail(call.undo)
     IN /\ Try(TRUE,
               IF more = <<>> THEN EndCall(j)
               ELSE /\ journal' = j /\ Goto("undoLease")
                    /\ call' = [call EXCEPT !.undo = more, !.failed = FALSE]
                    /\ UNCHANGED <<mem, jm>>,
               EndCall(journal))
        /\ orphans' = IF call.failed /\ w = call.w /\ NotJournaled(w)
                      THEN orphans \cup {w} ELSE orphans
  /\ UNCHANGED <<storeVars, sched, torn>>
=============================================================================
