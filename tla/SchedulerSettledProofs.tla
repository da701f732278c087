------------------------- MODULE SchedulerSettledProofs -------------------------
(***************************************************************************)
(* Settled and traceable claims of the eligible-set scheduler, for any     *)
(* works, conflicts and budget, and any number of deaths, failed writes    *)
(* and lapsing leases.                                                     *)
(***************************************************************************)
EXTENDS SchedulerProofs

(* Settled claims.  Between calls a claim is what the stores hold, or a    *)
(* pending transaction will look at it again.  Below, e is the entry of a  *)
(* work in the state or in its copy, l its lane, r its reservation.        *)

Held(e) == e.place \in {"ACTIVE", "RECONCILIATION"}

\* The lane and the reservation of a claim go together until the lane is
\* released; a claim never had less than both.
Live(e, l, r) ==
  Held(e) /\ l.status # "RELEASED" => l.status \in {"ACTIVE", "EXPIRED"} /\ r = e.res

Faithful(e, l) ==
  /\ l.status # "RELEASED" /\ l.life = e.life
  /\ e.place = "RECONCILIATION" => l.fence = e.lease

\* Which pending transaction makes up for an entry that is not faithful.  That
\* of a schedule never does: replay closes it as soon as the claim is there.
\* That of progress only explains a checkpoint of an active claim.
Pends(t) == t.phase \notin ClosedPhases
Speaks(t, w) == Pends(t) /\ t.op # "SCHEDULE" /\ Mentions(t, w)
Covers(t, w, e, l) ==
  Speaks(t, w) /\ (t.kind = "RUNNING" => e.place = "ACTIVE" /\ l.status # "RELEASED")
Settled(w, e, l, j) ==
  Held(e) => Faithful(e, l) \/ \E i \in DOMAIN j : Covers(j[i], w, e, l)

WellFormed(t) ==
  /\ t.op # "REAP_BATCH" => Len(t.works) = 1
  /\ t.phase = "RECONCILIATION_HELD" => t.op = "OUTCOME" /\ t.kind = "UNKNOWN"
  /\ t.kind = "RUNNING" => t.op = "OUTCOME"
AllWellFormed(j) == \A i \in DOMAIN j : WellFormed(j[i])

BooksFit ==
  /\ AllWellFormed(journal) /\ AllWellFormed(jm)
  /\ pc = "idle" => \A i \in DOMAIN journal : Pends(journal[i])
  /\ call.op # "RECOVER" => ~call.wrote

\* A lane that no claim is known of was dispatched at most.
Unclaimed == \A w \in Works :
  sched[w].place = "NONE" => lanes[w].under = 0 \/ lanes[w].life = "PROVIDER_DISPATCHED"

TakesBack == call.op = "SCHEDULE" /\ pc \in Undo
LiveClaims == \A w \in Works :
  /\ Live(sched[w], lanes[w], reserved[w])
  /\ ~TakesBack => Live(mem[w], lanes[w], reserved[w])

\* The state as it was saved, with the transactions on disk.
DiskSettled == \A w \in Works \ torn : Settled(w, sched[w], lanes[w], journal)

Registered(w) == \E i \in DOMAIN journal : journal[i].works = <<w>>

\* What a schedule has made is as the copy says, and will be as the state says.
ScheduleSettles == call.op = "SCHEDULE" =>
  /\ pc \in Claiming \cup {"pick"} =>
       /\ \A w \in Works : sched[w].place = "NONE" /\ mem[w].place # "NONE" =>
            Faithful(mem[w], lanes[w])
       /\ \A i \in DOMAIN call.made : mem[call.made[i]].place # "NONE"
  /\ pc = "commit" => \A i \in DOMAIN call.made :
       Faithful(sched[call.made[i]], lanes[call.made[i]])
  /\ pc \in Claiming => Registered(call.w)
  /\ pc \in Claiming \cup {"pick", "commit"} => \A i \in DOMAIN call.made : Registered(call.made[i])
  /\ pc \in Undo => \A i \in DOMAIN call.undo : Registered(call.undo[i].w)
  /\ pc \in Claiming \ {"reserve"} => call.res = reserved[call.w]
  /\ pc = "dispatchEvidence" => lanes[call.w].life = "PROVIDER_DISPATCHED"

Own == journal[Len(journal)]

\* How far the claims of a reap batch are.
ReapSettles ==
  /\ pc \in Phase =>
       /\ call.w = Head(call.todo)
       /\ \A k \in DOMAIN call.todo : Mentions(Own, call.todo[k])
  /\ pc \in Phase \cup {"saveReap"} => \A i \in DOMAIN Own.works :
       \/ mem[Own.works[i]].place = "RELEASED"
       \/ \E k \in DOMAIN call.todo : call.todo[k] = Own.works[i]
  /\ pc = "saveReap" => call.todo = <<>>
  /\ pc \in {"supersede", "close"} =>
       \A i \in DOMAIN Own.works : sched[Own.works[i]].place = "RELEASED"

\* A call about answers has begun the last transaction of the journal, and
\* has touched what that names only.
OwnSettles == call.op \in {"OUTCOME", "REAP_BATCH"} =>
  /\ journal # <<>> /\ Own.phase = "INTENT" /\ Own.op = call.op
  /\ \A w \in Works : ~Mentions(Own, w) => mem[w] = sched[w]
  /\ call.op = "OUTCOME" =>
       /\ Own.works = <<call.w>> /\ Own.kind = call.kind
       /\ pc = "apply" /\ ~EndsClaim(call.kind) =>
            lanes[call.w].status # "RELEASED" /\ lanes[call.w].fence = mem[call.w].lease
       /\ pc = "close" /\ Held(sched[call.w]) => Faithful(sched[call.w], lanes[call.w])
  /\ call.op = "REAP_BATCH" => Own.works = call.made /\ Own.kind = "FAILED" /\ ReapSettles

Repairing == (pc \in Phase /\ call.kind = "RECLAIM") \/ pc \in {"repaired"} \cup Compensating
Scanning == pc \in {"scan", "saveJournal"} \/ Repairing
AtTransaction == pc \in Phase \cup {"refree", "project", "reapItem", "repaired"} \cup Compensating

\* Nothing recovery has been through is left pending without reason.
Past(t) == Pends(t) =>
  /\ t.kind # "RUNNING"
  /\ t.op = "SCHEDULE" => \A k \in DOMAIN t.works : mem[t.works[k]].place = "NONE"

\* The transactions recovery has in memory and those on disk.
BooksAgree ==
  /\ ~call.wrote =>
       /\ Len(jm) = Len(journal)
       /\ \A i \in DOMAIN jm :
            /\ Pends(journal[i])
            /\ jm[i].op = journal[i].op /\ jm[i].works = journal[i].works
            /\ jm[i].kind = journal[i].kind
            /\ call.at <= i => Pends(jm[i])
  /\ call.wrote => Scanning /\ journal = Pending(jm)
  /\ \A i \in DOMAIN jm : i < call.at \/ Scanning => Past(jm[i])

\* The transaction recovery is at: of a repair, of an answer, of a reap.
RepairSettles ==
  /\ call.wrote /\ Replayed.op = "STORE_RECONCILIATION"
  /\ pc \in Compensating => call.kind = "COMPENSATE"
  /\ call.kind = "RECLAIM" =>
       Faithful(mem[call.w], lanes[call.w]) /\ lanes[call.w].fence = mem[call.w].lease
  /\ pc = "repaired" => call.kind = "RECLAIM" \/ mem[call.w].place = "RELEASED"

AnswerSettles ==
  /\ pc # "reapItem" /\ call.kind = Replayed.kind
  /\ pc = "project" /\ call.kind = "UNKNOWN" => lanes[call.w].status # "RELEASED"

BatchSettles ==
  /\ pc # "reapItem" => call.w = Head(call.todo)
  /\ \A k \in DOMAIN call.todo : Mentions(Replayed, call.todo[k])
  /\ \A i \in DOMAIN Replayed.works :
       \/ mem[Replayed.works[i]].place = "RELEASED"
       \/ \E k \in DOMAIN call.todo : call.todo[k] = Replayed.works[i]

AtSettles ==
  /\ AtTransaction =>
       /\ call.at \in DOMAIN jm /\ Pends(Replayed)
       /\ Replayed.op # "SCHEDULE" /\ Replayed.kind # "RUNNING"
       /\ pc # "reapItem" => Mentions(Replayed, call.w)
       /\ Repairing => RepairSettles
       /\ ~Repairing => Replayed.op \in {"OUTCOME", "REAP_BATCH"}
       /\ Replayed.op = "OUTCOME" => AnswerSettles
       /\ Replayed.op = "REAP_BATCH" => BatchSettles
  /\ pc \in Undo => call.at \in DOMAIN jm /\ Replayed.op = "SCHEDULE" /\ mem[Subject].place = "NONE"

\* What replay and repairs changed in the copy without saying so is still
\* spoken for.
SpokenFor(w) == \E i \in DOMAIN jm :
  /\ Speaks(jm[i], w) /\ jm[i].kind # "RUNNING"
  /\ ~Scanning => i <= call.at
  /\ pc = "replay" => i < call.at
Changes == ~call.changed =>
  /\ ~Scanning => \A w \in Works : mem[w].place = sched[w].place
  /\ pc # "saveJournal" => \A w \in Works : mem[w] = sched[w] \/ SpokenFor(w)

\* What was torn and the scan has not come to; transactions that were pending
\* when recovery began are not for the scan.
Unseen == IF Scanning /\ pc # "saveJournal" THEN torn \cap (call.left \cup call.first) ELSE torn

\* The state that recovery will have saved, with its transactions.
CopySettled == \A w \in Works \ Unseen :
  Settled(w, IF pc = "saveJournal" THEN sched[w] ELSE mem[w], lanes[w], jm)

RecoverySettles == call.op = "RECOVER" => BooksAgree /\ AtSettles /\ Changes /\ CopySettled

SettledInv ==
  /\ BooksFit /\ Unclaimed /\ LiveClaims /\ ScheduleSettles /\ OwnSettles
  /\ ~call.wrote => DiskSettled
  /\ RecoverySettles

-----------------------------------------------------------------------------
(* Transactions that are added, edited, or left out once they are closed.  *)

\* What one list of transactions has to say about a work, another says too.
Carries(j, k, w) == \A i \in DOMAIN j :
  Speaks(j[i], w) => \E n \in DOMAIN k : Speaks(k[n], w) /\ k[n].kind = j[i].kind

LEMMA CarriedIsSettled ==
  ASSUME NEW j, NEW k, NEW w, NEW e, NEW l, Carries(j, k, w), Settled(w, e, l, j)
  PROVE  Settled(w, e, l, k)
BY DEF Carries, Settled, Covers

LEMMA SameCarries ==
  ASSUME NEW j, NEW w
  PROVE  Carries(j, j, w)
BY DEF Carries

LEMMA LongerCarries ==
  ASSUME NEW j \in Seq(Transactions), NEW t \in Transactions
  PROVE  /\ \A w : Carries(j, Append(j, t), w)
         /\ AllWellFormed(j) /\ WellFormed(t) => AllWellFormed(Append(j, t))
<1> DEFINE k == Append(j, t)
<1>1. /\ DOMAIN k = 1 .. Len(j) + 1 /\ DOMAIN j = 1 .. Len(j) /\ Len(j) \in Nat
      /\ k[Len(j) + 1] = t /\ \A i \in 1 .. Len(j) : k[i] = j[i]
  OBVIOUS
<1> HIDE DEF k
<1>2. \A i \in DOMAIN j : i \in DOMAIN k /\ k[i] = j[i]
  BY <1>1
<1>3. \A w : Carries(j, k, w)
  BY <1>2 DEF Carries
<1>4. AllWellFormed(j) /\ WellFormed(t) => AllWellFormed(k)
  BY <1>1 DEF AllWellFormed
<1> QED
  BY <1>3, <1>4 DEF k

\* Edits of what is recorded of a claim's fences, or of phases.
LEMMA FencesCarry ==
  ASSUME NEW j \in Seq(Transactions), NEW k \in Seq(Transactions), DOMAIN k = DOMAIN j,
         \A i \in DOMAIN j : /\ k[i].op = j[i].op /\ k[i].works = j[i].works
                             /\ k[i].kind = j[i].kind /\ k[i].phase = j[i].phase
  PROVE  /\ \A w : Carries(j, k, w)
         /\ AllWellFormed(j) => AllWellFormed(k)
BY DEF Carries, Speaks, Pends, Mentions, AllWellFormed, WellFormed

LEMMA EditIs ==
  ASSUME NEW j \in Seq(Transactions), NEW i, NEW p
  PROVE  /\ DOMAIN [j EXCEPT ![i].phase = p] = DOMAIN j
         /\ Len([j EXCEPT ![i].phase = p]) = Len(j)
         /\ \A n \in DOMAIN j :
              /\ [j EXCEPT ![i].phase = p][n].op = j[n].op
              /\ [j EXCEPT ![i].phase = p][n].works = j[n].works
              /\ [j EXCEPT ![i].phase = p][n].kind = j[n].kind
              /\ [j EXCEPT ![i].phase = p][n].phase = IF n = i THEN p ELSE j[n].phase
              /\ n # i => [j EXCEPT ![i].phase = p][n] = j[n]
<1> DEFINE k == [j EXCEPT ![i].phase = p]
<1>1. k = [n \in DOMAIN j |-> IF n = i THEN [j[n] EXCEPT !.phase = p] ELSE j[n]]
  OBVIOUS
<1>2. \A n \in DOMAIN j : j[n] \in Transactions
  OBVIOUS
<1>3. DOMAIN j = 1 .. Len(j) /\ Len(j) \in Nat
  OBVIOUS
<1>4. DOMAIN k = DOMAIN j
  BY <1>1
<1>5. Len(k) = Len(j)
  BY <1>1, <1>3
<1>6. \A n \in DOMAIN j : k[n] = IF n = i THEN [j[n] EXCEPT !.phase = p] ELSE j[n]
  BY <1>1
<1>7. \A t \in Transactions :
        /\ [t EXCEPT !.phase = p].op = t.op /\ [t EXCEPT !.phase = p].works = t.works
        /\ [t EXCEPT !.phase = p].kind = t.kind /\ [t EXCEPT !.phase = p].phase = p
  BY DEF Transactions
<1> HIDE DEF k
<1> QED
  BY <1>2, <1>4, <1>5, <1>6, <1>7 DEF k

\* A transaction whose phase changes still speaks for a work, unless it is
\* closed and was about that work.
LEMMA PhaseCarries ==
  ASSUME NEW j \in Seq(Transactions), NEW i \in DOMAIN j, NEW p
  PROVE  /\ \A w : p \notin ClosedPhases \/ ~Mentions(j[i], w) \/ j[i].op = "SCHEDULE" =>
              Carries(j, [j EXCEPT ![i].phase = p], w)
         /\ AllWellFormed(j) /\ p # "RECONCILIATION_HELD" => AllWellFormed([j EXCEPT ![i].phase = p])
<1> DEFINE k == [j EXCEPT ![i].phase = p]
<1>1. /\ DOMAIN k = DOMAIN j
      /\ \A n \in DOMAIN j :
           /\ k[n].op = j[n].op /\ k[n].works = j[n].works /\ k[n].kind = j[n].kind
           /\ k[n].phase = IF n = i THEN p ELSE j[n].phase
           /\ n # i => k[n] = j[n]
  BY EditIs
<1> HIDE DEF k
<1>2. ASSUME NEW w, p \notin ClosedPhases \/ ~Mentions(j[i], w) \/ j[i].op = "SCHEDULE"
      PROVE  Carries(j, k, w)
  BY <1>1, <1>2 DEF Carries, Speaks, Pends, Mentions
<1>3. ASSUME AllWellFormed(j), p # "RECONCILIATION_HELD" PROVE AllWellFormed(k)
  BY <1>1, <1>3 DEF AllWellFormed, WellFormed
<1> QED
  BY <1>2, <1>3 DEF k

\* Kept leaves nothing out that it should keep.
LEMMA KeptIsComplete ==
  ASSUME NEW S, NEW s \in Seq(S), NEW I, NEW i \in DOMAIN s, i \in I
  PROVE  \E k \in DOMAIN Kept(s, I) : Kept(s, I)[k] = s[i]
<1>1. PICK f : Keeps(s, I, Len(s), f) /\ Kept(s, I) = f[Len(s)]
  BY KeptIs
<1>2. Len(s) \in Nat /\ i \in 1 .. Len(s)
  OBVIOUS
<1>3. \A n \in 0 .. Len(s) :
        f[n] = IF n = 0 THEN <<>> ELSE IF n \in I THEN Append(f[n - 1], s[n]) ELSE f[n - 1]
  BY <1>1, <1>2 DEF Keeps
<1> DEFINE Good(n) == f[n] \in Seq(S)
           Has(n) == \E k \in DOMAIN f[n] : f[n][k] = s[i]
           Fails == {n \in 0 .. Len(s) : ~ (Good(n) /\ (i <= n => Has(n)))}
<1>4. ASSUME Fails # {} PROVE FALSE
  <2>1. PICK n \in Fails : \A m \in Fails : n <= m
    <3> Fails \subseteq Nat
      OBVIOUS
    <3> QED
      BY <1>4, LeastOf
  <2>2. n # 0
    <3>1. f[0] = <<>>
      BY <1>2, <1>3
    <3>2. Good(0) /\ ~ (i <= 0)
      BY <1>2, <3>1
    <3> QED
      BY <2>1, <3>2
  <2>3. n - 1 \in 0 .. Len(s) /\ n \in 1 .. Len(s)
    BY <1>2, <2>1, <2>2
  <2>4. Good(n - 1) /\ (i <= n - 1 => Has(n - 1))
    BY <2>1, <2>3
  <2>5. CASE n \notin I
    <3>1. f[n] = f[n - 1] /\ i # n
      BY <1>3, <2>1, <2>2, <2>5
    <3>2. i <= n => i <= n - 1
      BY <1>2, <2>3, <3>1
    <3> QED
      BY <2>1, <2>4, <3>1, <3>2
  <2>6. CASE n \in I
    <3> DEFINE g == f[n - 1]
    <3>1. f[n] = Append(g, s[n]) /\ s[n] \in S
      <4>1. f[n] = Append(f[n - 1], s[n])
        BY <1>3, <2>1, <2>2, <2>6
      <4>2. s[n] \in S
        BY <2>3
      <4> QED
        BY <4>1, <4>2
    <3>2. g \in Seq(S) /\ (i <= n - 1 => \E k \in DOMAIN g : g[k] = s[i])
      BY <2>4
    <3> HIDE DEF g
    <3>3. f[n] \in Seq(S) /\ DOMAIN f[n] = 1 .. Len(g) + 1 /\ DOMAIN g = 1 .. Len(g) /\ Len(g) \in Nat
      BY <3>1, <3>2
    <3>4. \A k \in 1 .. Len(g) + 1 : f[n][k] = IF k <= Len(g) THEN g[k] ELSE s[n]
      BY <3>1, <3>2
    <3>5. CASE i = n
      <4>1. Len(g) + 1 \in DOMAIN f[n] /\ f[n][Len(g) + 1] = s[i]
        BY <3>3, <3>4, <3>5
      <4> QED
        BY <2>1, <3>3, <4>1
    <3>6. CASE i # n
      <4>1. i <= n => i <= n - 1
        BY <1>2, <2>3, <3>6
      <4>2. i <= n => Has(n)
        BY <3>2, <3>3, <3>4, <4>1
      <4> QED
        BY <2>1, <3>3, <4>2
    <3> QED
      BY <3>5, <3>6
  <2> QED
    BY <2>5, <2>6
<1>5. Has(Len(s))
  BY <1>2, <1>4
<1> QED
  BY <1>1, <1>5

\* The pending transactions are those of the list, and all of those.
LEMMA PendingCarries ==
  ASSUME NEW j \in Seq(Transactions)
  PROVE  /\ Pending(j) \in Seq(Transactions)
         /\ \A i \in DOMAIN Pending(j) :
              Pends(Pending(j)[i]) /\ \E k \in DOMAIN j : Pending(j)[i] = j[k]
         /\ \A w : Carries(j, Pending(j), w)
         /\ AllWellFormed(j) => AllWellFormed(Pending(j))
<1> DEFINE I == {i \in DOMAIN j : j[i].phase \notin ClosedPhases}
<1>1. Pending(j) = Kept(j, I)
  BY DEF Pending
<1>2. \A i \in DOMAIN j : i \in I <=> Pends(j[i])
  BY DEF Pends
<1> HIDE DEF I
<1>3. /\ Kept(j, I) \in Seq(Transactions)
      /\ \A i \in DOMAIN Kept(j, I) : \E k \in DOMAIN j : k \in I /\ Kept(j, I)[i] = j[k]
  BY KeptElements
<1>4. \A i \in DOMAIN j : i \in I => \E k \in DOMAIN Kept(j, I) : Kept(j, I)[k] = j[i]
  BY KeptIsComplete
<1>5. \A w : Carries(j, Kept(j, I), w)
  BY <1>2, <1>4 DEF Carries, Speaks
<1>6. AllWellFormed(j) => AllWellFormed(Kept(j, I))
  BY <1>3 DEF AllWellFormed
<1> QED
  BY <1>1, <1>2, <1>3, <1>5, <1>6

\* The transaction a schedule marks is one of its work, if there is one.
LEMMA MineIsThere ==
  ASSUME journal \in Seq(Transactions), NEW w, Registered(w)
  PROVE  /\ Mine(<<w>>) \in DOMAIN journal /\ journal[Mine(<<w>>)].works = <<w>>
         /\ \A m \in Mine(<<w>>) + 1 .. Len(journal) : journal[m].works # <<w>>
<1> DEFINE n == Len(journal)
           R == {i \in DOMAIN journal : journal[i].works = <<w>>}
           B == {n - i : i \in R}
<1>1. n \in Nat /\ DOMAIN journal = 1 .. n
  OBVIOUS
<1>2. B \subseteq Nat /\ B # {}
  BY <1>1 DEF Registered
<1>3. PICK b \in B : \A c \in B : b <= c
  <2> HIDE DEF B
  <2> QED
    BY <1>2, LeastOf
<1>4. PICK i \in R : b = n - i
  BY <1>3
<1>5. ASSUME NEW m \in i + 1 .. n, journal[m].works = <<w>> PROVE FALSE
  <2>1. m \in R /\ m \in 1 .. n
    BY <1>1, <1>4, <1>5
  <2>2. n - m \in B
    BY <2>1
  <2>3. n - i <= n - m
    BY <1>3, <1>4, <2>2
  <2>4. i \in 1 .. n /\ m > i
    BY <1>1, <1>4, <1>5
  <2> HIDE DEF n, R, B
  <2> QED
    BY <1>1, <2>1, <2>3, <2>4
<1>6. \E k \in DOMAIN journal : journal[k].works = <<w>> /\ \A m \in k + 1 .. Len(journal) :
        journal[m].works # <<w>>
  BY <1>4, <1>5
<1> QED
  BY <1>6, Zenon DEF Mine

-----------------------------------------------------------------------------
(* The end of a call, and scheduleEligibleSet.                             *)

LEMMA EndCallSettles ==
  ASSUME ClaimInv, SettledInv, NEW j \in Seq(Transactions), AllWellFormed(j), EndCall(j),
         UNCHANGED <<storeVars, sched>>,
         \A w \in Works \ torn' : Settled(w, sched[w], lanes[w], j)
  PROVE  SettledInv'
<1>1. /\ pc' = "idle" /\ call' = NoCall /\ mem' = [w \in Works |-> NoEntry] /\ jm' = <<>>
      /\ journal' = Pending(j)
  BY DEF EndCall, Goto
<1>2. call'.op = "NONE" /\ ~call'.wrote
  BY <1>1 DEF NoCall
<1>3. BooksFit'
  BY <1>1, <1>2, PendingCarries DEF BooksFit, AllWellFormed
<1>4. Unclaimed'
  BY DEF SettledInv, Unclaimed, storeVars, laneVars
<1>5. LiveClaims'
  BY <1>1 DEF SettledInv, LiveClaims, Live, Held, NoEntry, storeVars, laneVars, ledgerVars
<1>6. ScheduleSettles' /\ OwnSettles' /\ RecoverySettles'
  BY <1>2 DEF ScheduleSettles, OwnSettles, RecoverySettles
<1>7. DiskSettled'
  BY <1>1, PendingCarries, CarriedIsSettled DEF DiskSettled, storeVars, laneVars
<1> QED
  BY <1>3, <1>4, <1>5, <1>6, <1>7 DEF SettledInv

\* A call that stops and leaves the journal as it is, or with a last
\* transaction that asks for recovery.
LEMMA StopSettles ==
  ASSUME ClaimInv, SettledInv, ~call.wrote, EndCall(journal), UNCHANGED <<storeVars, sched, torn>>
  PROVE  SettledInv'
BY EndCallSettles DEF SettledInv, BooksFit, DiskSettled, ClaimInv, Steady, BooksTyped

LEMMA StopForRecoverySettles ==
  ASSUME ClaimInv, SettledInv, ~call.wrote, journal # <<>>,
         EndCall([journal EXCEPT ![Len(journal)].phase = "RECOVERY_REQUIRED"]),
         UNCHANGED <<storeVars, sched, torn>>
  PROVE  SettledInv'
<1> DEFINE j == [journal EXCEPT ![Len(journal)].phase = "RECOVERY_REQUIRED"]
<1>1. journal \in Seq(Transactions) /\ Len(journal) \in DOMAIN journal /\ AboutClaims(journal)
  BY DEF ClaimInv, Steady, BooksTyped
<1>2. "RECOVERY_REQUIRED" \in Phases \ ClosedPhases
  BY DEF Phases, ClosedPhases
<1>3. j \in Seq(Transactions)
  BY <1>1, <1>2, PhaseIsTyped
<1>4. AllWellFormed(j) /\ \A w : Carries(journal, j, w)
  BY <1>1, <1>2, PhaseCarries DEF SettledInv, BooksFit
<1> HIDE DEF j
<1>5. \A w \in Works \ torn' : Settled(w, sched[w], lanes[w], j)
  BY <1>4, CarriedIsSettled DEF SettledInv, DiskSettled
<1> QED
  BY <1>3, <1>4, <1>5, EndCallSettles DEF j

LEMMA StartScheduleSettles ==
  ASSUME ClaimInv, SettledInv, NEW b \in Batches, StartSchedule(b)
  PROVE  SettledInv'
<1>1. /\ pc = "idle" /\ pc' = "pick" /\ mem' = sched /\ call = NoCall
      /\ call' = [NoCall EXCEPT !.op = "SCHEDULE", !.todo = b]
      /\ UNCHANGED <<storeVars, sched, journal, jm, torn>>
  BY DEF StartSchedule, Begin, Goto, lostVars, ClaimInv, AtStep, CallFits
<1>2. call'.op = "SCHEDULE" /\ call'.made = <<>> /\ ~call'.wrote /\ ~call.wrote
  BY <1>1 DEF NoCall
<1>3. BooksFit' /\ Unclaimed'
  BY <1>1, <1>2 DEF SettledInv, BooksFit, AllWellFormed, Unclaimed, storeVars, laneVars
<1>4. LiveClaims' /\ DiskSettled'
  BY <1>1, <1>2 DEF SettledInv, LiveClaims, DiskSettled, storeVars, laneVars, ledgerVars
<1>5. ScheduleSettles' /\ OwnSettles' /\ RecoverySettles'
  BY <1>1, <1>2 DEF ScheduleSettles, OwnSettles, RecoverySettles, Claiming, Undo
<1> QED
  BY <1>3, <1>4, <1>5 DEF SettledInv

\* A step of a schedule, which leaves the claims of the state alone.
LEMMA ScheduleMoves ==
  ASSUME ClaimInv, SettledInv, call.op = "SCHEDULE", call'.op = "SCHEDULE",
         call'.wrote = call.wrote, pc' # "idle", UNCHANGED <<sched, jm, torn>>,
         AllWellFormed(journal'),
         \A w \in Works : \/ Carries(journal, journal', w)
                          \/ sched[w].place = "NONE" \/ Faithful(sched[w], lanes[w]),
         \A w \in Works : sched[w].place # "NONE" =>
           lanes'[w] = lanes[w] /\ reserved'[w] = reserved[w],
         Unclaimed', ScheduleSettles',
         ~TakesBack' => \A w \in Works : Live(mem'[w], lanes'[w], reserved'[w])
  PROVE  SettledInv'
<1>1. BooksFit'
  BY DEF SettledInv, BooksFit, AllWellFormed
<1>2. \A w \in Works : Live(sched'[w], lanes'[w], reserved'[w])
  BY DEF SettledInv, LiveClaims, Live, Held
<1>3. LiveClaims'
  BY <1>2 DEF LiveClaims
<1>4. ~call.wrote /\ DiskSettled
  BY DEF SettledInv, BooksFit
<1>5. \A w \in Works \ torn : Settled(w, sched[w], lanes'[w], journal')
  <2> TAKE w \in Works \ torn
  <2>1. CASE sched[w].place = "NONE"
    BY <2>1 DEF Settled, Held
  <2>2. CASE sched[w].place # "NONE" /\ Carries(journal, journal', w)
    <3>1. Settled(w, sched[w], lanes[w], journal')
      BY <1>4, <2>2, CarriedIsSettled DEF DiskSettled
    <3> QED
      BY <2>2, <3>1
  <2>3. CASE sched[w].place # "NONE" /\ Faithful(sched[w], lanes[w])
    <3>1. Faithful(sched[w], lanes'[w])
      BY <2>3
    <3> QED
      BY <3>1 DEF Settled
  <2> QED
    BY <2>1, <2>2, <2>3
<1>6. DiskSettled'
  BY <1>5 DEF DiskSettled
<1>7. OwnSettles' /\ RecoverySettles'
  BY DEF OwnSettles, RecoverySettles
<1> QED
  BY <1>1, <1>3, <1>6, <1>7 DEF SettledInv

\* What a step knows of the claim in the making and of those made.
LEMMA InSchedule ==
  ASSUME ClaimInv, SettledInv, call.op = "SCHEDULE"
  PROVE  /\ ~call.wrote /\ call \in CallRecords /\ journal \in Seq(Transactions)
         /\ AllWellFormed(journal) /\ Unclaimed
         /\ ~TakesBack => \A w \in Works : Live(mem[w], lanes[w], reserved[w])
         /\ pc \in Claiming => /\ call.w \in Works /\ Registered(call.w)
                               /\ mem[call.w].place = "NONE" /\ sched[call.w].place = "NONE"
         /\ \A w \in Works : sched[w].place # "NONE" => mem[w] = sched[w]
<1>1. \A w \in Works : sched[w].place # "NONE" => mem[w] = sched[w]
  BY DEF ClaimInv, Steady, CopyFollows
<1>2. pc \in Claiming => call.w \in Works /\ mem[call.w].place = "NONE" /\ Registered(call.w)
  BY DEF ClaimInv, AtStep, CallFits, ClaimFits, SettledInv, ScheduleSettles
<1> QED
  BY <1>1, <1>2 DEF SettledInv, BooksFit, LiveClaims, ClaimInv, Steady, BooksTyped

LEMMA TakeBackSettles ==
  ASSUME ClaimInv, SettledInv, call.op = "SCHEDULE", NEW cs \in Seq(Claims),
         \A i \in DOMAIN cs : Registered(cs[i].w),
         TakeBack(cs), UNCHANGED <<storeVars, sched, torn>>
  PROVE  SettledInv'
<1>1. CASE cs = <<>>
  BY <1>1, StopSettles, InSchedule DEF TakeBack
<1>2. CASE cs # <<>>
  <2>1. /\ pc' = "undoLease" /\ UNCHANGED <<journal, mem, jm>>
        /\ call' = [call EXCEPT !.undo = cs, !.failed = FALSE]
    BY <1>2 DEF TakeBack, Goto
  <2>2. call'.op = "SCHEDULE" /\ call'.undo = cs /\ call'.wrote = call.wrote
    BY <2>1, InSchedule DEF CallRecords
  <2>3. ScheduleSettles'
    BY <2>1, <2>2 DEF ScheduleSettles, Claiming, Undo, Registered
  <2>4. TakesBack' /\ Unclaimed'
    BY <2>1, <2>2, InSchedule DEF TakesBack, Undo, Unclaimed, storeVars, laneVars
  <2>5. AllWellFormed(journal') /\ \A w : Carries(journal, journal', w)
    BY <2>1, InSchedule, SameCarries
  <2> QED
    BY <2>1, <2>2, <2>3, <2>4, <2>5, ScheduleMoves DEF storeVars, laneVars, ledgerVars
<1> QED
  BY <1>1, <1>2

LEMMA ClaimsMadeAreRegistered ==
  ASSUME ClaimInv, SettledInv, pc \in Claiming \cup {"pick"}
  PROVE  /\ call.op = "SCHEDULE" /\ ClaimsMade \in Seq(Claims)
         /\ \A i \in DOMAIN ClaimsMade : Registered(ClaimsMade[i].w)
<1> DEFINE c == [i \in DOMAIN call.made |-> Claim(call.made[i])]
           n == Len(call.made)
<1>0. call.op = "SCHEDULE" /\ \A i \in DOMAIN call.made : Registered(call.made[i])
  BY DEF ClaimInv, AtStep, CallFits, SettledInv, ScheduleSettles
<1>1. call.made \in Seq(Works) /\ DOMAIN call.made = 1 .. n /\ n \in Nat
  BY DEF ClaimInv, Steady, BooksTyped, CallRecords
<1>2. \A i \in 1 .. n : Claim(call.made[i]).w = call.made[i]
  BY DEF Claim
<1>3. c \in Seq({Claim(call.made[i]) : i \in 1 .. n}) /\ Len(c) = n
  BY <1>1
<1>4. ClaimsMade = [i \in 1 .. n |-> c[n - i + 1]]
  BY <1>3 DEF ClaimsMade, Reverse
<1>5. \A i \in 1 .. n : n - i + 1 \in 1 .. n /\ Registered(c[n - i + 1].w)
  BY <1>0, <1>1, <1>2
<1> HIDE DEF c, n
<1>6. \A i \in DOMAIN ClaimsMade : Registered(ClaimsMade[i].w)
  BY <1>4, <1>5
<1> QED
  BY <1>0, <1>6, ClaimsMadeAreNew

LEMMA ClaimFailsSettles ==
  ASSUME ClaimInv, SettledInv, pc \in Claiming, ClaimFails, UNCHANGED <<storeVars, sched, torn>>
  PROVE  SettledInv'
<1> DEFINE cs == <<Unfinished>> \o ClaimsMade
<1>1. call.op = "SCHEDULE" /\ ClaimsMade \in Seq(Claims)
      /\ \A i \in DOMAIN ClaimsMade : Registered(ClaimsMade[i].w)
  BY ClaimsMadeAreRegistered
<1>2. Unfinished \in Claims /\ Unfinished.w = call.w /\ Registered(call.w)
  BY <1>1, InSchedule DEF Unfinished, Claims, CallRecords
<1>3. cs \in Seq(Claims) /\ \A i \in DOMAIN cs : Registered(cs[i].w)
  <2> HIDE DEF Unfinished, ClaimsMade
  <2> QED
    BY <1>1, <1>2
<1> HIDE DEF cs
<1>4. TakeBack(cs)
  BY DEF ClaimFails, cs
<1> QED
  BY <1>1, <1>3, <1>4, TakeBackSettles

LEMMA SkipSettles ==
  ASSUME ClaimInv, SettledInv, Skip
  PROVE  SettledInv'
<1>1. /\ pc = "pick" /\ pc' = "pick" /\ call' = [call EXCEPT !.todo = Tail(@)]
      /\ UNCHANGED <<storeVars, sched, journal, mem, jm, torn>> /\ call.op = "SCHEDULE"
  BY DEF Skip, At, lostVars, ClaimInv, AtStep, CallFits
<1>2. call'.op = "SCHEDULE" /\ call'.wrote = call.wrote /\ call'.made = call.made
  BY <1>1, InSchedule DEF CallRecords
<1>3. ScheduleSettles'
  BY <1>1, <1>2 DEF SettledInv, ScheduleSettles, Claiming, Undo, Registered, storeVars, laneVars
<1>4. ~TakesBack /\ Unclaimed'
  BY <1>1, InSchedule DEF TakesBack, Undo, Unclaimed, storeVars, laneVars
<1>5. AllWellFormed(journal') /\ \A w : Carries(journal, journal', w)
  BY <1>1, InSchedule, SameCarries
<1> QED
  BY <1>1, <1>2, <1>3, <1>4, <1>5, InSchedule, ScheduleMoves DEF storeVars, laneVars, ledgerVars

LEMMA ClaimingSettles ==
  ASSUME ClaimInv, SettledInv, pc \in Claiming, pc' \in Claiming,
         UNCHANGED <<sched, mem, jm, torn>>, call'.op = call.op, call'.w = call.w,
         call'.made = call.made, call'.wrote = call.wrote,
         AllWellFormed(journal'), \A w : Carries(journal, journal', w),
         \A w : Registered(w) => Registered(w)',
         \A v \in Works \ {call.w} : lanes'[v] = lanes[v] /\ reserved'[v] = reserved[v],
         pc' # "reserve" => call'.res = reserved'[call.w],
         pc' = "dispatchEvidence" => lanes'[call.w].life = "PROVIDER_DISPATCHED",
         lanes'[call.w].under = 0 \/ lanes'[call.w].life = "PROVIDER_DISPATCHED"
  PROVE  SettledInv'
<1>1. call.op = "SCHEDULE" /\ ~TakesBack
  BY DEF ClaimInv, AtStep, CallFits, TakesBack, Claiming, Undo
<1>2. /\ call.w \in Works /\ Registered(call.w)
      /\ mem[call.w].place = "NONE" /\ sched[call.w].place = "NONE"
  BY <1>1, InSchedule
<1>3. Unclaimed'
  BY <1>1, <1>2, InSchedule DEF Unclaimed
<1>4. ScheduleSettles'
  <2>1. \A w \in Works : sched[w].place = "NONE" /\ mem[w].place # "NONE" => Faithful(mem[w], lanes'[w])
    BY <1>1, <1>2 DEF SettledInv, ScheduleSettles
  <2>2. \A i \in DOMAIN call.made : mem[call.made[i]].place # "NONE" /\ Registered(call.made[i])'
    BY <1>1 DEF SettledInv, ScheduleSettles
  <2> QED
    BY <1>2, <2>1, <2>2 DEF ScheduleSettles, Claiming, Undo
<1>5. \A w \in Works : sched[w].place # "NONE" => lanes'[w] = lanes[w] /\ reserved'[w] = reserved[w]
  BY <1>2
<1>6. \A w \in Works : Live(mem'[w], lanes'[w], reserved'[w])
  BY <1>1, <1>2, InSchedule DEF Live, Held
<1>7. pc' # "idle"
  BY DEF Claiming
<1> QED
  BY <1>1, <1>3, <1>4, <1>5, <1>6, <1>7, ScheduleMoves

LEMMA BeginTransactionSettles ==
  ASSUME ClaimInv, SettledInv, BeginTransaction
  PROVE  SettledInv'
<1>1. pc = "pick" /\ call.op = "SCHEDULE" /\ UNCHANGED <<storeVars, sched, torn>>
      /\ call.todo # <<>> /\ ~Blocked(Head(call.todo))
  BY DEF BeginTransaction, At, lostVars, ClaimInv, AtStep, CallFits
<1>2. CASE TakeBack(ClaimsMade)
  BY <1>1, <1>2, TakeBackSettles, ClaimsMadeAreRegistered
<1>3. ASSUME NEW w, w = Head(call.todo),
             journal' = Append(journal, Transaction("SCHEDULE", <<w>>, "NONE", 0)),
             pc' = "reserve", UNCHANGED <<mem, jm>>,
             call' = [call EXCEPT !.w = w, !.todo = Tail(@), !.res = 0, !.lease = 0]
      PROVE  SettledInv'
  <2> DEFINE t == Transaction("SCHEDULE", <<w>>, "NONE", 0)
  <2>1. call.todo \in Seq(Works) /\ call \in CallRecords
    BY <1>1, InSchedule DEF CallRecords
  <2>2. w \in Works
    BY <1>1, <1>3, <2>1
  <2>3. t \in Transactions /\ WellFormed(t)
    BY <2>2 DEF Transaction, Transactions, Operations, Kinds, Phases, WellFormed
  <2>4. t.works = <<w>>
    BY DEF Transaction
  <2> HIDE DEF t
  <2>5. /\ call'.op = "SCHEDULE" /\ call'.wrote = call.wrote /\ call'.made = call.made
        /\ call'.w = w
    BY <1>1, <1>3, <2>1 DEF CallRecords
  <2>6. journal' = Append(journal, t) /\ journal \in Seq(Transactions) /\ AllWellFormed(journal)
    BY <1>1, <1>3, InSchedule DEF t
  <2>7. AllWellFormed(journal') /\ \A v : Carries(journal, journal', v)
    BY <2>3, <2>6, LongerCarries
  <2>8. Registered(w)' /\ \A v : Registered(v) => Registered(v)'
    <3>1. /\ DOMAIN journal' = 1 .. Len(journal) + 1 /\ DOMAIN journal = 1 .. Len(journal)
          /\ journal'[Len(journal) + 1] = t /\ Len(journal) \in Nat
          /\ \A i \in 1 .. Len(journal) : journal'[i] = journal[i]
      BY <2>3, <2>6
    <3>2. Len(journal) + 1 \in DOMAIN journal' /\ \A i \in DOMAIN journal :
            i \in DOMAIN journal' /\ journal'[i] = journal[i]
      BY <3>1
    <3> QED
      BY <2>4, <3>1, <3>2 DEF Registered
  <2>9. ScheduleSettles'
    <3>1. /\ \A v \in Works : sched[v].place = "NONE" /\ mem[v].place # "NONE" =>
               Faithful(mem[v], lanes[v])
          /\ \A i \in DOMAIN call.made : mem[call.made[i]].place # "NONE" /\ Registered(call.made[i])
      BY <1>1 DEF SettledInv, ScheduleSettles
    <3> QED
      BY <1>1, <1>3, <2>5, <2>8, <3>1 DEF ScheduleSettles, Claiming, Undo, storeVars, laneVars
  <2>10. ~TakesBack /\ Unclaimed'
    BY <1>1, InSchedule DEF TakesBack, Undo, Unclaimed, storeVars, laneVars
  <2> QED
    BY <1>1, <1>3, <2>5, <2>7, <2>9, <2>10, InSchedule, ScheduleMoves
      DEF storeVars, laneVars, ledgerVars
<1> QED
  BY <1>2, <1>3 DEF BeginTransaction, Try, Goto

LEMMA AcquireReservationSettles ==
  ASSUME ClaimInv, SettledInv, AcquireReservation
  PROVE  SettledInv'
<1>1. /\ pc = "reserve" /\ pc \in Claiming /\ call.op = "SCHEDULE"
      /\ UNCHANGED <<laneVars, evidence, sched, torn>>
  BY DEF AcquireReservation, At, lostVars, Claiming, ClaimInv, AtStep, CallFits
<1>2. CASE ClaimFails /\ UNCHANGED ledgerVars
  BY <1>1, <1>2, ClaimFailsSettles DEF storeVars
<1>3. CASE Reserve(call.w) /\ pc' = "noteReservation" /\ UNCHANGED <<journal, mem, jm>>
           /\ call' = [call EXCEPT !.res = reserved'[call.w]]
  <2>1. /\ call'.op = call.op /\ call'.w = call.w /\ call'.wrote = call.wrote
        /\ call'.made = call.made /\ call'.res = reserved'[call.w]
    BY <1>1, <1>3, InSchedule DEF CallRecords
  <2>2. \A v \in Works \ {call.w} : reserved'[v] = reserved[v]
    BY <1>3 DEF Reserve, ledgerVars, ClaimInv, Steady, StoresTyped
  <2>3. lanes[call.w].under = 0 \/ lanes[call.w].life = "PROVIDER_DISPATCHED"
    BY <1>1, InSchedule DEF Unclaimed
  <2>4. AllWellFormed(journal') /\ \A w : Carries(journal, journal', w)
    BY <1>1, <1>3, InSchedule, SameCarries
  <2>5. pc' \in Claiming /\ pc' # "dispatchEvidence" /\ lanes' = lanes /\ \A w : Registered(w) => Registered(w)'
    BY <1>1, <1>3 DEF Claiming, laneVars, Registered
  <2> QED
    BY <1>1, <1>3, <2>1, <2>2, <2>3, <2>4, <2>5, ClaimingSettles
<1> QED
  BY <1>2, <1>3 DEF AcquireReservation, Try, Goto

LEMMA NotingSettles ==
  ASSUME ClaimInv, SettledInv, pc \in Claiming \ {"reserve"}, pc' \in Claiming \ {"dispatchEvidence"},
         UNCHANGED <<storeVars, sched, call, mem, jm, torn>>,
         journal' \in Seq(Transactions), DOMAIN journal' = DOMAIN journal,
         \A i \in DOMAIN journal :
           /\ journal'[i].op = journal[i].op /\ journal'[i].works = journal[i].works
           /\ journal'[i].kind = journal[i].kind /\ journal'[i].phase = journal[i].phase
  PROVE  SettledInv'
<1>1. call.op = "SCHEDULE"
  BY DEF ClaimInv, AtStep, CallFits
<1>2. AllWellFormed(journal') /\ \A w : Carries(journal, journal', w)
  BY <1>1, InSchedule, FencesCarry
<1>3. \A w : Registered(w) => Registered(w)'
  BY DEF Registered
<1>4. lanes[call.w].under = 0 \/ lanes[call.w].life = "PROVIDER_DISPATCHED"
  BY <1>1, InSchedule DEF Unclaimed
<1>5. call.res = reserved[call.w]
  BY <1>1 DEF SettledInv, ScheduleSettles
<1> QED
  BY <1>2, <1>3, <1>4, <1>5, ClaimingSettles DEF storeVars, laneVars, ledgerVars

LEMMA NoteReservationSettles ==
  ASSUME ClaimInv, ClaimInv', SettledInv, NoteReservation
  PROVE  SettledInv'
<1>1. /\ pc = "noteReservation" /\ pc \in Claiming \ {"reserve"} /\ UNCHANGED <<storeVars, sched, torn>>
  BY DEF NoteReservation, At, lostVars, Claiming
<1>2. CASE ClaimFails
  BY <1>1, <1>2, ClaimFailsSettles
<1>3. CASE journal' = [journal EXCEPT ![Mine(<<call.w>>)].res = call.res] /\ pc' = "lease"
           /\ UNCHANGED <<call, mem, jm>>
  <2>1. journal \in Seq(Transactions) /\ journal' \in Seq(Transactions)
    BY DEF ClaimInv, Steady, BooksTyped
  <2>2. DOMAIN journal' = DOMAIN journal /\ \A i \in DOMAIN journal :
          journal'[i] = journal[i] \/ journal'[i] = [journal[i] EXCEPT !.res = call.res]
    BY <1>3
  <2>3. \A i \in DOMAIN journal : journal[i] \in Transactions
    BY <2>1
  <2>4. \A i \in DOMAIN journal :
           /\ journal'[i].op = journal[i].op /\ journal'[i].works = journal[i].works
           /\ journal'[i].kind = journal[i].kind /\ journal'[i].phase = journal[i].phase
    BY <2>2, <2>3 DEF Transactions
  <2> QED
    BY <1>1, <1>3, <2>1, <2>2, <2>4, NotingSettles DEF Claiming
<1> QED
  BY <1>2, <1>3 DEF NoteReservation, Try, Goto

LEMMA NoteLeaseSettles ==
  ASSUME ClaimInv, ClaimInv', SettledInv, NoteLease
  PROVE  SettledInv'
<1>1. /\ pc = "noteLease" /\ pc \in Claiming \ {"reserve"} /\ UNCHANGED <<storeVars, sched, torn>>
  BY DEF NoteLease, At, lostVars, Claiming
<1>2. CASE ClaimFails
  BY <1>1, <1>2, ClaimFailsSettles
<1>3. CASE journal' = [journal EXCEPT ![Mine(<<call.w>>)].lease = call.lease] /\ pc' = "dispatch"
           /\ UNCHANGED <<call, mem, jm>>
  <2>1. journal \in Seq(Transactions) /\ journal' \in Seq(Transactions)
    BY DEF ClaimInv, Steady, BooksTyped
  <2>2. DOMAIN journal' = DOMAIN journal /\ \A i \in DOMAIN journal :
          journal'[i] = journal[i] \/ journal'[i] = [journal[i] EXCEPT !.lease = call.lease]
    BY <1>3
  <2>3. \A i \in DOMAIN journal : journal[i] \in Transactions
    BY <2>1
  <2>4. \A i \in DOMAIN journal :
           /\ journal'[i].op = journal[i].op /\ journal'[i].works = journal[i].works
           /\ journal'[i].kind = journal[i].kind /\ journal'[i].phase = journal[i].phase
    BY <2>2, <2>3 DEF Transactions
  <2> QED
    BY <1>1, <1>3, <2>1, <2>2, <2>4, NotingSettles DEF Claiming
<1> QED
  BY <1>2, <1>3 DEF NoteLease, Try, Goto

LEMMA AcquireLaneLeaseSettles ==
  ASSUME ClaimInv, SettledInv, AcquireLaneLease
  PROVE  SettledInv'
<1>1. /\ pc = "lease" /\ pc \in Claiming \ {"reserve"} /\ call.op = "SCHEDULE"
      /\ UNCHANGED <<ledgerVars, evidence, sched, torn>>
  BY DEF AcquireLaneLease, At, lostVars, Claiming, ClaimInv, AtStep, CallFits
<1>2. CASE ClaimFails /\ UNCHANGED laneVars
  BY <1>1, <1>2, ClaimFailsSettles DEF storeVars
<1>3. ASSUME IF lanes[call.w].status = "NONE" THEN AcquireLease(call.w) ELSE UNCHANGED laneVars,
             pc' = "noteLease", call' = [call EXCEPT !.lease = lanes'[call.w].first],
             UNCHANGED <<journal, mem, jm>>
      PROVE  SettledInv'
  <2>1. /\ call'.op = call.op /\ call'.w = call.w /\ call'.wrote = call.wrote
        /\ call'.made = call.made /\ call'.res = call.res
    BY <1>1, <1>3, InSchedule DEF CallRecords
  <2>2. call.w \in Works /\ Unclaimed /\ sched[call.w].place = "NONE"
    BY <1>1, InSchedule
  <2>3. /\ \A v \in Works \ {call.w} : lanes'[v] = lanes[v]
        /\ lanes'[call.w].under = 0 \/ lanes'[call.w].life = "PROVIDER_DISPATCHED"
    <3>1. CASE AcquireLease(call.w)
      BY <2>2, <3>1 DEF AcquireLease, ClaimInv, Steady, StoresTyped
    <3>2. CASE UNCHANGED laneVars
      BY <2>2, <3>2 DEF laneVars, Unclaimed
    <3> QED
      BY <1>3, <3>1, <3>2
  <2>4. AllWellFormed(journal') /\ \A w : Carries(journal, journal', w)
    BY <1>1, <1>3, InSchedule, SameCarries
  <2>5. /\ pc' \in Claiming /\ pc' # "dispatchEvidence" /\ reserved' = reserved
        /\ \A w : Registered(w) => Registered(w)'
    BY <1>1, <1>3 DEF Claiming, ledgerVars, Registered
  <2>6. call.res = reserved[call.w]
    BY <1>1 DEF SettledInv, ScheduleSettles
  <2> QED
    BY <1>1, <1>3, <2>1, <2>3, <2>4, <2>5, <2>6, ClaimingSettles
<1> QED
  BY <1>2, <1>3 DEF AcquireLaneLease, Try, Goto

LEMMA DispatchSettles ==
  ASSUME ClaimInv, SettledInv, Dispatch
  PROVE  SettledInv'
<1>1. /\ pc = "dispatch" /\ pc \in Claiming \ {"reserve"} /\ call.op = "SCHEDULE"
      /\ UNCHANGED <<ledgerVars, evidence, sched, torn>>
  BY DEF Dispatch, At, lostVars, Claiming, ClaimInv, AtStep, CallFits
<1>2. CASE ClaimFails /\ UNCHANGED laneVars
  BY <1>1, <1>2, ClaimFailsSettles DEF storeVars
<1>3. ASSUME IF IsRepeatedDispatch THEN UNCHANGED laneVars
             ELSE CheckpointLane(call.w, call.lease, "PROVIDER_DISPATCHED", call.res),
             pc' = "dispatchEvidence", UNCHANGED <<journal, call, mem, jm>>
      PROVE  SettledInv'
  <2>1. call.w \in Works /\ Unclaimed /\ sched[call.w].place = "NONE" /\ call \in CallRecords
    BY <1>1, InSchedule
  <2>2. /\ \A v \in Works \ {call.w} : lanes'[v] = lanes[v]
        /\ lanes'[call.w].life = "PROVIDER_DISPATCHED"
    <3>1. CASE IsRepeatedDispatch
      BY <1>3, <2>1, <3>1 DEF IsRepeatedDispatch, laneVars, Unclaimed
    <3>2. CASE CheckpointLane(call.w, call.lease, "PROVIDER_DISPATCHED", call.res)
      <4>1. "PROVIDER_DISPATCHED" \in LifecycleStates /\ call.res \in Nat
        BY <2>1 DEF LifecycleStates, SuccessStates, SuccessPath, CallRecords
      <4>2. lanes'[call.w].life = "PROVIDER_DISPATCHED"
        BY <1>1, <2>1, <3>2, <4>1, CheckpointIsQuiet DEF ClaimInv, Steady
      <4>3. \A v \in Works \ {call.w} : lanes'[v] = lanes[v]
        BY <2>1, <3>2 DEF CheckpointLane, ClaimInv, Steady, StoresTyped
      <4> QED
        BY <4>2, <4>3
    <3> QED
      BY <1>3, <3>1, <3>2
  <2>3. AllWellFormed(journal') /\ \A w : Carries(journal, journal', w)
    BY <1>1, <1>3, InSchedule, SameCarries
  <2>4. /\ pc' \in Claiming /\ reserved' = reserved /\ \A w : Registered(w) => Registered(w)'
    BY <1>1, <1>3 DEF Claiming, ledgerVars, Registered
  <2>5. call.res = reserved[call.w]
    BY <1>1 DEF SettledInv, ScheduleSettles
  <2> QED
    BY <1>1, <1>3, <2>2, <2>3, <2>4, <2>5, ClaimingSettles
<1> QED
  BY <1>2, <1>3 DEF Dispatch, Try, Goto

LEMMA DispatchEvidenceSettles ==
  ASSUME ClaimInv, SettledInv, DispatchEvidence
  PROVE  SettledInv'
<1> DEFINE w == call.w
           e == [NoEntry EXCEPT !.place = "ACTIVE", !.lease = call.lease, !.res = call.res,
                   !.life = "PROVIDER_DISPATCHED", !.ev = <<lanes[w].fence, lanes[w].seq>>]
<1>1. /\ pc = "dispatchEvidence" /\ pc \in Claiming \ {"reserve"} /\ call.op = "SCHEDULE"
      /\ UNCHANGED <<laneVars, ledgerVars, sched, torn>>
  BY DEF DispatchEvidence, At, lostVars, Claiming, ClaimInv, AtStep, CallFits
<1>2. CASE ClaimFails /\ UNCHANGED evidence
  BY <1>1, <1>2, ClaimFailsSettles DEF storeVars
<1>3. ASSUME Current(w, call.lease), mem' = [mem EXCEPT ![w] = e], pc' = "pick",
             call' = [call EXCEPT !.made = Append(@, w)], UNCHANGED <<journal, jm>>
      PROVE  SettledInv'
  <2>1. /\ w \in Works /\ Registered(w) /\ mem[w].place = "NONE" /\ sched[w].place = "NONE"
        /\ call \in CallRecords /\ ~TakesBack
    BY <1>1, InSchedule DEF TakesBack, Claiming, Undo
  <2>2. /\ call'.op = "SCHEDULE" /\ call'.wrote = call.wrote /\ call'.made = Append(call.made, w)
        /\ call.made \in Seq(Works)
    BY <1>1, <1>3, <2>1 DEF CallRecords
  <2>3. e.place = "ACTIVE" /\ e.life = "PROVIDER_DISPATCHED" /\ e.res = call.res
    BY DEF NoEntry
  <2> HIDE DEF e
  <2>4. mem \in [Works -> Entries]
    BY DEF ClaimInv, Steady, BooksTyped
  <2>5. mem'[w] = e /\ \A v \in Works : v # w => mem'[v] = mem[v]
    BY <1>3, <2>1, <2>4
  <2>6. lanes[w].status = "ACTIVE" /\ lanes[w].life = "PROVIDER_DISPATCHED" /\ reserved[w] = call.res
    BY <1>1, <1>3 DEF Current, Holds, SettledInv, ScheduleSettles
  <2>7. /\ \A v \in Works : sched[v].place = "NONE" /\ mem[v].place # "NONE" =>
             Faithful(mem[v], lanes[v])
        /\ \A i \in DOMAIN call.made : mem[call.made[i]].place # "NONE" /\ Registered(call.made[i])
    BY <1>1 DEF SettledInv, ScheduleSettles
  <2>8. Faithful(e, lanes[w]) /\ Live(e, lanes[w], reserved[w])
    BY <2>3, <2>6 DEF Faithful, Live
  <2>9. \A i \in DOMAIN call'.made : mem'[call'.made[i]].place # "NONE" /\ Registered(call'.made[i])
    <3> TAKE i \in DOMAIN call'.made
    <3>1. (i \in DOMAIN call.made /\ call'.made[i] = call.made[i]) \/ call'.made[i] = w
      BY <2>2
    <3>2. i \in DOMAIN call.made => call.made[i] \in Works
      BY <2>2
    <3> QED
      BY <2>1, <2>3, <2>5, <2>7, <3>1, <3>2
  <2>10. ScheduleSettles'
    BY <1>1, <1>3, <2>2, <2>5, <2>7, <2>8, <2>9
      DEF ScheduleSettles, Claiming, Undo, Registered, laneVars
  <2>11. \A v \in Works : Live(mem'[v], lanes'[v], reserved'[v])
    BY <1>1, <2>1, <2>5, <2>8, InSchedule DEF laneVars, ledgerVars
  <2>12. Unclaimed' /\ AllWellFormed(journal') /\ \A v : Carries(journal, journal', v)
    BY <1>1, <1>3, InSchedule, SameCarries DEF Unclaimed, laneVars
  <2> QED
    BY <1>1, <1>3, <2>2, <2>10, <2>11, <2>12, ScheduleMoves DEF laneVars, ledgerVars
<1> QED
  BY <1>2, <1>3 DEF DispatchEvidence, Try, Goto

LEMMA SaveScheduleSettles ==
  ASSUME ClaimInv, SettledInv, SaveSchedule
  PROVE  SettledInv'
<1>1. /\ pc = "pick" /\ call.op = "SCHEDULE" /\ UNCHANGED <<storeVars, torn>>
  BY DEF SaveSchedule, At, lostVars, ClaimInv, AtStep, CallFits
<1>2. CASE TakeBack(ClaimsMade) /\ UNCHANGED sched
  BY <1>1, <1>2, TakeBackSettles, ClaimsMadeAreRegistered
<1>3. CASE sched' = mem /\ pc' = "commit" /\ UNCHANGED <<journal, call, mem, jm>>
  <2>1. ~TakesBack /\ ~call.wrote /\ DiskSettled /\ \A w \in Works : sched[w].place # "NONE" => mem[w] = sched[w]
    BY <1>1, InSchedule DEF TakesBack, Undo, SettledInv
  <2>2. /\ \A v \in Works : sched[v].place = "NONE" /\ mem[v].place # "NONE" =>
             Faithful(mem[v], lanes[v])
        /\ \A i \in DOMAIN call.made :
             /\ mem[call.made[i]].place # "NONE" /\ Registered(call.made[i])
             /\ sched[call.made[i]].place = "NONE" /\ call.made[i] \in Works
    <3>1. call.made \in Seq(Works)
      BY DEF ClaimInv, Steady, BooksTyped, CallRecords
    <3> QED
      BY <1>1, <3>1 DEF SettledInv, ScheduleSettles, ClaimInv, AtStep, WorkKnown
  <2>3. BooksFit'
    BY <1>1, <1>3 DEF SettledInv, BooksFit, AllWellFormed
  <2>4. Unclaimed'
    BY <1>1, <1>3, <2>1 DEF SettledInv, Unclaimed, storeVars, laneVars
  <2>5. LiveClaims'
    BY <1>1, <1>3, <2>1 DEF SettledInv, LiveClaims, storeVars, laneVars, ledgerVars
  <2>6. \A w \in Works \ torn : Settled(w, mem[w], lanes[w], journal)
    BY <2>1, <2>2 DEF Settled, DiskSettled, Held
  <2>7. DiskSettled'
    BY <1>1, <1>3, <2>6 DEF DiskSettled, storeVars, laneVars
  <2>8. ScheduleSettles'
    BY <1>1, <1>3, <2>2 DEF ScheduleSettles, Claiming, Undo, Registered, storeVars, laneVars
  <2>9. OwnSettles' /\ RecoverySettles'
    BY <1>1, <1>3 DEF OwnSettles, RecoverySettles
  <2> QED
    BY <2>3, <2>4, <2>5, <2>7, <2>8, <2>9 DEF SettledInv
<1> QED
  BY <1>2, <1>3 DEF SaveSchedule, Try, Goto

\* A transaction of a schedule is closed, when its claim is settled or gone.
LEMMA AdvancedSettles ==
  ASSUME journal \in Seq(Transactions), AllWellFormed(journal), NEW w, Registered(w),
         NEW p \in Phases \ {"RECONCILIATION_HELD"}
  PROVE  /\ Advanced(<<w>>, p) \in Seq(Transactions) /\ AllWellFormed(Advanced(<<w>>, p))
         /\ \A v : v # w => Carries(journal, Advanced(<<w>>, p), v)
         /\ \A v : Registered(v) =>
              \E i \in DOMAIN Advanced(<<w>>, p) : Advanced(<<w>>, p)[i].works = <<v>>
<1> DEFINE i == Mine(<<w>>)
           j == [journal EXCEPT ![i].phase = p]
<1>1. i \in DOMAIN journal /\ journal[i].works = <<w>>
  BY MineIsThere
<1> HIDE DEF i
<1>2. \A v : v # w => ~Mentions(journal[i], v)
  BY <1>1 DEF Mentions
<1>3. AllWellFormed(j) /\ \A v : v # w => Carries(journal, j, v)
  BY <1>1, <1>2, PhaseCarries
<1>4. DOMAIN j = DOMAIN journal /\ \A n \in DOMAIN journal : j[n].works = journal[n].works
  BY EditIs
<1>5. j \in Seq(Transactions)
  <2>1. journal[i] \in Transactions
    BY <1>1
  <2>2. [journal[i] EXCEPT !.phase = p] \in Transactions
    BY <2>1 DEF Transactions
  <2>3. j = [journal EXCEPT ![i] = [journal[i] EXCEPT !.phase = p]]
    OBVIOUS
  <2> QED
    BY <1>1, <2>2, <2>3, ExceptSeq
<1>6. Advanced(<<w>>, p) = j
  BY DEF Advanced, i
<1> HIDE DEF j
<1> QED
  BY <1>3, <1>4, <1>5, <1>6 DEF Registered

LEMMA CommitScheduleSettles ==
  ASSUME ClaimInv, SettledInv, CommitSchedule
  PROVE  SettledInv'
<1>1. /\ pc = "commit" /\ call.op = "SCHEDULE" /\ UNCHANGED <<storeVars, sched, torn>>
  BY DEF CommitSchedule, At, lostVars, ClaimInv, AtStep, CallFits
<1>2. CASE EndCall(journal)
  BY <1>1, <1>2, StopSettles, InSchedule
<1>3. ASSUME call.made # <<>>, journal' = Advanced(<<Head(call.made)>>, "COMMITTED"),
             call' = [call EXCEPT !.made = Tail(@)], UNCHANGED <<pc, mem, jm>>
      PROVE  SettledInv'
  <2> DEFINE w == Head(call.made)
  <2>1. call.made \in Seq(Works) /\ call \in CallRecords /\ journal \in Seq(Transactions)
        /\ AllWellFormed(journal)
    BY <1>1, InSchedule DEF CallRecords
  <2>2. \A i \in DOMAIN call.made :
          Faithful(sched[call.made[i]], lanes[call.made[i]]) /\ Registered(call.made[i])
    BY <1>1 DEF SettledInv, ScheduleSettles
  <2>3. Registered(w) /\ Faithful(sched[w], lanes[w])
    BY <1>3, <2>1, <2>2
  <2>4. /\ call'.op = "SCHEDULE" /\ call'.wrote = call.wrote /\ call'.made = Tail(call.made)
    BY <1>1, <1>3, <2>1 DEF CallRecords
  <2>5. \A i \in DOMAIN call'.made : i + 1 \in DOMAIN call.made /\ call'.made[i] = call.made[i + 1]
    BY <1>3, <2>1, <2>4
  <2>6. "COMMITTED" \in Phases \ {"RECONCILIATION_HELD"}
    BY DEF Phases, ClosedPhases
  <2>7. /\ AllWellFormed(journal') /\ \A v : v # w => Carries(journal, journal', v)
        /\ \A v : Registered(v) => Registered(v)'
    <3> HIDE DEF w
    <3>1. journal' = Advanced(<<w>>, "COMMITTED")
      BY <1>3 DEF w
    <3>2. \A v : Registered(v) => \E i \in DOMAIN journal' : journal'[i].works = <<v>>
      BY <2>1, <2>3, <2>6, <3>1, AdvancedSettles
    <3>3. AllWellFormed(journal') /\ \A v : v # w => Carries(journal, journal', v)
      BY <2>1, <2>3, <2>6, <3>1, AdvancedSettles
    <3> QED
      BY <3>2, <3>3 DEF Registered
  <2> HIDE DEF w
  <2>8. ScheduleSettles'
    BY <1>1, <1>3, <2>2, <2>4, <2>5, <2>7 DEF ScheduleSettles, Claiming, Undo, storeVars, laneVars
  <2>9. ~TakesBack /\ Unclaimed'
    BY <1>1, InSchedule DEF TakesBack, Undo, Unclaimed, storeVars, laneVars
  <2>10. \A v \in Works : Live(mem'[v], lanes'[v], reserved'[v])
    BY <1>1, <1>3, <2>9, InSchedule DEF storeVars, laneVars, ledgerVars
  <2>11. \A v \in Works : Carries(journal, journal', v) \/ Faithful(sched[v], lanes[v])
    BY <2>3, <2>7
  <2> QED
    BY <1>1, <1>3, <2>4, <2>7, <2>8, <2>9, <2>10, <2>11, ScheduleMoves DEF storeVars, laneVars, ledgerVars
<1> QED
  BY <1>2, <1>3 DEF CommitSchedule, Try, Goto

\* What a rollback does to the lane and the reservation of one claim.
LEMMA UndoneStores ==
  ASSUME ClaimInv, pc \in Undo, UndoLease \/ UndoReservation
  PROVE  /\ Undoing.w \in Works /\ sched[Undoing.w].place = "NONE" /\ call \in CallRecords
         /\ \A v \in Works \ {Undoing.w} : lanes'[v] = lanes[v] /\ reserved'[v] = reserved[v]
         /\ \A v \in Works : lanes'[v].under = lanes[v].under /\ lanes'[v].life = lanes[v].life
         /\ UNCHANGED <<sched, journal, mem, jm, torn>>
         /\ pc' \in Undo
         /\ \E f \in BOOLEAN : call' = [call EXCEPT !.failed = f]
<1>1. call \in CallRecords /\ Undoing \in Claims /\ sched[Undoing.w].place = "NONE"
  <2>1. call.undo \in Seq(Claims) /\ call.undo # <<>> /\ call \in CallRecords
    BY DEF ClaimInv, Steady, BooksTyped, CallRecords, AtStep, CallFits
  <2>2. 1 \in DOMAIN call.undo /\ Undoing = call.undo[1] /\ Undoing \in Claims
    BY <2>1 DEF Undoing
  <2> QED
    BY <2>1, <2>2 DEF ClaimInv, AtStep, WorkKnown
<1>2. Undoing.w \in Works
  BY <1>1 DEF Claims
<1>3. ASSUME NEW f, NEW l \in Undo, Noting(f, l), f \in BOOLEAN
      PROVE  pc' \in Undo /\ \E g \in BOOLEAN : call' = [call EXCEPT !.failed = g]
  BY <1>1, <1>3 DEF Noting, Goto, CallRecords
<1>4. CASE UndoLease
  <2>1. UNCHANGED <<ledgerVars, evidence, sched, journal, mem, jm, torn>>
    BY <1>4 DEF UndoLease, At, lostVars
  <2>2. UNCHANGED laneVars \/ ReleaseLease(Undoing.w, Undoing.lease)
    BY <1>4 DEF UndoLease, Try
  <2>3. Noting(FALSE, "undoReservation") \/ Noting(TRUE, "undoReservation")
    BY <1>4 DEF UndoLease, Try
  <2>4. /\ \A v \in Works \ {Undoing.w} : lanes'[v] = lanes[v]
        /\ \A v \in Works : lanes'[v].under = lanes[v].under /\ lanes'[v].life = lanes[v].life
    <3>1. CASE UNCHANGED laneVars
      BY <3>1 DEF laneVars
    <3>2. CASE ReleaseLease(Undoing.w, Undoing.lease)
      <4>1. lanes' = [lanes EXCEPT ![Undoing.w].status = "RELEASED"] /\ lanes \in [Works -> Lanes]
        BY <3>2 DEF ReleaseLease, ClaimInv, Steady, StoresTyped
      <4>2. \A v \in Works : lanes'[v] = lanes[v] \/ lanes'[v] = [lanes[v] EXCEPT !.status = "RELEASED"]
        BY <4>1
      <4>3. \A v \in Works : lanes[v] \in Lanes
        BY <4>1
      <4>4. \A v \in Works : lanes'[v].under = lanes[v].under /\ lanes'[v].life = lanes[v].life
        BY <4>2, <4>3 DEF Lanes
      <4> QED
        BY <4>1, <4>4
    <3> QED
      BY <2>2, <3>1, <3>2
  <2>5. "undoReservation" \in Undo
    BY DEF Undo
  <2> QED
    BY <1>1, <1>2, <1>3, <2>1, <2>3, <2>4, <2>5 DEF ledgerVars
<1>5. CASE UndoReservation
  <2>1. UNCHANGED <<laneVars, evidence, sched, journal, mem, jm, torn>>
    BY <1>5 DEF UndoReservation, At, lostVars
  <2>2. UNCHANGED ledgerVars \/ Free(Undoing.w, Undoing.res)
    BY <1>5 DEF UndoReservation, Try
  <2>3. Noting(FALSE, "undone") \/ Noting(TRUE, "undone")
    BY <1>5 DEF UndoReservation, Try
  <2>4. \A v \in Works \ {Undoing.w} : reserved'[v] = reserved[v]
    BY <2>2 DEF Free, ledgerVars, ClaimInv, Steady, StoresTyped
  <2>5. "undone" \in Undo
    BY DEF Undo
  <2> QED
    BY <1>1, <1>2, <1>3, <2>1, <2>3, <2>4, <2>5 DEF laneVars
<1> QED
  BY <1>4, <1>5

LEMMA UndoingSettles ==
  ASSUME ClaimInv, SettledInv, call.op = "SCHEDULE", pc \in Undo, UndoLease \/ UndoReservation
  PROVE  SettledInv'
<1>1. /\ Undoing.w \in Works /\ sched[Undoing.w].place = "NONE"
      /\ \A v \in Works \ {Undoing.w} : lanes'[v] = lanes[v] /\ reserved'[v] = reserved[v]
      /\ \A v \in Works : lanes'[v].under = lanes[v].under /\ lanes'[v].life = lanes[v].life
      /\ UNCHANGED <<sched, journal, mem, jm, torn>> /\ pc' \in Undo
  BY UndoneStores
<1>2. /\ call'.op = "SCHEDULE" /\ call'.wrote = call.wrote /\ call'.undo = call.undo
      /\ pc' \notin Claiming \cup {"pick", "commit", "idle"}
  BY UndoneStores DEF CallRecords, Undo, Claiming
<1>3. ScheduleSettles'
  <2>1. \A i \in DOMAIN call.undo : Registered(call.undo[i].w)
    BY DEF SettledInv, ScheduleSettles
  <2>2. (\A i \in DOMAIN call.undo : Registered(call.undo[i].w))'
    BY <1>1, <1>2, <2>1 DEF Registered
  <2>3. pc' \notin Claiming \cup {"pick", "commit"} /\ pc' # "dispatchEvidence"
    BY <1>2 DEF Claiming
  <2> QED
    BY <2>2, <2>3 DEF ScheduleSettles
<1>4. Unclaimed' /\ TakesBack'
  BY <1>1, <1>2, InSchedule DEF Unclaimed, TakesBack
<1>5. AllWellFormed(journal') /\ \A w : Carries(journal, journal', w)
  BY <1>1, InSchedule, SameCarries
<1>6. \A w \in Works : sched[w].place # "NONE" => lanes'[w] = lanes[w] /\ reserved'[w] = reserved[w]
  BY <1>1
<1> QED
  BY <1>1, <1>2, <1>3, <1>4, <1>5, <1>6, ScheduleMoves

LEMMA UndoneSettles ==
  ASSUME ClaimInv, SettledInv, Undone
  PROVE  SettledInv'
<1> DEFINE w == Undoing.w
           j == Advanced(<<w>>, UndoPhase)
           more == Tail(call.undo)
<1>1. /\ pc = "undone" /\ pc \in Undo /\ call.op = "SCHEDULE" /\ UNCHANGED <<storeVars, sched, torn>>
  BY DEF Undone, Undo
<1>2. call.undo \in Seq(Claims) /\ call.undo # <<>> /\ journal \in Seq(Transactions)
      /\ AllWellFormed(journal) /\ call \in CallRecords /\ ~call.wrote
  BY <1>1, InSchedule DEF ClaimInv, AtStep, CallFits, CallRecords
<1>3. \A i \in DOMAIN call.undo : Registered(call.undo[i].w) /\ sched[call.undo[i].w].place = "NONE"
  BY <1>1 DEF SettledInv, ScheduleSettles, ClaimInv, AtStep, WorkKnown
<1>4. Registered(w) /\ sched[w].place = "NONE"
  BY <1>2, <1>3 DEF Undoing
<1>5. UndoPhase \in Phases \ {"RECONCILIATION_HELD"}
  BY DEF UndoPhase, Phases, ClosedPhases
<1> HIDE DEF w
<1>6. /\ j \in Seq(Transactions) /\ AllWellFormed(j) /\ \A v : v # w => Carries(journal, j, v)
      /\ \A v : Registered(v) => \E i \in DOMAIN j : j[i].works = <<v>>
  BY <1>2, <1>4, <1>5, AdvancedSettles
<1> HIDE DEF j
<1>7. CASE EndCall(journal)
  BY <1>1, <1>2, <1>7, StopSettles
<1>8. CASE EndCall(j)
  <2>1. \A v \in Works \ torn' : Settled(v, sched[v], lanes[v], j)
    <3> TAKE v \in Works \ torn'
    <3>1. CASE v = w
      BY <1>4, <3>1 DEF Settled, Held
    <3>2. CASE v # w
      BY <1>1, <1>2, <1>6, <3>2, CarriedIsSettled DEF SettledInv, DiskSettled
    <3> QED
      BY <3>1, <3>2
  <2> QED
    BY <1>1, <1>6, <1>8, <2>1, EndCallSettles
<1>9. CASE /\ journal' = j /\ pc' = "undoLease" /\ UNCHANGED <<mem, jm>>
           /\ call' = [call EXCEPT !.undo = more, !.failed = FALSE]
  <2>1. /\ call'.op = "SCHEDULE" /\ call'.wrote = call.wrote /\ call'.undo = Tail(call.undo)
    BY <1>1, <1>2, <1>9 DEF CallRecords
  <2>2. \A i \in DOMAIN call'.undo : i + 1 \in DOMAIN call.undo /\ call'.undo[i] = call.undo[i + 1]
    BY <1>2, <2>1
  <2>3. \A v : Registered(v) => Registered(v)'
    BY <1>6, <1>9 DEF Registered
  <2>4. ScheduleSettles'
    BY <1>3, <1>9, <2>1, <2>2, <2>3 DEF ScheduleSettles, Claiming, Undo
  <2>5. TakesBack' /\ Unclaimed'
    BY <1>1, <1>9, <2>1, InSchedule DEF TakesBack, Undo, Unclaimed, storeVars, laneVars
  <2> QED
    BY <1>1, <1>4, <1>6, <1>9, <2>1, <2>4, <2>5, ScheduleMoves DEF storeVars, laneVars, ledgerVars
<1>10. \/ EndCall(journal) \/ EndCall(j)
       \/ /\ journal' = j /\ pc' = "undoLease" /\ UNCHANGED <<mem, jm>>
          /\ call' = [call EXCEPT !.undo = more, !.failed = FALSE]
  <2> DEFINE Next1 == IF more = <<>> THEN EndCall(j)
                      ELSE /\ journal' = j /\ Goto("undoLease")
                           /\ call' = [call EXCEPT !.undo = more, !.failed = FALSE]
                           /\ UNCHANGED <<mem, jm>>
  <2>1. Try(TRUE, Next1, EndCall(journal))
    BY Zenon DEF Undone, w, j
  <2>2. Next1 \/ EndCall(journal)
    BY <2>1, Zenon DEF Try
  <2> QED
    BY <2>2, Zenon DEF Goto
<1> QED
  BY <1>7, <1>8, <1>9, <1>10

-----------------------------------------------------------------------------
(* Steps on the work that an answer, a reap or a repair is about.          *)

\* Nothing but the work in hand is touched, and its lane and reservation
\* still go together.
Elsewhere == \A v \in Works \ {call.w} :
  lanes'[v] = lanes[v] /\ reserved'[v] = reserved[v] /\ mem'[v] = mem[v]
StaysLive ==
  /\ Live(sched[call.w], lanes'[call.w], reserved'[call.w])
  /\ Live(mem'[call.w], lanes'[call.w], reserved'[call.w])

\* What a call about answers knows of the work in hand.
LEMMA InAnswer ==
  ASSUME ClaimInv, SettledInv, pc \in Phase, call.op \in {"OUTCOME", "REAP_BATCH"}
  PROVE  /\ call.w \in Works /\ Held(sched[call.w]) /\ ~call.wrote /\ DiskSettled
         /\ journal \in Seq(Transactions) /\ journal # <<>> /\ Len(journal) \in DOMAIN journal
         /\ Pends(Own) /\ Own.op # "SCHEDULE" /\ Mentions(Own, call.w) /\ Own.kind = call.kind
         /\ call.kind \in Answers
         /\ call.kind \in {"RUNNING", "UNKNOWN"} =>
              sched[call.w].place = "ACTIVE" /\ mem[call.w].place = "ACTIVE"
         /\ Live(sched[call.w], lanes[call.w], reserved[call.w])
         /\ Live(mem[call.w], lanes[call.w], reserved[call.w])
<1>1. pc \in OnClaim
  BY DEF OnClaim
<1>2. call.w \in Works /\ call.w \in Holders(sched)
  BY <1>1 DEF ClaimInv, AtStep, WorkKnown, Holders
<1>3. ~call.wrote /\ DiskSettled
  BY DEF SettledInv, BooksFit
<1>4. journal \in Seq(Transactions) /\ journal # <<>> /\ Len(journal) \in DOMAIN journal
  BY DEF ClaimInv, Steady, BooksTyped, SettledInv, OwnSettles
<1>5. Pends(Own) /\ Own.op # "SCHEDULE"
  BY DEF SettledInv, OwnSettles, Pends, ClosedPhases
<1>6. Own.kind = call.kind /\ Mentions(Own, call.w)
  <2>1. CASE call.op = "OUTCOME"
    BY <2>1 DEF SettledInv, OwnSettles, Mentions
  <2>2. CASE call.op = "REAP_BATCH"
    <3>1. call.todo # <<>> /\ call.kind = "FAILED" /\ call.todo \in Seq(Works)
      BY <2>2 DEF ClaimInv, AtStep, CallFits, Reaping, Steady, BooksTyped, CallRecords
    <3>2. Own.kind = "FAILED" /\ call.w = Head(call.todo)
          /\ \A k \in DOMAIN call.todo : Mentions(Own, call.todo[k])
      BY <2>2 DEF SettledInv, OwnSettles, ReapSettles
    <3> QED
      BY <3>1, <3>2
  <2> QED
    BY <2>1, <2>2
<1>7. call.kind \in Answers
  BY DEF ClaimInv, AtStep, AnswerFits
<1>8. call.kind \in {"RUNNING", "UNKNOWN"} =>
        sched[call.w].place = "ACTIVE" /\ mem[call.w].place = "ACTIVE"
  <2>1. call.kind \in {"RUNNING", "UNKNOWN"} => mem[call.w].place = "ACTIVE"
    BY DEF ClaimInv, AtStep, AnswerFits
  <2>2. MayBecome(sched[call.w], mem[call.w])
    BY <1>2 DEF ClaimInv, Steady, CopyFollows
  <2> QED
    BY <1>2, <2>1, <2>2 DEF MayBecome, Holders
<1>9. ~TakesBack
  BY DEF TakesBack
<1> QED
  BY <1>2, <1>3, <1>4, <1>5, <1>6, <1>7, <1>8, <1>9 DEF SettledInv, LiveClaims, Held, Holders

LEMMA OwnMoves ==
  ASSUME ClaimInv, SettledInv, pc \in Phase, call.op \in {"OUTCOME", "REAP_BATCH"},
         call'.op = call.op, call'.wrote = call.wrote, pc' # "idle",
         UNCHANGED <<sched, journal, jm, torn>>, Elsewhere, StaysLive,
         call.kind = "RUNNING" => lanes'[call.w].status # "RELEASED" \/ lanes'[call.w] = lanes[call.w],
         OwnSettles'
  PROVE  SettledInv'
<1>1. /\ call.w \in Works /\ Held(sched[call.w]) /\ ~call.wrote /\ DiskSettled
      /\ Len(journal) \in DOMAIN journal
      /\ Pends(Own) /\ Own.op # "SCHEDULE" /\ Mentions(Own, call.w) /\ Own.kind = call.kind
      /\ call.kind \in {"RUNNING", "UNKNOWN"} => sched[call.w].place = "ACTIVE"
  BY InAnswer
<1>2. BooksFit'
  BY DEF SettledInv, BooksFit, AllWellFormed
<1>3. Unclaimed'
  <2>1. sched[call.w].place # "NONE"
    BY <1>1 DEF Held
  <2> QED
    BY <2>1 DEF SettledInv, Unclaimed, Elsewhere
<1>4. LiveClaims'
  <2>1. \A w \in Works : /\ Live(sched[w], lanes'[w], reserved'[w])
                         /\ Live(mem'[w], lanes'[w], reserved'[w])
    <3> TAKE w \in Works
    <3>1. CASE w = call.w
      BY <3>1 DEF StaysLive
    <3>2. CASE w # call.w
      BY <3>2 DEF SettledInv, LiveClaims, TakesBack, Elsewhere
    <3> QED
      BY <3>1, <3>2
  <2> QED
    BY <2>1 DEF LiveClaims
<1>5. \A w \in Works \ torn : Settled(w, sched[w], lanes'[w], journal)
  <2> TAKE w \in Works \ torn
  <2>1. CASE w # call.w
    BY <1>1, <2>1 DEF DiskSettled, Elsewhere
  <2>2. CASE w = call.w /\ (call.kind = "RUNNING" => lanes'[w].status # "RELEASED")
    <3>1. Covers(Own, w, sched[w], lanes'[w])
      BY <1>1, <2>2 DEF Covers, Speaks
    <3> QED
      BY <1>1, <3>1 DEF Settled, Own
  <2>3. CASE w = call.w /\ lanes'[w] = lanes[w]
    BY <1>1, <2>3 DEF DiskSettled
  <2> QED
    BY <2>1, <2>2, <2>3
<1>6. DiskSettled'
  BY <1>5 DEF DiskSettled
<1>7. ScheduleSettles' /\ RecoverySettles'
  BY DEF ScheduleSettles, RecoverySettles
<1> QED
  BY <1>2, <1>3, <1>4, <1>6, <1>7 DEF SettledInv

\* What recovery knows of the transaction it is at, and of the work in hand.
LEMMA InRecovery ==
  ASSUME ClaimInv, SettledInv, call.op = "RECOVER", AtTransaction
  PROVE  /\ call.at \in DOMAIN jm /\ Pends(Replayed) /\ Replayed.op # "SCHEDULE"
         /\ Replayed.kind # "RUNNING" /\ jm \in Seq(Transactions) /\ journal \in Seq(Transactions)
         /\ call \in CallRecords
         /\ Replayed \in Transactions /\ WellFormed(Replayed)
         /\ BooksAgree /\ AtSettles /\ Changes /\ CopySettled
         /\ pc # "reapItem" =>
              /\ Mentions(Replayed, call.w) /\ call.w \in Works
              /\ Live(sched[call.w], lanes[call.w], reserved[call.w])
              /\ Live(mem[call.w], lanes[call.w], reserved[call.w])
         /\ (pc # "reapItem" /\ ~(pc = "repaired")) => Held(sched[call.w])
         /\ \A w \in Works : Held(sched[w]) => mem[w].place # "NONE"
<1>1. /\ call.at \in DOMAIN jm /\ Pends(Replayed) /\ Replayed.op # "SCHEDULE"
      /\ Replayed.kind # "RUNNING" /\ (pc # "reapItem" => Mentions(Replayed, call.w))
      /\ BooksAgree /\ AtSettles /\ Changes /\ CopySettled
  BY DEF SettledInv, RecoverySettles, AtSettles
<1>2. jm \in Seq(Transactions) /\ journal \in Seq(Transactions) /\ call \in CallRecords
  BY DEF ClaimInv, Steady, BooksTyped
<1>3. Replayed \in Transactions
  BY <1>1, <1>2 DEF Replayed
<1>4. WellFormed(Replayed)
  BY <1>1 DEF SettledInv, BooksFit, AllWellFormed, Replayed
<1>5. pc # "reapItem" => call.w \in Works
  BY <1>1, <1>3 DEF Mentions, Transactions
<1>6. ~TakesBack
  BY DEF TakesBack
<1>7. pc # "reapItem" =>
        /\ Live(sched[call.w], lanes[call.w], reserved[call.w])
        /\ Live(mem[call.w], lanes[call.w], reserved[call.w])
  BY <1>5, <1>6 DEF SettledInv, LiveClaims
<1>8. (pc # "reapItem" /\ ~(pc = "repaired")) => Held(sched[call.w])
  BY DEF ClaimInv, AtStep, WorkKnown, OnClaim, Holders, Held, AtTransaction
<1>9. \A w \in Works : Held(sched[w]) => mem[w].place # "NONE"
  BY DEF ClaimInv, Steady, CopyFollows, MayBecome, Held
<1> QED
  BY <1>1, <1>2, <1>3, <1>4, <1>5, <1>7, <1>8, <1>9

LEMMA RecoverMoves ==
  ASSUME ClaimInv, ClaimInv', SettledInv, call.op = "RECOVER", AtTransaction,
         pc \notin {"reapItem", "repaired"},
         call'.op = call.op, call'.at = call.at, call'.wrote = call.wrote,
         call.changed => call'.changed,
         call'.changed \/ Scanning \/ mem'[call.w].place = mem[call.w].place,
         call'.left = call.left, call'.first = call.first,
         UNCHANGED <<sched, journal, jm, torn>>, Elsewhere, StaysLive,
         AtTransaction', Scanning' <=> Scanning, AtSettles'
  PROVE  SettledInv'
<1>1. /\ call.at \in DOMAIN jm /\ Pends(Replayed) /\ Replayed.op # "SCHEDULE"
      /\ Replayed.kind # "RUNNING" /\ jm \in Seq(Transactions) /\ Replayed = jm[call.at]
      /\ BooksAgree /\ AtSettles /\ Changes /\ CopySettled
      /\ Mentions(Replayed, call.w) /\ call.w \in Works /\ Held(sched[call.w])
      /\ mem[call.w].place # "NONE"
  BY InRecovery DEF Replayed
<1>2. /\ pc \notin {"replay", "saveJournal", "idle"} /\ pc' \notin {"replay", "saveJournal", "idle"}
  BY DEF AtTransaction, Phase, Compensating
<1>3. BooksFit' /\ ScheduleSettles' /\ OwnSettles'
  BY <1>2 DEF SettledInv, BooksFit, AllWellFormed, ScheduleSettles, OwnSettles
<1>4. Unclaimed'
  <2>1. sched[call.w].place # "NONE"
    BY <1>1 DEF Held
  <2> QED
    BY <2>1 DEF SettledInv, Unclaimed, Elsewhere
<1>5. LiveClaims'
  <2>1. \A w \in Works : /\ Live(sched[w], lanes'[w], reserved'[w])
                         /\ Live(mem'[w], lanes'[w], reserved'[w])
    <3> TAKE w \in Works
    <3>1. CASE w = call.w
      BY <3>1 DEF StaysLive
    <3>2. CASE w # call.w
      BY <3>2 DEF SettledInv, LiveClaims, TakesBack, Elsewhere
    <3> QED
      BY <3>1, <3>2
  <2> QED
    BY <2>1 DEF LiveClaims
<1>6. ~call.wrote => DiskSettled'
  <2> SUFFICES ASSUME ~call.wrote PROVE \A w \in Works \ torn : Settled(w, sched[w], lanes'[w], journal)
    BY DEF DiskSettled
  <2> TAKE w \in Works \ torn
  <2>1. CASE w # call.w
    BY <2>1 DEF SettledInv, DiskSettled, Elsewhere
  <2>2. CASE w = call.w
    <3>1. /\ call.at \in DOMAIN journal /\ Pends(journal[call.at])
          /\ journal[call.at].op # "SCHEDULE" /\ journal[call.at].kind # "RUNNING"
          /\ Mentions(journal[call.at], w)
      <4>1. Len(jm) = Len(journal) /\ journal \in Seq(Transactions)
        BY <1>1 DEF BooksAgree, ClaimInv, Steady, BooksTyped
      <4>2. call.at \in DOMAIN journal
        BY <1>1, <4>1
      <4>3. Pends(journal[call.at]) /\ journal[call.at].op = jm[call.at].op
            /\ journal[call.at].works = jm[call.at].works /\ journal[call.at].kind = jm[call.at].kind
        BY <1>1 DEF BooksAgree
      <4> QED
        BY <1>1, <2>2, <4>2, <4>3 DEF Mentions
    <3> QED
      BY <3>1 DEF Settled, Covers, Speaks
  <2> QED
    BY <2>1, <2>2
<1>7. BooksAgree'
  <2>1. \A t \in Transactions : Past(t) => Past(t)'
    <3> SUFFICES ASSUME NEW t \in Transactions, Past(t) PROVE Past(t)'
      OBVIOUS
    <3>1. \A k \in DOMAIN t.works : t.works[k] \in Works
      BY DEF Transactions
    <3>2. \A w \in Works : mem[w].place = "NONE" => mem'[w].place = "NONE"
      BY <1>1 DEF Elsewhere
    <3> QED
      BY <3>1, <3>2 DEF Past, Pends
  <2>2. \A i \in DOMAIN jm : jm[i] \in Transactions
    BY <1>1
  <2> QED
    BY <1>1, <2>1, <2>2 DEF BooksAgree
<1>8. Changes'
  <2>1. \A w : w = call.w => SpokenFor(w)'
    BY <1>1, <1>2 DEF SpokenFor, Speaks
  <2>2. \A w : SpokenFor(w) => SpokenFor(w)'
    BY <1>2 DEF SpokenFor
  <2> SUFFICES ASSUME ~call'.changed
               PROVE  /\ ~Scanning' => \A w \in Works : mem'[w].place = sched'[w].place
                      /\ \A w \in Works : mem'[w] = sched'[w] \/ SpokenFor(w)'
    BY DEF Changes
  <2>3. ~call.changed
    BY Zenon
  <2>4. /\ ~Scanning => \A w \in Works : mem[w].place = sched[w].place
        /\ \A w \in Works : mem[w] = sched[w] \/ SpokenFor(w)
    BY <1>1, <1>2, <2>3, Zenon DEF Changes
  <2>5. \A w \in Works : mem'[w] = sched'[w] \/ SpokenFor(w)'
    BY <2>1, <2>2, <2>4 DEF Elsewhere
  <2>6. ~Scanning => \A w \in Works : mem'[w].place = sched'[w].place
    <3>1. ~Scanning => mem'[call.w].place = mem[call.w].place
      OBVIOUS
    <3> QED
      BY <2>4, <3>1 DEF Elsewhere
  <2> QED
    BY <2>5, <2>6
<1>9. CopySettled'
  <2>0. Unseen' = Unseen
    BY <1>2 DEF Unseen
  <2> SUFFICES \A w \in Works \ Unseen : Settled(w, mem'[w], lanes'[w], jm)
    BY <1>2, <2>0 DEF CopySettled
  <2> TAKE w \in Works \ Unseen
  <2>1. CASE w # call.w
    BY <1>1, <1>2, <2>1 DEF CopySettled, Elsewhere
  <2>2. CASE w = call.w
    BY <1>1, <2>2 DEF Settled, Covers, Speaks
  <2> QED
    BY <2>1, <2>2
<1>10. RecoverySettles'
  BY <1>7, <1>8, <1>9 DEF RecoverySettles
<1> QED
  BY <1>3, <1>4, <1>5, <1>6, <1>10 DEF SettledInv

\* Recovery goes on without a write.
LEMMA RecoverTurns ==
  ASSUME ClaimInv, SettledInv, call.op = "RECOVER", pc # "saveJournal",
         call'.op = call.op, call'.at = call.at, call'.wrote = call.wrote,
         call'.changed = call.changed, pc' \notin {"idle", "replay", "saveJournal"},
         UNCHANGED <<storeVars, sched, mem, journal, jm, torn>>,
         Scanning' <=> Scanning, AtSettles', call'.first = call.first,
         \A w \in call.left \ call'.left : Scanning /\ (Held(mem[w]) => Faithful(mem[w], lanes[w]))
  PROVE  SettledInv'
<1>1. BooksAgree /\ Changes /\ CopySettled
  BY DEF SettledInv, RecoverySettles
<1>2. BooksFit' /\ ScheduleSettles' /\ OwnSettles' /\ Unclaimed'
  BY DEF SettledInv, BooksFit, AllWellFormed, ScheduleSettles, OwnSettles, Unclaimed, storeVars, laneVars
<1>3. LiveClaims' /\ (~call.wrote => DiskSettled')
  BY DEF SettledInv, LiveClaims, TakesBack, DiskSettled, storeVars, laneVars, ledgerVars
<1>4. BooksAgree'
  BY <1>1 DEF BooksAgree, Past
<1>5. CopySettled'
  <2>1. \A w \in Unseen \ Unseen' : Held(mem[w]) => Faithful(mem[w], lanes[w])
    BY DEF Unseen
  <2> QED
    BY <1>1, <2>1 DEF CopySettled, Settled, storeVars, laneVars
<1>6. Changes'
  <2>1. \A w : SpokenFor(w) => SpokenFor(w)'
    BY DEF SpokenFor
  <2> QED
    BY <1>1, <2>1 DEF Changes
<1> QED
  BY <1>2, <1>3, <1>4, <1>5, <1>6 DEF SettledInv, RecoverySettles

\* Recovery is done with a transaction, whose phase is p from now on.
LEMMA ReplayMoves ==
  ASSUME ClaimInv, ClaimInv', SettledInv, call.op = "RECOVER", ~Scanning, call.at \in DOMAIN jm,
         pc' = "replay", call'.op = call.op, call'.wrote = call.wrote, call'.at = call.at + 1,
         UNCHANGED <<storeVars, sched, journal, torn>>, NEW p \in Phases,
         jm' = [jm EXCEPT ![call.at].phase = p],
         p = "RECONCILIATION_HELD" => Replayed.op = "OUTCOME" /\ Replayed.kind = "UNKNOWN",
         p \notin ClosedPhases =>
           Replayed.kind # "RUNNING" /\ (Replayed.op = "SCHEDULE" => mem[Subject].place = "NONE"),
         \A w \in Works : ~Mentions(Replayed, w) \/ Replayed.op = "SCHEDULE" => mem'[w] = mem[w],
         \A w \in Works : Live(mem'[w], lanes[w], reserved[w]),
         p \in ClosedPhases => \A w \in Works \ torn : Mentions(Replayed, w) /\ Replayed.op # "SCHEDULE" =>
           Settled(w, mem'[w], lanes[w], jm'),
         call'.changed \/ (~call.changed /\ mem' = mem),
         p \notin ClosedPhases \/ pc = "replay" \/ Replayed.op = "SCHEDULE" \/ call'.changed
           \/ \A w \in Works : Mentions(Replayed, w) => mem[w] = sched[w]
  PROVE  SettledInv'
<1>1. BooksAgree /\ Changes /\ CopySettled /\ jm \in Seq(Transactions) /\ AllWellFormed(jm)
  BY DEF SettledInv, RecoverySettles, ClaimInv, Steady, BooksTyped, BooksFit
<1>2. /\ DOMAIN jm' = DOMAIN jm /\ Len(jm') = Len(jm)
      /\ \A i \in DOMAIN jm :
           /\ jm'[i].op = jm[i].op /\ jm'[i].works = jm[i].works /\ jm'[i].kind = jm[i].kind
           /\ jm'[i].phase = IF i = call.at THEN p ELSE jm[i].phase
           /\ i # call.at => jm'[i] = jm[i]
  BY <1>1, EditIs
<1>3. Replayed = jm[call.at] /\ Replayed \in Transactions /\ call.at \in Nat
  <2>1. DOMAIN jm = 1 .. Len(jm)
    BY <1>1
  <2> QED
    BY <1>1, <2>1 DEF Replayed
<1>4. /\ pc \notin {"saveJournal"} /\ ~call.wrote /\ ~Scanning'
  BY <1>1 DEF BooksAgree, Scanning, Repairing, Phase, Compensating
<1>5. \A w \in Works : mem[w].place = "NONE" => mem'[w].place = "NONE"
  BY DEF ClaimInv, Steady, CopyFollows, MayBecome, BooksTyped, Entries, Places
<1>6. BooksFit'
  <2>1. AllWellFormed(jm')
    BY <1>1, <1>2, <1>3 DEF AllWellFormed, WellFormed
  <2> QED
    BY <2>1 DEF SettledInv, BooksFit, AllWellFormed
<1>7. Unclaimed' /\ ScheduleSettles' /\ OwnSettles'
  BY DEF SettledInv, Unclaimed, ScheduleSettles, OwnSettles, storeVars, laneVars
<1>8. LiveClaims' /\ DiskSettled'
  BY <1>4 DEF SettledInv, LiveClaims, DiskSettled, storeVars, laneVars, ledgerVars
<1>9. BooksAgree'
  <2>1. \A i \in DOMAIN jm : call.at + 1 <= i => call.at <= i /\ i # call.at
    BY <1>1, <1>3
  <2>2. /\ Len(jm') = Len(journal')
        /\ \A i \in DOMAIN jm' :
             /\ Pends(journal'[i])
             /\ jm'[i].op = journal'[i].op /\ jm'[i].works = journal'[i].works
             /\ jm'[i].kind = journal'[i].kind
             /\ call'.at <= i => Pends(jm'[i])
    BY <1>1, <1>2, <1>4, <2>1 DEF BooksAgree, Pends
  <2>3. ASSUME NEW i \in DOMAIN jm', i < call.at + 1 PROVE Past(jm[i])'
    <3>1. i \in DOMAIN jm /\ jm[i] \in Transactions /\ i \in Nat
      BY <1>1, <1>2
    <3>2. CASE i = call.at
      <4> SUFFICES ASSUME p \notin ClosedPhases PROVE Past(jm[i])'
        <5>1. jm'[i].phase = p
          BY <1>2, <3>1, <3>2
        <5> QED
          BY <5>1 DEF Past, Pends
      <4>1. jm'[i].kind # "RUNNING" /\ jm'[i].works = Replayed.works /\ jm'[i].op = Replayed.op
        BY <1>2, <1>3, <3>1, <3>2
      <4>2. ASSUME Replayed.op = "SCHEDULE", NEW k \in DOMAIN Replayed.works
            PROVE  mem'[Replayed.works[k]].place = "NONE"
        <5>1. Len(Replayed.works) = 1 /\ Replayed.works \in Seq(Works)
          BY <1>1, <1>3, <4>2 DEF AllWellFormed, WellFormed, Transactions
        <5>2. k = 1 /\ Subject = Replayed.works[k] /\ Subject \in Works
          BY <4>2, <5>1 DEF Subject
        <5> QED
          BY <1>5, <4>2, <5>2
      <4> QED
        BY <4>1, <4>2 DEF Past
    <3>3. CASE i # call.at
      <4>1. jm'[i] = jm[i] /\ i < call.at
        BY <1>2, <1>3, <2>3, <3>1, <3>3
      <4>2. Past(jm[i])
        BY <1>1, <3>1, <4>1 DEF BooksAgree
      <4>3. \A k \in DOMAIN jm[i].works : jm[i].works[k] \in Works
        BY <3>1 DEF Transactions
      <4> QED
        BY <1>5, <4>1, <4>2, <4>3 DEF Past
    <3> QED
      BY <3>2, <3>3
  <2> QED
    BY <1>4, <2>2, <2>3 DEF BooksAgree
<1>10. AtSettles'
  BY DEF AtSettles, AtTransaction, Undo, Phase, Compensating
<1>11. Changes'
  <2> SUFFICES ASSUME ~call'.changed
               PROVE  /\ \A w \in Works : mem'[w].place = sched'[w].place
                      /\ \A w \in Works : mem'[w] = sched'[w] \/ SpokenFor(w)'
    BY DEF Changes
  <2>1. ~call.changed /\ mem' = mem
    BY Zenon
  <2>2. /\ \A w \in Works : mem[w].place = sched[w].place
        /\ \A w \in Works : mem[w] = sched[w] \/ SpokenFor(w)
    BY <1>1, <1>4, <2>1, Zenon DEF Changes
  <2>3. ASSUME NEW w \in Works, mem[w] # sched[w] PROVE SpokenFor(w)'
    <3>1. PICK i \in DOMAIN jm :
            /\ Speaks(jm[i], w) /\ jm[i].kind # "RUNNING" /\ i <= call.at
            /\ pc = "replay" => i < call.at
      BY <2>2, <2>3 DEF SpokenFor
    <3>2. i \in Nat /\ i < call.at + 1
      BY <1>1, <1>3, <3>1
    <3>3. Speaks(jm'[i], w)
      <4>1. CASE i = call.at
        <5>1. p \notin ClosedPhases
          BY <1>3, <2>1, <2>3, <3>1, <4>1 DEF Speaks
        <5>2. jm'[i].phase = p /\ jm'[i].op = jm[i].op /\ jm'[i].works = jm[i].works
          BY <1>2, <3>1, <4>1
        <5> QED
          BY <3>1, <5>1, <5>2 DEF Speaks, Pends, Mentions
      <4>2. CASE i # call.at
        BY <1>2, <3>1, <4>2
      <4> QED
        BY <4>1, <4>2
    <3> QED
      BY <1>2, <1>3, <1>4, <3>1, <3>2, <3>3 DEF SpokenFor
  <2> QED
    BY <2>1, <2>2, <2>3
<1>12. CopySettled'
  <2> SUFFICES ASSUME NEW w \in Works \ torn PROVE Settled(w, mem'[w], lanes[w], jm')
    BY <1>4 DEF CopySettled, Unseen, storeVars, laneVars
  <2>1. Settled(w, mem[w], lanes[w], jm)
    BY <1>1, <1>4 DEF CopySettled, Unseen
  <2>2. CASE ~Mentions(Replayed, w) \/ Replayed.op = "SCHEDULE"
    <3>1. Carries(jm, jm', w)
      BY <1>1, <1>3, <2>2, PhaseCarries
    <3> QED
      BY <2>1, <2>2, <3>1, CarriedIsSettled
  <2>3. CASE Mentions(Replayed, w) /\ Replayed.op # "SCHEDULE" /\ p \in ClosedPhases
    BY <2>3
  <2>4. CASE Mentions(Replayed, w) /\ Replayed.op # "SCHEDULE" /\ p \notin ClosedPhases
    <3>1. Covers(jm'[call.at], w, mem'[w], lanes[w])
      <4>1. \A i \in DOMAIN jm : i = call.at =>
              /\ jm'[i].phase = p /\ jm'[i].op = jm[i].op /\ jm'[i].works = jm[i].works
              /\ jm'[i].kind = jm[i].kind
        BY <1>2
      <4>2. /\ jm'[call.at].phase = p /\ jm'[call.at].op = Replayed.op
            /\ jm'[call.at].works = Replayed.works /\ jm'[call.at].kind = Replayed.kind
        BY <1>3, <4>1, Zenon
      <4> QED
        BY <2>4, <4>2 DEF Covers, Speaks, Pends, Mentions
    <3> QED
      BY <1>2, <3>1 DEF Settled
  <2> QED
    BY <2>2, <2>3, <2>4
<1> QED
  BY <1>6, <1>7, <1>8, <1>9, <1>10, <1>11, <1>12 DEF SettledInv, RecoverySettles

LEMMA ReplayNextSettles ==
  ASSUME ClaimInv, ClaimInv', SettledInv, call.op = "RECOVER", ~Scanning, call.at \in DOMAIN jm,
         UNCHANGED <<storeVars, sched, torn>>, NEW p \in Phases,
         ReplayNext([jm EXCEPT ![call.at].phase = p]),
         p = "RECONCILIATION_HELD" => Replayed.op = "OUTCOME" /\ Replayed.kind = "UNKNOWN",
         p \notin ClosedPhases =>
           Replayed.kind # "RUNNING" /\ (Replayed.op = "SCHEDULE" => mem[Subject].place = "NONE"),
         p \in ClosedPhases => \A w \in Works : Mentions(Replayed, w) /\ Replayed.op # "SCHEDULE" =>
           ~Held(mem[w]) \/ Faithful(mem[w], lanes[w]),
         p \notin ClosedPhases \/ pc = "replay" \/ Replayed.op = "SCHEDULE" \/ call.changed
           \/ \A w \in Works : Mentions(Replayed, w) => mem[w] = sched[w]
  PROVE  SettledInv'
<1>1. /\ jm' = [jm EXCEPT ![call.at].phase = p] /\ pc' = "replay" /\ UNCHANGED <<journal, mem>>
      /\ call' = [call EXCEPT !.at = @ + 1, !.todo = <<>>, !.w = "NONE", !.kind = "NONE",
                              !.targets = <<>>, !.undo = <<>>, !.failed = FALSE]
  BY DEF ReplayNext, Goto
<1>2. call \in CallRecords
  BY DEF ClaimInv, Steady, BooksTyped
<1>3. /\ call'.op = call.op /\ call'.wrote = call.wrote /\ call'.at = call.at + 1
      /\ call'.changed = call.changed
  BY <1>1, <1>2 DEF CallRecords
<1>4. \A w \in Works : Live(mem'[w], lanes[w], reserved[w])
  BY <1>1 DEF SettledInv, LiveClaims, TakesBack
<1>5. p \in ClosedPhases => \A w \in Works \ torn : Mentions(Replayed, w) /\ Replayed.op # "SCHEDULE" =>
        Settled(w, mem'[w], lanes[w], jm')
  BY <1>1 DEF Settled
<1>6. call'.changed \/ (~call.changed /\ mem' = mem)
  BY <1>1, <1>3, Zenon
<1>7. call.changed => call'.changed
  BY <1>3, Zenon
<1> QED
  BY <1>1, <1>3, <1>4, <1>5, <1>6, <1>7, ReplayMoves

\* The transaction is left as it was, or asks for recovery again.
LEMMA LeftPendingSettles ==
  ASSUME ClaimInv, ClaimInv', SettledInv, call.op = "RECOVER", ~Scanning, call.at \in DOMAIN jm,
         UNCHANGED <<storeVars, sched, torn>>,
         ReplayNext(jm) \/ ReplayNext(Marked("RECOVERY_REQUIRED")),
         Pends(Replayed), Replayed.kind # "RUNNING",
         Replayed.op = "SCHEDULE" => mem[Subject].place = "NONE"
  PROVE  SettledInv'
<1>1. Replayed = jm[call.at] /\ Replayed \in Transactions /\ WellFormed(Replayed)
      /\ jm \in Seq(Transactions)
  BY DEF Replayed, ClaimInv, Steady, BooksTyped, SettledInv, BooksFit, AllWellFormed
<1>2. CASE ReplayNext(Marked("RECOVERY_REQUIRED"))
  <2>1. "RECOVERY_REQUIRED" \in Phases /\ "RECOVERY_REQUIRED" \notin ClosedPhases
    BY DEF Phases, ClosedPhases
  <2>2. ReplayNext([jm EXCEPT ![call.at].phase = "RECOVERY_REQUIRED"])
    BY <1>2 DEF Marked
  <2> QED
    BY <2>1, <2>2, ReplayNextSettles
<1>3. CASE ReplayNext(jm)
  <2> DEFINE p == Replayed.phase
  <2>1. [Replayed EXCEPT !.phase = p] = Replayed
    BY <1>1 DEF Transactions
  <2>2. [jm EXCEPT ![call.at].phase = p] = jm
    <3>1. [jm EXCEPT ![call.at].phase = p]
            = [i \in DOMAIN jm |-> IF i = call.at THEN [jm[i] EXCEPT !.phase = p] ELSE jm[i]]
      OBVIOUS
    <3>2. jm = [i \in DOMAIN jm |-> jm[i]]
      BY <1>1
    <3> QED
      BY <1>1, <2>1, <3>1, <3>2
  <2>3. p \in Phases /\ p \notin ClosedPhases
    BY <1>1 DEF Transactions, Pends
  <2>4. p = "RECONCILIATION_HELD" => Replayed.op = "OUTCOME" /\ Replayed.kind = "UNKNOWN"
    BY <1>1 DEF WellFormed
  <2> HIDE DEF p
  <2>5. ReplayNext([jm EXCEPT ![call.at].phase = p])
    BY <1>3, <2>2
  <2> QED
    BY <2>3, <2>4, <2>5, ReplayNextSettles
<1> QED
  BY <1>2, <1>3

\* The work in hand, at any step of phaseOutcome.
InHand ==
  /\ call \in CallRecords /\ call.w \in Works /\ StoresTyped /\ mem \in [Works -> Entries]
  /\ Live(sched[call.w], lanes[call.w], reserved[call.w])
  /\ Live(mem[call.w], lanes[call.w], reserved[call.w])
  /\ call.kind = "RECLAIM" =>
       Faithful(mem[call.w], lanes[call.w]) /\ lanes[call.w].fence = mem[call.w].lease

LEMMA WorkInHand ==
  ASSUME ClaimInv, SettledInv, pc \in Phase
  PROVE  InHand
<1>1. /\ call \in CallRecords /\ call.w \in Works /\ StoresTyped /\ mem \in [Works -> Entries]
      /\ call.kind = "RECLAIM" => call.op = "RECOVER"
  BY PhaseIsKnown
<1>2. ~TakesBack
  BY DEF TakesBack, Undo, Phase
<1>3. Live(sched[call.w], lanes[call.w], reserved[call.w])
      /\ Live(mem[call.w], lanes[call.w], reserved[call.w])
  BY <1>1, <1>2 DEF SettledInv, LiveClaims
<1>4. call.kind = "RECLAIM" =>
        Faithful(mem[call.w], lanes[call.w]) /\ lanes[call.w].fence = mem[call.w].lease
  BY <1>1 DEF SettledInv, RecoverySettles, AtSettles, AtTransaction, Repairing, RepairSettles
<1> QED
  BY <1>1, <1>3, <1>4 DEF InHand

-----------------------------------------------------------------------------
(* The steps of phaseOutcome, for an answer, a reap and recovery alike.    *)

LEMMA PhaseStep ==
  ASSUME ClaimInv, ClaimInv', SettledInv, pc \in Phase, pc' \in Phase,
         call'.op = call.op, call'.w = call.w, call'.kind = call.kind, call'.todo = call.todo,
         call'.made = call.made, call'.at = call.at, call'.wrote = call.wrote,
         call'.changed = call.changed, call'.left = call.left, call'.first = call.first,
         UNCHANGED <<sched, journal, jm, torn>>, Elsewhere, StaysLive,
         mem'[call.w].place = mem[call.w].place,
         call.kind = "RUNNING" => lanes'[call.w].status # "RELEASED" \/ lanes'[call.w] = lanes[call.w],
         call.kind = "RECLAIM" =>
           Faithful(mem'[call.w], lanes'[call.w]) /\ lanes'[call.w].fence = mem'[call.w].lease
  PROVE  SettledInv'
<1>1. call.op \in {"OUTCOME", "REAP_BATCH", "RECOVER"} /\ call.w \in Works
  BY PhaseIsKnown
<1>2. \A v \in Works : mem'[v].place = mem[v].place
  BY DEF Elsewhere
<1>3. CASE call.op \in {"OUTCOME", "REAP_BATCH"}
  <2>1. Mentions(Own, call.w) /\ journal \in Seq(Transactions) /\ Len(journal) \in DOMAIN journal
    BY <1>3, InAnswer
  <2>2. /\ journal # <<>> /\ Own.phase = "INTENT" /\ Own.op = call.op
        /\ \A w \in Works : ~Mentions(Own, w) => mem[w] = sched[w]
        /\ call.op = "OUTCOME" => Own.works = <<call.w>> /\ Own.kind = call.kind
        /\ call.op = "REAP_BATCH" => Own.works = call.made /\ Own.kind = "FAILED" /\ ReapSettles
    BY <1>3 DEF SettledInv, OwnSettles
  <2>3. \A w \in Works : ~Mentions(Own, w) => mem'[w] = sched[w]
    BY <2>1, <2>2 DEF Elsewhere
  <2>4. call.op = "REAP_BATCH" => ReapSettles'
    <3> SUFFICES ASSUME call.op = "REAP_BATCH" PROVE ReapSettles'
      OBVIOUS
    <3>1. Own \in Transactions /\ Own' = Own
      BY <2>1 DEF Own
    <3>2. \A i \in DOMAIN Own.works : Own.works[i] \in Works
      BY <3>1 DEF Transactions
    <3>3. \A i \in DOMAIN Own.works :
            \/ mem'[Own.works[i]].place = "RELEASED"
            \/ \E k \in DOMAIN call.todo : call.todo[k] = Own.works[i]
      BY <1>2, <2>2, <3>2 DEF ReapSettles
    <3>4. /\ call.w = Head(call.todo)
          /\ \A k \in DOMAIN call.todo : Mentions(Own, call.todo[k])
      BY <2>2 DEF ReapSettles
    <3>5. pc' \notin {"saveReap", "supersede", "close"}
      BY DEF Phase
    <3> QED
      BY <3>1, <3>3, <3>4, <3>5 DEF ReapSettles
  <2>5. OwnSettles'
    <3>1. pc' \notin {"apply", "close"} /\ Own' = Own
      BY DEF Phase, Own
    <3> QED
      BY <2>2, <2>3, <2>4, <3>1 DEF OwnSettles
  <2>6. pc' # "idle"
    BY DEF Phase
  <2> QED
    BY <1>3, <2>5, <2>6, OwnMoves
<1>4. CASE call.op = "RECOVER"
  <2>1. AtTransaction /\ AtTransaction' /\ pc \notin {"reapItem", "repaired"} /\ (Scanning' <=> Scanning)
    BY DEF AtTransaction, Scanning, Repairing, Phase, Compensating
  <2>2. /\ call.at \in DOMAIN jm /\ Pends(Replayed) /\ Replayed \in Transactions
        /\ Replayed.op # "SCHEDULE" /\ Replayed.kind # "RUNNING" /\ Mentions(Replayed, call.w)
        /\ Repairing => RepairSettles
        /\ ~Repairing => Replayed.op \in {"OUTCOME", "REAP_BATCH"}
        /\ Replayed.op = "OUTCOME" => AnswerSettles
        /\ Replayed.op = "REAP_BATCH" => BatchSettles
    BY <1>4, <2>1, InRecovery DEF AtSettles
  <2>3. Replayed' = Replayed /\ (Repairing' <=> Repairing)
    BY DEF Replayed, Repairing, Phase, Compensating
  <2>4. pc' \notin {"reapItem", "project", "repaired"} /\ pc' \notin Compensating /\ pc' \notin Undo
    BY DEF Phase, Compensating, Undo
  <2>5. Repairing => RepairSettles'
    BY <2>2, <2>3, <2>4 DEF RepairSettles
  <2>6. Replayed.op = "OUTCOME" => AnswerSettles'
    BY <2>2, <2>3, <2>4 DEF AnswerSettles
  <2>7. Replayed.op = "REAP_BATCH" => BatchSettles'
    <3> SUFFICES ASSUME Replayed.op = "REAP_BATCH" PROVE BatchSettles'
      OBVIOUS
    <3>1. \A i \in DOMAIN Replayed.works : Replayed.works[i] \in Works
      BY <2>2 DEF Transactions
    <3>2. /\ call.w = Head(call.todo)
          /\ \A k \in DOMAIN call.todo : Mentions(Replayed, call.todo[k])
          /\ \A i \in DOMAIN Replayed.works :
               \/ mem'[Replayed.works[i]].place = "RELEASED"
               \/ \E k \in DOMAIN call.todo : call.todo[k] = Replayed.works[i]
      BY <1>2, <2>1, <2>2, <3>1 DEF BatchSettles
    <3> QED
      BY <2>3, <3>2 DEF BatchSettles
  <2>8. AtSettles'
    BY <2>2, <2>3, <2>4, <2>5, <2>6, <2>7 DEF AtSettles
  <2>9. call.changed => call'.changed
    BY Zenon
  <2> QED
    BY <1>4, <2>1, <2>8, <2>9, RecoverMoves
<1> QED
  BY <1>1, <1>3, <1>4

\* The scan writes the transactions, and leaves the stores and its copy alone.
LEMMA ScanWrites ==
  ASSUME SettledInv, call.op = "RECOVER", pc # "saveJournal", pc' = "scan" \/ Repairing',
         call'.op = call.op, call'.wrote, journal' = Pending(jm'),
         jm' \in Seq(Transactions), AllWellFormed(jm'),
         UNCHANGED <<storeVars, sched, mem, torn>>,
         \A i \in DOMAIN jm' : Past(jm[i])',
         AtSettles',
         ~call'.changed => \A w \in Works : mem[w] = sched[w] \/ SpokenFor(w)',
         \A w \in Works \ Unseen' : Settled(w, mem[w], lanes[w], jm')
  PROVE  SettledInv'
<1>1. pc' \notin {"idle", "saveJournal"} \cup Undo \cup Claiming \cup {"pick", "commit"} /\ Scanning'
  BY DEF Scanning, Repairing, Phase, Compensating, Undo, Claiming
<1>2. BooksFit'
  BY <1>1, PendingCarries DEF BooksFit, AllWellFormed
<1>3. Unclaimed' /\ ScheduleSettles' /\ OwnSettles'
  BY <1>1 DEF SettledInv, Unclaimed, ScheduleSettles, OwnSettles, storeVars, laneVars
<1>4. LiveClaims'
  BY DEF SettledInv, LiveClaims, TakesBack, storeVars, laneVars, ledgerVars
<1>5. BooksAgree'
  BY <1>1 DEF BooksAgree
<1>6. Changes'
  BY <1>1 DEF Changes
<1>7. CopySettled'
  BY <1>1 DEF CopySettled, storeVars, laneVars
<1> QED
  BY <1>2, <1>3, <1>4, <1>5, <1>6, <1>7 DEF SettledInv, RecoverySettles

\* A transaction that is at hand while the scan repairs asks for recovery again.
LEMMA RepairFailsSettles ==
  ASSUME ClaimInv, SettledInv, call.op = "RECOVER", Repairing,
         RepairFails, UNCHANGED <<storeVars, sched, torn>>
  PROVE  SettledInv'
<1> DEFINE p == "RECOVERY_REQUIRED"
<1>1. /\ jm' = [jm EXCEPT ![call.at].phase = p] /\ journal' = Pending(jm') /\ pc' = "scan"
      /\ UNCHANGED mem /\ call' = [call EXCEPT !.left = call.left \ {call.w}, !.w = "NONE", !.kind = "NONE"]
  BY DEF RepairFails, Marked, Goto, ClaimInv, Steady, BooksTyped, CallRecords
<1>2. AtTransaction /\ pc # "saveJournal" /\ Scanning
  BY DEF Repairing, AtTransaction, Scanning, Compensating, Phase
<1>3. /\ call.at \in DOMAIN jm /\ Pends(Replayed) /\ Replayed.op # "SCHEDULE"
      /\ Replayed.kind # "RUNNING" /\ jm \in Seq(Transactions)
      /\ call \in CallRecords /\ BooksAgree /\ Changes /\ CopySettled /\ AtSettles
      /\ Replayed = jm[call.at]
  BY <1>2, InRecovery DEF Replayed
<1>4. /\ call'.op = call.op /\ call'.wrote = call.wrote /\ call'.changed = call.changed
      /\ call'.first = call.first /\ call'.left = call.left \ {call.w}
  BY <1>1, <1>3 DEF CallRecords
<1>5. p \in Phases /\ p \notin ClosedPhases /\ p # "RECONCILIATION_HELD"
  BY DEF Phases, ClosedPhases
<1>6. /\ DOMAIN jm' = DOMAIN jm
      /\ \A i \in DOMAIN jm :
           /\ jm'[i].op = jm[i].op /\ jm'[i].works = jm[i].works /\ jm'[i].kind = jm[i].kind
           /\ jm'[i].phase = IF i = call.at THEN p ELSE jm[i].phase
           /\ i # call.at => jm'[i] = jm[i]
  BY <1>1, <1>3, EditIs
<1>7. /\ jm' \in Seq(Transactions)
      /\ AllWellFormed(jm')
      /\ \A w : Carries(jm, jm', w)
  <2>1. AllWellFormed(jm)
    BY DEF SettledInv, BooksFit
  <2>2. jm' \in Seq(Transactions)
    BY <1>1, <1>5, MarkedIsTyped DEF Marked
  <2> QED
    BY <1>1, <1>3, <1>5, <2>1, <2>2, PhaseCarries
<1> HIDE DEF p
<1>8. call.wrote
  BY <1>2, <1>3 DEF AtSettles, RepairSettles
<1>9. ASSUME NEW i \in DOMAIN jm' PROVE Past(jm[i])'
  <2>1. Past(jm[i]) /\ i \in DOMAIN jm
    BY <1>2, <1>3, <1>6 DEF BooksAgree
  <2>2. CASE i = call.at
    <3>1. jm'[i].op # "SCHEDULE" /\ jm'[i].kind # "RUNNING"
      BY <1>3, <1>6, <2>1, <2>2
    <3> QED
      BY <3>1 DEF Past
  <2>3. CASE i # call.at
    <3>1. jm'[i] = jm[i]
      BY <1>6, <2>1, <2>3
    <3> QED
      BY <1>1, <2>1, <3>1 DEF Past
  <2> QED
    BY <2>2, <2>3
<1>10. AtSettles'
  BY <1>1 DEF AtSettles, AtTransaction, Undo, Phase, Compensating
<1>11. ~call'.changed => \A w \in Works : mem[w] = sched[w] \/ SpokenFor(w)'
  <2> SUFFICES ASSUME ~call'.changed, NEW w \in Works, mem[w] # sched[w] PROVE SpokenFor(w)'
    OBVIOUS
  <2>1. ~call.changed
    BY <1>4, Zenon
  <2>2. SpokenFor(w)
    BY <1>2, <1>3, <2>1, Zenon DEF Changes
  <2>3. PICK i \in DOMAIN jm : Speaks(jm[i], w) /\ jm[i].kind # "RUNNING"
    BY <2>2 DEF SpokenFor
  <2>4. PICK n \in DOMAIN jm' : Speaks(jm'[n], w) /\ jm'[n].kind = jm[i].kind
    BY <1>7, <2>3 DEF Carries
  <2>5. Scanning' /\ pc' # "replay"
    BY <1>1 DEF Scanning
  <2> QED
    BY <2>3, <2>4, <2>5 DEF SpokenFor
<1>12. ASSUME NEW w \in Works \ Unseen' PROVE Settled(w, mem[w], lanes[w], jm')
  <2>1. CASE w # call.w
    <3>1. w \notin Unseen
      BY <1>1, <1>2, <1>4, <1>12, <2>1 DEF Unseen, Scanning
    <3>2. Settled(w, mem[w], lanes[w], jm)
      BY <1>2, <1>3, <3>1 DEF CopySettled
    <3> QED
      BY <1>7, <3>2, CarriedIsSettled
  <2>2. CASE w = call.w
    <3>1. Covers(jm[call.at], w, mem[w], lanes[w])
      BY <1>2, <1>3, <2>2 DEF AtSettles, Repairing, Phase, Compensating, Covers, Speaks
    <3>2. Settled(w, mem[w], lanes[w], jm)
      BY <1>3, <3>1 DEF Settled
    <3> QED
      BY <1>7, <3>2, CarriedIsSettled
  <2> QED
    BY <2>1, <2>2
<1>13. call'.wrote
  BY <1>4, <1>8, Zenon
<1> QED
  BY <1>1, <1>2, <1>4, <1>7, <1>9, <1>10, <1>11, <1>12, <1>13, ScanWrites

\* An error while recovery answers for a worker.
LEMMA RecoveryFailsSettles ==
  ASSUME ClaimInv, ClaimInv', SettledInv, call.op = "RECOVER", pc \in Phase \cup {"project"},
         RecoveryPhaseFails, UNCHANGED <<storeVars, sched, torn>>
  PROVE  SettledInv'
<1>1. /\ AtTransaction /\ pc \notin {"reapItem", "repaired", "scan", "saveJournal"}
      /\ pc \notin Compensating
  BY DEF AtTransaction, Phase, Compensating
<1>2. /\ call.at \in DOMAIN jm /\ Pends(Replayed) /\ Replayed.kind # "RUNNING"
      /\ Replayed.op # "SCHEDULE" /\ Replayed = jm[call.at]
      /\ Repairing => Replayed.op = "STORE_RECONCILIATION"
      /\ ~Repairing => Replayed.op \in {"OUTCOME", "REAP_BATCH"}
      /\ BooksAgree
  BY <1>1, InRecovery DEF AtSettles, RepairSettles, Replayed
<1>3. Repairing <=> Scanning
  BY <1>1 DEF Scanning
<1>4. CASE Repairing
  <2>1. RepairFails
    BY <1>2, <1>4 DEF RecoveryPhaseFails
  <2> QED
    BY <1>4, <2>1, RepairFailsSettles
<1>5. CASE ~Repairing
  <2>1. ReplayNext(jm) \/ ReplayNext(Marked("RECOVERY_REQUIRED")) \/ EndCall(journal)
    BY <1>2, <1>5 DEF RecoveryPhaseFails
  <2>2. CASE EndCall(journal)
    <3>1. ~call.wrote
      BY <1>2, <1>3, <1>5 DEF BooksAgree
    <3> QED
      BY <2>2, <3>1, StopSettles
  <2>3. CASE ReplayNext(jm) \/ ReplayNext(Marked("RECOVERY_REQUIRED"))
    BY <1>2, <1>3, <1>5, <2>3, LeftPendingSettles
  <2> QED
    BY <2>1, <2>2, <2>3
<1> QED
  BY <1>4, <1>5

LEMMA PhaseFailsSettles ==
  ASSUME ClaimInv, ClaimInv', SettledInv, pc \in Phase, PhaseFails, UNCHANGED <<storeVars, sched, torn>>
  PROVE  SettledInv'
<1>1. call.op \in {"OUTCOME", "REAP_BATCH", "RECOVER"} /\ call \in CallRecords /\ call.w \in Works
      /\ (call.kind = "RECLAIM" => call.op = "RECOVER")
  BY PhaseIsKnown
<1>2. CASE call.op = "RECOVER"
  BY <1>2, RecoveryFailsSettles DEF PhaseFails
<1>3. CASE call.op # "RECOVER"
  <2>1. ~call.wrote /\ journal # <<>>
        /\ Live(sched[call.w], lanes[call.w], reserved[call.w])
        /\ Live(mem[call.w], lanes[call.w], reserved[call.w])
    BY <1>1, <1>3, InAnswer
  <2>2. CASE EndCall([journal EXCEPT ![Len(journal)].phase = "RECOVERY_REQUIRED"])
    BY <2>1, <2>2, StopForRecoverySettles
  <2>3. CASE /\ pc' = IF EndsClaim(call.kind) /\ lanes[call.w].status = "RELEASED" THEN "free" ELSE "live"
             /\ call' = [call EXCEPT !.second = TRUE, !.targets = <<>>]
             /\ UNCHANGED <<journal, mem, jm>>
    <3>1. /\ call'.op = call.op /\ call'.w = call.w /\ call'.kind = call.kind /\ call'.todo = call.todo
          /\ call'.made = call.made /\ call'.at = call.at /\ call'.wrote = call.wrote
          /\ call'.changed = call.changed
      BY <1>1, <2>3 DEF CallRecords
    <3>2. pc' \in Phase
      BY <2>3 DEF Phase
    <3>3. Elsewhere /\ StaysLive /\ lanes'[call.w] = lanes[call.w]
      BY <2>1, <2>3 DEF Elsewhere, StaysLive, storeVars, laneVars, ledgerVars
    <3> QED
      BY <1>1, <1>3, <2>3, <3>1, <3>2, <3>3, PhaseStep
  <2> QED
    BY <1>3, <2>2, <2>3 DEF PhaseFails, Goto
<1> QED
  BY <1>2, <1>3

LEMMA ExpireLapsedSettles ==
  ASSUME ClaimInv, ClaimInv', SettledInv, ExpireLapsed
  PROVE  SettledInv'
<1>1. pc = "live" /\ pc \in Phase /\ UNCHANGED <<ledgerVars, evidence, sched, torn>>
  BY DEF ExpireLapsed, At, Phase, lostVars
<1>2. CASE PhaseFails /\ UNCHANGED laneVars
  BY <1>1, <1>2, PhaseFailsSettles DEF storeVars
<1>3. CASE ExpireLease(call.w, mem[call.w].lease) /\ UNCHANGED <<pc, journal, call, mem, jm>>
  <2>1. InHand
    BY <1>1, WorkInHand
  <2>2. /\ \A v \in Works \ {call.w} : lanes'[v] = lanes[v]
        /\ lanes'[call.w].status = "EXPIRED" /\ lanes[call.w].status = "ACTIVE"
        /\ lanes'[call.w].life = lanes[call.w].life /\ lanes'[call.w].fence = lanes[call.w].fence
    BY <1>3, <2>1 DEF ExpireLease, MayExpire, Holds, InHand, StoresTyped, Lanes
  <2>3. Elsewhere /\ StaysLive
    BY <1>1, <1>3, <2>1, <2>2 DEF Elsewhere, StaysLive, Live, InHand, ledgerVars
  <2>4. call.kind = "RECLAIM" =>
          Faithful(mem'[call.w], lanes'[call.w]) /\ lanes'[call.w].fence = mem'[call.w].lease
    BY <1>3, <2>1, <2>2 DEF InHand, Faithful
  <2> QED
    BY <1>1, <1>3, <2>2, <2>3, <2>4, PhaseStep
<1> QED
  BY <1>2, <1>3 DEF ExpireLapsed, Try

LEMMA ReclaimExpiredSettles ==
  ASSUME ClaimInv, ClaimInv', SettledInv, ReclaimExpired
  PROVE  SettledInv'
<1>1. pc = "live" /\ pc \in Phase /\ UNCHANGED <<ledgerVars, evidence, sched, torn>>
  BY DEF ReclaimExpired, At, Phase, lostVars
<1>2. CASE PhaseFails /\ UNCHANGED laneVars
  BY <1>1, <1>2, PhaseFailsSettles DEF storeVars
<1>3. CASE /\ ReclaimLease(call.w, mem[call.w].lease)
           /\ mem' = [mem EXCEPT ![call.w].lease = nextLeaseFence]
           /\ pc' = "reclaimEvidence" /\ UNCHANGED <<journal, call, jm>>
  <2>1. InHand
    BY <1>1, WorkInHand
  <2>2. /\ \A v \in Works \ {call.w} : lanes'[v] = lanes[v]
        /\ lanes'[call.w].status = "ACTIVE" /\ lanes[call.w].status = "EXPIRED"
        /\ lanes'[call.w].life = lanes[call.w].life /\ lanes'[call.w].fence = nextLeaseFence
    <3>1. lanes' = [lanes EXCEPT ![call.w].status = "ACTIVE", ![call.w].fence = nextLeaseFence]
          /\ lanes[call.w].status = "EXPIRED"
      BY <1>3 DEF ReclaimLease, MayReclaim
    <3> QED
      BY <2>1, <3>1 DEF InHand, StoresTyped, Lanes
  <2>3. /\ \A v \in Works \ {call.w} : mem'[v] = mem[v]
        /\ mem'[call.w].place = mem[call.w].place /\ mem'[call.w].res = mem[call.w].res
        /\ mem'[call.w].life = mem[call.w].life /\ mem'[call.w].lease = nextLeaseFence
    BY <1>3, <2>1 DEF InHand, Entries
  <2>4. Elsewhere /\ StaysLive
    BY <1>1, <2>1, <2>2, <2>3 DEF Elsewhere, StaysLive, Live, Held, InHand, ledgerVars
  <2>5. call.kind = "RECLAIM" =>
          Faithful(mem'[call.w], lanes'[call.w]) /\ lanes'[call.w].fence = mem'[call.w].lease
    BY <2>1, <2>2, <2>3 DEF InHand, Faithful
  <2>6. pc' \in Phase
    BY <1>3 DEF Phase
  <2> QED
    BY <1>1, <1>3, <2>2, <2>3, <2>4, <2>5, <2>6, PhaseStep
<1> QED
  BY <1>2, <1>3 DEF ReclaimExpired, Try, Goto

LEMMA ReclaimEvidenceSettles ==
  ASSUME ClaimInv, ClaimInv', SettledInv, ReclaimEvidence
  PROVE  SettledInv'
<1> DEFINE w == call.w
<1>1. pc = "reclaimEvidence" /\ pc \in Phase /\ UNCHANGED <<laneVars, ledgerVars, sched, torn>>
  BY DEF ReclaimEvidence, At, Phase, lostVars
<1>2. CASE PhaseFails /\ UNCHANGED evidence
  BY <1>1, <1>2, PhaseFailsSettles DEF storeVars
<1>3. CASE /\ mem' = [mem EXCEPT ![w].ev = <<lanes[w].fence, lanes[w].seq>>]
           /\ pc' = "targets" /\ UNCHANGED <<journal, call, jm>>
  <2>1. InHand
    BY <1>1, WorkInHand
  <2>2. /\ \A v \in Works \ {w} : mem'[v] = mem[v]
        /\ mem'[w].place = mem[w].place /\ mem'[w].res = mem[w].res
        /\ mem'[w].life = mem[w].life /\ mem'[w].lease = mem[w].lease
    BY <1>3, <2>1 DEF InHand, Entries
  <2>3. Elsewhere /\ StaysLive
    BY <1>1, <2>1, <2>2 DEF Elsewhere, StaysLive, Live, Held, InHand, laneVars, ledgerVars
  <2>4. lanes' = lanes
    BY <1>1 DEF laneVars
  <2>5. call.kind = "RECLAIM" => Faithful(mem'[w], lanes'[w]) /\ lanes'[w].fence = mem'[w].lease
    BY <2>1, <2>2, <2>4 DEF InHand, Faithful
  <2>6. pc' \in Phase
    BY <1>3 DEF Phase
  <2> QED
    BY <1>1, <1>3, <2>2, <2>3, <2>4, <2>5, <2>6, PhaseStep
<1> QED
  BY <1>2, <1>3 DEF ReclaimEvidence, Try, Goto

LEMMA LaneIsLiveSettles ==
  ASSUME ClaimInv, ClaimInv', SettledInv, LaneIsLive
  PROVE  SettledInv'
<1>1. /\ pc = "live" /\ pc \in Phase /\ pc' = "targets" /\ pc' \in Phase
      /\ UNCHANGED <<storeVars, sched, journal, call, mem, jm, torn>>
  BY DEF LaneIsLive, At, Phase, Goto, lostVars
<1>2. InHand
  BY <1>1, WorkInHand
<1>3. Elsewhere /\ StaysLive /\ lanes' = lanes
  BY <1>1, <1>2 DEF Elsewhere, StaysLive, InHand, storeVars, laneVars, ledgerVars
<1>4. call.kind = "RECLAIM" =>
        Faithful(mem'[call.w], lanes'[call.w]) /\ lanes'[call.w].fence = mem'[call.w].lease
  BY <1>1, <1>2, <1>3 DEF InHand
<1> QED
  BY <1>1, <1>3, <1>4, PhaseStep

LEMMA NoLiveLaneSettles ==
  ASSUME ClaimInv, ClaimInv', SettledInv, NoLiveLane
  PROVE  SettledInv'
BY PhaseFailsSettles DEF NoLiveLane, At, Phase, lostVars

LEMMA ChooseTargetsSettles ==
  ASSUME ClaimInv, ClaimInv', SettledInv, ChooseTargets
  PROVE  SettledInv'
<1> DEFINE ts == TargetsOf(call.kind, lanes[call.w].life)
<1>1. pc = "targets" /\ pc \in Phase /\ UNCHANGED <<storeVars, sched, torn>>
  BY DEF ChooseTargets, At, Phase, lostVars
<1>2. InHand
  BY <1>1, WorkInHand
<1>3. CASE PhaseFails
  BY <1>1, <1>3, PhaseFailsSettles
<1>4. CASE call.kind = "RECLAIM" /\ pc' = "repaired" /\ UNCHANGED <<journal, call, mem, jm>>
  <2>1. call.op = "RECOVER"
    BY <1>1, <1>4, PhaseIsKnown
  <2>2. AtTransaction /\ AtTransaction' /\ Repairing /\ Repairing' /\ Scanning /\ Scanning'
    BY <1>1, <1>4 DEF AtTransaction, Repairing, Scanning
  <2>3. AtSettles /\ AtSettles'
    <3>1. AtSettles
      BY <2>1 DEF SettledInv, RecoverySettles
    <3>2. lanes' = lanes
      BY <1>1 DEF storeVars, laneVars
    <3>3. RepairSettles /\ RepairSettles'
      BY <1>4, <2>2, <3>1, <3>2 DEF AtSettles, RepairSettles, Compensating, Replayed
    <3>4. pc' \notin Undo /\ pc' # "reapItem"
      BY <1>4 DEF Undo
    <3> QED
      BY <1>1, <1>4, <2>2, <3>1, <3>3, <3>4 DEF AtSettles, RepairSettles, Replayed
  <2>4. pc' \notin {"idle", "replay", "saveJournal"} /\ pc # "saveJournal"
    BY <1>1, <1>4
  <2> QED
    BY <1>1, <1>4, <2>1, <2>2, <2>3, <2>4, RecoverTurns
<1>5. CASE /\ call.kind # "RECLAIM" /\ call' = [call EXCEPT !.targets = ts]
           /\ pc' = IF ts = <<>> THEN "outcomeEvidence" ELSE "checkpoint"
           /\ UNCHANGED <<journal, mem, jm>>
  <2>1. /\ call'.op = call.op /\ call'.w = call.w /\ call'.kind = call.kind /\ call'.todo = call.todo
        /\ call'.made = call.made /\ call'.at = call.at /\ call'.wrote = call.wrote
        /\ call'.changed = call.changed
    BY <1>2, <1>5 DEF InHand, CallRecords
  <2>2. pc' \in Phase
    BY <1>5 DEF Phase
  <2>3. Elsewhere /\ StaysLive /\ lanes' = lanes
    BY <1>1, <1>2, <1>5 DEF Elsewhere, StaysLive, InHand, storeVars, laneVars, ledgerVars
  <2> QED
    BY <1>1, <1>5, <2>1, <2>2, <2>3, PhaseStep
<1> QED
  BY <1>3, <1>4, <1>5 DEF ChooseTargets, Goto

LEMMA CheckpointSettles ==
  ASSUME ClaimInv, ClaimInv', SettledInv, Checkpoint
  PROVE  SettledInv'
<1> DEFINE w == call.w
<1>1. pc = "checkpoint" /\ pc \in Phase /\ UNCHANGED <<ledgerVars, evidence, sched, torn>>
  BY DEF Checkpoint, At, Phase, lostVars
<1>2. InHand /\ call.kind # "RECLAIM"
  BY <1>1, WorkInHand, PhaseIsKnown
<1>3. CASE PhaseFails /\ UNCHANGED laneVars
  BY <1>1, <1>3, PhaseFailsSettles DEF storeVars
<1>4. CASE /\ CheckpointLane(w, mem[w].lease, Head(call.targets), mem[w].res)
           /\ call' = [call EXCEPT !.targets = Tail(call.targets)]
           /\ pc' = IF Tail(call.targets) = <<>> THEN "outcomeEvidence" ELSE "checkpoint"
           /\ UNCHANGED <<journal, mem, jm>>
  <2>1. /\ call'.op = call.op /\ call'.w = call.w /\ call'.kind = call.kind /\ call'.todo = call.todo
        /\ call'.made = call.made /\ call'.at = call.at /\ call'.wrote = call.wrote
        /\ call'.changed = call.changed
    BY <1>2, <1>4 DEF InHand, CallRecords
  <2>2. pc' \in Phase
    BY <1>4 DEF Phase
  <2>3. /\ \A v \in Works \ {w} : lanes'[v] = lanes[v]
        /\ lanes[w].status = "ACTIVE" /\ lanes'[w].status = "ACTIVE"
    <3>1. lanes' = [lanes EXCEPT ![w].life = Head(call.targets), ![w].seq = @ + 1, ![w].under = mem[w].res]
          /\ lanes[w].status = "ACTIVE"
      BY <1>4 DEF CheckpointLane, MayCheckpoint, Current, Holds
    <3> QED
      BY <1>2, <3>1 DEF InHand, StoresTyped, Lanes
  <2>4. Elsewhere /\ StaysLive
    BY <1>1, <1>2, <1>4, <2>3 DEF Elsewhere, StaysLive, Live, InHand, ledgerVars
  <2> QED
    BY <1>1, <1>2, <1>4, <2>1, <2>2, <2>3, <2>4, PhaseStep
<1> QED
  BY <1>3, <1>4 DEF Checkpoint, Try, Goto

LEMMA ReleaseAnsweredSettles ==
  ASSUME ClaimInv, ClaimInv', SettledInv, ReleaseAnswered
  PROVE  SettledInv'
<1>1. pc = "release" /\ pc \in Phase /\ UNCHANGED <<ledgerVars, evidence, sched, torn>>
  BY DEF ReleaseAnswered, At, Phase, lostVars
<1>2. InHand /\ call.kind \notin {"RECLAIM", "RUNNING"}
  BY <1>1, WorkInHand DEF ClaimInv, AtStep, AnswerFits, EndsClaim
<1>3. CASE PhaseFails /\ UNCHANGED laneVars
  BY <1>1, <1>3, PhaseFailsSettles DEF storeVars
<1>4. CASE /\ ReleaseLease(call.w, mem[call.w].lease)
           /\ pc' = "free" /\ UNCHANGED <<journal, call, mem, jm>>
  <2>1. /\ \A v \in Works \ {call.w} : lanes'[v] = lanes[v]
        /\ lanes'[call.w].status = "RELEASED"
    BY <1>2, <1>4 DEF ReleaseLease, InHand, StoresTyped, Lanes
  <2>2. Elsewhere /\ StaysLive
    BY <1>1, <1>2, <1>4, <2>1 DEF Elsewhere, StaysLive, Live, InHand, ledgerVars
  <2>3. pc' \in Phase
    BY <1>4 DEF Phase
  <2> QED
    BY <1>1, <1>2, <1>4, <2>2, <2>3, PhaseStep
<1> QED
  BY <1>3, <1>4 DEF ReleaseAnswered, Try, Goto

\* A claim of a batch is answered: it is released in the copy, and left.
LEMMA ReapedNextSettles ==
  ASSUME ClaimInv, ClaimInv', SettledInv, pc \in Phase, call.op = "REAP_BATCH", ReapedNext,
         UNCHANGED <<laneVars, sched, torn>>,
         \A v \in Works \ {call.w} : reserved'[v] = reserved[v],
         Live(sched[call.w], lanes[call.w], reserved'[call.w])
  PROVE  SettledInv'
<1> DEFINE w == call.w
           rest == Tail(call.todo)
<1>1. /\ UNCHANGED <<journal, jm>> /\ mem' = AfterAnswer(mem, w, "RELEASED", "AMBIGUOUS_REAPED")
      /\ call' = [call EXCEPT !.todo = rest, !.second = FALSE,
                              !.w = IF rest = <<>> THEN "NONE" ELSE Head(rest)]
      /\ pc' = IF rest = <<>> THEN "saveReap" ELSE "live"
  BY DEF ReapedNext, Goto
<1>2. InHand /\ Mentions(Own, w) /\ journal \in Seq(Transactions) /\ Len(journal) \in DOMAIN journal
      /\ journal # <<>> /\ Own.kind = call.kind
  BY WorkInHand, InAnswer
<1>3. call.todo # <<>> /\ call.kind = "FAILED" /\ call.todo \in Seq(Works)
  BY <1>2 DEF ClaimInv, AtStep, CallFits, Reaping, InHand, CallRecords
<1>4. /\ \A v \in Works \ {w} : mem'[v] = mem[v]
      /\ mem'[w].place = "RELEASED"
  BY <1>1, <1>2 DEF AfterAnswer, InHand, Entries
<1>5. /\ call'.op = call.op /\ call'.todo = rest /\ call'.wrote = call.wrote /\ call'.made = call.made
      /\ rest # <<>> => call'.w = Head(rest)
  BY <1>1, <1>2 DEF InHand, CallRecords
<1>6. /\ \A i \in DOMAIN rest : i + 1 \in DOMAIN call.todo /\ rest[i] = call.todo[i + 1]
      /\ \A k \in DOMAIN call.todo : k = 1 \/ (k - 1 \in DOMAIN rest /\ rest[k - 1] = call.todo[k])
      /\ Head(call.todo) = call.todo[1]
  BY <1>3
<1> HIDE DEF rest
<1>7. /\ w = Head(call.todo) /\ \A k \in DOMAIN call.todo : Mentions(Own, call.todo[k])
      /\ \A i \in DOMAIN Own.works :
           \/ mem[Own.works[i]].place = "RELEASED"
           \/ \E k \in DOMAIN call.todo : call.todo[k] = Own.works[i]
      /\ Own.phase = "INTENT" /\ Own.op = "REAP_BATCH" /\ Own.works = call.made /\ Own.kind = "FAILED"
      /\ \A v \in Works : ~Mentions(Own, v) => mem[v] = sched[v]
  BY DEF SettledInv, OwnSettles, ReapSettles
<1>8. Own' = Own /\ \A i \in DOMAIN Own.works : Own.works[i] \in Works
  <2>1. Own \in Transactions
    BY <1>2 DEF Own
  <2> QED
    BY <1>1, <2>1 DEF Own, Transactions
<1>9. \A i \in DOMAIN Own.works :
        \/ mem'[Own.works[i]].place = "RELEASED"
        \/ \E k \in DOMAIN rest : rest[k] = Own.works[i]
  <2> TAKE i \in DOMAIN Own.works
  <2>1. CASE Own.works[i] = w
    BY <1>4, <2>1
  <2>2. CASE Own.works[i] # w /\ mem[Own.works[i]].place = "RELEASED"
    BY <1>4, <1>8, <2>2
  <2>3. CASE Own.works[i] # w /\ \E k \in DOMAIN call.todo : call.todo[k] = Own.works[i]
    <3>1. PICK k \in DOMAIN call.todo : call.todo[k] = Own.works[i]
      BY <2>3
    <3>2. k # 1
      BY <1>6, <1>7, <2>3, <3>1
    <3> QED
      BY <1>6, <3>1, <3>2
  <2> QED
    BY <1>7, <2>1, <2>2, <2>3
<1>10. \A k \in DOMAIN rest : Mentions(Own, rest[k])
  BY <1>6, <1>7
<1>11. ReapSettles'
  <2>1. CASE rest = <<>>
    BY <1>1, <1>5, <1>8, <1>9, <2>1 DEF ReapSettles, Phase
  <2>2. CASE rest # <<>>
    BY <1>1, <1>5, <1>8, <1>9, <1>10, <2>2 DEF ReapSettles, Phase
  <2> QED
    BY <2>1, <2>2
<1>12. OwnSettles'
  <2>1. \A v \in Works : ~Mentions(Own, v) => mem'[v] = sched[v]
    BY <1>2, <1>4, <1>7
  <2>2. pc' \notin {"apply", "close"}
    BY <1>1
  <2> QED
    BY <1>1, <1>2, <1>5, <1>7, <1>8, <1>11, <2>1 DEF OwnSettles
<1>13. Elsewhere /\ StaysLive /\ lanes' = lanes
  BY <1>4 DEF Elsewhere, StaysLive, Live, Held, laneVars
<1>14. pc' # "idle"
  BY <1>1
<1> QED
  BY <1>1, <1>5, <1>12, <1>13, <1>14, OwnMoves

LEMMA PhaseDoneSettles ==
  ASSUME ClaimInv, ClaimInv', SettledInv, pc \in {"outcomeEvidence", "free"}, PhaseDone,
         UNCHANGED <<laneVars, sched, torn>>,
         \A v \in Works \ {call.w} : reserved'[v] = reserved[v],
         reserved'[call.w] = reserved[call.w] \/ lanes[call.w].status = "RELEASED",
         ~EndsClaim(call.kind) => lanes[call.w].status = "ACTIVE" /\ lanes[call.w].fence = mem[call.w].lease
  PROVE  SettledInv'
<1>1. pc \in Phase /\ lanes' = lanes
  BY DEF Phase, laneVars
<1>2. InHand /\ call.op \in {"OUTCOME", "REAP_BATCH", "RECOVER"} /\ call.kind \in Answers
      /\ (call.op = "RECOVER" => call.kind # "RUNNING")
  BY <1>1, WorkInHand, PhaseIsKnown
<1>3. /\ Live(sched[call.w], lanes[call.w], reserved'[call.w])
      /\ Live(mem[call.w], lanes[call.w], reserved'[call.w])
  BY <1>2 DEF InHand, Live
<1>4. CASE call.op = "REAP_BATCH"
  <2>1. ReapedNext
    BY <1>4 DEF PhaseDone
  <2> QED
    BY <1>1, <1>3, <1>4, <2>1, ReapedNextSettles
<1>5. CASE call.op = "OUTCOME"
  <2>1. pc' = "apply" /\ UNCHANGED <<journal, call, mem, jm>>
    BY <1>5 DEF PhaseDone, Goto
  <2>2. OwnSettles'
    BY <1>1, <1>5, <2>1 DEF SettledInv, OwnSettles, Own
  <2>3. Elsewhere /\ StaysLive
    BY <1>1, <1>3, <2>1 DEF Elsewhere, StaysLive
  <2>4. pc' # "idle"
    BY <2>1
  <2> QED
    BY <1>1, <1>5, <2>1, <2>2, <2>3, <2>4, OwnMoves
<1>6. CASE call.op = "RECOVER"
  <2>1. pc' = (IF EndsClaim(call.kind) THEN "refree" ELSE "project") /\ UNCHANGED <<journal, call, mem, jm>>
    BY <1>6 DEF PhaseDone, Goto
  <2>2. AtTransaction /\ AtTransaction' /\ ~Repairing /\ ~Repairing' /\ ~Scanning /\ ~Scanning'
    BY <1>1, <1>2, <2>1 DEF AtTransaction, Repairing, Scanning, Answers, Phase, Compensating
  <2>3. AtSettles
    BY <1>6 DEF SettledInv, RecoverySettles
  <2>4. Replayed' = Replayed /\ pc' \notin Undo /\ pc' # "reapItem" /\ pc # "reapItem"
    BY <2>1 DEF Replayed, Undo
  <2>5. Replayed.op = "OUTCOME" => AnswerSettles'
    BY <1>1, <2>1, <2>2, <2>3, <2>4 DEF AtSettles, AnswerSettles, EndsClaim
  <2>6. Replayed.op = "REAP_BATCH" => BatchSettles'
    BY <2>1, <2>2, <2>3, <2>4 DEF AtSettles, BatchSettles
  <2>7. AtSettles'
    BY <2>1, <2>2, <2>3, <2>4, <2>5, <2>6 DEF AtSettles
  <2>8. Elsewhere /\ StaysLive
    BY <1>1, <1>3, <2>1 DEF Elsewhere, StaysLive
  <2>9. pc \notin {"reapItem", "repaired"} /\ mem'[call.w].place = mem[call.w].place
    BY <2>1
  <2> QED
    BY <1>6, <2>1, <2>2, <2>7, <2>8, <2>9, RecoverMoves
<1> QED
  BY <1>2, <1>4, <1>5, <1>6

LEMMA OutcomeEvidenceSettles ==
  ASSUME ClaimInv, ClaimInv', SettledInv, OutcomeEvidence
  PROVE  SettledInv'
<1>1. pc = "outcomeEvidence" /\ pc \in Phase /\ UNCHANGED <<laneVars, ledgerVars, sched, torn>>
  BY DEF OutcomeEvidence, At, Phase, lostVars
<1>2. InHand /\ call.kind # "RECLAIM" /\ lanes' = lanes /\ reserved' = reserved
  BY <1>1, WorkInHand, PhaseIsKnown DEF laneVars, ledgerVars
<1>3. CASE PhaseFails /\ UNCHANGED evidence
  BY <1>1, <1>3, PhaseFailsSettles DEF storeVars
<1>4. CASE /\ Current(call.w, mem[call.w].lease)
           /\ IF EndsClaim(call.kind) THEN pc' = "release" /\ UNCHANGED <<journal, call, mem, jm>>
              ELSE PhaseDone
  <2>1. CASE EndsClaim(call.kind)
    <3>1. pc' \in Phase /\ UNCHANGED <<journal, call, mem, jm>>
      BY <1>4, <2>1 DEF Phase
    <3>2. Elsewhere /\ StaysLive
      BY <1>2, <3>1 DEF Elsewhere, StaysLive, InHand
    <3> QED
      BY <1>1, <1>2, <3>1, <3>2, PhaseStep
  <2>2. CASE ~EndsClaim(call.kind)
    <3>1. lanes[call.w].status = "ACTIVE" /\ lanes[call.w].fence = mem[call.w].lease
      BY <1>4 DEF Current, Holds
    <3> QED
      BY <1>1, <1>2, <1>4, <2>2, <3>1, PhaseDoneSettles
  <2> QED
    BY <2>1, <2>2
<1> QED
  BY <1>3, <1>4 DEF OutcomeEvidence, Try, Goto

LEMMA FreeAnsweredSettles ==
  ASSUME ClaimInv, ClaimInv', SettledInv, FreeAnswered
  PROVE  SettledInv'
<1>1. pc = "free" /\ pc \in Phase /\ UNCHANGED <<laneVars, evidence, sched, torn>>
  BY DEF FreeAnswered, At, Phase, lostVars
<1>2. InHand /\ lanes[call.w].status = "RELEASED" /\ EndsClaim(call.kind)
  BY <1>1, WorkInHand DEF ClaimInv, AtStep, FreesAt, AnswerFits
<1>3. CASE PhaseFails /\ UNCHANGED ledgerVars
  BY <1>1, <1>3, PhaseFailsSettles DEF storeVars
<1>4. CASE Free(call.w, mem[call.w].res) /\ PhaseDone
  <2>1. \A v \in Works \ {call.w} : reserved'[v] = reserved[v]
    BY <1>2, <1>4 DEF Free, ledgerVars, InHand, StoresTyped
  <2> QED
    BY <1>1, <1>2, <1>4, <2>1, PhaseDoneSettles
<1> QED
  BY <1>3, <1>4 DEF FreeAnswered, Try

LEMMA PhaseOutcomeSettles ==
  ASSUME ClaimInv, ClaimInv', SettledInv, PhaseOutcome
  PROVE  SettledInv'
BY ExpireLapsedSettles, ReclaimExpiredSettles, ReclaimEvidenceSettles, LaneIsLiveSettles,
  NoLiveLaneSettles, ChooseTargetsSettles, CheckpointSettles, OutcomeEvidenceSettles,
  ReleaseAnsweredSettles, FreeAnsweredSettles DEF PhaseOutcome

-----------------------------------------------------------------------------
(* The calls about answers: how they begin, and how they write.            *)

LEMMA StartOfAnswer ==
  ASSUME ClaimInv, SettledInv, pc = "idle", pc' = "live", mem' = sched,
         NEW t \in Transactions, WellFormed(t), t.phase = "INTENT", t.op \in {"OUTCOME", "REAP_BATCH"},
         call'.op = t.op, ~call'.wrote, journal' = Append(journal, t),
         UNCHANGED <<storeVars, sched, jm, torn>>,
         t.op = "OUTCOME" => t.works = <<call'.w>> /\ t.kind = call'.kind,
         t.op = "REAP_BATCH" =>
           /\ t.works = call'.made /\ t.kind = "FAILED"
           /\ call'.todo = t.works /\ call'.w = Head(t.works)
  PROVE  SettledInv'
<1>1. ~call.wrote /\ journal \in Seq(Transactions)
  BY DEF ClaimInv, Steady, BooksTyped, AtStep, CallFits, NoCall
<1>2. AllWellFormed(journal') /\ \A w : Carries(journal, journal', w)
  BY <1>1, LongerCarries DEF SettledInv, BooksFit
<1>3. BooksFit'
  BY <1>2 DEF SettledInv, BooksFit, AllWellFormed
<1>4. Unclaimed' /\ ScheduleSettles' /\ RecoverySettles'
  BY DEF SettledInv, Unclaimed, ScheduleSettles, RecoverySettles, storeVars, laneVars
<1>5. LiveClaims'
  BY DEF SettledInv, LiveClaims, storeVars, laneVars, ledgerVars
<1>6. DiskSettled'
  <2>1. \A w \in Works \ torn : Settled(w, sched[w], lanes[w], journal')
    BY <1>1, <1>2, CarriedIsSettled DEF SettledInv, DiskSettled
  <2> QED
    BY <2>1 DEF DiskSettled, storeVars, laneVars
<1>7. journal' # <<>> /\ Own' = t
  BY <1>1 DEF Own
<1>8. t.op = "REAP_BATCH" => ReapSettles'
  BY <1>7 DEF ReapSettles, Mentions, Phase
<1>9. OwnSettles'
  BY <1>7, <1>8 DEF OwnSettles
<1> QED
  BY <1>3, <1>4, <1>5, <1>6, <1>9 DEF SettledInv

LEMMA StartOutcomeSettles ==
  ASSUME ClaimInv, SettledInv, NEW w \in Works, NEW k \in Answers, StartOutcome(w, k)
  PROVE  SettledInv'
<1> DEFINE t == Transaction("OUTCOME", <<w>>, k, sched[w].lease)
           n == IF k = "UNKNOWN" THEN sched[w].lease ELSE 0
<1>1. /\ pc = "idle" /\ pc' = "live" /\ mem' = sched
      /\ call' = [NoCall EXCEPT !.op = "OUTCOME", !.w = w, !.kind = k, !.need = n]
      /\ journal' = Append(journal, t) /\ UNCHANGED <<storeVars, sched, jm, torn>>
  BY DEF StartOutcome, Begin, Goto, lostVars
<1>2. sched[w] \in Entries
  BY DEF ClaimInv, Steady, BooksTyped
<1>3. sched[w].lease \in Nat
  BY <1>2 DEF Entries
<1>4. /\ t \in Transactions /\ t.works = <<w>> /\ t.op = "OUTCOME" /\ t.kind = k /\ t.phase = "INTENT"
      /\ WellFormed(t)
  BY <1>3 DEF Transaction, Transactions, Operations, Kinds, Phases, WellFormed
<1> HIDE DEF t, n
<1>5. call'.op = "OUTCOME" /\ call'.w = w /\ call'.kind = k /\ ~call'.wrote
  BY <1>1 DEF NoCall
<1> QED
  BY <1>1, <1>4, <1>5, StartOfAnswer

LEMMA StartReapSettles ==
  ASSUME ClaimInv, SettledInv, NEW b \in Batches, StartReap(b)
  PROVE  SettledInv'
<1> DEFINE t == Transaction("REAP_BATCH", b, "FAILED", 0)
<1>1. /\ pc = "idle" /\ pc' = "live" /\ mem' = sched
      /\ call' = [NoCall EXCEPT !.op = "REAP_BATCH", !.todo = b, !.w = Head(b),
                                !.kind = "FAILED", !.made = b]
      /\ journal' = Append(journal, t) /\ UNCHANGED <<storeVars, sched, jm, torn>>
  BY DEF StartReap, Begin, Goto, lostVars
<1>2. b \in Seq(Works) /\ b # <<>>
  <2>1. PICK n \in 1 .. Cardinality(Works) : b \in [1 .. n -> Works]
    BY DEF Batches
  <2>2. n \in Nat \ {0}
    BY <2>1, FS_CardinalityType, SchedulerAssumption
  <2> QED
    BY <2>1, <2>2
<1>3. /\ t \in Transactions /\ t.works = b /\ t.op = "REAP_BATCH" /\ t.kind = "FAILED"
      /\ t.phase = "INTENT" /\ WellFormed(t)
  BY <1>2 DEF Transaction, Transactions, Operations, Kinds, Phases, Answers, WellFormed
<1> HIDE DEF t
<1>4. /\ call'.op = "REAP_BATCH" /\ call'.w = Head(b) /\ call'.kind = "FAILED" /\ call'.todo = b
      /\ call'.made = b /\ ~call'.wrote
  BY <1>1 DEF NoCall
<1> QED
  BY <1>1, <1>3, <1>4, StartOfAnswer

\* What a call about answers knows between its phases and its end.
LEMMA AfterPhases ==
  ASSUME ClaimInv, SettledInv, pc \in {"apply", "close", "saveReap", "supersede"}
  PROVE  /\ call \in CallRecords /\ call.op \in {"OUTCOME", "REAP_BATCH"} /\ ~call.wrote /\ DiskSettled
         /\ journal \in Seq(Transactions) /\ journal # <<>> /\ Len(journal) \in DOMAIN journal
         /\ mem \in [Works -> Entries] /\ sched \in [Works -> Entries] /\ AllWellFormed(journal)
         /\ \A w \in Works : /\ Live(sched[w], lanes[w], reserved[w])
                             /\ Live(mem[w], lanes[w], reserved[w])
         /\ \A w \in Works : ~Mentions(Own, w) => mem[w] = sched[w]
         /\ \A i \in DOMAIN Own.works : Own.works[i] \in Works
<1>1. call.op \in {"OUTCOME", "REAP_BATCH"}
  BY DEF ClaimInv, AtStep, CallFits
<1>2. ~TakesBack /\ ~call.wrote
  BY <1>1 DEF TakesBack, SettledInv, BooksFit
<1>3. journal \in Seq(Transactions) /\ journal # <<>> /\ Len(journal) \in DOMAIN journal
  BY <1>1 DEF ClaimInv, Steady, BooksTyped, SettledInv, OwnSettles
<1>4. \A i \in DOMAIN Own.works : Own.works[i] \in Works
  <2>1. Own \in Transactions
    BY <1>3 DEF Own
  <2> QED
    BY <2>1 DEF Transactions
<1> QED
  BY <1>1, <1>2, <1>3, <1>4 DEF SettledInv, BooksFit, LiveClaims, OwnSettles, ClaimInv, Steady, BooksTyped

\* The state is written by a call about answers.
LEMMA StateIsSaved ==
  ASSUME ClaimInv, SettledInv, pc \in {"apply", "saveReap"}, pc' \in {"close", "supersede"},
         sched' = mem', UNCHANGED <<storeVars, journal, call, jm, torn>>,
         \A w \in Works : ~Mentions(Own, w) => mem'[w] = sched[w],
         \A w \in Works : Mentions(Own, w) => mem'[w].place # "NONE",
         \A w \in Works : Live(mem'[w], lanes[w], reserved[w]),
         \A w \in Works : Mentions(Own, w) /\ Held(mem'[w]) => Faithful(mem'[w], lanes[w]),
         pc' = "supersede" => call.op = "REAP_BATCH",
         call.op = "REAP_BATCH" => \A i \in DOMAIN Own.works : mem'[Own.works[i]].place = "RELEASED"
  PROVE  SettledInv'
<1>1. /\ call.op \in {"OUTCOME", "REAP_BATCH"} /\ ~call.wrote /\ DiskSettled
      /\ journal # <<>> /\ lanes' = lanes /\ reserved' = reserved
  BY AfterPhases DEF storeVars, laneVars, ledgerVars
<1>2. BooksFit'
  BY DEF SettledInv, BooksFit, AllWellFormed
<1>3. Unclaimed'
  BY <1>1 DEF SettledInv, Unclaimed
<1>4. LiveClaims'
  BY <1>1 DEF LiveClaims
<1>5. DiskSettled'
  <2>1. \A w \in Works \ torn : Settled(w, mem'[w], lanes[w], journal)
    BY <1>1 DEF DiskSettled, Settled
  <2> QED
    BY <1>1, <2>1 DEF DiskSettled
<1>6. Own' = Own
  BY DEF Own
<1>7. call.op = "REAP_BATCH" => ReapSettles'
  BY <1>6 DEF ReapSettles, Phase
<1>8. OwnSettles'
  <2>1. call.op = "OUTCOME" => Own.works = <<call.w>> /\ Own.kind = call.kind
    BY DEF SettledInv, OwnSettles
  <2>2. call.op = "OUTCOME" /\ call.w \in Works /\ Held(mem'[call.w]) => Faithful(mem'[call.w], lanes[call.w])
    BY <2>1 DEF Mentions
  <2>3. pc' # "apply" /\ (call.op = "OUTCOME" => call.w \in Works)
    <3>1. \A i \in DOMAIN Own.works : Own.works[i] \in Works
      BY AfterPhases
    <3> QED
      BY <2>1, <3>1
  <2>4. /\ journal # <<>> /\ Own.phase = "INTENT" /\ Own.op = call.op
        /\ call.op = "REAP_BATCH" => Own.works = call.made /\ Own.kind = "FAILED"
    BY <1>1 DEF SettledInv, OwnSettles
  <2> QED
    BY <1>1, <1>6, <1>7, <2>1, <2>2, <2>3, <2>4 DEF OwnSettles
<1>9. ScheduleSettles' /\ RecoverySettles'
  BY <1>1 DEF ScheduleSettles, RecoverySettles
<1> QED
  BY <1>2, <1>3, <1>4, <1>5, <1>8, <1>9 DEF SettledInv

LEMMA SaveOutcomeSettles ==
  ASSUME ClaimInv, SettledInv, SaveOutcome
  PROVE  SettledInv'
<1> DEFINE w == call.w
<1>1. pc = "apply" /\ call.op = "OUTCOME" /\ w \in Works /\ UNCHANGED <<storeVars, torn>>
  BY DEF SaveOutcome, At, lostVars, ClaimInv, AtStep, CallFits, OnClaim
<1>2. ~call.wrote /\ journal # <<>> /\ mem \in [Works -> Entries]
      /\ (\A v \in Works : Live(mem[v], lanes[v], reserved[v]))
      /\ \A v \in Works : ~Mentions(Own, v) => mem[v] = sched[v]
  BY <1>1, AfterPhases
<1>3. CASE EndCall([journal EXCEPT ![Len(journal)].phase = "RECOVERY_REQUIRED"]) /\ UNCHANGED sched
  BY <1>1, <1>2, <1>3, StopForRecoverySettles
<1>4. CASE /\ mem' = AfterAnswer(mem, w, PlaceAfter(call.kind), call.kind)
           /\ sched' = mem' /\ pc' = "close" /\ UNCHANGED <<journal, call, jm>>
  <2>1. /\ \A v \in Works \ {w} : mem'[v] = mem[v]
        /\ mem'[w].place = PlaceAfter(call.kind) /\ mem'[w].life = lanes[w].life
        /\ mem'[w].res = mem[w].res /\ mem'[w].lease = mem[w].lease
    <3>1. mem' = [mem EXCEPT ![w].place = PlaceAfter(call.kind), ![w].life = lanes[w].life,
                             ![w].outcome = call.kind, ![w].ev = <<lanes[w].fence, lanes[w].seq>>]
      BY <1>4 DEF AfterAnswer
    <3> QED
      BY <1>1, <1>2, <3>1 DEF Entries
  <2>2. /\ call.kind \in Answers
        /\ call.kind \in {"RUNNING", "UNKNOWN"} => mem[w].place = "ACTIVE"
        /\ ~EndsClaim(call.kind) => lanes[w].status # "RELEASED" /\ lanes[w].fence = mem[w].lease
    BY <1>1 DEF ClaimInv, AtStep, AnswerFits, SettledInv, OwnSettles
  <2>3. /\ PlaceAfter(call.kind) \in {"ACTIVE", "RECONCILIATION", "RELEASED"}
        /\ PlaceAfter(call.kind) # "RELEASED" => call.kind \in {"RUNNING", "UNKNOWN"}
    BY <2>2 DEF PlaceAfter, Answers
  <2>4. Held(mem'[w]) => ~EndsClaim(call.kind) /\ Held(mem[w])
    BY <2>1, <2>2, <2>3 DEF Held, EndsClaim
  <2>5. Mentions(Own, w) /\ \A v \in Works : Mentions(Own, v) => v = w
    BY <1>1 DEF SettledInv, OwnSettles, Mentions
  <2>6. \A v \in Works : ~Mentions(Own, v) => mem'[v] = sched[v]
    BY <1>2, <2>1, <2>5
  <2>7. \A v \in Works : Live(mem'[v], lanes[v], reserved[v])
    <3> TAKE v \in Works
    <3>1. CASE v # w
      BY <1>2, <2>1, <3>1
    <3>2. CASE v = w
      BY <1>1, <1>2, <2>1, <2>4, <3>2 DEF Live
    <3> QED
      BY <3>1, <3>2
  <2>8. Held(mem'[w]) => Faithful(mem'[w], lanes[w])
    BY <2>1, <2>2, <2>4 DEF Faithful
  <2>9. mem'[w].place # "NONE"
    BY <2>1, <2>3
  <2> QED
    BY <1>1, <1>4, <2>5, <2>6, <2>7, <2>8, <2>9, StateIsSaved
<1> QED
  BY <1>3, <1>4 DEF SaveOutcome, Try, Goto

LEMMA SaveReapSettles ==
  ASSUME ClaimInv, SettledInv, SaveReap
  PROVE  SettledInv'
<1>1. pc = "saveReap" /\ call.op = "REAP_BATCH" /\ UNCHANGED <<storeVars, torn>>
  BY DEF SaveReap, At, lostVars, ClaimInv, AtStep, CallFits
<1>2. /\ ~call.wrote
      /\ (\A v \in Works : Live(mem[v], lanes[v], reserved[v]))
      /\ \A v \in Works : ~Mentions(Own, v) => mem[v] = sched[v]
  BY <1>1, AfterPhases
<1>3. CASE EndCall(journal) /\ UNCHANGED sched
  BY <1>1, <1>2, <1>3, StopSettles
<1>4. CASE sched' = mem /\ pc' = "supersede" /\ UNCHANGED <<journal, call, mem, jm>>
  <2>1. \A i \in DOMAIN Own.works : mem[Own.works[i]].place = "RELEASED"
    <3>1. ReapSettles
      BY <1>1 DEF SettledInv, OwnSettles
    <3>2. call.todo = <<>>
      BY <1>1, <3>1 DEF ReapSettles
    <3>3. \A i \in DOMAIN Own.works :
            \/ mem[Own.works[i]].place = "RELEASED"
            \/ \E k \in DOMAIN call.todo : call.todo[k] = Own.works[i]
      BY <1>1, <3>1 DEF ReapSettles
    <3> QED
      BY <3>2, <3>3
  <2>2. \A w \in Works : Mentions(Own, w) => mem[w].place = "RELEASED"
    BY <2>1 DEF Mentions
  <2>3. \A w \in Works : Mentions(Own, w) => mem[w].place # "NONE" /\ ~Held(mem[w])
    BY <2>2 DEF Held
  <2> QED
    BY <1>1, <1>2, <1>4, <2>1, <2>3, StateIsSaved
<1> QED
  BY <1>3, <1>4 DEF SaveReap, Try, Goto

LEMMA CloseTransactionSettles ==
  ASSUME ClaimInv, SettledInv, CloseTransaction
  PROVE  SettledInv'
<1>1. pc = "close" /\ UNCHANGED <<storeVars, sched, torn>>
  BY DEF CloseTransaction, At, lostVars
<1>2. /\ call.op \in {"OUTCOME", "REAP_BATCH"} /\ ~call.wrote /\ DiskSettled
      /\ journal \in Seq(Transactions) /\ Len(journal) \in DOMAIN journal /\ AllWellFormed(journal)
      /\ journal[Len(journal)] = Own
  BY <1>1, AfterPhases DEF Own
<1>3. CASE EndCall(journal)
  BY <1>1, <1>2, <1>3, StopSettles
<1>4. CASE EndCall([journal EXCEPT ![Len(journal)].phase = "COMMITTED"])
  <2> DEFINE j == [journal EXCEPT ![Len(journal)].phase = "COMMITTED"]
  <2>1. j \in Seq(Transactions) /\ AllWellFormed(j)
        /\ \A w : ~Mentions(Own, w) => Carries(journal, j, w)
    <3>1. "COMMITTED" \in Phases /\ "COMMITTED" # "RECONCILIATION_HELD"
      BY DEF Phases, ClosedPhases
    <3> QED
      BY <1>2, <3>1, PhaseIsTyped, PhaseCarries DEF ClaimInv, Steady
  <2> HIDE DEF j
  <2>2. ASSUME NEW w \in Works \ torn PROVE Settled(w, sched[w], lanes[w], j)
    <3>1. CASE ~Mentions(Own, w)
      BY <1>2, <2>1, <2>2, <3>1, CarriedIsSettled DEF DiskSettled
    <3>2. CASE Mentions(Own, w) /\ call.op = "OUTCOME"
      <4>1. w = call.w /\ (Held(sched[w]) => Faithful(sched[w], lanes[w]))
        BY <1>1, <3>2 DEF SettledInv, OwnSettles, Mentions
      <4> QED
        BY <4>1 DEF Settled
    <3>3. CASE Mentions(Own, w) /\ call.op = "REAP_BATCH"
      <4>1. sched[w].place = "RELEASED"
        BY <1>1, <3>3 DEF SettledInv, OwnSettles, ReapSettles, Mentions
      <4> QED
        BY <4>1 DEF Settled, Held
    <3> QED
      BY <1>2, <3>1, <3>2, <3>3
  <2>3. EndCall(j)
    BY <1>4 DEF j
  <2> QED
    BY <1>1, <2>1, <2>2, <2>3, EndCallSettles
<1> QED
  BY <1>3, <1>4 DEF CloseTransaction, Try

\* A transaction that holds a claim is about that claim only, and is closed
\* when the claim is released.
LEMMA SupersedeHeldSettles ==
  ASSUME ClaimInv, ClaimInv', SettledInv, SupersedeHeld
  PROVE  SettledInv'
<1>1. pc = "supersede" /\ call.op = "REAP_BATCH" /\ UNCHANGED <<storeVars, sched, torn>>
  BY DEF SupersedeHeld, At, lostVars, ClaimInv, AtStep, CallFits
<1>2. /\ ~call.wrote /\ DiskSettled /\ journal # <<>>
      /\ journal \in Seq(Transactions) /\ Len(journal) \in DOMAIN journal /\ AllWellFormed(journal)
      /\ journal[Len(journal)] = Own
  BY <1>1, AfterPhases DEF Own
<1>3. CASE EndCall(journal)
  BY <1>1, <1>2, <1>3, StopSettles
<1>4. CASE /\ journal' = [i \in DOMAIN journal |->
                IF Superseded(journal[i]) THEN [journal[i] EXCEPT !.phase = "SUPERSEDED_BY_REAP"]
                ELSE journal[i]]
           /\ pc' = "close" /\ UNCHANGED <<call, mem, jm>>
  <2>1. \A i \in DOMAIN Own.works : sched[Own.works[i]].place = "RELEASED"
    BY <1>1 DEF SettledInv, OwnSettles, ReapSettles
  <2>2. Own.works = call.made /\ Own.phase = "INTENT" /\ Own.op = call.op /\ Own.kind = "FAILED"
        /\ \A w \in Works : ~Mentions(Own, w) => mem[w] = sched[w]
    BY <1>1 DEF SettledInv, OwnSettles
  <2>3. journal' \in Seq(Transactions)
    BY DEF ClaimInv, Steady, BooksTyped
  <2>4. /\ DOMAIN journal' = DOMAIN journal
        /\ \A i \in DOMAIN journal :
             /\ ~Superseded(journal[i]) => journal'[i] = journal[i]
             /\ Superseded(journal[i]) =>
                  /\ journal'[i].op = journal[i].op /\ journal'[i].works = journal[i].works
                  /\ journal'[i].kind = journal[i].kind /\ journal'[i].phase = "SUPERSEDED_BY_REAP"
    <3>1. \A i \in DOMAIN journal : journal[i] \in Transactions
      BY <1>2
    <3> QED
      BY <1>4, <3>1 DEF Transactions
  <2>5. AllWellFormed(journal')
    BY <1>2, <2>4 DEF AllWellFormed, WellFormed
  <2>6. ASSUME NEW i \in DOMAIN journal, Superseded(journal[i]), NEW w, Mentions(journal[i], w)
        PROVE  sched[w].place = "RELEASED"
    <3>1. Len(journal[i].works) = 1 /\ journal[i] \in Transactions
      BY <1>2, <2>6 DEF AllWellFormed, WellFormed, Superseded
    <3>2. journal[i].works \in Seq(Works)
      BY <3>1 DEF Transactions
    <3>3. PICK k \in DOMAIN call.made : Mentions(journal[i], call.made[k])
      BY <2>6 DEF Superseded
    <3>4. w = call.made[k]
      BY <2>6, <3>1, <3>2, <3>3 DEF Mentions
    <3> QED
      BY <2>1, <2>2, <3>4
  <2>7. ASSUME NEW w \in Works \ torn PROVE Settled(w, sched[w], lanes[w], journal')
    <3>1. CASE ~Held(sched[w])
      BY <3>1 DEF Settled
    <3>2. CASE Held(sched[w])
      <4>1. \A i \in DOMAIN journal : Speaks(journal[i], w) => journal'[i] = journal[i]
        BY <2>4, <2>6, <3>2 DEF Speaks, Held
      <4>2. Carries(journal, journal', w)
        BY <2>4, <4>1 DEF Carries
      <4> QED
        BY <1>2, <4>2, CarriedIsSettled DEF DiskSettled
    <3> QED
      BY <3>1, <3>2
  <2>8. Len(journal') = Len(journal)
    BY <1>2, <2>3, <2>4
  <2>9. Own' = Own
    <3>1. ~Superseded(Own)
      BY <2>2 DEF Superseded
    <3> QED
      BY <1>2, <2>4, <2>8, <3>1 DEF Own
  <2>10. journal' # <<>>
    BY <1>2, <2>3, <2>8
  <2>11. ReapSettles'
    BY <1>4, <2>1, <2>9, <1>1 DEF ReapSettles, Phase
  <2>12. OwnSettles'
    BY <1>1, <1>4, <2>2, <2>9, <2>10, <2>11 DEF OwnSettles
  <2>13. BooksFit' /\ Unclaimed'
    BY <1>1, <1>4, <2>5 DEF SettledInv, BooksFit, AllWellFormed, Unclaimed, storeVars, laneVars
  <2>14. LiveClaims'
    BY <1>1, <1>4 DEF SettledInv, LiveClaims, TakesBack, storeVars, laneVars, ledgerVars
  <2>15. DiskSettled'
    BY <1>1, <2>7 DEF DiskSettled, storeVars, laneVars
  <2>16. ScheduleSettles' /\ RecoverySettles'
    BY <1>1, <1>4 DEF ScheduleSettles, RecoverySettles
  <2> QED
    BY <2>12, <2>13, <2>14, <2>15, <2>16 DEF SettledInv
<1> QED
  BY <1>3, <1>4 DEF SupersedeHeld, Try, Goto

-----------------------------------------------------------------------------
(* recoverSchedulerTransactions: the replay.                               *)

LEMMA StartRecoverySettles ==
  ASSUME ClaimInv, SettledInv, StartRecovery
  PROVE  SettledInv'
<1>1. /\ pc = "idle" /\ pc' = "replay" /\ mem' = sched /\ jm' = journal
      /\ call' = [NoCall EXCEPT !.op = "RECOVER", !.at = 1, !.first = FirstIdentities]
      /\ UNCHANGED <<storeVars, sched, journal, torn>>
  BY DEF StartRecovery, Begin, Goto, lostVars
<1>2. call'.op = "RECOVER" /\ call'.at = 1 /\ ~call'.wrote /\ ~call.wrote /\ journal \in Seq(Transactions)
  BY <1>1 DEF NoCall, ClaimInv, Steady, BooksTyped, AtStep, CallFits
<1>3. BooksFit' /\ Unclaimed' /\ ScheduleSettles' /\ OwnSettles'
  BY <1>1, <1>2 DEF SettledInv, BooksFit, AllWellFormed, Unclaimed, ScheduleSettles, OwnSettles,
     storeVars, laneVars
<1>4. LiveClaims' /\ DiskSettled'
  BY <1>1, <1>2 DEF SettledInv, LiveClaims, DiskSettled, storeVars, laneVars, ledgerVars
<1>5. ~Scanning'
  BY <1>1 DEF Scanning, Repairing, Phase, Compensating
<1>6. BooksAgree'
  <2>1. \A i \in DOMAIN journal : Pends(journal[i]) /\ ~(i < 1)
    BY <1>1, <1>2 DEF SettledInv, BooksFit
  <2> QED
    BY <1>1, <1>2, <1>5, <2>1 DEF BooksAgree
<1>7. AtSettles'
  BY <1>1 DEF AtSettles, AtTransaction, Undo, Phase, Compensating
<1>8. Changes'
  BY <1>1 DEF Changes
<1>9. CopySettled'
  BY <1>1, <1>2, <1>5 DEF CopySettled, Unseen, SettledInv, DiskSettled, storeVars, laneVars
<1> QED
  BY <1>3, <1>4, <1>6, <1>7, <1>8, <1>9 DEF SettledInv, RecoverySettles

\* What recovery knows when it takes up a transaction.
LEMMA InReplay ==
  ASSUME ClaimInv, SettledInv, NEW op, Replaying(op)
  PROVE  /\ pc = "replay" /\ call.op = "RECOVER" /\ call \in CallRecords /\ ~Scanning /\ ~call.wrote
         /\ call.at \in DOMAIN jm /\ Replayed = jm[call.at] /\ jm \in Seq(Transactions)
         /\ Replayed \in Transactions /\ WellFormed(Replayed) /\ Pends(Replayed) /\ Replayed.op = op
         /\ Subject \in Works /\ Mentions(Replayed, Subject)
         /\ op # "REAP_BATCH" => \A w : Mentions(Replayed, w) => w = Subject
         /\ Live(mem[Subject], lanes[Subject], reserved[Subject])
         /\ BooksAgree /\ Changes /\ CopySettled
         /\ mem \in [Works -> Entries]
         /\ UNCHANGED <<storeVars, sched, torn>>
<1>1. pc = "replay" /\ call.at <= Len(jm) /\ Replayed.op = op /\ UNCHANGED <<storeVars, sched, torn>>
  BY DEF Replaying, At, lostVars
<1>2. call.op = "RECOVER" /\ call.at # 0 /\ call \in CallRecords /\ jm \in Seq(Transactions)
      /\ mem \in [Works -> Entries]
  BY <1>1 DEF ClaimInv, AtStep, CallFits, Recovering, Steady, BooksTyped
<1>3. call.at \in DOMAIN jm
  <2>1. call.at \in Nat
    BY <1>2 DEF CallRecords
  <2> QED
    BY <1>1, <1>2, <2>1
<1>4. Replayed = jm[call.at] /\ Replayed \in Transactions /\ WellFormed(Replayed)
  BY <1>2, <1>3 DEF Replayed, SettledInv, BooksFit, AllWellFormed
<1>5. BooksAgree /\ Changes /\ CopySettled
  BY <1>2 DEF SettledInv, RecoverySettles
<1>6. ~Scanning
  BY <1>1 DEF Scanning, Repairing, Phase, Compensating
<1>7. ~call.wrote
  BY <1>5, <1>6 DEF BooksAgree
<1>8. Pends(Replayed)
  <2>1. call.at \in Nat /\ call.at <= call.at
    BY <1>2 DEF CallRecords
  <2> QED
    BY <1>3, <1>4, <1>5, <1>7, <2>1 DEF BooksAgree
<1>9. Replayed.works \in Seq(Works) /\ Replayed.works # <<>>
  BY <1>4 DEF Transactions
<1>10. Subject \in Works /\ Mentions(Replayed, Subject)
       /\ (op # "REAP_BATCH" => \A w : Mentions(Replayed, w) => w = Subject)
  <2>1. 1 \in DOMAIN Replayed.works /\ Subject = Replayed.works[1] /\ Subject \in Works
    BY <1>9 DEF Subject
  <2>2. op # "REAP_BATCH" => \A k \in DOMAIN Replayed.works : k = 1
    BY <1>1, <1>4, <1>9 DEF WellFormed
  <2> QED
    BY <2>1, <2>2 DEF Mentions
<1>11. Live(mem[Subject], lanes[Subject], reserved[Subject])
  BY <1>2, <1>10 DEF SettledInv, LiveClaims, TakesBack
<1> QED
  BY <1>1, <1>2, <1>3, <1>4, <1>5, <1>6, <1>7, <1>8, <1>10, <1>11

\* The transaction is closed: its claim is released, or as the stores say.
LEMMA ReplayClosesSettles ==
  ASSUME ClaimInv, ClaimInv', SettledInv, NEW op, Replaying(op), ReplayNext(Marked("COMMITTED")),
         op # "REAP_BATCH",
         op # "SCHEDULE" => ~Held(mem[Subject]) \/ Faithful(mem[Subject], lanes[Subject])
  PROVE  SettledInv'
<1>1. "COMMITTED" \in Phases /\ "COMMITTED" \in ClosedPhases /\ "COMMITTED" # "RECONCILIATION_HELD"
  BY DEF Phases, ClosedPhases
<1>2. /\ pc = "replay" /\ call.op = "RECOVER" /\ ~Scanning /\ call.at \in DOMAIN jm
      /\ UNCHANGED <<storeVars, sched, torn>>
  BY InReplay
<1>3. \A w \in Works : Mentions(Replayed, w) /\ Replayed.op # "SCHEDULE" =>
        ~Held(mem[w]) \/ Faithful(mem[w], lanes[w])
  BY InReplay
<1>4. ReplayNext([jm EXCEPT ![call.at].phase = "COMMITTED"])
  BY DEF Marked
<1> QED
  BY <1>1, <1>2, <1>3, <1>4, ReplayNextSettles

LEMMA ReplayReconciliationSettles ==
  ASSUME ClaimInv, ClaimInv', SettledInv, ReplayReconciliation
  PROVE  SettledInv'
<1> DEFINE op == "STORE_RECONCILIATION"
<1>1. Replaying(op)
  BY DEF ReplayReconciliation
<1>2. CASE (Subject \notin Holders(mem) \/ Healthy(mem, Subject)) /\ ReplayNext(Marked("COMMITTED"))
  <2>1. ~Held(mem[Subject]) \/ Faithful(mem[Subject], lanes[Subject])
    <3>1. Subject \in Works
      BY <1>1, InReplay
    <3> QED
      BY <1>2, <3>1 DEF Holders, Healthy, ExactLane, Current, Holds, Held, Faithful
  <2> QED
    BY <1>1, <1>2, <2>1, ReplayClosesSettles
<1>3. CASE ReplayNext(jm)
  BY <1>1, <1>3, InReplay, LeftPendingSettles DEF WellFormed
<1> QED
  BY <1>2, <1>3 DEF ReplayReconciliation

LEMMA ReplayScheduleSettles ==
  ASSUME ClaimInv, ClaimInv', SettledInv, ReplaySchedule
  PROVE  SettledInv'
<1>1. Replaying("SCHEDULE")
  BY DEF ReplaySchedule
<1>2. CASE ReplayNext(Marked("COMMITTED"))
  BY <1>1, <1>2, ReplayClosesSettles
<1>3. CASE /\ mem[Subject].place = "NONE" /\ pc' = "undoLease"
           /\ call' = [call EXCEPT !.undo =
                <<[w |-> Subject, res |-> Replayed.res, lease |-> Replayed.lease]>>]
           /\ UNCHANGED <<journal, mem, jm>>
  <2>1. /\ pc = "replay" /\ call.op = "RECOVER" /\ ~Scanning /\ call.at \in DOMAIN jm
        /\ call \in CallRecords /\ Replayed.op = "SCHEDULE" /\ UNCHANGED <<storeVars, sched, torn>>
    BY <1>1, InReplay
  <2>2. /\ call'.op = call.op /\ call'.at = call.at /\ call'.wrote = call.wrote
        /\ call'.changed = call.changed
    BY <1>3, <2>1 DEF CallRecords
  <2>3. ~Scanning'
    BY <1>3 DEF Scanning, Repairing, Phase, Compensating
  <2>4. Replayed' = Replayed /\ Subject' = Subject
    BY <1>3, <2>2 DEF Replayed, Subject
  <2>5. AtSettles'
    BY <1>3, <2>1, <2>2, <2>4 DEF AtSettles, AtTransaction, Phase, Compensating
  <2> QED
    BY <1>3, <2>1, <2>2, <2>3, <2>5, RecoverTurns
<1> QED
  BY <1>2, <1>3 DEF ReplaySchedule, Goto

LEMMA RecoveryUndoneSettles ==
  ASSUME ClaimInv, ClaimInv', SettledInv, RecoveryUndone
  PROVE  SettledInv'
<1>1. /\ pc = "undone" /\ pc \in Undo /\ call.op = "RECOVER" /\ UNCHANGED <<storeVars, sched, torn>>
      /\ ReplayNext([jm EXCEPT ![call.at].phase = UndoPhase])
  BY DEF RecoveryUndone, At, Undo, lostVars, Marked
<1>2. call.at \in DOMAIN jm /\ Replayed.op = "SCHEDULE" /\ mem[Subject].place = "NONE" /\ WellFormed(Replayed)
  BY <1>1 DEF SettledInv, RecoverySettles, AtSettles, BooksFit, AllWellFormed, Replayed
<1>3. ~Scanning
  BY <1>1 DEF Scanning, Repairing, Phase, Compensating
<1>4. UndoPhase \in Phases /\ UndoPhase # "RECONCILIATION_HELD"
  BY UndonePhase DEF UndoPhase
<1> QED
  BY <1>1, <1>2, <1>3, <1>4, ReplayNextSettles DEF WellFormed

\* Recovery takes back a claim that no state knew.
LEMMA RecoveryUndoingSettles ==
  ASSUME ClaimInv, SettledInv, call.op = "RECOVER", pc \in Undo, UndoLease \/ UndoReservation
  PROVE  SettledInv'
<1>1. /\ Undoing.w \in Works /\ sched[Undoing.w].place = "NONE" /\ call \in CallRecords
      /\ \A v \in Works \ {Undoing.w} : lanes'[v] = lanes[v] /\ reserved'[v] = reserved[v]
      /\ \A v \in Works : lanes'[v].under = lanes[v].under /\ lanes'[v].life = lanes[v].life
      /\ UNCHANGED <<sched, journal, mem, jm, torn>> /\ pc' \in Undo
      /\ \E f \in BOOLEAN : call' = [call EXCEPT !.failed = f]
  BY UndoneStores
<1>2. /\ call'.op = call.op /\ call'.wrote = call.wrote /\ call'.at = call.at
      /\ call'.changed = call.changed
  BY <1>1 DEF CallRecords
<1>3. pc \notin {"idle", "saveJournal", "replay"} /\ pc' \notin {"idle", "saveJournal", "replay"}
      /\ ~Scanning /\ ~Scanning' /\ ~AtTransaction'
  BY <1>1 DEF Undo, Scanning, Repairing, AtTransaction, Phase, Compensating
<1>4. ~Held(sched[Undoing.w]) /\ ~Held(mem[Undoing.w])
  <2>1. mem[Undoing.w].place = "NONE"
    BY <1>1 DEF ClaimInv, Steady, CopyFollows, MayBecome
  <2> QED
    BY <1>1, <2>1 DEF Held
<1>5. BooksAgree /\ AtSettles /\ Changes /\ CopySettled
  BY DEF SettledInv, RecoverySettles
<1>6. BooksFit' /\ Unclaimed' /\ ScheduleSettles' /\ OwnSettles'
  BY <1>1, <1>2, <1>3 DEF SettledInv, BooksFit, AllWellFormed, Unclaimed, ScheduleSettles, OwnSettles
<1>7. LiveClaims'
  <2>1. \A v \in Works : Live(sched[v], lanes'[v], reserved'[v]) /\ Live(mem[v], lanes'[v], reserved'[v])
    <3> TAKE v \in Works
    <3>1. CASE v = Undoing.w
      BY <1>4, <3>1 DEF Live
    <3>2. CASE v # Undoing.w
      BY <1>1, <3>2 DEF SettledInv, LiveClaims, TakesBack
    <3> QED
      BY <3>1, <3>2
  <2> QED
    BY <1>1, <2>1 DEF LiveClaims
<1>8. ~call.wrote => DiskSettled'
  <2> SUFFICES ASSUME DiskSettled PROVE DiskSettled'
    BY DEF SettledInv
  <2>1. \A v \in Works \ torn : Settled(v, sched[v], lanes'[v], journal)
    BY <1>1, <1>4 DEF DiskSettled, Settled
  <2> QED
    BY <1>1, <2>1 DEF DiskSettled
<1>9. CopySettled'
  <2>1. \A v \in Works \ torn : Settled(v, mem[v], lanes'[v], jm)
    BY <1>1, <1>3, <1>4, <1>5 DEF CopySettled, Settled, Unseen
  <2> QED
    BY <1>1, <1>3, <2>1 DEF CopySettled, Unseen
<1>10. BooksAgree'
  BY <1>1, <1>2, <1>3, <1>5 DEF BooksAgree, Past
<1>11. AtSettles'
  BY <1>1, <1>2, <1>3, <1>5 DEF AtSettles, Replayed, Subject
<1>12. Changes'
  <2>1. \A w : SpokenFor(w) => SpokenFor(w)'
    BY <1>1, <1>2, <1>3 DEF SpokenFor
  <2> QED
    BY <1>1, <1>2, <1>3, <1>5, <2>1 DEF Changes
<1> QED
  BY <1>2, <1>6, <1>7, <1>8, <1>9, <1>10, <1>11, <1>12 DEF SettledInv, RecoverySettles

LEMMA ReplayReleasedSettles ==
  ASSUME ClaimInv, ClaimInv', SettledInv, ReplayReleased
  PROVE  SettledInv'
<1>1. Replaying("OUTCOME") /\ ReplayNext(Marked("COMMITTED")) /\ ~Held(mem[Subject])
  BY DEF ReplayReleased, IsReleased, Held
<1> QED
  BY <1>1, ReplayClosesSettles

LEMMA ReplayHeldSettles ==
  ASSUME ClaimInv, ClaimInv', SettledInv, ReplayHeld
  PROVE  SettledInv'
<1>1. /\ Replaying("OUTCOME") /\ Replayed.phase = "RECONCILIATION_HELD"
      /\ ReplayNext(jm) \/ ReplayNext(Marked("RECOVERY_REQUIRED"))
  BY DEF ReplayHeld, IsHeld
<1>2. /\ call.op = "RECOVER" /\ ~Scanning /\ call.at \in DOMAIN jm /\ Pends(Replayed)
      /\ Replayed.op = "OUTCOME" /\ Replayed.kind = "UNKNOWN"
      /\ UNCHANGED <<storeVars, sched, torn>>
  BY <1>1, InReplay DEF WellFormed
<1> QED
  BY <1>1, <1>2, LeftPendingSettles

\* An answer is taken up again where its first attempt was interrupted.
LEMMA ReplayWorkSettles ==
  ASSUME ClaimInv, SettledInv, Replaying("OUTCOME"), NEW l \in {"live", "refree", "project"},
         ReplayWork(Subject, Replayed.kind, l), Replayed.kind \in {"SUCCEEDED", "FAILED", "UNKNOWN"},
         l = "project" /\ Replayed.kind = "UNKNOWN" => lanes[Subject].status # "RELEASED"
  PROVE  SettledInv'
<1>1. /\ pc' = l /\ call' = [call EXCEPT !.w = Subject, !.kind = Replayed.kind]
      /\ UNCHANGED <<journal, mem, jm>>
  BY DEF ReplayWork, Goto
<1>2. /\ pc = "replay" /\ call.op = "RECOVER" /\ call \in CallRecords /\ ~Scanning
      /\ call.at \in DOMAIN jm /\ Pends(Replayed) /\ Replayed.op = "OUTCOME"
      /\ Subject \in Works /\ Mentions(Replayed, Subject) /\ UNCHANGED <<storeVars, sched, torn>>
  BY InReplay
<1>3. /\ call'.op = call.op /\ call'.at = call.at /\ call'.wrote = call.wrote
      /\ call'.changed = call.changed /\ call'.w = Subject /\ call'.kind = Replayed.kind
  BY <1>1, <1>2 DEF CallRecords
<1>4. ~Scanning' /\ ~Repairing' /\ pc' \notin Undo /\ pc' # "reapItem"
  BY <1>1, <1>3 DEF Scanning, Repairing, Compensating, Undo
<1>5. Replayed' = Replayed /\ lanes' = lanes
  BY <1>1, <1>2, <1>3 DEF Replayed, storeVars, laneVars
<1>6. AnswerSettles'
  BY <1>1, <1>3, <1>4, <1>5 DEF AnswerSettles
<1>7. AtSettles'
  BY <1>1, <1>2, <1>3, <1>4, <1>5, <1>6 DEF AtSettles
<1>8. pc' \notin {"idle", "replay", "saveJournal"}
  BY <1>1
<1> QED
  BY <1>1, <1>2, <1>3, <1>4, <1>7, <1>8, RecoverTurns

LEMMA ReplayTerminalSettles ==
  ASSUME ClaimInv, SettledInv, ReplayTerminal
  PROVE  SettledInv'
<1> DEFINE l == IF lanes[Subject].status = "RELEASED" THEN "refree" ELSE "live"
<1>1. Replaying("OUTCOME") /\ Replayed.kind \in {"SUCCEEDED", "FAILED"}
      /\ ReplayWork(Subject, Replayed.kind, l) /\ l \in {"live", "refree"}
  BY DEF ReplayTerminal, EndsClaim
<1> HIDE DEF l
<1> QED
  BY <1>1, ReplayWorkSettles

LEMMA ReplayAmbiguousSettles ==
  ASSUME ClaimInv, ClaimInv', SettledInv, ReplayAmbiguous
  PROVE  SettledInv'
<1> DEFINE l == IF lanes[Subject].life = "REROUTE_PENDING" THEN "project" ELSE "live"
<1>1. Replaying("OUTCOME") /\ Replayed.kind = "UNKNOWN"
  BY DEF ReplayAmbiguous
<1>2. CASE ProofStands /\ ReplayWork(Subject, "UNKNOWN", l)
  <2>1. lanes[Subject].status # "RELEASED" /\ l \in {"live", "project"}
    BY <1>2 DEF ProofStands
  <2> HIDE DEF l
  <2> QED
    BY <1>1, <1>2, <2>1, ReplayWorkSettles
<1>3. CASE ReplayNext(Marked("RECOVERY_REQUIRED"))
  <2>1. /\ call.op = "RECOVER" /\ ~Scanning /\ call.at \in DOMAIN jm /\ Pends(Replayed)
        /\ Replayed.op = "OUTCOME" /\ UNCHANGED <<storeVars, sched, torn>>
    BY <1>1, InReplay
  <2> QED
    BY <1>1, <1>3, <2>1, LeftPendingSettles
<1> QED
  BY <1>2, <1>3 DEF ReplayAmbiguous

\* Progress that was interrupted is read off the lane.
LEMMA ReplayProgressSettles ==
  ASSUME ClaimInv, ClaimInv', SettledInv, ReplayProgress
  PROVE  SettledInv'
<1>1. /\ Replaying("OUTCOME") /\ ~IsReleased /\ Replayed.kind = "RUNNING" /\ pc' = "replay"
      /\ jm' = [jm EXCEPT ![call.at].phase = "COMMITTED"] /\ UNCHANGED journal
  BY DEF ReplayProgress, Goto, Marked
<1>2. /\ pc = "replay" /\ call.op = "RECOVER" /\ call \in CallRecords /\ ~Scanning
      /\ call.at \in DOMAIN jm /\ Replayed = jm[call.at] /\ Replayed.op = "OUTCOME"
      /\ Subject \in Works /\ Mentions(Replayed, Subject)
      /\ \A w : Mentions(Replayed, w) => w = Subject
      /\ Live(mem[Subject], lanes[Subject], reserved[Subject])
      /\ CopySettled /\ mem \in [Works -> Entries] /\ jm \in Seq(Transactions)
      /\ UNCHANGED <<storeVars, sched, torn>>
  BY <1>1, InReplay
<1>3. "COMMITTED" \in Phases /\ "COMMITTED" \in ClosedPhases
  BY DEF Phases, ClosedPhases
<1>4. \A i \in DOMAIN jm : i # call.at => i \in DOMAIN jm' /\ jm'[i] = jm[i]
  BY <1>1, <1>2, EditIs
<1>5. \A w \in Works : Live(mem[w], lanes[w], reserved[w])
  BY <1>2 DEF SettledInv, LiveClaims, TakesBack
<1>6. CASE /\ mem[Subject].place = "ACTIVE"
           /\ mem' = [mem EXCEPT ![Subject].life = lanes[Subject].life]
           /\ call' = [call EXCEPT !.at = call.at + 1, !.changed = TRUE]
  <2>1. /\ \A w \in Works \ {Subject} : mem'[w] = mem[w]
        /\ mem'[Subject].place = "ACTIVE" /\ mem'[Subject].life = lanes[Subject].life
        /\ mem'[Subject].res = mem[Subject].res
    BY <1>2, <1>6 DEF Entries
  <2>2. \A w \in Works : Live(mem'[w], lanes[w], reserved[w])
    <3> TAKE w \in Works
    <3>1. CASE w # Subject
      BY <1>5, <2>1, <3>1
    <3>2. CASE w = Subject
      BY <1>2, <1>6, <2>1, <3>2 DEF Live, Held
    <3> QED
      BY <3>1, <3>2
  <2>3. ASSUME NEW w \in Works \ torn, Mentions(Replayed, w)
        PROVE  Settled(w, mem'[w], lanes[w], jm')
    <3>1. w = Subject
      BY <1>2, <2>3
    <3>2. Faithful(mem[w], lanes[w]) \/ \E i \in DOMAIN jm : Covers(jm[i], w, mem[w], lanes[w])
      BY <1>2, <1>6, <2>3, <3>1 DEF CopySettled, Settled, Held, Unseen
    <3>3. CASE lanes[w].status # "RELEASED"
      <4>1. Faithful(mem'[w], lanes[w])
        BY <2>1, <3>1, <3>3 DEF Faithful
      <4> QED
        BY <4>1 DEF Settled
    <3>4. CASE lanes[w].status = "RELEASED"
      <4>1. PICK i \in DOMAIN jm : Covers(jm[i], w, mem[w], lanes[w])
        BY <3>2, <3>4 DEF Faithful
      <4>2. Speaks(jm[i], w) /\ jm[i].kind # "RUNNING"
        BY <3>4, <4>1 DEF Covers
      <4>3. i \in DOMAIN jm' /\ jm'[i] = jm[i]
        BY <1>1, <1>2, <1>4, <4>2
      <4>4. Covers(jm'[i], w, mem'[w], lanes[w])
        BY <4>2, <4>3 DEF Covers
      <4> QED
        BY <4>3, <4>4 DEF Settled
    <3> QED
      BY <3>3, <3>4
  <2>4. call'.op = call.op /\ call'.wrote = call.wrote /\ call'.at = call.at + 1
    BY <1>2, <1>6 DEF CallRecords
  <2>5. call'.changed
    BY <1>2, <1>6 DEF CallRecords
  <2>6. \A w \in Works : ~Mentions(Replayed, w) \/ Replayed.op = "SCHEDULE" => mem'[w] = mem[w]
    BY <1>2, <2>1
  <2> QED
    BY <1>1, <1>2, <1>3, <2>2, <2>3, <2>4, <2>5, <2>6, ReplayMoves
<1>7. CASE /\ mem[Subject].place # "ACTIVE" /\ mem' = mem
           /\ call' = [call EXCEPT !.at = call.at + 1]
  <2>1. ASSUME NEW w \in Works \ torn, Mentions(Replayed, w)
        PROVE  Settled(w, mem'[w], lanes[w], jm')
    <3>1. w = Subject /\ Settled(w, mem[w], lanes[w], jm)
      BY <1>2, <2>1 DEF CopySettled, Unseen
    <3>2. SUFFICES ASSUME Held(mem[w]), ~Faithful(mem[w], lanes[w])
                   PROVE  \E i \in DOMAIN jm' : Covers(jm'[i], w, mem[w], lanes[w])
      BY <1>7 DEF Settled
    <3>3. PICK i \in DOMAIN jm : Covers(jm[i], w, mem[w], lanes[w])
      BY <3>1, <3>2 DEF Settled
    <3>4. jm[i].kind # "RUNNING"
      BY <1>7, <3>1, <3>3 DEF Covers
    <3>5. i \in DOMAIN jm' /\ jm'[i] = jm[i]
      BY <1>1, <1>2, <1>4, <3>4
    <3> QED
      BY <3>3, <3>5
  <2>2. call'.op = call.op /\ call'.wrote = call.wrote /\ call'.at = call.at + 1
        /\ call'.changed = call.changed
    BY <1>2, <1>7 DEF CallRecords
  <2>3. call'.changed \/ (~call.changed /\ mem' = mem)
    BY <1>7, <2>2, Zenon
  <2> QED
    BY <1>1, <1>2, <1>3, <1>5, <1>7, <2>1, <2>2, <2>3, ReplayMoves
<1>8. [call EXCEPT !.at = @ + 1] = [call EXCEPT !.at = call.at + 1]
      /\ [call EXCEPT !.at = @ + 1, !.changed = TRUE] = [call EXCEPT !.at = call.at + 1, !.changed = TRUE]
  BY <1>2 DEF CallRecords
<1>9. IF mem[Subject].place = "ACTIVE"
      THEN /\ mem' = [mem EXCEPT ![Subject].life = lanes[Subject].life]
           /\ call' = [call EXCEPT !.at = @ + 1, !.changed = TRUE]
      ELSE UNCHANGED mem /\ call' = [call EXCEPT !.at = @ + 1]
  BY DEF ReplayProgress
<1>10. CASE mem[Subject].place = "ACTIVE"
  <2>1. /\ mem' = [mem EXCEPT ![Subject].life = lanes[Subject].life]
        /\ call' = [call EXCEPT !.at = call.at + 1, !.changed = TRUE]
    BY <1>8, <1>9, <1>10
  <2> QED
    BY <1>6, <1>10, <2>1
<1>11. CASE mem[Subject].place # "ACTIVE"
  <2>1. mem' = mem /\ call' = [call EXCEPT !.at = call.at + 1]
    BY <1>8, <1>9, <1>11
  <2> QED
    BY <1>7, <1>11, <2>1
<1> QED
  BY <1>10, <1>11

LEMMA ReplayReapSettles ==
  ASSUME ClaimInv, SettledInv, ReplayReap
  PROVE  SettledInv'
<1> DEFINE ws == Replayed.works
           I == {i \in DOMAIN ws : mem[ws[i]].place # "RELEASED"}
<1>1. /\ Replaying("REAP_BATCH") /\ pc' = "reapItem" /\ UNCHANGED <<journal, mem, jm>>
      /\ call' = [call EXCEPT !.todo = Kept(ws, I)]
  BY DEF ReplayReap, Goto
<1>2. /\ pc = "replay" /\ call.op = "RECOVER" /\ call \in CallRecords /\ ~Scanning
      /\ call.at \in DOMAIN jm /\ Pends(Replayed) /\ Replayed.op = "REAP_BATCH"
      /\ Replayed.kind # "RUNNING" /\ Replayed \in Transactions
      /\ UNCHANGED <<storeVars, sched, torn>>
  BY <1>1, InReplay DEF WellFormed
<1>3. /\ call'.op = call.op /\ call'.at = call.at /\ call'.wrote = call.wrote
      /\ call'.changed = call.changed /\ call'.todo = Kept(ws, I)
  BY <1>1, <1>2 DEF CallRecords
<1>4. ~Scanning' /\ ~Repairing' /\ pc' \notin Undo
  BY <1>1 DEF Scanning, Repairing, Phase, Compensating, Undo
<1>5. Replayed' = Replayed
  BY <1>1, <1>3 DEF Replayed
<1>6. ws \in Seq(Works)
  BY <1>2 DEF Transactions
<1>7. \A k \in DOMAIN Kept(ws, I) : Mentions(Replayed, Kept(ws, I)[k])
  <2> HIDE DEF I, ws
  <2>1. \A k \in DOMAIN Kept(ws, I) : \E i \in DOMAIN ws : i \in I /\ Kept(ws, I)[k] = ws[i]
    BY <1>6, KeptElements
  <2> QED
    BY <2>1 DEF Mentions, ws
<1>8. \A i \in DOMAIN ws : mem[ws[i]].place = "RELEASED" \/ \E k \in DOMAIN Kept(ws, I) : Kept(ws, I)[k] = ws[i]
  <2>1. ASSUME NEW i \in DOMAIN ws, i \in I PROVE \E k \in DOMAIN Kept(ws, I) : Kept(ws, I)[k] = ws[i]
    <3> HIDE DEF I, ws
    <3> QED
      BY <1>6, <2>1, KeptIsComplete
  <2> QED
    BY <2>1
<1>9. BatchSettles'
  <2> HIDE DEF I
  <2> QED
    BY <1>1, <1>3, <1>5, <1>7, <1>8 DEF BatchSettles
<1>10. AtSettles'
  BY <1>1, <1>2, <1>3, <1>4, <1>5, <1>9 DEF AtSettles
<1> QED
  BY <1>1, <1>2, <1>3, <1>4, <1>10, RecoverTurns

LEMMA ReapItemSettles ==
  ASSUME ClaimInv, ClaimInv', SettledInv, ReapItem
  PROVE  SettledInv'
<1>1. /\ pc = "reapItem" /\ call.op = "RECOVER" /\ AtTransaction /\ ~Scanning /\ ~Repairing
      /\ UNCHANGED <<storeVars, sched, torn>>
  BY DEF ReapItem, At, lostVars, ClaimInv, AtStep, CallFits, Recovering, AtTransaction, Scanning, Repairing,
    Phase, Compensating
<1>2. /\ call.at \in DOMAIN jm /\ Pends(Replayed) /\ call \in CallRecords /\ Replayed \in Transactions
      /\ Replayed.kind # "RUNNING" /\ AtSettles /\ Changes
  BY <1>1, InRecovery
<1>3. Replayed.op = "REAP_BATCH" /\ BatchSettles
  BY <1>1, <1>2 DEF AtSettles, AnswerSettles
<1>4. CASE call.todo = <<>> /\ ReplayNext(Marked("COMMITTED"))
  <2>1. \A w \in Works : Mentions(Replayed, w) => mem[w].place = "RELEASED"
    BY <1>3, <1>4 DEF BatchSettles, Mentions
  <2>2. ~call.changed => \A w \in Works : Mentions(Replayed, w) => mem[w] = sched[w]
    <3> SUFFICES ASSUME ~call.changed, NEW w \in Works, Mentions(Replayed, w) PROVE mem[w] = sched[w]
      OBVIOUS
    <3>1. mem[w].place = sched[w].place
      BY <1>1, <1>2 DEF Changes
    <3>2. MayBecome(sched[w], mem[w])
      BY <1>1 DEF ClaimInv, Steady, CopyFollows
    <3> QED
      BY <2>1, <3>1, <3>2 DEF MayBecome
  <2>3. "COMMITTED" \in Phases /\ "COMMITTED" \in ClosedPhases /\ "COMMITTED" # "RECONCILIATION_HELD"
    BY DEF Phases, ClosedPhases
  <2>4. ReplayNext([jm EXCEPT ![call.at].phase = "COMMITTED"])
    BY <1>4 DEF Marked
  <2>5. \A w \in Works : Mentions(Replayed, w) => ~Held(mem[w])
    BY <2>1 DEF Held
  <2> QED
    BY <1>1, <1>2, <2>2, <2>3, <2>4, <2>5, ReplayNextSettles
<1>5. ASSUME NEW w, w = Head(call.todo), call.todo # <<>>,
             NEW l, l \in {"refree", "live"}, ReplayWork(w, "FAILED", l)
      PROVE  SettledInv'
  <2>1. /\ pc' = l /\ call' = [call EXCEPT !.w = w, !.kind = "FAILED"] /\ UNCHANGED <<journal, mem, jm>>
    BY <1>5 DEF ReplayWork, Goto
  <2>2. /\ call'.op = call.op /\ call'.at = call.at /\ call'.wrote = call.wrote
        /\ call'.changed = call.changed /\ call'.w = w /\ call'.kind = "FAILED" /\ call'.todo = call.todo
    BY <1>2, <2>1 DEF CallRecords
  <2>3. ~Scanning' /\ ~Repairing' /\ pc' \notin Undo /\ Replayed' = Replayed
    BY <1>5, <2>1, <2>2 DEF Scanning, Repairing, Compensating, Undo, Replayed
  <2>4. Mentions(Replayed, w)
    <3>1. call.todo \in Seq(Works)
      BY <1>2 DEF CallRecords
    <3>2. 1 \in DOMAIN call.todo /\ w = call.todo[1]
      BY <1>5, <3>1
    <3> QED
      BY <1>3, <3>2 DEF BatchSettles
  <2>5. BatchSettles'
    BY <1>3, <1>5, <2>1, <2>2, <2>3 DEF BatchSettles
  <2>6. AtSettles'
    BY <1>2, <1>3, <2>1, <2>2, <2>3, <2>4, <2>5 DEF AtSettles
  <2>7. pc' \notin {"idle", "replay", "saveJournal"} /\ pc # "saveJournal"
    BY <1>1, <1>5, <2>1
  <2> QED
    BY <1>1, <2>1, <2>2, <2>3, <2>6, <2>7, RecoverTurns
<1>6. CASE call.todo # <<>> /\ LET w == Head(call.todo) IN
             ReplayWork(w, "FAILED", IF lanes[w].status = "RELEASED" THEN "refree" ELSE "live")
  <2> DEFINE l == IF lanes[Head(call.todo)].status = "RELEASED" THEN "refree" ELSE "live"
  <2>1. ReplayWork(Head(call.todo), "FAILED", l) /\ l \in {"refree", "live"}
    BY <1>6
  <2> HIDE DEF l
  <2> QED
    BY <1>5, <1>6, <2>1
<1> QED
  BY <1>4, <1>6 DEF ReapItem

\* The reservation goes again, once the lane is released.
LEMMA ReleaseAgainSettles ==
  ASSUME ClaimInv, ClaimInv', SettledInv, ReleaseAgain
  PROVE  SettledInv'
<1>1. /\ pc = "refree" /\ call.op = "RECOVER" /\ AtTransaction /\ ~Scanning /\ ~Repairing
      /\ EndsClaim(call.kind) /\ lanes[call.w].status = "RELEASED"
      /\ UNCHANGED <<laneVars, evidence, sched, torn>>
  BY DEF ReleaseAgain, At, lostVars, ClaimInv, AtStep, CallFits, AnswerFits, FreesAt, Recovering,
    AtTransaction, Scanning, Repairing, Phase, Compensating
<1>2. /\ call.at \in DOMAIN jm /\ Pends(Replayed) /\ call \in CallRecords
      /\ Replayed.op # "SCHEDULE" /\ Replayed.kind # "RUNNING" /\ AtSettles /\ BooksAgree
      /\ call.w \in Works /\ Mentions(Replayed, call.w)
  BY <1>1, InRecovery
<1>3. StoresTyped /\ mem \in [Works -> Entries]
  BY DEF ClaimInv, Steady, BooksTyped
<1>4. CASE UNCHANGED ledgerVars /\ (ReplayNext(jm) \/ ReplayNext(Marked("RECOVERY_REQUIRED")))
  <2>1. UNCHANGED <<storeVars, sched, torn>>
    BY <1>1, <1>4 DEF storeVars
  <2> QED
    BY <1>1, <1>2, <1>4, <2>1, LeftPendingSettles
<1>5. CASE /\ UNCHANGED ledgerVars \/ Free(call.w, mem[call.w].res)
           /\ pc' = "project" /\ UNCHANGED <<journal, call, mem, jm>>
  <2>1. \A v \in Works \ {call.w} : reserved'[v] = reserved[v]
    BY <1>2, <1>3, <1>5 DEF Free, MayFree, ledgerVars, StoresTyped
  <2>2. Elsewhere /\ StaysLive
    BY <1>1, <1>5, <2>1 DEF Elsewhere, StaysLive, Live, laneVars
  <2>3. /\ AtTransaction' /\ ~Scanning' /\ ~Repairing' /\ pc' \notin Undo /\ pc' # "reapItem"
        /\ Replayed' = Replayed /\ call.kind # "UNKNOWN"
    BY <1>1, <1>5 DEF AtTransaction, Scanning, Repairing, Phase, Compensating, Undo, Replayed, EndsClaim
  <2>4. Replayed.op = "OUTCOME" => AnswerSettles'
    BY <1>1, <1>2, <1>5, <2>3 DEF AtSettles, AnswerSettles
  <2>5. Replayed.op = "REAP_BATCH" => BatchSettles'
    BY <1>1, <1>2, <1>5, <2>3 DEF AtSettles, BatchSettles
  <2>6. AtSettles'
    BY <1>1, <1>2, <1>5, <2>3, <2>4, <2>5 DEF AtSettles
  <2> QED
    BY <1>1, <1>5, <2>2, <2>3, <2>6, RecoverMoves
<1>6. CASE Replayed.op = "REAP_BATCH" /\ reserved[call.w] = 0
  BY <1>5, <1>6 DEF ReleaseAgain, Goto
<1>7. CASE ~(Replayed.op = "REAP_BATCH" /\ reserved[call.w] = 0)
  <2>1. Try(MayFree(call.w, mem[call.w].res),
            Free(call.w, mem[call.w].res) /\ Goto("project") /\ UNCHANGED <<journal, call, mem, jm>>,
            /\ UNCHANGED ledgerVars
            /\ ReplayNext(IF Replayed.op = "REAP_BATCH" THEN jm ELSE Marked("RECOVERY_REQUIRED")))
    BY <1>7 DEF ReleaseAgain
  <2>2. ReplayNext(IF Replayed.op = "REAP_BATCH" THEN jm ELSE Marked("RECOVERY_REQUIRED"))
          => ReplayNext(jm) \/ ReplayNext(Marked("RECOVERY_REQUIRED"))
    <3>1. CASE Replayed.op = "REAP_BATCH"
      BY <3>1
    <3>2. CASE Replayed.op # "REAP_BATCH"
      BY <3>2
    <3> QED
      BY <3>1, <3>2
  <2> QED
    BY <1>4, <1>5, <2>1, <2>2 DEF Try, Goto
<1> QED
  BY <1>6, <1>7

LEMMA ProjectReapSettles ==
  ASSUME ClaimInv, ClaimInv', SettledInv, ProjectReap
  PROVE  SettledInv'
<1> DEFINE w == call.w
<1>1. /\ pc = "project" /\ call.op = "RECOVER" /\ AtTransaction /\ ~Scanning /\ ~Repairing
      /\ Replayed.op = "REAP_BATCH" /\ UNCHANGED <<storeVars, sched, torn>>
  BY DEF ProjectReap, At, lostVars, ClaimInv, AtStep, CallFits, Recovering,
    AtTransaction, Scanning, Repairing, Phase, Compensating
<1>2. /\ call.at \in DOMAIN jm /\ Pends(Replayed) /\ call \in CallRecords /\ Replayed \in Transactions
      /\ Replayed.kind # "RUNNING" /\ AtSettles
      /\ w \in Works /\ Mentions(Replayed, w)
      /\ Live(sched[w], lanes[w], reserved[w]) /\ call.todo # <<>> /\ call.todo \in Seq(Works)
  BY <1>1, InRecovery DEF CallRecords, ClaimInv, AtStep, CallFits, Reaping
<1>3. mem \in [Works -> Entries]
  BY DEF ClaimInv, Steady, BooksTyped
<1>4. CASE ReplayNext(jm)
  BY <1>1, <1>2, <1>4, LeftPendingSettles
<1>5. CASE /\ mem' = Projected("RELEASED", "AMBIGUOUS_REAPED")
           /\ call' = [call EXCEPT !.todo = Tail(@), !.changed = TRUE]
           /\ pc' = "reapItem" /\ UNCHANGED <<journal, jm>>
  <2> DEFINE rest == Tail(call.todo)
  <2>1. (\A v \in Works \ {w} : mem'[v] = mem[v]) /\ mem'[w].place = "RELEASED"
    BY <1>2, <1>3, <1>5, ProjectedIs
  <2>2. /\ call'.op = call.op /\ call'.at = call.at /\ call'.wrote = call.wrote
        /\ call'.todo = rest
    BY <1>2, <1>5 DEF CallRecords
  <2>3. call'.changed
    BY <1>2, <1>5 DEF CallRecords
  <2>4. /\ \A i \in DOMAIN rest : i + 1 \in DOMAIN call.todo /\ rest[i] = call.todo[i + 1]
        /\ \A k \in DOMAIN call.todo : k = 1 \/ (k - 1 \in DOMAIN rest /\ rest[k - 1] = call.todo[k])
        /\ Head(call.todo) = call.todo[1]
    BY <1>2
  <2> HIDE DEF rest
  <2>5. /\ w = Head(call.todo) /\ \A k \in DOMAIN call.todo : Mentions(Replayed, call.todo[k])
        /\ \A i \in DOMAIN Replayed.works :
             \/ mem[Replayed.works[i]].place = "RELEASED"
             \/ \E k \in DOMAIN call.todo : call.todo[k] = Replayed.works[i]
        /\ \A i \in DOMAIN Replayed.works : Replayed.works[i] \in Works
    BY <1>1, <1>2 DEF AtSettles, BatchSettles, Transactions
  <2>6. \A i \in DOMAIN Replayed.works :
          \/ mem'[Replayed.works[i]].place = "RELEASED"
          \/ \E k \in DOMAIN rest : rest[k] = Replayed.works[i]
    <3> TAKE i \in DOMAIN Replayed.works
    <3>1. CASE Replayed.works[i] = w
      BY <2>1, <3>1
    <3>2. CASE Replayed.works[i] # w /\ mem[Replayed.works[i]].place = "RELEASED"
      BY <2>1, <2>5, <3>2
    <3>3. CASE Replayed.works[i] # w /\ \E k \in DOMAIN call.todo : call.todo[k] = Replayed.works[i]
      <4>1. PICK k \in DOMAIN call.todo : call.todo[k] = Replayed.works[i]
        BY <3>3
      <4>2. k # 1
        BY <2>4, <2>5, <3>3, <4>1
      <4> QED
        BY <2>4, <4>1, <4>2
    <3> QED
      BY <2>5, <3>1, <3>2, <3>3
  <2>7. \A k \in DOMAIN rest : Mentions(Replayed, rest[k])
    BY <2>4, <2>5
  <2>8. /\ AtTransaction' /\ ~Scanning' /\ ~Repairing' /\ pc' \notin Undo /\ Replayed' = Replayed
    BY <1>5, <2>2 DEF AtTransaction, Scanning, Repairing, Phase, Compensating, Undo, Replayed
  <2>9. BatchSettles'
    <3>1. pc' = "reapItem" /\ call'.todo = rest /\ Replayed' = Replayed
      BY <1>5, <2>2, <2>8
    <3> QED
      BY <2>6, <2>7, <3>1 DEF BatchSettles
  <2>10. AtSettles'
    BY <1>1, <1>2, <1>5, <2>2, <2>8, <2>9 DEF AtSettles
  <2>11. Elsewhere /\ StaysLive
    BY <1>1, <1>2, <2>1 DEF Elsewhere, StaysLive, Live, Held, storeVars, laneVars, ledgerVars
  <2> QED
    BY <1>1, <1>5, <2>2, <2>3, <2>8, <2>10, <2>11, RecoverMoves
<1> QED
  BY <1>4, <1>5 DEF ProjectReap, Goto

LEMMA ProjectOutcomeSettles ==
  ASSUME ClaimInv, ClaimInv', SettledInv, ProjectOutcome
  PROVE  SettledInv'
<1> DEFINE w == call.w
           p == IF mem'[w].rebound /\ call.kind = "UNKNOWN" THEN "RECONCILIATION_HELD" ELSE "COMMITTED"
<1>1. /\ pc = "project" /\ call.op = "RECOVER" /\ AtTransaction /\ ~Scanning /\ ~Repairing
      /\ Replayed.op = "OUTCOME" /\ UNCHANGED <<storeVars, sched, torn>>
      /\ call.kind \in {"SUCCEEDED", "FAILED", "UNKNOWN"}
      /\ call.kind = "UNKNOWN" => mem[w].place = "ACTIVE"
  BY DEF ProjectOutcome, At, lostVars, ClaimInv, AtStep, CallFits, AnswerFits, EndsClaim, Recovering,
    AtTransaction, Scanning, Repairing, Phase, Compensating
<1>2. /\ call.at \in DOMAIN jm /\ Pends(Replayed) /\ call \in CallRecords /\ Replayed \in Transactions
      /\ Replayed.kind # "RUNNING" /\ AtSettles /\ WellFormed(Replayed)
      /\ w \in Works /\ Mentions(Replayed, w) /\ Live(mem[w], lanes[w], reserved[w])
  BY <1>1, InRecovery
<1>3. mem \in [Works -> Entries] /\ lanes' = lanes
  BY <1>1 DEF ClaimInv, Steady, BooksTyped, storeVars, laneVars
<1>4. CASE RecoveryPhaseFails
  BY <1>1, <1>4, RecoveryFailsSettles
<1>5. CASE /\ mem' = Projected(PlaceAfter(call.kind), call.kind)
           /\ jm' = Marked(p)
           /\ call' = [call EXCEPT !.at = @ + 1, !.w = "NONE", !.kind = "NONE", !.changed = TRUE]
           /\ pc' = "replay" /\ UNCHANGED journal
  <2>1. /\ \A v \in Works \ {w} : mem'[v] = mem[v]
        /\ mem'[w].place = PlaceAfter(call.kind) /\ mem'[w].res = mem[w].res
        /\ mem'[w].life = lanes[w].life /\ mem'[w].lease = lanes[w].fence
    BY <1>2, <1>3, <1>5, ProjectedIs
  <2>2. /\ call'.op = call.op /\ call'.at = call.at + 1 /\ call'.wrote = call.wrote
    BY <1>2, <1>5 DEF CallRecords
  <2>3. call'.changed
    BY <1>2, <1>5 DEF CallRecords
  <2>4. /\ jm' = [jm EXCEPT ![call.at].phase = p] /\ p \in Phases
        /\ p = "RECONCILIATION_HELD" => call.kind = "UNKNOWN"
    BY <1>5 DEF Marked, Phases, ClosedPhases
  <2> HIDE DEF p
  <2>5. AnswerSettles
    BY <1>1, <1>2 DEF AtSettles
  <2>6. p = "RECONCILIATION_HELD" => Replayed.op = "OUTCOME" /\ Replayed.kind = "UNKNOWN"
    BY <1>1, <2>4, <2>5 DEF AnswerSettles
  <2>7. \A v \in Works : Mentions(Replayed, v) => v = w
    <3>1. Len(Replayed.works) = 1 /\ Replayed.works \in Seq(Works)
      BY <1>1, <1>2 DEF WellFormed, Transactions
    <3>2. \A i \in DOMAIN Replayed.works : i = 1
      BY <3>1
    <3> QED
      BY <1>2, <3>2 DEF Mentions
  <2>8. \A v \in Works : Live(mem'[v], lanes[v], reserved[v])
    <3> TAKE v \in Works
    <3>1. CASE v = w
      BY <1>1, <1>2, <2>1, <3>1 DEF PlaceAfter, Live, Held
    <3>2. CASE v # w
      BY <1>1, <2>1, <3>2 DEF SettledInv, LiveClaims, TakesBack
    <3> QED
      BY <3>1, <3>2
  <2>9. Settled(w, mem'[w], lanes[w], jm')
    <3>1. CASE call.kind # "UNKNOWN"
      BY <1>1, <2>1, <3>1 DEF PlaceAfter, Settled, Held
    <3>2. CASE call.kind = "UNKNOWN"
      <4>1. lanes[w].status # "RELEASED"
        BY <1>1, <2>5, <3>2 DEF AnswerSettles
      <4> QED
        BY <2>1, <4>1 DEF Settled, Faithful
    <3> QED
      BY <3>1, <3>2
  <2>10. \A v \in Works : ~Mentions(Replayed, v) \/ Replayed.op = "SCHEDULE" => mem'[v] = mem[v]
    BY <1>1, <1>2, <2>1
  <2>11. \A v \in Works \ torn : Mentions(Replayed, v) /\ Replayed.op # "SCHEDULE" =>
           Settled(v, mem'[v], lanes[v], jm')
    BY <2>7, <2>9
  <2> QED
    BY <1>1, <1>2, <1>5, <2>2, <2>3, <2>4, <2>6, <2>8, <2>10, <2>11, ReplayMoves
<1> QED
  BY <1>4, <1>5 DEF ProjectOutcome, Goto

-----------------------------------------------------------------------------
(* recoverSchedulerTransactions: the divergence scan and its repairs, and  *)
(* the writes that end it, or the end without them.                        *)

LEMMA InScan ==
  ASSUME ClaimInv, SettledInv, call.op = "RECOVER"
  PROVE  /\ call \in CallRecords /\ jm \in Seq(Transactions) /\ journal \in Seq(Transactions)
         /\ mem \in [Works -> Entries] /\ sched \in [Works -> Entries]
         /\ AllWellFormed(jm) /\ AllWellFormed(journal)
         /\ BooksAgree /\ AtSettles /\ Changes /\ CopySettled
         /\ ~call.wrote => DiskSettled
         /\ \A w \in Works : MayBecome(sched[w], mem[w])
         /\ \A w \in Works : Live(mem[w], lanes[w], reserved[w])
BY DEF ClaimInv, Steady, BooksTyped, CopyFollows, SettledInv, BooksFit, LiveClaims, TakesBack,
  RecoverySettles

\* Recovery stops.  What it has changed and not saved is torn, or a pending
\* transaction speaks for it.
LEMMA RecoveryStops ==
  ASSUME ClaimInv, SettledInv, call.op = "RECOVER", EndCall(journal), UNCHANGED <<storeVars, sched>>,
         torn \subseteq torn', pc # "saveJournal" => Forgotten \subseteq torn'
  PROVE  SettledInv'
<1>1. /\ jm \in Seq(Transactions) /\ journal \in Seq(Transactions) /\ AllWellFormed(journal)
      /\ BooksAgree /\ CopySettled /\ \A w \in Works : MayBecome(sched[w], mem[w])
      /\ ~call.wrote => DiskSettled
  BY InScan
<1>2. ASSUME NEW w \in Works \ torn' PROVE Settled(w, sched[w], lanes[w], journal)
  <2>1. w \in Works \ torn
    OBVIOUS
  <2>2. CASE ~call.wrote
    BY <1>1, <2>1, <2>2 DEF DiskSettled
  <2>3. CASE call.wrote
    <3>1. journal = Pending(jm) /\ Scanning
      BY <1>1, <2>3 DEF BooksAgree
    <3>2. /\ Carries(jm, journal, w)
          /\ \A i \in DOMAIN journal : Pends(journal[i]) /\ \E k \in DOMAIN jm : journal[i] = jm[k]
      BY <1>1, <3>1, PendingCarries
    <3>3. CASE pc = "saveJournal" \/ mem[w] = sched[w]
      <4>1. Settled(w, sched[w], lanes[w], jm)
        BY <1>1, <2>1, <3>3 DEF CopySettled, Unseen
      <4> QED
        BY <3>2, <4>1, CarriedIsSettled
    <3>4. CASE pc # "saveJournal" /\ mem[w] # sched[w]
      <4>1. w \notin Forgotten
        BY <1>2, <3>4
      <4>2. PICK i \in DOMAIN journal : journal[i].phase \notin ClosedPhases /\ Mentions(journal[i], w)
        BY <1>2, <2>3, <3>4, <4>1 DEF Forgotten
      <4>3. PICK k \in DOMAIN jm : journal[i] = jm[k]
        BY <3>2
      <4>4. Past(journal[i])
        <5>1. Past(jm[k])
          BY <1>1, <3>1 DEF BooksAgree
        <5> QED
          BY <4>3, <5>1
      <4>5. Pends(journal[i]) /\ journal[i].kind # "RUNNING"
        BY <4>2, <4>4 DEF Pends, Past
      <4>6. CASE journal[i].op = "SCHEDULE"
        <5>1. mem[w].place = "NONE"
          BY <4>2, <4>4, <4>5, <4>6 DEF Past, Mentions
        <5>2. ~Held(sched[w])
          BY <1>1, <2>1, <5>1 DEF MayBecome, Held
        <5> QED
          BY <5>2 DEF Settled
      <4>7. CASE journal[i].op # "SCHEDULE"
        BY <4>2, <4>5, <4>7 DEF Settled, Covers, Speaks
      <4> QED
        BY <4>6, <4>7
    <3> QED
      BY <3>3, <3>4
  <2> QED
    BY <2>2, <2>3
<1> QED
  BY <1>1, <1>2, EndCallSettles

LEMMA StartScanSettles ==
  ASSUME ClaimInv, SettledInv, StartScan
  PROVE  SettledInv'
<1>1. /\ pc = "replay" /\ pc' = "scan" /\ call.op = "RECOVER" /\ call.at > Len(jm)
      /\ call' = [call EXCEPT !.left = Holders(mem) \ call.first]
      /\ UNCHANGED <<storeVars, sched, journal, mem, jm, torn>>
  BY DEF StartScan, At, Goto, lostVars, ClaimInv, AtStep, CallFits, Recovering
<1>2. /\ call \in CallRecords /\ jm \in Seq(Transactions)
      /\ BooksAgree /\ AtSettles /\ Changes /\ CopySettled
  BY <1>1, InScan
<1>3. /\ call'.op = call.op /\ call'.at = call.at /\ call'.wrote = call.wrote
      /\ call'.changed = call.changed /\ call'.left = Holders(mem) \ call.first
      /\ call'.first = call.first
  BY <1>1, <1>2 DEF CallRecords
<1>4. ~Scanning /\ Scanning'
  BY <1>1 DEF Scanning, Repairing, Phase, Compensating
<1>5. BooksFit' /\ ScheduleSettles' /\ OwnSettles' /\ Unclaimed'
  BY <1>1, <1>3 DEF SettledInv, BooksFit, AllWellFormed, ScheduleSettles, OwnSettles, Unclaimed,
     storeVars, laneVars
<1>6. LiveClaims' /\ (~call.wrote => DiskSettled')
  BY <1>1, <1>3 DEF SettledInv, LiveClaims, TakesBack, DiskSettled, storeVars, laneVars, ledgerVars
<1>7. BooksAgree'
  <2>1. \A i \in DOMAIN jm : i < call.at
    <3>1. call.at \in Nat
      BY <1>2 DEF CallRecords
    <3> QED
      BY <1>1, <1>2, <3>1
  <2>2. \A i \in DOMAIN jm : Past(jm[i])
    BY <1>2, <2>1 DEF BooksAgree
  <2> QED
    BY <1>1, <1>2, <1>3, <1>4, <2>2 DEF BooksAgree, Past
<1>8. AtSettles'
  BY <1>1 DEF AtSettles, AtTransaction, Undo, Phase, Compensating
<1>9. Changes'
  <2>1. \A w : SpokenFor(w) => SpokenFor(w)'
    BY <1>1, <1>4 DEF SpokenFor
  <2> QED
    BY <1>1, <1>2, <1>3, <1>4, <2>1 DEF Changes
<1>10. CopySettled'
  <2>1. \A w \in Works \ Unseen' : w \notin Unseen \/ ~Held(mem[w])
    BY <1>1, <1>3, <1>4 DEF Unseen, Holders, Held
  <2> QED
    BY <1>1, <1>2, <2>1 DEF CopySettled, Settled, storeVars, laneVars
<1> QED
  BY <1>3, <1>5, <1>6, <1>7, <1>8, <1>9, <1>10 DEF SettledInv, RecoverySettles

LEMMA ScanHealthySettles ==
  ASSUME ClaimInv, SettledInv, NEW w \in Works, ScanHealthy(w)
  PROVE  SettledInv'
<1>1. /\ pc = "scan" /\ pc' = "scan" /\ call.op = "RECOVER" /\ call' = [call EXCEPT !.left = @ \ {w}]
      /\ UNCHANGED <<storeVars, sched, journal, mem, jm, torn>>
  BY DEF ScanHealthy, At, lostVars, ClaimInv, AtStep, CallFits, Recovering
<1>2. call \in CallRecords
  BY <1>1, InScan
<1>3. /\ call'.op = call.op /\ call'.at = call.at /\ call'.wrote = call.wrote
      /\ call'.changed = call.changed /\ call'.first = call.first /\ call'.left = call.left \ {w}
  BY <1>1, <1>2 DEF CallRecords
<1>4. AtSettles' /\ Scanning /\ Scanning'
  BY <1>1 DEF AtSettles, AtTransaction, Scanning, Undo, Phase, Compensating
<1>5. Faithful(mem[w], lanes[w])
  <2>1. Healthy(mem, w) \/ Expired(mem, w)
    BY DEF ScanHealthy, NeedsRepair
  <2> QED
    BY <2>1 DEF Healthy, Expired, ExactLane, Current, MayExpire, Holds, Faithful
<1>6. \A v \in call.left \ call'.left : Faithful(mem[v], lanes[v])
  BY <1>3, <1>5
<1> QED
  BY <1>1, <1>3, <1>4, <1>6, RecoverTurns

\* A claim that diverges gets a transaction of its own.
LEMMA ScanRepairSettles ==
  ASSUME ClaimInv, SettledInv, NEW w \in Works, ScanRepair(w)
  PROVE  SettledInv'
<1> DEFINE kind == IF MayResume(w) THEN "RECLAIM" ELSE "COMPENSATE"
           t == Transaction("STORE_RECONCILIATION", <<w>>, kind, mem[w].lease)
<1>1. pc = "scan" /\ call.op = "RECOVER" /\ Scanning /\ UNCHANGED <<storeVars, sched>>
  BY DEF ScanRepair, ClaimInv, AtStep, CallFits, Recovering, Scanning
<1>2. /\ call \in CallRecords /\ jm \in Seq(Transactions) /\ mem \in [Works -> Entries]
      /\ AllWellFormed(jm) /\ BooksAgree /\ Changes /\ CopySettled
  BY <1>1, InScan
<1>3. CASE EndCall(journal) /\ torn' = torn \cup Forgotten
  BY <1>1, <1>3, RecoveryStops
<1>4. CASE /\ jm' = Append(jm, t) /\ journal' = Pending(jm')
           /\ call' = [call EXCEPT !.w = w, !.kind = kind, !.at = Len(jm'), !.wrote = TRUE]
           /\ pc' = (IF kind = "RECLAIM" THEN "live" ELSE "compensate") /\ UNCHANGED <<mem, torn>>
  <2>1. /\ t \in Transactions /\ WellFormed(t) /\ Pends(t) /\ Mentions(t, w)
        /\ t.op = "STORE_RECONCILIATION" /\ t.kind = kind /\ kind \in {"RECLAIM", "COMPENSATE"}
    BY <1>2 DEF Transaction, Transactions, Entries, Operations, Kinds, Phases, WellFormed, Pends,
      ClosedPhases, Mentions
  <2>2. kind = "RECLAIM" => Faithful(mem[w], lanes[w]) /\ lanes[w].fence = mem[w].lease
    BY DEF MayResume, Expired, ExactLane, MayExpire, Holds, Faithful
  <2> HIDE DEF t, kind
  <2>3. /\ jm' \in Seq(Transactions) /\ Len(jm') \in DOMAIN jm' /\ jm'[Len(jm')] = t
        /\ \A i \in DOMAIN jm' : jm'[i] = t \/ (i \in DOMAIN jm /\ jm'[i] = jm[i])
    BY <1>2, <1>4, <2>1
  <2>4. AllWellFormed(jm') /\ \A v : Carries(jm, jm', v)
    BY <1>2, <1>4, <2>1, LongerCarries
  <2>5. /\ call'.op = call.op /\ call'.at = Len(jm') /\ call'.w = w /\ call'.kind = kind
        /\ call'.changed = call.changed /\ call'.left = call.left /\ call'.first = call.first
    BY <1>2, <1>4 DEF CallRecords
  <2>6. call'.wrote
    BY <1>2, <1>4 DEF CallRecords
  <2>7. Repairing' /\ Scanning' /\ pc' \notin {"replay", "reapItem", "repaired"} \cup Undo
        /\ (pc' \in Compensating => kind = "COMPENSATE")
    BY <1>4, <2>1, <2>5 DEF Repairing, Scanning, Phase, Compensating, Undo
  <2>8. ASSUME NEW i \in DOMAIN jm' PROVE Past(jm[i])'
    <3>1. CASE jm'[i] = t
      BY <2>1, <3>1 DEF Past
    <3>2. CASE i \in DOMAIN jm /\ jm'[i] = jm[i]
      <4>1. Past(jm[i])
        BY <1>1, <1>2, <3>2 DEF BooksAgree
      <4> QED
        BY <1>4, <3>2, <4>1 DEF Past
    <3> QED
      BY <2>3, <3>1, <3>2
  <2>9. Replayed' = t /\ lanes' = lanes
    BY <1>1, <2>3, <2>5 DEF Replayed, storeVars, laneVars
  <2>10. RepairSettles'
    BY <1>4, <2>1, <2>2, <2>5, <2>6, <2>7, <2>9 DEF RepairSettles
  <2>11. AtSettles'
    BY <2>1, <2>3, <2>5, <2>7, <2>9, <2>10 DEF AtSettles
  <2>12. ~call'.changed => \A v \in Works : mem[v] = sched[v] \/ SpokenFor(v)'
    <3> SUFFICES ASSUME ~call'.changed, NEW v \in Works, mem[v] # sched[v] PROVE SpokenFor(v)'
      OBVIOUS
    <3>1. ~call.changed
      BY <2>5, Zenon
    <3>2. SpokenFor(v)
      BY <1>1, <1>2, <3>1, Zenon DEF Changes
    <3>3. PICK i \in DOMAIN jm : Speaks(jm[i], v) /\ jm[i].kind # "RUNNING"
      BY <3>2 DEF SpokenFor
    <3>4. PICK n \in DOMAIN jm' : Speaks(jm'[n], v) /\ jm'[n].kind = jm[i].kind
      BY <2>4, <3>3 DEF Carries
    <3> QED
      BY <2>7, <3>3, <3>4 DEF SpokenFor
  <2>13. ASSUME NEW v \in Works \ Unseen' PROVE Settled(v, mem[v], lanes[v], jm')
    <3>1. v \notin Unseen
      BY <1>1, <1>4, <2>5, <2>7, <2>13 DEF Unseen, Scanning, Repairing, Phase, Compensating
    <3> QED
      BY <1>1, <1>2, <2>4, <3>1, CarriedIsSettled DEF CopySettled
  <2>14. pc # "saveJournal"
    BY <1>1
  <2> QED
    BY <1>1, <1>4, <2>3, <2>4, <2>5, <2>6, <2>7, <2>8, <2>11, <2>12, <2>13, <2>14, ScanWrites
<1> QED
  BY <1>3, <1>4 DEF ScanRepair, Try, Goto

\* The repair is done, and so is its transaction.
LEMMA RepairedSettles ==
  ASSUME ClaimInv, SettledInv, Repaired
  PROVE  SettledInv'
<1> DEFINE p == "COMMITTED"
<1>1. /\ pc = "repaired" /\ call.op = "RECOVER" /\ Repairing /\ AtTransaction /\ Scanning
      /\ UNCHANGED <<storeVars, sched, torn>>
  BY DEF Repaired, At, lostVars, ClaimInv, AtStep, CallFits, Recovering, Repairing, AtTransaction, Scanning
<1>2. /\ call.at \in DOMAIN jm /\ Replayed = jm[call.at] /\ jm \in Seq(Transactions)
      /\ Replayed \in Transactions /\ WellFormed(Replayed) /\ call \in CallRecords
      /\ BooksAgree /\ AtSettles /\ CopySettled /\ Mentions(Replayed, call.w) /\ call.w \in Works
  BY <1>1, InRecovery DEF Replayed
<1>3. CASE RepairFails
  BY <1>1, <1>3, RepairFailsSettles
<1>4. CASE /\ jm' = Marked(p) /\ journal' = Pending(jm')
           /\ call' = [call EXCEPT !.left = @ \ {call.w}, !.w = "NONE", !.kind = "NONE", !.changed = TRUE]
           /\ pc' = "scan" /\ UNCHANGED mem
  <2>1. jm' = [jm EXCEPT ![call.at].phase = p] /\ p \in ClosedPhases /\ p # "RECONCILIATION_HELD"
        /\ p \in Phases
    BY <1>4 DEF Marked, ClosedPhases, Phases
  <2>2. /\ DOMAIN jm' = DOMAIN jm
        /\ \A i \in DOMAIN jm :
             /\ jm'[i].phase = IF i = call.at THEN p ELSE jm[i].phase
             /\ i # call.at => jm'[i] = jm[i]
    BY <1>2, <2>1, EditIs
  <2>3. AllWellFormed(jm') /\ \A w : ~Mentions(Replayed, w) => Carries(jm, jm', w)
    <3>1. AllWellFormed(jm)
      BY DEF SettledInv, BooksFit
    <3> QED
      BY <1>2, <2>1, <3>1, PhaseCarries
  <2>4. jm' \in Seq(Transactions)
    BY <1>4, <2>1, MarkedIsTyped
  <2> HIDE DEF p
  <2>5. call'.op = call.op /\ call'.first = call.first /\ call'.left = call.left \ {call.w}
    BY <1>2, <1>4 DEF CallRecords
  <2>6. call'.changed
    BY <1>2, <1>4 DEF CallRecords
  <2>7. RepairSettles
    BY <1>1, <1>2 DEF AtSettles
  <2>8. call'.wrote
    <3>1. call'.wrote = call.wrote
      BY <1>2, <1>4 DEF CallRecords
    <3> QED
      BY <2>7, <3>1, Zenon DEF RepairSettles
  <2>9. ASSUME NEW i \in DOMAIN jm' PROVE Past(jm[i])'
    <3>1. CASE i = call.at
      <4>1. jm'[i].phase = p
        BY <2>2, <3>1
      <4> QED
        BY <2>1, <4>1 DEF Past, Pends
    <3>2. CASE i # call.at
      <4>1. jm'[i] = jm[i] /\ Past(jm[i])
        BY <1>1, <1>2, <2>2, <3>2 DEF BooksAgree
      <4> QED
        BY <1>4, <4>1 DEF Past
    <3> QED
      BY <3>1, <3>2
  <2>10. AtSettles'
    BY <1>4 DEF AtSettles, AtTransaction, Undo, Phase, Compensating
  <2>11. \A w \in Works : Mentions(Replayed, w) => w = call.w
    <3>1. Len(Replayed.works) = 1 /\ Replayed.works \in Seq(Works)
      BY <1>2, <2>7 DEF WellFormed, Transactions, RepairSettles
    <3>2. \A i \in DOMAIN Replayed.works : i = 1
      BY <3>1
    <3> QED
      BY <1>2, <3>2 DEF Mentions
  <2>12. ~Held(mem[call.w]) \/ Faithful(mem[call.w], lanes[call.w])
    BY <1>1, <2>7 DEF RepairSettles, Held
  <2>13. ASSUME NEW w \in Works \ Unseen' PROVE Settled(w, mem[w], lanes[w], jm')
    <3>1. CASE w = call.w
      BY <2>12, <3>1 DEF Settled
    <3>2. CASE w # call.w
      <4>0. w \notin Unseen
        BY <1>1, <1>4, <2>5, <2>13, <3>2 DEF Unseen, Scanning
      <4>1. Settled(w, mem[w], lanes[w], jm)
        BY <1>1, <1>2, <4>0 DEF CopySettled
      <4> QED
        BY <2>3, <2>11, <3>2, <4>1, CarriedIsSettled
    <3> QED
      BY <3>1, <3>2
  <2>14. pc # "saveJournal"
    BY <1>1
  <2> QED
    BY <1>1, <1>4, <2>3, <2>4, <2>5, <2>6, <2>8, <2>9, <2>10, <2>13, <2>14, ScanWrites
<1> QED
  BY <1>3, <1>4 DEF Repaired, Try, Goto

-----------------------------------------------------------------------------
(* compensateDivergentEntry                                                *)

LEMMA CompensationMoves ==
  ASSUME ClaimInv, ClaimInv', SettledInv, pc \in Compensating, pc' \in Compensating \cup {"repaired"},
         UNCHANGED <<sched, journal, call, jm, torn>>, Elsewhere, StaysLive,
         pc' = "repaired" => mem'[call.w].place = "RELEASED"
  PROVE  SettledInv'
<1>1. /\ call.op = "RECOVER" /\ AtTransaction /\ AtTransaction' /\ Repairing /\ Repairing'
      /\ Scanning /\ Scanning' /\ pc \notin {"reapItem", "repaired"} /\ pc' \notin Undo /\ pc' # "reapItem"
      /\ pc' \notin Phase
  BY DEF ClaimInv, AtStep, CallFits, Recovering, Compensating, AtTransaction, Repairing, Scanning, Undo,
    Phase
<1>2. AtSettles
  BY <1>1 DEF SettledInv, RecoverySettles
<1>3. RepairSettles /\ call.kind = "COMPENSATE" /\ Replayed' = Replayed
  BY <1>1, <1>2 DEF AtSettles, RepairSettles, Replayed
<1>4. RepairSettles'
  BY <1>3 DEF RepairSettles
<1>5. AtSettles'
  BY <1>1, <1>2, <1>3, <1>4 DEF AtSettles, RepairSettles
<1> QED
  BY <1>1, <1>5, RecoverMoves

LEMMA InCompensation ==
  ASSUME ClaimInv, SettledInv, pc \in Compensating
  PROVE  /\ call.op = "RECOVER" /\ Repairing /\ call.w \in Works
         /\ StoresTyped /\ mem \in [Works -> Entries]
         /\ Live(sched[call.w], lanes[call.w], reserved[call.w])
         /\ Live(mem[call.w], lanes[call.w], reserved[call.w])
<1>1. /\ call.op = "RECOVER" /\ AtTransaction /\ Repairing /\ pc # "reapItem"
  BY DEF ClaimInv, AtStep, CallFits, Recovering, Compensating, AtTransaction, Repairing
<1> QED
  BY <1>1, InRecovery DEF ClaimInv, Steady, BooksTyped

LEMMA CompensateExpireSettles ==
  ASSUME ClaimInv, ClaimInv', SettledInv, CompensateExpire
  PROVE  SettledInv'
<1>1. pc = "compensate" /\ pc \in Compensating /\ UNCHANGED <<ledgerVars, evidence, sched, torn>>
  BY DEF CompensateExpire, At, Compensating, lostVars
<1>2. /\ call.op = "RECOVER" /\ Repairing /\ call.w \in Works
      /\ StoresTyped /\ mem \in [Works -> Entries]
      /\ Live(sched[call.w], lanes[call.w], reserved[call.w])
      /\ Live(mem[call.w], lanes[call.w], reserved[call.w])
  BY <1>1, InCompensation
<1>3. CASE RepairFails /\ UNCHANGED laneVars
  BY <1>1, <1>2, <1>3, RepairFailsSettles DEF storeVars
<1>4. CASE ExpireLease(call.w, lanes[call.w].fence) /\ UNCHANGED <<pc, journal, call, mem, jm>>
  <2>1. /\ \A v \in Works \ {call.w} : lanes'[v] = lanes[v]
        /\ lanes'[call.w].status = "EXPIRED" /\ lanes[call.w].status = "ACTIVE"
    BY <1>2, <1>4 DEF ExpireLease, MayExpire, Holds, StoresTyped, Lanes
  <2>2. Elsewhere /\ StaysLive
    BY <1>1, <1>2, <1>4, <2>1 DEF Elsewhere, StaysLive, Live, ledgerVars
  <2>3. pc' \in Compensating /\ pc' # "repaired"
    BY <1>1, <1>4
  <2> QED
    BY <1>1, <1>4, <2>2, <2>3, CompensationMoves
<1> QED
  BY <1>3, <1>4 DEF CompensateExpire, Try

LEMMA CompensateSettleSettles ==
  ASSUME ClaimInv, ClaimInv', SettledInv, CompensateSettle
  PROVE  SettledInv'
<1>1. pc = "compensate" /\ pc \in Compensating /\ UNCHANGED <<ledgerVars, evidence, sched, torn>>
  BY DEF CompensateSettle, At, Compensating, lostVars
<1>2. /\ call.op = "RECOVER" /\ Repairing /\ call.w \in Works
      /\ StoresTyped /\ mem \in [Works -> Entries]
      /\ Live(sched[call.w], lanes[call.w], reserved[call.w])
      /\ Live(mem[call.w], lanes[call.w], reserved[call.w])
  BY <1>1, InCompensation
<1>3. CASE RepairFails /\ UNCHANGED laneVars
  BY <1>1, <1>2, <1>3, RepairFailsSettles DEF storeVars
<1>4. CASE SettleTerminalLease(call.w, lanes[call.w].fence) /\ UNCHANGED <<pc, journal, call, mem, jm>>
  <2>1. (\A v \in Works \ {call.w} : lanes'[v] = lanes[v]) /\ lanes'[call.w].status = "RELEASED"
    BY <1>2, <1>4 DEF SettleTerminalLease, StoresTyped, Lanes
  <2>2. Elsewhere /\ StaysLive
    BY <1>1, <1>4, <2>1 DEF Elsewhere, StaysLive, Live, ledgerVars
  <2>3. pc' \in Compensating /\ pc' # "repaired"
    BY <1>1, <1>4
  <2> QED
    BY <1>1, <1>4, <2>2, <2>3, CompensationMoves
<1> QED
  BY <1>3, <1>4 DEF CompensateSettle, Try

LEMMA CompensateReclaimSettles ==
  ASSUME ClaimInv, ClaimInv', SettledInv, CompensateReclaim
  PROVE  SettledInv'
<1>1. pc = "compensate" /\ pc \in Compensating /\ UNCHANGED <<ledgerVars, evidence, sched, torn>>
  BY DEF CompensateReclaim, At, Compensating, lostVars
<1>2. /\ call.op = "RECOVER" /\ Repairing /\ call.w \in Works
      /\ StoresTyped /\ mem \in [Works -> Entries]
      /\ Live(sched[call.w], lanes[call.w], reserved[call.w])
      /\ Live(mem[call.w], lanes[call.w], reserved[call.w])
  BY <1>1, InCompensation
<1>3. CASE RepairFails /\ UNCHANGED laneVars
  BY <1>1, <1>2, <1>3, RepairFailsSettles DEF storeVars
<1>4. CASE /\ ReclaimLease(call.w, lanes[call.w].fence)
           /\ mem' = [mem EXCEPT ![call.w].lease = nextLeaseFence]
           /\ pc' = "terminalize" /\ UNCHANGED <<journal, call, jm>>
  <2>1. /\ \A v \in Works \ {call.w} : lanes'[v] = lanes[v]
        /\ lanes'[call.w].status = "ACTIVE" /\ lanes[call.w].status = "EXPIRED"
    <3>1. lanes' = [lanes EXCEPT ![call.w].status = "ACTIVE", ![call.w].fence = nextLeaseFence]
          /\ lanes[call.w].status = "EXPIRED"
      BY <1>4 DEF ReclaimLease, MayReclaim
    <3> QED
      BY <1>2, <3>1 DEF StoresTyped, Lanes
  <2>2. /\ \A v \in Works \ {call.w} : mem'[v] = mem[v]
        /\ mem'[call.w].place = mem[call.w].place /\ mem'[call.w].res = mem[call.w].res
    BY <1>2, <1>4 DEF Entries
  <2>3. Elsewhere /\ StaysLive
    BY <1>1, <1>2, <2>1, <2>2 DEF Elsewhere, StaysLive, Live, Held, ledgerVars
  <2>4. pc' \in Compensating /\ pc' # "repaired"
    BY <1>4 DEF Compensating
  <2> QED
    BY <1>1, <1>4, <2>3, <2>4, CompensationMoves
<1> QED
  BY <1>3, <1>4 DEF CompensateReclaim, Try, Goto

LEMMA TerminalizeSettles ==
  ASSUME ClaimInv, ClaimInv', SettledInv, Terminalize
  PROVE  SettledInv'
<1> DEFINE w == call.w
           f == lanes[w].fence
           r == mem[w].res
<1>1. pc \in Compensating /\ UNCHANGED <<ledgerVars, evidence, sched, torn>>
  BY DEF Terminalize, At, Compensating, lostVars
<1>2. /\ call.op = "RECOVER" /\ Repairing /\ call.w \in Works
      /\ StoresTyped /\ mem \in [Works -> Entries]
      /\ Live(sched[call.w], lanes[call.w], reserved[call.w])
      /\ Live(mem[call.w], lanes[call.w], reserved[call.w])
  BY <1>1, InCompensation
<1>3. CASE RepairFails /\ UNCHANGED laneVars
  BY <1>1, <1>2, <1>3, RepairFailsSettles DEF storeVars
<1>4. CASE /\ CheckpointLane(w, f, "FAILED_TERMINAL", r)
           /\ pc' = "compRelease" /\ UNCHANGED <<journal, call, mem, jm>>
  <2>1. (\A v \in Works \ {w} : lanes'[v] = lanes[v]) /\ lanes'[w].status = lanes[w].status
    <3>1. lanes' = [lanes EXCEPT ![w].life = "FAILED_TERMINAL", ![w].seq = lanes[w].seq + 1, ![w].under = r]
      BY <1>4 DEF CheckpointLane
    <3> HIDE DEF r
    <3> QED
      BY <1>2, <3>1 DEF StoresTyped, Lanes
  <2>2. Elsewhere /\ StaysLive
    BY <1>1, <1>2, <1>4, <2>1 DEF Elsewhere, StaysLive, Live, ledgerVars
  <2>3. pc' \in Compensating /\ pc' # "repaired"
    BY <1>4 DEF Compensating
  <2> QED
    BY <1>1, <1>4, <2>2, <2>3, CompensationMoves
<1> QED
  BY <1>3, <1>4 DEF Terminalize, Try, Goto

LEMMA CompensateReleaseSettles ==
  ASSUME ClaimInv, ClaimInv', SettledInv, CompensateRelease
  PROVE  SettledInv'
<1>1. pc \in Compensating /\ UNCHANGED <<ledgerVars, evidence, sched, torn>>
  BY DEF CompensateRelease, At, Compensating, lostVars
<1>2. /\ call.op = "RECOVER" /\ Repairing /\ call.w \in Works
      /\ StoresTyped /\ mem \in [Works -> Entries]
      /\ Live(sched[call.w], lanes[call.w], reserved[call.w])
      /\ Live(mem[call.w], lanes[call.w], reserved[call.w])
  BY <1>1, InCompensation
<1>3. CASE RepairFails /\ UNCHANGED laneVars
  BY <1>1, <1>2, <1>3, RepairFailsSettles DEF storeVars
<1>4. CASE /\ ReleaseLease(call.w, lanes[call.w].fence)
           /\ pc' = "compensate" /\ UNCHANGED <<journal, call, mem, jm>>
  <2>1. (\A v \in Works \ {call.w} : lanes'[v] = lanes[v]) /\ lanes'[call.w].status = "RELEASED"
    BY <1>2, <1>4 DEF ReleaseLease, StoresTyped, Lanes
  <2>2. Elsewhere /\ StaysLive
    BY <1>1, <1>4, <2>1 DEF Elsewhere, StaysLive, Live, ledgerVars
  <2>3. pc' \in Compensating /\ pc' # "repaired"
    BY <1>4 DEF Compensating
  <2> QED
    BY <1>1, <1>4, <2>2, <2>3, CompensationMoves
<1> QED
  BY <1>3, <1>4 DEF CompensateRelease, Try, Goto

LEMMA CompensateFreeSettles ==
  ASSUME ClaimInv, ClaimInv', SettledInv, CompensateFree
  PROVE  SettledInv'
<1> DEFINE w == call.w
<1>1. /\ pc = "compensate" /\ pc \in Compensating /\ lanes[w].status = "RELEASED"
      /\ UNCHANGED <<laneVars, evidence, sched, torn>>
  BY DEF CompensateFree, At, Compensating, lostVars
<1>2. /\ call.op = "RECOVER" /\ Repairing /\ call.w \in Works
      /\ StoresTyped /\ mem \in [Works -> Entries]
      /\ Live(sched[call.w], lanes[call.w], reserved[call.w])
      /\ Live(mem[call.w], lanes[call.w], reserved[call.w])
  BY <1>1, InCompensation
<1>3. CASE RepairFails /\ UNCHANGED ledgerVars
  BY <1>1, <1>2, <1>3, RepairFailsSettles DEF storeVars
<1>4. CASE /\ UNCHANGED ledgerVars \/ Free(w, reserved[w])
           /\ mem' = [mem EXCEPT ![w].place = "RELEASED", ![w].lease = lanes[w].fence,
                                 ![w].life = lanes[w].life,
                                 ![w].outcome = "STORE_DIVERGENCE_COMPENSATED"]
           /\ pc' = "repaired" /\ UNCHANGED <<journal, call, jm>>
  <2>1. \A v \in Works \ {w} : reserved'[v] = reserved[v]
    BY <1>2, <1>4 DEF Free, ledgerVars, StoresTyped
  <2>2. (\A v \in Works \ {w} : mem'[v] = mem[v]) /\ mem'[w].place = "RELEASED"
    BY <1>2, <1>4 DEF Entries
  <2>3. Elsewhere /\ StaysLive
    BY <1>1, <2>1, <2>2 DEF Elsewhere, StaysLive, Live, laneVars
  <2> QED
    BY <1>1, <1>4, <2>2, <2>3, CompensationMoves
<1> QED
  BY <1>3, <1>4 DEF CompensateFree, Try, Goto

LEMMA CompensateSettles ==
  ASSUME ClaimInv, ClaimInv', SettledInv, Compensate
  PROVE  SettledInv'
BY CompensateExpireSettles, CompensateSettleSettles, CompensateReclaimSettles, TerminalizeSettles,
  CompensateReleaseSettles, CompensateFreeSettles DEF Compensate

-----------------------------------------------------------------------------
(* The writes that end a recovery, and what may befall any call.           *)

LEMMA SaveRecoverySettles ==
  ASSUME ClaimInv, SettledInv, SaveRecovery
  PROVE  SettledInv'
<1>1. pc = "scan" /\ call.op = "RECOVER" /\ Scanning /\ UNCHANGED storeVars /\ call.left = {}
  BY DEF SaveRecovery, ClaimInv, AtStep, CallFits, Recovering, Scanning
<1>2. /\ jm \in Seq(Transactions) /\ journal \in Seq(Transactions)
      /\ BooksAgree /\ AtSettles /\ Changes /\ CopySettled
      /\ \A w \in Works : MayBecome(sched[w], mem[w])
      /\ \A w \in Works : Live(mem[w], lanes[w], reserved[w])
      /\ ~call.wrote => DiskSettled
  BY <1>1, InScan
<1>3. CASE EndCall(journal) /\ torn' = torn \cup Forgotten /\ UNCHANGED sched
  BY <1>1, <1>3, RecoveryStops
<1>4. ASSUME pc' = "saveJournal", UNCHANGED <<journal, call, mem, jm>>, torn' = torn \cap call.first,
             sched' = mem \/ (sched' = sched /\ ~call.changed)
      PROVE  SettledInv'
  <2>0. Unseen = torn' /\ Unseen' = torn'
    BY <1>1, <1>4 DEF Unseen
  <2>1. lanes' = lanes /\ reserved' = reserved
    BY <1>1 DEF storeVars, laneVars, ledgerVars
  <2>2. BooksFit' /\ ScheduleSettles' /\ OwnSettles'
    BY <1>1, <1>4 DEF SettledInv, BooksFit, AllWellFormed, ScheduleSettles, OwnSettles
  <2>3. Unclaimed'
    <3>1. \A w \in Works : mem[w].place = "NONE" => sched[w].place = "NONE"
      BY <1>2 DEF MayBecome, ClaimInv, Steady, BooksTyped, Entries, Places
    <3>2. \A w \in Works : sched'[w].place = "NONE" => sched[w].place = "NONE"
      BY <1>4, <3>1
    <3> QED
      BY <2>1, <3>2 DEF SettledInv, Unclaimed
  <2>4. LiveClaims'
    BY <1>2, <1>4, <2>1 DEF SettledInv, LiveClaims
  <2>5. CopySettled'
    <3> SUFFICES ASSUME NEW w \in Works \ Unseen PROVE Settled(w, sched'[w], lanes[w], jm)
      BY <1>4, <2>0, <2>1 DEF CopySettled
    <3>1. Settled(w, mem[w], lanes[w], jm)
      BY <1>1, <1>2 DEF CopySettled
    <3>2. CASE sched'[w] = mem[w]
      BY <3>1, <3>2
    <3>3. CASE sched'[w] = sched[w] /\ ~call.changed
      <4>1. mem[w] = sched[w] \/ SpokenFor(w)
        BY <1>1, <1>2, <3>3, Zenon DEF Changes
      <4>2. CASE SpokenFor(w)
        <5>1. PICK i \in DOMAIN jm : Speaks(jm[i], w) /\ jm[i].kind # "RUNNING"
          BY <4>2 DEF SpokenFor
        <5> QED
          BY <5>1 DEF Settled, Covers
      <4> QED
        BY <3>1, <3>3, <4>1, <4>2
    <3> QED
      BY <1>4, <3>2, <3>3
  <2>6. ~call.wrote => DiskSettled'
    <3> SUFFICES ASSUME ~call.wrote, NEW w \in Works \ torn' PROVE Settled(w, sched'[w], lanes[w], journal)
      BY <1>4, <2>1 DEF DiskSettled
    <3>1. Settled(w, sched'[w], lanes[w], jm)
      BY <1>4, <2>0, <2>1, <2>5 DEF CopySettled
    <3>2. ASSUME NEW i \in DOMAIN jm, Covers(jm[i], w, sched'[w], lanes[w])
          PROVE  i \in DOMAIN journal /\ Covers(journal[i], w, sched'[w], lanes[w])
      <4>1. /\ Len(jm) = Len(journal) /\ Pends(journal[i])
            /\ jm[i].op = journal[i].op /\ jm[i].works = journal[i].works
            /\ jm[i].kind = journal[i].kind
        BY <1>2 DEF BooksAgree
      <4>2. i \in DOMAIN journal
        BY <1>2, <4>1
      <4> QED
        BY <3>2, <4>1, <4>2 DEF Covers, Speaks, Mentions
    <3> QED
      BY <3>1, <3>2 DEF Settled
  <2>7. BooksAgree'
    <3>1. Scanning'
      BY <1>4 DEF Scanning
    <3> QED
      BY <1>1, <1>2, <1>4, <3>1 DEF BooksAgree, Past
  <2>8. AtSettles' /\ Changes'
    BY <1>4 DEF AtSettles, AtTransaction, Undo, Phase, Compensating, Changes, Scanning
  <2> QED
    BY <1>4, <2>2, <2>3, <2>4, <2>5, <2>6, <2>7, <2>8 DEF SettledInv, RecoverySettles
<1>5. CASE /\ ~call.changed /\ pc' = "saveJournal" /\ torn' = torn \cap call.first
           /\ UNCHANGED <<sched, journal, call, mem, jm>>
  BY <1>4, <1>5
<1>6. CASE /\ sched' = mem /\ pc' = "saveJournal" /\ torn' = torn \cap call.first
           /\ UNCHANGED <<journal, call, mem, jm>>
  BY <1>4, <1>6
<1>7. CASE ~call.changed
  BY <1>5, <1>7 DEF SaveRecovery, Goto
<1>8. CASE call.changed
  <2>1. Try(TRUE,
            /\ sched' = mem /\ Goto("saveJournal") /\ torn' = torn \cap call.first
            /\ UNCHANGED <<journal, call, mem, jm>>,
            EndCall(journal) /\ torn' = torn \cup Forgotten /\ UNCHANGED sched)
    BY <1>8 DEF SaveRecovery
  <2> QED
    BY <1>3, <1>6, <2>1 DEF Try, Goto
<1> QED
  BY <1>7, <1>8

LEMMA SaveRecoveredJournalSettles ==
  ASSUME ClaimInv, SettledInv, SaveRecoveredJournal
  PROVE  SettledInv'
<1>1. pc = "saveJournal" /\ call.op = "RECOVER" /\ UNCHANGED <<storeVars, sched, torn>>
  BY DEF SaveRecoveredJournal, At, lostVars, ClaimInv, AtStep, CallFits, Recovering
<1>2. /\ jm \in Seq(Transactions) /\ AllWellFormed(jm)
      /\ \A w \in Works \ torn : Settled(w, sched[w], lanes[w], jm)
  BY <1>1, InScan DEF CopySettled, Unseen
<1>3. CASE EndCall(jm)
  BY <1>1, <1>2, <1>3, EndCallSettles
<1>4. CASE EndCall(journal)
  BY <1>1, <1>4, RecoveryStops
<1> QED
  BY <1>3, <1>4 DEF SaveRecoveredJournal, Try

\* The process dies.
LEMMA CrashSettles ==
  ASSUME ClaimInv, SettledInv, Crash
  PROVE  SettledInv'
<1>1. EndCall(journal) /\ torn' = torn \cup Forgotten /\ UNCHANGED <<storeVars, sched>>
  BY DEF Crash
<1>2. CASE call.op = "RECOVER"
  BY <1>1, <1>2, RecoveryStops
<1>3. CASE call.op # "RECOVER"
  <2>1. ~call.wrote
    BY <1>3 DEF SettledInv, BooksFit
  <2>2. torn' = torn
    BY <1>1, <2>1 DEF Forgotten
  <2> QED
    BY <1>1, <2>1, <2>2, StopSettles
<1> QED
  BY <1>2, <1>3

\* A lease that runs out changes nothing of this.
LEMMA StillSettles ==
  ASSUME SettledInv, UNCHANGED <<lanes, reserved, sched, journal, pc, call, mem, jm, torn>>
  PROVE  SettledInv'
<1>1. BooksFit' /\ Unclaimed' /\ LiveClaims' /\ ScheduleSettles'
  BY DEF SettledInv, BooksFit, AllWellFormed, Unclaimed, LiveClaims, TakesBack, ScheduleSettles, Registered
<1>2. OwnSettles'
  BY DEF SettledInv, OwnSettles, ReapSettles, Own
<1>3. ~call'.wrote => DiskSettled'
  <2>1. DiskSettled => DiskSettled'
    BY DEF DiskSettled
  <2> QED
    BY <2>1 DEF SettledInv
<1>4. call'.op = "RECOVER" => BooksAgree' /\ AtSettles' /\ Changes' /\ CopySettled'
  <2> SUFFICES ASSUME call.op = "RECOVER" PROVE BooksAgree' /\ AtSettles' /\ Changes' /\ CopySettled'
    OBVIOUS
  <2>1. BooksAgree /\ AtSettles /\ Changes /\ CopySettled
    BY DEF SettledInv, RecoverySettles
  <2>2. BooksAgree'
    BY <2>1 DEF BooksAgree, Scanning, Repairing, Past
  <2>3. AtSettles'
    <3>1. RepairSettles => RepairSettles'
      BY DEF RepairSettles, Replayed
    <3>2. (AnswerSettles => AnswerSettles') /\ (BatchSettles => BatchSettles')
      BY DEF AnswerSettles, BatchSettles, Replayed
    <3> QED
      BY <2>1, <3>1, <3>2 DEF AtSettles, AtTransaction, Repairing, Replayed, Subject
  <2>4. Changes' /\ CopySettled'
    BY <2>1 DEF Changes, SpokenFor, CopySettled, Unseen, Scanning, Repairing
  <2> QED
    BY <2>2, <2>3, <2>4
<1> QED
  BY <1>1, <1>2, <1>3, <1>4 DEF SettledInv, RecoverySettles

LEMMA InitSettles == Init => SettledInv
<1> SUFFICES ASSUME Init PROVE SettledInv
  OBVIOUS
<1>1. /\ lanes = [w \in Works |-> NoLane] /\ reserved = [w \in Works |-> 0]
      /\ sched = [w \in Works |-> NoEntry] /\ mem = [w \in Works |-> NoEntry]
      /\ journal = <<>> /\ jm = <<>> /\ pc = "idle" /\ call = NoCall
  BY DEF Init, LaneInit, LedgerInit
<1>2. \A w \in Works : ~Held(sched[w]) /\ ~Held(mem[w])
  BY <1>1 DEF Held, NoEntry
<1>3. BooksFit /\ Unclaimed
  BY <1>1 DEF BooksFit, AllWellFormed, Unclaimed, NoLane, NoCall
<1>4. LiveClaims /\ DiskSettled
  BY <1>2 DEF LiveClaims, Live, DiskSettled, Settled
<1>5. ScheduleSettles /\ OwnSettles /\ RecoverySettles
  BY <1>1 DEF ScheduleSettles, OwnSettles, RecoverySettles, NoCall
<1> QED
  BY <1>3, <1>4, <1>5 DEF SettledInv

LEMMA StepSettles ==
  ASSUME ClaimInv, ClaimInv', SettledInv, [Next]_vars
  PROVE  SettledInv'
<1>1. CASE Calls
  BY <1>1, StartScheduleSettles, StartReapSettles, StartRecoverySettles DEF Calls
<1>2. CASE Scheduling
  <2>1. CASE UndoLease \/ UndoReservation
    <3>1. pc \in Undo /\ call.op \in {"SCHEDULE", "RECOVER"}
      BY <2>1 DEF UndoLease, UndoReservation, At, Undo, ClaimInv, AtStep, CallFits
    <3> QED
      BY <2>1, <3>1, UndoingSettles, RecoveryUndoingSettles
  <2>2. CASE ~(UndoLease \/ UndoReservation)
    BY <1>2, <2>2, SkipSettles, BeginTransactionSettles, AcquireReservationSettles, NoteReservationSettles,
      AcquireLaneLeaseSettles, NoteLeaseSettles, DispatchSettles, DispatchEvidenceSettles,
      SaveScheduleSettles, CommitScheduleSettles, UndoneSettles DEF Scheduling
  <2> QED
    BY <2>1, <2>2
<1>3. CASE PhaseOutcome
  BY <1>3, PhaseOutcomeSettles
<1>4. CASE Recovery
  BY <1>4, ReplayReconciliationSettles, ReplayScheduleSettles, RecoveryUndoneSettles,
    ReplayReleasedSettles, ReplayHeldSettles, ReplayTerminalSettles, ReplayAmbiguousSettles,
    ReplayProgressSettles, ReplayReapSettles, ReapItemSettles, ReleaseAgainSettles, ProjectReapSettles,
    ProjectOutcomeSettles, StartScanSettles, ScanHealthySettles, ScanRepairSettles, RepairedSettles,
    CompensateSettles, SaveRecoverySettles, SaveRecoveredJournalSettles DEF Recovery
<1>5. CASE SaveOutcome \/ CloseTransaction \/ SaveReap \/ SupersedeHeld
  BY <1>5, SaveOutcomeSettles, CloseTransactionSettles, SaveReapSettles, SupersedeHeldSettles
<1>6. CASE (\E w \in Works : Lapse(w)) \/ UNCHANGED vars
  <2>1. UNCHANGED <<lanes, reserved, sched, journal, pc, call, mem, jm, torn>>
    BY <1>6 DEF Lapse, LeaseLapses, vars, storeVars, laneVars, ledgerVars, lostVars
  <2> QED
    BY <2>1, StillSettles
<1>7. CASE Crash
  BY <1>7, CrashSettles
<1>8. CASE \E w \in Works, k \in Answers : StartOutcome(w, k)
  BY <1>8, StartOutcomeSettles
<1> QED
  BY <1>1, <1>2, <1>3, <1>4, <1>5, <1>6, <1>7, <1>8 DEF Next, Steps

\* The books of the scheduler: at every step of every call, what the state
\* calls a claim is what the stores hold, or a transaction that has not been
\* closed will look at it again, and what a call changes in its copy is covered
\* in the same way before the copy or the journal is written.
THEOREM SettledInvariant == Spec => []SettledInv
<1>1. ClaimInv /\ ClaimInv' /\ SettledInv /\ [Next]_vars => SettledInv'
  BY StepSettles
<1> QED
  BY InitSettles, ClaimInvariant, <1>1, PTL DEF Spec

\* Between two calls a claim has its reservation as long as its lane has not
\* been released, and one that no transaction is pending for has its lane, with
\* the lifecycle and the fence the state reports, unless a recovery died or
\* failed between its journal and its state and none has scanned the claim and
\* saved the state since (recoverSchedulerTransactions, and the order in which
\* every call writes the journal, the stores and the state).
THEOREM SettledClaimsStand == Spec => []SettledClaimsMatchTheStores
<1>1. ClaimInv /\ SettledInv => SettledClaimsMatchTheStores
  <2> SUFFICES ASSUME ClaimInv, SettledInv, pc = "idle", NEW w \in Holders(sched)
               PROVE  /\ lanes[w].status # "RELEASED" =>
                           lanes[w].status \in {"ACTIVE", "EXPIRED"} /\ reserved[w] = sched[w].res
                      /\ w \notin torn /\ ~OpenFor(w) => Faithful(sched[w], lanes[w])
    BY DEF SettledClaimsMatchTheStores, Faithful
  <2>1. w \in Works /\ Held(sched[w])
    BY DEF Holders, Held
  <2>2. ~call.wrote
    BY DEF ClaimInv, AtStep, CallFits, NoCall
  <2>3. ASSUME w \notin torn, ~OpenFor(w) PROVE Faithful(sched[w], lanes[w])
    <3>1. \A i \in DOMAIN journal : ~Covers(journal[i], w, sched[w], lanes[w])
      BY <2>3 DEF Covers, Speaks, OpenFor
    <3> QED
      BY <2>1, <2>2, <2>3, <3>1 DEF SettledInv, DiskSettled, Settled
  <2>4. Live(sched[w], lanes[w], reserved[w])
    BY <2>1 DEF SettledInv, LiveClaims
  <2> QED
    BY <2>1, <2>3, <2>4 DEF Live
<1> QED
  BY <1>1, ClaimInvariant, SettledInvariant, PTL

-----------------------------------------------------------------------------
(* Traceable claims.  What the stores hold and the state does not know is   *)
(* named by a pending transaction of a schedule, under the very fence, or   *)
(* by the call that is at it.                                               *)

\* The transaction of a schedule about work w, as the journal has it.
Begun(w) == journal[Mine(<<w>>)]

Names(t, w) == Pends(t) /\ t.op = "SCHEDULE" /\ t.works = <<w>>
NamesSet(j, w, r) == \E i \in DOMAIN j : Names(j[i], w) /\ j[i].res = r
NamesLease(j, w, f) == \E i \in DOMAIN j : Names(j[i], w) /\ j[i].lease = f

\* The claim a schedule is making, or is the first to take back.
Making(w) ==
  /\ call.op = "SCHEDULE" /\ call.w = w /\ Begun(w).phase = "INTENT"
  /\ pc \in Claiming \/ (pc \in Undo /\ Undoing = Unfinished)

KnowsSet(w) == Making(w) /\ call.res = reserved[w] /\ Begun(w).res # call.res
KnowsLease(w) == Making(w) /\ call.lease = lanes[w].fence /\ Begun(w).lease # call.lease

\* The works that no claim of the state is about and no fence was lost of.
Open == {w \in Works \ orphans : sched[w].place = "NONE"}

DiskTraced == \A w \in Open :
  /\ reserved[w] # 0 => NamesSet(journal, w, reserved[w]) \/ KnowsSet(w)
  /\ lanes[w].status = "ACTIVE" =>
       lanes[w].fence # 0 /\ (NamesLease(journal, w, lanes[w].fence) \/ KnowsLease(w))
CopyTraced == call.op = "RECOVER" => \A w \in Open :
  /\ reserved[w] # 0 => NamesSet(jm, w, reserved[w])
  /\ lanes[w].status = "ACTIVE" => NamesLease(jm, w, lanes[w].fence)

\* What the journal has been told of the fences of a claim.
Told(c) == Begun(c.w).res \in {0, c.res} /\ Begun(c.w).lease \in {0, c.lease}

MakingTells == pc \in Claiming =>
  /\ Begun(call.w).phase = "INTENT" /\ Begun(call.w).op = "SCHEDULE"
  /\ pc = "reserve" => call.res = 0
  /\ Begun(call.w).res = IF pc \in {"reserve", "noteReservation"} THEN 0 ELSE call.res
  /\ pc \in {"reserve", "noteReservation", "lease"} => call.lease = 0
  /\ Begun(call.w).lease = IF pc \in {"dispatch", "dispatchEvidence"} THEN call.lease ELSE 0
MadeTells ==
  /\ pc \in Claiming \cup {"pick"} => \A i \in DOMAIN call.made : Told(Claim(call.made[i]))
  /\ pc = "commit" => \A i \in DOMAIN call.made : sched[call.made[i]].place # "NONE"

\* A rollback that nothing refused has given up what its claim held.
UndoTells == pc \in Undo =>
  /\ call.op = "SCHEDULE" => \A i \in DOMAIN call.undo : Told(call.undo[i])
  /\ call.op = "RECOVER" =>
       Undoing.w = Subject /\ Undoing.res = Replayed.res /\ Undoing.lease = Replayed.lease
  /\ pc \in {"undoReservation", "undone"} /\ ~call.failed /\ Undoing.lease # 0 =>
       lanes[Undoing.w].status = "RELEASED"
  /\ pc = "undone" /\ ~call.failed /\ Undoing.res # 0 => reserved[Undoing.w] = 0

TraceInv == DiskTraced /\ CopyTraced /\ MakingTells /\ MadeTells /\ UndoTells

-----------------------------------------------------------------------------
(* The transaction of a work, as the journal grows and is edited.          *)

Latest(j, w) == CHOOSE i \in DOMAIN j :
  j[i].works = <<w>> /\ \A k \in i + 1 .. Len(j) : j[k].works # <<w>>

LEMMA MineIsLatest ==
  ASSUME NEW w
  PROVE  Mine(<<w>>) = Latest(journal, w) /\ Mine(<<w>>)' = Latest(journal', w)
BY DEF Mine, Latest

LEMMA LatestIs ==
  ASSUME NEW j \in Seq(Transactions), NEW w, NEW k \in DOMAIN j, j[k].works = <<w>>,
         \A m \in k + 1 .. Len(j) : j[m].works # <<w>>
  PROVE  Latest(j, w) = k
<1> DEFINE i == Latest(j, w)
<1>1. i \in DOMAIN j /\ j[i].works = <<w>> /\ \A m \in i + 1 .. Len(j) : j[m].works # <<w>>
  BY Zenon DEF Latest
<1>2. DOMAIN j = 1 .. Len(j) /\ Len(j) \in Nat
  OBVIOUS
<1> HIDE DEF i
<1>3. ~(i < k) /\ ~(k < i)
  BY <1>1, <1>2
<1>4. i = k
  BY <1>1, <1>2, <1>3
<1> QED
  BY <1>4 DEF i

\* Edits that leave the works of the transactions as they are.
LEMMA MineStays ==
  ASSUME journal \in Seq(Transactions), journal' \in Seq(Transactions), NEW w, Registered(w),
         DOMAIN journal' = DOMAIN journal,
         \A i \in DOMAIN journal : journal'[i].works = journal[i].works
  PROVE  /\ Mine(<<w>>)' = Mine(<<w>>) /\ Mine(<<w>>) \in DOMAIN journal
         /\ journal[Mine(<<w>>)].works = <<w>>
<1> DEFINE k == Mine(<<w>>)
<1>1. /\ k \in DOMAIN journal /\ journal[k].works = <<w>>
      /\ \A m \in k + 1 .. Len(journal) : journal[m].works # <<w>>
  BY MineIsThere
<1> HIDE DEF k
<1>2. /\ DOMAIN journal = 1 .. Len(journal) /\ Len(journal) \in Nat
      /\ DOMAIN journal' = 1 .. Len(journal') /\ Len(journal') \in Nat
  OBVIOUS
<1>3. Len(journal') = Len(journal)
  BY <1>2
<1>4. \A m \in k + 1 .. Len(journal) : m \in DOMAIN journal
  BY <1>1, <1>2
<1>5. \A m \in k + 1 .. Len(journal') : journal'[m].works # <<w>>
  BY <1>1, <1>3, <1>4
<1>6. Latest(journal', w) = k
  BY <1>1, <1>5, LatestIs
<1> QED
  BY <1>1, <1>6, MineIsLatest DEF k

LEMMA BegunAppended ==
  ASSUME journal \in Seq(Transactions), NEW t \in Transactions, journal' = Append(journal, t), NEW w
  PROVE  /\ t.works = <<w>> => Begun(w)' = t
         /\ t.works # <<w>> /\ Registered(w) => Begun(w)' = Begun(w)
<1> DEFINE n == Len(journal)
<1>1. /\ n \in Nat /\ DOMAIN journal = 1 .. n /\ DOMAIN journal' = 1 .. n + 1 /\ Len(journal') = n + 1
      /\ journal'[n + 1] = t /\ \A i \in 1 .. n : journal'[i] = journal[i]
      /\ journal' \in Seq(Transactions)
  OBVIOUS
<1> HIDE DEF n
<1>2. ASSUME t.works = <<w>> PROVE Begun(w)' = t
  <2>1. Latest(journal', w) = n + 1
    <3>1. n + 1 \in DOMAIN journal' /\ journal'[n + 1].works = <<w>>
      BY <1>1, <1>2
    <3>2. \A m \in n + 1 + 1 .. Len(journal') : journal'[m].works # <<w>>
      BY <1>1
    <3> QED
      BY <1>1, <3>1, <3>2, LatestIs
  <2> QED
    BY <1>1, <2>1, MineIsLatest DEF Begun
<1>3. ASSUME t.works # <<w>>, Registered(w) PROVE Begun(w)' = Begun(w)
  <2> DEFINE k == Mine(<<w>>)
  <2>1. /\ k \in 1 .. n /\ journal[k].works = <<w>>
        /\ \A m \in k + 1 .. n : journal[m].works # <<w>>
    BY <1>1, <1>3, MineIsThere DEF n
  <2> HIDE DEF k
  <2>2. k \in DOMAIN journal' /\ journal'[k] = journal[k]
    BY <1>1, <2>1
  <2>3. ASSUME NEW m \in k + 1 .. Len(journal') PROVE journal'[m].works # <<w>>
    <3>1. m = n + 1 \/ (m \in k + 1 .. n /\ m \in 1 .. n)
      BY <1>1, <2>1
    <3> QED
      BY <1>1, <1>3, <2>1, <3>1
  <2>4. Latest(journal', w) = k
    BY <1>1, <2>1, <2>2, <2>3, LatestIs
  <2> QED
    BY <2>2, <2>4, MineIsLatest DEF Begun, k
<1> QED
  BY <1>2, <1>3

-----------------------------------------------------------------------------
(* What one list of transactions names, another names too.                 *)

Retells(j, k, w) == \A i \in DOMAIN j : Names(j[i], w) => \E n \in DOMAIN k : k[n] = j[i]

LEMMA SameRetells ==
  ASSUME NEW j, NEW w
  PROVE  Retells(j, j, w)
BY DEF Retells

LEMMA RetellsTwice ==
  ASSUME NEW j, NEW k, NEW l, NEW w, Retells(j, k, w), Retells(k, l, w)
  PROVE  Retells(j, l, w)
BY DEF Retells

LEMMA PendingRetells ==
  ASSUME NEW j \in Seq(Transactions), NEW w
  PROVE  Retells(j, Pending(j), w)
<1> DEFINE I == {i \in DOMAIN j : j[i].phase \notin ClosedPhases}
<1>1. Pending(j) = Kept(j, I) /\ \A i \in DOMAIN j : Names(j[i], w) => i \in I
  BY DEF Pending, Names, Pends
<1> HIDE DEF I
<1>2. \A i \in DOMAIN j : i \in I => \E k \in DOMAIN Kept(j, I) : Kept(j, I)[k] = j[i]
  BY KeptIsComplete
<1> QED
  BY <1>1, <1>2 DEF Retells

LEMMA LongerRetells ==
  ASSUME NEW j \in Seq(Transactions), NEW t \in Transactions, NEW w
  PROVE  Retells(j, Append(j, t), w)
<1> DEFINE k == Append(j, t)
<1>1. \A i \in DOMAIN j : i \in DOMAIN k /\ k[i] = j[i]
  OBVIOUS
<1> HIDE DEF k
<1>2. Retells(j, k, w)
  BY <1>1 DEF Retells
<1> QED
  BY <1>2 DEF k

LEMMA PhaseRetells ==
  ASSUME NEW j \in Seq(Transactions), NEW i, NEW p, NEW w, ~Names(j[i], w)
  PROVE  Retells(j, [j EXCEPT ![i].phase = p], w)
<1> DEFINE k == [j EXCEPT ![i].phase = p]
<1>1. DOMAIN k = DOMAIN j /\ \A n \in DOMAIN j : n # i => k[n] = j[n]
  BY EditIs
<1> HIDE DEF k
<1>2. Retells(j, k, w)
  BY <1>1 DEF Retells
<1> QED
  BY <1>2 DEF k

LEMMA RetoldIsNamed ==
  ASSUME NEW j, NEW k, NEW w, Retells(j, k, w)
  PROVE  /\ \A r : NamesSet(j, w, r) => NamesSet(k, w, r)
         /\ \A f : NamesLease(j, w, f) => NamesLease(k, w, f)
BY DEF Retells, NamesSet, NamesLease, Names, Pends

-----------------------------------------------------------------------------
(* Steps that are not a schedule's and take nothing back.                  *)

\* The works without a claim keep what they have, and stay named.
StoresLeft == \A w \in Works : sched'[w].place = "NONE" =>
  sched[w].place = "NONE" /\ lanes'[w] = lanes[w] /\ reserved'[w] = reserved[w]
DiskRetold == \A w \in Works : sched'[w].place = "NONE" =>
  \/ Retells(journal, journal', w)
  \/ call.op = "RECOVER" /\ Retells(jm, journal', w)
CopyRetold == call'.op = "RECOVER" =>
  /\ call.op = "RECOVER"
  /\ \A w \in Works : sched'[w].place = "NONE" => Retells(jm, jm', w)

LEMMA QuietStepTraces ==
  ASSUME ClaimInv', TraceInv, call.op # "SCHEDULE", call'.op # "SCHEDULE", pc' \notin Undo,
         UNCHANGED orphans, StoresLeft, DiskRetold, CopyRetold
  PROVE  TraceInv'
<1>1. pc' \notin Claiming \cup {"pick", "commit"}
  BY DEF ClaimInv, AtStep, CallFits
<1>2. MakingTells' /\ MadeTells' /\ UndoTells'
  BY <1>1 DEF MakingTells, MadeTells, UndoTells
<1>3. \A w \in Works : w \in Open' => w \in Open /\ sched'[w].place = "NONE"
  BY DEF Open, StoresLeft
<1>4. \A w \in Open :
        /\ reserved[w] # 0 => NamesSet(journal, w, reserved[w])
        /\ lanes[w].status = "ACTIVE" =>
             lanes[w].fence # 0 /\ NamesLease(journal, w, lanes[w].fence)
  BY DEF TraceInv, DiskTraced, KnowsSet, KnowsLease, Making
<1>5. DiskTraced'
  <2> SUFFICES ASSUME NEW w \in Works, w \in Open'
               PROVE  /\ reserved'[w] # 0 => NamesSet(journal', w, reserved'[w])
                      /\ lanes'[w].status = "ACTIVE" =>
                           lanes'[w].fence # 0 /\ NamesLease(journal', w, lanes'[w].fence)
    BY DEF DiskTraced, Open
  <2>1. w \in Open /\ sched'[w].place = "NONE" /\ lanes'[w] = lanes[w] /\ reserved'[w] = reserved[w]
    BY <1>3 DEF StoresLeft
  <2>2. CASE Retells(journal, journal', w)
    BY <1>4, <2>1, <2>2, RetoldIsNamed
  <2>3. CASE call.op = "RECOVER" /\ Retells(jm, journal', w)
    <3>1. /\ reserved[w] # 0 => NamesSet(jm, w, reserved[w])
          /\ lanes[w].status = "ACTIVE" => NamesLease(jm, w, lanes[w].fence)
      BY <2>1, <2>3 DEF TraceInv, CopyTraced
    <3> QED
      BY <1>4, <2>1, <2>3, <3>1, RetoldIsNamed
  <2> QED
    BY <2>1, <2>2, <2>3 DEF DiskRetold
<1>6. CopyTraced'
  <2> SUFFICES ASSUME call'.op = "RECOVER", NEW w \in Works, w \in Open'
               PROVE  /\ reserved'[w] # 0 => NamesSet(jm', w, reserved'[w])
                      /\ lanes'[w].status = "ACTIVE" => NamesLease(jm', w, lanes'[w].fence)
    BY DEF CopyTraced, Open
  <2>1. w \in Open /\ sched'[w].place = "NONE" /\ lanes'[w] = lanes[w] /\ reserved'[w] = reserved[w]
    BY <1>3 DEF StoresLeft
  <2>2. Retells(jm, jm', w) /\ call.op = "RECOVER"
    BY <2>1 DEF CopyRetold
  <2>3. /\ reserved[w] # 0 => NamesSet(jm, w, reserved[w])
        /\ lanes[w].status = "ACTIVE" => NamesLease(jm, w, lanes[w].fence)
    BY <2>1, <2>2 DEF TraceInv, CopyTraced
  <2> QED
    BY <2>1, <2>2, <2>3, RetoldIsNamed
<1> QED
  BY <1>2, <1>5, <1>6 DEF TraceInv

\* What such a step may do with the lists of transactions.
BooksLeft == call'.op # "SCHEDULE" /\ pc' \notin Undo /\ DiskRetold /\ CopyRetold

LEMMA BooksStay ==
  ASSUME UNCHANGED <<journal, jm>>, call.op # "SCHEDULE", call'.op = call.op, pc' \notin Undo
  PROVE  BooksLeft
BY SameRetells DEF BooksLeft, DiskRetold, CopyRetold

\* A call ends with transactions that still name what they did.
LEMMA EndLeaves ==
  ASSUME NEW j \in Seq(Transactions), EndCall(j),
         \A w \in Works : sched'[w].place = "NONE" =>
           \/ Retells(journal, j, w)
           \/ call.op = "RECOVER" /\ Retells(jm, j, w)
  PROVE  BooksLeft
<1>1. journal' = Pending(j) /\ pc' = "idle" /\ call'.op = "NONE"
  BY DEF EndCall, Goto, NoCall
<1>2. DiskRetold
  BY <1>1, PendingRetells, RetellsTwice DEF DiskRetold
<1> QED
  BY <1>1, <1>2 DEF BooksLeft, CopyRetold, Undo

LEMMA StopLeaves ==
  ASSUME ClaimInv, EndCall(journal)
  PROVE  BooksLeft
BY SameRetells, EndLeaves DEF ClaimInv, Steady, BooksTyped

\* The phase of a transaction that names nobody's claim is edited.
LEMMA MarkRetells ==
  ASSUME ClaimInv, NEW p, Replayed.op # "SCHEDULE", NEW w
  PROVE  Retells(jm, Marked(p), w)
<1>1. jm \in Seq(Transactions) /\ ~Names(jm[call.at], w)
  BY DEF Names, Replayed, ClaimInv, Steady, BooksTyped
<1> QED
  BY <1>1, PhaseRetells DEF Marked

LEMMA ReplayLeaves ==
  ASSUME ClaimInv, call.op = "RECOVER", NEW j, ReplayNext(j),
         \A w \in Works : sched'[w].place = "NONE" => Retells(jm, j, w)
  PROVE  BooksLeft
<1>1. jm' = j /\ pc' = "replay" /\ journal' = journal /\ call'.op = "RECOVER"
  BY DEF ReplayNext, Goto, ClaimInv, Steady, BooksTyped, CallRecords
<1> QED
  BY <1>1, SameRetells DEF BooksLeft, DiskRetold, CopyRetold, Undo

LEMMA RepairFailsLeaves ==
  ASSUME ClaimInv, call.op = "RECOVER", Replayed.op # "SCHEDULE", RepairFails
  PROVE  BooksLeft
<1>1. /\ jm' = Marked("RECOVERY_REQUIRED") /\ journal' = Pending(jm') /\ pc' = "scan"
      /\ call'.op = call.op
  BY DEF RepairFails, Goto, ClaimInv, Steady, BooksTyped, CallRecords
<1>2. \A w : Retells(jm, jm', w)
  BY <1>1, MarkRetells
<1>3. jm' \in Seq(Transactions)
  BY <1>1, MarkedIsTyped DEF Phases
<1>4. \A w : Retells(jm, journal', w)
  BY <1>1, <1>2, <1>3, PendingRetells, RetellsTwice
<1> QED
  BY <1>1, <1>2, <1>4 DEF BooksLeft, DiskRetold, CopyRetold, Undo

LEMMA RecoveryFailsLeaves ==
  ASSUME ClaimInv, call.op = "RECOVER", Replayed.op # "SCHEDULE", RecoveryPhaseFails
  PROVE  BooksLeft
<1>1. \/ RepairFails \/ ReplayNext(jm) \/ ReplayNext(Marked("RECOVERY_REQUIRED"))
      \/ EndCall(journal)
  BY DEF RecoveryPhaseFails
<1>2. CASE ReplayNext(jm) \/ ReplayNext(Marked("RECOVERY_REQUIRED"))
  BY <1>2, MarkRetells, SameRetells, ReplayLeaves
<1> QED
  BY <1>1, <1>2, RepairFailsLeaves, StopLeaves

\* The last transaction of an answer or a reap asks for recovery, or is closed.
LEMMA OwnRetells ==
  ASSUME ClaimInv, SettledInv, call.op \in {"OUTCOME", "REAP_BATCH"}, NEW p \in Phases, NEW w
  PROVE  /\ [journal EXCEPT ![Len(journal)].phase = p] \in Seq(Transactions)
         /\ Retells(journal, [journal EXCEPT ![Len(journal)].phase = p], w)
<1>1. journal \in Seq(Transactions) /\ Len(journal) \in DOMAIN journal /\ Own.op = call.op
  BY DEF ClaimInv, Steady, BooksTyped, SettledInv, OwnSettles
<1>2. ~Names(journal[Len(journal)], w)
  BY <1>1 DEF Names, Own
<1>3. AboutClaims(journal)
  BY DEF ClaimInv, Steady
<1> QED
  BY <1>1, <1>2, <1>3, PhaseRetells, PhaseIsTyped

LEMMA PhaseFailsLeaves ==
  ASSUME ClaimInv, SettledInv, pc \in Phase, PhaseFails, UNCHANGED sched
  PROVE  BooksLeft
<1>1. call.op \in {"OUTCOME", "REAP_BATCH", "RECOVER"} /\ call \in CallRecords
  BY PhaseIsKnown
<1>2. CASE call.op = "RECOVER"
  <2>1. Replayed.op # "SCHEDULE"
    BY <1>2, InRecovery DEF AtTransaction
  <2> QED
    BY <1>2, <2>1, RecoveryFailsLeaves DEF PhaseFails
<1>3. CASE call.op # "RECOVER"
  <2>1. CASE EndCall([journal EXCEPT ![Len(journal)].phase = "RECOVERY_REQUIRED"])
    BY <1>1, <1>3, <2>1, OwnRetells, EndLeaves DEF Phases
  <2>2. CASE /\ pc' = IF EndsClaim(call.kind) /\ lanes[call.w].status = "RELEASED" THEN "free" ELSE "live"
             /\ call' = [call EXCEPT !.second = TRUE, !.targets = <<>>]
             /\ UNCHANGED <<journal, mem, jm>>
    <3>1. call'.op = call.op /\ pc' \notin Undo
      BY <1>1, <2>2 DEF CallRecords, Undo
    <3> QED
      BY <1>1, <2>2, <3>1, BooksStay
  <2> QED
    BY <1>3, <2>1, <2>2 DEF PhaseFails, Goto
<1> QED
  BY <1>1, <1>2, <1>3

LEMMA PhaseDoneLeaves ==
  ASSUME ClaimInv, pc \in Phase, PhaseDone
  PROVE  BooksLeft
<1>1. call.op \in {"OUTCOME", "REAP_BATCH", "RECOVER"} /\ call \in CallRecords
  BY PhaseIsKnown
<1>2. CASE ReapedNext
  <2>1. call'.op = call.op /\ pc' \in {"saveReap", "live"} /\ UNCHANGED <<journal, jm>>
    BY <1>1, <1>2 DEF ReapedNext, Goto, CallRecords
  <2> QED
    BY <1>1, <2>1, BooksStay DEF Undo
<1>3. CASE pc' \in {"apply", "refree", "project"} /\ UNCHANGED <<journal, call, mem, jm>>
  BY <1>1, <1>3, BooksStay DEF Undo
<1> QED
  BY <1>1, <1>2, <1>3 DEF PhaseDone, Goto

\* Operations of the stores on the work in hand.
OnHand ==
  \/ \E f : \/ ExpireLease(call.w, f) \/ ReclaimLease(call.w, f) \/ ReleaseLease(call.w, f)
            \/ SettleTerminalLease(call.w, f)
            \/ \E to, r : CheckpointLane(call.w, f, to, r)
  \/ UNCHANGED laneVars
OnSet == (\E f : Free(call.w, f)) \/ UNCHANGED ledgerVars

LEMMA HandLeaves ==
  ASSUME ClaimInv, call.w \in Holders(sched), UNCHANGED sched, OnHand, OnSet
  PROVE  StoresLeft
<1>1. lanes \in [Works -> Lanes] /\ reserved \in [Works -> Nat]
  BY DEF ClaimInv, Steady, StoresTyped
<1>2. \A v \in Works \ {call.w} : lanes'[v] = lanes[v]
  BY <1>1 DEF OnHand, ExpireLease, ReclaimLease, ReleaseLease, SettleTerminalLease, CheckpointLane, laneVars
<1>3. \A v \in Works \ {call.w} : reserved'[v] = reserved[v]
  BY <1>1 DEF OnSet, Free, ledgerVars
<1> QED
  BY <1>2, <1>3 DEF StoresLeft, Holders

LEMMA StillLeaves ==
  ASSUME UNCHANGED <<lanes, reserved, sched>>
  PROVE  StoresLeft
BY DEF StoresLeft

LEMMA LeftTraces ==
  ASSUME ClaimInv', TraceInv, call.op # "SCHEDULE", UNCHANGED orphans, StoresLeft, BooksLeft
  PROVE  TraceInv'
BY QuietStepTraces DEF BooksLeft

LEMMA PhaseOutcomeTraces ==
  ASSUME ClaimInv, ClaimInv', SettledInv, TraceInv, PhaseOutcome
  PROVE  TraceInv'
<1>1. pc \in Phase /\ UNCHANGED <<orphans, sched>>
  BY DEF PhaseOutcome, ExpireLapsed, ReclaimExpired, ReclaimEvidence, LaneIsLive, NoLiveLane,
    ChooseTargets, Checkpoint, OutcomeEvidence, ReleaseAnswered, FreeAnswered, At, lostVars, Phase
<1>2. /\ call \in CallRecords /\ call.w \in Works /\ call.w \in Holders(sched)
      /\ call.op \in {"OUTCOME", "REAP_BATCH", "RECOVER"} /\ call.op # "SCHEDULE"
  BY <1>1, PhaseIsKnown
<1>3. OnHand /\ OnSet
  <2>1. CASE ExpireLapsed \/ ReclaimExpired \/ Checkpoint \/ ReleaseAnswered
    <3>1. OnHand
      BY <2>1 DEF ExpireLapsed, ReclaimExpired, Checkpoint, ReleaseAnswered, Try, OnHand
    <3>2. UNCHANGED ledgerVars
      BY <2>1 DEF ExpireLapsed, ReclaimExpired, Checkpoint, ReleaseAnswered
    <3> QED
      BY <3>1, <3>2 DEF OnSet
  <2>2. CASE FreeAnswered
    BY <2>2 DEF FreeAnswered, Try, OnHand, OnSet
  <2>3. CASE ReclaimEvidence \/ LaneIsLive \/ NoLiveLane \/ ChooseTargets \/ OutcomeEvidence
    BY <2>3 DEF ReclaimEvidence, LaneIsLive, NoLiveLane, ChooseTargets, OutcomeEvidence,
      storeVars, OnHand, OnSet
  <2> QED
    BY <2>1, <2>2, <2>3 DEF PhaseOutcome
<1>4. \/ PhaseFails \/ PhaseDone
      \/ UNCHANGED <<journal, jm>> /\ call'.op = call.op /\ pc' \notin Undo
  <2>1. CASE ExpireLapsed
    BY <1>1, <2>1 DEF ExpireLapsed, Try, Undo, Phase
  <2>2. CASE ReclaimExpired
    BY <2>2 DEF ReclaimExpired, Try, Goto, Undo
  <2>3. CASE ReclaimEvidence
    BY <2>3 DEF ReclaimEvidence, Try, Goto, Undo
  <2>4. CASE LaneIsLive \/ NoLiveLane
    BY <2>4 DEF LaneIsLive, NoLiveLane, Goto, Undo
  <2>5. CASE ChooseTargets
    BY <1>2, <2>5 DEF ChooseTargets, Goto, Undo, CallRecords
  <2>6. CASE Checkpoint
    BY <1>2, <2>6 DEF Checkpoint, Try, Goto, Undo, CallRecords
  <2>7. CASE OutcomeEvidence
    BY <2>7 DEF OutcomeEvidence, Try, Goto, Undo
  <2>8. CASE ReleaseAnswered
    BY <2>8 DEF ReleaseAnswered, Try, Goto, Undo
  <2>9. CASE FreeAnswered
    BY <2>9 DEF FreeAnswered, Try
  <2> QED
    BY <2>1, <2>2, <2>3, <2>4, <2>5, <2>6, <2>7, <2>8, <2>9 DEF PhaseOutcome
<1>5. BooksLeft
  BY <1>1, <1>2, <1>4, PhaseFailsLeaves, PhaseDoneLeaves, BooksStay
<1>6. StoresLeft
  BY <1>1, <1>2, <1>3, HandLeaves
<1> QED
  BY <1>1, <1>2, <1>5, <1>6, LeftTraces

\* Answers and reaps begin, write the state, and close their transaction.
LEMMA StartAnswerTraces ==
  ASSUME ClaimInv, ClaimInv', TraceInv,
         (\E w \in Works, k \in Answers : StartOutcome(w, k)) \/ (\E b \in Batches : StartReap(b))
  PROVE  TraceInv'
<1>1. /\ pc = "idle" /\ call = NoCall /\ pc' = "live" /\ UNCHANGED <<lanes, reserved, sched, orphans, jm>>
      /\ call'.op \in {"OUTCOME", "REAP_BATCH"}
  <2>1. /\ pc = "idle" /\ pc' = "live" /\ UNCHANGED <<lanes, reserved, sched, orphans, jm>>
    BY DEF StartOutcome, StartReap, Begin, Goto, storeVars, laneVars, ledgerVars, lostVars
  <2>2. call'.op \in {"OUTCOME", "REAP_BATCH"}
    <3>1. CASE \E w \in Works, k \in Answers : StartOutcome(w, k)
      BY <3>1 DEF StartOutcome, Begin, NoCall
    <3>2. CASE \E b \in Batches : StartReap(b)
      BY <3>2 DEF StartReap, Begin, NoCall
    <3> QED
      BY <3>1, <3>2
  <2> QED
    BY <2>1, <2>2 DEF ClaimInv, AtStep, CallFits
<1>2. call.op = "NONE"
  BY <1>1 DEF NoCall
<1>3. journal \in Seq(Transactions) /\ journal' \in Seq(Transactions)
  BY DEF ClaimInv, Steady, BooksTyped
<1>4. \E t : journal' = Append(journal, t)
  BY DEF StartOutcome, StartReap
<1>5. \A w : Retells(journal, journal', w)
  <2>1. PICK t : journal' = Append(journal, t)
    BY <1>4
  <2>2. \A i \in DOMAIN journal : i \in DOMAIN journal' /\ journal'[i] = journal[i]
    BY <1>3, <2>1
  <2> QED
    BY <2>2 DEF Retells
<1>6. BooksLeft
  BY <1>1, <1>5 DEF BooksLeft, DiskRetold, CopyRetold, Undo
<1> QED
  BY <1>1, <1>2, <1>6, StillLeaves, LeftTraces

LEMMA SaveOutcomeTraces ==
  ASSUME ClaimInv, ClaimInv', SettledInv, TraceInv, SaveOutcome
  PROVE  TraceInv'
<1>1. /\ pc = "apply" /\ call.op = "OUTCOME" /\ UNCHANGED <<lanes, reserved, orphans>>
      /\ call.w \in Holders(sched) /\ call.w \in Works
  BY DEF SaveOutcome, At, lostVars, storeVars, laneVars, ledgerVars, ClaimInv, AtStep, CallFits,
    WorkKnown, OnClaim, Holders
<1>2. CASE /\ mem' = AfterAnswer(mem, call.w, PlaceAfter(call.kind), call.kind)
           /\ sched' = mem' /\ pc' = "close" /\ UNCHANGED <<journal, call, jm>>
  <2>1. BooksLeft
    BY <1>1, <1>2, BooksStay DEF Undo
  <2>2. \A w \in Works : sched'[w].place = "NONE" => sched[w].place = "NONE"
    <3>1. mem \in [Works -> Entries] /\ sched \in [Works -> Entries]
      BY DEF ClaimInv, Steady, BooksTyped
    <3>2. \A w \in Works : MayBecome(sched[w], mem[w])
      BY <1>1 DEF ClaimInv, Steady, CopyFollows
    <3>3. \A w \in Works : w # call.w => sched'[w] = mem[w]
      BY <1>2, <3>1 DEF AfterAnswer
    <3>4. \A w \in Works : w # call.w /\ sched'[w].place = "NONE" => sched[w].place \notin {"ACTIVE", "RECONCILIATION", "RELEASED"}
      BY <3>2, <3>3 DEF MayBecome
    <3>5. sched'[call.w].place # "NONE"
      <4>1. mem[call.w] \in Entries /\ PlaceAfter(call.kind) # "NONE"
        BY <1>1, <3>1 DEF PlaceAfter
      <4>2. sched'[call.w].place = PlaceAfter(call.kind)
        BY <1>1, <1>2, <3>1, <4>1 DEF AfterAnswer, Entries
      <4> QED
        BY <4>1, <4>2
    <3>6. \A w \in Works : sched[w].place \in Places
      BY <3>1 DEF Entries
    <3> QED
      BY <3>4, <3>5, <3>6 DEF Places
  <2>3. StoresLeft
    BY <1>1, <2>2 DEF StoresLeft
  <2> QED
    BY <1>1, <2>1, <2>3, LeftTraces
<1>3. CASE /\ EndCall([journal EXCEPT ![Len(journal)].phase = "RECOVERY_REQUIRED"])
           /\ UNCHANGED sched
  <2>1. BooksLeft
    BY <1>1, <1>3, OwnRetells, EndLeaves DEF Phases
  <2> QED
    BY <1>1, <1>3, <2>1, StillLeaves, LeftTraces
<1> QED
  BY <1>2, <1>3 DEF SaveOutcome, Try, Goto

LEMMA CloseTransactionTraces ==
  ASSUME ClaimInv, ClaimInv', SettledInv, TraceInv, CloseTransaction
  PROVE  TraceInv'
<1>1. /\ pc = "close" /\ call.op \in {"OUTCOME", "REAP_BATCH"} /\ UNCHANGED <<lanes, reserved, sched, orphans>>
  BY DEF CloseTransaction, At, lostVars, storeVars, laneVars, ledgerVars, ClaimInv, AtStep, CallFits
<1>2. EndCall([journal EXCEPT ![Len(journal)].phase = "COMMITTED"]) \/ EndCall(journal)
  BY DEF CloseTransaction, Try
<1>3. BooksLeft
  BY <1>1, <1>2, OwnRetells, EndLeaves, StopLeaves DEF Phases, ClosedPhases
<1> QED
  BY <1>1, <1>3, StillLeaves, LeftTraces

LEMMA SaveReapTraces ==
  ASSUME ClaimInv, ClaimInv', TraceInv, SaveReap
  PROVE  TraceInv'
<1>1. pc = "saveReap" /\ call.op = "REAP_BATCH" /\ UNCHANGED <<lanes, reserved, orphans>>
  BY DEF SaveReap, At, lostVars, storeVars, laneVars, ledgerVars, ClaimInv, AtStep, CallFits
<1>2. CASE sched' = mem /\ pc' = "supersede" /\ UNCHANGED <<journal, call, mem, jm>>
  <2>1. BooksLeft
    BY <1>1, <1>2, BooksStay DEF Undo
  <2>2. \A w \in Works : sched'[w].place = "NONE" => sched[w].place = "NONE"
    BY <1>1, <1>2 DEF ClaimInv, Steady, BooksTyped, Entries, Places, CopyFollows, MayBecome
  <2>3. StoresLeft
    BY <1>1, <2>2 DEF StoresLeft
  <2> QED
    BY <1>1, <2>1, <2>3, LeftTraces
<1>3. CASE EndCall(journal) /\ UNCHANGED sched
  BY <1>1, <1>3, StopLeaves, StillLeaves, LeftTraces
<1> QED
  BY <1>2, <1>3 DEF SaveReap, Try, Goto

LEMMA SupersedeHeldTraces ==
  ASSUME ClaimInv, ClaimInv', SettledInv, TraceInv, SupersedeHeld
  PROVE  TraceInv'
<1>1. /\ pc = "supersede" /\ call.op = "REAP_BATCH" /\ UNCHANGED <<lanes, reserved, sched, orphans>>
  BY DEF SupersedeHeld, At, lostVars, storeVars, laneVars, ledgerVars, ClaimInv, AtStep, CallFits
<1>2. CASE /\ journal' = [i \in DOMAIN journal |->
                IF Superseded(journal[i]) THEN [journal[i] EXCEPT !.phase = "SUPERSEDED_BY_REAP"]
                ELSE journal[i]]
           /\ pc' = "close" /\ UNCHANGED <<call, mem, jm>>
  <2>1. \A i \in DOMAIN journal : Superseded(journal[i]) => journal[i].op = "OUTCOME"
    BY DEF SettledInv, BooksFit, AllWellFormed, WellFormed, Superseded
  <2>2. \A w : Retells(journal, journal', w)
    <3>1. DOMAIN journal' = DOMAIN journal
          /\ \A i \in DOMAIN journal : journal'[i] = journal[i] \/ journal[i].op = "OUTCOME"
      BY <1>2, <2>1
    <3> QED
      BY <3>1 DEF Retells, Names
  <2>3. BooksLeft
    BY <1>1, <1>2, <2>2 DEF BooksLeft, DiskRetold, CopyRetold, Undo
  <2> QED
    BY <1>1, <2>3, StillLeaves, LeftTraces
<1>3. CASE EndCall(journal)
  BY <1>1, <1>3, StopLeaves, StillLeaves, LeftTraces
<1> QED
  BY <1>2, <1>3 DEF SupersedeHeld, Try, Goto

-----------------------------------------------------------------------------
(* Recovery.                                                               *)

LEMMA StartRecoveryTraces ==
  ASSUME ClaimInv, ClaimInv', TraceInv, StartRecovery
  PROVE  TraceInv'
<1>1. /\ pc = "idle" /\ call = NoCall /\ pc' = "replay" /\ UNCHANGED <<lanes, reserved, sched, orphans>>
      /\ jm' = journal /\ journal' = journal
  BY DEF StartRecovery, Begin, Goto, storeVars, laneVars, ledgerVars, lostVars,
    ClaimInv, AtStep, CallFits
<1>2. call.op = "NONE"
  BY <1>1 DEF NoCall
<1>3. \A w \in Open :
        /\ reserved[w] # 0 => NamesSet(journal, w, reserved[w])
        /\ lanes[w].status = "ACTIVE" =>
             lanes[w].fence # 0 /\ NamesLease(journal, w, lanes[w].fence)
  BY <1>2 DEF TraceInv, DiskTraced, KnowsSet, KnowsLease, Making
<1>4. DiskTraced' /\ CopyTraced'
  BY <1>1, <1>3 DEF DiskTraced, CopyTraced, Open
<1>5. MakingTells' /\ MadeTells' /\ UndoTells'
  BY <1>1 DEF MakingTells, MadeTells, UndoTells, Claiming, Undo
<1> QED
  BY <1>4, <1>5 DEF TraceInv

\* What every step of replay has in common.
LEMMA ReplayIs ==
  ASSUME ClaimInv, NEW op, Replaying(op)
  PROVE  /\ call.op = "RECOVER" /\ Replayed.op = op /\ Replayed \in Transactions
         /\ UNCHANGED <<lanes, reserved, sched, orphans>> /\ StoresLeft
         /\ call.at \in DOMAIN jm /\ jm \in Seq(Transactions) /\ call \in CallRecords
<1>1. /\ pc = "replay" /\ pc \in Recovering /\ UNCHANGED storeVars /\ UNCHANGED sched
      /\ call.at \in DOMAIN jm /\ Replayed \in Transactions /\ Replayed.op = op
  BY ReplayingIsKnown
<1>2. UNCHANGED orphans
  BY DEF Replaying, At, lostVars
<1>3. call.op = "RECOVER" /\ jm \in Seq(Transactions) /\ call \in CallRecords
  BY <1>1 DEF ClaimInv, AtStep, CallFits, Steady, BooksTyped
<1> QED
  BY <1>1, <1>2, <1>3, StillLeaves DEF storeVars, laneVars, ledgerVars

\* A transaction that is not a schedule's is marked, or left as it is.
LEMMA MarkLeaves ==
  ASSUME ClaimInv, call.op = "RECOVER", Replayed.op # "SCHEDULE",
         ReplayNext(jm) \/ \E p : ReplayNext(Marked(p))
  PROVE  BooksLeft
<1>1. CASE ReplayNext(jm)
  BY <1>1, SameRetells, ReplayLeaves
<1>2. ASSUME NEW p, ReplayNext(Marked(p)) PROVE BooksLeft
  BY <1>2, MarkRetells, ReplayLeaves
<1> QED
  BY <1>1, <1>2

\* Replay, all but that of a schedule.
LEMMA ReplayTraces ==
  ASSUME ClaimInv, ClaimInv', TraceInv,
         \/ ReplayReconciliation \/ ReplayReleased \/ ReplayHeld \/ ReplayTerminal
         \/ ReplayAmbiguous \/ ReplayProgress \/ ReplayReap
  PROVE  TraceInv'
<1>1. \E op \in {"STORE_RECONCILIATION", "OUTCOME", "REAP_BATCH"} : Replaying(op)
  BY DEF ReplayReconciliation, ReplayReleased, ReplayHeld, ReplayTerminal, ReplayAmbiguous,
    ReplayProgress, ReplayReap
<1>2. /\ call.op = "RECOVER" /\ Replayed.op # "SCHEDULE" /\ StoresLeft /\ UNCHANGED orphans
      /\ call \in CallRecords
  BY <1>1, ReplayIs
<1>3. ASSUME NEW w, NEW k, NEW l, ReplayWork(w, k, l), l \notin Undo PROVE BooksLeft
  BY <1>2, <1>3, BooksStay DEF ReplayWork, Goto, CallRecords
<1>4. BooksLeft
  <2>1. CASE ReplayReconciliation \/ ReplayReleased \/ ReplayHeld
    <3>1. ReplayNext(jm) \/ \E p : ReplayNext(Marked(p))
      BY <2>1 DEF ReplayReconciliation, ReplayReleased, ReplayHeld
    <3> QED
      BY <1>2, <3>1, MarkLeaves
  <2>2. CASE ReplayTerminal
    BY <1>3, <2>2 DEF ReplayTerminal, Undo
  <2>3. CASE ReplayAmbiguous
    <3>1. CASE \E p : ReplayNext(Marked(p))
      BY <1>2, <3>1, MarkLeaves
    <3>2. CASE ReplayWork(Subject, "UNKNOWN",
                 IF lanes[Subject].life = "REROUTE_PENDING" THEN "project" ELSE "live")
      BY <1>3, <3>2 DEF Undo
    <3> QED
      BY <2>3, <3>1, <3>2 DEF ReplayAmbiguous
  <2>4. CASE ReplayProgress
    <3>1. jm' = Marked("COMMITTED") /\ pc' = "replay" /\ UNCHANGED journal /\ call'.op = "RECOVER"
      BY <1>2, <2>4 DEF ReplayProgress, Goto, CallRecords
    <3> QED
      BY <1>2, <3>1, MarkRetells, SameRetells DEF BooksLeft, DiskRetold, CopyRetold, Undo
  <2>5. CASE ReplayReap
    <3>1. UNCHANGED <<journal, jm>> /\ call'.op = call.op /\ pc' = "reapItem"
      BY <1>2, <2>5 DEF ReplayReap, Goto, CallRecords
    <3> QED
      BY <1>2, <3>1, BooksStay DEF Undo
  <2> QED
    BY <2>1, <2>2, <2>3, <2>4, <2>5
<1> QED
  BY <1>2, <1>4, LeftTraces

\* The steps on a work of an answer or a reap, and the scan, all but repairs.
LEMMA AnswersReplayedTrace ==
  ASSUME ClaimInv, ClaimInv', SettledInv, TraceInv,
         ReapItem \/ ReleaseAgain \/ ProjectReap \/ ProjectOutcome
  PROVE  TraceInv'
<1>1. pc \in {"reapItem", "refree", "project"} /\ UNCHANGED <<sched, orphans>>
  BY DEF ReapItem, ReleaseAgain, ProjectReap, ProjectOutcome, At, lostVars
<1>2. call.op = "RECOVER" /\ call \in CallRecords
  BY <1>1 DEF ClaimInv, AtStep, CallFits, Recovering, Steady, BooksTyped
<1>3. Replayed.op # "SCHEDULE"
  BY <1>1, <1>2, InRecovery DEF AtTransaction
<1>4. StoresLeft
  <2>1. CASE ReapItem \/ ProjectReap \/ ProjectOutcome
    BY <1>1, <2>1, StillLeaves DEF ReapItem, ProjectReap, ProjectOutcome, storeVars, laneVars, ledgerVars
  <2>2. CASE ReleaseAgain
    <3>1. call.w \in Holders(sched)
      BY <2>2 DEF ReleaseAgain, At, ClaimInv, AtStep, WorkKnown, OnClaim
    <3>2. OnHand /\ OnSet
      BY <2>2 DEF ReleaseAgain, Try, OnHand, OnSet
    <3> QED
      BY <1>1, <3>1, <3>2, HandLeaves
  <2> QED
    BY <2>1, <2>2
<1>5. BooksLeft
  <2>1. CASE ReapItem
    <3>1. CASE ReplayNext(Marked("COMMITTED"))
      BY <1>2, <1>3, <3>1, MarkLeaves
    <3>2. CASE \E w, l : ReplayWork(w, "FAILED", l) /\ l \notin Undo
      BY <1>2, <3>2, BooksStay DEF ReplayWork, Goto, CallRecords
    <3> QED
      BY <2>1, <3>1, <3>2 DEF ReapItem, Undo
  <2>2. CASE ReleaseAgain
    <3>1. \/ UNCHANGED <<journal, call, jm>> /\ pc' = "project"
          \/ ReplayNext(jm) \/ ReplayNext(Marked("RECOVERY_REQUIRED"))
      BY <2>2 DEF ReleaseAgain, Try, Goto
    <3> QED
      BY <1>2, <1>3, <3>1, MarkLeaves, BooksStay DEF Undo
  <2>3. CASE ProjectReap
    <3>1. \/ UNCHANGED <<journal, jm>> /\ call'.op = call.op /\ pc' = "reapItem"
          \/ ReplayNext(jm)
      BY <1>2, <2>3 DEF ProjectReap, Goto, CallRecords
    <3> QED
      BY <1>2, <1>3, <3>1, MarkLeaves, BooksStay DEF Undo
  <2>4. CASE ProjectOutcome
    <3>1. CASE RecoveryPhaseFails
      BY <1>2, <1>3, <3>1, RecoveryFailsLeaves
    <3>2. CASE UNCHANGED journal /\ pc' = "replay" /\ call'.op = "RECOVER" /\ \E p : jm' = Marked(p)
      BY <1>2, <1>3, <3>2, MarkRetells, SameRetells DEF BooksLeft, DiskRetold, CopyRetold, Undo
    <3>3. \/ RecoveryPhaseFails
          \/ UNCHANGED journal /\ pc' = "replay" /\ call'.op = "RECOVER" /\ \E p : jm' = Marked(p)
      BY <1>2, <2>4 DEF ProjectOutcome, Goto, CallRecords
    <3> QED
      BY <3>1, <3>2, <3>3
  <2> QED
    BY <2>1, <2>2, <2>3, <2>4
<1> QED
  BY <1>1, <1>2, <1>4, <1>5, LeftTraces

LEMMA ScanTraces ==
  ASSUME ClaimInv, ClaimInv', SettledInv, TraceInv,
         StartScan \/ Repaired \/ \E w \in Works : ScanHealthy(w) \/ ScanRepair(w)
  PROVE  TraceInv'
<1>1. /\ pc \in {"replay", "scan", "repaired"}
      /\ UNCHANGED <<lanes, reserved, sched, orphans>>
  BY DEF StartScan, Repaired, ScanHealthy, ScanRepair, At, lostVars, storeVars, laneVars, ledgerVars
<1>2. call.op = "RECOVER" /\ call \in CallRecords /\ jm \in Seq(Transactions) /\ jm' \in Seq(Transactions)
  BY <1>1 DEF ClaimInv, AtStep, CallFits, Recovering, Steady, BooksTyped
<1>3. ASSUME pc' # "idle", pc' \notin Undo, call'.op = call.op, journal' = Pending(jm'),
             \A w : Retells(jm, jm', w)
      PROVE  BooksLeft
  <2>1. \A w : Retells(jm, journal', w)
    BY <1>2, <1>3, PendingRetells, RetellsTwice
  <2> QED
    BY <1>2, <1>3, <2>1 DEF BooksLeft, DiskRetold, CopyRetold
<1>4. BooksLeft
  <2>1. CASE StartScan \/ \E w \in Works : ScanHealthy(w)
    <3>1. UNCHANGED <<journal, jm>> /\ call'.op = call.op /\ pc' \notin Undo
      BY <1>1, <1>2, <2>1 DEF StartScan, ScanHealthy, Goto, CallRecords, Undo
    <3> QED
      BY <1>2, <3>1, BooksStay
  <2>2. CASE Repaired
    <3>1. CASE RepairFails
      BY <1>2, <2>2, <3>1, InRecovery, RepairFailsLeaves DEF Repaired, At, AtTransaction
    <3>2. CASE /\ jm' = Marked("COMMITTED") /\ journal' = Pending(jm') /\ pc' = "scan"
               /\ call' = [call EXCEPT !.left = @ \ {call.w}, !.w = "NONE", !.kind = "NONE", !.changed = TRUE]
      <4>1. Replayed.op # "SCHEDULE"
        BY <1>2, <2>2, InRecovery DEF Repaired, At, AtTransaction
      <4>2. \A w : Retells(jm, jm', w)
        BY <3>2, <4>1, MarkRetells
      <4>3. call'.op = call.op /\ pc' \notin Undo
        BY <1>2, <3>2 DEF CallRecords, Undo
      <4> QED
        BY <1>3, <3>2, <4>2, <4>3
    <3> QED
      BY <2>2, <3>1, <3>2 DEF Repaired, Try, Goto
  <2>3. ASSUME NEW w \in Works, ScanRepair(w) PROVE BooksLeft
    <3>1. CASE EndCall(journal)
      BY <3>1, StopLeaves
    <3>2. CASE /\ \E t : jm' = Append(jm, t)
               /\ journal' = Pending(jm') /\ pc' \in {"live", "compensate"} /\ call'.op = call.op
      <4>1. PICK t : jm' = Append(jm, t)
        BY <3>2
      <4>2. \A i \in DOMAIN jm : i \in DOMAIN jm' /\ jm'[i] = jm[i]
        BY <1>2, <4>1
      <4>3. \A v : Retells(jm, jm', v)
        BY <4>2 DEF Retells
      <4> QED
        BY <1>3, <3>2, <4>3 DEF Undo
    <3>3. \/ EndCall(journal)
          \/ /\ \E t : jm' = Append(jm, t)
             /\ journal' = Pending(jm') /\ pc' \in {"live", "compensate"} /\ call'.op = call.op
      BY <1>2, <2>3 DEF ScanRepair, Try, Goto, CallRecords
    <3> QED
      BY <3>1, <3>2, <3>3
  <2> QED
    BY <2>1, <2>2, <2>3
<1> QED
  BY <1>1, <1>2, <1>4, StillLeaves, LeftTraces

LEMMA CompensateTraces ==
  ASSUME ClaimInv, ClaimInv', SettledInv, TraceInv, Compensate
  PROVE  TraceInv'
<1>1. pc \in Compensating /\ UNCHANGED <<sched, orphans>>
  BY DEF Compensate, CompensateExpire, CompensateSettle, CompensateReclaim, Terminalize,
    CompensateRelease, CompensateFree, At, lostVars, Compensating
<1>2. /\ call.op = "RECOVER" /\ call \in CallRecords /\ call.w \in Holders(sched)
      /\ Replayed.op # "SCHEDULE"
  <2>1. call.op = "RECOVER" /\ call \in CallRecords /\ call.w \in Holders(sched)
    BY <1>1 DEF ClaimInv, AtStep, CallFits, WorkKnown, OnClaim, Recovering, Steady, BooksTyped
  <2> QED
    BY <1>1, <2>1, InRecovery DEF AtTransaction
<1>3. OnHand /\ OnSet
  <2>1. CASE CompensateExpire \/ CompensateSettle \/ CompensateReclaim \/ Terminalize \/ CompensateRelease
    <3>1. OnHand
      BY <2>1 DEF CompensateExpire, CompensateSettle, CompensateReclaim, Terminalize,
        CompensateRelease, Try, OnHand
    <3>2. UNCHANGED ledgerVars
      BY <2>1 DEF CompensateExpire, CompensateSettle, CompensateReclaim, Terminalize, CompensateRelease
    <3> QED
      BY <3>1, <3>2 DEF OnSet
  <2>2. CASE CompensateFree
    BY <2>2 DEF CompensateFree, Try, OnHand, OnSet
  <2> QED
    BY <2>1, <2>2 DEF Compensate
<1>4. RepairFails \/ (UNCHANGED <<journal, call, jm>> /\ pc' \notin Undo)
  <2>1. pc \notin Undo
    BY <1>1 DEF Compensating, Undo
  <2> QED
    BY <2>1 DEF Compensate, CompensateExpire, CompensateSettle, CompensateReclaim, Terminalize,
      CompensateRelease, CompensateFree, Try, Goto, Undo
<1>5. BooksLeft
  BY <1>2, <1>4, RepairFailsLeaves, BooksStay
<1> QED
  BY <1>1, <1>2, <1>3, <1>5, HandLeaves, LeftTraces

LEMMA SaveRecoveryTraces ==
  ASSUME ClaimInv, ClaimInv', TraceInv, SaveRecovery \/ SaveRecoveredJournal
  PROVE  TraceInv'
<1>1. /\ pc \in {"scan", "saveJournal"} /\ UNCHANGED <<lanes, reserved, orphans>>
      /\ sched' = sched \/ sched' = mem
  BY DEF SaveRecovery, SaveRecoveredJournal, Try, At, lostVars, storeVars, laneVars, ledgerVars
<1>2. call.op = "RECOVER" /\ jm \in Seq(Transactions)
  BY <1>1 DEF ClaimInv, AtStep, CallFits, Recovering, Steady, BooksTyped
<1>3. \A w \in Works : sched'[w].place = "NONE" => sched[w].place = "NONE"
  BY <1>1, <1>2 DEF ClaimInv, Steady, BooksTyped, Entries, Places, CopyFollows, MayBecome
<1>4. StoresLeft
  BY <1>1, <1>3 DEF StoresLeft
<1>5. \/ EndCall(journal) \/ EndCall(jm)
      \/ UNCHANGED <<journal, call, jm>> /\ pc' = "saveJournal"
  BY DEF SaveRecovery, SaveRecoveredJournal, Try, Goto
<1>6. BooksLeft
  BY <1>2, <1>5, StopLeaves, SameRetells, EndLeaves, BooksStay DEF Undo
<1> QED
  BY <1>1, <1>2, <1>4, <1>6, LeftTraces

-----------------------------------------------------------------------------
(* Edits of one transaction.                                               *)

LEMMA EditedNames ==
  ASSUME NEW j \in Seq(Transactions), NEW i \in DOMAIN j, NEW t, NEW w
  PROVE  /\ \A r : NamesSet(j, w, r) /\ (Names(j[i], w) /\ j[i].res = r => Names(t, w) /\ t.res = r)
                     => NamesSet([j EXCEPT ![i] = t], w, r)
         /\ \A f : NamesLease(j, w, f) /\ (Names(j[i], w) /\ j[i].lease = f => Names(t, w) /\ t.lease = f)
                     => NamesLease([j EXCEPT ![i] = t], w, f)
         /\ Names(t, w) => NamesSet([j EXCEPT ![i] = t], w, t.res)
                           /\ NamesLease([j EXCEPT ![i] = t], w, t.lease)
<1> DEFINE k == [j EXCEPT ![i] = t]
<1>1. DOMAIN k = DOMAIN j /\ k[i] = t /\ \A n \in DOMAIN j : n # i => k[n] = j[n]
  OBVIOUS
<1> HIDE DEF k
<1>2. ASSUME NEW r, NamesSet(j, w, r), Names(j[i], w) /\ j[i].res = r => Names(t, w) /\ t.res = r
      PROVE  NamesSet(k, w, r)
  <2>1. PICK n \in DOMAIN j : Names(j[n], w) /\ j[n].res = r
    BY <1>2 DEF NamesSet
  <2> QED
    BY <1>1, <1>2, <2>1 DEF NamesSet
<1>3. ASSUME NEW f, NamesLease(j, w, f), Names(j[i], w) /\ j[i].lease = f => Names(t, w) /\ t.lease = f
      PROVE  NamesLease(k, w, f)
  <2>1. PICK n \in DOMAIN j : Names(j[n], w) /\ j[n].lease = f
    BY <1>3 DEF NamesLease
  <2> QED
    BY <1>1, <1>3, <2>1 DEF NamesLease
<1>4. Names(t, w) => NamesSet(k, w, t.res) /\ NamesLease(k, w, t.lease)
  BY <1>1 DEF NamesSet, NamesLease
<1> QED
  BY <1>2, <1>3, <1>4 DEF k

LEMMA EditedBegun ==
  ASSUME journal \in Seq(Transactions), NEW w, Registered(w), NEW t \in Transactions, t.works = <<w>>,
         journal' = [journal EXCEPT ![Mine(<<w>>)] = t], journal' \in Seq(Transactions)
  PROVE  Begun(w)' = t /\ \A v : v # w /\ Registered(v) => Begun(v)' = Begun(v)
<1> DEFINE k == Mine(<<w>>)
<1>1. k \in DOMAIN journal /\ journal[k].works = <<w>>
  BY MineIsThere
<1> HIDE DEF k
<1>2. /\ DOMAIN journal' = DOMAIN journal /\ journal'[k] = t
      /\ \A n \in DOMAIN journal : n # k => journal'[n] = journal[n]
  BY <1>1 DEF k
<1>3. \A n \in DOMAIN journal : journal'[n].works = journal[n].works
  BY <1>1, <1>2
<1>4. ASSUME NEW v, Registered(v)
      PROVE  /\ Mine(<<v>>)' = Mine(<<v>>) /\ Mine(<<v>>) \in DOMAIN journal
             /\ journal[Mine(<<v>>)].works = <<v>>
  BY <1>2, <1>3, <1>4, MineStays
<1>5. Begun(w)' = t
  BY <1>2, <1>4 DEF Begun, k
<1>6. ASSUME NEW v, v # w, Registered(v) PROVE Begun(v)' = Begun(v)
  <2>1. Mine(<<v>>)' = Mine(<<v>>) /\ Mine(<<v>>) \in DOMAIN journal /\ journal[Mine(<<v>>)].works = <<v>>
    BY <1>4, <1>6
  <2>2. Mine(<<v>>) # k
    BY <1>1, <1>6, <2>1
  <2> QED
    BY <1>2, <2>1, <2>2 DEF Begun
<1> QED
  BY <1>5, <1>6

LEMMA BegunStays ==
  ASSUME UNCHANGED journal, NEW w
  PROVE  Begun(w)' = Begun(w)
BY MineIsLatest DEF Begun

LEMMA BegunIs ==
  ASSUME ClaimInv, NEW w, Registered(w)
  PROVE  /\ Mine(<<w>>) \in DOMAIN journal /\ Begun(w) = journal[Mine(<<w>>)]
         /\ Begun(w) \in Transactions /\ Begun(w).works = <<w>>
BY MineIsThere DEF Begun, ClaimInv, Steady, BooksTyped

-----------------------------------------------------------------------------
(* scheduleEligibleSet.                                                    *)

\* What the stores hold of work w is named by transactions alone.
NamedIn(j, w) ==
  /\ reserved[w] # 0 => NamesSet(j, w, reserved[w])
  /\ lanes[w].status = "ACTIVE" => lanes[w].fence # 0 /\ NamesLease(j, w, lanes[w].fence)
Named(w) == NamedIn(journal, w)

LEMMA NamedTraces ==
  ASSUME \A w \in Works : w \in Open' => Named(w)', call'.op # "RECOVER",
         MakingTells', MadeTells', UndoTells'
  PROVE  TraceInv'
<1>1. DiskTraced'
  BY DEF DiskTraced, Named, NamedIn, Open
<1> QED
  BY <1>1 DEF TraceInv, CopyTraced

LEMMA NamedStays ==
  ASSUME NEW w, Named(w), Retells(journal, journal', w), reserved'[w] = reserved[w],
         lanes'[w].status = "ACTIVE" => lanes[w].status = "ACTIVE" /\ lanes'[w].fence = lanes[w].fence
  PROVE  Named(w)'
BY RetoldIsNamed DEF Named, NamedIn

\* Where a call knows no more than the journal.
LEMMA NothingKnown ==
  ASSUME TraceInv, pc \notin Claiming \cup Undo
         \/ pc \in {"dispatch", "dispatchEvidence"} \/ call.op # "SCHEDULE",
         NEW w \in Open
  PROVE  Named(w)
<1>1. ~KnowsSet(w) /\ ~KnowsLease(w)
  <2>1. CASE pc \notin Claiming \cup Undo \/ call.op # "SCHEDULE"
    BY <2>1 DEF KnowsSet, KnowsLease, Making
  <2>2. CASE pc \in {"dispatch", "dispatchEvidence"}
    BY <2>2 DEF TraceInv, MakingTells, KnowsSet, KnowsLease, Making, Claiming
  <2> QED
    BY <2>1, <2>2
<1> QED
  BY <1>1 DEF TraceInv, DiskTraced, Named, NamedIn

LEMMA StillOpen ==
  ASSUME UNCHANGED <<sched, orphans>>
  PROVE  Open' = Open
BY DEF Open

\* A call of a schedule ends and leaves what the journal names.
LEMMA EndTraces ==
  ASSUME NEW j \in Seq(Transactions), EndCall(j), UNCHANGED <<lanes, reserved>>,
         \A w \in Works : w \in Open' => Named(w) /\ Retells(journal, j, w)
  PROVE  TraceInv'
<1>1. journal' = Pending(j) /\ pc' = "idle" /\ call'.op = "NONE"
  BY DEF EndCall, Goto, NoCall
<1>2. ASSUME NEW w \in Works, w \in Open' PROVE Named(w)'
  BY <1>1, <1>2, PendingRetells, RetellsTwice, NamedStays
<1>3. MakingTells' /\ MadeTells' /\ UndoTells'
  BY <1>1 DEF MakingTells, MadeTells, UndoTells, Claiming, Undo
<1> QED
  BY <1>1, <1>2, <1>3, NamedTraces

LEMMA ClaimsMadeAreTold ==
  ASSUME ClaimInv, TraceInv, pc \in Claiming \cup {"pick"}
  PROVE  \A i \in DOMAIN ClaimsMade : Told(ClaimsMade[i])
<1> DEFINE c == [i \in DOMAIN call.made |-> Claim(call.made[i])]
           n == Len(call.made)
<1>0. \A i \in DOMAIN call.made : Told(Claim(call.made[i]))
  BY DEF TraceInv, MadeTells
<1>1. call.made \in Seq(Works) /\ DOMAIN call.made = 1 .. n /\ n \in Nat
  BY DEF ClaimInv, Steady, BooksTyped, CallRecords
<1>3. c \in Seq({Claim(call.made[i]) : i \in 1 .. n}) /\ Len(c) = n
  BY <1>1
<1>4. ClaimsMade = [i \in 1 .. n |-> c[n - i + 1]]
  BY <1>3 DEF ClaimsMade, Reverse
<1>5. \A i \in 1 .. n : n - i + 1 \in 1 .. n /\ Told(c[n - i + 1])
  BY <1>0, <1>1
<1> HIDE DEF c, n
<1> QED
  BY <1>4, <1>5

\* Claims are taken back, the one in the making first.
LEMMA TakeBackTraces ==
  ASSUME ClaimInv, SettledInv, TraceInv, call.op = "SCHEDULE", NEW cs \in Seq(Claims), TakeBack(cs),
         UNCHANGED <<lanes, reserved, sched, orphans>>, \A i \in DOMAIN cs : Told(cs[i]),
         pc = "pick" \/ (pc \in Claiming /\ cs # <<>> /\ cs[1] = Unfinished)
  PROVE  TraceInv'
<1>1. CASE cs = <<>>
  <2>1. EndCall(journal) /\ pc = "pick" /\ journal \in Seq(Transactions)
    BY <1>1 DEF TakeBack, ClaimInv, Steady, BooksTyped
  <2>2. \A w \in Open : Named(w)
    BY <2>1, NothingKnown DEF Claiming, Undo
  <2>3. \A w \in Works : w \in Open' => w \in Open
    BY StillOpen
  <2> QED
    BY <2>1, <2>2, <2>3, SameRetells, EndTraces
<1>2. CASE cs # <<>>
  <2>1. /\ pc' = "undoLease" /\ UNCHANGED <<journal, mem, jm>>
        /\ call' = [call EXCEPT !.undo = cs, !.failed = FALSE]
    BY <1>2 DEF TakeBack, Goto
  <2>2. /\ call'.op = "SCHEDULE" /\ call'.undo = cs /\ call'.w = call.w /\ call'.res = call.res
        /\ call'.lease = call.lease
    BY <2>1, InSchedule DEF CallRecords
  <2>3. \A w : Begun(w)' = Begun(w)
    BY <2>1, BegunStays
  <2>4. pc' \in Undo /\ pc' \notin Claiming \cup {"pick", "commit", "undoReservation", "undone"}
    BY <2>1 DEF Undo, Claiming
  <2>5. UndoTells'
    BY <2>2, <2>3, <2>4 DEF UndoTells, Told
  <2>6. MakingTells' /\ MadeTells'
    BY <2>4 DEF MakingTells, MadeTells
  <2>7. pc \in Claiming => Undoing' = Unfinished'
    <3>1. pc \in Claiming => cs[1] = Unfinished
      BY DEF Claiming
    <3>2. Undoing' = cs[1] /\ Unfinished' = Unfinished
      BY <1>2, <2>2 DEF Undoing, Unfinished
    <3> QED
      BY <3>1, <3>2
  <2>8. \A w : KnowsSet(w) => KnowsSet(w)'
    <3>1. \A w : Making(w) => Making(w)'
      <4>1. pc \notin Undo
        BY DEF Claiming, Undo
      <4> QED
        BY <2>2, <2>3, <2>4, <2>7, <4>1 DEF Making
    <3> QED
      BY <2>2, <2>3, <3>1 DEF KnowsSet
  <2>9. \A w : KnowsLease(w) => KnowsLease(w)'
    <3>1. \A w : Making(w) => Making(w)'
      <4>1. pc \notin Undo
        BY DEF Claiming, Undo
      <4> QED
        BY <2>2, <2>3, <2>4, <2>7, <4>1 DEF Making
    <3> QED
      BY <2>2, <2>3, <3>1 DEF KnowsLease
  <2>10. DiskTraced'
    BY <2>1, <2>8, <2>9, StillOpen DEF TraceInv, DiskTraced
  <2> QED
    BY <2>2, <2>5, <2>6, <2>10 DEF TraceInv, CopyTraced
<1> QED
  BY <1>1, <1>2

LEMMA ClaimFailsTraces ==
  ASSUME ClaimInv, SettledInv, TraceInv, pc \in Claiming, ClaimFails,
         UNCHANGED <<lanes, reserved, sched, orphans>>
  PROVE  TraceInv'
<1> DEFINE cs == <<Unfinished>> \o ClaimsMade
<1>1. call.op = "SCHEDULE" /\ ClaimsMade \in Seq(Claims)
  BY ClaimsMadeAreRegistered
<1>2. \A i \in DOMAIN ClaimsMade : Told(ClaimsMade[i])
  BY ClaimsMadeAreTold
<1>3. Unfinished \in Claims
  BY <1>1, InSchedule DEF Unfinished, Claims, CallRecords
<1>4. Told(Unfinished)
  BY DEF TraceInv, MakingTells, Told, Unfinished
<1>5. cs \in Seq(Claims) /\ cs # <<>> /\ cs[1] = Unfinished /\ \A i \in DOMAIN cs : Told(cs[i])
  <2> HIDE DEF Unfinished, ClaimsMade
  <2> QED
    BY <1>1, <1>2, <1>3, <1>4
<1> HIDE DEF cs
<1>6. TakeBack(cs)
  BY DEF ClaimFails, cs
<1> QED
  BY <1>1, <1>5, <1>6, TakeBackTraces

\* The claims made so far are as the journal was told.
LEMMA MadeStay ==
  ASSUME TraceInv, pc \in Claiming \cup {"pick"}, pc' # "commit", call'.made = call.made, mem' = mem,
         \A i \in DOMAIN call.made : \A w : w = call.made[i] => Begun(w)' = Begun(w)
  PROVE  MadeTells'
BY DEF TraceInv, MadeTells, Told, Claim

LEMMA MadeAreOthers ==
  ASSUME ClaimInv, SettledInv, pc \in Claiming
  PROVE  \A i \in DOMAIN call.made : Registered(call.made[i]) /\ call.made[i] # call.w
BY DEF ClaimInv, AtStep, CallFits, ClaimFits, SettledInv, ScheduleSettles

LEMMA StartScheduleTraces ==
  ASSUME ClaimInv, TraceInv, NEW b \in Batches, StartSchedule(b)
  PROVE  TraceInv'
<1>1. /\ pc = "idle" /\ pc' = "pick" /\ UNCHANGED <<lanes, reserved, sched, journal, orphans>>
      /\ call' = [NoCall EXCEPT !.op = "SCHEDULE", !.todo = b]
  BY DEF StartSchedule, Begin, Goto, storeVars, laneVars, ledgerVars, lostVars
<1>2. call'.op = "SCHEDULE" /\ call'.made = <<>>
  BY <1>1 DEF NoCall
<1>3. \A w \in Open : Named(w)
  BY <1>1, NothingKnown DEF Claiming, Undo
<1>4. \A w \in Works : w \in Open' => Named(w)'
  BY <1>1, <1>3, StillOpen, SameRetells, NamedStays
<1>5. MakingTells' /\ MadeTells' /\ UndoTells'
  BY <1>1, <1>2 DEF MakingTells, MadeTells, UndoTells, Claiming, Undo
<1> QED
  BY <1>2, <1>4, <1>5, NamedTraces

LEMMA SkipTraces ==
  ASSUME ClaimInv, SettledInv, TraceInv, Skip
  PROVE  TraceInv'
<1>1. /\ pc = "pick" /\ pc' = "pick" /\ call' = [call EXCEPT !.todo = Tail(@)]
      /\ UNCHANGED <<lanes, reserved, sched, journal, mem, orphans>> /\ call.op = "SCHEDULE"
  BY DEF Skip, At, lostVars, storeVars, laneVars, ledgerVars, ClaimInv, AtStep, CallFits
<1>2. call'.op = "SCHEDULE" /\ call'.made = call.made
  BY <1>1, InSchedule DEF CallRecords
<1>3. \A w \in Works : w \in Open' => Named(w)'
  <2>1. \A w \in Open : Named(w)
    BY <1>1, NothingKnown DEF Claiming, Undo
  <2> QED
    BY <1>1, <2>1, StillOpen, SameRetells, NamedStays
<1>4. MadeTells'
  BY <1>1, <1>2, BegunStays, MadeStay
<1>5. MakingTells' /\ UndoTells'
  BY <1>1 DEF MakingTells, UndoTells, Claiming, Undo
<1> QED
  BY <1>2, <1>3, <1>4, <1>5, NamedTraces

LEMMA BeginTransactionTraces ==
  ASSUME ClaimInv, SettledInv, TraceInv, BeginTransaction
  PROVE  TraceInv'
<1>1. /\ pc = "pick" /\ call.op = "SCHEDULE" /\ UNCHANGED <<lanes, reserved, sched, orphans>>
      /\ call.todo # <<>> /\ ~Blocked(Head(call.todo))
  BY DEF BeginTransaction, At, lostVars, storeVars, laneVars, ledgerVars, ClaimInv, AtStep, CallFits
<1>2. CASE TakeBack(ClaimsMade)
  BY <1>1, <1>2, ClaimsMadeAreRegistered, ClaimsMadeAreTold, TakeBackTraces
<1>3. ASSUME NEW w, w = Head(call.todo),
             journal' = Append(journal, Transaction("SCHEDULE", <<w>>, "NONE", 0)),
             pc' = "reserve", UNCHANGED <<mem, jm>>,
             call' = [call EXCEPT !.w = w, !.todo = Tail(@), !.res = 0, !.lease = 0]
      PROVE  TraceInv'
  <2> DEFINE t == Transaction("SCHEDULE", <<w>>, "NONE", 0)
  <2>1. call.todo \in Seq(Works) /\ call \in CallRecords /\ journal \in Seq(Transactions)
    BY <1>1, InSchedule DEF CallRecords
  <2>2. w \in Works /\ mem[w].place = "NONE"
    BY <1>1, <1>3, <2>1 DEF Blocked
  <2>3. t \in Transactions
    BY <2>2 DEF Transaction, Transactions, Operations, Kinds, Phases
  <2>4. t.works = <<w>> /\ t.phase = "INTENT" /\ t.op = "SCHEDULE" /\ t.res = 0 /\ t.lease = 0
    BY DEF Transaction
  <2> HIDE DEF t
  <2>5. /\ call'.op = "SCHEDULE" /\ call'.made = call.made /\ call'.w = w
        /\ call'.res = 0 /\ call'.lease = 0
    BY <1>1, <1>3, <2>1 DEF CallRecords
  <2>6. journal' = Append(journal, t)
    BY <1>3 DEF t
  <2>7. \A v \in Works : v \in Open' => Named(v)'
    <3>1. \A v \in Open : Named(v)
      BY <1>1, NothingKnown DEF Claiming, Undo
    <3>2. \A v : Retells(journal, journal', v)
      BY <2>1, <2>3, <2>6, LongerRetells
    <3> QED
      BY <1>1, <3>1, <3>2, StillOpen, NamedStays
  <2>8. MakingTells'
    <3>1. Begun(w)' = t
      BY <2>1, <2>3, <2>4, <2>6, BegunAppended
    <3> QED
      BY <1>3, <2>4, <2>5, <3>1 DEF MakingTells
  <2>9. MadeTells'
    <3>1. \A i \in DOMAIN call.made : Registered(call.made[i]) /\ mem[call.made[i]].place # "NONE"
      BY <1>1 DEF SettledInv, ScheduleSettles
    <3>2. ASSUME NEW i \in DOMAIN call.made, NEW v, v = call.made[i] PROVE Begun(v)' = Begun(v)
      <4>1. t.works # <<v>> /\ Registered(v)
        BY <2>2, <2>4, <3>1, <3>2
      <4> QED
        BY <2>1, <2>3, <2>6, <4>1, BegunAppended
    <3> QED
      BY <1>1, <1>3, <2>5, <3>2, MadeStay
  <2>10. UndoTells'
    BY <1>3 DEF UndoTells, Undo
  <2> QED
    BY <2>5, <2>7, <2>8, <2>9, <2>10, NamedTraces
<1> QED
  BY <1>2, <1>3 DEF BeginTransaction, Try, Goto

LEMMA AcquireReservationTraces ==
  ASSUME ClaimInv, SettledInv, TraceInv, AcquireReservation
  PROVE  TraceInv'
<1> DEFINE w == call.w
<1>1. /\ pc = "reserve" /\ pc \in Claiming /\ call.op = "SCHEDULE"
      /\ UNCHANGED <<lanes, sched, orphans>>
  BY DEF AcquireReservation, At, lostVars, laneVars, Claiming, ClaimInv, AtStep, CallFits
<1>2. CASE ClaimFails /\ UNCHANGED ledgerVars
  BY <1>1, <1>2, ClaimFailsTraces DEF ledgerVars
<1>3. CASE Reserve(call.w) /\ pc' = "noteReservation" /\ UNCHANGED <<journal, mem, jm>>
           /\ call' = [call EXCEPT !.res = reserved'[call.w]]
  <2>1. /\ call'.op = call.op /\ call'.w = w /\ call'.lease = call.lease
        /\ call'.made = call.made /\ call'.res = reserved'[w]
    BY <1>1, <1>3, InSchedule DEF CallRecords
  <2>2. \A v \in Works \ {w} : reserved'[v] = reserved[v]
    BY <1>3 DEF Reserve, ledgerVars, ClaimInv, Steady, StoresTyped
  <2>3. /\ Begun(w).phase = "INTENT" /\ Begun(w).op = "SCHEDULE" /\ Begun(w).res = 0
        /\ Begun(w).lease = 0 /\ call.lease = 0
    BY <1>1 DEF TraceInv, MakingTells
  <2>4. \A v : Begun(v)' = Begun(v)
    BY <1>3, BegunStays
  <2>5. /\ Begun(w)'.phase = "INTENT" /\ Begun(w)'.op = "SCHEDULE" /\ Begun(w)'.res = 0
        /\ Begun(w)'.lease = 0
    <3> HIDE DEF w
    <3> QED
      BY <2>1, <2>3, <2>4 DEF w
  <2>6. pc' \in Claiming /\ pc' \notin Undo \cup {"pick", "commit"}
    BY <1>3 DEF Claiming, Undo
  <2>7. MakingTells'
    BY <1>1, <1>3, <2>1, <2>3, <2>5 DEF MakingTells
  <2>8. MadeTells'
    BY <1>1, <1>3, <2>1, <2>4, <2>6, MadeStay
  <2>9. UndoTells'
    BY <2>6 DEF UndoTells
  <2>10. ASSUME NEW v \in Works, v \in Open
         PROVE  /\ reserved'[v] # 0 => NamesSet(journal', v, reserved'[v]) \/ KnowsSet(v)'
                /\ lanes'[v].status = "ACTIVE" =>
                     lanes'[v].fence # 0 /\ NamesLease(journal', v, lanes'[v].fence)
    <3>1. lanes[v].status = "ACTIVE" => lanes[v].fence # 0 /\ NamesLease(journal, v, lanes[v].fence)
      BY <2>3, <2>10 DEF TraceInv, DiskTraced, KnowsLease
    <3>2. CASE v = w
      <4>1. reserved'[v] # 0 => KnowsSet(v)'
        BY <1>1, <2>1, <2>5, <2>6, <3>2 DEF KnowsSet, Making
      <4> QED
        BY <1>1, <1>3, <3>1, <4>1
    <3>3. CASE v # w
      <4>1. ~KnowsSet(v)
        BY <3>3 DEF KnowsSet, Making
      <4>2. reserved[v] # 0 => NamesSet(journal, v, reserved[v])
        BY <2>10, <4>1 DEF TraceInv, DiskTraced
      <4> QED
        BY <1>1, <1>3, <2>2, <3>1, <3>3, <4>2
    <3> QED
      BY <3>2, <3>3
  <2>11. DiskTraced'
    BY <1>1, <2>10, StillOpen DEF DiskTraced, Open
  <2> QED
    BY <1>1, <2>1, <2>7, <2>8, <2>9, <2>11 DEF TraceInv, CopyTraced
<1> QED
  BY <1>2, <1>3 DEF AcquireReservation, Try, Goto

LEMMA AcquireLaneLeaseTraces ==
  ASSUME ClaimInv, SettledInv, TraceInv, AcquireLaneLease
  PROVE  TraceInv'
<1> DEFINE w == call.w
<1>1. /\ pc = "lease" /\ pc \in Claiming /\ call.op = "SCHEDULE"
      /\ UNCHANGED <<reserved, sched, orphans>>
  BY DEF AcquireLaneLease, At, lostVars, ledgerVars, Claiming, ClaimInv, AtStep, CallFits
<1>2. CASE ClaimFails /\ UNCHANGED laneVars
  BY <1>1, <1>2, ClaimFailsTraces DEF laneVars
<1>3. ASSUME IF lanes[call.w].status = "NONE" THEN AcquireLease(call.w) ELSE UNCHANGED laneVars,
             pc' = "noteLease", call' = [call EXCEPT !.lease = lanes'[call.w].first],
             UNCHANGED <<journal, mem, jm>>
      PROVE  TraceInv'
  <2>1. /\ call'.op = call.op /\ call'.w = w /\ call'.lease = lanes'[w].first
        /\ call'.made = call.made /\ call'.res = call.res
    BY <1>1, <1>3, InSchedule DEF CallRecords
  <2>2. w \in Works /\ lanes \in [Works -> Lanes] /\ nextLeaseFence # 0
    BY <1>1, InSchedule DEF ClaimInv, Steady, StoresTyped
  <2>3. /\ \A v \in Works \ {w} : lanes'[v] = lanes[v]
        /\ lanes'[w] = lanes[w] \/ (lanes'[w].fence # 0 /\ lanes'[w].first = lanes'[w].fence)
    <3>1. CASE AcquireLease(w)
      BY <2>2, <3>1 DEF AcquireLease
    <3>2. CASE UNCHANGED laneVars
      BY <3>2 DEF laneVars
    <3> QED
      BY <1>3, <3>1, <3>2
  <2>4. /\ Begun(w).phase = "INTENT" /\ Begun(w).op = "SCHEDULE" /\ Begun(w).res = call.res
        /\ Begun(w).lease = 0 /\ call.lease = 0
    BY <1>1 DEF TraceInv, MakingTells
  <2>5. \A v : Begun(v)' = Begun(v)
    BY <1>3, BegunStays
  <2>6. /\ Begun(w)'.phase = "INTENT" /\ Begun(w)'.op = "SCHEDULE" /\ Begun(w)'.res = call.res
        /\ Begun(w)'.lease = 0
    <3> HIDE DEF w
    <3> QED
      BY <2>1, <2>4, <2>5 DEF w
  <2>7. pc' \in Claiming /\ pc' \notin Undo \cup {"pick", "commit"}
    BY <1>3 DEF Claiming, Undo
  <2>8. MakingTells'
    BY <1>1, <1>3, <2>1, <2>6 DEF MakingTells
  <2>9. MadeTells'
    BY <1>1, <1>3, <2>1, <2>5, <2>7, MadeStay
  <2>10. UndoTells'
    BY <2>7 DEF UndoTells
  <2>11. ASSUME NEW v \in Works, v \in Open
         PROVE  /\ reserved'[v] # 0 => NamesSet(journal', v, reserved'[v])
                /\ lanes'[v].status = "ACTIVE" =>
                     lanes'[v].fence # 0 /\ (NamesLease(journal', v, lanes'[v].fence) \/ KnowsLease(v)')
    <3>1. ~KnowsSet(v)
      BY <2>4 DEF KnowsSet, Making
    <3>2. reserved[v] # 0 => NamesSet(journal, v, reserved[v])
      BY <2>11, <3>1 DEF TraceInv, DiskTraced
    <3>3. lanes[v].status = "ACTIVE" => lanes[v].fence # 0 /\ NamesLease(journal, v, lanes[v].fence)
      BY <2>4, <2>11 DEF TraceInv, DiskTraced, KnowsLease
    <3>4. CASE lanes'[v] = lanes[v]
      BY <1>1, <1>3, <3>2, <3>3, <3>4
    <3>5. CASE v = w /\ lanes'[w].fence # 0 /\ lanes'[w].first = lanes'[w].fence
      <4>1. KnowsLease(v)'
        BY <1>1, <2>1, <2>6, <2>7, <3>5 DEF KnowsLease, Making
      <4> QED
        BY <1>1, <1>3, <3>2, <3>5, <4>1
    <3> QED
      BY <2>3, <3>4, <3>5
  <2>12. DiskTraced'
    BY <1>1, <2>11, StillOpen DEF DiskTraced, Open
  <2> QED
    BY <1>1, <2>1, <2>8, <2>9, <2>10, <2>12 DEF TraceInv, CopyTraced
<1> QED
  BY <1>2, <1>3 DEF AcquireLaneLease, Try, Goto

\* The transaction of the claim in the making is told of one of its fences.
LEMMA NotingTraces ==
  ASSUME ClaimInv, ClaimInv', SettledInv, TraceInv, NEW t \in Transactions,
         pc \in {"noteReservation", "noteLease"}, pc' \in {"lease", "dispatch"},
         UNCHANGED <<lanes, reserved, sched, orphans, call, mem, jm>>,
         journal' = [journal EXCEPT ![Mine(<<call.w>>)] = t],
         t.op = Begun(call.w).op, t.works = Begun(call.w).works, t.phase = Begun(call.w).phase,
         pc = "noteReservation" =>
           pc' = "lease" /\ t.res = call.res /\ t.lease = Begun(call.w).lease,
         pc = "noteLease" =>
           pc' = "dispatch" /\ t.lease = call.lease /\ t.res = Begun(call.w).res
  PROVE  TraceInv'
<1> DEFINE w == call.w
           k == Mine(<<w>>)
<1>1. /\ pc \in Claiming /\ pc' \in Claiming /\ pc' \notin Undo \cup {"pick", "commit"}
      /\ call.op = "SCHEDULE" /\ w \in Works /\ Registered(w)
  <2>1. pc \in Claiming /\ pc' \in Claiming /\ pc' \notin Undo \cup {"pick", "commit"}
    BY DEF Claiming, Undo
  <2>2. call.op = "SCHEDULE"
    BY <2>1 DEF ClaimInv, AtStep, CallFits
  <2> QED
    BY <2>1, <2>2, InSchedule
<1>2. /\ k \in DOMAIN journal /\ Begun(w) = journal[k] /\ Begun(w).works = <<w>>
      /\ journal \in Seq(Transactions) /\ journal' \in Seq(Transactions)
  BY <1>1, BegunIs DEF ClaimInv, Steady, BooksTyped
<1>3. /\ Begun(w).phase = "INTENT" /\ Begun(w).op = "SCHEDULE" /\ Begun(w).lease = 0
      /\ pc = "noteReservation" => Begun(w).res = 0 /\ call.lease = 0
      /\ pc = "noteLease" => Begun(w).res = call.res
  BY <1>1 DEF TraceInv, MakingTells
<1>4. t.op = "SCHEDULE" /\ t.works = <<w>> /\ t.phase = "INTENT" /\ Names(t, w)
  BY <1>2, <1>3 DEF Names, Pends, ClosedPhases
<1>5. Begun(w)' = t /\ \A v : v # w /\ Registered(v) => Begun(v)' = Begun(v)
  <2> HIDE DEF w
  <2> QED
    BY <1>1, <1>2, <1>4, EditedBegun DEF w
<1>6. MakingTells'
  BY <1>3, <1>4, <1>5 DEF MakingTells
<1>7. MadeTells'
  BY <1>1, <1>5, MadeAreOthers, MadeStay
<1>8. UndoTells'
  BY <1>1 DEF UndoTells
<1>9. ASSUME NEW v \in Works, v \in Open PROVE Named(v)'
  <2>1. /\ reserved[v] # 0 => NamesSet(journal, v, reserved[v]) \/ KnowsSet(v)
        /\ lanes[v].status = "ACTIVE" =>
             lanes[v].fence # 0 /\ (NamesLease(journal, v, lanes[v].fence) \/ KnowsLease(v))
    BY <1>9 DEF TraceInv, DiskTraced
  <2>2. journal' = [journal EXCEPT ![k] = t]
    OBVIOUS
  <2> HIDE DEF k
  <2>5. PICK j : j = [journal EXCEPT ![k] = t]
    OBVIOUS
  <2>6. /\ \A r : NamesSet(journal, v, r) /\ (Names(journal[k], v) /\ journal[k].res = r => Names(t, v) /\ t.res = r)
               => NamesSet(j, v, r)
        /\ \A f : NamesLease(journal, v, f) /\ (Names(journal[k], v) /\ journal[k].lease = f => Names(t, v) /\ t.lease = f)
               => NamesLease(j, v, f)
        /\ Names(t, v) => NamesSet(j, v, t.res) /\ NamesLease(j, v, t.lease)
    <3>1. /\ \A r : NamesSet(journal, v, r) /\ (Names(journal[k], v) /\ journal[k].res = r => Names(t, v) /\ t.res = r)
                 => NamesSet([journal EXCEPT ![k] = t], v, r)
          /\ \A f : NamesLease(journal, v, f) /\ (Names(journal[k], v) /\ journal[k].lease = f => Names(t, v) /\ t.lease = f)
                 => NamesLease([journal EXCEPT ![k] = t], v, f)
          /\ Names(t, v) => NamesSet([journal EXCEPT ![k] = t], v, t.res)
                            /\ NamesLease([journal EXCEPT ![k] = t], v, t.lease)
      BY <1>2, EditedNames, Zenon
    <3> QED
      BY <2>5, <3>1
  <2>3. ASSUME reserved[v] # 0 PROVE NamesSet(j, v, reserved[v])
    <3>1. CASE KnowsSet(v)
      <4>1. v = w /\ call.res = reserved[v] /\ Begun(w).res # call.res
        BY <3>1 DEF KnowsSet, Making
      <4>2. t.res = reserved[v]
        BY <1>3, <4>1
      <4> QED
        BY <1>4, <2>6, <4>1, <4>2
    <3>2. CASE NamesSet(journal, v, reserved[v])
      <4>1. Names(journal[k], v) /\ journal[k].res = reserved[v] => Names(t, v) /\ t.res = reserved[v]
        <5>1. Names(journal[k], v) => v = w
          BY <1>2 DEF Names
        <5> QED
          BY <1>2, <1>3, <1>4, <2>3, <5>1
      <4> QED
        BY <2>6, <3>2, <4>1
    <3> QED
      BY <2>1, <2>3, <3>1, <3>2
  <2>4. ASSUME lanes[v].status = "ACTIVE"
        PROVE  lanes[v].fence # 0 /\ NamesLease(j, v, lanes[v].fence)
    <3>0. lanes[v].fence # 0
      BY <2>1, <2>4
    <3>1. CASE KnowsLease(v)
      <4>1. v = w /\ call.lease = lanes[v].fence
        BY <3>1 DEF KnowsLease, Making
      <4>2. t.lease = lanes[v].fence
        BY <1>3, <3>0, <4>1
      <4> QED
        BY <1>4, <2>6, <3>0, <4>1, <4>2
    <3>2. CASE NamesLease(journal, v, lanes[v].fence)
      <4>1. Names(journal[k], v) /\ journal[k].lease = lanes[v].fence =>
              Names(t, v) /\ t.lease = lanes[v].fence
        <5>1. Names(journal[k], v) => v = w
          BY <1>2 DEF Names
        <5> QED
          BY <1>2, <1>3, <3>0, <5>1
      <4> QED
        BY <2>6, <3>0, <3>2, <4>1
    <3> QED
      BY <2>1, <2>4, <3>1, <3>2
  <2> QED
    BY <2>2, <2>3, <2>4, <2>5 DEF Named, NamedIn
<1>10. \A v \in Works : v \in Open' => Named(v)'
  BY <1>9, StillOpen
<1> QED
  BY <1>1, <1>6, <1>7, <1>8, <1>10, NamedTraces

LEMMA NoteReservationTraces ==
  ASSUME ClaimInv, ClaimInv', SettledInv, TraceInv, NoteReservation
  PROVE  TraceInv'
<1>1. /\ pc = "noteReservation" /\ pc \in Claiming /\ call.op = "SCHEDULE"
      /\ UNCHANGED <<lanes, reserved, sched, orphans>>
  BY DEF NoteReservation, At, lostVars, storeVars, laneVars, ledgerVars, Claiming, ClaimInv, AtStep, CallFits
<1>2. CASE ClaimFails
  BY <1>1, <1>2, ClaimFailsTraces
<1>3. CASE journal' = [journal EXCEPT ![Mine(<<call.w>>)].res = call.res] /\ pc' = "lease"
           /\ UNCHANGED <<call, mem, jm>>
  <2> DEFINE b == Begun(call.w)
             t == [b EXCEPT !.res = call.res]
  <2>1. b \in Transactions /\ call.res \in Nat
    BY <1>1, InSchedule, BegunIs DEF CallRecords
  <2>2. journal' = [journal EXCEPT ![Mine(<<call.w>>)] = t]
    BY <1>3 DEF Begun
  <2> HIDE DEF b
  <2>3. /\ t \in Transactions /\ t.op = b.op /\ t.works = b.works /\ t.phase = b.phase
        /\ t.res = call.res /\ t.lease = b.lease
    BY <2>1 DEF Transactions
  <2> HIDE DEF t
  <2> QED
    BY <1>1, <1>3, <2>2, <2>3, NotingTraces DEF b
<1> QED
  BY <1>2, <1>3 DEF NoteReservation, Try, Goto

LEMMA NoteLeaseTraces ==
  ASSUME ClaimInv, ClaimInv', SettledInv, TraceInv, NoteLease
  PROVE  TraceInv'
<1>1. /\ pc = "noteLease" /\ pc \in Claiming /\ call.op = "SCHEDULE"
      /\ UNCHANGED <<lanes, reserved, sched, orphans>>
  BY DEF NoteLease, At, lostVars, storeVars, laneVars, ledgerVars, Claiming, ClaimInv, AtStep, CallFits
<1>2. CASE ClaimFails
  BY <1>1, <1>2, ClaimFailsTraces
<1>3. CASE journal' = [journal EXCEPT ![Mine(<<call.w>>)].lease = call.lease] /\ pc' = "dispatch"
           /\ UNCHANGED <<call, mem, jm>>
  <2> DEFINE b == Begun(call.w)
             t == [b EXCEPT !.lease = call.lease]
  <2>1. b \in Transactions /\ call.lease \in Nat
    BY <1>1, InSchedule, BegunIs DEF CallRecords
  <2>2. journal' = [journal EXCEPT ![Mine(<<call.w>>)] = t]
    BY <1>3 DEF Begun
  <2> HIDE DEF b
  <2>3. /\ t \in Transactions /\ t.op = b.op /\ t.works = b.works /\ t.phase = b.phase
        /\ t.res = b.res /\ t.lease = call.lease
    BY <2>1 DEF Transactions
  <2> HIDE DEF t
  <2> QED
    BY <1>1, <1>3, <2>2, <2>3, NotingTraces DEF b
<1> QED
  BY <1>2, <1>3 DEF NoteLease, Try, Goto

LEMMA DispatchTraces ==
  ASSUME ClaimInv, SettledInv, TraceInv, Dispatch
  PROVE  TraceInv'
<1>1. /\ pc = "dispatch" /\ pc \in Claiming /\ call.op = "SCHEDULE"
      /\ UNCHANGED <<reserved, sched, orphans>>
  BY DEF Dispatch, At, lostVars, ledgerVars, Claiming, ClaimInv, AtStep, CallFits
<1>2. CASE ClaimFails /\ UNCHANGED laneVars
  BY <1>1, <1>2, ClaimFailsTraces DEF laneVars
<1>3. ASSUME IF IsRepeatedDispatch THEN UNCHANGED laneVars
             ELSE CheckpointLane(call.w, call.lease, "PROVIDER_DISPATCHED", call.res),
             pc' = "dispatchEvidence", UNCHANGED <<journal, call, mem, jm>>
      PROVE  TraceInv'
  <2>1. call.w \in Works /\ lanes \in [Works -> Lanes]
    BY <1>1, InSchedule DEF ClaimInv, Steady, StoresTyped
  <2>2. \A v \in Works : lanes'[v].status = lanes[v].status /\ lanes'[v].fence = lanes[v].fence
    <3>1. CASE UNCHANGED laneVars
      BY <3>1 DEF laneVars
    <3>2. CASE CheckpointLane(call.w, call.lease, "PROVIDER_DISPATCHED", call.res)
      <4>1. lanes' = [lanes EXCEPT ![call.w] = [[[lanes[call.w] EXCEPT !.life = "PROVIDER_DISPATCHED"]
                        EXCEPT !.seq = @ + 1] EXCEPT !.under = call.res]]
        BY <2>1, <3>2 DEF CheckpointLane
      <4>2. lanes[call.w] \in Lanes
        BY <2>1
      <4>3. lanes'[call.w].status = lanes[call.w].status /\ lanes'[call.w].fence = lanes[call.w].fence
        BY <2>1, <4>1, <4>2 DEF Lanes
      <4>4. \A v \in Works \ {call.w} : lanes'[v] = lanes[v]
        BY <2>1, <4>1
      <4> QED
        BY <4>3, <4>4
    <3> QED
      BY <1>3, <3>1, <3>2
  <2>3. \A v : Begun(v)' = Begun(v)
    BY <1>3, BegunStays
  <2>4. pc' \in Claiming /\ pc' \notin Undo \cup {"pick", "commit"}
    BY <1>3 DEF Claiming, Undo
  <2>5. MakingTells'
    BY <1>1, <1>3, <2>3 DEF TraceInv, MakingTells
  <2>6. MadeTells'
    BY <1>1, <1>3, <2>3, <2>4, MadeStay
  <2>7. UndoTells'
    BY <2>4 DEF UndoTells
  <2>8. \A v \in Works : v \in Open' => Named(v)'
    <3>1. \A v \in Open : Named(v)
      BY <1>1, NothingKnown
    <3> QED
      BY <1>1, <1>3, <2>2, <3>1, StillOpen, SameRetells, NamedStays
  <2> QED
    BY <1>1, <1>3, <2>5, <2>6, <2>7, <2>8, NamedTraces
<1> QED
  BY <1>2, <1>3 DEF Dispatch, Try, Goto

LEMMA DispatchEvidenceTraces ==
  ASSUME ClaimInv, SettledInv, TraceInv, DispatchEvidence
  PROVE  TraceInv'
<1> DEFINE w == call.w
           e == [NoEntry EXCEPT !.place = "ACTIVE", !.lease = call.lease, !.res = call.res,
                   !.life = "PROVIDER_DISPATCHED", !.ev = <<lanes[w].fence, lanes[w].seq>>]
<1>1. /\ pc = "dispatchEvidence" /\ pc \in Claiming /\ call.op = "SCHEDULE"
      /\ UNCHANGED <<lanes, reserved, sched, orphans>>
  BY DEF DispatchEvidence, At, lostVars, laneVars, ledgerVars, Claiming, ClaimInv, AtStep, CallFits
<1>2. CASE ClaimFails /\ UNCHANGED evidence
  BY <1>1, <1>2, ClaimFailsTraces
<1>3. ASSUME mem' = [mem EXCEPT ![w] = e], pc' = "pick",
             call' = [call EXCEPT !.made = Append(@, w)], UNCHANGED <<journal, jm>>
      PROVE  TraceInv'
  <2>1. w \in Works /\ mem[w].place = "NONE" /\ call \in CallRecords /\ mem \in [Works -> Entries]
    BY <1>1, InSchedule DEF ClaimInv, Steady, BooksTyped
  <2>2. call'.op = "SCHEDULE" /\ call'.made = Append(call.made, w) /\ call.made \in Seq(Works)
    BY <1>1, <1>3, <2>1 DEF CallRecords
  <2>3. e.res = call.res /\ e.lease = call.lease
    BY DEF NoEntry
  <2> HIDE DEF e
  <2>4. mem'[w] = e /\ \A v \in Works : v # w => mem'[v] = mem[v]
    BY <1>3, <2>1
  <2>5. \A v : Begun(v)' = Begun(v)
    BY <1>3, BegunStays
  <2>6. /\ \A i \in DOMAIN call.made : Told(Claim(call.made[i]))
        /\ Begun(w).res = call.res /\ Begun(w).lease = call.lease
    BY <1>1 DEF TraceInv, MakingTells, MadeTells
  <2>7. ASSUME NEW i \in DOMAIN call'.made PROVE Told(Claim(call.made[i]))'
    <3>0. PICK v : v = call'.made[i]
      OBVIOUS
    <3>1. (i \in DOMAIN call.made /\ v = call.made[i]) \/ v = w
      BY <2>2, <3>0
    <3>2. i \in DOMAIN call.made => call.made[i] \in Works /\ call.made[i] # w
      BY <1>1, <2>2, MadeAreOthers
    <3>3. Begun(v)'.res \in {0, mem'[v].res} /\ Begun(v)'.lease \in {0, mem'[v].lease}
      <4>1. CASE v = w
        BY <2>3, <2>4, <2>5, <2>6, <4>1
      <4>2. CASE i \in DOMAIN call.made /\ v = call.made[i]
        <5>1. mem'[v] = mem[v]
          BY <2>4, <3>2, <4>2
        <5>2. Begun(v).res \in {0, mem[v].res} /\ Begun(v).lease \in {0, mem[v].lease}
          BY <2>6, <4>2 DEF Told, Claim
        <5> QED
          BY <2>5, <5>1, <5>2
      <4> QED
        BY <3>1, <4>1, <4>2
    <3> QED
      BY <3>0, <3>3 DEF Told, Claim
  <2>8. MadeTells'
    BY <1>3, <2>7 DEF MadeTells
  <2>9. MakingTells' /\ UndoTells'
    BY <1>3 DEF MakingTells, UndoTells, Claiming, Undo
  <2>10. \A v \in Works : v \in Open' => Named(v)'
    <3>1. \A v \in Open : Named(v)
      BY <1>1, NothingKnown
    <3> QED
      BY <1>1, <1>3, <3>1, StillOpen, SameRetells, NamedStays
  <2> QED
    BY <2>2, <2>8, <2>9, <2>10, NamedTraces
<1> QED
  BY <1>2, <1>3 DEF DispatchEvidence, Try, Goto

LEMMA SaveScheduleTraces ==
  ASSUME ClaimInv, SettledInv, TraceInv, SaveSchedule
  PROVE  TraceInv'
<1>1. /\ pc = "pick" /\ call.op = "SCHEDULE" /\ UNCHANGED <<lanes, reserved, orphans>>
  BY DEF SaveSchedule, At, lostVars, storeVars, laneVars, ledgerVars, ClaimInv, AtStep, CallFits
<1>2. CASE TakeBack(ClaimsMade) /\ UNCHANGED sched
  BY <1>1, <1>2, ClaimsMadeAreRegistered, ClaimsMadeAreTold, TakeBackTraces
<1>3. CASE sched' = mem /\ pc' = "commit" /\ UNCHANGED <<journal, call, mem, jm>>
  <2>1. \A i \in DOMAIN call.made : mem[call.made[i]].place # "NONE"
    BY <1>1 DEF SettledInv, ScheduleSettles
  <2>2. \A w \in Works : w \in Open' => w \in Open
    BY <1>1, <1>3, InSchedule DEF Open
  <2>3. \A w \in Works : w \in Open' => Named(w)'
    <3>1. \A w \in Open : Named(w)
      BY <1>1, NothingKnown DEF Claiming, Undo
    <3> QED
      BY <1>1, <1>3, <2>2, <3>1, SameRetells, NamedStays
  <2>4. MakingTells' /\ MadeTells' /\ UndoTells'
    BY <1>3, <2>1 DEF MakingTells, MadeTells, UndoTells, Claiming, Undo
  <2> QED
    BY <1>1, <1>3, <2>3, <2>4, NamedTraces
<1> QED
  BY <1>2, <1>3 DEF SaveSchedule, Try, Goto

LEMMA CommitScheduleTraces ==
  ASSUME ClaimInv, SettledInv, TraceInv, CommitSchedule
  PROVE  TraceInv'
<1>1. /\ pc = "commit" /\ call.op = "SCHEDULE" /\ UNCHANGED <<lanes, reserved, sched, orphans>>
  BY DEF CommitSchedule, At, lostVars, storeVars, laneVars, ledgerVars, ClaimInv, AtStep, CallFits
<1>2. /\ \A w \in Open : Named(w)
      /\ \A w \in Works : w \in Open' => w \in Open
      /\ journal \in Seq(Transactions)
  BY <1>1, NothingKnown, StillOpen, InSchedule DEF Claiming, Undo
<1>3. CASE EndCall(journal)
  BY <1>1, <1>2, <1>3, SameRetells, EndTraces
<1>4. ASSUME call.made # <<>>, journal' = Advanced(<<Head(call.made)>>, "COMMITTED"),
             call' = [call EXCEPT !.made = Tail(@)], UNCHANGED <<pc, mem, jm>>
      PROVE  TraceInv'
  <2> DEFINE h == Head(call.made)
             k == Mine(<<h>>)
  <2>1. call.made \in Seq(Works) /\ call \in CallRecords
    BY <1>1, InSchedule DEF CallRecords
  <2>2. /\ \A i \in DOMAIN call.made : sched[call.made[i]].place # "NONE"
        /\ \A i \in DOMAIN call.made : Registered(call.made[i])
    BY <1>1 DEF TraceInv, MadeTells, SettledInv, ScheduleSettles
  <2>3. Registered(h) /\ sched[h].place # "NONE"
    BY <1>4, <2>1, <2>2
  <2>4. call'.op = "SCHEDULE" /\ call'.made = Tail(call.made)
    BY <1>1, <1>4, <2>1 DEF CallRecords
  <2>5. \A i \in DOMAIN call'.made : i + 1 \in DOMAIN call.made /\ call'.made[i] = call.made[i + 1]
    BY <1>4, <2>1, <2>4
  <2> HIDE DEF h
  <2>6. journal[k].works = <<h>>
    BY <2>3, BegunIs DEF Begun
  <2>7. journal' = [journal EXCEPT ![k].phase = "COMMITTED"]
    BY <1>4 DEF Advanced, h
  <2> HIDE DEF k
  <2>8. ASSUME NEW v, v # h PROVE Retells(journal, journal', v)
    <3>1. ~Names(journal[k], v)
      BY <2>6, <2>8 DEF Names
    <3> QED
      BY <1>2, <2>7, <3>1, PhaseRetells
  <2>9. \A v \in Works : v \in Open' => Named(v)'
    <3>1. \A v \in Open : v # h
      BY <2>3 DEF Open
    <3> QED
      BY <1>1, <1>2, <2>8, <3>1, NamedStays
  <2>10. MakingTells' /\ MadeTells' /\ UndoTells'
    BY <1>1, <1>4, <2>2, <2>5 DEF MakingTells, MadeTells, UndoTells, Claiming, Undo
  <2> QED
    BY <2>4, <2>9, <2>10, NamedTraces
<1> QED
  BY <1>3, <1>4 DEF CommitSchedule, Try, Goto

-----------------------------------------------------------------------------
(* Claims are taken back, by the schedule or by recovery.                  *)

\* A refusal is remembered, and what is held is given up or stays.
LEMMA GivingUpTraces ==
  ASSUME ClaimInv, TraceInv, pc \in Undo, pc' \in Undo, NEW f \in BOOLEAN,
         call' = [call EXCEPT !.failed = f], UNCHANGED <<sched, orphans, journal, mem, jm>>,
         \A v \in Works :
           /\ reserved'[v] # 0 => reserved'[v] = reserved[v]
           /\ lanes'[v].status = "ACTIVE" => lanes[v].status = "ACTIVE" /\ lanes'[v].fence = lanes[v].fence,
         pc' \in {"undoReservation", "undone"} /\ ~f /\ Undoing.lease # 0 =>
           lanes'[Undoing.w].status = "RELEASED",
         pc' = "undone" /\ ~f /\ Undoing.res # 0 => reserved'[Undoing.w] = 0
  PROVE  TraceInv'
<1>1. /\ call'.op = call.op /\ call'.w = call.w /\ call'.res = call.res /\ call'.lease = call.lease
      /\ call'.undo = call.undo /\ call'.at = call.at /\ call'.failed = f
  BY DEF CallRecords, ClaimInv, Steady, BooksTyped
<1>2. /\ Undoing' = Undoing /\ Unfinished' = Unfinished /\ Replayed' = Replayed /\ Subject' = Subject
      /\ \A v : Begun(v)' = Begun(v)
  BY <1>1, BegunStays DEF Undoing, Unfinished, Replayed, Subject
<1>3. pc \notin Claiming \cup {"pick", "commit"} /\ pc' \notin Claiming \cup {"pick", "commit"}
  BY DEF Undo, Claiming
<1>4. \A v : Making(v) => Making(v)'
  BY <1>1, <1>2, <1>3 DEF Making
<1>5. MakingTells' /\ MadeTells'
  BY <1>3 DEF MakingTells, MadeTells
<1>6. UndoTells'
  BY <1>1, <1>2 DEF TraceInv, UndoTells, Told
<1>7. DiskTraced'
  <2> SUFFICES ASSUME NEW v \in Works, v \in Open
               PROVE  /\ reserved'[v] # 0 => NamesSet(journal, v, reserved'[v]) \/ KnowsSet(v)'
                      /\ lanes'[v].status = "ACTIVE" =>
                           lanes'[v].fence # 0 /\ (NamesLease(journal, v, lanes'[v].fence) \/ KnowsLease(v)')
    BY StillOpen DEF DiskTraced, Open
  <2>1. /\ reserved[v] # 0 => NamesSet(journal, v, reserved[v]) \/ KnowsSet(v)
        /\ lanes[v].status = "ACTIVE" =>
             lanes[v].fence # 0 /\ (NamesLease(journal, v, lanes[v].fence) \/ KnowsLease(v))
    BY DEF TraceInv, DiskTraced
  <2>2. KnowsSet(v) /\ reserved'[v] = reserved[v] => KnowsSet(v)'
    BY <1>1, <1>2, <1>4 DEF KnowsSet
  <2>3. KnowsLease(v) /\ lanes'[v].fence = lanes[v].fence => KnowsLease(v)'
    BY <1>1, <1>2, <1>4 DEF KnowsLease
  <2> QED
    BY <2>1, <2>2, <2>3
<1>8. CopyTraced'
  <2>1. ASSUME call.op = "RECOVER", NEW v \in Works, v \in Open
        PROVE  /\ reserved'[v] # 0 => NamesSet(jm, v, reserved'[v])
               /\ lanes'[v].status = "ACTIVE" => NamesLease(jm, v, lanes'[v].fence)
    <3>1. /\ reserved[v] # 0 => NamesSet(jm, v, reserved[v])
          /\ lanes[v].status = "ACTIVE" => NamesLease(jm, v, lanes[v].fence)
      BY <2>1 DEF TraceInv, CopyTraced
    <3> QED
      BY <2>1, <3>1
  <2> QED
    BY <1>1, <2>1, StillOpen DEF CopyTraced, Open
<1> QED
  BY <1>5, <1>6, <1>7, <1>8 DEF TraceInv

LEMMA UndoLeaseTraces ==
  ASSUME ClaimInv, TraceInv, UndoLease
  PROVE  TraceInv'
<1> DEFINE c == Undoing
<1>1. /\ pc = "undoLease" /\ pc \in Undo
      /\ UNCHANGED <<reserved, sched, orphans, journal, mem, jm>>
  BY DEF UndoLease, At, lostVars, ledgerVars, Undo
<1>2. call \in CallRecords /\ c \in Claims /\ lanes \in [Works -> Lanes]
  BY <1>1, UndoingIsNew DEF ClaimInv, Steady, StoresTyped
<1> HIDE DEF c
<1>3. PICK f \in BOOLEAN :
        /\ call' = [call EXCEPT !.failed = f] /\ pc' = "undoReservation"
        /\ \/ UNCHANGED lanes /\ (f \/ c.lease = 0 \/ lanes[c.w].status = "RELEASED")
           \/ lanes' = [lanes EXCEPT ![c.w].status = "RELEASED"]
  BY <1>2 DEF UndoLease, Try, Noting, Goto, ReleaseLease, laneVars, CallRecords, c
<1>4. c.w \in Works
  BY <1>2 DEF Claims
<1>5. \A v \in Works : lanes'[v].status = "ACTIVE" =>
        lanes[v].status = "ACTIVE" /\ lanes'[v].fence = lanes[v].fence
  <2>1. CASE lanes' = [lanes EXCEPT ![c.w].status = "RELEASED"]
    <3>1. \A v \in Works : v # c.w => lanes'[v] = lanes[v]
      BY <1>2, <2>1
    <3>2. lanes'[c.w].status = "RELEASED"
      BY <1>2, <1>4, <2>1 DEF Lanes
    <3> QED
      BY <3>1, <3>2
  <2> QED
    BY <1>3, <2>1
<1>6. ~f /\ c.lease # 0 => lanes'[c.w].status = "RELEASED"
  BY <1>2, <1>3, <1>4 DEF Lanes
<1>7. pc' \in Undo /\ pc' # "undone"
  BY <1>3 DEF Undo
<1> QED
  BY <1>1, <1>3, <1>5, <1>6, <1>7, GivingUpTraces DEF c

LEMMA UndoReservationTraces ==
  ASSUME ClaimInv, TraceInv, UndoReservation
  PROVE  TraceInv'
<1> DEFINE c == Undoing
<1>1. /\ pc = "undoReservation" /\ pc \in Undo
      /\ UNCHANGED <<lanes, sched, orphans, journal, mem, jm>>
  BY DEF UndoReservation, At, lostVars, laneVars, Undo
<1>2. call \in CallRecords /\ c \in Claims /\ reserved \in [Works -> Nat]
  BY <1>1, UndoingIsNew DEF ClaimInv, Steady, StoresTyped
<1>3. ~call.failed /\ c.lease # 0 => lanes[c.w].status = "RELEASED"
  BY <1>1 DEF TraceInv, UndoTells
<1> HIDE DEF c
<1>4. c.w \in Works
  BY <1>2 DEF Claims
<1>5. PICK f \in BOOLEAN :
        /\ call' = [call EXCEPT !.failed = f] /\ pc' = "undone" /\ (~f => ~call.failed)
        /\ \/ UNCHANGED reserved /\ (f \/ c.res = 0)
           \/ Free(c.w, c.res)
  BY <1>2 DEF UndoReservation, Try, Noting, Goto, ledgerVars, CallRecords, c
<1>6. /\ \A v \in Works : reserved'[v] # 0 => reserved'[v] = reserved[v]
      /\ ~f /\ c.res # 0 => reserved'[c.w] = 0
  BY <1>2, <1>4, <1>5 DEF Free, ledgerVars
<1>7. pc' \in Undo
  BY <1>5 DEF Undo
<1> QED
  BY <1>1, <1>3, <1>5, <1>6, <1>7, GivingUpTraces DEF c

\* The phase of a transaction is edited, of a claim that is there no more if
\* the transaction is closed.
LEMMA EditStaysNamed ==
  ASSUME NEW j \in Seq(Transactions), NEW k \in DOMAIN j, NEW p, NEW v, NamedIn(j, v),
         Names(j[k], v) /\ p \in ClosedPhases =>
           /\ reserved[v] # 0 => j[k].res # reserved[v]
           /\ lanes[v].status = "ACTIVE" => j[k].lease # lanes[v].fence
  PROVE  NamedIn([j EXCEPT ![k].phase = p], v)
<1> DEFINE t == [j[k] EXCEPT !.phase = p]
<1>1. j[k] \in Transactions
  OBVIOUS
<1>2. t.op = j[k].op /\ t.works = j[k].works /\ t.res = j[k].res /\ t.lease = j[k].lease /\ t.phase = p
  BY <1>1 DEF Transactions
<1>3. [j EXCEPT ![k].phase = p] = [j EXCEPT ![k] = t]
  OBVIOUS
<1> HIDE DEF t
<1>4. Names(j[k], v) /\ p \notin ClosedPhases => Names(t, v)
  BY <1>2 DEF Names, Pends
<1>5. /\ \A r : NamesSet(j, v, r) /\ (Names(j[k], v) /\ j[k].res = r => Names(t, v) /\ t.res = r)
               => NamesSet([j EXCEPT ![k] = t], v, r)
      /\ \A f : NamesLease(j, v, f) /\ (Names(j[k], v) /\ j[k].lease = f => Names(t, v) /\ t.lease = f)
               => NamesLease([j EXCEPT ![k] = t], v, f)
  BY EditedNames, Zenon
<1>6. NamedIn([j EXCEPT ![k] = t], v)
  BY <1>2, <1>4, <1>5 DEF NamedIn
<1> QED
  BY <1>3, <1>6

\* A call of a schedule ends with transactions that name what is held.
LEMMA EndNamedTraces ==
  ASSUME NEW j \in Seq(Transactions), EndCall(j), UNCHANGED <<lanes, reserved>>,
         \A w \in Works : w \in Open' => NamedIn(j, w)
  PROVE  TraceInv'
<1>1. journal' = Pending(j) /\ pc' = "idle" /\ call'.op = "NONE"
  BY DEF EndCall, Goto, NoCall
<1>2. ASSUME NEW w \in Works, w \in Open' PROVE Named(w)'
  <2>1. NamedIn(j, w) /\ Retells(j, journal', w)
    BY <1>1, <1>2, PendingRetells
  <2> QED
    BY <2>1, RetoldIsNamed DEF Named, NamedIn
<1>3. MakingTells' /\ MadeTells' /\ UndoTells'
  BY <1>1 DEF MakingTells, MadeTells, UndoTells, Claiming, Undo
<1> QED
  BY <1>1, <1>2, <1>3, NamedTraces

\* What only the call knew of the claim it was making is given up, or lost.
LEMMA UndoneIsNamed ==
  ASSUME ClaimInv, TraceInv, pc = "undone", call.op = "SCHEDULE", NEW v \in Open,
         ~(call.failed /\ Undoing.w = call.w /\ NotJournaled(Undoing.w) /\ v = Undoing.w)
  PROVE  Named(v)
<1>1. /\ reserved[v] # 0 => NamesSet(journal, v, reserved[v]) \/ KnowsSet(v)
      /\ lanes[v].status = "ACTIVE" =>
           lanes[v].fence # 0 /\ (NamesLease(journal, v, lanes[v].fence) \/ KnowsLease(v))
  BY DEF TraceInv, DiskTraced
<1>2. Making(v) =>
        /\ call.w = v /\ Begun(v).phase = "INTENT"
        /\ Undoing.w = v /\ Undoing.res = call.res /\ Undoing.lease = call.lease
  BY DEF Making, Claiming, Unfinished
<1>3. pc \in Undo /\ (~call.failed =>
        /\ Undoing.lease # 0 => lanes[Undoing.w].status = "RELEASED"
        /\ Undoing.res # 0 => reserved[Undoing.w] = 0)
  BY DEF TraceInv, UndoTells, Undo
<1>4. KnowsSet(v) => reserved[v] = 0
  <2> SUFFICES ASSUME KnowsSet(v), reserved[v] # 0 PROVE FALSE
    OBVIOUS
  <2>1. Making(v) /\ call.res = reserved[v] /\ Begun(v).res # call.res
    BY DEF KnowsSet
  <2>2. NotJournaled(v)
    BY <1>2, <2>1 DEF NotJournaled, Begun
  <2> QED
    BY <1>2, <1>3, <2>1, <2>2
<1>5. KnowsLease(v) /\ lanes[v].fence # 0 => lanes[v].status # "ACTIVE"
  <2> SUFFICES ASSUME KnowsLease(v), lanes[v].fence # 0, lanes[v].status = "ACTIVE" PROVE FALSE
    OBVIOUS
  <2>1. Making(v) /\ call.lease = lanes[v].fence /\ Begun(v).lease # call.lease
    BY DEF KnowsLease
  <2>2. NotJournaled(v)
    BY <1>2, <2>1 DEF NotJournaled, Begun
  <2> QED
    BY <1>2, <1>3, <2>1, <2>2
<1> QED
  BY <1>1, <1>4, <1>5 DEF Named, NamedIn

LEMMA UndoneTraces ==
  ASSUME ClaimInv, SettledInv, TraceInv, Undone
  PROVE  TraceInv'
<1> DEFINE w == Undoing.w
           k == Mine(<<w>>)
           j == [journal EXCEPT ![k].phase = UndoPhase]
           more == Tail(call.undo)
<1>1. /\ pc = "undone" /\ pc \in Undo /\ call.op = "SCHEDULE" /\ UNCHANGED <<lanes, reserved, sched>>
  BY DEF Undone, Undo, storeVars, laneVars, ledgerVars
<1>2. /\ call.undo \in Seq(Claims) /\ call.undo # <<>> /\ call \in CallRecords
      /\ journal \in Seq(Transactions) /\ AllWellFormed(journal)
  BY <1>1, InSchedule DEF ClaimInv, AtStep, CallFits, CallRecords
<1>3. \A i \in DOMAIN call.undo : Registered(call.undo[i].w) /\ Told(call.undo[i])
  BY <1>1 DEF SettledInv, ScheduleSettles, TraceInv, UndoTells
<1>4. Registered(w) /\ Told(Undoing)
  BY <1>2, <1>3 DEF Undoing
<1>5. \A v \in Works : v \in Open' => v \in Open /\ Named(v)
  <2>1. orphans' = IF call.failed /\ w = call.w /\ NotJournaled(w) THEN orphans \cup {w} ELSE orphans
    BY Zenon DEF Undone, w
  <2>2. \A v \in Works : v \in Open' =>
          /\ v \in Open
          /\ ~(call.failed /\ Undoing.w = call.w /\ NotJournaled(Undoing.w) /\ v = Undoing.w)
    BY <1>1, <2>1 DEF Open
  <2> QED
    BY <1>1, <2>2, UndoneIsNamed
<1>6. call.failed \/
        /\ Undoing.lease # 0 => lanes[w].status = "RELEASED"
        /\ Undoing.res # 0 => reserved[w] = 0
  BY <1>1 DEF TraceInv, UndoTells
<1>7. Begun(w).res \in {0, Undoing.res} /\ Begun(w).lease \in {0, Undoing.lease}
  BY <1>4 DEF Told
<1> HIDE DEF w
<1>8. k \in DOMAIN journal /\ Begun(w) = journal[k] /\ Begun(w) \in Transactions /\ Begun(w).works = <<w>>
  BY <1>4, BegunIs
<1> HIDE DEF k
<1>9. \A v \in Works : v \in Open' => NamedIn(j, v)
  <2> SUFFICES ASSUME NEW v \in Works, v \in Open' PROVE NamedIn(j, v)
    OBVIOUS
  <2>1. NamedIn(journal, v)
    BY <1>5 DEF Named
  <2>2. Names(journal[k], v) => v = w
    BY <1>8 DEF Names
  <2>3. UndoPhase \in ClosedPhases => ~call.failed
    BY DEF UndoPhase, ClosedPhases
  <2>4. lanes[v].status = "ACTIVE" => lanes[v].fence # 0
    BY <2>1 DEF NamedIn
  <2>5. Names(journal[k], v) /\ UndoPhase \in ClosedPhases =>
          /\ reserved[v] # 0 => journal[k].res # reserved[v]
          /\ lanes[v].status = "ACTIVE" => journal[k].lease # lanes[v].fence
    BY <1>6, <1>7, <1>8, <2>2, <2>3, <2>4
  <2> QED
    BY <1>2, <1>8, <2>1, <2>5, EditStaysNamed
<1>10. j \in Seq(Transactions) /\ Advanced(<<w>>, UndoPhase) = j
  <2>1. UndoPhase \in Phases \ {"RECONCILIATION_HELD"}
    BY DEF UndoPhase, Phases, ClosedPhases
  <2>2. Advanced(<<w>>, UndoPhase) = j
    BY DEF Advanced, k
  <2>3. Advanced(<<w>>, UndoPhase) \in Seq(Transactions)
    BY <1>2, <1>4, <2>1, AdvancedSettles
  <2> QED
    BY <2>2, <2>3
<1>11. CASE EndCall(journal)
  BY <1>1, <1>2, <1>5, <1>11, EndNamedTraces DEF Named
<1>12. CASE EndCall(j)
  BY <1>1, <1>9, <1>10, <1>12, EndNamedTraces
<1>13. CASE /\ journal' = j /\ pc' = "undoLease" /\ UNCHANGED <<mem, jm>>
            /\ call' = [call EXCEPT !.undo = more, !.failed = FALSE]
  <2>1. call'.op = "SCHEDULE" /\ call'.undo = Tail(call.undo)
    BY <1>1, <1>2, <1>13 DEF CallRecords
  <2>2. \A i \in DOMAIN call'.undo : i + 1 \in DOMAIN call.undo /\ call'.undo[i] = call.undo[i + 1]
    BY <1>2, <2>1
  <2>3. \A v : Registered(v) => Begun(v)'.res = Begun(v).res /\ Begun(v)'.lease = Begun(v).lease
    <3>0. PICK u : u = w
      OBVIOUS
    <3>1. PICK t : t = [Begun(u) EXCEPT !.phase = UndoPhase]
      OBVIOUS
    <3>2. journal' = [journal EXCEPT ![Mine(<<u>>)] = t]
      BY <1>8, <1>13, <3>0, <3>1 DEF k
    <3>3. /\ t \in Transactions /\ t.works = <<u>> /\ t.res = Begun(u).res
          /\ t.lease = Begun(u).lease
      BY <1>8, UndonePhase, <3>0, <3>1 DEF Transactions
    <3>4. journal' \in Seq(Transactions) /\ Registered(u)
      BY <1>4, <1>10, <1>13, <3>0
    <3>5. Begun(u)' = t /\ \A v : v # u /\ Registered(v) => Begun(v)' = Begun(v)
      BY <1>2, <3>2, <3>3, <3>4, EditedBegun
    <3>6. ASSUME NEW v, Registered(v)
          PROVE  Begun(v)'.res = Begun(v).res /\ Begun(v)'.lease = Begun(v).lease
      BY <3>3, <3>5, <3>6
    <3> QED
      BY <3>6
  <2>4. UndoTells'
    <3>1. ASSUME NEW i \in DOMAIN call'.undo, NEW c, c = call'.undo[i] PROVE Told(c)'
      <4>1. c = call.undo[i + 1] /\ i + 1 \in DOMAIN call.undo
        BY <2>2, <3>1
      <4>2. Registered(c.w) /\ Told(c)
        BY <1>3, <4>1
      <4> QED
        BY <2>3, <4>2 DEF Told
    <3>2. (\A i \in DOMAIN call.undo : Told(call.undo[i]))'
      BY <3>1
    <3> QED
      BY <1>13, <2>1, <3>2 DEF UndoTells
  <2>5. MakingTells' /\ MadeTells'
    BY <1>13 DEF MakingTells, MadeTells, Claiming
  <2>6. \A v \in Works : v \in Open' => Named(v)'
    BY <1>1, <1>9, <1>13 DEF Named, NamedIn
  <2> QED
    BY <2>1, <2>4, <2>5, <2>6, NamedTraces
<1>14. \/ EndCall(journal) \/ EndCall(j)
       \/ /\ journal' = j /\ pc' = "undoLease" /\ UNCHANGED <<mem, jm>>
          /\ call' = [call EXCEPT !.undo = more, !.failed = FALSE]
  <2> DEFINE a == Advanced(<<w>>, UndoPhase)
             Next1 == IF more = <<>> THEN EndCall(a)
                      ELSE /\ journal' = a /\ Goto("undoLease")
                           /\ call' = [call EXCEPT !.undo = more, !.failed = FALSE]
                           /\ UNCHANGED <<mem, jm>>
  <2>1. Try(TRUE, Next1, EndCall(journal))
    BY Zenon DEF Undone, w
  <2>2. Next1 \/ EndCall(journal)
    BY <2>1, Zenon DEF Try
  <2>3. a = j
    BY <1>10
  <2> HIDE DEF a, j
  <2> QED
    BY <2>2, <2>3, Zenon DEF Goto
<1> QED
  BY <1>11, <1>12, <1>13, <1>14

LEMMA ReplayScheduleTraces ==
  ASSUME ClaimInv, ClaimInv', SettledInv, TraceInv, ReplaySchedule
  PROVE  TraceInv'
<1>1. Replaying("SCHEDULE")
  BY DEF ReplaySchedule
<1>2. /\ call.op = "RECOVER" /\ Replayed.op = "SCHEDULE" /\ Replayed \in Transactions
      /\ UNCHANGED <<lanes, reserved, sched, orphans>> /\ StoresLeft
      /\ call.at \in DOMAIN jm /\ jm \in Seq(Transactions) /\ call \in CallRecords
      /\ Replayed = jm[call.at]
  BY <1>1, ReplayIs, InReplay
<1>3. CASE mem[Subject].place # "NONE" /\ ReplayNext(Marked("COMMITTED"))
  <2>1. sched[Subject].place # "NONE"
    <3>1. Subject \in Works
      BY <1>1, InReplay
    <3> QED
      BY <1>2, <1>3, <3>1 DEF ClaimInv, Steady, CopyFollows, MayBecome
  <2>2. ASSUME NEW v, sched[v].place = "NONE" PROVE Retells(jm, Marked("COMMITTED"), v)
    <3>1. ~Names(jm[call.at], v)
      BY <1>2, <2>1, <2>2 DEF Names, Subject
    <3> QED
      BY <1>2, <3>1, PhaseRetells DEF Marked
  <2>3. BooksLeft
    BY <1>2, <1>3, <2>2, ReplayLeaves
  <2> QED
    BY <1>2, <2>3, LeftTraces
<1>4. CASE /\ pc' = "undoLease"
           /\ call' = [call EXCEPT !.undo =
                <<[w |-> Subject, res |-> Replayed.res, lease |-> Replayed.lease]>>]
           /\ UNCHANGED <<journal, mem, jm>>
  <2>1. /\ call'.op = "RECOVER" /\ call'.at = call.at
        /\ call'.undo = <<[w |-> Subject, res |-> Replayed.res, lease |-> Replayed.lease]>>
    BY <1>2, <1>4 DEF CallRecords
  <2>2. Replayed' = Replayed /\ Subject' = Subject
    BY <1>4, <2>1 DEF Replayed, Subject
  <2>3. Undoing' = [w |-> Subject, res |-> Replayed.res, lease |-> Replayed.lease]
    BY <2>1 DEF Undoing
  <2>4. UndoTells'
    BY <1>4, <2>1, <2>2, <2>3 DEF UndoTells
  <2>5. MakingTells' /\ MadeTells'
    BY <1>4 DEF MakingTells, MadeTells, Claiming
  <2>6. DiskTraced' /\ CopyTraced'
    <3>1. \A v : ~KnowsSet(v) /\ ~KnowsLease(v)
      BY <1>2 DEF KnowsSet, KnowsLease, Making
    <3> QED
      BY <1>2, <1>4, <3>1, StillOpen DEF TraceInv, DiskTraced, CopyTraced
  <2> QED
    BY <2>4, <2>5, <2>6 DEF TraceInv
<1> QED
  BY <1>3, <1>4 DEF ReplaySchedule, Goto

LEMMA RecoveryUndoneTraces ==
  ASSUME ClaimInv, SettledInv, TraceInv, RecoveryUndone
  PROVE  TraceInv'
<1>1. /\ pc = "undone" /\ pc \in Undo /\ call.op = "RECOVER"
      /\ UNCHANGED <<lanes, reserved, sched, orphans>> /\ ReplayNext(Marked(UndoPhase))
  BY DEF RecoveryUndone, At, Undo, lostVars, storeVars, laneVars, ledgerVars
<1>2. /\ call.at \in DOMAIN jm /\ jm \in Seq(Transactions) /\ WellFormed(jm[call.at])
      /\ Replayed = jm[call.at] /\ Replayed.op = "SCHEDULE" /\ call \in CallRecords
  BY <1>1 DEF SettledInv, RecoverySettles, AtSettles, BooksFit, AllWellFormed, Replayed,
    ClaimInv, Steady, BooksTyped
<1>3. call'.op = "RECOVER" /\ pc' = "replay" /\ journal' = journal /\ jm' = Marked(UndoPhase)
  BY <1>1, <1>2 DEF ReplayNext, Goto, CallRecords
<1>4. /\ Undoing.w = Subject /\ Undoing.res = Replayed.res /\ Undoing.lease = Replayed.lease
      /\ ~call.failed =>
           /\ Undoing.lease # 0 => lanes[Subject].status = "RELEASED"
           /\ Undoing.res # 0 => reserved[Subject] = 0
  BY <1>1 DEF TraceInv, UndoTells
<1>5. ASSUME NEW v \in Works, v \in Open PROVE NamedIn(jm, v) /\ NamedIn(journal, v)
  <2>1. ~KnowsSet(v) /\ ~KnowsLease(v)
    BY <1>1 DEF KnowsSet, KnowsLease, Making
  <2> QED
    BY <1>1, <1>5, <2>1 DEF TraceInv, DiskTraced, CopyTraced, NamedIn
<1>6. ASSUME NEW v \in Works, v \in Open PROVE NamedIn(Marked(UndoPhase), v)
  <2>1. Names(jm[call.at], v) => v = Subject
    BY <1>2 DEF Names, Subject
  <2>2. UndoPhase \in ClosedPhases => ~call.failed
    BY DEF UndoPhase, ClosedPhases
  <2>3. lanes[v].status = "ACTIVE" => lanes[v].fence # 0
    BY <1>5, <1>6 DEF NamedIn
  <2>4. Names(jm[call.at], v) /\ UndoPhase \in ClosedPhases =>
          /\ reserved[v] # 0 => jm[call.at].res # reserved[v]
          /\ lanes[v].status = "ACTIVE" => jm[call.at].lease # lanes[v].fence
    BY <1>2, <1>4, <2>1, <2>2, <2>3
  <2> QED
    BY <1>2, <1>5, <1>6, <2>4, EditStaysNamed DEF Marked
<1>7. DiskTraced' /\ CopyTraced'
  BY <1>1, <1>3, <1>5, <1>6, StillOpen DEF DiskTraced, CopyTraced, NamedIn, Open
<1>8. MakingTells' /\ MadeTells' /\ UndoTells'
  BY <1>3 DEF MakingTells, MadeTells, UndoTells, Claiming, Undo
<1> QED
  BY <1>7, <1>8 DEF TraceInv

-----------------------------------------------------------------------------
\* The process dies: what only the call knew is lost, and counted as lost.
LEMMA CrashTraces ==
  ASSUME ClaimInv, TraceInv, Crash
  PROVE  TraceInv'
<1>1. /\ EndCall(journal) /\ orphans' = orphans \cup Unjournaled
      /\ UNCHANGED <<lanes, reserved, sched>> /\ journal \in Seq(Transactions)
  BY DEF Crash, storeVars, laneVars, ledgerVars, ClaimInv, Steady, BooksTyped
<1>2. ASSUME NEW v \in Works, v \in Open' PROVE NamedIn(journal, v)
  <2>1. v \in Open /\ v \notin Unjournaled
    BY <1>1, <1>2 DEF Open
  <2>2. Making(v) => ~NotJournaled(v)
    BY <1>2, <2>1 DEF Making, Unjournaled
  <2>3. ~KnowsSet(v) /\ ~KnowsLease(v)
    BY <2>2 DEF KnowsSet, KnowsLease, Making, NotJournaled, Begun
  <2> QED
    BY <2>1, <2>3 DEF TraceInv, DiskTraced, NamedIn
<1> QED
  BY <1>1, <1>2, EndNamedTraces

LEMMA StillTraces ==
  ASSUME TraceInv, UNCHANGED <<lanes, reserved, sched, journal, pc, call, mem, jm, orphans>>
  PROVE  TraceInv'
<1>1. \A v : Begun(v)' = Begun(v)
  BY BegunStays
<1>2. /\ Undoing' = Undoing /\ Unfinished' = Unfinished /\ Replayed' = Replayed /\ Subject' = Subject
  BY DEF Undoing, Unfinished, Replayed, Subject
<1>3. \A v : KnowsSet(v)' = KnowsSet(v) /\ KnowsLease(v)' = KnowsLease(v)
  BY <1>1, <1>2 DEF KnowsSet, KnowsLease, Making
<1>4. DiskTraced' /\ CopyTraced'
  BY <1>3, StillOpen DEF TraceInv, DiskTraced, CopyTraced
<1>5. MakingTells' /\ MadeTells' /\ UndoTells'
  BY <1>1, <1>2 DEF TraceInv, MakingTells, MadeTells, UndoTells, Told, Claim
<1> QED
  BY <1>4, <1>5 DEF TraceInv

LEMMA InitTraces == Init => TraceInv
<1> SUFFICES ASSUME Init PROVE TraceInv
  OBVIOUS
<1>1. /\ lanes = [w \in Works |-> NoLane] /\ reserved = [w \in Works |-> 0]
      /\ pc = "idle" /\ call.op = "NONE"
  BY DEF Init, LaneInit, LedgerInit, NoCall
<1>2. DiskTraced /\ CopyTraced
  BY <1>1 DEF DiskTraced, CopyTraced, Open, NoLane
<1> QED
  BY <1>1, <1>2 DEF TraceInv, MakingTells, MadeTells, UndoTells, Claiming, Undo

LEMMA StepTraces ==
  ASSUME ClaimInv, ClaimInv', SettledInv, TraceInv, [Next]_vars
  PROVE  TraceInv'
<1>1. CASE Calls
  BY <1>1, StartScheduleTraces, StartAnswerTraces, StartRecoveryTraces DEF Calls
<1>2. CASE Scheduling
  BY <1>2, SkipTraces, BeginTransactionTraces, AcquireReservationTraces, NoteReservationTraces,
    AcquireLaneLeaseTraces, NoteLeaseTraces, DispatchTraces, DispatchEvidenceTraces,
    SaveScheduleTraces, CommitScheduleTraces, UndoLeaseTraces, UndoReservationTraces,
    UndoneTraces DEF Scheduling
<1>3. CASE PhaseOutcome
  BY <1>3, PhaseOutcomeTraces
<1>4. CASE Recovery
  BY <1>4, ReplayTraces, ReplayScheduleTraces, RecoveryUndoneTraces, AnswersReplayedTrace,
    ScanTraces, CompensateTraces, SaveRecoveryTraces DEF Recovery
<1>5. CASE SaveOutcome \/ CloseTransaction \/ SaveReap \/ SupersedeHeld
  BY <1>5, SaveOutcomeTraces, CloseTransactionTraces, SaveReapTraces, SupersedeHeldTraces
<1>6. CASE (\E w \in Works : Lapse(w)) \/ UNCHANGED vars
  <2>1. UNCHANGED <<lanes, reserved, sched, journal, pc, call, mem, jm, orphans>>
    BY <1>6 DEF Lapse, LeaseLapses, vars, storeVars, laneVars, ledgerVars, lostVars
  <2> QED
    BY <2>1, StillTraces
<1>7. CASE Crash
  BY <1>7, CrashTraces
<1>8. CASE \E w \in Works, k \in Answers : StartOutcome(w, k)
  BY <1>8, StartAnswerTraces
<1> QED
  BY <1>1, <1>2, <1>3, <1>4, <1>5, <1>6, <1>7, <1>8 DEF Next, Steps

\* What a claim has in the stores before the state knows it is written under
\* its fence in the journal, or is in the hands of the call that will write it
\* there or take it back; a rollback closes its transaction only over stores
\* that hold nothing under the fences of the claim.
THEOREM TraceInvariant == Spec => []TraceInv
<1>1. ClaimInv /\ ClaimInv' /\ SettledInv /\ TraceInv /\ [Next]_vars => TraceInv'
  BY StepTraces
<1> QED
  BY InitTraces, ClaimInvariant, SettledInvariant, <1>1, PTL DEF Spec

\* Whatever died or failed, between two calls every reservation and every live
\* lease is one that a claim of the state or a pending transaction accounts
\* for, except those whose fence was lost before the journal had it
\* (scheduleEligibleSet notes each fence in its transaction after it has it).
THEOREM ClaimsStayTraceable == Spec => []ClaimsAreTraceable
<1>1. ClaimInv /\ TraceInv => ClaimsAreTraceable
  <2> SUFFICES ASSUME ClaimInv, TraceInv, pc = "idle", NEW w \in Works \ orphans,
                      reserved[w] # 0 \/ lanes[w].status = "ACTIVE", w \notin Holders(sched)
               PROVE  OpenFor(w)
    BY DEF ClaimsAreTraceable
  <2>1. sched[w].place # "RELEASED"
    BY DEF ClaimInv, Steady, Frees, HoldsNothing
  <2>2. w \in Open
    BY <2>1 DEF Open, Holders, ClaimInv, Steady, BooksTyped, Entries, Places
  <2>3. Named(w)
    BY <2>2, NothingKnown DEF Claiming, Undo
  <2>4. \E i \in DOMAIN journal : Names(journal[i], w)
    BY <2>3 DEF Named, NamedIn, NamesSet, NamesLease
  <2> QED
    BY <2>4 DEF Names, OpenFor, Mentions
<1> QED
  BY <1>1, ClaimInvariant, TraceInvariant, PTL

=============================================================================
