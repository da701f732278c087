---------------------------- MODULE SchedulerProofs ----------------------------
(***************************************************************************)
(* The claims of the eligible-set scheduler, for any works, conflicts and  *)
(* budget, and any number of deaths, failed writes and lapsing leases.     *)
(***************************************************************************)
EXTENDS SchedulerRecovery, FiniteSetTheorems, SequenceTheorems, WellFoundedInduction, TLAPS

\* The steps of a call, by what they are part of.
Claiming == {"reserve", "noteReservation", "lease", "noteLease", "dispatch", "dispatchEvidence"}
Undo == {"undoLease", "undoReservation", "undone"}
Phase == {"live", "reclaimEvidence", "targets", "checkpoint", "outcomeEvidence", "release", "free"}
Compensating == {"compensate", "terminalize", "compRelease"}
Recovering == {"replay", "refree", "project", "reapItem", "scan", "repaired", "saveJournal"}
                \cup Compensating

\* Steps about one claim that the state on disk has and that is not released.
OnClaim == Phase \cup {"apply", "refree", "project"} \cup Compensating

Reaping == call.op = "REAP_BATCH" \/ (call.op = "RECOVER" /\ Replayed.op = "REAP_BATCH")

Operations == {"SCHEDULE", "OUTCOME", "REAP_BATCH", "STORE_RECONCILIATION"}
Kinds == Answers \cup {"NONE", "RECLAIM", "COMPENSATE"}
Phases == {"INTENT", "RECOVERY_REQUIRED", "RECONCILIATION_HELD"} \cup ClosedPhases

Transactions ==
  [op : Operations, works : Seq(Works) \ {<<>>}, kind : Kinds, phase : Phases,
   res : Nat, lease : Nat]
Claims == [w : Works, res : Nat, lease : Nat]
CallRecords ==
  [op : {"NONE", "SCHEDULE", "OUTCOME", "REAP_BATCH", "RECOVER"},
   todo : Seq(Works), made : Seq(Works), w : Works \cup {"NONE"}, kind : Kinds,
   need : Nat, targets : Seq(LifecycleStates), second : BOOLEAN, res : Nat,
   lease : Nat, undo : Seq(Claims), failed : BOOLEAN, at : Nat,
   first : SUBSET Works, left : SUBSET Works, wrote : BOOLEAN, changed : BOOLEAN]
Events == [kind : {"TRANSITION", "WORKER", "PROVIDER"}, w : Works, fence : Nat, seq : Nat]

StoresTyped ==
  /\ lanes \in [Works -> Lanes] /\ nextLeaseFence \in Nat \ {0} /\ lapsed \subseteq Works
  /\ reserved \in [Works -> Nat] /\ releases \in [Works -> Nat]
  /\ nextReservationFence \in Nat \ {0}
  /\ evidence \subseteq Events
  /\ \A w \in Works : lanes[w].status = "NONE" => lanes[w] = NoLane

BooksTyped ==
  /\ sched \in [Works -> Entries] /\ mem \in [Works -> Entries]
  /\ journal \in Seq(Transactions) /\ jm \in Seq(Transactions)
  /\ call \in CallRecords

\* What a call is at, by its next step.
CallFits ==
  /\ pc \in {"idle", "pick", "commit", "apply", "close", "saveReap", "supersede"}
              \cup Claiming \cup Undo \cup Phase \cup Recovering
  /\ pc = "idle" => call = NoCall
  /\ pc \in Claiming \cup {"pick", "commit"} => call.op = "SCHEDULE"
  /\ pc \in Undo => call.op \in {"SCHEDULE", "RECOVER"} /\ call.undo # <<>>
  /\ pc \in Phase => call.op \in {"OUTCOME", "REAP_BATCH", "RECOVER"}
  /\ pc = "apply" => call.op = "OUTCOME"
  /\ pc \in {"saveReap", "supersede"} => call.op = "REAP_BATCH"
  /\ pc = "close" => call.op \in {"OUTCOME", "REAP_BATCH"}
  /\ pc \in Recovering => call.op = "RECOVER"
  /\ call.op = "RECOVER" => call.at # 0
  /\ pc \in Claiming \cup OnClaim => call.w \in Works
  /\ pc = "checkpoint" => call.targets # <<>>
  /\ pc \in Phase \cup {"refree", "project"} /\ Reaping =>
       call.todo # <<>> /\ call.kind = "FAILED"

\* Which answers may be on their way at a step.
AnswerFits ==
  /\ pc \in Phase =>
       /\ call.kind \in Answers \cup {"RECLAIM"}
       /\ call.kind = "RECLAIM" => call.op = "RECOVER" /\ pc \in {"live", "reclaimEvidence", "targets"}
       /\ call.op = "RECOVER" => call.kind # "RUNNING"
  /\ pc \in {"release", "free", "refree"} => EndsClaim(call.kind)
  /\ pc = "apply" => call.kind \in Answers
  /\ pc = "project" => EndsClaim(call.kind) \/ call.kind = "UNKNOWN"
  /\ pc \in Phase \cup {"apply", "project"} /\ call.kind \in {"RUNNING", "UNKNOWN"} =>
       mem[call.w].place = "ACTIVE"

\* How an entry may change while a call runs that is not a schedule.
MayBecome(e, f) ==
  /\ e.place = "RELEASED" => f = e
  /\ e.place = "RECONCILIATION" => f.place \in {"RECONCILIATION", "RELEASED"}
  /\ e.place = "ACTIVE" => f.place # "NONE"
  /\ e.place = "NONE" => f.place = "NONE"

\* A schedule only adds claims; every other call only moves those there are on.
CopyFollows ==
  /\ call.op = "SCHEDULE" => \A w \in Works : sched[w].place # "NONE" => mem[w] = sched[w]
  /\ call.op \in {"OUTCOME", "REAP_BATCH", "RECOVER"} =>
       \A w \in Works : MayBecome(sched[w], mem[w])

\* The works a call has in hand are claims of the state on disk, or not yet.
WorkKnown ==
  /\ pc \in OnClaim => call.w \in Holders(sched)
  /\ call.op = "RECOVER" => call.left \subseteq Holders(sched) \/ pc = "saveJournal"
  /\ call.op \in {"REAP_BATCH", "RECOVER"} /\ pc \notin {"saveReap", "supersede", "close", "saveJournal"} =>
       \A i \in DOMAIN call.todo : call.todo[i] \in Holders(sched)
  /\ pc \in Claiming \cup {"pick"} => \A i \in DOMAIN call.made : sched[call.made[i]].place = "NONE"
  /\ pc \in Undo => \A i \in DOMAIN call.undo : sched[call.undo[i].w].place = "NONE"

\* The transactions about answers are about works that have been claimed.
AboutClaims(j) ==
  \A i \in DOMAIN j : j[i].op \in {"OUTCOME", "REAP_BATCH"} =>
    \A k \in DOMAIN j[i].works : sched[j[i].works[k]].place # "NONE"

\* Neither the state nor the copy exceeds the budget or has conflicting claims.
Fits ==
  /\ Cardinality(Holders(sched)) <= Capacity /\ Cardinality(Holders(mem)) <= Capacity
  /\ \A u, v \in Works : u # v /\ {u, v} \in Conflicts =>
       /\ reserved[u] = 0 \/ reserved[v] = 0
       /\ u \in Holders(sched) \cup Holders(mem) => reserved[v] = 0

\* A claim in the making fits in with those there are.
ClaimFits ==
  /\ pc \in Claiming =>
       /\ mem[call.w].place = "NONE" /\ Cardinality(Holders(mem)) < Capacity
       /\ \A v \in Holders(mem) : {v, call.w} \notin Conflicts
  /\ pc \in Claiming \ {"reserve"} => reserved[call.w] # 0

HoldsNothing(s) == \A w \in Works : s[w].place = "RELEASED" =>
  reserved[w] = 0 /\ lanes[w].status = "RELEASED" /\ Terminal(w) /\ lanes[w].life = s[w].life

\* What is released is finished, except where a claim was taken back before
\* the state knew it.
Frees ==
  /\ HoldsNothing(sched) /\ HoldsNothing(mem)
  /\ \A w \in Works : lanes[w].status = "RELEASED" /\ sched[w].place # "NONE" => Terminal(w)

\* How far the release of a claim has come at a step.
FreesAt ==
  /\ pc \in Claiming \cup {"pick"} => \A w \in Works :
       sched[w].place = "NONE" /\ mem[w].place # "NONE" => lanes[w].status # "RELEASED"
  /\ pc \in {"free", "refree"} => lanes[call.w].status = "RELEASED"
  /\ pc \in {"apply", "project"} /\ EndsClaim(call.kind) =>
       lanes[call.w].status = "RELEASED" /\ reserved[call.w] = 0
  /\ pc = "compRelease" => Terminal(call.w)

\* What does not depend on the step, and what does.
Steady ==
  /\ StoresTyped /\ BooksTyped /\ CopyFollows /\ AboutClaims(journal) /\ AboutClaims(jm)
  /\ Fits /\ Frees
AtStep == CallFits /\ AnswerFits /\ WorkKnown /\ ClaimFits /\ FreesAt

ClaimInv == Steady /\ AtStep
-----------------------------------------------------------------------------
(* Kept, which is recursive: by the least position at which it might fail. *)

LEMMA LeastOf ==
  ASSUME NEW S, S \subseteq Nat, S # {}
  PROVE  \E n \in S : \A m \in S : n <= m
<1> DEFINE R == {ss \in Nat \X Nat : ss[1] < ss[2]}
<1>1. IsWellFoundedOn(R, Nat)
  BY NatLessThanWellFounded, Zenon DEF OpToRel
<1>2. \A m, n \in Nat : m < n => <<m, n>> \in R
  OBVIOUS
<1> HIDE DEF R
<1>3. PICK n \in S : \A m \in S : ~ (<<m, n>> \in R)
  BY <1>1, WFMin, Zenon
<1>4. ASSUME NEW m \in S PROVE n <= m
  <2>1. m \in Nat /\ n \in Nat /\ ~ (m < n)
    BY <1>2, <1>3
  <2> QED
    BY <2>1
<1> QED
  BY <1>4

\* The function Kept defines, up to a position.
Keeps(s, I, n, f) == f = [m \in 0 .. n |->
  IF m = 0 THEN <<>> ELSE IF m \in I THEN Append(f[m - 1], s[m]) ELSE f[m - 1]]

LEMMA KeepsExists ==
  ASSUME NEW s, NEW I, NEW n \in Nat
  PROVE  \E f : Keeps(s, I, n, f)
<1> DEFINE Fails == {m \in Nat : ~ \E f : Keeps(s, I, m, f)}
<1>1. ASSUME Fails # {} PROVE FALSE
  <2>1. PICK m \in Fails : \A k \in Fails : m <= k
    BY <1>1, LeastOf
  <2>2. m # 0
    <3>1. Keeps(s, I, 0, [k \in 0 .. 0 |-> <<>>])
      BY DEF Keeps
    <3> QED
      BY <2>1, <3>1
  <2>3. PICK g : Keeps(s, I, m - 1, g)
    BY <2>1, <2>2
  <2> DEFINE f == [k \in 0 .. m |-> IF k = m
                     THEN IF m \in I THEN Append(g[m - 1], s[m]) ELSE g[m - 1]
                     ELSE g[k]]
  <2>4. Keeps(s, I, m, f)
    <3>1. m \in Nat /\ m - 1 \in Nat
      BY <2>2
    <3>2. \A k \in 0 .. m - 1 : g[k] = IF k = 0 THEN <<>>
                                       ELSE IF k \in I THEN Append(g[k - 1], s[k]) ELSE g[k - 1]
      BY <2>3, <3>1 DEF Keeps
    <3>3. \A k \in 0 .. m : f[k] = IF k = 0 THEN <<>>
                                   ELSE IF k \in I THEN Append(f[k - 1], s[k]) ELSE f[k - 1]
      BY <2>2, <3>1, <3>2
    <3> HIDE DEF f
    <3>4. f = [k \in 0 .. m |-> f[k]]
      BY DEF f
    <3> QED
      BY <3>3, <3>4 DEF Keeps
  <2> QED
    BY <2>1, <2>4
<1> QED
  BY <1>1

LEMMA KeptIs ==
  ASSUME NEW S, NEW s \in Seq(S), NEW I
  PROVE  \E f : Keeps(s, I, Len(s), f) /\ Kept(s, I) = f[Len(s)]
<1>1. Keeps(s, I, Len(s), CHOOSE f : Keeps(s, I, Len(s), f))
  BY KeepsExists
<1> QED
  BY <1>1 DEF Kept, Keeps

LEMMA KeptElements ==
  ASSUME NEW S, NEW s \in Seq(S), NEW I
  PROVE  /\ Kept(s, I) \in Seq(S)
         /\ \A i \in DOMAIN Kept(s, I) :
              \E k \in DOMAIN s : k \in I /\ Kept(s, I)[i] = s[k]
<1>1. PICK f : Keeps(s, I, Len(s), f) /\ Kept(s, I) = f[Len(s)]
  BY KeptIs
<1> DEFINE Good(n) == /\ f[n] \in Seq(S)
                      /\ \A i \in DOMAIN f[n] : \E k \in DOMAIN s : k \in I /\ f[n][i] = s[k]
           Fails == {n \in 0 .. Len(s) : ~ Good(n)}
<1>2. Len(s) \in Nat
  OBVIOUS
<1>3. \A n \in 0 .. Len(s) :
        f[n] = IF n = 0 THEN <<>> ELSE IF n \in I THEN Append(f[n - 1], s[n]) ELSE f[n - 1]
  BY <1>1, <1>2 DEF Keeps
<1>4. ASSUME Fails # {} PROVE FALSE
  <2>1. PICK n \in Fails : \A m \in Fails : n <= m
    <3> Fails \subseteq Nat
      OBVIOUS
    <3> QED
      BY <1>4, LeastOf
  <2>2. n # 0
    <3>1. f[0] = <<>>
      BY <1>2, <1>3
    <3>2. Good(0)
      BY <3>1
    <3> QED
      BY <2>1, <3>2
  <2>3. n - 1 \in 0 .. Len(s) /\ n \in 1 .. Len(s)
    BY <1>2, <2>1, <2>2
  <2>4. Good(n - 1)
    BY <2>1, <2>3
  <2>5. CASE n \notin I
    BY <1>3, <2>1, <2>2, <2>3, <2>4, <2>5
  <2>6. CASE n \in I
    <3> DEFINE g == f[n - 1]
    <3>1. f[n] = Append(g, s[n]) /\ s[n] \in S /\ n \in DOMAIN s
      <4>1. f[n] = Append(f[n - 1], s[n])
        BY <1>3, <2>1, <2>2, <2>6
      <4>2. s[n] \in S /\ n \in DOMAIN s
        BY <2>3
      <4> QED
        BY <4>1, <4>2
    <3>2. g \in Seq(S) /\ \A i \in DOMAIN g : \E k \in DOMAIN s : k \in I /\ g[i] = s[k]
      BY <2>4
    <3> HIDE DEF g
    <3>3. f[n] \in Seq(S) /\ DOMAIN f[n] = 1 .. Len(g) + 1
      BY <3>1, <3>2
    <3>4. \A i \in 1 .. Len(g) + 1 : f[n][i] = IF i <= Len(g) THEN g[i] ELSE s[n]
      BY <3>1, <3>2
    <3>5. Good(n)
      BY <2>6, <3>1, <3>2, <3>3, <3>4
    <3> QED
      BY <2>1, <3>5
  <2> QED
    BY <2>1, <2>5, <2>6
<1>5. Good(Len(s))
  BY <1>2, <1>4
<1> QED
  BY <1>1, <1>5

-----------------------------------------------------------------------------
(* What a step of the stores may do, and what that leaves true.            *)

\* Released stays released and finished stays finished; a lane is released when
\* it is finished or when no claim is known; reservations are only given up.
Quietly ==
  /\ StoresTyped'
  /\ \A w \in Works :
       /\ lanes[w].status = "RELEASED" => lanes'[w].status = "RELEASED"
       /\ Terminal(w) => lanes'[w].life = lanes[w].life
       /\ lanes'[w].status = "RELEASED" /\ lanes[w].status # "RELEASED" =>
            lanes'[w].life = lanes[w].life /\ (Terminal(w) \/ sched[w].place = "NONE")
       /\ reserved[w] = 0 => reserved'[w] = 0

LEMMA StillIsQuiet ==
  ASSUME StoresTyped, UNCHANGED storeVars
  PROVE  Quietly
BY DEF Quietly, StoresTyped, storeVars, laneVars, ledgerVars

LEMMA LeasingIsQuiet ==
  ASSUME StoresTyped, NEW w \in Works, AcquireLease(w), UNCHANGED <<ledgerVars, evidence>>
  PROVE  /\ Quietly /\ lanes'[w].status = "ACTIVE" /\ lanes'[w].first \in Nat
         /\ \A v \in Works : lanes'[v].status = "RELEASED" => lanes[v].status = "RELEASED"
<1> DEFINE e == [status |-> "ACTIVE", fence |-> nextLeaseFence, first |-> nextLeaseFence,
                 under |-> 0, seq |-> 1, life |-> "LEASED"]
<1>1. /\ lanes[w].status = "NONE" /\ lanes' = [lanes EXCEPT ![w] = e]
      /\ nextLeaseFence' = nextLeaseFence + 1 /\ UNCHANGED lapsed
  BY DEF AcquireLease
<1>2. e \in Lanes
  BY DEF StoresTyped, Lanes, LaneStatuses, LifecycleStates, SuccessStates, SuccessPath
<1>3. ~Terminal(w)
  BY <1>1 DEF StoresTyped, NoLane, Terminal, TerminalStates
<1>4. e.status = "ACTIVE" /\ e.first \in Nat
  BY DEF StoresTyped
<1> HIDE DEF e
<1>5. StoresTyped'
  BY <1>1, <1>2, <1>4 DEF StoresTyped, ledgerVars
<1> QED
  BY <1>1, <1>3, <1>4, <1>5 DEF Quietly, StoresTyped, ledgerVars, Terminal

LEMMA CheckpointIsQuiet ==
  ASSUME StoresTyped, NEW w \in Works, NEW f, NEW to \in LifecycleStates, NEW r \in Nat,
         CheckpointLane(w, f, to, r), UNCHANGED <<ledgerVars, evidence>>
  PROVE  /\ Quietly /\ lanes'[w].life = to /\ lanes'[w].status = "ACTIVE"
         /\ \A v \in Works : lanes'[v].status = lanes[v].status
<1> DEFINE e == [lanes[w] EXCEPT !.life = to, !.seq = @ + 1, !.under = r]
<1>1. /\ lanes[w].status = "ACTIVE" /\ ~Terminal(w) /\ lanes' = [lanes EXCEPT ![w] = e]
      /\ UNCHANGED <<nextLeaseFence, lapsed>>
  BY DEF CheckpointLane, MayCheckpoint, Current, Holds, Legal, Terminal
<1>2. lanes[w] \in Lanes
  BY DEF StoresTyped
<1>3. e \in Lanes /\ e.status = "ACTIVE" /\ e.life = to
  <2>1. lanes[w].seq \in Nat /\ lanes[w].seq + 1 \in Nat
    BY <1>2 DEF Lanes
  <2>2. e = [lanes[w] EXCEPT !.life = to, !.seq = lanes[w].seq + 1, !.under = r]
    BY <1>2 DEF Lanes
  <2> QED
    BY <1>1, <1>2, <2>1, <2>2 DEF Lanes
<1> HIDE DEF e
<1>4. StoresTyped'
  BY <1>1, <1>3 DEF StoresTyped, ledgerVars
<1> QED
  BY <1>1, <1>3, <1>4 DEF Quietly, StoresTyped, ledgerVars, Terminal

\* A lease runs out, is put on record as such, and is replaced.
LEMMA ExpiryIsQuiet ==
  ASSUME StoresTyped, NEW w \in Works, NEW f, UNCHANGED <<ledgerVars, evidence>>,
         ExpireLease(w, f) \/ ReclaimLease(w, f) \/ LeaseLapses(w)
  PROVE  /\ Quietly
         /\ \A v \in Works : lanes'[v].life = lanes[v].life
         /\ \A v \in Works : lanes'[v].status = "RELEASED" <=> lanes[v].status = "RELEASED"
<1>0. lanes[w] \in Lanes
  BY DEF StoresTyped
<1>1. CASE ExpireLease(w, f)
  <2> DEFINE e == [lanes[w] EXCEPT !.status = "EXPIRED"]
  <2>1. /\ lanes[w].status = "ACTIVE" /\ lanes' = [lanes EXCEPT ![w] = e]
        /\ UNCHANGED <<nextLeaseFence, lapsed>>
    BY <1>1 DEF ExpireLease, MayExpire, Holds
  <2>2. e \in Lanes /\ e.status = "EXPIRED" /\ e.life = lanes[w].life
    BY <1>0 DEF Lanes, LaneStatuses
  <2> HIDE DEF e
  <2>3. StoresTyped'
    BY <2>1, <2>2 DEF StoresTyped, ledgerVars
  <2> QED
    BY <2>1, <2>2, <2>3 DEF Quietly, StoresTyped, ledgerVars, Terminal
<1>2. CASE ReclaimLease(w, f)
  <2> DEFINE e == [lanes[w] EXCEPT !.status = "ACTIVE", !.fence = nextLeaseFence]
  <2>1. /\ lanes[w].status = "EXPIRED" /\ lanes' = [lanes EXCEPT ![w] = e]
        /\ nextLeaseFence' = nextLeaseFence + 1 /\ lapsed' = lapsed \ {w}
    BY <1>2 DEF ReclaimLease, MayReclaim
  <2>2. e \in Lanes /\ e.status = "ACTIVE" /\ e.life = lanes[w].life
    BY <1>0 DEF Lanes, LaneStatuses, StoresTyped
  <2> HIDE DEF e
  <2>3. StoresTyped'
    BY <2>1, <2>2 DEF StoresTyped, ledgerVars
  <2> QED
    BY <2>1, <2>2, <2>3 DEF Quietly, StoresTyped, ledgerVars, Terminal
<1>3. CASE LeaseLapses(w)
  BY <1>3 DEF LeaseLapses, Quietly, StoresTyped, ledgerVars, Terminal
<1> QED
  BY <1>1, <1>2, <1>3

\* A lane is given back by its holder, or settled once its lease ran out.
LEMMA ReleaseIsQuiet ==
  ASSUME StoresTyped, NEW w \in Works, NEW f, UNCHANGED <<ledgerVars, evidence>>,
         (ReleaseLease(w, f) /\ (Terminal(w) \/ sched[w].place = "NONE"))
           \/ SettleTerminalLease(w, f)
  PROVE  Quietly /\ lanes'[w].status = "RELEASED" /\ lanes'[w].life = lanes[w].life
<1> DEFINE e == [lanes[w] EXCEPT !.status = "RELEASED"]
<1>1. lanes' = [lanes EXCEPT ![w] = e] /\ UNCHANGED <<nextLeaseFence, lapsed>>
  BY DEF ReleaseLease, SettleTerminalLease
<1>2. lanes[w] \in Lanes
  BY DEF StoresTyped
<1>3. e \in Lanes /\ e.status = "RELEASED" /\ e.life = lanes[w].life
  BY <1>2 DEF Lanes, LaneStatuses
<1> HIDE DEF e
<1>4. Terminal(w) \/ sched[w].place = "NONE"
  BY DEF ReleaseLease, SettleTerminalLease, MaySettle
<1>5. StoresTyped'
  BY <1>1, <1>3 DEF StoresTyped, ledgerVars
<1> QED
  BY <1>1, <1>3, <1>4, <1>5 DEF Quietly, StoresTyped, ledgerVars, Terminal

LEMMA FreeingIsQuiet ==
  ASSUME StoresTyped, NEW w \in Works, NEW f \in Nat, Free(w, f), UNCHANGED <<laneVars, evidence>>
  PROVE  Quietly /\ reserved'[w] = 0
<1>1. CASE reserved[w] = 0
  BY <1>1 DEF Free, Quietly, StoresTyped, laneVars, ledgerVars, Terminal
<1>2. CASE reserved[w] # 0
  <2>1. /\ reserved' = [reserved EXCEPT ![w] = 0] /\ releases' = [releases EXCEPT ![w] = f]
        /\ UNCHANGED nextReservationFence
    BY <1>2 DEF Free
  <2>2. StoresTyped'
    BY <2>1 DEF StoresTyped, laneVars
  <2> QED
    BY <2>1, <2>2 DEF Quietly, StoresTyped, laneVars, Terminal
<1> QED
  BY <1>1, <1>2

LEMMA RecordingIsQuiet ==
  ASSUME StoresTyped, NEW w \in Works, NEW k \in {"TRANSITION", "WORKER", "PROVIDER"},
         evidence' = evidence \cup {Event(k, w)}, UNCHANGED <<laneVars, ledgerVars>>
  PROVE  Quietly
<1>1. lanes[w] \in Lanes
  BY DEF StoresTyped
<1>2. Event(k, w) \in Events
  BY <1>1 DEF Event, Events, Lanes
<1> HIDE DEF Event
<1> QED
  BY <1>2 DEF Quietly, StoresTyped, laneVars, ledgerVars, Terminal

LEMMA FewerHolders ==
  ASSUME NEW S \in SUBSET Works, NEW T \in SUBSET S
  PROVE  /\ Cardinality(S) \in Nat /\ Cardinality(T) \in Nat
         /\ Cardinality(T) <= Cardinality(S)
<1>1. IsFiniteSet(S)
  BY FS_Subset, SchedulerAssumption
<1> QED
  BY <1>1, FS_Subset, FS_CardinalityType

\* A step that leaves the state and its copy alone.
LEMMA SteadyKeeps ==
  ASSUME Steady, Quietly, UNCHANGED <<sched, mem>>,
         journal' \in Seq(Transactions), AboutClaims(journal)',
         jm' \in Seq(Transactions), AboutClaims(jm)',
         call' \in CallRecords, call'.op = call.op
  PROVE  Steady'
<1>1. StoresTyped' /\ BooksTyped' /\ CopyFollows'
  BY DEF Steady, Quietly, BooksTyped, CopyFollows
<1>2. Fits'
  BY DEF Steady, Quietly, Fits, Holders
<1>3. Frees'
  BY DEF Steady, Quietly, Frees, HoldsNothing, Terminal
<1> QED
  BY <1>1, <1>2, <1>3 DEF Steady

LEMMA NoEntryIsTyped == NoEntry \in Entries
BY DEF NoEntry, Entries, Places, LifecycleStates, SuccessStates, SuccessPath, Outcomes

LEMMA NoCallIsTyped == NoCall \in CallRecords
BY DEF NoCall, CallRecords, Kinds

LEMMA PendingKeeps ==
  ASSUME NEW j \in Seq(Transactions), AboutClaims(j)
  PROVE  Pending(j) \in Seq(Transactions) /\ AboutClaims(Pending(j))
<1> DEFINE I == {i \in DOMAIN j : j[i].phase \notin ClosedPhases}
<1>1. Pending(j) = Kept(j, I)
  BY DEF Pending
<1> HIDE DEF I
<1>2. /\ Kept(j, I) \in Seq(Transactions)
      /\ \A i \in DOMAIN Kept(j, I) : \E k \in DOMAIN j : k \in I /\ Kept(j, I)[i] = j[k]
  BY KeptElements
<1>3. AboutClaims(Kept(j, I))
  BY <1>2 DEF AboutClaims
<1> QED
  BY <1>1, <1>2, <1>3

\* The end of a call, whichever transactions it leaves.
LEMMA EndCallKeeps ==
  ASSUME ClaimInv, NEW j \in Seq(Transactions), AboutClaims(j),
         EndCall(j), Quietly, UNCHANGED sched
  PROVE  ClaimInv'
<1>1. pc' = "idle" /\ call' = NoCall /\ mem' = [w \in Works |-> NoEntry] /\ jm' = <<>>
  BY DEF EndCall, Goto
<1>2. journal' \in Seq(Transactions) /\ AboutClaims(journal)'
  BY PendingKeeps DEF EndCall, AboutClaims
<1>3. jm' \in Seq(Transactions) /\ AboutClaims(jm)'
  BY <1>1 DEF AboutClaims
<1>4. BooksTyped'
  BY <1>1, <1>2, <1>3, NoEntryIsTyped, NoCallIsTyped DEF BooksTyped, ClaimInv, Steady
<1>5. CopyFollows' /\ AtStep'
  BY <1>1 DEF CopyFollows, AtStep, CallFits, AnswerFits, WorkKnown, ClaimFits, FreesAt, NoCall,
    Claiming, Undo, Phase, Compensating, Recovering, OnClaim
<1>6. Holders(mem)' = {}
  BY <1>1 DEF Holders, NoEntry
<1>7. Fits'
  <2>1. Cardinality(Holders(mem))' <= Capacity
    BY <1>6, FS_EmptySet, SchedulerAssumption
  <2>2. Holders(sched)' = Holders(sched)
    BY DEF Holders
  <2> QED
    BY <1>6, <2>1, <2>2 DEF ClaimInv, Steady, Quietly, Fits
<1>8. Frees'
  BY <1>1 DEF ClaimInv, Steady, Quietly, Frees, HoldsNothing, Terminal, NoEntry
<1> QED
  BY <1>2, <1>3, <1>4, <1>5, <1>7, <1>8 DEF ClaimInv, Steady, Quietly

\* A step that moves one claim of the state on, in the copy.
LEMMA ClaimMoves ==
  ASSUME Steady, Quietly, UNCHANGED sched,
         journal' \in Seq(Transactions), AboutClaims(journal)',
         jm' \in Seq(Transactions), AboutClaims(jm)',
         call' \in CallRecords, call'.op = call.op,
         call.op \in {"OUTCOME", "REAP_BATCH", "RECOVER"},
         NEW w \in Holders(sched), NEW e \in Entries, mem' = [mem EXCEPT ![w] = e],
         MayBecome(sched[w], e),
         e.place \in {"ACTIVE", "RECONCILIATION"} => w \in Holders(mem),
         e.place = "RELEASED" =>
           /\ reserved'[w] = 0 /\ lanes'[w].status = "RELEASED"
           /\ lanes'[w].life \in TerminalStates /\ lanes'[w].life = e.life
  PROVE  Steady'
<1>1. w \in Works
  BY DEF Holders
<1>2. BooksTyped'
  BY <1>1 DEF Steady, BooksTyped
<1>3. CopyFollows'
  BY <1>1 DEF Steady, BooksTyped, CopyFollows
<1>4. Holders(mem') \subseteq Holders(mem) /\ Holders(mem') = Holders(mem)'
  BY <1>1 DEF Steady, BooksTyped, Holders
<1>5. Fits'
  <2>1. Cardinality(Holders(mem')) <= Capacity
    <3>1. Cardinality(Holders(mem')) <= Cardinality(Holders(mem))
      BY <1>4, FewerHolders DEF Holders
    <3>2. Cardinality(Holders(mem')) \in Nat /\ Cardinality(Holders(mem)) \in Nat
      BY <1>4, FewerHolders DEF Holders
    <3> QED
      BY <3>1, <3>2, SchedulerAssumption DEF Steady, Fits
  <2>2. Holders(sched)' = Holders(sched)
    BY DEF Holders
  <2> QED
    BY <1>4, <2>1, <2>2 DEF Steady, Quietly, Fits
<1>6. Frees'
  BY <1>1 DEF Steady, BooksTyped, Quietly, Frees, HoldsNothing, Terminal
<1> QED
  BY <1>2, <1>3, <1>5, <1>6 DEF Steady, Quietly

\* A step that writes the copy to disk.
LEMMA CopyIsSaved ==
  ASSUME Steady, UNCHANGED <<storeVars, mem, journal, jm, call>>, sched' = mem,
         call.op \in {"SCHEDULE", "OUTCOME", "REAP_BATCH", "RECOVER"},
         \A w \in Works : sched[w].place = "NONE" /\ mem[w].place # "NONE" =>
           lanes[w].status # "RELEASED"
  PROVE  Steady'
<1>1. StoresTyped' /\ BooksTyped'
  BY DEF Steady, StoresTyped, BooksTyped, storeVars, laneVars, ledgerVars
<1>2. CopyFollows'
  BY DEF CopyFollows, MayBecome
<1>3. \A w \in Works : sched[w].place # "NONE" => mem[w].place # "NONE"
  BY DEF Steady, BooksTyped, Entries, Places, CopyFollows, MayBecome
<1>4. AboutClaims(journal)' /\ AboutClaims(jm)'
  <2>1. ASSUME NEW j \in Seq(Transactions), AboutClaims(j), NEW i \in DOMAIN j,
               j[i].op \in {"OUTCOME", "REAP_BATCH"}, NEW k \in DOMAIN j[i].works
        PROVE  mem[j[i].works[k]].place # "NONE"
    <3>1. j[i] \in Transactions
      BY <2>1
    <3>2. j[i].works[k] \in Works
      BY <2>1, <3>1 DEF Transactions
    <3> QED
      BY <1>3, <2>1, <3>2 DEF AboutClaims
  <2> QED
    BY <2>1 DEF Steady, BooksTyped, AboutClaims
<1>5. Fits'
  <2>1. Holders(sched)' = Holders(mem) /\ Holders(mem)' = Holders(mem)
    BY DEF Holders
  <2> QED
    BY <2>1 DEF Steady, Fits, storeVars, ledgerVars
<1>6. Frees'
  BY DEF Steady, Frees, HoldsNothing, Terminal, storeVars, laneVars, ledgerVars
<1> QED
  BY <1>1, <1>2, <1>4, <1>5, <1>6 DEF Steady

LEMMA EditedIsTyped ==
  ASSUME NEW j \in Seq(Transactions), AboutClaims(j), NEW i, NEW t,
         i \in DOMAIN j => t \in Transactions /\ t.op = j[i].op /\ t.works = j[i].works
  PROVE  [j EXCEPT ![i] = t] \in Seq(Transactions) /\ AboutClaims([j EXCEPT ![i] = t])
<1> DEFINE k == [j EXCEPT ![i] = t]
<1>1. DOMAIN k = DOMAIN j /\ \A n \in DOMAIN j : k[n] = IF n = i THEN t ELSE j[n]
  OBVIOUS
<1>2. k \in Seq(Transactions)
  <2>1. CASE i \in DOMAIN j
    BY <2>1, ExceptSeq
  <2>2. CASE i \notin DOMAIN j
    <3>1. k = j
      BY <2>2
    <3> QED
      BY <3>1
  <2> QED
    BY <2>1, <2>2
<1> HIDE DEF k
<1>3. AboutClaims(k)
  BY <1>1 DEF AboutClaims
<1> QED
  BY <1>2, <1>3 DEF k

LEMMA PhaseIsTyped ==
  ASSUME NEW j \in Seq(Transactions), AboutClaims(j), NEW i, NEW p \in Phases
  PROVE  [j EXCEPT ![i].phase = p] \in Seq(Transactions) /\ AboutClaims([j EXCEPT ![i].phase = p])
<1>1. [j EXCEPT ![i].phase = p] = [j EXCEPT ![i] = [j[i] EXCEPT !.phase = p]]
  OBVIOUS
<1>0. i \in DOMAIN j => j[i] \in Transactions
  OBVIOUS
<1>2. i \in DOMAIN j => [j[i] EXCEPT !.phase = p] \in Transactions
                        /\ [j[i] EXCEPT !.phase = p].op = j[i].op
                        /\ [j[i] EXCEPT !.phase = p].works = j[i].works
  BY <1>0 DEF Transactions
<1> QED
  BY <1>1, <1>2, EditedIsTyped

LEMMA LongerIsTyped ==
  ASSUME NEW j \in Seq(Transactions), AboutClaims(j), NEW t \in Transactions,
         t.op \in {"OUTCOME", "REAP_BATCH"} =>
           \A k \in DOMAIN t.works : sched[t.works[k]].place # "NONE"
  PROVE  Append(j, t) \in Seq(Transactions) /\ AboutClaims(Append(j, t))
BY DEF AboutClaims

\* Steps of the call alone, with or without its transactions.
LEMMA StepMoves ==
  ASSUME Steady, UNCHANGED <<storeVars, sched, mem>>,
         journal' \in Seq(Transactions), AboutClaims(journal'),
         jm' \in Seq(Transactions), AboutClaims(jm'),
         call' \in CallRecords, call'.op = call.op
  PROVE  Steady'
<1>1. AboutClaims(journal)' /\ AboutClaims(jm)'
  BY DEF AboutClaims
<1> QED
  BY <1>1, StillIsQuiet, SteadyKeeps DEF Steady

LEMMA CallMoves ==
  ASSUME Steady, UNCHANGED <<storeVars, sched, mem, journal, jm>>,
         call' \in CallRecords, call'.op = call.op
  PROVE  Steady'
BY StepMoves DEF Steady, BooksTyped

-----------------------------------------------------------------------------
(* scheduleEligibleSet                                                     *)

LEMMA AtClaiming ==
  ASSUME pc' \in Claiming \cup {"pick"}, call'.op = "SCHEDULE", ClaimFits',
         pc' \in Claiming => call'.w \in Works,
         \A i \in DOMAIN call'.made : sched'[call'.made[i]].place = "NONE",
         \A w \in Works : sched'[w].place = "NONE" /\ mem'[w].place # "NONE" =>
           lanes'[w].status # "RELEASED"
  PROVE  AtStep'
<1>1. CallFits'
  BY DEF CallFits, Claiming, Undo, Phase, Recovering, Compensating, OnClaim
<1>2. AnswerFits' /\ WorkKnown' /\ FreesAt'
  BY DEF AnswerFits, WorkKnown, FreesAt, Claiming, Undo, Phase, Compensating, OnClaim
<1> QED
  BY <1>1, <1>2 DEF AtStep

LEMMA StartScheduleKeeps ==
  ASSUME ClaimInv, NEW b \in Batches, StartSchedule(b)
  PROVE  ClaimInv'
<1>1. b \in Seq(Works)
  BY DEF Batches
<1>2. /\ pc = "idle" /\ pc' = "pick" /\ mem' = sched
      /\ call' = [NoCall EXCEPT !.op = "SCHEDULE", !.todo = b]
      /\ UNCHANGED <<storeVars, sched, journal, jm>>
  BY DEF StartSchedule, Begin, Goto
<1>3. call' \in CallRecords /\ call'.op = "SCHEDULE" /\ call'.made = <<>>
  BY <1>1, <1>2, NoCallIsTyped DEF NoCall, CallRecords
<1>4. Steady'
  <2>1. StoresTyped' /\ BooksTyped' /\ CopyFollows' /\ AboutClaims(journal)' /\ AboutClaims(jm)'
    BY <1>2, <1>3 DEF ClaimInv, Steady, StoresTyped, BooksTyped, CopyFollows, AboutClaims,
      storeVars, laneVars, ledgerVars
  <2>2. Holders(mem)' = Holders(sched) /\ Holders(sched)' = Holders(sched)
    BY <1>2 DEF Holders
  <2>3. Fits'
    BY <1>2, <2>2 DEF ClaimInv, Steady, Fits, storeVars, ledgerVars
  <2>4. Frees'
    BY <1>2 DEF ClaimInv, Steady, Frees, HoldsNothing, Terminal, storeVars, laneVars, ledgerVars
  <2> QED
    BY <2>1, <2>3, <2>4 DEF Steady
<1>5. AtStep'
  BY <1>2, <1>3, AtClaiming DEF ClaimFits, Claiming
<1> QED
  BY <1>4, <1>5 DEF ClaimInv

\* A batch that fails takes back what the state on disk does not know.
LEMMA TakeBackKeeps ==
  ASSUME ClaimInv, NEW cs \in Seq(Claims), call.op = "SCHEDULE",
         \A i \in DOMAIN cs : sched[cs[i].w].place = "NONE",
         TakeBack(cs), UNCHANGED <<storeVars, sched>>
  PROVE  ClaimInv'
<1>1. CASE cs = <<>>
  BY <1>1, EndCallKeeps, StillIsQuiet DEF TakeBack, ClaimInv, Steady, BooksTyped
<1>2. CASE cs # <<>>
  <2>1. /\ pc' = "undoLease" /\ UNCHANGED <<journal, mem, jm>>
        /\ call' = [call EXCEPT !.undo = cs, !.failed = FALSE]
    BY <1>2 DEF TakeBack, Goto
  <2>2. call' \in CallRecords /\ call'.op = "SCHEDULE" /\ call'.undo = cs
    BY <2>1 DEF ClaimInv, Steady, BooksTyped, CallRecords
  <2>3. Steady'
    BY <2>1, <2>2, CallMoves DEF ClaimInv
  <2>4. AtStep'
    BY <1>2, <2>1, <2>2 DEF AtStep, CallFits, AnswerFits, WorkKnown, ClaimFits, FreesAt,
      Claiming, Undo, Phase, Recovering, Compensating, OnClaim
  <2> QED
    BY <2>3, <2>4 DEF ClaimInv
<1> QED
  BY <1>1, <1>2

LEMMA ClaimsMadeAreNew ==
  ASSUME ClaimInv, pc \in Claiming \cup {"pick"}
  PROVE  /\ ClaimsMade \in Seq(Claims)
         /\ \A i \in DOMAIN ClaimsMade : sched[ClaimsMade[i].w].place = "NONE"
<1> DEFINE c == [i \in DOMAIN call.made |-> Claim(call.made[i])]
           n == Len(call.made)
<1>1. call.made \in Seq(Works) /\ DOMAIN call.made = 1 .. n /\ n \in Nat
  BY DEF ClaimInv, Steady, BooksTyped, CallRecords
<1>2. \A i \in 1 .. n : Claim(call.made[i]) \in Claims /\ Claim(call.made[i]).w = call.made[i]
  <2> TAKE i \in 1 .. n
  <2>1. call.made[i] \in Works
    BY <1>1
  <2>2. mem[call.made[i]] \in Entries
    BY <2>1 DEF ClaimInv, Steady, BooksTyped
  <2> QED
    BY <2>1, <2>2 DEF Claim, Claims, Entries
<1>3. \A i \in 1 .. n : sched[call.made[i]].place = "NONE"
  BY <1>1 DEF ClaimInv, AtStep, WorkKnown
<1>4. c \in Seq(Claims) /\ Len(c) = n
  BY <1>1, <1>2
<1>5. ClaimsMade = [i \in 1 .. n |-> c[n - i + 1]]
  BY <1>4 DEF ClaimsMade, Reverse
<1>6. \A i \in 1 .. n : n - i + 1 \in 1 .. n /\ c[n - i + 1] \in Claims
                        /\ sched[c[n - i + 1].w].place = "NONE"
  BY <1>1, <1>2, <1>3
<1> HIDE DEF c, n
<1> QED
  BY <1>1, <1>5, <1>6

LEMMA ClaimFailsKeeps ==
  ASSUME ClaimInv, pc \in Claiming, ClaimFails, UNCHANGED <<storeVars, sched>>
  PROVE  ClaimInv'
<1> DEFINE cs == <<Unfinished>> \o ClaimsMade
<1>1. call.op = "SCHEDULE" /\ call.w \in Works /\ mem[call.w].place = "NONE"
  BY DEF ClaimInv, AtStep, CallFits, ClaimFits
<1>2. Unfinished \in Claims /\ Unfinished.w = call.w
  BY <1>1 DEF Unfinished, Claims, ClaimInv, Steady, BooksTyped, CallRecords
<1>3. sched[call.w].place = "NONE"
  BY <1>1 DEF ClaimInv, Steady, CopyFollows
<1>4. cs \in Seq(Claims) /\ \A i \in DOMAIN cs : sched[cs[i].w].place = "NONE"
  BY <1>2, <1>3, ClaimsMadeAreNew
<1> HIDE DEF cs
<1>5. TakeBack(cs)
  BY DEF ClaimFails, cs
<1> QED
  BY <1>1, <1>4, <1>5, TakeBackKeeps

\* The steps of one claim, with what is reserved and leased for it.
LEMMA ClaimingKeeps ==
  ASSUME ClaimInv, pc \in Claiming, pc' \in Claiming \ {"reserve"},
         UNCHANGED <<sched, mem, jm>>, call' \in CallRecords, call'.op = call.op,
         call'.w = call.w, call'.made = call.made,
         journal' \in Seq(Transactions), AboutClaims(journal'),
         Quietly, reserved' = reserved, reserved[call.w] # 0,
         \A w \in Works : lanes'[w].status = "RELEASED" => lanes[w].status = "RELEASED"
  PROVE  ClaimInv'
<1>1. Steady'
  BY SteadyKeeps DEF ClaimInv, Steady, BooksTyped, AboutClaims
<1>2. call.op = "SCHEDULE" /\ call.w \in Works
  BY DEF ClaimInv, AtStep, CallFits
<1>3. ClaimFits'
  BY DEF ClaimInv, AtStep, ClaimFits, Holders
<1>4. \A w \in Works : sched'[w].place = "NONE" /\ mem'[w].place # "NONE" =>
        lanes'[w].status # "RELEASED"
  BY DEF ClaimInv, AtStep, FreesAt
<1>5. \A i \in DOMAIN call'.made : sched'[call'.made[i]].place = "NONE"
  BY DEF ClaimInv, AtStep, WorkKnown
<1>6. AtStep'
  BY <1>2, <1>3, <1>4, <1>5, AtClaiming
<1> QED
  BY <1>1, <1>6 DEF ClaimInv

LEMMA SkipKeeps ==
  ASSUME ClaimInv, Skip
  PROVE  ClaimInv'
<1>1. pc = "pick" /\ pc' = "pick" /\ UNCHANGED <<storeVars, sched, journal, mem, jm>>
  BY DEF Skip, At
<1>2. call' \in CallRecords /\ call'.op = call.op /\ call'.made = call.made /\ call.op = "SCHEDULE"
  <2>1. call \in CallRecords /\ call.op = "SCHEDULE"
    BY <1>1 DEF ClaimInv, Steady, BooksTyped, AtStep, CallFits, Claiming
  <2>2. call' = [call EXCEPT !.todo = Tail(call.todo)] /\ Tail(call.todo) \in Seq(Works)
    BY <2>1 DEF Skip, CallRecords
  <2> QED
    BY <2>1, <2>2 DEF CallRecords
<1>3. Steady'
  BY <1>1, <1>2, CallMoves DEF ClaimInv
<1>4. AtStep'
  BY <1>1, <1>2, AtClaiming
    DEF ClaimInv, AtStep, ClaimFits, WorkKnown, FreesAt, Claiming, storeVars, laneVars
<1> QED
  BY <1>3, <1>4 DEF ClaimInv

LEMMA BeginTransactionKeeps ==
  ASSUME ClaimInv, BeginTransaction
  PROVE  ClaimInv'
<1> DEFINE w == Head(call.todo)
           t == Transaction("SCHEDULE", <<w>>, "NONE", 0)
<1>1. pc = "pick" /\ call.todo # <<>> /\ ~Blocked(w) /\ UNCHANGED <<storeVars, sched>>
  BY DEF BeginTransaction, At
<1>2. call \in CallRecords /\ call.op = "SCHEDULE" /\ w \in Works /\ Tail(call.todo) \in Seq(Works)
  <2>1. call \in CallRecords /\ call.op = "SCHEDULE"
    BY <1>1 DEF ClaimInv, Steady, BooksTyped, AtStep, CallFits, Claiming
  <2> QED
    BY <1>1, <2>1 DEF CallRecords
<1>3. CASE TakeBack(ClaimsMade)
  BY <1>1, <1>2, <1>3, ClaimsMadeAreNew, TakeBackKeeps
<1>4. CASE /\ journal' = Append(journal, t)
           /\ pc' = "reserve" /\ UNCHANGED <<mem, jm>>
           /\ call' = [call EXCEPT !.w = w, !.todo = Tail(@), !.res = 0, !.lease = 0]
  <2>1. t \in Transactions /\ t.op = "SCHEDULE"
    BY <1>2 DEF Transaction, Transactions, Operations, Kinds, Phases
  <2>2. journal' \in Seq(Transactions) /\ AboutClaims(journal')
    BY <1>4, <2>1, LongerIsTyped DEF ClaimInv, Steady, BooksTyped
  <2>3. /\ call' \in CallRecords /\ call'.op = "SCHEDULE" /\ call'.w = w
        /\ call'.made = call.made
    BY <1>2, <1>4 DEF CallRecords
  <2>4. Steady'
    BY <1>1, <1>2, <1>4, <2>2, <2>3, StepMoves DEF ClaimInv, Steady, BooksTyped
  <2>5. ClaimFits'
    <3>1. mem[w].place = "NONE" /\ \A v \in Holders(mem) : {v, w} \notin Conflicts
      BY <1>1, <1>2 DEF Blocked, ClaimInv, Steady, BooksTyped, Entries
    <3>2. Cardinality(Holders(mem)) < Capacity
      BY <1>1 DEF Blocked, HasCapacity
    <3>3. Holders(mem)' = Holders(mem)
      BY <1>4 DEF Holders
    <3> QED
      BY <1>4, <2>3, <3>1, <3>2, <3>3 DEF ClaimFits
  <2>6. AtStep'
    BY <1>1, <1>2, <1>4, <2>3, <2>5, AtClaiming
      DEF ClaimInv, AtStep, WorkKnown, FreesAt, Claiming, storeVars, laneVars
  <2> QED
    BY <2>4, <2>6 DEF ClaimInv
<1> QED
  BY <1>3, <1>4 DEF BeginTransaction, Try, Goto

LEMMA AcquireReservationKeeps ==
  ASSUME ClaimInv, AcquireReservation
  PROVE  ClaimInv'
<1>1. pc = "reserve" /\ UNCHANGED <<laneVars, evidence, sched>>
  BY DEF AcquireReservation, At
<1>2. call \in CallRecords /\ call.op = "SCHEDULE" /\ call.w \in Works
  BY <1>1 DEF ClaimInv, Steady, BooksTyped, AtStep, CallFits, Claiming
<1>3. CASE ClaimFails /\ UNCHANGED ledgerVars
  BY <1>1, <1>3, ClaimFailsKeeps DEF storeVars, Claiming
<1>4. CASE /\ Reserve(call.w) /\ UNCHANGED <<journal, mem, jm>>
           /\ pc' = "noteReservation" /\ call' = [call EXCEPT !.res = reserved'[call.w]]
  <2>1. /\ StoresTyped' /\ reserved'[call.w] # 0
        /\ \A v \in Works : v # call.w => reserved'[v] = reserved[v]
        /\ \A v \in Works : reserved'[v] # 0 /\ reserved[v] = 0 =>
             v = call.w /\ \A u \in Works : {u, v} \in Conflicts => reserved[u] = 0
    <3>0. StoresTyped
      BY DEF ClaimInv, Steady
    <3>1. CASE reserved[call.w] # 0
      BY <1>1, <1>2, <1>4, <3>0, <3>1 DEF Reserve, ledgerVars, laneVars, StoresTyped
    <3>2. CASE reserved[call.w] = 0
      <4>1. /\ \A u \in Works : {u, call.w} \in Conflicts => reserved[u] = 0
            /\ reserved' = [reserved EXCEPT ![call.w] = nextReservationFence]
            /\ releases' = [releases EXCEPT ![call.w] = 0]
            /\ nextReservationFence' = nextReservationFence + 1
        BY <1>4, <3>2 DEF Reserve, Collides
      <4>2. StoresTyped'
        BY <1>1, <1>2, <3>0, <4>1 DEF laneVars, StoresTyped
      <4>3. \A v \in Works : reserved'[v] = IF v = call.w THEN nextReservationFence ELSE reserved[v]
        BY <3>0, <4>1 DEF StoresTyped
      <4>4. nextReservationFence # 0
        BY <3>0 DEF StoresTyped
      <4> QED
        BY <1>2, <4>1, <4>2, <4>3, <4>4
    <3> QED
      BY <3>1, <3>2
  <2>2. /\ call' \in CallRecords /\ call'.op = "SCHEDULE" /\ call'.w = call.w
        /\ call'.made = call.made
    BY <1>2, <1>4, <2>1 DEF StoresTyped, CallRecords
  <2>3. ClaimFits'
    BY <1>1, <1>4, <2>1, <2>2 DEF ClaimInv, AtStep, ClaimFits, Claiming, Holders
  <2>4. AtStep'
    BY <1>1, <1>2, <1>4, <2>2, <2>3, AtClaiming
      DEF ClaimInv, AtStep, WorkKnown, FreesAt, Claiming, laneVars
  <2>5. Holders(mem)' = Holders(mem) /\ Holders(sched)' = Holders(sched)
    BY <1>1, <1>4 DEF Holders
  <2>6. Holders(sched) \subseteq Holders(mem) /\ call.w \notin Holders(mem)
    BY <1>1, <1>2 DEF ClaimInv, Steady, CopyFollows, AtStep, ClaimFits, Claiming, Holders
  <2>7. \A v \in Holders(mem) : {v, call.w} \notin Conflicts
    BY <1>1 DEF ClaimInv, AtStep, ClaimFits, Claiming
  <2>8. Fits'
    <3>1. Cardinality(Holders(sched))' <= Capacity /\ Cardinality(Holders(mem))' <= Capacity
      BY <2>5 DEF ClaimInv, Steady, Fits
    <3>2. ASSUME NEW u \in Works, NEW v \in Works, u # v, {u, v} \in Conflicts
          PROVE  reserved'[u] = 0 \/ reserved'[v] = 0
      <4>1. {v, u} = {u, v}
        OBVIOUS
      <4> QED
        BY <2>1, <3>2, <4>1 DEF ClaimInv, Steady, Fits
    <3>3. ASSUME NEW u \in Holders(sched) \cup Holders(mem), NEW v \in Works, u # v,
                 {u, v} \in Conflicts
          PROVE  reserved'[v] = 0
      <4>1. u \in Works /\ u \in Holders(mem)
        BY <2>6 DEF Holders
      <4> QED
        BY <2>1, <2>7, <3>3, <4>1 DEF ClaimInv, Steady, Fits
    <3> QED
      BY <2>5, <3>1, <3>2, <3>3 DEF Fits
  <2>9. Frees'
    <3>1. \A w \in Works : sched[w].place = "RELEASED" \/ mem[w].place = "RELEASED" => w # call.w
      BY <1>1, <1>2 DEF ClaimInv, Steady, CopyFollows, AtStep, ClaimFits, Claiming
    <3> QED
      BY <1>1, <1>4, <2>1, <3>1 DEF ClaimInv, Steady, Frees, HoldsNothing, Terminal, laneVars
  <2>10. Steady'
    BY <1>1, <1>2, <1>4, <2>1, <2>2, <2>8, <2>9
      DEF ClaimInv, Steady, BooksTyped, CopyFollows, AboutClaims
  <2> QED
    BY <2>4, <2>10 DEF ClaimInv
<1> QED
  BY <1>3, <1>4 DEF AcquireReservation, Try, Goto
LEMMA NoteReservationKeeps ==
  ASSUME ClaimInv, NoteReservation
  PROVE  ClaimInv'
<1>1. pc = "noteReservation" /\ UNCHANGED <<storeVars, sched>>
  BY DEF NoteReservation, At
<1>2. call \in CallRecords /\ journal \in Seq(Transactions) /\ AboutClaims(journal)
  BY DEF ClaimInv, Steady, BooksTyped
<1>3. CASE ClaimFails
  BY <1>1, <1>3, ClaimFailsKeeps DEF Claiming
<1>4. CASE /\ journal' = [journal EXCEPT ![Mine(<<call.w>>)].res = call.res]
           /\ pc' = "lease" /\ UNCHANGED <<call, mem, jm>>
  <2> DEFINE i == Mine(<<call.w>>)
             t == [journal[i] EXCEPT !.res = call.res]
  <2>1. i \in DOMAIN journal => journal[i] \in Transactions
    BY <1>2
  <2>2. i \in DOMAIN journal => t \in Transactions /\ t.op = journal[i].op /\ t.works = journal[i].works
    BY <1>2, <2>1 DEF Transactions, CallRecords
  <2>3. journal' = [journal EXCEPT ![i] = t]
    BY <1>4
  <2>4. journal' \in Seq(Transactions) /\ AboutClaims(journal')
    BY <1>2, <2>2, <2>3, EditedIsTyped
  <2>5. Quietly /\ reserved[call.w] # 0 /\ reserved' = reserved /\ lanes' = lanes
    BY <1>1, StillIsQuiet DEF ClaimInv, Steady, AtStep, ClaimFits, Claiming, storeVars, ledgerVars, laneVars
  <2> QED
    BY <1>1, <1>2, <1>4, <2>4, <2>5, ClaimingKeeps DEF Claiming
<1> QED
  BY <1>3, <1>4 DEF NoteReservation, Try, Goto

LEMMA NoteLeaseKeeps ==
  ASSUME ClaimInv, NoteLease
  PROVE  ClaimInv'
<1>1. pc = "noteLease" /\ UNCHANGED <<storeVars, sched>>
  BY DEF NoteLease, At
<1>2. call \in CallRecords /\ journal \in Seq(Transactions) /\ AboutClaims(journal)
  BY DEF ClaimInv, Steady, BooksTyped
<1>3. CASE ClaimFails
  BY <1>1, <1>3, ClaimFailsKeeps DEF Claiming
<1>4. CASE /\ journal' = [journal EXCEPT ![Mine(<<call.w>>)].lease = call.lease]
           /\ pc' = "dispatch" /\ UNCHANGED <<call, mem, jm>>
  <2> DEFINE i == Mine(<<call.w>>)
             t == [journal[i] EXCEPT !.lease = call.lease]
  <2>1. i \in DOMAIN journal => journal[i] \in Transactions
    BY <1>2
  <2>2. i \in DOMAIN journal => t \in Transactions /\ t.op = journal[i].op /\ t.works = journal[i].works
    BY <1>2, <2>1 DEF Transactions, CallRecords
  <2>3. journal' = [journal EXCEPT ![i] = t]
    BY <1>4
  <2>4. journal' \in Seq(Transactions) /\ AboutClaims(journal')
    BY <1>2, <2>2, <2>3, EditedIsTyped
  <2>5. Quietly /\ reserved[call.w] # 0 /\ reserved' = reserved /\ lanes' = lanes
    BY <1>1, StillIsQuiet DEF ClaimInv, Steady, AtStep, ClaimFits, Claiming, storeVars, ledgerVars, laneVars
  <2> QED
    BY <1>1, <1>2, <1>4, <2>4, <2>5, ClaimingKeeps DEF Claiming
<1> QED
  BY <1>3, <1>4 DEF NoteLease, Try, Goto

LEMMA AcquireLaneLeaseKeeps ==
  ASSUME ClaimInv, AcquireLaneLease
  PROVE  ClaimInv'
<1>1. pc = "lease" /\ UNCHANGED <<ledgerVars, evidence, sched>>
  BY DEF AcquireLaneLease, At
<1>2. /\ call \in CallRecords /\ journal \in Seq(Transactions) /\ AboutClaims(journal) /\ StoresTyped
      /\ call.w \in Works /\ reserved[call.w] # 0
  BY <1>1 DEF ClaimInv, Steady, BooksTyped, AtStep, CallFits, ClaimFits, Claiming
<1>3. CASE ClaimFails /\ UNCHANGED laneVars
  BY <1>1, <1>3, ClaimFailsKeeps DEF Claiming, storeVars
<1>4. CASE /\ IF lanes[call.w].status = "NONE" THEN AcquireLease(call.w) ELSE UNCHANGED laneVars
           /\ pc' = "noteLease" /\ call' = [call EXCEPT !.lease = lanes'[call.w].first]
           /\ UNCHANGED <<journal, mem, jm>>
  <2>1. Quietly /\ \A v \in Works : lanes'[v].status = "RELEASED" => lanes[v].status = "RELEASED"
    <3>1. CASE AcquireLease(call.w)
      BY <1>1, <1>2, <3>1, LeasingIsQuiet
    <3>2. CASE UNCHANGED laneVars
      BY <1>1, <1>2, <3>2, StillIsQuiet DEF storeVars, laneVars
    <3> QED
      BY <1>4, <3>1, <3>2
  <2>2. lanes'[call.w] \in Lanes
    BY <1>2, <2>1 DEF Quietly, StoresTyped
  <2>3. call' \in CallRecords /\ call'.op = call.op /\ call'.w = call.w /\ call'.made = call.made
    BY <1>2, <1>4, <2>2 DEF CallRecords, Lanes
  <2> QED
    BY <1>1, <1>2, <1>4, <2>1, <2>3, ClaimingKeeps DEF Claiming, ledgerVars
<1> QED
  BY <1>3, <1>4 DEF AcquireLaneLease, Try, Goto

LEMMA DispatchKeeps ==
  ASSUME ClaimInv, Dispatch
  PROVE  ClaimInv'
<1>1. pc = "dispatch" /\ UNCHANGED <<ledgerVars, evidence, sched>>
  BY DEF Dispatch, At
<1>2. /\ call \in CallRecords /\ journal \in Seq(Transactions) /\ AboutClaims(journal) /\ StoresTyped
      /\ call.w \in Works /\ reserved[call.w] # 0 /\ call.res \in Nat
  BY <1>1 DEF ClaimInv, Steady, BooksTyped, AtStep, CallFits, ClaimFits, Claiming, CallRecords
<1>3. CASE ClaimFails /\ UNCHANGED laneVars
  BY <1>1, <1>3, ClaimFailsKeeps DEF Claiming, storeVars
<1>4. CASE /\ IF IsRepeatedDispatch THEN UNCHANGED laneVars
              ELSE CheckpointLane(call.w, call.lease, "PROVIDER_DISPATCHED", call.res)
           /\ pc' = "dispatchEvidence" /\ UNCHANGED <<journal, call, mem, jm>>
  <2>1. Quietly /\ \A v \in Works : lanes'[v].status = "RELEASED" => lanes[v].status = "RELEASED"
    <3>1. CASE CheckpointLane(call.w, call.lease, "PROVIDER_DISPATCHED", call.res)
      <4>1. "PROVIDER_DISPATCHED" \in LifecycleStates
        BY DEF LifecycleStates, SuccessStates, SuccessPath
      <4> QED
        BY <1>1, <1>2, <3>1, <4>1, CheckpointIsQuiet
    <3>2. CASE UNCHANGED laneVars
      BY <1>1, <1>2, <3>2, StillIsQuiet DEF storeVars, laneVars
    <3> QED
      BY <1>4, <3>1, <3>2
  <2> QED
    BY <1>1, <1>2, <1>4, <2>1, ClaimingKeeps DEF Claiming, ledgerVars
<1> QED
  BY <1>3, <1>4 DEF Dispatch, Try, Goto

\* The claim is made: it takes a place of the budget, and nothing that
\* conflicts with it is reserved.
LEMMA DispatchEvidenceKeeps ==
  ASSUME ClaimInv, DispatchEvidence
  PROVE  ClaimInv'
<1> DEFINE w == call.w
           n == [NoEntry EXCEPT !.place = "ACTIVE", !.lease = call.lease, !.res = call.res,
                   !.life = "PROVIDER_DISPATCHED", !.ev = <<lanes[w].fence, lanes[w].seq>>]
<1>1. pc = "dispatchEvidence" /\ UNCHANGED <<laneVars, ledgerVars, sched>>
  BY DEF DispatchEvidence, At
<1>2. /\ call \in CallRecords /\ StoresTyped /\ w \in Works /\ reserved[w] # 0
      /\ mem[w].place = "NONE" /\ Cardinality(Holders(mem)) < Capacity /\ call.op = "SCHEDULE"
  BY <1>1 DEF ClaimInv, Steady, BooksTyped, AtStep, CallFits, ClaimFits, Claiming
<1>3. CASE ClaimFails /\ UNCHANGED evidence
  BY <1>1, <1>3, ClaimFailsKeeps DEF Claiming, storeVars
<1>4. CASE /\ Current(w, call.lease) /\ evidence' = evidence \cup {Event("TRANSITION", w)}
           /\ mem' = [mem EXCEPT ![w] = n]
           /\ pc' = "pick" /\ call' = [call EXCEPT !.made = Append(call.made, w)]
           /\ UNCHANGED <<journal, jm>>
  <2>1. Quietly
    BY <1>1, <1>2, <1>4, RecordingIsQuiet
  <2>2. n \in Entries /\ n.place = "ACTIVE"
    <3>1. lanes[w].fence \in Nat /\ lanes[w].seq \in Nat
      BY <1>2 DEF StoresTyped, Lanes
    <3>2. call.lease \in Nat /\ call.res \in Nat
      BY <1>2 DEF CallRecords
    <3>3. "PROVIDER_DISPATCHED" \in LifecycleStates
      BY DEF LifecycleStates, SuccessStates, SuccessPath
    <3> QED
      BY <3>1, <3>2, <3>3 DEF NoEntry, Entries, Places, Outcomes
  <2> HIDE DEF n
  <2>3. sched[w].place = "NONE"
    BY <1>2 DEF ClaimInv, Steady, CopyFollows
  <2>4. mem \in [Works -> Entries] /\ mem' \in [Works -> Entries]
        /\ \A v \in Works : mem'[v] = IF v = w THEN n ELSE mem[v]
    BY <1>2, <1>4, <2>2 DEF ClaimInv, Steady, BooksTyped
  <2>5. call' \in CallRecords /\ call'.op = "SCHEDULE" /\ call'.made = Append(call.made, w)
        /\ call.made \in Seq(Works)
    <3>1. call.made \in Seq(Works) /\ Append(call.made, w) \in Seq(Works)
      BY <1>2 DEF CallRecords
    <3> QED
      BY <1>2, <1>4, <3>1 DEF CallRecords
  <2>6. StoresTyped' /\ BooksTyped' /\ CopyFollows' /\ AboutClaims(journal)' /\ AboutClaims(jm)'
    <3>1. BooksTyped'
      BY <1>1, <1>4, <2>4, <2>5 DEF ClaimInv, Steady, BooksTyped
    <3>2. CopyFollows'
      BY <1>1, <2>3, <2>4, <2>5, <1>2 DEF ClaimInv, Steady, CopyFollows
    <3>3. AboutClaims(journal)' /\ AboutClaims(jm)'
      BY <1>1, <1>4 DEF ClaimInv, Steady, AboutClaims
    <3> QED
      BY <2>1, <3>1, <3>2, <3>3 DEF Quietly
  <2>7. Holders(mem)' = Holders(mem) \cup {w} /\ Holders(sched)' = Holders(sched)
        /\ w \notin Holders(mem)
    BY <1>1, <1>2, <2>2, <2>4 DEF Holders
  <2>8. Fits'
    <3>1. Cardinality(Holders(mem))' <= Capacity
      <4>1. IsFiniteSet(Holders(mem))
        BY FS_Subset, SchedulerAssumption DEF Holders
      <4>2. Cardinality(Holders(mem) \cup {w}) = Cardinality(Holders(mem)) + 1
        BY <2>7, <4>1, FS_AddElement
      <4> QED
        BY <1>2, <2>7, <4>1, <4>2, FS_CardinalityType, SchedulerAssumption
    <3>2. Cardinality(Holders(sched))' <= Capacity
      BY <2>7 DEF ClaimInv, Steady, Fits
    <3>3. ASSUME NEW u \in Works, NEW v \in Works, u # v, {u, v} \in Conflicts
          PROVE  /\ reserved'[u] = 0 \/ reserved'[v] = 0
                 /\ u \in Holders(sched)' \cup Holders(mem)' => reserved'[v] = 0
      <4>1. /\ reserved[u] = 0 \/ reserved[v] = 0
            /\ u \in Holders(sched) \cup Holders(mem) => reserved[v] = 0
        BY <3>3 DEF ClaimInv, Steady, Fits
      <4> QED
        BY <1>1, <1>2, <2>7, <4>1 DEF ledgerVars
    <3> QED
      BY <3>1, <3>2, <3>3 DEF Fits
  <2>9. Frees'
    BY <1>1, <2>2, <2>4 DEF ClaimInv, Steady, Frees, HoldsNothing, Terminal, laneVars, ledgerVars
  <2>10. Steady'
    BY <2>6, <2>8, <2>9 DEF Steady
  <2>11. \A i \in DOMAIN call'.made : sched'[call'.made[i]].place = "NONE"
    BY <1>1, <2>3, <2>5 DEF ClaimInv, AtStep, WorkKnown, Claiming
  <2>12. \A v \in Works : sched'[v].place = "NONE" /\ mem'[v].place # "NONE" =>
           lanes'[v].status # "RELEASED"
    BY <1>1, <1>4, <2>4 DEF ClaimInv, AtStep, FreesAt, Claiming, Current, Holds, laneVars
  <2>13. ClaimFits'
    BY <1>4 DEF ClaimFits, Claiming
  <2>14. AtStep'
    BY <1>4, <2>5, <2>11, <2>12, <2>13, AtClaiming DEF Claiming
  <2> QED
    BY <2>10, <2>14 DEF ClaimInv
<1> QED
  BY <1>3, <1>4 DEF DispatchEvidence, Try, Goto

LEMMA SaveScheduleKeeps ==
  ASSUME ClaimInv, SaveSchedule
  PROVE  ClaimInv'
<1>1. pc = "pick" /\ UNCHANGED storeVars
  BY DEF SaveSchedule, At
<1>2. call.op = "SCHEDULE"
  BY <1>1 DEF ClaimInv, AtStep, CallFits
<1>3. CASE TakeBack(ClaimsMade) /\ UNCHANGED sched
  BY <1>1, <1>2, <1>3, ClaimsMadeAreNew, TakeBackKeeps
<1>4. CASE sched' = mem /\ pc' = "commit" /\ UNCHANGED <<journal, call, mem, jm>>
  <2>1. Steady'
    BY <1>1, <1>2, <1>4, CopyIsSaved DEF ClaimInv, AtStep, FreesAt
  <2>2. AtStep'
    BY <1>2, <1>4 DEF AtStep, CallFits, AnswerFits, WorkKnown, ClaimFits, FreesAt,
      Claiming, Undo, Phase, Recovering, Compensating, OnClaim
  <2> QED
    BY <2>1, <2>2 DEF ClaimInv
<1> QED
  BY <1>3, <1>4 DEF SaveSchedule, Try, Goto

LEMMA CommitScheduleKeeps ==
  ASSUME ClaimInv, CommitSchedule
  PROVE  ClaimInv'
<1>1. pc = "commit" /\ UNCHANGED <<storeVars, sched>>
  BY DEF CommitSchedule, At
<1>2. /\ call.op = "SCHEDULE" /\ call \in CallRecords
      /\ journal \in Seq(Transactions) /\ AboutClaims(journal)
  BY <1>1 DEF ClaimInv, Steady, BooksTyped, AtStep, CallFits
<1>3. CASE EndCall(journal)
  BY <1>1, <1>2, <1>3, EndCallKeeps, StillIsQuiet DEF ClaimInv, Steady
<1>4. CASE /\ call.made # <<>> /\ journal' = Advanced(<<Head(call.made)>>, "COMMITTED")
           /\ call' = [call EXCEPT !.made = Tail(call.made)] /\ UNCHANGED <<pc, mem, jm>>
  <2>1. journal' \in Seq(Transactions) /\ AboutClaims(journal')
    BY <1>2, <1>4, PhaseIsTyped DEF Advanced, Phases, ClosedPhases
  <2>2. call' \in CallRecords /\ call'.op = "SCHEDULE"
    <3>1. Tail(call.made) \in Seq(Works)
      BY <1>2, <1>4 DEF CallRecords
    <3> QED
      BY <1>2, <1>4, <3>1 DEF CallRecords
  <2>3. Steady'
    BY <1>1, <1>2, <1>4, <2>1, <2>2, StepMoves DEF ClaimInv, Steady, BooksTyped
  <2>4. AtStep'
    BY <1>1, <1>4, <2>2 DEF AtStep, CallFits, AnswerFits, WorkKnown, ClaimFits, FreesAt,
      Claiming, Undo, Phase, Recovering, Compensating, OnClaim
  <2> QED
    BY <2>3, <2>4 DEF ClaimInv
<1> QED
  BY <1>3, <1>4 DEF CommitSchedule, Try
\* The rollback of claims the state on disk does not know.
LEMMA UndoingIsNew ==
  ASSUME ClaimInv, pc \in Undo
  PROVE  /\ call \in CallRecords /\ Undoing \in Claims /\ call.undo # <<>>
         /\ sched[Undoing.w].place = "NONE"
<1>1. call \in CallRecords /\ call.undo # <<>>
  BY DEF ClaimInv, Steady, BooksTyped, AtStep, CallFits
<1>2. call.undo \in Seq(Claims)
  BY <1>1 DEF CallRecords
<1>3. Head(call.undo) = call.undo[1] /\ 1 \in DOMAIN call.undo
  BY <1>1, <1>2
<1>4. call.undo[1] \in Claims
  BY <1>2, <1>3
<1> QED
  BY <1>1, <1>3, <1>4 DEF Undoing, ClaimInv, AtStep, WorkKnown

LEMMA UndoMoves ==
  ASSUME ClaimInv, pc \in Undo, pc' \in Undo, NEW f \in BOOLEAN, Noting(f, pc'),
         Quietly, UNCHANGED <<sched, journal, mem, jm>>
  PROVE  ClaimInv'
<1>1. call' \in CallRecords /\ \E b \in BOOLEAN : call' = [call EXCEPT !.failed = b]
  BY DEF Noting, ClaimInv, Steady, BooksTyped, CallRecords
<1>2. Steady'
  <2>1. journal' \in Seq(Transactions) /\ jm' \in Seq(Transactions) /\ call'.op = call.op
    BY <1>1 DEF ClaimInv, Steady, BooksTyped, CallRecords
  <2>2. AboutClaims(journal)' /\ AboutClaims(jm)'
    BY DEF ClaimInv, Steady, AboutClaims
  <2> QED
    BY <1>1, <2>1, <2>2, SteadyKeeps DEF ClaimInv
<1>3. AtStep'
  <2>1. /\ call'.op = call.op /\ call'.undo = call.undo /\ call'.w = call.w
        /\ call'.left = call.left /\ call'.todo = call.todo /\ call'.at = call.at
    BY <1>1 DEF ClaimInv, Steady, BooksTyped, CallRecords
  <2>2. CallFits' /\ WorkKnown'
    BY <2>1 DEF ClaimInv, AtStep, CallFits, WorkKnown, Holders, Claiming, Undo, Phase,
      Recovering, Compensating, OnClaim
  <2> QED
    BY <2>2 DEF AtStep, AnswerFits, ClaimFits, FreesAt, Claiming, Undo, Phase, Compensating, OnClaim
<1> QED
  BY <1>2, <1>3 DEF ClaimInv

LEMMA UndoLeaseKeeps ==
  ASSUME ClaimInv, UndoLease
  PROVE  ClaimInv'
<1>1. pc = "undoLease" /\ UNCHANGED <<ledgerVars, evidence, sched, journal, mem, jm>>
  BY DEF UndoLease, At
<1>2. Undoing.w \in Works /\ sched[Undoing.w].place = "NONE" /\ StoresTyped
  BY <1>1, UndoingIsNew DEF Claims, Undo, ClaimInv, Steady
<1>3. Quietly
  <2>1. CASE UNCHANGED laneVars
    BY <1>1, <1>2, <2>1, StillIsQuiet DEF storeVars
  <2>2. CASE ReleaseLease(Undoing.w, Undoing.lease)
    BY <1>1, <1>2, <2>2, ReleaseIsQuiet
  <2> QED
    BY <2>1, <2>2 DEF UndoLease, Try
<1>4. \E f \in BOOLEAN : Noting(f, "undoReservation")
  BY DEF UndoLease, Try
<1>5. pc' = "undoReservation"
  BY <1>4 DEF Noting, Goto
<1> QED
  BY <1>1, <1>3, <1>4, <1>5, UndoMoves DEF Undo

LEMMA UndoReservationKeeps ==
  ASSUME ClaimInv, UndoReservation
  PROVE  ClaimInv'
<1>1. pc = "undoReservation" /\ UNCHANGED <<laneVars, evidence, sched, journal, mem, jm>>
  BY DEF UndoReservation, At
<1>2. Undoing.w \in Works /\ Undoing.res \in Nat /\ StoresTyped
  BY <1>1, UndoingIsNew DEF Claims, Undo, ClaimInv, Steady
<1>3. Quietly
  <2>1. CASE UNCHANGED ledgerVars
    BY <1>1, <1>2, <2>1, StillIsQuiet DEF storeVars
  <2>2. CASE Free(Undoing.w, Undoing.res)
    BY <1>1, <1>2, <2>2, FreeingIsQuiet
  <2> QED
    BY <2>1, <2>2 DEF UndoReservation, Try
<1>4. \E f \in BOOLEAN : Noting(f, "undone")
  BY DEF UndoReservation, Try
<1>5. pc' = "undone"
  BY <1>4 DEF Noting, Goto
<1> QED
  BY <1>1, <1>3, <1>4, <1>5, UndoMoves DEF Undo

LEMMA UndonePhase == UndoPhase \in Phases
BY DEF UndoPhase, Phases, ClosedPhases

LEMMA UndoneKeeps ==
  ASSUME ClaimInv, Undone
  PROVE  ClaimInv'
<1> DEFINE j == Advanced(<<Undoing.w>>, UndoPhase)
<1>1. pc = "undone" /\ call.op = "SCHEDULE" /\ UNCHANGED <<storeVars, sched>>
  BY DEF Undone
<1>2. call \in CallRecords /\ call.undo # <<>>
  BY <1>1, UndoingIsNew DEF Undo
<1>3. journal \in Seq(Transactions) /\ AboutClaims(journal) /\ Quietly
  BY <1>1, StillIsQuiet DEF ClaimInv, Steady, BooksTyped
<1>4. j \in Seq(Transactions) /\ AboutClaims(j)
  BY <1>3, UndonePhase, PhaseIsTyped DEF Advanced
<1> HIDE DEF j
<1>5. CASE EndCall(j)
  BY <1>1, <1>3, <1>4, <1>5, EndCallKeeps
<1>6. CASE EndCall(journal)
  BY <1>1, <1>3, <1>6, EndCallKeeps
<1>7. CASE /\ Tail(call.undo) # <<>> /\ journal' = j /\ pc' = "undoLease"
           /\ call' = [call EXCEPT !.undo = Tail(call.undo), !.failed = FALSE]
           /\ UNCHANGED <<mem, jm>>
  <2>0. call.undo \in Seq(Claims)
    BY <1>2 DEF CallRecords
  <2>1. Tail(call.undo) \in Seq(Claims)
        /\ \A i \in DOMAIN Tail(call.undo) : i + 1 \in DOMAIN call.undo /\ Tail(call.undo)[i] = call.undo[i + 1]
    BY <1>2, <2>0
  <2>2. call' \in CallRecords /\ call'.op = "SCHEDULE" /\ call'.undo = Tail(call.undo)
    BY <1>1, <1>2, <1>7, <2>1 DEF CallRecords
  <2>3. Steady'
    BY <1>1, <1>4, <1>7, <2>2, StepMoves DEF ClaimInv, Steady, BooksTyped
  <2>4. \A i \in DOMAIN call'.undo : sched'[call'.undo[i].w].place = "NONE"
    BY <1>1, <2>1, <2>2 DEF ClaimInv, AtStep, WorkKnown, Undo
  <2>5. AtStep'
    BY <1>7, <2>2, <2>4 DEF AtStep, CallFits, AnswerFits, WorkKnown, ClaimFits, FreesAt,
      Claiming, Undo, Phase, Recovering, Compensating, OnClaim
  <2> QED
    BY <2>3, <2>5 DEF ClaimInv
<1> QED
  BY <1>5, <1>6, <1>7 DEF Undone, Try, Goto, j

-----------------------------------------------------------------------------
(* phaseOutcome                                                            *)

LEMMA MarkedIsTyped ==
  ASSUME ClaimInv, NEW p \in Phases
  PROVE  Marked(p) \in Seq(Transactions) /\ AboutClaims(Marked(p))
BY PhaseIsTyped DEF Marked, ClaimInv, Steady, BooksTyped

\* Recovery goes on to the next transaction, or to the next claim of its scan.
LEMMA ReplayNextKeeps ==
  ASSUME ClaimInv, call.op = "RECOVER", pc # "saveJournal",
         NEW j \in Seq(Transactions), AboutClaims(j), ReplayNext(j), Quietly, UNCHANGED sched
  PROVE  ClaimInv'
<1>1. /\ call \in CallRecords /\ journal \in Seq(Transactions) /\ AboutClaims(journal)
      /\ call.left \subseteq Holders(sched)
  BY DEF ClaimInv, Steady, BooksTyped, AtStep, WorkKnown
<1>2. jm' = j /\ pc' = "replay" /\ UNCHANGED <<journal, mem>>
  BY DEF ReplayNext, Goto
<1>3. /\ call' \in CallRecords /\ call'.op = "RECOVER" /\ call'.todo = <<>>
      /\ call'.left = call.left /\ call'.at # 0
  <2>1. call' = [call EXCEPT !.at = call.at + 1, !.todo = <<>>, !.w = "NONE", !.kind = "NONE",
                          !.targets = <<>>, !.undo = <<>>, !.failed = FALSE]
    BY <1>1 DEF ReplayNext, CallRecords
  <2>2. call.at + 1 \in Nat /\ call.at + 1 # 0
    BY <1>1 DEF CallRecords
  <2>3. <<>> \in Seq(Works) /\ <<>> \in Seq(LifecycleStates) /\ <<>> \in Seq(Claims) /\ "NONE" \in Kinds
    BY DEF Kinds
  <2> QED
    BY <1>1, <2>1, <2>2, <2>3 DEF CallRecords
<1>4. AboutClaims(journal)' /\ AboutClaims(jm)'
  BY <1>1, <1>2 DEF AboutClaims
<1>5. Steady'
  BY <1>1, <1>2, <1>3, <1>4, SteadyKeeps DEF ClaimInv
<1>6. AtStep'
  BY <1>1, <1>2, <1>3 DEF AtStep, CallFits, AnswerFits, WorkKnown, ClaimFits, FreesAt, Holders,
      Claiming, Undo, Phase, Recovering, Compensating, OnClaim
<1> QED
  BY <1>5, <1>6 DEF ClaimInv

\* A step of the scan back to the scan.
LEMMA ScanKeeps ==
  ASSUME ClaimInv, call.op = "RECOVER", pc \notin {"saveReap", "supersede", "close", "saveJournal"},
         pc' = "scan", UNCHANGED <<sched, mem>>, Quietly,
         jm' \in Seq(Transactions), AboutClaims(jm'),
         journal' \in Seq(Transactions), AboutClaims(journal'),
         call' \in CallRecords, call'.op = "RECOVER", call'.left \subseteq call.left,
         call'.todo = call.todo, call'.at = call.at
  PROVE  ClaimInv'
<1>1. AboutClaims(journal)' /\ AboutClaims(jm)'
  BY DEF AboutClaims
<1>2. Steady'
  BY <1>1, SteadyKeeps DEF ClaimInv
<1>3. AtStep'
  BY DEF ClaimInv, AtStep, CallFits, AnswerFits, WorkKnown, ClaimFits, FreesAt, Holders,
      Claiming, Undo, Phase, Recovering, Compensating, OnClaim
<1> QED
  BY <1>2, <1>3 DEF ClaimInv

LEMMA RepairFailsKeeps ==
  ASSUME ClaimInv, call.op = "RECOVER", pc \in OnClaim \cup {"repaired"}, RepairFails, Quietly, UNCHANGED sched
  PROVE  ClaimInv'
<1>1. jm' = Marked("RECOVERY_REQUIRED") /\ journal' = Pending(jm') /\ pc' = "scan" /\ UNCHANGED mem
  BY DEF RepairFails, Goto
<1>2. jm' \in Seq(Transactions) /\ AboutClaims(jm')
  BY <1>1, MarkedIsTyped DEF Phases
<1>3. journal' \in Seq(Transactions) /\ AboutClaims(journal')
  BY <1>1, <1>2, PendingKeeps
<1>4. /\ call' \in CallRecords /\ call'.op = "RECOVER" /\ call'.left \subseteq call.left
      /\ call'.todo = call.todo /\ call'.at = call.at
  <2>1. call \in CallRecords
    BY DEF ClaimInv, Steady, BooksTyped
  <2>2. call' = [call EXCEPT !.left = call.left \ {call.w}, !.w = "NONE", !.kind = "NONE"]
    BY <2>1 DEF RepairFails, CallRecords
  <2> QED
    BY <2>1, <2>2 DEF CallRecords, Kinds
<1> QED
  BY <1>1, <1>2, <1>3, <1>4, ScanKeeps DEF OnClaim, Phase, Compensating

LEMMA RecoveryPhaseFailsKeeps ==
  ASSUME ClaimInv, call.op = "RECOVER", pc \in OnClaim, RecoveryPhaseFails, Quietly, UNCHANGED sched
  PROVE  ClaimInv'
<1>1. /\ journal \in Seq(Transactions) /\ AboutClaims(journal)
      /\ jm \in Seq(Transactions) /\ AboutClaims(jm) /\ pc # "saveJournal"
  BY DEF ClaimInv, Steady, BooksTyped, OnClaim, Phase, Compensating
<1>2. \/ RepairFails \/ ReplayNext(jm) \/ ReplayNext(Marked("RECOVERY_REQUIRED"))
      \/ EndCall(journal)
  BY DEF RecoveryPhaseFails
<1>3. CASE RepairFails
  BY <1>3, RepairFailsKeeps
<1>4. CASE ReplayNext(jm)
  BY <1>1, <1>4, ReplayNextKeeps
<1>5. CASE ReplayNext(Marked("RECOVERY_REQUIRED"))
  BY <1>1, <1>5, ReplayNextKeeps, MarkedIsTyped DEF Phases
<1>6. CASE EndCall(journal)
  BY <1>1, <1>6, EndCallKeeps
<1> QED
  BY <1>2, <1>3, <1>4, <1>5, <1>6

\* From one step of phaseOutcome to another, about the same claim.
LEMMA AtPhase ==
  ASSUME ClaimInv, Quietly, pc \in Phase, pc' \in Phase, UNCHANGED <<sched, jm>>,
         call'.op = call.op, call'.w = call.w, call'.kind = call.kind,
         call'.todo = call.todo, call'.left = call.left, call'.at = call.at,
         mem'[call.w].place = mem[call.w].place,
         pc' = "checkpoint" => call'.targets # <<>>,
         call.kind = "RECLAIM" => pc' \in {"live", "reclaimEvidence", "targets"},
         pc' \in {"release", "free"} => EndsClaim(call.kind),
         pc' = "free" => lanes'[call.w].status = "RELEASED"
  PROVE  AtStep'
<1>1. CallFits'
  BY DEF ClaimInv, AtStep, CallFits, Reaping, Replayed, Claiming, Undo, Phase, Recovering,
    Compensating, OnClaim
<1>2. AnswerFits'
  BY DEF ClaimInv, AtStep, AnswerFits, Phase
<1>3. WorkKnown'
  BY DEF ClaimInv, AtStep, WorkKnown, Holders, Claiming, Undo, Phase, Compensating, OnClaim
<1>4. ClaimFits' /\ FreesAt'
  BY DEF ClaimFits, FreesAt, Claiming, Phase
<1> QED
  BY <1>1, <1>2, <1>3, <1>4 DEF AtStep

LEMMA PhaseMoves ==
  ASSUME ClaimInv, Quietly, pc \in Phase, pc' \in Phase, UNCHANGED <<sched, mem, journal, jm>>,
         call' \in CallRecords,
         call'.op = call.op, call'.w = call.w, call'.kind = call.kind,
         call'.todo = call.todo, call'.left = call.left, call'.at = call.at,
         pc' = "checkpoint" => call'.targets # <<>>,
         call.kind = "RECLAIM" => pc' \in {"live", "reclaimEvidence", "targets"},
         pc' \in {"release", "free"} => EndsClaim(call.kind),
         pc' = "free" => lanes'[call.w].status = "RELEASED"
  PROVE  ClaimInv'
<1>1. AboutClaims(journal)' /\ AboutClaims(jm)' /\ journal' \in Seq(Transactions) /\ jm' \in Seq(Transactions)
  BY DEF ClaimInv, Steady, BooksTyped, AboutClaims
<1>2. Steady'
  BY <1>1, SteadyKeeps DEF ClaimInv
<1>3. AtStep'
  BY AtPhase
<1> QED
  BY <1>2, <1>3 DEF ClaimInv

LEMMA PhaseIsKnown ==
  ASSUME ClaimInv, pc \in Phase
  PROVE  /\ call \in CallRecords /\ call.w \in Works /\ call.w \in Holders(sched)
         /\ call.op \in {"OUTCOME", "REAP_BATCH", "RECOVER"}
         /\ StoresTyped /\ mem \in [Works -> Entries]
         /\ journal \in Seq(Transactions) /\ AboutClaims(journal)
         /\ jm \in Seq(Transactions) /\ AboutClaims(jm)
         /\ call.kind \in Answers \cup {"RECLAIM"}
         /\ call.kind = "RECLAIM" => call.op = "RECOVER" /\ pc \in {"live", "reclaimEvidence", "targets"}
         /\ call.op = "RECOVER" => call.kind # "RUNNING"
BY DEF ClaimInv, Steady, BooksTyped, AtStep, CallFits, AnswerFits, WorkKnown, OnClaim

LEMMA PhaseFailsKeeps ==
  ASSUME ClaimInv, pc \in Phase, PhaseFails, Quietly, UNCHANGED sched
  PROVE  ClaimInv'
<1>1. /\ call \in CallRecords /\ call.op \in {"OUTCOME", "REAP_BATCH", "RECOVER"}
      /\ journal \in Seq(Transactions) /\ AboutClaims(journal) /\ call.w \in Works
      /\ call.kind = "RECLAIM" => call.op = "RECOVER"
  BY PhaseIsKnown
<1>2. CASE call.op = "RECOVER"
  BY <1>2, RecoveryPhaseFailsKeeps DEF PhaseFails, OnClaim
<1>3. CASE EndCall([journal EXCEPT ![Len(journal)].phase = "RECOVERY_REQUIRED"])
  BY <1>1, <1>3, PhaseIsTyped, EndCallKeeps DEF Phases
<1>4. CASE /\ call.op # "RECOVER"
           /\ pc' = IF EndsClaim(call.kind) /\ lanes[call.w].status = "RELEASED" THEN "free" ELSE "live"
           /\ call' = [call EXCEPT !.second = TRUE, !.targets = <<>>]
           /\ UNCHANGED <<journal, mem, jm>>
  <2>1. /\ call' \in CallRecords /\ call'.op = call.op /\ call'.w = call.w /\ call'.kind = call.kind
        /\ call'.todo = call.todo /\ call'.left = call.left /\ call'.at = call.at
    <3>1. <<>> \in Seq(LifecycleStates)
      OBVIOUS
    <3> QED
      BY <1>1, <1>4, <3>1 DEF CallRecords
  <2>2. pc' \in {"free", "live"}
        /\ (pc' = "free" => EndsClaim(call.kind) /\ lanes'[call.w].status = "RELEASED")
    BY <1>1, <1>4 DEF Quietly
  <2> QED
    BY <1>1, <1>4, <2>1, <2>2, PhaseMoves DEF Phase
<1> QED
  BY <1>2, <1>3, <1>4 DEF PhaseFails, Goto

\* The copy's entry changes while the lane is not released.
LEMMA EntryMoves ==
  ASSUME ClaimInv, pc \in Phase \cup Compensating, UNCHANGED <<sched, journal, jm>>, Quietly,
         call' \in CallRecords, call'.op = call.op,
         NEW e \in Entries, e.place = mem[call.w].place, mem' = [mem EXCEPT ![call.w] = e],
         lanes[call.w].status # "RELEASED"
  PROVE  Steady' /\ mem'[call.w].place = mem[call.w].place
<1>1. /\ call.w \in Works /\ call.w \in Holders(sched) /\ mem \in [Works -> Entries]
      /\ call.op \in {"OUTCOME", "REAP_BATCH", "RECOVER"}
  BY DEF ClaimInv, Steady, BooksTyped, AtStep, CallFits, WorkKnown, OnClaim, Recovering
<1>2. mem[call.w].place # "RELEASED"
  BY <1>1 DEF ClaimInv, Steady, Frees, HoldsNothing
<1>3. MayBecome(sched[call.w], mem[call.w]) /\ sched[call.w].place # "RELEASED"
  BY <1>1 DEF ClaimInv, Steady, CopyFollows, Holders
<1>4. MayBecome(sched[call.w], e)
  BY <1>3 DEF MayBecome
<1>5. e.place \in {"ACTIVE", "RECONCILIATION"} => call.w \in Holders(mem)
  BY <1>1 DEF Holders
<1>6. /\ journal' \in Seq(Transactions) /\ AboutClaims(journal)'
      /\ jm' \in Seq(Transactions) /\ AboutClaims(jm)'
  BY DEF ClaimInv, Steady, BooksTyped, AboutClaims
<1>7. Steady
  BY DEF ClaimInv
<1>8. e.place # "RELEASED"
  BY <1>2
<1>9. Steady'
  BY <1>1, <1>4, <1>5, <1>6, <1>7, <1>8, ClaimMoves
<1> QED
  BY <1>1, <1>9
LEMMA ExpireLapsedKeeps ==
  ASSUME ClaimInv, ExpireLapsed
  PROVE  ClaimInv'
<1>1. pc = "live" /\ pc \in Phase /\ UNCHANGED <<ledgerVars, evidence, sched>>
  BY DEF ExpireLapsed, At, Phase
<1>2. call \in CallRecords /\ call.w \in Works /\ StoresTyped
  BY <1>1, PhaseIsKnown
<1>3. CASE PhaseFails /\ UNCHANGED laneVars
  BY <1>1, <1>2, <1>3, PhaseFailsKeeps, StillIsQuiet DEF storeVars
<1>4. CASE ExpireLease(call.w, mem[call.w].lease) /\ UNCHANGED <<pc, journal, call, mem, jm>>
  <2>1. Quietly
    BY <1>1, <1>2, <1>4, ExpiryIsQuiet
  <2> QED
    BY <1>1, <1>2, <1>4, <2>1, PhaseMoves
<1> QED
  BY <1>3, <1>4 DEF ExpireLapsed, Try

LEMMA ReclaimExpiredKeeps ==
  ASSUME ClaimInv, ReclaimExpired
  PROVE  ClaimInv'
<1>1. pc = "live" /\ pc \in Phase /\ UNCHANGED <<ledgerVars, evidence, sched>>
  BY DEF ReclaimExpired, At, Phase
<1>2. call \in CallRecords /\ call.w \in Works /\ StoresTyped /\ mem \in [Works -> Entries]
  BY <1>1, PhaseIsKnown
<1>3. CASE PhaseFails /\ UNCHANGED laneVars
  BY <1>1, <1>2, <1>3, PhaseFailsKeeps, StillIsQuiet DEF storeVars
<1>4. CASE /\ ReclaimLease(call.w, mem[call.w].lease)
           /\ mem' = [mem EXCEPT ![call.w].lease = nextLeaseFence]
           /\ pc' = "reclaimEvidence" /\ UNCHANGED <<journal, call, jm>>
  <2> DEFINE e == [mem[call.w] EXCEPT !.lease = nextLeaseFence]
  <2>1. Quietly /\ lanes[call.w].status # "RELEASED"
    BY <1>1, <1>2, <1>4, ExpiryIsQuiet DEF ReclaimLease, MayReclaim
  <2>2. mem[call.w] \in Entries /\ nextLeaseFence \in Nat
    BY <1>2 DEF StoresTyped
  <2>3. e \in Entries /\ e.place = mem[call.w].place
    BY <2>2 DEF Entries
  <2>4. mem' = [mem EXCEPT ![call.w] = e]
    BY <1>4
  <2> HIDE DEF e
  <2>5. Steady' /\ mem'[call.w].place = mem[call.w].place
    BY <1>1, <1>2, <1>4, <2>1, <2>3, <2>4, EntryMoves
  <2>6. AtStep'
    BY <1>1, <1>4, <2>1, <2>5, AtPhase DEF Phase
  <2> QED
    BY <2>5, <2>6 DEF ClaimInv
<1> QED
  BY <1>3, <1>4 DEF ReclaimExpired, Try, Goto

LEMMA ReclaimEvidenceKeeps ==
  ASSUME ClaimInv, ReclaimEvidence
  PROVE  ClaimInv'
<1> DEFINE w == call.w
<1>1. pc = "reclaimEvidence" /\ pc \in Phase /\ UNCHANGED <<laneVars, ledgerVars, sched>>
  BY DEF ReclaimEvidence, At, Phase
<1>2. call \in CallRecords /\ w \in Works /\ StoresTyped /\ mem \in [Works -> Entries]
  BY <1>1, PhaseIsKnown
<1>3. CASE PhaseFails /\ UNCHANGED evidence
  BY <1>1, <1>2, <1>3, PhaseFailsKeeps, StillIsQuiet DEF storeVars
<1>4. CASE /\ Current(w, mem[w].lease)
           /\ evidence' = evidence \cup {Event("WORKER", w)}
           /\ mem' = [mem EXCEPT ![w].ev = <<lanes[w].fence, lanes[w].seq>>]
           /\ pc' = "targets" /\ UNCHANGED <<journal, call, jm>>
  <2> DEFINE e == [mem[w] EXCEPT !.ev = <<lanes[w].fence, lanes[w].seq>>]
  <2>1. Quietly /\ lanes[w].status # "RELEASED"
    BY <1>1, <1>2, <1>4, RecordingIsQuiet DEF Current, Holds
  <2>2. mem[w] \in Entries /\ lanes[w].fence \in Nat /\ lanes[w].seq \in Nat
    BY <1>2 DEF StoresTyped, Lanes
  <2>3. e \in Entries /\ e.place = mem[w].place
    BY <2>2 DEF Entries
  <2>4. mem' = [mem EXCEPT ![w] = e]
    BY <1>4
  <2> HIDE DEF e
  <2>5. Steady' /\ mem'[w].place = mem[w].place
    BY <1>1, <1>2, <1>4, <2>1, <2>3, <2>4, EntryMoves
  <2>6. AtStep'
    BY <1>1, <1>4, <2>1, <2>5, AtPhase DEF Phase
  <2> QED
    BY <2>5, <2>6 DEF ClaimInv
<1> QED
  BY <1>3, <1>4 DEF ReclaimEvidence, Try, Goto

LEMMA LaneIsLiveKeeps ==
  ASSUME ClaimInv, LaneIsLive
  PROVE  ClaimInv'
<1>1. /\ pc = "live" /\ pc \in Phase /\ pc' = "targets" /\ pc' \in Phase
      /\ UNCHANGED <<storeVars, sched, journal, call, mem, jm>>
  BY DEF LaneIsLive, At, Phase, Goto
<1> QED
  BY <1>1, PhaseIsKnown, StillIsQuiet, PhaseMoves

LEMMA NoLiveLaneKeeps ==
  ASSUME ClaimInv, NoLiveLane
  PROVE  ClaimInv'
<1>1. pc \in Phase /\ UNCHANGED <<storeVars, sched>> /\ PhaseFails
  BY DEF NoLiveLane, At, Phase
<1> QED
  BY <1>1, PhaseIsKnown, StillIsQuiet, PhaseFailsKeeps

\* The states of the completion path are states of the lifecycle.
LEMMA TargetsAreStates ==
  ASSUME NEW k \in Answers, NEW life \in LifecycleStates, k = "SUCCEEDED" => OnPath(life)
  PROVE  TargetsOf(k, life) \in Seq(LifecycleStates)
<1>1. /\ CompletionPath \in Seq(LifecycleStates) /\ Len(CompletionPath) = 10
      /\ {"REROUTE_PENDING", "EXECUTING", "FAILED_TERMINAL"} \subseteq LifecycleStates
  BY DEF CompletionPath, LifecycleStates, SuccessStates, SuccessPath, NonSuccessStates
<1>2. CASE k = "SUCCEEDED"
  <2> DEFINE i == CHOOSE i \in DOMAIN CompletionPath : CompletionPath[i] = life
  <2>1. i \in DOMAIN CompletionPath
    BY <1>2 DEF OnPath
  <2>2. i \in 1 .. 10
    BY <1>1, <2>1
  <2> HIDE DEF i
  <2>3. /\ i + 1 \in Int /\ Len(CompletionPath) \in Int
        /\ \A n \in i + 1 .. Len(CompletionPath) : CompletionPath[n] \in LifecycleStates
    <3>1. \A n \in 1 .. Len(CompletionPath) : CompletionPath[n] \in LifecycleStates
      BY <1>1, ElementOfSeq
    <3> QED
      BY <1>1, <2>2, <3>1
  <2>4. SubSeq(CompletionPath, i + 1, Len(CompletionPath)) \in Seq(LifecycleStates)
    BY <2>3, SubSeqProperties
  <2> QED
    BY <1>2, <2>4 DEF TargetsOf, PathAfter, i
<1>3. CASE k # "SUCCEEDED"
  BY <1>1, <1>3 DEF TargetsOf, Answers
<1> QED
  BY <1>2, <1>3

LEMMA ChooseTargetsKeeps ==
  ASSUME ClaimInv, ChooseTargets
  PROVE  ClaimInv'
<1> DEFINE ts == TargetsOf(call.kind, lanes[call.w].life)
<1>1. pc = "targets" /\ pc \in Phase /\ UNCHANGED <<storeVars, sched>>
  BY DEF ChooseTargets, At, Phase
<1>2. /\ call \in CallRecords /\ call.w \in Works /\ StoresTyped /\ mem \in [Works -> Entries] /\ Quietly
      /\ call.kind \in Answers \cup {"RECLAIM"} /\ call.w \in Holders(sched)
      /\ journal \in Seq(Transactions) /\ AboutClaims(journal)
      /\ jm \in Seq(Transactions) /\ AboutClaims(jm)
      /\ call.kind = "RECLAIM" => call.op = "RECOVER"
  BY <1>1, PhaseIsKnown, StillIsQuiet
<1>3. CASE PhaseFails
  BY <1>1, <1>2, <1>3, PhaseFailsKeeps
<1>4. CASE call.kind = "RECLAIM" /\ pc' = "repaired" /\ UNCHANGED <<journal, call, mem, jm>>
  <2>1. Steady'
    BY <1>1, <1>2, <1>4, CallMoves DEF ClaimInv
  <2>2. AtStep'
    BY <1>1, <1>2, <1>4 DEF ClaimInv, AtStep, CallFits, AnswerFits, WorkKnown, ClaimFits, FreesAt, Holders,
      Claiming, Undo, Phase, Recovering, Compensating, OnClaim
  <2> QED
    BY <2>1, <2>2 DEF ClaimInv
<1>5. CASE /\ call.kind # "RECLAIM" /\ MayAnswer(call.w)
           /\ call' = [call EXCEPT !.targets = ts]
           /\ pc' = IF ts = <<>> THEN "outcomeEvidence" ELSE "checkpoint"
           /\ UNCHANGED <<journal, mem, jm>>
  <2>1. lanes[call.w].life \in LifecycleStates
    BY <1>2 DEF StoresTyped, Lanes
  <2>2. ts \in Seq(LifecycleStates)
    BY <1>2, <1>5, <2>1, TargetsAreStates DEF MayAnswer
  <2> HIDE DEF ts
  <2>3. /\ call' \in CallRecords /\ call'.op = call.op /\ call'.w = call.w /\ call'.kind = call.kind
        /\ call'.todo = call.todo /\ call'.left = call.left /\ call'.at = call.at /\ call'.targets = ts
    BY <1>2, <1>5, <2>2 DEF CallRecords
  <2>4. pc' \in {"outcomeEvidence", "checkpoint"} /\ (pc' = "checkpoint" => call'.targets # <<>>)
    BY <1>5, <2>3
  <2> QED
    BY <1>1, <1>2, <1>5, <2>3, <2>4, PhaseMoves DEF Phase
<1> QED
  BY <1>3, <1>4, <1>5 DEF ChooseTargets, Goto

LEMMA CheckpointKeeps ==
  ASSUME ClaimInv, Checkpoint
  PROVE  ClaimInv'
<1> DEFINE w == call.w
<1>1. pc = "checkpoint" /\ pc \in Phase /\ UNCHANGED <<ledgerVars, evidence, sched>>
  BY DEF Checkpoint, At, Phase
<1>2. call \in CallRecords /\ w \in Works /\ StoresTyped /\ mem \in [Works -> Entries]
      /\ call.kind # "RECLAIM"
  BY <1>1, PhaseIsKnown
<1>3. CASE PhaseFails /\ UNCHANGED laneVars
  BY <1>1, <1>2, <1>3, PhaseFailsKeeps, StillIsQuiet DEF storeVars
<1>4. CASE /\ CheckpointLane(w, mem[w].lease, Head(call.targets), mem[w].res)
           /\ call' = [call EXCEPT !.targets = Tail(call.targets)]
           /\ pc' = IF Tail(call.targets) = <<>> THEN "outcomeEvidence" ELSE "checkpoint"
           /\ UNCHANGED <<journal, mem, jm>>
  <2>1. call.targets # <<>> /\ call.targets \in Seq(LifecycleStates)
    BY <1>1, <1>2 DEF ClaimInv, AtStep, CallFits, CallRecords
  <2>2. Head(call.targets) \in LifecycleStates /\ Tail(call.targets) \in Seq(LifecycleStates)
    BY <2>1
  <2>3. mem[w] \in Entries
    BY <1>2
  <2>4. mem[w].res \in Nat
    BY <2>3 DEF Entries
  <2>5. Quietly
    BY <1>1, <1>2, <1>4, <2>2, <2>4, CheckpointIsQuiet
  <2>6. /\ call' \in CallRecords /\ call'.op = call.op /\ call'.w = call.w /\ call'.kind = call.kind
        /\ call'.todo = call.todo /\ call'.left = call.left /\ call'.at = call.at
        /\ call'.targets = Tail(call.targets)
    BY <1>2, <1>4, <2>2 DEF CallRecords
  <2>7. pc' \in {"outcomeEvidence", "checkpoint"} /\ (pc' = "checkpoint" => call'.targets # <<>>)
    BY <1>4, <2>6
  <2> QED
    BY <1>1, <1>2, <1>4, <2>5, <2>6, <2>7, PhaseMoves DEF Phase
<1> QED
  BY <1>3, <1>4 DEF Checkpoint, Try, Goto

LEMMA ReleaseAnsweredKeeps ==
  ASSUME ClaimInv, ReleaseAnswered
  PROVE  ClaimInv'
<1>1. pc = "release" /\ pc \in Phase /\ UNCHANGED <<ledgerVars, evidence, sched>>
  BY DEF ReleaseAnswered, At, Phase
<1>2. call \in CallRecords /\ call.w \in Works /\ StoresTyped /\ EndsClaim(call.kind)
  BY <1>1, PhaseIsKnown DEF ClaimInv, AtStep, AnswerFits
<1>3. CASE PhaseFails /\ UNCHANGED laneVars
  BY <1>1, <1>2, <1>3, PhaseFailsKeeps, StillIsQuiet DEF storeVars
<1>4. CASE /\ Terminal(call.w) /\ ReleaseLease(call.w, mem[call.w].lease)
           /\ pc' = "free" /\ UNCHANGED <<journal, call, mem, jm>>
  <2>1. Quietly /\ lanes'[call.w].status = "RELEASED"
    BY <1>1, <1>2, <1>4, ReleaseIsQuiet
  <2> QED
    BY <1>1, <1>2, <1>4, <2>1, PhaseMoves DEF Phase, EndsClaim
<1> QED
  BY <1>3, <1>4 DEF ReleaseAnswered, Try, Goto

\* A claim of a batch is done with: its reservation was the last to go.
LEMMA ReapedNextKeeps ==
  ASSUME ClaimInv, Quietly, pc \in Phase, UNCHANGED sched, call.op = "REAP_BATCH", ReapedNext,
         UNCHANGED laneVars, lanes[call.w].status = "RELEASED", reserved'[call.w] = 0
  PROVE  ClaimInv'
<1> DEFINE w == call.w
           rest == Tail(call.todo)
           e == [mem[w] EXCEPT !.place = "RELEASED", !.life = lanes[w].life,
                   !.outcome = "AMBIGUOUS_REAPED", !.ev = <<lanes[w].fence, lanes[w].seq>>]
<1>1. /\ call \in CallRecords /\ w \in Works /\ StoresTyped /\ mem \in [Works -> Entries]
      /\ w \in Holders(sched)
      /\ journal \in Seq(Transactions) /\ AboutClaims(journal)
      /\ jm \in Seq(Transactions) /\ AboutClaims(jm)
  BY PhaseIsKnown
<1>2. /\ UNCHANGED <<journal, jm>> /\ mem' = AfterAnswer(mem, w, "RELEASED", "AMBIGUOUS_REAPED")
      /\ call' = [call EXCEPT !.todo = rest, !.second = FALSE,
                              !.w = IF rest = <<>> THEN "NONE" ELSE Head(rest)]
      /\ pc' = IF rest = <<>> THEN "saveReap" ELSE "live"
  BY DEF ReapedNext, Goto
<1>3. mem[w] \in Entries /\ lanes[w] \in Lanes
  BY <1>1 DEF StoresTyped
<1>4. e \in Entries /\ e.place = "RELEASED" /\ e.life = lanes[w].life
  BY <1>3 DEF Entries, Lanes, Places, Outcomes
<1>5. mem' = [mem EXCEPT ![w] = e]
  BY <1>1, <1>2 DEF AfterAnswer
<1>6. call.todo # <<>> /\ call.kind = "FAILED" /\ call.todo \in Seq(Works)
  BY <1>1 DEF ClaimInv, AtStep, CallFits, Reaping, CallRecords
<1>7. /\ rest \in Seq(Works) /\ (rest # <<>> => Head(rest) \in Works /\ Head(rest) = call.todo[2] /\ 2 \in DOMAIN call.todo)
      /\ \A i \in DOMAIN rest : i + 1 \in DOMAIN call.todo /\ rest[i] = call.todo[i + 1]
  BY <1>6
<1> HIDE DEF rest, e
<1>8. /\ call' \in CallRecords /\ call'.op = "REAP_BATCH" /\ call'.todo = rest /\ call'.kind = "FAILED"
      /\ call'.w = IF rest = <<>> THEN "NONE" ELSE Head(rest)
  BY <1>1, <1>2, <1>6, <1>7 DEF CallRecords
<1>9. Steady'
  <2>0. Frees /\ Steady /\ lanes' = lanes
    BY DEF ClaimInv, Steady, laneVars
  <2>1. /\ lanes'[w].life \in TerminalStates /\ lanes'[w].status = "RELEASED"
        /\ lanes'[w].life = e.life
    <3>1. Terminal(w)
      BY <1>1, <2>0 DEF Frees, Holders
    <3> QED
      BY <1>1, <1>4, <2>0, <3>1 DEF Terminal
  <2>2. MayBecome(sched[w], e)
    BY <1>1, <1>4 DEF MayBecome, Holders
  <2>3. AboutClaims(journal)' /\ AboutClaims(jm)'
    BY <1>1, <1>2 DEF AboutClaims
  <2> QED
    BY <1>1, <1>2, <1>4, <1>5, <1>8, <2>0, <2>1, <2>2, <2>3, ClaimMoves
<1>10. \A i \in DOMAIN call.todo : call.todo[i] \in Holders(sched)
  BY DEF ClaimInv, AtStep, WorkKnown, Phase
<1>11. /\ \A i \in DOMAIN rest : rest[i] \in Holders(sched)'
       /\ rest # <<>> => Head(rest) \in Holders(sched)' /\ Head(rest) \in Works
  BY <1>7, <1>10 DEF Holders
<1>12. AtStep'
  <2>1. CASE rest = <<>>
    BY <1>2, <1>8, <2>1 DEF AtStep, CallFits, AnswerFits, WorkKnown, ClaimFits, FreesAt, Reaping,
      Claiming, Undo, Phase, Recovering, Compensating, OnClaim
  <2>2. CASE rest # <<>>
    BY <1>2, <1>8, <1>11, <2>2 DEF AtStep, CallFits, AnswerFits, WorkKnown, ClaimFits, FreesAt, Reaping,
      Answers, Claiming, Undo, Phase, Recovering, Compensating, OnClaim
  <2> QED
    BY <2>1, <2>2
<1> QED
  BY <1>9, <1>12 DEF ClaimInv
LEMMA PhaseDoneKeeps ==
  ASSUME ClaimInv, Quietly, pc \in {"outcomeEvidence", "free"}, PhaseDone,
         UNCHANGED sched, UNCHANGED laneVars,
         EndsClaim(call.kind) => lanes[call.w].status = "RELEASED" /\ reserved'[call.w] = 0
  PROVE  ClaimInv'
<1>1. pc \in Phase
  BY DEF Phase
<1>2. /\ call \in CallRecords /\ call.w \in Works /\ call.w \in Holders(sched)
      /\ call.op \in {"OUTCOME", "REAP_BATCH", "RECOVER"}
      /\ journal \in Seq(Transactions) /\ AboutClaims(journal)
      /\ jm \in Seq(Transactions) /\ AboutClaims(jm)
      /\ call.kind \in Answers
      /\ call.op = "RECOVER" => call.kind # "RUNNING"
  BY <1>1, PhaseIsKnown
<1>3. CASE call.op = "REAP_BATCH"
  <2>1. ReapedNext
    BY <1>3 DEF PhaseDone
  <2>2. call.kind = "FAILED"
    BY <1>1, <1>3 DEF ClaimInv, AtStep, CallFits, Reaping
  <2> QED
    BY <1>1, <1>3, <2>1, <2>2, ReapedNextKeeps DEF EndsClaim
<1>4. CASE call.op # "REAP_BATCH"
  <2>1. /\ pc' = IF call.op = "OUTCOME" THEN "apply"
                 ELSE IF EndsClaim(call.kind) THEN "refree" ELSE "project"
        /\ UNCHANGED <<journal, call, mem, jm>>
    BY <1>2, <1>4 DEF PhaseDone, Goto
  <2>2. Steady'
    BY <1>2, <2>1, SteadyKeeps DEF ClaimInv, AboutClaims
  <2>3. /\ EndsClaim(call.kind) => lanes'[call.w].status = "RELEASED" /\ reserved'[call.w] = 0
        /\ call.kind \in {"RUNNING", "UNKNOWN"} => mem[call.w].place = "ACTIVE"
    BY <1>1 DEF laneVars, ClaimInv, AtStep, AnswerFits
  <2>4. CallFits'
    BY <1>1, <1>2, <1>4, <2>1 DEF ClaimInv, AtStep, CallFits, Reaping, Replayed, Claiming, Undo, Phase, Recovering,
      Compensating, OnClaim
  <2>5. AnswerFits'
    BY <1>2, <1>4, <2>1, <2>3 DEF AnswerFits, EndsClaim, Answers, Phase
  <2>6. WorkKnown' /\ ClaimFits' /\ FreesAt'
    BY <1>1, <1>2, <1>4, <2>1, <2>3 DEF ClaimInv, AtStep, WorkKnown, ClaimFits, FreesAt, Holders,
      Claiming, Undo, Phase, Compensating, OnClaim
  <2> QED
    BY <2>2, <2>4, <2>5, <2>6 DEF ClaimInv, AtStep
<1> QED
  BY <1>3, <1>4

LEMMA OutcomeEvidenceKeeps ==
  ASSUME ClaimInv, OutcomeEvidence
  PROVE  ClaimInv'
<1>1. pc = "outcomeEvidence" /\ pc \in Phase /\ UNCHANGED <<laneVars, ledgerVars, sched>>
  BY DEF OutcomeEvidence, At, Phase
<1>2. call \in CallRecords /\ call.w \in Works /\ StoresTyped /\ call.kind # "RECLAIM"
  BY <1>1, PhaseIsKnown
<1>3. CASE PhaseFails /\ UNCHANGED evidence
  BY <1>1, <1>2, <1>3, PhaseFailsKeeps, StillIsQuiet DEF storeVars
<1>4. CASE /\ evidence' = evidence \cup {Event("PROVIDER", call.w)}
           /\ IF EndsClaim(call.kind) THEN pc' = "release" /\ UNCHANGED <<journal, call, mem, jm>>
              ELSE PhaseDone
  <2>1. Quietly
    BY <1>1, <1>2, <1>4, RecordingIsQuiet
  <2>2. CASE EndsClaim(call.kind)
    BY <1>1, <1>2, <1>4, <2>1, <2>2, PhaseMoves DEF Phase
  <2>3. CASE ~EndsClaim(call.kind)
    BY <1>1, <1>4, <2>1, <2>3, PhaseDoneKeeps
  <2> QED
    BY <2>2, <2>3
<1> QED
  BY <1>3, <1>4 DEF OutcomeEvidence, Try, Goto

LEMMA FreeAnsweredKeeps ==
  ASSUME ClaimInv, FreeAnswered
  PROVE  ClaimInv'
<1>1. pc = "free" /\ pc \in Phase /\ UNCHANGED <<laneVars, evidence, sched>>
  BY DEF FreeAnswered, At, Phase
<1>2. call \in CallRecords /\ call.w \in Works /\ StoresTyped /\ mem \in [Works -> Entries]
      /\ lanes[call.w].status = "RELEASED"
  BY <1>1, PhaseIsKnown DEF ClaimInv, AtStep, FreesAt
<1>3. CASE PhaseFails /\ UNCHANGED ledgerVars
  BY <1>1, <1>2, <1>3, PhaseFailsKeeps, StillIsQuiet DEF storeVars
<1>4. CASE Free(call.w, mem[call.w].res) /\ PhaseDone
  <2>1. mem[call.w] \in Entries
    BY <1>2
  <2>2. mem[call.w].res \in Nat
    BY <2>1 DEF Entries
  <2>3. Quietly /\ reserved'[call.w] = 0
    BY <1>1, <1>2, <1>4, <2>2, FreeingIsQuiet
  <2> QED
    BY <1>1, <1>2, <1>4, <2>3, PhaseDoneKeeps
<1> QED
  BY <1>3, <1>4 DEF FreeAnswered, Try

LEMMA PhaseOutcomeKeeps ==
  ASSUME ClaimInv, PhaseOutcome
  PROVE  ClaimInv'
BY ExpireLapsedKeeps, ReclaimExpiredKeeps, ReclaimEvidenceKeeps, LaneIsLiveKeeps,
  NoLiveLaneKeeps, ChooseTargetsKeeps, CheckpointKeeps, OutcomeEvidenceKeeps,
  ReleaseAnsweredKeeps, FreeAnsweredKeeps DEF PhaseOutcome

-----------------------------------------------------------------------------
(* recordProviderOutcome and reapAmbiguousOutcomes                         *)

\* A call begins with a copy of the state.
LEMMA CopyIsTaken ==
  ASSUME Steady, UNCHANGED <<storeVars, sched>>, mem' = sched, call' \in CallRecords,
         journal' \in Seq(Transactions), AboutClaims(journal'),
         jm' \in Seq(Transactions), AboutClaims(jm')
  PROVE  Steady'
<1>1. StoresTyped' /\ BooksTyped'
  BY DEF Steady, StoresTyped, BooksTyped, storeVars, laneVars, ledgerVars
<1>2. CopyFollows'
  BY DEF CopyFollows, MayBecome
<1>3. AboutClaims(journal)' /\ AboutClaims(jm)'
  BY DEF AboutClaims
<1>4. Holders(mem)' = Holders(sched) /\ Holders(sched)' = Holders(sched)
  BY DEF Holders
<1>5. Fits'
  BY <1>4 DEF Steady, Fits, storeVars, ledgerVars
<1>6. Frees'
  BY DEF Steady, Frees, HoldsNothing, Terminal, storeVars, laneVars, ledgerVars
<1> QED
  BY <1>1, <1>2, <1>3, <1>5, <1>6 DEF Steady

LEMMA StartOutcomeKeeps ==
  ASSUME ClaimInv, NEW w \in Works, NEW k \in Answers, StartOutcome(w, k)
  PROVE  ClaimInv'
<1> DEFINE t == Transaction("OUTCOME", <<w>>, k, sched[w].lease)
           n == IF k = "UNKNOWN" THEN sched[w].lease ELSE 0
<1>1. /\ sched[w].place = "ACTIVE" /\ pc' = "live" /\ mem' = sched
      /\ call' = [NoCall EXCEPT !.op = "OUTCOME", !.w = w, !.kind = k, !.need = n]
      /\ journal' = Append(journal, t) /\ UNCHANGED <<storeVars, sched, jm>>
  BY DEF StartOutcome, Begin, Goto
<1>2. sched \in [Works -> Entries] /\ journal \in Seq(Transactions) /\ AboutClaims(journal)
      /\ jm \in Seq(Transactions) /\ AboutClaims(jm)
  BY DEF ClaimInv, Steady, BooksTyped
<1>3. sched[w] \in Entries
  BY <1>2
<1>4. sched[w].lease \in Nat
  BY <1>3 DEF Entries
<1>5. t \in Transactions /\ t.works = <<w>>
  BY <1>4 DEF Transaction, Transactions, Operations, Kinds, Phases
<1>6. \A i \in DOMAIN t.works : sched[t.works[i]].place # "NONE"
  BY <1>1, <1>5
<1> HIDE DEF t
<1>7. journal' \in Seq(Transactions) /\ AboutClaims(journal')
  BY <1>1, <1>2, <1>5, <1>6, LongerIsTyped
<1>8. call' \in CallRecords /\ call'.op = "OUTCOME" /\ call'.w = w /\ call'.kind = k
  <2>1. n \in Nat /\ k \in Kinds
    BY <1>4 DEF Kinds
  <2> HIDE DEF n
  <2> QED
    BY <1>1, <2>1, NoCallIsTyped DEF NoCall, CallRecords
<1>9. Steady'
  BY <1>1, <1>2, <1>7, <1>8, CopyIsTaken DEF ClaimInv
<1>10. AtStep'
  <2>1. w \in Holders(sched)' /\ mem'[w].place = "ACTIVE"
    BY <1>1 DEF Holders
  <2>0. pc' = "live" /\ k \in Answers
    BY <1>1
  <2>4. CallFits'
    BY <1>8, <2>0 DEF CallFits, Reaping, Claiming, Undo, Phase, Recovering, Compensating, OnClaim
  <2>5. AnswerFits'
    BY <1>8, <2>0, <2>1 DEF AnswerFits, Phase, Answers
  <2>2. CallFits' /\ AnswerFits'
    BY <2>4, <2>5
  <2>3. WorkKnown' /\ ClaimFits' /\ FreesAt'
    BY <1>1, <1>8, <2>1 DEF WorkKnown, ClaimFits, FreesAt, Claiming, Undo, Phase, OnClaim, Compensating
  <2> QED
    BY <2>2, <2>3 DEF AtStep
<1> QED
  BY <1>9, <1>10 DEF ClaimInv

LEMMA StartReapKeeps ==
  ASSUME ClaimInv, NEW b \in Batches, StartReap(b)
  PROVE  ClaimInv'
<1> DEFINE t == Transaction("REAP_BATCH", b, "FAILED", 0)
<1>1. /\ \A i \in DOMAIN b : sched[b[i]].place = "RECONCILIATION"
      /\ pc' = "live" /\ mem' = sched
      /\ call' = [NoCall EXCEPT !.op = "REAP_BATCH", !.todo = b, !.w = Head(b),
                                !.kind = "FAILED", !.made = b]
      /\ journal' = Append(journal, t) /\ UNCHANGED <<storeVars, sched, jm>>
  BY DEF StartReap, Begin, Goto, Reapable
<1>2. sched \in [Works -> Entries] /\ journal \in Seq(Transactions) /\ AboutClaims(journal)
      /\ jm \in Seq(Transactions) /\ AboutClaims(jm)
  BY DEF ClaimInv, Steady, BooksTyped
<1>3. b \in Seq(Works) /\ b # <<>>
  <2>1. PICK n \in 1 .. Cardinality(Works) : b \in [1 .. n -> Works]
    BY DEF Batches
  <2>2. n \in Nat \ {0}
    BY <2>1, FS_CardinalityType, SchedulerAssumption
  <2> QED
    BY <2>1, <2>2
<1>4. Head(b) \in Works /\ Head(b) = b[1] /\ 1 \in DOMAIN b
  BY <1>3
<1>5. t \in Transactions /\ t.works = b
  BY <1>3 DEF Transaction, Transactions, Operations, Kinds, Phases, Answers
<1>6. \A i \in DOMAIN t.works : sched[t.works[i]].place # "NONE"
  BY <1>1, <1>5
<1> HIDE DEF t
<1>7. journal' \in Seq(Transactions) /\ AboutClaims(journal')
  BY <1>1, <1>2, <1>5, <1>6, LongerIsTyped
<1>8. /\ call' \in CallRecords /\ call'.op = "REAP_BATCH" /\ call'.w = Head(b)
      /\ call'.kind = "FAILED" /\ call'.todo = b
  <2>1. "FAILED" \in Kinds
    BY DEF Kinds, Answers
  <2> QED
    BY <1>1, <1>3, <1>4, <2>1, NoCallIsTyped DEF NoCall, CallRecords
<1>9. Steady'
  BY <1>1, <1>2, <1>7, <1>8, CopyIsTaken DEF ClaimInv
<1>10. \A i \in DOMAIN b : b[i] \in Holders(sched)'
  BY <1>1, <1>3 DEF Holders
<1>11. AtStep'
  BY <1>1, <1>3, <1>4, <1>8, <1>10 DEF AtStep, CallFits, AnswerFits, WorkKnown, ClaimFits, FreesAt, Reaping,
      Answers, Claiming, Undo, Phase, Recovering, Compensating, OnClaim
<1> QED
  BY <1>9, <1>11 DEF ClaimInv
\* An answer reaches the state on disk: the write of the copy takes what the
\* stores have recorded.
LEMMA SaveOutcomeKeeps ==
  ASSUME ClaimInv, SaveOutcome
  PROVE  ClaimInv'
<1> DEFINE w == call.w
           e == [mem[w] EXCEPT !.place = PlaceAfter(call.kind), !.life = lanes[w].life,
                   !.outcome = call.kind, !.ev = <<lanes[w].fence, lanes[w].seq>>]
<1>1. pc = "apply" /\ UNCHANGED storeVars
  BY DEF SaveOutcome, At
<1>2. /\ call.op = "OUTCOME" /\ call \in CallRecords /\ w \in Works /\ w \in Holders(sched)
      /\ call.kind \in Answers /\ StoresTyped /\ mem \in [Works -> Entries]
      /\ sched \in [Works -> Entries]
      /\ journal \in Seq(Transactions) /\ AboutClaims(journal)
      /\ jm \in Seq(Transactions) /\ AboutClaims(jm)
  BY <1>1 DEF ClaimInv, Steady, BooksTyped, AtStep, CallFits, AnswerFits, WorkKnown, OnClaim
<1>3. CASE EndCall([journal EXCEPT ![Len(journal)].phase = "RECOVERY_REQUIRED"]) /\ UNCHANGED sched
  BY <1>1, <1>2, <1>3, PhaseIsTyped, EndCallKeeps, StillIsQuiet DEF Phases
<1>4. CASE /\ mem' = AfterAnswer(mem, w, PlaceAfter(call.kind), call.kind)
           /\ sched' = mem' /\ pc' = "close" /\ UNCHANGED <<journal, call, jm>>
  <2>1. mem[w] \in Entries /\ lanes[w] \in Lanes
    BY <1>2 DEF StoresTyped
  <2>2. e \in Entries /\ e.place = PlaceAfter(call.kind) /\ e.life = lanes[w].life
    <3>1. PlaceAfter(call.kind) \in Places /\ call.kind \in Outcomes
      BY <1>2 DEF PlaceAfter, Places, Outcomes
    <3> QED
      BY <2>1, <3>1 DEF Entries, Lanes
  <2>3. mem' = [mem EXCEPT ![w] = e]
    BY <1>2, <1>4 DEF AfterAnswer
  <2> HIDE DEF e
  <2>4. \A v \in Works : mem'[v] = IF v = w THEN e ELSE mem[v]
    BY <1>2, <2>3
  <2>5. /\ call.kind \in {"RUNNING", "UNKNOWN"} => mem[w].place = "ACTIVE"
        /\ EndsClaim(call.kind) => lanes[w].status = "RELEASED" /\ reserved[w] = 0
    BY <1>1 DEF ClaimInv, AtStep, AnswerFits, FreesAt
  <2>6. /\ e.place \in {"ACTIVE", "RECONCILIATION", "RELEASED"}
        /\ e.place # "RELEASED" => w \in Holders(mem)
        /\ e.place = "RELEASED" => lanes[w].status = "RELEASED" /\ reserved[w] = 0 /\ Terminal(w)
    <3>1. lanes[w].status = "RELEASED" => Terminal(w)
      BY <1>2 DEF ClaimInv, Steady, Frees, Holders
    <3>2. PlaceAfter(call.kind) \in {"ACTIVE", "RECONCILIATION", "RELEASED"}
          /\ (PlaceAfter(call.kind) = "RELEASED" <=> EndsClaim(call.kind))
      BY <1>2 DEF PlaceAfter, EndsClaim, Answers
    <3> QED
      BY <1>2, <2>2, <2>5, <3>1, <3>2 DEF EndsClaim, Answers, Holders
  <2>7. StoresTyped' /\ BooksTyped'
    BY <1>1, <1>2, <1>4, <2>2, <2>3
      DEF ClaimInv, Steady, StoresTyped, BooksTyped, storeVars, laneVars, ledgerVars
  <2>8. CopyFollows'
    BY <1>2, <1>4 DEF CopyFollows, MayBecome
  <2>9. AboutClaims(journal)' /\ AboutClaims(jm)'
    <3>1. \A v \in Works : sched[v].place # "NONE" => sched'[v].place # "NONE"
      BY <1>2, <1>4, <2>4, <2>6 DEF ClaimInv, Steady, CopyFollows, MayBecome, Entries, Places
    <3>2. ASSUME NEW j \in Seq(Transactions), AboutClaims(j), NEW i \in DOMAIN j,
                 j[i].op \in {"OUTCOME", "REAP_BATCH"}, NEW k \in DOMAIN j[i].works
          PROVE  sched'[j[i].works[k]].place # "NONE"
      <4>1. j[i] \in Transactions
        BY <3>2
      <4>2. j[i].works[k] \in Works
        BY <3>2, <4>1 DEF Transactions
      <4> QED
        BY <3>1, <3>2, <4>2 DEF AboutClaims
    <3> QED
      BY <1>2, <1>4, <3>2 DEF AboutClaims
  <2>10. Holders(mem)' = Holders(sched)' /\ Holders(mem)' \subseteq Holders(mem)
    BY <1>2, <1>4, <2>4, <2>6 DEF Holders
  <2>11. Fits'
    <3>1. Cardinality(Holders(mem)') <= Capacity
      <4>1. Cardinality(Holders(mem)') <= Cardinality(Holders(mem))
            /\ Cardinality(Holders(mem)') \in Nat /\ Cardinality(Holders(mem)) \in Nat
        BY <2>10, FewerHolders DEF Holders
      <4> QED
        BY <4>1, SchedulerAssumption DEF ClaimInv, Steady, Fits
    <3> QED
      BY <1>1, <2>10, <3>1 DEF ClaimInv, Steady, Fits, storeVars, ledgerVars
  <2>12. Frees'
    <3>1. \A v \in Works : mem'[v].place = "RELEASED" =>
            reserved[v] = 0 /\ lanes[v].status = "RELEASED" /\ Terminal(v) /\ lanes[v].life = mem'[v].life
      BY <2>2, <2>4, <2>6 DEF ClaimInv, Steady, Frees, HoldsNothing
    <3>2. \A v \in Works : lanes[v].status = "RELEASED" /\ mem'[v].place # "NONE" => Terminal(v)
      <4>1. \A v \in Works : mem[v].place # "NONE" => sched[v].place # "NONE"
        BY <1>2 DEF ClaimInv, Steady, CopyFollows, MayBecome
      <4> QED
        BY <1>2, <2>4, <4>1 DEF ClaimInv, Steady, Frees, Holders
    <3> QED
      BY <1>1, <1>4, <3>1, <3>2 DEF Frees, HoldsNothing, Terminal, storeVars, laneVars, ledgerVars
  <2>13. Steady'
    BY <2>7, <2>8, <2>9, <2>11, <2>12 DEF Steady
  <2>14. AtStep'
    BY <1>2, <1>4 DEF AtStep, CallFits, AnswerFits, WorkKnown, ClaimFits, FreesAt, Reaping,
      Claiming, Undo, Phase, Recovering, Compensating, OnClaim
  <2> QED
    BY <2>13, <2>14 DEF ClaimInv
<1> QED
  BY <1>3, <1>4 DEF SaveOutcome, Try, Goto

LEMMA CloseTransactionKeeps ==
  ASSUME ClaimInv, CloseTransaction
  PROVE  ClaimInv'
<1>1. UNCHANGED <<storeVars, sched>>
  BY DEF CloseTransaction
<1>2. journal \in Seq(Transactions) /\ AboutClaims(journal) /\ Quietly
  BY <1>1, StillIsQuiet DEF ClaimInv, Steady, BooksTyped
<1>3. CASE EndCall([journal EXCEPT ![Len(journal)].phase = "COMMITTED"])
  BY <1>1, <1>2, <1>3, PhaseIsTyped, EndCallKeeps DEF Phases, ClosedPhases
<1>4. CASE EndCall(journal)
  BY <1>1, <1>2, <1>4, EndCallKeeps
<1> QED
  BY <1>3, <1>4 DEF CloseTransaction, Try

LEMMA SaveReapKeeps ==
  ASSUME ClaimInv, SaveReap
  PROVE  ClaimInv'
<1>1. pc = "saveReap" /\ UNCHANGED storeVars
  BY DEF SaveReap, At
<1>2. call.op = "REAP_BATCH" /\ journal \in Seq(Transactions) /\ AboutClaims(journal) /\ Quietly
  BY <1>1, StillIsQuiet DEF ClaimInv, Steady, BooksTyped, AtStep, CallFits
<1>3. CASE EndCall(journal) /\ UNCHANGED sched
  BY <1>1, <1>2, <1>3, EndCallKeeps
<1>4. CASE sched' = mem /\ pc' = "supersede" /\ UNCHANGED <<journal, call, mem, jm>>
  <2>1. \A w \in Works : sched[w].place = "NONE" => mem[w].place = "NONE"
    BY <1>2 DEF ClaimInv, Steady, CopyFollows, MayBecome
  <2>2. Steady'
    BY <1>1, <1>2, <1>4, <2>1, CopyIsSaved DEF ClaimInv
  <2>3. AtStep'
    BY <1>2, <1>4 DEF AtStep, CallFits, AnswerFits, WorkKnown, ClaimFits, FreesAt, Reaping,
      Claiming, Undo, Phase, Recovering, Compensating, OnClaim
  <2> QED
    BY <2>2, <2>3 DEF ClaimInv
<1> QED
  BY <1>3, <1>4 DEF SaveReap, Try, Goto

LEMMA SupersedeHeldKeeps ==
  ASSUME ClaimInv, SupersedeHeld
  PROVE  ClaimInv'
<1> DEFINE j == [i \in DOMAIN journal |->
                   IF Superseded(journal[i]) THEN [journal[i] EXCEPT !.phase = "SUPERSEDED_BY_REAP"]
                   ELSE journal[i]]
<1>1. pc = "supersede" /\ UNCHANGED <<storeVars, sched>>
  BY DEF SupersedeHeld, At
<1>2. /\ call.op = "REAP_BATCH" /\ call \in CallRecords
      /\ journal \in Seq(Transactions) /\ AboutClaims(journal) /\ Quietly
  BY <1>1, StillIsQuiet DEF ClaimInv, Steady, BooksTyped, AtStep, CallFits
<1>3. CASE EndCall(journal)
  BY <1>1, <1>2, <1>3, EndCallKeeps
<1>4. CASE journal' = j /\ pc' = "close" /\ UNCHANGED <<call, mem, jm>>
  <2>1. \A i \in DOMAIN journal :
          /\ journal[i] \in Transactions
          /\ [journal[i] EXCEPT !.phase = "SUPERSEDED_BY_REAP"] \in Transactions
          /\ j[i].op = journal[i].op /\ j[i].works = journal[i].works
    <3> TAKE i \in DOMAIN journal
    <3>1. journal[i] \in Transactions
      BY <1>2
    <3>2. "SUPERSEDED_BY_REAP" \in Phases
      BY DEF Phases, ClosedPhases
    <3> QED
      BY <3>1, <3>2 DEF Transactions
  <2>2. DOMAIN journal = 1 .. Len(journal) /\ Len(journal) \in Nat /\ DOMAIN j = DOMAIN journal
    BY <1>2
  <2>3. \A i \in DOMAIN journal : j[i] \in Transactions
    BY <2>1
  <2> HIDE DEF j
  <2>4. j \in Seq(Transactions) /\ AboutClaims(j)
    <3>1. AboutClaims(j)
      BY <1>2, <2>1, <2>2 DEF AboutClaims
    <3>2. j \in [1 .. Len(journal) -> Transactions]
      BY <2>2, <2>3, <1>4 DEF j
    <3> QED
      BY <2>2, <3>1, <3>2
  <2>5. Steady'
    BY <1>1, <1>2, <1>4, <2>4, StepMoves DEF ClaimInv, Steady, BooksTyped
  <2>6. AtStep'
    BY <1>2, <1>4 DEF AtStep, CallFits, AnswerFits, WorkKnown, ClaimFits, FreesAt, Reaping,
      Claiming, Undo, Phase, Recovering, Compensating, OnClaim
  <2> QED
    BY <2>5, <2>6 DEF ClaimInv
<1> QED
  BY <1>3, <1>4 DEF SupersedeHeld, Try, Goto

-----------------------------------------------------------------------------
(* recoverSchedulerTransactions: the replay                                *)

LEMMA StartRecoveryKeeps ==
  ASSUME ClaimInv, StartRecovery
  PROVE  ClaimInv'
<1>1. /\ pc' = "replay" /\ mem' = sched /\ jm' = journal
      /\ call' = [NoCall EXCEPT !.op = "RECOVER", !.at = 1, !.first = FirstIdentities]
      /\ UNCHANGED <<storeVars, sched, journal>>
  BY DEF StartRecovery, Begin, Goto
<1>2. journal \in Seq(Transactions) /\ AboutClaims(journal)
  BY DEF ClaimInv, Steady, BooksTyped
<1>3. /\ call' \in CallRecords /\ call'.op = "RECOVER" /\ call'.at = 1 /\ call'.todo = <<>>
      /\ call'.left = {}
  <2>1. FirstIdentities \in SUBSET Works
    BY DEF FirstIdentities
  <2> QED
    BY <1>1, <2>1, NoCallIsTyped DEF NoCall, CallRecords
<1>4. Steady'
  BY <1>1, <1>2, <1>3, CopyIsTaken DEF ClaimInv
<1>5. AtStep'
  BY <1>1, <1>3 DEF AtStep, CallFits, AnswerFits, WorkKnown, ClaimFits, FreesAt, Reaping,
      Claiming, Undo, Phase, Recovering, Compensating, OnClaim
<1> QED
  BY <1>4, <1>5 DEF ClaimInv

LEMMA RecoveringIsKnown ==
  ASSUME ClaimInv, pc \in Recovering
  PROVE  /\ call.op = "RECOVER" /\ call \in CallRecords /\ call.at \in Nat \ {0}
         /\ StoresTyped /\ mem \in [Works -> Entries] /\ sched \in [Works -> Entries]
         /\ journal \in Seq(Transactions) /\ AboutClaims(journal)
         /\ jm \in Seq(Transactions) /\ AboutClaims(jm)
         /\ pc # "saveJournal" =>
              /\ call.left \subseteq Holders(sched)
              /\ \A i \in DOMAIN call.todo : call.todo[i] \in Holders(sched)
         /\ pc \in OnClaim => call.w \in Works /\ call.w \in Holders(sched)
<1>1. call.op = "RECOVER" /\ call \in CallRecords
  BY DEF ClaimInv, Steady, BooksTyped, AtStep, CallFits
<1>2. call.at \in Nat \ {0}
  BY <1>1 DEF ClaimInv, AtStep, CallFits, CallRecords
<1>3. /\ pc # "saveJournal" =>
           /\ call.left \subseteq Holders(sched)
           /\ \A i \in DOMAIN call.todo : call.todo[i] \in Holders(sched)
      /\ pc \in OnClaim => call.w \in Works /\ call.w \in Holders(sched)
  BY <1>1 DEF ClaimInv, AtStep, CallFits, WorkKnown, Recovering, Compensating
<1> QED
  BY <1>1, <1>2, <1>3 DEF ClaimInv, Steady, BooksTyped

\* The transaction in hand, and the claim an answer is about.
LEMMA ReplayingIsKnown ==
  ASSUME ClaimInv, NEW op, Replaying(op)
  PROVE  /\ pc = "replay" /\ pc \in Recovering /\ Quietly /\ UNCHANGED <<storeVars, sched>>
         /\ call.at \in DOMAIN jm /\ Replayed \in Transactions /\ Replayed.op = op
         /\ Subject \in Works
         /\ op \in {"OUTCOME", "REAP_BATCH"} =>
              /\ \A k \in DOMAIN Replayed.works : sched[Replayed.works[k]].place # "NONE"
              /\ sched[Subject].place # "NONE"
<1>1. pc = "replay" /\ pc \in Recovering /\ UNCHANGED <<storeVars, sched>>
      /\ call.at <= Len(jm) /\ Replayed.op = op
  BY DEF Replaying, At, Recovering
<1>2. jm \in Seq(Transactions) /\ AboutClaims(jm) /\ call.at \in Nat \ {0} /\ StoresTyped
  BY <1>1, RecoveringIsKnown
<1>3. call.at \in DOMAIN jm
  BY <1>1, <1>2
<1>4. Replayed \in Transactions
  BY <1>2, <1>3 DEF Replayed
<1>5. Replayed.works \in Seq(Works) /\ Replayed.works # <<>>
  BY <1>4 DEF Transactions
<1>6. 1 \in DOMAIN Replayed.works /\ Subject \in Works
  BY <1>5 DEF Subject
<1>7. op \in {"OUTCOME", "REAP_BATCH"} =>
        \A k \in DOMAIN Replayed.works : sched[Replayed.works[k]].place # "NONE"
  BY <1>1, <1>2, <1>3 DEF AboutClaims, Replayed
<1> QED
  BY <1>1, <1>2, <1>3, <1>4, <1>6, <1>7, StillIsQuiet DEF Subject

\* A claim the copy does not call released is one of the state on disk.
LEMMA UnreleasedIsHeld ==
  ASSUME ClaimInv, call.op = "RECOVER", NEW w \in Works, sched[w].place # "NONE",
         mem[w].place # "RELEASED"
  PROVE  w \in Holders(sched)
BY DEF ClaimInv, Steady, BooksTyped, CopyFollows, MayBecome, Entries, Places, Holders

LEMMA ReplayReconciliationKeeps ==
  ASSUME ClaimInv, ReplayReconciliation
  PROVE  ClaimInv'
<1>1. pc = "replay" /\ pc \in Recovering /\ Quietly /\ UNCHANGED sched
  BY ReplayingIsKnown DEF ReplayReconciliation
<1>2. ReplayNext(Marked("COMMITTED")) \/ ReplayNext(jm)
  BY DEF ReplayReconciliation
<1> QED
  BY <1>1, <1>2, RecoveringIsKnown, MarkedIsTyped, ReplayNextKeeps DEF Phases, ClosedPhases

LEMMA ReplayScheduleKeeps ==
  ASSUME ClaimInv, ReplaySchedule
  PROVE  ClaimInv'
<1> DEFINE c == [w |-> Subject, res |-> Replayed.res, lease |-> Replayed.lease]
<1>1. /\ pc = "replay" /\ pc \in Recovering /\ Quietly /\ UNCHANGED <<storeVars, sched>>
      /\ Replayed \in Transactions /\ Subject \in Works
  BY ReplayingIsKnown DEF ReplaySchedule
<1>2. /\ call.op = "RECOVER" /\ call \in CallRecords /\ call.at # 0
      /\ call.left \subseteq Holders(sched)
      /\ \A i \in DOMAIN call.todo : call.todo[i] \in Holders(sched)
  BY <1>1, RecoveringIsKnown
<1>3. CASE ReplayNext(Marked("COMMITTED"))
  BY <1>1, <1>2, <1>3, MarkedIsTyped, ReplayNextKeeps DEF Phases, ClosedPhases
<1>4. CASE /\ mem[Subject].place = "NONE" /\ pc' = "undoLease"
           /\ call' = [call EXCEPT !.undo = <<c>>] /\ UNCHANGED <<journal, mem, jm>>
  <2>1. c \in Claims /\ c.w = Subject
    BY <1>1 DEF Claims, Transactions
  <2>2. sched[Subject].place = "NONE"
    BY <1>1, <1>2, <1>4 DEF ClaimInv, Steady, BooksTyped, CopyFollows, MayBecome, Entries, Places
  <2> HIDE DEF c
  <2>3. /\ call' \in CallRecords /\ call'.op = "RECOVER" /\ call'.undo = <<c>>
        /\ call'.left = call.left /\ call'.todo = call.todo /\ call'.at = call.at
    <3>1. <<c>> \in Seq(Claims)
      BY <2>1
    <3> QED
      BY <1>2, <1>4, <3>1 DEF CallRecords
  <2>4. Steady'
    BY <1>1, <1>2, <1>4, <2>3, CallMoves DEF ClaimInv
  <2>5. AtStep'
    <3>1. \A i \in DOMAIN call'.undo : sched[call'.undo[i].w].place = "NONE"
      BY <2>1, <2>2, <2>3
    <3>2. CallFits' /\ AnswerFits' /\ ClaimFits' /\ FreesAt'
      BY <1>2, <1>4, <2>3 DEF CallFits, AnswerFits, ClaimFits, FreesAt,
        Claiming, Undo, Phase, Recovering, Compensating, OnClaim
    <3>3. WorkKnown'
      BY <1>1, <1>2, <1>4, <2>3, <3>1 DEF WorkKnown, Holders, Claiming, Undo, Phase, Compensating, OnClaim
    <3> QED
      BY <3>2, <3>3 DEF AtStep
  <2> QED
    BY <2>4, <2>5 DEF ClaimInv
<1> QED
  BY <1>3, <1>4 DEF ReplaySchedule, Goto

LEMMA RecoveryUndoneKeeps ==
  ASSUME ClaimInv, RecoveryUndone
  PROVE  ClaimInv'
<1>1. pc = "undone" /\ call.op = "RECOVER" /\ UNCHANGED <<storeVars, sched>>
      /\ ReplayNext(Marked(UndoPhase))
  BY DEF RecoveryUndone, At
<1> QED
  BY <1>1, UndonePhase, MarkedIsTyped, ReplayNextKeeps, StillIsQuiet DEF ClaimInv, Steady

LEMMA ReplayReleasedKeeps ==
  ASSUME ClaimInv, ReplayReleased
  PROVE  ClaimInv'
<1>1. pc = "replay" /\ pc \in Recovering /\ Quietly /\ UNCHANGED sched
  BY ReplayingIsKnown DEF ReplayReleased
<1> QED
  BY <1>1, RecoveringIsKnown, MarkedIsTyped, ReplayNextKeeps DEF ReplayReleased, Phases, ClosedPhases

LEMMA ReplayHeldKeeps ==
  ASSUME ClaimInv, ReplayHeld
  PROVE  ClaimInv'
<1>1. pc = "replay" /\ pc \in Recovering /\ Quietly /\ UNCHANGED sched
  BY ReplayingIsKnown DEF ReplayHeld
<1>2. ReplayNext(Marked("RECOVERY_REQUIRED")) \/ ReplayNext(jm)
  BY DEF ReplayHeld
<1> QED
  BY <1>1, <1>2, RecoveringIsKnown, MarkedIsTyped, ReplayNextKeeps DEF Phases

\* Recovery takes up an answer about one claim.
LEMMA ReplayWorkKeeps ==
  ASSUME ClaimInv, pc \in {"replay", "reapItem"}, UNCHANGED <<storeVars, sched>>,
         NEW l \in {"live", "refree", "project"}, NEW w \in Works,
         NEW k \in {"UNKNOWN", "SUCCEEDED", "FAILED"},
         ReplayWork(w, k, l), w \in Holders(sched),
         Replayed.op = "REAP_BATCH" => call.todo # <<>> /\ k = "FAILED",
         l = "refree" => EndsClaim(k) /\ lanes[w].status = "RELEASED",
         l = "project" => k = "UNKNOWN",
         k = "UNKNOWN" => mem[w].place = "ACTIVE"
  PROVE  ClaimInv'
<1>1. pc' = l /\ call' = [call EXCEPT !.w = w, !.kind = k] /\ UNCHANGED <<journal, mem, jm>>
  BY DEF ReplayWork, Goto
<1>2. /\ call.op = "RECOVER" /\ call \in CallRecords /\ call.at # 0
      /\ call.left \subseteq Holders(sched)
      /\ \A i \in DOMAIN call.todo : call.todo[i] \in Holders(sched)
  BY RecoveringIsKnown DEF Recovering
<1>3. /\ call' \in CallRecords /\ call'.op = "RECOVER" /\ call'.w = w /\ call'.kind = k
      /\ call'.left = call.left /\ call'.todo = call.todo /\ call'.at = call.at
  <2>1. k \in Kinds
    BY DEF Kinds, Answers
  <2> QED
    BY <1>1, <1>2, <2>1 DEF CallRecords
<1>4. Steady'
  BY <1>1, <1>2, <1>3, CallMoves DEF ClaimInv
<1>5. AtStep'
  <2>1. CallFits'
    <3>1. Reaping' => call'.todo # <<>> /\ call'.kind = "FAILED"
      BY <1>1, <1>3 DEF Reaping, Replayed
    <3> QED
      BY <1>1, <1>3, <1>2, <3>1 DEF CallFits, Claiming, Undo, Phase, Recovering, Compensating, OnClaim
  <2>2. AnswerFits'
    BY <1>1, <1>3 DEF AnswerFits, EndsClaim, Answers, Phase
  <2>3. WorkKnown'
    BY <1>1, <1>2, <1>3 DEF WorkKnown, Holders, Claiming, Undo, Phase, Compensating, OnClaim
  <2>4. ClaimFits' /\ FreesAt'
    BY <1>1, <1>3 DEF ClaimFits, FreesAt, EndsClaim, Claiming, storeVars, laneVars
  <2> QED
    BY <2>1, <2>2, <2>3, <2>4 DEF AtStep
<1> QED
  BY <1>4, <1>5 DEF ClaimInv

LEMMA ReplayTerminalKeeps ==
  ASSUME ClaimInv, ReplayTerminal
  PROVE  ClaimInv'
<1>1. /\ pc = "replay" /\ pc \in Recovering /\ UNCHANGED <<storeVars, sched>>
      /\ Replayed.op = "OUTCOME" /\ Subject \in Works /\ sched[Subject].place # "NONE"
  BY ReplayingIsKnown DEF ReplayTerminal
<1>2. mem[Subject].place # "RELEASED" /\ EndsClaim(Replayed.kind)
      /\ ReplayWork(Subject, Replayed.kind,
                    IF lanes[Subject].status = "RELEASED" THEN "refree" ELSE "live")
  BY DEF ReplayTerminal, IsReleased
<1>3. Subject \in Holders(sched)
  BY <1>1, <1>2, UnreleasedIsHeld, RecoveringIsKnown
<1> QED
  BY <1>1, <1>2, <1>3, ReplayWorkKeeps DEF EndsClaim

LEMMA ReplayAmbiguousKeeps ==
  ASSUME ClaimInv, ReplayAmbiguous
  PROVE  ClaimInv'
<1>1. /\ pc = "replay" /\ pc \in Recovering /\ Quietly /\ UNCHANGED <<storeVars, sched>>
      /\ Replayed.op = "OUTCOME" /\ Subject \in Works /\ sched[Subject].place # "NONE"
  BY ReplayingIsKnown DEF ReplayAmbiguous
<1>2. mem[Subject].place # "RELEASED"
  BY DEF ReplayAmbiguous, IsReleased
<1>3. Subject \in Holders(sched)
  BY <1>1, <1>2, UnreleasedIsHeld, RecoveringIsKnown
<1>4. CASE ReplayNext(Marked("RECOVERY_REQUIRED"))
  BY <1>1, <1>4, RecoveringIsKnown, MarkedIsTyped, ReplayNextKeeps DEF Phases
<1>5. CASE /\ ProofStands
           /\ ReplayWork(Subject, "UNKNOWN",
                IF lanes[Subject].life = "REROUTE_PENDING" THEN "project" ELSE "live")
  BY <1>1, <1>3, <1>5, ReplayWorkKeeps DEF ProofStands
<1> QED
  BY <1>4, <1>5 DEF ReplayAmbiguous
\* Progress moves the reported lifecycle of an active claim on, nothing else.
LEMMA ReplayProgressKeeps ==
  ASSUME ClaimInv, ReplayProgress
  PROVE  ClaimInv'
<1> DEFINE w == Subject
           e == [mem[w] EXCEPT !.life = lanes[w].life]
<1>1. /\ pc = "replay" /\ pc \in Recovering /\ Quietly /\ UNCHANGED <<storeVars, sched>>
      /\ w \in Works /\ sched[w].place # "NONE"
  BY ReplayingIsKnown DEF ReplayProgress
<1>2. /\ call.op = "RECOVER" /\ call \in CallRecords /\ call.at \in Nat
      /\ StoresTyped /\ mem \in [Works -> Entries]
      /\ journal \in Seq(Transactions) /\ AboutClaims(journal)
      /\ call.left \subseteq Holders(sched)
      /\ \A i \in DOMAIN call.todo : call.todo[i] \in Holders(sched)
  BY <1>1, RecoveringIsKnown
<1>3. /\ jm' = Marked("COMMITTED") /\ pc' = "replay" /\ UNCHANGED journal
      /\ \/ /\ mem[w].place = "ACTIVE" /\ mem' = [mem EXCEPT ![w].life = lanes[w].life]
            /\ call' = [call EXCEPT !.at = call.at + 1, !.changed = TRUE]
         \/ UNCHANGED mem /\ call' = [call EXCEPT !.at = call.at + 1]
  BY DEF ReplayProgress, Goto
<1>4. jm' \in Seq(Transactions) /\ AboutClaims(jm') /\ AboutClaims(jm)' /\ AboutClaims(journal)'
  BY <1>1, <1>2, <1>3, MarkedIsTyped DEF Phases, ClosedPhases, AboutClaims
<1>5. /\ call' \in CallRecords /\ call'.op = "RECOVER" /\ call'.at # 0
      /\ call'.left = call.left /\ call'.todo = call.todo
  <2>1. call.at + 1 \in Nat /\ call.at + 1 # 0
    BY <1>2
  <2>2. CASE call' = [call EXCEPT !.at = call.at + 1, !.changed = TRUE]
    BY <1>2, <2>1, <2>2 DEF CallRecords
  <2>3. CASE call' = [call EXCEPT !.at = call.at + 1]
    BY <1>2, <2>1, <2>3 DEF CallRecords
  <2> QED
    BY <1>3, <2>2, <2>3
<1>6. Steady'
  <2>1. CASE UNCHANGED mem
    BY <1>1, <1>2, <1>3, <1>4, <1>5, <2>1, SteadyKeeps DEF ClaimInv
  <2>2. CASE mem[w].place = "ACTIVE" /\ mem' = [mem EXCEPT ![w].life = lanes[w].life]
    <3>1. mem[w] \in Entries /\ lanes[w] \in Lanes
      BY <1>1, <1>2 DEF StoresTyped
    <3>2. e \in Entries /\ e.place = "ACTIVE"
      BY <2>2, <3>1 DEF Entries, Lanes
    <3>3. mem' = [mem EXCEPT ![w] = e]
      BY <2>2
    <3> HIDE DEF e
    <3>4. w \in Holders(sched) /\ w \in Holders(mem)
      BY <1>1, <1>2, <2>2, UnreleasedIsHeld DEF Holders
    <3>5. MayBecome(sched[w], e)
      <4>1. MayBecome(sched[w], mem[w])
        BY <1>1, <1>2 DEF ClaimInv, Steady, CopyFollows
      <4> QED
        BY <2>2, <3>2, <4>1, <3>4 DEF MayBecome, Holders
    <3> QED
      BY <1>1, <1>2, <1>3, <1>4, <1>5, <3>2, <3>3, <3>4, <3>5, ClaimMoves DEF ClaimInv
  <2> QED
    BY <1>3, <2>1, <2>2
<1>7. AtStep'
  BY <1>1, <1>2, <1>3, <1>5 DEF AtStep, CallFits, AnswerFits, WorkKnown, ClaimFits, FreesAt, Holders,
      Claiming, Undo, Phase, Recovering, Compensating, OnClaim
<1> QED
  BY <1>6, <1>7 DEF ClaimInv

\* What is left of a batch to reap are claims of the state on disk.
LEMMA ReplayReapKeeps ==
  ASSUME ClaimInv, ReplayReap
  PROVE  ClaimInv'
<1> DEFINE I == {i \in DOMAIN Replayed.works : mem[Replayed.works[i]].place # "RELEASED"}
           s == Kept(Replayed.works, I)
<1>1. /\ pc = "replay" /\ pc \in Recovering /\ UNCHANGED <<storeVars, sched>>
      /\ Replayed \in Transactions
      /\ \A k \in DOMAIN Replayed.works : sched[Replayed.works[k]].place # "NONE"
  BY ReplayingIsKnown DEF ReplayReap
<1>2. /\ call.op = "RECOVER" /\ call \in CallRecords /\ call.at # 0
      /\ call.left \subseteq Holders(sched)
  BY <1>1, RecoveringIsKnown
<1>3. pc' = "reapItem" /\ call' = [call EXCEPT !.todo = s] /\ UNCHANGED <<journal, mem, jm>>
  BY DEF ReplayReap, Goto
<1>4. Replayed.works \in Seq(Works)
  BY <1>1 DEF Transactions
<1> HIDE DEF I
<1>5. /\ s \in Seq(Works)
      /\ \A i \in DOMAIN s : \E k \in DOMAIN Replayed.works : k \in I /\ s[i] = Replayed.works[k]
  BY <1>4, KeptElements
<1>6. \A i \in DOMAIN s : s[i] \in Holders(sched)
  <2> TAKE i \in DOMAIN s
  <2>1. PICK k \in DOMAIN Replayed.works : k \in I /\ s[i] = Replayed.works[k]
    BY <1>5
  <2>2. s[i] \in Works
    BY <1>4, <2>1
  <2> QED
    BY <1>1, <1>2, <2>1, <2>2, UnreleasedIsHeld DEF I
<1> HIDE DEF s
<1>7. /\ call' \in CallRecords /\ call'.op = "RECOVER" /\ call'.todo = s
      /\ call'.left = call.left /\ call'.at = call.at
  BY <1>2, <1>3, <1>5 DEF CallRecords
<1>8. Steady'
  BY <1>1, <1>2, <1>3, <1>7, CallMoves DEF ClaimInv
<1>9. AtStep'
  BY <1>1, <1>2, <1>3, <1>6, <1>7 DEF AtStep, CallFits, AnswerFits, WorkKnown, ClaimFits, FreesAt, Holders,
      Claiming, Undo, Phase, Recovering, Compensating, OnClaim
<1> QED
  BY <1>8, <1>9 DEF ClaimInv

LEMMA ReapItemKeeps ==
  ASSUME ClaimInv, ReapItem
  PROVE  ClaimInv'
<1>1. pc = "reapItem" /\ pc \in Recovering /\ UNCHANGED <<storeVars, sched>>
  BY DEF ReapItem, At, Recovering
<1>2. /\ call.op = "RECOVER" /\ call \in CallRecords /\ Quietly
      /\ \A i \in DOMAIN call.todo : call.todo[i] \in Holders(sched)
  BY <1>1, RecoveringIsKnown, StillIsQuiet
<1>3. CASE ReplayNext(Marked("COMMITTED"))
  BY <1>1, <1>2, <1>3, MarkedIsTyped, ReplayNextKeeps DEF Phases, ClosedPhases
<1>4. CASE /\ call.todo # <<>>
           /\ ReplayWork(Head(call.todo), "FAILED",
                IF lanes[Head(call.todo)].status = "RELEASED" THEN "refree" ELSE "live")
  <2>1. call.todo \in Seq(Works)
    BY <1>2 DEF CallRecords
  <2>2. Head(call.todo) = call.todo[1] /\ 1 \in DOMAIN call.todo
    BY <1>4, <2>1
  <2>3. Head(call.todo) \in Holders(sched) /\ Head(call.todo) \in Works
    BY <1>2, <2>2 DEF Holders
  <2> QED
    BY <1>1, <1>4, <2>3, ReplayWorkKeeps DEF EndsClaim
<1> QED
  BY <1>3, <1>4 DEF ReapItem

LEMMA ReleaseAgainKeeps ==
  ASSUME ClaimInv, ReleaseAgain
  PROVE  ClaimInv'
<1>1. pc = "refree" /\ pc \in Recovering /\ pc \in OnClaim /\ UNCHANGED <<laneVars, evidence, sched>>
  BY DEF ReleaseAgain, At, Recovering, OnClaim
<1>2. /\ call.op = "RECOVER" /\ call \in CallRecords /\ StoresTyped /\ mem \in [Works -> Entries]
      /\ journal \in Seq(Transactions) /\ AboutClaims(journal)
      /\ jm \in Seq(Transactions) /\ AboutClaims(jm)
      /\ call.w \in Works /\ call.w \in Holders(sched)
      /\ call.left \subseteq Holders(sched)
      /\ \A i \in DOMAIN call.todo : call.todo[i] \in Holders(sched)
  BY <1>1, RecoveringIsKnown
<1>3. EndsClaim(call.kind) /\ lanes[call.w].status = "RELEASED"
  BY <1>1 DEF ClaimInv, AtStep, AnswerFits, FreesAt
<1>4. CASE UNCHANGED ledgerVars /\ (ReplayNext(jm) \/ ReplayNext(Marked("RECOVERY_REQUIRED")))
  <2>1. Quietly
    BY <1>1, <1>2, <1>4, StillIsQuiet DEF storeVars
  <2> QED
    BY <1>1, <1>2, <1>4, <2>1, MarkedIsTyped, ReplayNextKeeps DEF Phases
<1>5. CASE /\ Free(call.w, mem[call.w].res) \/ (reserved[call.w] = 0 /\ UNCHANGED ledgerVars)
           /\ pc' = "project" /\ UNCHANGED <<journal, call, mem, jm>>
  <2>1. Quietly /\ reserved'[call.w] = 0
    <3>1. CASE Free(call.w, mem[call.w].res)
      <4>1. mem[call.w] \in Entries
        BY <1>2
      <4>2. mem[call.w].res \in Nat
        BY <4>1 DEF Entries
      <4> QED
        BY <1>1, <1>2, <3>1, <4>2, FreeingIsQuiet
    <3>2. CASE reserved[call.w] = 0 /\ UNCHANGED ledgerVars
      BY <1>1, <1>2, <3>2, StillIsQuiet DEF storeVars, ledgerVars
    <3> QED
      BY <1>5, <3>1, <3>2
  <2>2. Steady'
    BY <1>1, <1>2, <1>5, <2>1, SteadyKeeps DEF ClaimInv, AboutClaims
  <2>3. CallFits' /\ AnswerFits'
    BY <1>1, <1>2, <1>3, <1>5 DEF ClaimInv, AtStep, CallFits, AnswerFits, EndsClaim, Reaping, Replayed,
      Claiming, Undo, Phase, Recovering, Compensating, OnClaim
  <2>4. WorkKnown' /\ ClaimFits' /\ FreesAt'
    BY <1>1, <1>2, <1>3, <1>5, <2>1 DEF WorkKnown, ClaimFits, FreesAt, Holders, laneVars,
      Claiming, Undo, Phase, Compensating, OnClaim
  <2> QED
    BY <2>2, <2>3, <2>4 DEF ClaimInv, AtStep
<1> QED
  BY <1>4, <1>5 DEF ReleaseAgain, Try, Goto

\* What the lane and its verified event say becomes the claim's entry.
LEMMA ProjectedIsTyped ==
  ASSUME ClaimInv, pc = "project", NEW p \in {"RECONCILIATION", "RELEASED"},
         NEW o \in Outcomes
  PROVE  \E e \in Entries : /\ Projected(p, o) = [mem EXCEPT ![call.w] = e]
                            /\ e.place = p /\ e.life = lanes[call.w].life
<1> DEFINE w == call.w
           d == [mem[w] EXCEPT !.place = p, !.life = lanes[w].life, !.outcome = o,
                   !.ev = <<lanes[w].fence, lanes[w].seq>>]
           b == IF p = "RECONCILIATION" THEN lanes[w].fence # Replayed.lease ELSE d.rebound
           e == [d EXCEPT !.lease = lanes[w].fence, !.rebound = b]
<1>1. w \in Works /\ StoresTyped /\ mem \in [Works -> Entries]
  BY RecoveringIsKnown DEF Recovering, OnClaim
<1>2. mem[w] \in Entries /\ lanes[w] \in Lanes
  BY <1>1 DEF StoresTyped
<1>3. d \in Entries /\ d.place = p /\ d.life = lanes[w].life
  BY <1>2 DEF Entries, Lanes, Places
<1>4. AfterAnswer(mem, w, p, o) = [mem EXCEPT ![w] = d]
  BY <1>1 DEF AfterAnswer
<1> HIDE DEF d
<1>5. b \in BOOLEAN
  BY <1>3 DEF Entries
<1>6. Projected(p, o) = [mem EXCEPT ![w] = e]
  BY <1>1, <1>4 DEF Projected
<1> HIDE DEF b
<1>7. e \in Entries /\ e.place = p /\ e.life = lanes[w].life
  BY <1>2, <1>3, <1>5 DEF Entries, Lanes
<1> QED
  BY <1>6, <1>7
LEMMA ProjectReapKeeps ==
  ASSUME ClaimInv, ProjectReap
  PROVE  ClaimInv'
<1> DEFINE w == call.w
<1>1. /\ pc = "project" /\ pc \in Recovering /\ pc \in OnClaim /\ Replayed.op = "REAP_BATCH"
      /\ UNCHANGED <<storeVars, sched>>
  BY DEF ProjectReap, At, Recovering, OnClaim
<1>2. /\ call.op = "RECOVER" /\ call \in CallRecords /\ StoresTyped /\ mem \in [Works -> Entries]
      /\ journal \in Seq(Transactions) /\ AboutClaims(journal) /\ call.at # 0
      /\ jm \in Seq(Transactions) /\ AboutClaims(jm) /\ Quietly
      /\ w \in Works /\ w \in Holders(sched)
      /\ call.left \subseteq Holders(sched)
      /\ \A i \in DOMAIN call.todo : call.todo[i] \in Holders(sched)
  BY <1>1, RecoveringIsKnown, StillIsQuiet
<1>3. call.todo # <<>> /\ call.kind = "FAILED" /\ call.todo \in Seq(Works)
  BY <1>1, <1>2 DEF ClaimInv, AtStep, CallFits, Reaping, CallRecords
<1>4. lanes[w].status = "RELEASED" /\ reserved[w] = 0 /\ Terminal(w)
  <2>1. lanes[w].status = "RELEASED" /\ reserved[w] = 0
    BY <1>1, <1>3 DEF ClaimInv, AtStep, FreesAt, EndsClaim
  <2> QED
    BY <1>2, <2>1 DEF ClaimInv, Steady, Frees, Holders
<1>5. CASE ReplayNext(jm)
  BY <1>1, <1>2, <1>5, ReplayNextKeeps
<1>6. CASE /\ mem' = Projected("RELEASED", "AMBIGUOUS_REAPED")
           /\ call' = [call EXCEPT !.todo = Tail(call.todo), !.changed = TRUE]
           /\ pc' = "reapItem" /\ UNCHANGED <<journal, jm>>
  <2>1. PICK e \in Entries : /\ mem' = [mem EXCEPT ![w] = e]
                             /\ e.place = "RELEASED" /\ e.life = lanes[w].life
    BY <1>1, <1>6, ProjectedIsTyped DEF Outcomes
  <2>2. /\ Tail(call.todo) \in Seq(Works)
        /\ \A i \in DOMAIN Tail(call.todo) : i + 1 \in DOMAIN call.todo /\ Tail(call.todo)[i] = call.todo[i + 1]
    BY <1>3
  <2>3. /\ call' \in CallRecords /\ call'.op = "RECOVER" /\ call'.todo = Tail(call.todo)
        /\ call'.left = call.left /\ call'.at = call.at
    BY <1>2, <1>6, <2>2 DEF CallRecords
  <2>4. Steady'
    <3>1. MayBecome(sched[w], e)
      BY <1>2, <2>1 DEF MayBecome, Holders
    <3>2. /\ reserved'[w] = 0 /\ lanes'[w].status = "RELEASED"
          /\ lanes'[w].life \in TerminalStates /\ lanes'[w].life = e.life
      BY <1>1, <1>4, <2>1 DEF Terminal, storeVars, laneVars, ledgerVars
    <3>3. AboutClaims(journal)' /\ AboutClaims(jm)'
      BY <1>1, <1>2, <1>6 DEF AboutClaims
    <3>4. Steady
      BY DEF ClaimInv
    <3> QED
      BY <1>1, <1>2, <1>6, <2>1, <2>3, <3>1, <3>2, <3>3, <3>4, ClaimMoves
  <2>5. \A i \in DOMAIN call'.todo : call'.todo[i] \in Holders(sched)'
    BY <1>1, <1>2, <2>2, <2>3 DEF Holders
  <2>6. AtStep'
    BY <1>1, <1>2, <1>6, <2>3, <2>5 DEF AtStep, CallFits, AnswerFits, WorkKnown, ClaimFits, FreesAt, Holders,
      Claiming, Undo, Phase, Recovering, Compensating, OnClaim
  <2> QED
    BY <2>4, <2>6 DEF ClaimInv
<1> QED
  BY <1>5, <1>6 DEF ProjectReap, Goto

LEMMA ProjectOutcomeKeeps ==
  ASSUME ClaimInv, ProjectOutcome
  PROVE  ClaimInv'
<1> DEFINE w == call.w
           k == call.kind
           ph == IF mem'[w].rebound /\ k = "UNKNOWN" THEN "RECONCILIATION_HELD" ELSE "COMMITTED"
<1>1. /\ pc = "project" /\ pc \in Recovering /\ pc \in OnClaim /\ UNCHANGED <<storeVars, sched>>
  BY DEF ProjectOutcome, At, Recovering, OnClaim
<1>2. /\ call.op = "RECOVER" /\ call \in CallRecords /\ StoresTyped /\ mem \in [Works -> Entries]
      /\ journal \in Seq(Transactions) /\ AboutClaims(journal) /\ call.at \in Nat
      /\ jm \in Seq(Transactions) /\ AboutClaims(jm) /\ Quietly
      /\ w \in Works /\ w \in Holders(sched)
      /\ call.left \subseteq Holders(sched)
      /\ \A i \in DOMAIN call.todo : call.todo[i] \in Holders(sched)
  BY <1>1, RecoveringIsKnown, StillIsQuiet
<1>3. /\ EndsClaim(k) \/ k = "UNKNOWN"
      /\ k = "UNKNOWN" => mem[w].place = "ACTIVE"
      /\ EndsClaim(k) => lanes[w].status = "RELEASED" /\ reserved[w] = 0
  BY <1>1 DEF ClaimInv, AtStep, AnswerFits, FreesAt
<1>4. CASE RecoveryPhaseFails
  BY <1>1, <1>2, <1>4, RecoveryPhaseFailsKeeps
<1>5. CASE /\ mem' = Projected(PlaceAfter(k), k) /\ jm' = Marked(ph)
           /\ call' = [call EXCEPT !.at = call.at + 1, !.w = "NONE", !.kind = "NONE", !.changed = TRUE]
           /\ pc' = "replay" /\ UNCHANGED journal
  <2>1. /\ PlaceAfter(k) \in {"RECONCILIATION", "RELEASED"} /\ k \in Outcomes
        /\ PlaceAfter(k) = "RELEASED" <=> EndsClaim(k)
    BY <1>3 DEF PlaceAfter, EndsClaim, Outcomes, Answers
  <2>2. PICK e \in Entries : /\ mem' = [mem EXCEPT ![w] = e]
                             /\ e.place = PlaceAfter(k) /\ e.life = lanes[w].life
    BY <1>1, <1>5, <2>1, ProjectedIsTyped
  <2>3. ph \in Phases
    BY DEF Phases, ClosedPhases
  <2> HIDE DEF ph
  <2>4. jm' \in Seq(Transactions) /\ AboutClaims(jm')
    BY <1>5, <2>3, MarkedIsTyped
  <2>5. /\ call' \in CallRecords /\ call'.op = "RECOVER" /\ call'.todo = call.todo
        /\ call'.left = call.left /\ call'.at # 0
    <3>1. call.at + 1 \in Nat /\ call.at + 1 # 0 /\ "NONE" \in Kinds
      BY <1>2 DEF Kinds
    <3> QED
      BY <1>2, <1>5, <3>1 DEF CallRecords
  <2>6. Steady'
    <3>1. MayBecome(sched[w], e) /\ (e.place = "RECONCILIATION" => w \in Holders(mem))
      BY <1>2, <1>3, <2>1, <2>2 DEF ClaimInv, Steady, CopyFollows, MayBecome, Holders
    <3>2. e.place = "RELEASED" => /\ reserved'[w] = 0 /\ lanes'[w].status = "RELEASED"
                                  /\ lanes'[w].life \in TerminalStates /\ lanes'[w].life = e.life
      <4>1. lanes[w].status = "RELEASED" => Terminal(w)
        BY <1>2 DEF ClaimInv, Steady, Frees, Holders
      <4> QED
        BY <1>1, <1>3, <2>1, <2>2, <4>1 DEF Terminal, storeVars, laneVars, ledgerVars
    <3>3. AboutClaims(journal)' /\ AboutClaims(jm)'
      BY <1>1, <1>2, <1>5, <2>4 DEF AboutClaims
    <3>4. Steady /\ e.place \in {"RECONCILIATION", "RELEASED"}
      BY <2>1, <2>2 DEF ClaimInv
    <3> QED
      BY <1>1, <1>2, <1>5, <2>2, <2>4, <2>5, <3>1, <3>2, <3>3, <3>4, ClaimMoves
  <2>7. AtStep'
    BY <1>1, <1>2, <1>5, <2>5 DEF AtStep, CallFits, AnswerFits, WorkKnown, ClaimFits, FreesAt, Holders,
      Claiming, Undo, Phase, Recovering, Compensating, OnClaim
  <2> QED
    BY <2>6, <2>7 DEF ClaimInv
<1> QED
  BY <1>4, <1>5 DEF ProjectOutcome, Goto

-----------------------------------------------------------------------------
(* recoverSchedulerTransactions: the divergence scan                       *)

LEMMA StartScanKeeps ==
  ASSUME ClaimInv, StartScan
  PROVE  ClaimInv'
<1>1. /\ pc = "replay" /\ pc \in Recovering /\ pc' = "scan"
      /\ call' = [call EXCEPT !.left = Holders(mem) \ call.first]
      /\ UNCHANGED <<storeVars, sched, journal, mem, jm>>
  BY DEF StartScan, At, Goto, Recovering
<1>2. /\ call.op = "RECOVER" /\ call \in CallRecords /\ call.at # 0
      /\ \A i \in DOMAIN call.todo : call.todo[i] \in Holders(sched)
  BY <1>1, RecoveringIsKnown
<1>3. Holders(mem) \subseteq Holders(sched) /\ Holders(mem) \subseteq Works
  BY <1>2 DEF ClaimInv, Steady, BooksTyped, CopyFollows, MayBecome, Entries, Places, Holders
<1>4. /\ call' \in CallRecords /\ call'.op = "RECOVER" /\ call'.todo = call.todo
      /\ call'.left \subseteq Holders(sched) /\ call'.at = call.at
  BY <1>1, <1>2, <1>3 DEF CallRecords
<1>5. Steady'
  BY <1>1, <1>2, <1>4, CallMoves DEF ClaimInv
<1>6. AtStep'
  BY <1>1, <1>2, <1>4 DEF AtStep, CallFits, AnswerFits, WorkKnown, ClaimFits, FreesAt, Holders,
      Claiming, Undo, Phase, Recovering, Compensating, OnClaim
<1> QED
  BY <1>5, <1>6 DEF ClaimInv

LEMMA ScanHealthyKeeps ==
  ASSUME ClaimInv, NEW w \in Works, ScanHealthy(w)
  PROVE  ClaimInv'
<1>1. /\ pc = "scan" /\ pc \in Recovering /\ pc' = "scan"
      /\ call' = [call EXCEPT !.left = call.left \ {w}]
      /\ UNCHANGED <<storeVars, sched, journal, mem, jm>>
  BY DEF ScanHealthy, At, Recovering
<1>2. /\ call.op = "RECOVER" /\ call \in CallRecords /\ Quietly
      /\ journal \in Seq(Transactions) /\ AboutClaims(journal)
      /\ jm \in Seq(Transactions) /\ AboutClaims(jm)
  BY <1>1, RecoveringIsKnown, StillIsQuiet
<1>3. /\ call' \in CallRecords /\ call'.op = "RECOVER" /\ call'.left \subseteq call.left
      /\ call'.todo = call.todo /\ call'.at = call.at
  BY <1>1, <1>2 DEF CallRecords
<1> QED
  BY <1>1, <1>2, <1>3, ScanKeeps

LEMMA ScanRepairKeeps ==
  ASSUME ClaimInv, NEW w \in Works, ScanRepair(w)
  PROVE  ClaimInv'
<1> DEFINE k == IF MayResume(w) THEN "RECLAIM" ELSE "COMPENSATE"
           t == Transaction("STORE_RECONCILIATION", <<w>>, k, mem[w].lease)
<1>1. pc = "scan" /\ pc \in Recovering /\ w \in call.left /\ UNCHANGED <<storeVars, sched>>
  BY DEF ScanRepair, NextInScan, Recovering
<1>2. /\ call.op = "RECOVER" /\ call \in CallRecords /\ Quietly /\ mem \in [Works -> Entries]
      /\ journal \in Seq(Transactions) /\ AboutClaims(journal)
      /\ jm \in Seq(Transactions) /\ AboutClaims(jm)
      /\ call.left \subseteq Holders(sched)
      /\ \A i \in DOMAIN call.todo : call.todo[i] \in Holders(sched)
  BY <1>1, RecoveringIsKnown, StillIsQuiet
<1>3. CASE EndCall(journal)
  BY <1>1, <1>2, <1>3, EndCallKeeps
<1>4. CASE /\ jm' = Append(jm, t) /\ journal' = Pending(jm')
           /\ call' = [call EXCEPT !.w = w, !.kind = k, !.at = Len(jm'), !.wrote = TRUE]
           /\ pc' = IF k = "RECLAIM" THEN "live" ELSE "compensate"
           /\ UNCHANGED mem
  <2>1. k \in {"RECLAIM", "COMPENSATE"}
    OBVIOUS
  <2> HIDE DEF k
  <2>2. t \in Transactions /\ t.op = "STORE_RECONCILIATION"
    <3>1. mem[w] \in Entries
      BY <1>2
    <3>2. mem[w].lease \in Nat
      BY <3>1 DEF Entries
    <3> QED
      BY <2>1, <3>2 DEF Transaction, Transactions, Operations, Kinds, Phases
  <2> HIDE DEF t
  <2>3. jm' \in Seq(Transactions) /\ AboutClaims(jm')
    BY <1>2, <1>4, <2>2, LongerIsTyped
  <2>4. Len(jm') \in Nat /\ Len(jm') # 0 /\ jm'[Len(jm')] = t
    BY <1>2, <1>4, <2>2
  <2>5. journal' \in Seq(Transactions) /\ AboutClaims(journal')
    BY <1>4, <2>3, PendingKeeps
  <2>6. /\ call' \in CallRecords /\ call'.op = "RECOVER" /\ call'.todo = call.todo
        /\ call'.left = call.left /\ call'.at = Len(jm') /\ call'.w = w /\ call'.kind = k
    <3>1. k \in Kinds
      BY <2>1 DEF Kinds
    <3> QED
      BY <1>2, <1>4, <2>4, <3>1 DEF CallRecords
  <2>7. Steady'
    BY <1>1, <1>2, <1>4, <2>3, <2>5, <2>6, StepMoves DEF ClaimInv
  <2>8. AtStep'
    <3>1. ~Reaping'
      BY <2>2, <2>4, <2>6 DEF Reaping, Replayed
    <3>2. CallFits'
      BY <1>4, <2>1, <2>4, <2>6, <3>1 DEF CallFits, Claiming, Undo, Phase, Recovering, Compensating, OnClaim
    <3>3. AnswerFits'
      BY <1>4, <2>1, <2>6 DEF AnswerFits, Phase
    <3>4. WorkKnown'
      BY <1>1, <1>2, <1>4, <2>1, <2>6 DEF WorkKnown, Holders, Claiming, Undo, Phase, Compensating, OnClaim
    <3>5. ClaimFits' /\ FreesAt'
      BY <1>4, <2>1, <2>6 DEF ClaimFits, FreesAt, Claiming
    <3> QED
      BY <3>2, <3>3, <3>4, <3>5 DEF AtStep
  <2> QED
    BY <2>7, <2>8 DEF ClaimInv
<1> QED
  BY <1>3, <1>4 DEF ScanRepair, Try, Goto

LEMMA RepairedKeeps ==
  ASSUME ClaimInv, Repaired
  PROVE  ClaimInv'
<1>1. pc = "repaired" /\ pc \in Recovering /\ UNCHANGED <<storeVars, sched>>
  BY DEF Repaired, At, Recovering
<1>2. call.op = "RECOVER" /\ call \in CallRecords /\ Quietly
  BY <1>1, RecoveringIsKnown, StillIsQuiet
<1>3. CASE RepairFails
  BY <1>1, <1>2, <1>3, RepairFailsKeeps
<1>4. CASE /\ jm' = Marked("COMMITTED") /\ journal' = Pending(jm')
           /\ call' = [call EXCEPT !.left = call.left \ {call.w}, !.w = "NONE", !.kind = "NONE",
                                   !.changed = TRUE]
           /\ pc' = "scan" /\ UNCHANGED mem
  <2>1. jm' \in Seq(Transactions) /\ AboutClaims(jm')
    BY <1>4, MarkedIsTyped DEF Phases, ClosedPhases
  <2>2. journal' \in Seq(Transactions) /\ AboutClaims(journal')
    BY <1>4, <2>1, PendingKeeps
  <2>3. /\ call' \in CallRecords /\ call'.op = "RECOVER" /\ call'.left \subseteq call.left
        /\ call'.todo = call.todo /\ call'.at = call.at
    BY <1>2, <1>4 DEF CallRecords, Kinds
  <2> QED
    BY <1>1, <1>2, <1>4, <2>1, <2>2, <2>3, ScanKeeps
<1> QED
  BY <1>3, <1>4 DEF Repaired, Try, Goto

\* compensateDivergentEntry
LEMMA CompensateMoves ==
  ASSUME ClaimInv, Quietly, pc \in Compensating, pc' \in Compensating,
         UNCHANGED <<sched, journal, call, jm>>, Steady',
         pc' = "compRelease" => lanes'[call.w].life \in TerminalStates
  PROVE  ClaimInv'
<1>1. CallFits' /\ AnswerFits'
  BY DEF ClaimInv, AtStep, CallFits, AnswerFits, Claiming, Undo, Phase, Recovering,
    Compensating, OnClaim
<1>2. WorkKnown' /\ ClaimFits' /\ FreesAt'
  BY DEF ClaimInv, AtStep, CallFits, WorkKnown, ClaimFits, FreesAt, Terminal, Holders,
    Claiming, Undo, Phase, Recovering, Compensating, OnClaim
<1> QED
  BY <1>1, <1>2 DEF ClaimInv, AtStep

LEMMA CompensateKeeps ==
  ASSUME ClaimInv, Compensate
  PROVE  ClaimInv'
<1> DEFINE w == call.w
           f == lanes[w].fence
<1>1. pc \in Compensating /\ pc \in OnClaim /\ pc \in Recovering /\ UNCHANGED <<evidence, sched>>
  BY DEF Compensate, CompensateExpire, CompensateSettle, CompensateReclaim, Terminalize,
    CompensateRelease, CompensateFree, At, Compensating, OnClaim, Recovering
<1>2. /\ call.op = "RECOVER" /\ call \in CallRecords /\ StoresTyped /\ mem \in [Works -> Entries]
      /\ journal \in Seq(Transactions) /\ AboutClaims(journal)
      /\ jm \in Seq(Transactions) /\ AboutClaims(jm) /\ Steady
      /\ w \in Works /\ w \in Holders(sched)
      /\ call.left \subseteq Holders(sched) /\ call.at # 0
      /\ \A i \in DOMAIN call.todo : call.todo[i] \in Holders(sched)
  BY <1>1, RecoveringIsKnown DEF ClaimInv, Compensating
<1>3. mem[w] \in Entries /\ lanes[w] \in Lanes /\ reserved[w] \in Nat /\ nextLeaseFence \in Nat
  BY <1>2 DEF StoresTyped
<1>4. CASE RepairFails /\ UNCHANGED <<laneVars, ledgerVars>>
  BY <1>1, <1>2, <1>4, RepairFailsKeeps, StillIsQuiet DEF storeVars
\* The lane is brought on, and the copy stays.
<1>5. ASSUME Quietly, pc' \in Compensating, UNCHANGED <<journal, call, mem, jm>>,
             pc' = "compRelease" => lanes'[w].life \in TerminalStates
      PROVE  ClaimInv'
  <2>1. Steady'
    BY <1>1, <1>2, <1>5, SteadyKeeps DEF AboutClaims
  <2> QED
    BY <1>1, <1>5, <2>1, CompensateMoves
<1>6. CASE CompensateExpire
  <2>1. UNCHANGED ledgerVars
    BY <1>6 DEF CompensateExpire
  <2>2. CASE ExpireLease(w, f) /\ UNCHANGED <<pc, journal, call, mem, jm>>
    <3>1. Quietly /\ pc' = "compensate"
      BY <1>1, <1>2, <1>6, <2>1, <2>2, ExpiryIsQuiet DEF CompensateExpire, At
    <3> QED
      BY <1>5, <2>2, <3>1 DEF Compensating
  <2> QED
    BY <1>4, <1>6, <2>1, <2>2 DEF CompensateExpire, Try
<1>7. CASE CompensateSettle
  <2>1. UNCHANGED ledgerVars
    BY <1>7 DEF CompensateSettle
  <2>2. CASE SettleTerminalLease(w, f) /\ UNCHANGED <<pc, journal, call, mem, jm>>
    <3>1. Quietly /\ pc' = "compensate"
      BY <1>1, <1>2, <1>7, <2>1, <2>2, ReleaseIsQuiet DEF CompensateSettle, At
    <3> QED
      BY <1>5, <2>2, <3>1 DEF Compensating
  <2> QED
    BY <1>4, <1>7, <2>1, <2>2 DEF CompensateSettle, Try
<1>8. CASE CompensateReclaim
  <2>1. UNCHANGED ledgerVars
    BY <1>8 DEF CompensateReclaim
  <2>2. CASE /\ ReclaimLease(w, f) /\ mem' = [mem EXCEPT ![w].lease = nextLeaseFence]
             /\ pc' = "terminalize" /\ UNCHANGED <<journal, call, jm>>
    <3> DEFINE e == [mem[w] EXCEPT !.lease = nextLeaseFence]
    <3>1. Quietly /\ lanes[w].status # "RELEASED"
      BY <1>1, <1>2, <2>1, <2>2, ExpiryIsQuiet DEF ReclaimLease, MayReclaim
    <3>2. e \in Entries /\ e.place = mem[w].place /\ mem' = [mem EXCEPT ![w] = e]
      BY <1>3, <2>2 DEF Entries
    <3> HIDE DEF e
    <3>3. Steady'
      BY <1>1, <1>2, <2>2, <3>1, <3>2, EntryMoves
    <3> QED
      BY <1>1, <2>2, <3>1, <3>3, CompensateMoves DEF Compensating
  <2> QED
    BY <1>4, <1>8, <2>1, <2>2 DEF CompensateReclaim, Try, Goto
<1>9. CASE Terminalize
  <2>1. UNCHANGED ledgerVars
    BY <1>9 DEF Terminalize
  <2>2. CASE /\ CheckpointLane(w, f, "FAILED_TERMINAL", mem[w].res)
             /\ pc' = "compRelease" /\ UNCHANGED <<journal, call, mem, jm>>
    <3>1. "FAILED_TERMINAL" \in LifecycleStates /\ mem[w].res \in Nat
      BY <1>3 DEF Entries, LifecycleStates, NonSuccessStates
    <3>2. Quietly /\ lanes'[w].life = "FAILED_TERMINAL"
      BY <1>1, <1>2, <2>1, <2>2, <3>1, CheckpointIsQuiet
    <3> QED
      BY <1>5, <2>2, <3>2 DEF Compensating, TerminalStates
  <2> QED
    BY <1>4, <1>9, <2>1, <2>2 DEF Terminalize, Try, Goto
<1>10. CASE CompensateRelease
  <2>1. UNCHANGED ledgerVars /\ Terminal(w)
    BY <1>10 DEF CompensateRelease, At, ClaimInv, AtStep, FreesAt
  <2>2. CASE /\ ReleaseLease(w, f) /\ pc' = "compensate" /\ UNCHANGED <<journal, call, mem, jm>>
    <3>1. Quietly
      BY <1>1, <1>2, <2>1, <2>2, ReleaseIsQuiet
    <3> QED
      BY <1>5, <2>2, <3>1 DEF Compensating
  <2> QED
    BY <1>4, <1>10, <2>1, <2>2 DEF CompensateRelease, Try, Goto
<1>11. CASE CompensateFree
  <2>1. UNCHANGED laneVars /\ lanes[w].status = "RELEASED"
    BY <1>11 DEF CompensateFree
  <2>2. CASE /\ Terminal(w)
             /\ IF reserved[w] = 0 THEN UNCHANGED ledgerVars ELSE Free(w, reserved[w])
             /\ mem' = [mem EXCEPT ![w].place = "RELEASED", ![w].lease = lanes[w].fence,
                                   ![w].life = lanes[w].life,
                                   ![w].outcome = "STORE_DIVERGENCE_COMPENSATED"]
             /\ pc' = "repaired" /\ UNCHANGED <<journal, call, jm>>
    <3> DEFINE e == [mem[w] EXCEPT !.place = "RELEASED", !.lease = lanes[w].fence,
                       !.life = lanes[w].life, !.outcome = "STORE_DIVERGENCE_COMPENSATED"]
    <3>1. Quietly /\ reserved'[w] = 0
      <4>1. CASE reserved[w] = 0 /\ UNCHANGED ledgerVars
        BY <1>1, <1>2, <2>1, <4>1, StillIsQuiet DEF storeVars, ledgerVars
      <4>2. CASE Free(w, reserved[w])
        BY <1>1, <1>2, <1>3, <2>1, <4>2, FreeingIsQuiet
      <4> QED
        BY <2>2, <4>1, <4>2
    <3>2. e \in Entries /\ e.place = "RELEASED" /\ e.life = lanes[w].life
      BY <1>3 DEF Entries, Lanes, Places, Outcomes
    <3>3. mem' = [mem EXCEPT ![w] = e]
      BY <1>2, <2>2
    <3> HIDE DEF e
    <3>4. Steady'
      <4>1. MayBecome(sched[w], e)
        BY <1>2, <3>2 DEF MayBecome, Holders
      <4>2. /\ lanes'[w].status = "RELEASED" /\ lanes'[w].life \in TerminalStates
            /\ lanes'[w].life = e.life
        BY <2>1, <2>2, <3>2 DEF Terminal, laneVars
      <4>3. AboutClaims(journal)' /\ AboutClaims(jm)'
        BY <1>1, <1>2, <2>2 DEF AboutClaims
      <4> QED
        BY <1>1, <1>2, <2>2, <3>1, <3>2, <3>3, <4>1, <4>2, <4>3, ClaimMoves
    <3>5. AtStep'
      BY <1>1, <1>2, <2>2 DEF AtStep, CallFits, AnswerFits, WorkKnown, ClaimFits, FreesAt, Holders,
        Claiming, Undo, Phase, Recovering, Compensating, OnClaim
    <3> QED
      BY <3>4, <3>5 DEF ClaimInv
  <2> QED
    BY <1>4, <1>11, <2>1, <2>2 DEF CompensateFree, Try, Goto
<1> QED
  BY <1>6, <1>7, <1>8, <1>9, <1>10, <1>11 DEF Compensate

LEMMA SaveRecoveryKeeps ==
  ASSUME ClaimInv, SaveRecovery
  PROVE  ClaimInv'
<1>1. pc = "scan" /\ pc \in Recovering /\ UNCHANGED storeVars
  BY DEF SaveRecovery, Recovering
<1>2. call.op = "RECOVER" /\ call.at # 0 /\ call \in CallRecords
      /\ journal \in Seq(Transactions) /\ AboutClaims(journal) /\ Quietly
  BY <1>1, RecoveringIsKnown, StillIsQuiet
<1>3. CASE EndCall(journal) /\ UNCHANGED sched
  BY <1>1, <1>2, <1>3, EndCallKeeps
<1>4. CASE (sched' = mem \/ UNCHANGED sched) /\ pc' = "saveJournal" /\ UNCHANGED <<journal, call, mem, jm>>
  <2>1. Steady'
    <3>1. CASE UNCHANGED sched
      BY <1>1, <1>2, <1>4, <3>1, CallMoves DEF ClaimInv
    <3>2. CASE sched' = mem
      <4>1. \A w \in Works : sched[w].place = "NONE" => mem[w].place = "NONE"
        BY <1>2 DEF ClaimInv, Steady, CopyFollows, MayBecome
      <4> QED
        BY <1>1, <1>2, <1>4, <3>2, <4>1, CopyIsSaved DEF ClaimInv
    <3> QED
      BY <1>4, <3>1, <3>2
  <2>2. AtStep'
    BY <1>2, <1>4 DEF AtStep, CallFits, AnswerFits, WorkKnown, ClaimFits, FreesAt,
      Claiming, Undo, Phase, Recovering, Compensating, OnClaim
  <2> QED
    BY <2>1, <2>2 DEF ClaimInv
<1> QED
  BY <1>3, <1>4 DEF SaveRecovery, Try, Goto

LEMMA SaveRecoveredJournalKeeps ==
  ASSUME ClaimInv, SaveRecoveredJournal
  PROVE  ClaimInv'
<1>1. UNCHANGED <<storeVars, sched>> /\ (EndCall(jm) \/ EndCall(journal))
  BY DEF SaveRecoveredJournal, Try
<1> QED
  BY <1>1, EndCallKeeps, StillIsQuiet DEF ClaimInv, Steady, BooksTyped

-----------------------------------------------------------------------------
(* The whole scheduler                                                     *)

LEMMA CrashKeeps ==
  ASSUME ClaimInv, Crash
  PROVE  ClaimInv'
<1>1. UNCHANGED <<storeVars, sched>> /\ EndCall(journal)
  BY DEF Crash
<1> QED
  BY <1>1, EndCallKeeps, StillIsQuiet DEF ClaimInv, Steady, BooksTyped

LEMMA LapseKeeps ==
  ASSUME ClaimInv, NEW w \in Works, Lapse(w)
  PROVE  ClaimInv'
<1>1. /\ LeaseLapses(w) /\ UNCHANGED lanes
      /\ UNCHANGED <<ledgerVars, evidence, sched, journal, pc, call, mem, jm>>
  BY DEF Lapse, LeaseLapses
<1>2. Quietly
  BY <1>1, ExpiryIsQuiet DEF ClaimInv, Steady
<1>3. Steady'
  BY <1>1, <1>2, SteadyKeeps DEF ClaimInv, Steady, BooksTyped, AboutClaims
<1>4. AtStep'
  <2>1. CallFits' /\ AnswerFits'
    BY <1>1 DEF ClaimInv, AtStep, CallFits, AnswerFits, Reaping, Replayed
  <2>2. WorkKnown' /\ ClaimFits' /\ FreesAt'
    BY <1>1 DEF ClaimInv, AtStep, WorkKnown, ClaimFits, FreesAt, Holders, Terminal, ledgerVars
  <2> QED
    BY <2>1, <2>2 DEF AtStep
<1> QED
  BY <1>3, <1>4 DEF ClaimInv

LEMMA StillKeeps ==
  ASSUME ClaimInv, UNCHANGED vars
  PROVE  ClaimInv'
<1>1. UNCHANGED <<storeVars, sched, journal, pc, call, mem, jm>> /\ Quietly
  BY StillIsQuiet DEF vars, ClaimInv, Steady
<1>2. Steady'
  BY <1>1, SteadyKeeps DEF ClaimInv, Steady, BooksTyped, AboutClaims
<1>3. AtStep'
  <2>1. CallFits' /\ AnswerFits'
    BY <1>1 DEF ClaimInv, AtStep, CallFits, AnswerFits, Reaping, Replayed
  <2>2. WorkKnown' /\ ClaimFits' /\ FreesAt'
    BY <1>1 DEF ClaimInv, AtStep, WorkKnown, ClaimFits, FreesAt, Holders, Terminal,
      storeVars, laneVars, ledgerVars
  <2> QED
    BY <2>1, <2>2 DEF AtStep
<1> QED
  BY <1>2, <1>3 DEF ClaimInv

LEMMA InitClaims == Init => ClaimInv
<1> SUFFICES ASSUME Init PROVE ClaimInv
  OBVIOUS
<1>1. /\ lanes = [w \in Works |-> NoLane] /\ nextLeaseFence = 1 /\ lapsed = {}
      /\ reserved = [w \in Works |-> 0] /\ releases = [w \in Works |-> 0] /\ nextReservationFence = 1
      /\ sched = [w \in Works |-> NoEntry] /\ mem = [w \in Works |-> NoEntry]
      /\ journal = <<>> /\ jm = <<>> /\ evidence = {} /\ pc = "idle" /\ call = NoCall
  BY DEF Init, LaneInit, LedgerInit
<1>2. NoLane \in Lanes
  BY DEF NoLane, Lanes, LaneStatuses, LifecycleStates, SuccessStates, SuccessPath
<1>3. StoresTyped
  BY <1>1, <1>2 DEF StoresTyped
<1>4. BooksTyped
  BY <1>1, NoEntryIsTyped, NoCallIsTyped DEF BooksTyped
<1>5. CopyFollows /\ AboutClaims(journal) /\ AboutClaims(jm)
  BY <1>1 DEF CopyFollows, AboutClaims, NoCall
<1>6. Fits
  <2>1. Holders(sched) = {} /\ Holders(mem) = {}
    BY <1>1 DEF Holders, NoEntry
  <2>2. Cardinality({}) <= Capacity
    BY FS_EmptySet, SchedulerAssumption
  <2> QED
    BY <1>1, <2>1, <2>2 DEF Fits
<1>7. Frees
  BY <1>1 DEF Frees, HoldsNothing, NoEntry
<1>8. AtStep
  BY <1>1 DEF AtStep, CallFits, AnswerFits, WorkKnown, ClaimFits, FreesAt, NoCall,
    Claiming, Undo, Phase, Compensating, Recovering, OnClaim
<1> QED
  BY <1>3, <1>4, <1>5, <1>6, <1>7, <1>8 DEF ClaimInv, Steady

LEMMA StepKeeps ==
  ASSUME ClaimInv, [Next]_vars
  PROVE  ClaimInv'
<1>1. CASE Calls
  BY <1>1, StartScheduleKeeps, StartReapKeeps, StartRecoveryKeeps DEF Calls
<1>2. CASE Scheduling
  BY <1>2, SkipKeeps, BeginTransactionKeeps, AcquireReservationKeeps, NoteReservationKeeps,
    AcquireLaneLeaseKeeps, NoteLeaseKeeps, DispatchKeeps, DispatchEvidenceKeeps,
    SaveScheduleKeeps, CommitScheduleKeeps, UndoLeaseKeeps, UndoReservationKeeps, UndoneKeeps
    DEF Scheduling
<1>3. CASE PhaseOutcome
  BY <1>3, PhaseOutcomeKeeps
<1>4. CASE Recovery
  BY <1>4, ReplayReconciliationKeeps, ReplayScheduleKeeps, RecoveryUndoneKeeps,
    ReplayReleasedKeeps, ReplayHeldKeeps, ReplayTerminalKeeps, ReplayAmbiguousKeeps,
    ReplayProgressKeeps, ReplayReapKeeps, ReapItemKeeps, ReleaseAgainKeeps, ProjectReapKeeps,
    ProjectOutcomeKeeps, StartScanKeeps, ScanHealthyKeeps, ScanRepairKeeps, RepairedKeeps,
    CompensateKeeps, SaveRecoveryKeeps, SaveRecoveredJournalKeeps DEF Recovery
<1>5. CASE SaveOutcome \/ CloseTransaction \/ SaveReap \/ SupersedeHeld
  BY <1>5, SaveOutcomeKeeps, CloseTransactionKeeps, SaveReapKeeps, SupersedeHeldKeeps
<1>6. CASE Crash \/ (\E w \in Works : Lapse(w)) \/ UNCHANGED vars
  BY <1>6, CrashKeeps, LapseKeeps, StillKeeps
<1>7. CASE \E w \in Works, k \in Answers : StartOutcome(w, k)
  BY <1>7, StartOutcomeKeeps
<1> QED
  BY <1>1, <1>2, <1>3, <1>4, <1>5, <1>6, <1>7 DEF Next, Steps

THEOREM ClaimInvariant == Spec => []ClaimInv
<1>1. ClaimInv /\ [Next]_vars => ClaimInv'
  BY StepKeeps
<1> QED
  BY InitClaims, <1>1, PTL DEF Spec

\* The global budget bounds the claims whose workers may be running, for any
\* budget and whatever died or failed in between (scheduleEligibleSet counts
\* the fenced reconciliations before it makes a claim).
THEOREM ClaimsFitTheBudget == Spec => []WithinCapacity
<1>1. ClaimInv => WithinCapacity
  BY DEF ClaimInv, Steady, Fits, WithinCapacity
<1> QED
  BY <1>1, ClaimInvariant, PTL

\* While a claim is unfinished, nothing whose reservation set conflicts with
\* its own holds one (the check of the ranking and the ledger's own together).
THEOREM ClaimsExcludeConflicts == Spec => []ClaimsDoNotCollide
<1>1. ClaimInv => ClaimsDoNotCollide
  BY DEF ClaimInv, Steady, Fits, ClaimsDoNotCollide, Holders
<1> QED
  BY <1>1, ClaimInvariant, PTL

\* No path of an answer, a reap or a repair calls a claim released before its
\* lane and its reservation are.
THEOREM ReleasedIsReleasedEverywhere == Spec => []ReleasedClaimsHoldNothing
<1>1. ClaimInv => ReleasedClaimsHoldNothing
  BY DEF ClaimInv, Steady, Frees, HoldsNothing, ReleasedClaimsHoldNothing
<1> QED
  BY <1>1, ClaimInvariant, PTL

\* Only the four writes of the state change it.
LEMMA OnlyWritesChange ==
  ASSUME Next
  PROVE  UNCHANGED sched \/ SaveSchedule \/ SaveOutcome \/ SaveReap \/ SaveRecovery
<1>1. CASE Calls
  BY <1>1 DEF Calls, StartSchedule, StartReap, StartRecovery, Begin
<1>2. CASE Scheduling
  BY <1>2 DEF Scheduling, Skip, BeginTransaction, AcquireReservation, NoteReservation,
    AcquireLaneLease, NoteLease, Dispatch, DispatchEvidence, CommitSchedule, UndoLease,
    UndoReservation, Undone
<1>3. CASE PhaseOutcome
  BY <1>3 DEF PhaseOutcome, ExpireLapsed, ReclaimExpired, ReclaimEvidence, LaneIsLive,
    NoLiveLane, ChooseTargets, Checkpoint, OutcomeEvidence, ReleaseAnswered, FreeAnswered
<1>4. CASE Recovery
  BY <1>4 DEF Recovery, ReplayReconciliation, ReplaySchedule, RecoveryUndone, ReplayReleased,
    ReplayHeld, ReplayTerminal, ReplayAmbiguous, ReplayProgress, ReplayReap, Replaying, ReapItem,
    ReleaseAgain, ProjectReap, ProjectOutcome, StartScan, ScanHealthy, ScanRepair, Repaired,
    Compensate, CompensateExpire, CompensateSettle, CompensateReclaim, Terminalize,
    CompensateRelease, CompensateFree, SaveRecoveredJournal
<1>5. CASE CloseTransaction \/ SupersedeHeld \/ Crash \/ (\E w \in Works : Lapse(w))
           \/ (\E w \in Works, k \in Answers : StartOutcome(w, k))
  BY <1>5 DEF CloseTransaction, SupersedeHeld, Crash, Lapse, StartOutcome, Begin
<1> QED
  BY <1>1, <1>2, <1>3, <1>4, <1>5 DEF Next, Steps

Forward(e, f) ==
  /\ e.place = "RELEASED" => f = e
  /\ e.place = "RECONCILIATION" => f.place \in {"RECONCILIATION", "RELEASED"}
  /\ e.place = "ACTIVE" => f.place # "NONE"

\* The copy is ahead of the state, and so is what an answer makes of it.
LEMMA WritesGoForward ==
  ASSUME ClaimInv, Next
  PROVE  \A w \in Works : Forward(sched[w], sched'[w])
<1>1. call.op \in {"SCHEDULE", "OUTCOME", "REAP_BATCH", "RECOVER"} =>
        \A w \in Works : Forward(sched[w], mem[w])
  BY DEF ClaimInv, Steady, CopyFollows, MayBecome, Forward
<1>2. CASE UNCHANGED sched
  BY <1>2 DEF Forward
<1>3. CASE SaveSchedule
  <2>1. (sched' = mem \/ UNCHANGED sched) /\ call.op = "SCHEDULE"
    BY <1>3 DEF SaveSchedule, Try, At, ClaimInv, AtStep, CallFits
  <2> QED
    BY <1>1, <1>2, <2>1
<1>4. CASE SaveReap
  <2>1. (sched' = mem \/ UNCHANGED sched) /\ call.op = "REAP_BATCH"
    BY <1>4 DEF SaveReap, Try, At, ClaimInv, AtStep, CallFits
  <2> QED
    BY <1>1, <1>2, <2>1
<1>5. CASE SaveRecovery
  <2>1. (sched' = mem \/ UNCHANGED sched) /\ call.op = "RECOVER"
    BY <1>5 DEF SaveRecovery, Try, ClaimInv, AtStep, CallFits, Recovering
  <2> QED
    BY <1>1, <1>2, <2>1
<1>6. CASE SaveOutcome
  <2> DEFINE v == call.w
             p == PlaceAfter(call.kind)
  <2>1. pc = "apply" /\ call.op = "OUTCOME" /\ call.kind \in Answers /\ v \in Holders(sched)
        /\ mem \in [Works -> Entries] /\ v \in Works
        /\ (call.kind \in {"RUNNING", "UNKNOWN"} => mem[v].place = "ACTIVE")
    BY <1>6 DEF SaveOutcome, At, ClaimInv, Steady, BooksTyped, AtStep, CallFits, AnswerFits,
      WorkKnown, OnClaim
  <2>2. MayBecome(sched[v], mem[v])
    BY <2>1 DEF ClaimInv, Steady, CopyFollows
  <2>3. CASE sched' = AfterAnswer(mem, v, p, call.kind)
    <3>1. \A w \in Works : w # v => sched'[w] = mem[w]
      BY <2>1, <2>3 DEF AfterAnswer
    <3>2. sched'[v].place = p
      <4>1. mem[v] \in Entries
        BY <2>1
      <4> HIDE DEF p
      <4> QED
        BY <2>1, <2>3, <4>1 DEF AfterAnswer, Entries
    <3>3. p \in {"ACTIVE", "RECONCILIATION", "RELEASED"}
          /\ (p # "RELEASED" => mem[v].place = "ACTIVE")
      BY <2>1 DEF PlaceAfter, Answers
    <3>4. Forward(sched[v], sched'[v])
      BY <2>1, <2>2, <3>2, <3>3 DEF MayBecome, Forward, Holders
    <3> QED
      BY <1>1, <2>1, <3>1, <3>4
  <2> QED
    BY <1>2, <1>6, <2>3 DEF SaveOutcome, Try
<1> QED
  BY <1>2, <1>3, <1>4, <1>5, <1>6, OnlyWritesChange

\* Every write of the state only moves claims forward: it writes a copy that a
\* schedule added to, or that an answer, a reap or a recovery moved on.
THEOREM ClaimsGoForward == Spec => ClaimsOnlyAdvance
<1>1. ClaimInv /\ Next => (\A w \in Works : Forward(sched[w], sched'[w]))
  BY WritesGoForward
<1>2. ClaimInv /\ [Next]_vars => [\A w \in Works :
         /\ sched[w].place = "RELEASED" => sched'[w] = sched[w]
         /\ sched[w].place = "RECONCILIATION" => sched'[w].place \in {"RECONCILIATION", "RELEASED"}
         /\ sched[w].place = "ACTIVE" => sched'[w].place # "NONE"]_vars
  BY <1>1 DEF Forward
<1> QED
  BY <1>2, ClaimInvariant, PTL DEF Spec, ClaimsOnlyAdvance

-----------------------------------------------------------------------------
(* The stores, as any of their callers may use them, and the tokens they   *)
(* have issued.                                                            *)

LaneUse == \E w \in Works :
  \/ AcquireLease(w) \/ LeaseLapses(w)
  \/ \E f \in Nat :
       \/ ReclaimLease(w, f) \/ ReleaseLease(w, f)
       \/ ExpireLease(w, f) \/ SettleTerminalLease(w, f)
       \/ \E to \in LifecycleStates, r \in Nat : CheckpointLane(w, f, to, r)
LedgerUse == \E w \in Works : Reserve(w) \/ \E f \in Nat : Free(w, f)

Records == \E k \in {"TRANSITION", "WORKER", "PROVIDER"}, w \in Works :
  evidence' = evidence \cup {Event(k, w)}

\* What a step does to the stores, each on its own.
UsesStores ==
  /\ LaneUse \/ UNCHANGED laneVars
  /\ LedgerUse \/ UNCHANGED ledgerVars
  /\ Records \/ UNCHANGED evidence

LEMMA NoStoreUsed ==
  ASSUME UNCHANGED storeVars
  PROVE  UsesStores
BY DEF storeVars, UsesStores

LEMMA LanesUsed ==
  ASSUME UNCHANGED <<ledgerVars, evidence>>, LaneUse \/ UNCHANGED laneVars
  PROVE  UsesStores
BY DEF UsesStores

LEMMA LedgerUsed ==
  ASSUME UNCHANGED <<laneVars, evidence>>, LedgerUse \/ UNCHANGED ledgerVars
  PROVE  UsesStores
BY DEF UsesStores

\* Everything the stores are asked with is of their types.
LEMMA TokensAreNumbers ==
  ASSUME ClaimInv
  PROVE  /\ \A w \in Works : mem[w].lease \in Nat /\ mem[w].res \in Nat
         /\ \A w \in Works : lanes[w].fence \in Nat /\ reserved[w] \in Nat
         /\ call.res \in Nat /\ call.lease \in Nat
         /\ pc \in Undo => Undoing.w \in Works /\ Undoing.lease \in Nat /\ Undoing.res \in Nat
         /\ pc \in Claiming \cup OnClaim => call.w \in Works
<1>1. /\ mem \in [Works -> Entries] /\ call \in CallRecords
      /\ lanes \in [Works -> Lanes] /\ reserved \in [Works -> Nat]
  BY DEF ClaimInv, Steady, BooksTyped, StoresTyped
<1>2. pc \in Undo => Undoing \in Claims
  <2>1. pc \in Undo => call.undo # <<>>
    BY DEF ClaimInv, AtStep, CallFits
  <2>2. call.undo \in Seq(Claims)
    BY <1>1 DEF CallRecords
  <2> QED
    BY <2>1, <2>2 DEF Undoing
<1> QED
  BY <1>1, <1>2 DEF Entries, CallRecords, Lanes, Claims, ClaimInv, AtStep, CallFits

LEMMA SchedulingUsesStores ==
  ASSUME ClaimInv, Scheduling
  PROVE  UsesStores
<1>1. CASE AcquireReservation
  <2>1. call.w \in Works
    BY <1>1, TokensAreNumbers DEF AcquireReservation, At, Claiming
  <2>2. UNCHANGED <<laneVars, evidence>> /\ (Reserve(call.w) \/ UNCHANGED ledgerVars)
    BY <1>1 DEF AcquireReservation, Try
  <2> QED
    BY <2>1, <2>2, LedgerUsed DEF LedgerUse
<1>2. CASE AcquireLaneLease
  <2>1. call.w \in Works
    BY <1>2, TokensAreNumbers DEF AcquireLaneLease, At, Claiming
  <2>2. UNCHANGED <<ledgerVars, evidence>> /\ (AcquireLease(call.w) \/ UNCHANGED laneVars)
    BY <1>2 DEF AcquireLaneLease, Try
  <2> QED
    BY <2>1, <2>2, LanesUsed DEF LaneUse
<1>3. CASE Dispatch
  <2>1. call.w \in Works /\ call.lease \in Nat /\ call.res \in Nat
    BY <1>3, TokensAreNumbers DEF Dispatch, At, Claiming
  <2>2. UNCHANGED <<ledgerVars, evidence>>
        /\ (CheckpointLane(call.w, call.lease, "PROVIDER_DISPATCHED", call.res) \/ UNCHANGED laneVars)
    BY <1>3 DEF Dispatch, Try
  <2>3. "PROVIDER_DISPATCHED" \in LifecycleStates
    BY DEF LifecycleStates, SuccessStates, SuccessPath
  <2> QED
    BY <2>1, <2>2, <2>3, LanesUsed DEF LaneUse
<1>4. CASE DispatchEvidence
  <2>1. call.w \in Works
    BY <1>4, TokensAreNumbers DEF DispatchEvidence, At, Claiming
  <2>2. UNCHANGED <<laneVars, ledgerVars>>
        /\ (evidence' = evidence \cup {Event("TRANSITION", call.w)} \/ UNCHANGED evidence)
    BY <1>4 DEF DispatchEvidence, Try
  <2> QED
    BY <2>1, <2>2 DEF UsesStores, Records
<1>5. CASE UndoLease
  <2>1. Undoing.w \in Works /\ Undoing.lease \in Nat
    BY <1>5, TokensAreNumbers DEF UndoLease, At, Undo
  <2>2. UNCHANGED <<ledgerVars, evidence>>
        /\ (ReleaseLease(Undoing.w, Undoing.lease) \/ UNCHANGED laneVars)
    BY <1>5 DEF UndoLease, Try
  <2> QED
    BY <2>1, <2>2, LanesUsed DEF LaneUse
<1>6. CASE UndoReservation
  <2>1. Undoing.w \in Works /\ Undoing.res \in Nat
    BY <1>6, TokensAreNumbers DEF UndoReservation, At, Undo
  <2>2. UNCHANGED <<laneVars, evidence>>
        /\ (Free(Undoing.w, Undoing.res) \/ UNCHANGED ledgerVars)
    BY <1>6 DEF UndoReservation, Try
  <2> QED
    BY <2>1, <2>2, LedgerUsed DEF LedgerUse
<1>7. CASE Skip \/ BeginTransaction \/ NoteReservation \/ NoteLease \/ SaveSchedule
           \/ CommitSchedule \/ Undone
  BY <1>7, NoStoreUsed DEF Skip, BeginTransaction, NoteReservation, NoteLease, SaveSchedule,
    CommitSchedule, Undone
<1> QED
  BY <1>1, <1>2, <1>3, <1>4, <1>5, <1>6, <1>7 DEF Scheduling

LEMMA PhaseOutcomeUsesStores ==
  ASSUME ClaimInv, PhaseOutcome
  PROVE  UsesStores
<1> DEFINE v == call.w
           e == mem[v]
<1>0. v \in Works /\ e.lease \in Nat /\ e.res \in Nat
  <2>1. pc \in OnClaim
    BY DEF PhaseOutcome, ExpireLapsed, ReclaimExpired, ReclaimEvidence, LaneIsLive, NoLiveLane,
      ChooseTargets, Checkpoint, OutcomeEvidence, ReleaseAnswered, FreeAnswered, At, Phase, OnClaim
  <2> QED
    BY <2>1, TokensAreNumbers
<1>1. CASE ExpireLapsed
  <2>1. UNCHANGED <<ledgerVars, evidence>> /\ (ExpireLease(v, e.lease) \/ UNCHANGED laneVars)
    BY <1>1 DEF ExpireLapsed, Try
  <2> QED
    BY <1>0, <2>1, LanesUsed DEF LaneUse
<1>2. CASE ReclaimExpired
  <2>1. UNCHANGED <<ledgerVars, evidence>> /\ (ReclaimLease(v, e.lease) \/ UNCHANGED laneVars)
    BY <1>2 DEF ReclaimExpired, Try
  <2> QED
    BY <1>0, <2>1, LanesUsed DEF LaneUse
<1>3. CASE Checkpoint
  <2>1. UNCHANGED <<ledgerVars, evidence>>
        /\ (CheckpointLane(v, e.lease, Head(call.targets), e.res) \/ UNCHANGED laneVars)
    BY <1>3 DEF Checkpoint, Try
  <2>2. Head(call.targets) \in LifecycleStates
    <3>1. call.targets # <<>> /\ call.targets \in Seq(LifecycleStates)
      BY <1>3 DEF Checkpoint, At, ClaimInv, Steady, BooksTyped, CallRecords, AtStep, CallFits
    <3> QED
      BY <3>1
  <2> QED
    BY <1>0, <2>1, <2>2, LanesUsed DEF LaneUse
<1>4. CASE ReleaseAnswered
  <2>1. UNCHANGED <<ledgerVars, evidence>> /\ (ReleaseLease(v, e.lease) \/ UNCHANGED laneVars)
    BY <1>4 DEF ReleaseAnswered, Try
  <2> QED
    BY <1>0, <2>1, LanesUsed DEF LaneUse
<1>5. CASE FreeAnswered
  <2>1. UNCHANGED <<laneVars, evidence>> /\ (Free(v, e.res) \/ UNCHANGED ledgerVars)
    BY <1>5 DEF FreeAnswered, Try
  <2> QED
    BY <1>0, <2>1, LedgerUsed DEF LedgerUse
<1>6. CASE ReclaimEvidence \/ OutcomeEvidence
  <2>1. UNCHANGED <<laneVars, ledgerVars>>
        /\ (\/ evidence' = evidence \cup {Event("WORKER", v)}
            \/ evidence' = evidence \cup {Event("PROVIDER", v)}
            \/ UNCHANGED evidence)
    BY <1>6 DEF ReclaimEvidence, OutcomeEvidence, Try
  <2> QED
    BY <1>0, <2>1 DEF UsesStores, Records
<1>7. CASE LaneIsLive \/ NoLiveLane \/ ChooseTargets
  BY <1>7, NoStoreUsed DEF LaneIsLive, NoLiveLane, ChooseTargets
<1> QED
  BY <1>1, <1>2, <1>3, <1>4, <1>5, <1>6, <1>7 DEF PhaseOutcome

LEMMA RecoveryUsesStores ==
  ASSUME ClaimInv, Recovery
  PROVE  UsesStores
<1> DEFINE v == call.w
           l == lanes[v]
<1>0. pc \in OnClaim => v \in Works /\ l.fence \in Nat /\ mem[v].res \in Nat /\ reserved[v] \in Nat
  BY TokensAreNumbers
<1>1. CASE ReleaseAgain
  <2>1. UNCHANGED <<laneVars, evidence>> /\ (Free(v, mem[v].res) \/ UNCHANGED ledgerVars)
        /\ pc \in OnClaim
    BY <1>1 DEF ReleaseAgain, Try, At, OnClaim
  <2> QED
    BY <1>0, <2>1, LedgerUsed DEF LedgerUse
<1>2. CASE CompensateFree
  <2>1. UNCHANGED <<laneVars, evidence>> /\ (Free(v, reserved[v]) \/ UNCHANGED ledgerVars)
        /\ pc \in OnClaim
    BY <1>2 DEF CompensateFree, Try, At, OnClaim, Compensating
  <2> QED
    BY <1>0, <2>1, LedgerUsed DEF LedgerUse
<1>3. CASE CompensateExpire \/ CompensateSettle \/ CompensateReclaim \/ CompensateRelease
  <2>1. UNCHANGED <<ledgerVars, evidence>> /\ pc \in OnClaim
        /\ (\/ ExpireLease(v, l.fence) \/ SettleTerminalLease(v, l.fence)
            \/ ReclaimLease(v, l.fence) \/ ReleaseLease(v, l.fence)
            \/ UNCHANGED laneVars)
    BY <1>3 DEF CompensateExpire, CompensateSettle, CompensateReclaim, CompensateRelease,
      Try, At, OnClaim, Compensating
  <2> QED
    BY <1>0, <2>1, LanesUsed DEF LaneUse
<1>4. CASE Terminalize
  <2>1. UNCHANGED <<ledgerVars, evidence>> /\ pc \in OnClaim
        /\ (CheckpointLane(v, l.fence, "FAILED_TERMINAL", mem[v].res) \/ UNCHANGED laneVars)
    BY <1>4 DEF Terminalize, Try, At, OnClaim, Compensating
  <2>2. "FAILED_TERMINAL" \in LifecycleStates
    BY DEF LifecycleStates, NonSuccessStates
  <2> QED
    BY <1>0, <2>1, <2>2, LanesUsed DEF LaneUse
<1>5. CASE UNCHANGED storeVars
  BY <1>5, NoStoreUsed
<1> QED
  BY <1>1, <1>2, <1>3, <1>4, <1>5 DEF Recovery, Compensate, ReplayReconciliation, ReplaySchedule,
    RecoveryUndone, ReplayReleased, ReplayHeld, ReplayTerminal, ReplayAmbiguous, ReplayProgress,
    ReplayReap, Replaying, ReapItem, ProjectReap, ProjectOutcome, StartScan, ScanHealthy,
    ScanRepair, Repaired, SaveRecovery, SaveRecoveredJournal

LEMMA StepUsesStores ==
  ASSUME ClaimInv, Next
  PROVE  UsesStores
<1>1. CASE Calls \/ (\E w \in Works, k \in Answers : StartOutcome(w, k))
  BY <1>1, NoStoreUsed DEF Calls, StartSchedule, StartReap, StartRecovery, StartOutcome, Begin
<1>2. CASE SaveOutcome \/ CloseTransaction \/ SaveReap \/ SupersedeHeld \/ Crash
  BY <1>2, NoStoreUsed DEF SaveOutcome, CloseTransaction, SaveReap, SupersedeHeld, Crash
<1>3. CASE \E w \in Works : Lapse(w)
  BY <1>3, LanesUsed DEF Lapse, LaneUse
<1> QED
  BY <1>1, <1>2, <1>3, SchedulingUsesStores, PhaseOutcomeUsesStores, RecoveryUsesStores
    DEF Next, Steps

\* Every token in use was issued, and 0 is none.
LanesIssued ==
  /\ \A w \in Works : lanes[w].fence < nextLeaseFence
  /\ \A w \in Works : lanes[w].status # "NONE" => lanes[w].fence # 0
LedgerIssued == \A w \in Works : reserved[w] < nextReservationFence

\* A lane is given the next token.
LEMMA LaneIsIssued ==
  ASSUME StoresTyped, LanesIssued, NEW w \in Works, NEW e, e.fence = nextLeaseFence,
         lanes' = [lanes EXCEPT ![w] = e], nextLeaseFence' = nextLeaseFence + 1
  PROVE  LanesIssued' /\ nextLeaseFence <= nextLeaseFence'
<1>0. nextLeaseFence \in Nat \ {0} /\ lanes \in [Works -> Lanes]
  BY DEF StoresTyped
<1>1. ASSUME NEW u \in Works
      PROVE  lanes'[u].fence < nextLeaseFence' /\ (lanes'[u].status # "NONE" => lanes'[u].fence # 0)
  <2>1. lanes[u].fence \in Nat /\ lanes[u].fence < nextLeaseFence
        /\ (lanes[u].status # "NONE" => lanes[u].fence # 0)
    BY <1>0 DEF LanesIssued, Lanes
  <2>2. lanes'[u] = IF u = w THEN e ELSE lanes[u]
    BY <1>0
  <2> QED
    BY <1>0, <2>1, <2>2
<1> QED
  BY <1>0, <1>1 DEF LanesIssued

LEMMA LaneUseIssues ==
  ASSUME StoresTyped, LanesIssued, LaneUse
  PROVE  LanesIssued' /\ LaneNext /\ nextLeaseFence <= nextLeaseFence'
<1>0. nextLeaseFence \in Nat \ {0} /\ lanes \in [Works -> Lanes]
  BY DEF StoresTyped
<1>1. PICK w \in Works :
        \/ AcquireLease(w) \/ LeaseLapses(w)
        \/ \E f \in Nat :
             \/ ReclaimLease(w, f) \/ ReleaseLease(w, f)
             \/ ExpireLease(w, f) \/ SettleTerminalLease(w, f)
             \/ \E to \in LifecycleStates, r \in Nat : CheckpointLane(w, f, to, r)
  BY DEF LaneUse
<1>2. lanes[w] \in Lanes
  BY <1>0
<1>3. CASE AcquireLease(w)
  <2> DEFINE e == [status |-> "ACTIVE", fence |-> nextLeaseFence, first |-> nextLeaseFence,
                   under |-> 0, seq |-> 1, life |-> "LEASED"]
  <2>1. lanes' = [lanes EXCEPT ![w] = e] /\ nextLeaseFence' = nextLeaseFence + 1
    BY <1>3 DEF AcquireLease
  <2>2. e.fence = nextLeaseFence
    OBVIOUS
  <2> HIDE DEF e
  <2> QED
    BY <1>3, <2>1, <2>2, LaneIsIssued DEF LaneNext
<1>4. CASE LeaseLapses(w)
  <2>1. UNCHANGED <<lanes, nextLeaseFence>>
    BY <1>4 DEF LeaseLapses
  <2> QED
    BY <1>0, <1>4, <2>1 DEF LanesIssued, LaneNext
<1>5. ASSUME NEW f \in Nat, ReclaimLease(w, f)
      PROVE  LanesIssued' /\ LaneNext /\ nextLeaseFence <= nextLeaseFence'
  <2> DEFINE e == [lanes[w] EXCEPT !.status = "ACTIVE", !.fence = nextLeaseFence]
  <2>1. /\ lanes' = [lanes EXCEPT ![w] = e] /\ nextLeaseFence' = nextLeaseFence + 1
        /\ lanes[w].fence = f /\ lanes[w].status = "EXPIRED"
    BY <1>5 DEF ReclaimLease, MayReclaim
  <2>2. e.fence = nextLeaseFence
    BY <1>2 DEF Lanes
  <2> HIDE DEF e
  <2>3. f \in 1 .. nextLeaseFence
    BY <1>0, <2>1 DEF LanesIssued
  <2> QED
    BY <1>5, <2>1, <2>2, <2>3, LaneIsIssued DEF LaneNext
<1>6. ASSUME NEW f \in Nat, NEW to \in LifecycleStates, NEW r \in Nat,
             \/ ReleaseLease(w, f) \/ ExpireLease(w, f) \/ SettleTerminalLease(w, f)
             \/ CheckpointLane(w, f, to, r)
      PROVE  LanesIssued' /\ LaneNext /\ nextLeaseFence <= nextLeaseFence'
  <2>1. /\ lanes[w].fence = f /\ lanes[w].status # "NONE" /\ UNCHANGED nextLeaseFence
        /\ \A u \in Works : u # w => lanes'[u] = lanes[u]
        /\ lanes'[w].fence = f
    <3>1. /\ lanes[w].fence = f /\ lanes[w].status # "NONE" /\ UNCHANGED nextLeaseFence
          /\ \/ lanes' = [lanes EXCEPT ![w] = [lanes[w] EXCEPT !.status = "RELEASED"]]
             \/ lanes' = [lanes EXCEPT ![w] = [lanes[w] EXCEPT !.status = "EXPIRED"]]
             \/ lanes' = [lanes EXCEPT ![w] = [lanes[w] EXCEPT !.life = to,
                            !.seq = lanes[w].seq + 1, !.under = r]]
      <4>1. CASE ReleaseLease(w, f)
        BY <4>1 DEF ReleaseLease, Current, Holds
      <4>2. CASE ExpireLease(w, f)
        BY <4>2 DEF ExpireLease, MayExpire, Holds
      <4>3. CASE SettleTerminalLease(w, f)
        BY <4>3 DEF SettleTerminalLease, MaySettle
      <4>4. CASE CheckpointLane(w, f, to, r)
        <5>1. /\ lanes' = [lanes EXCEPT ![w] =
                   [lanes[w] EXCEPT !.life = to, !.seq = @ + 1, !.under = r]]
              /\ lanes[w].fence = f /\ lanes[w].status = "ACTIVE" /\ UNCHANGED nextLeaseFence
          BY <4>4 DEF CheckpointLane, MayCheckpoint, Current, Holds
        <5>2. [lanes[w] EXCEPT !.life = to, !.seq = @ + 1, !.under = r] =
              [lanes[w] EXCEPT !.life = to, !.seq = lanes[w].seq + 1, !.under = r]
          BY <1>2 DEF Lanes
        <5> QED
          BY <5>1, <5>2
      <4> QED
        BY <1>6, <4>1, <4>2, <4>3, <4>4
    <3> QED
      BY <1>0, <1>2, <3>1 DEF Lanes
  <2>2. f \in 1 .. nextLeaseFence /\ f # 0 /\ f < nextLeaseFence
    BY <1>0, <2>1 DEF LanesIssued
  <2>3. LanesIssued'
    BY <1>0, <2>1, <2>2 DEF LanesIssued
  <2>4. LaneNext
    BY <1>6, <2>2 DEF LaneNext
  <2> QED
    BY <1>0, <2>1, <2>3, <2>4
<1>7. 0 \in Nat /\ "PLANNED" \in LifecycleStates
  BY DEF LifecycleStates, SuccessStates, SuccessPath
<1> QED
  BY <1>1, <1>3, <1>4, <1>5, <1>6, <1>7

LEMMA LedgerUseIssues ==
  ASSUME StoresTyped, LedgerIssued, LedgerUse
  PROVE  LedgerIssued' /\ [LedgerNext]_ledgerVars /\ nextReservationFence <= nextReservationFence'
<1>0. nextReservationFence \in Nat \ {0} /\ reserved \in [Works -> Nat]
  BY DEF StoresTyped
<1>1. PICK w \in Works : Reserve(w) \/ \E f \in Nat : Free(w, f)
  BY DEF LedgerUse
<1>2. CASE UNCHANGED ledgerVars
  BY <1>0, <1>2 DEF ledgerVars, LedgerIssued
<1>3. CASE Reserve(w) /\ reserved[w] = 0
  <2>1. reserved' = [reserved EXCEPT ![w] = nextReservationFence]
        /\ nextReservationFence' = nextReservationFence + 1
    BY <1>3 DEF Reserve
  <2> QED
    BY <1>0, <1>3, <2>1 DEF LedgerIssued, LedgerNext
<1>4. ASSUME NEW f \in Nat, Free(w, f), reserved[w] # 0
      PROVE  LedgerIssued' /\ [LedgerNext]_ledgerVars /\ nextReservationFence <= nextReservationFence'
  <2>1. /\ reserved' = [reserved EXCEPT ![w] = 0] /\ reserved[w] = f
        /\ UNCHANGED nextReservationFence
    BY <1>4 DEF Free, MayFree
  <2>2. f \in 1 .. nextReservationFence
    BY <1>0, <1>4, <2>1 DEF LedgerIssued
  <2> QED
    BY <1>0, <1>4, <2>1, <2>2 DEF LedgerIssued, LedgerNext
<1> QED
  BY <1>1, <1>2, <1>3, <1>4 DEF Reserve, Free

StoresIssued == ClaimInv /\ LanesIssued /\ LedgerIssued

LEMMA StoresIssuedKeeps ==
  ASSUME StoresIssued, [Next]_vars
  PROVE  /\ StoresIssued' /\ [LaneNext]_laneVars /\ [LedgerNext]_ledgerVars
         /\ nextLeaseFence <= nextLeaseFence' /\ nextReservationFence <= nextReservationFence'
<1>1. ClaimInv'
  BY StepKeeps DEF StoresIssued
<1>2. UsesStores
  <2>1. CASE Next
    BY <2>1, StepUsesStores DEF StoresIssued
  <2>2. CASE UNCHANGED vars
    BY <2>2, NoStoreUsed DEF vars
  <2> QED
    BY <2>1, <2>2
<1>3. StoresTyped /\ nextLeaseFence \in Nat /\ nextReservationFence \in Nat
  BY DEF StoresIssued, ClaimInv, Steady, StoresTyped
<1>4. LanesIssued' /\ [LaneNext]_laneVars /\ nextLeaseFence <= nextLeaseFence'
  <2>1. CASE LaneUse
    BY <1>3, <2>1, LaneUseIssues DEF StoresIssued
  <2>2. CASE UNCHANGED laneVars
    BY <1>3, <2>2 DEF StoresIssued, LanesIssued, laneVars
  <2> QED
    BY <1>2, <2>1, <2>2 DEF UsesStores
<1>5. LedgerIssued' /\ [LedgerNext]_ledgerVars /\ nextReservationFence <= nextReservationFence'
  <2>1. CASE LedgerUse
    BY <1>3, <2>1, LedgerUseIssues DEF StoresIssued
  <2>2. CASE UNCHANGED ledgerVars
    BY <1>3, <2>2 DEF StoresIssued, LedgerIssued, ledgerVars
  <2> QED
    BY <1>2, <2>1, <2>2 DEF UsesStores
<1> QED
  BY <1>1, <1>4, <1>5 DEF StoresIssued

LEMMA InitIssues == Init => StoresIssued /\ LaneInit /\ LedgerInit
<1> SUFFICES ASSUME Init PROVE StoresIssued /\ LaneInit /\ LedgerInit
  OBVIOUS
<1>1. LaneInit /\ LedgerInit /\ ClaimInv
  BY InitClaims DEF Init
<1> QED
  BY <1>1 DEF StoresIssued, LanesIssued, LedgerIssued, LaneInit, LedgerInit, NoLane

\* Every token that a store holds is one it issued.
THEOREM TokensAreIssued == Spec => []StoresIssued
<1>1. StoresIssued /\ [Next]_vars => StoresIssued'
  BY StoresIssuedKeeps
<1> QED
  BY InitIssues, <1>1, PTL DEF Spec

\* Whatever scheduling, an answer, a rollback or a recovery does to a lane is
\* an operation that the lane-lease store offers any caller, under a token the
\* store issued; the scheduler only dies or fails between such operations.
THEOREM SchedulerUsesLanes == Spec => LaneSpec
<1>1. StoresIssued /\ [Next]_vars => [LaneNext]_laneVars
  BY StoresIssuedKeeps
<1> QED
  BY InitIssues, <1>1, TokensAreIssued, PTL DEF Spec, LaneSpec

\* The same for its reservations and the reservation ledger.
THEOREM SchedulerUsesLedger == Spec => LedgerSpec
<1>1. StoresIssued /\ [Next]_vars => [LedgerNext]_ledgerVars
  BY StoresIssuedKeeps
<1> QED
  BY InitIssues, <1>1, TokensAreIssued, PTL DEF Spec, LedgerSpec

-----------------------------------------------------------------------------
(* The tokens that the state, its copy and the running call hold come from *)
(* the stores, and a call leaves nothing behind but pending transactions.  *)

Unlucky == mishaps' = mishaps \/ (mishaps < MaxMishaps /\ mishaps' = mishaps + 1)

LEMMA StepIsUnlucky ==
  ASSUME Next
  PROVE  Unlucky
<1>1. CASE Calls \/ (\E w \in Works, k \in Answers : StartOutcome(w, k))
  BY <1>1 DEF Calls, StartSchedule, StartReap, StartRecovery, StartOutcome, Begin, Unlucky
<1>2. CASE SaveOutcome \/ CloseTransaction \/ SaveReap \/ SupersedeHeld \/ Crash
           \/ (\E w \in Works : Lapse(w))
  BY <1>2 DEF SaveOutcome, CloseTransaction, SaveReap, SupersedeHeld, Crash, Lapse, Try, Unlucky
<1>3. CASE Scheduling
  BY <1>3 DEF Scheduling, Skip, BeginTransaction, AcquireReservation, NoteReservation,
    AcquireLaneLease, NoteLease, Dispatch, DispatchEvidence, SaveSchedule, CommitSchedule,
    UndoLease, UndoReservation, Undone, Try, Unlucky
<1>4. CASE PhaseOutcome
  BY <1>4 DEF PhaseOutcome, ExpireLapsed, ReclaimExpired, ReclaimEvidence, LaneIsLive, NoLiveLane,
    ChooseTargets, Checkpoint, OutcomeEvidence, ReleaseAnswered, FreeAnswered, Try, Unlucky
<1>5. CASE Recovery
  BY <1>5 DEF Recovery, ReplayReconciliation, ReplaySchedule, RecoveryUndone, ReplayReleased,
    ReplayHeld, ReplayTerminal, ReplayAmbiguous, ReplayProgress, ReplayReap, Replaying, ReapItem,
    ReleaseAgain, ProjectReap, ProjectOutcome, StartScan, ScanHealthy, ScanRepair, Repaired,
    Compensate, CompensateExpire, CompensateSettle, CompensateReclaim, Terminalize,
    CompensateRelease, CompensateFree, SaveRecovery, SaveRecoveredJournal, Try, Unlucky
<1> QED
  BY <1>1, <1>2, <1>3, <1>4, <1>5 DEF Next, Steps

Ends == \E j \in Seq(Transactions) : EndCall(j)

\* Where the tokens of the copy come from.
Draws ==
  /\ \A w \in Works :
       \/ mem'[w].lease \in {0, mem[w].lease, sched[w].lease, lanes[w].fence}
       \/ mem'[w].lease = nextLeaseFence /\ nextLeaseFence' = nextLeaseFence + 1
  /\ \A w \in Works : mem'[w].res \in {0, mem[w].res, sched[w].res, call.res}
  /\ \/ call'.res \in {0, call.res}
     \/ \E w \in Works : call'.res = reserved'[w]
  /\ pc' = "idle" => Ends \/ UNCHANGED <<pc, journal, call, jm>>

LEMMA EndDraws ==
  ASSUME NEW j \in Seq(Transactions), EndCall(j)
  PROVE  Draws
BY DEF Draws, Ends, EndCall, NoEntry, NoCall

LEMMA StopDraws ==
  ASSUME ClaimInv, EndCall(journal) \/ EndCall(jm)
  PROVE  Draws
BY EndDraws DEF ClaimInv, Steady, BooksTyped

LEMMA MoveDraws ==
  ASSUME UNCHANGED mem, call'.res \in {0, call.res}, pc' # "idle"
  PROVE  Draws
BY DEF Draws

LEMMA MarkedJournal ==
  ASSUME ClaimInv, NEW i, NEW p \in Phases
  PROVE  [journal EXCEPT ![i].phase = p] \in Seq(Transactions)
BY PhaseIsTyped DEF ClaimInv, Steady, BooksTyped

LEMMA AnswerDraws ==
  ASSUME ClaimInv, NEW place, NEW outcome, call.w \in Works,
         mem' = AfterAnswer(mem, call.w, place, outcome),
         call'.res \in {0, call.res}, pc' # "idle"
  PROVE  Draws
<1>1. mem \in [Works -> Entries]
  BY DEF ClaimInv, Steady, BooksTyped
<1>2. \A w \in Works : mem'[w].lease = mem[w].lease /\ mem'[w].res = mem[w].res
  BY <1>1 DEF AfterAnswer, Entries
<1> QED
  BY <1>2 DEF Draws

\* The copy follows the lease that was replaced.
LEMMA ReclaimDraws ==
  ASSUME ClaimInv, call.w \in Works, nextLeaseFence' = nextLeaseFence + 1,
         mem' = [mem EXCEPT ![call.w].lease = nextLeaseFence], UNCHANGED call, pc' # "idle"
  PROVE  Draws
<1>1. mem \in [Works -> Entries]
  BY DEF ClaimInv, Steady, BooksTyped
<1>2. \A w \in Works : mem'[w].res = mem[w].res
                       /\ mem'[w].lease = IF w = call.w THEN nextLeaseFence ELSE mem[w].lease
  BY <1>1 DEF Entries
<1> QED
  BY <1>2 DEF Draws

LEMMA TakeBackDraws ==
  ASSUME ClaimInv, NEW c, TakeBack(c)
  PROVE  Draws
<1>1. CASE EndCall(journal)
  BY <1>1, StopDraws
<1>2. CASE Goto("undoLease") /\ call' = [call EXCEPT !.undo = c, !.failed = FALSE]
           /\ UNCHANGED <<journal, mem, jm>>
  BY <1>2, MoveDraws DEF Goto, ClaimInv, Steady, BooksTyped, CallRecords
<1> QED
  BY <1>1, <1>2 DEF TakeBack

LEMMA SchedulingDraws ==
  ASSUME ClaimInv, Scheduling
  PROVE  Draws
<1>0. call \in CallRecords /\ mem \in [Works -> Entries] /\ reserved \in [Works -> Nat]
  BY DEF ClaimInv, Steady, BooksTyped, StoresTyped
<1>1. ASSUME NEW c, TakeBack(c) PROVE Draws
  BY <1>1, TakeBackDraws
<1>2. ASSUME UNCHANGED mem, call'.res \in {0, call.res}, pc' # "idle" PROVE Draws
  BY <1>2, MoveDraws
<1>3. CASE Skip \/ BeginTransaction \/ NoteReservation \/ AcquireLaneLease \/ NoteLease \/ Dispatch
  <2>1. \/ \E c : TakeBack(c)
        \/ UNCHANGED mem /\ call'.res \in {0, call.res} /\ pc' # "idle"
    BY <1>0, <1>3 DEF Skip, BeginTransaction, NoteReservation, AcquireLaneLease, NoteLease, Dispatch,
      Try, At, Goto, ClaimFails, CallRecords
  <2> QED
    BY <1>1, <1>2, <2>1
<1>4. CASE AcquireReservation
  <2>1. call.w \in Works
    BY <1>4, TokensAreNumbers DEF AcquireReservation, At, Claiming
  <2>2. \/ \E c : TakeBack(c)
        \/ UNCHANGED mem /\ call'.res = reserved'[call.w] /\ pc' # "idle"
    BY <1>0, <1>4 DEF AcquireReservation, Try, At, Goto, ClaimFails, CallRecords
  <2> QED
    BY <1>1, <2>1, <2>2 DEF Draws
<1>5. CASE DispatchEvidence
  <2> DEFINE v == call.w
             e == [NoEntry EXCEPT !.place = "ACTIVE", !.lease = call.lease, !.res = call.res,
                     !.life = "PROVIDER_DISPATCHED", !.ev = <<lanes[v].fence, lanes[v].seq>>]
  <2>1. v \in Works
    BY <1>5, TokensAreNumbers DEF DispatchEvidence, At, Claiming
  <2>2. \/ \E c : TakeBack(c)
        \/ /\ Current(v, call.lease) /\ mem' = [mem EXCEPT ![v] = e]
           /\ pc' = "pick" /\ call' = [call EXCEPT !.made = Append(@, v)]
    BY <1>5 DEF DispatchEvidence, Try, At, Goto, ClaimFails
  <2>3. e.lease = call.lease /\ e.res = call.res
    BY DEF NoEntry
  <2> HIDE DEF e
  <2>4. ASSUME Current(v, call.lease), mem' = [mem EXCEPT ![v] = e],
               pc' = "pick", call' = [call EXCEPT !.made = Append(@, v)]
        PROVE  Draws
    <3>1. call'.res = call.res
      BY <1>0, <2>4 DEF CallRecords
    <3>2. call.lease = lanes[v].fence
      BY <2>4 DEF Current, Holds
    <3> QED
      BY <1>0, <2>1, <2>3, <2>4, <3>1, <3>2 DEF Draws
  <2> QED
    BY <1>1, <2>2, <2>4
<1>6. CASE SaveSchedule
  <2>1. \/ \E c : TakeBack(c)
        \/ UNCHANGED <<mem, call>> /\ pc' # "idle"
    BY <1>6 DEF SaveSchedule, Try, Goto
  <2> QED
    BY <1>1, <1>2, <2>1
<1>7. CASE CommitSchedule
  <2>1. \/ EndCall(journal)
        \/ UNCHANGED <<mem, pc>> /\ call' = [call EXCEPT !.made = Tail(@)] /\ pc = "commit"
    BY <1>7 DEF CommitSchedule, Try, At
  <2> QED
    BY <1>0, <1>2, <2>1, StopDraws DEF CallRecords
<1>8. CASE UndoLease \/ UndoReservation
  <2>1. UNCHANGED mem /\ pc' # "idle" /\ \E f : call' = [call EXCEPT !.failed = @ \/ f]
    BY <1>8 DEF UndoLease, UndoReservation, Noting, Try, Goto
  <2> QED
    BY <1>0, <1>2, <2>1 DEF CallRecords
<1>9. CASE Undone
  <2> DEFINE j == Advanced(<<Undoing.w>>, UndoPhase)
  <2>1. j \in Seq(Transactions)
    BY MarkedJournal, UndonePhase DEF Advanced
  <2>2. \/ EndCall(j) \/ EndCall(journal)
        \/ /\ UNCHANGED mem /\ pc' # "idle"
           /\ call' = [call EXCEPT !.undo = Tail(call.undo), !.failed = FALSE]
    BY <1>9 DEF Undone, Try, Goto
  <2> HIDE DEF j
  <2> QED
    BY <1>0, <1>2, <2>1, <2>2, EndDraws, StopDraws DEF CallRecords
<1> QED
  BY <1>3, <1>4, <1>5, <1>6, <1>7, <1>8, <1>9 DEF Scheduling

LEMMA ReplayNextDraws ==
  ASSUME ClaimInv, NEW j, ReplayNext(j)
  PROVE  Draws
<1>1. call'.res = call.res
  BY DEF ReplayNext, ClaimInv, Steady, BooksTyped, CallRecords
<1> QED
  BY <1>1, MoveDraws DEF ReplayNext, Goto

LEMMA RepairFailsDraws ==
  ASSUME ClaimInv, RepairFails
  PROVE  Draws
<1>1. call'.res = call.res
  BY DEF RepairFails, ClaimInv, Steady, BooksTyped, CallRecords
<1> QED
  BY <1>1, MoveDraws DEF RepairFails, Goto

LEMMA RecoveryPhaseFailsDraws ==
  ASSUME ClaimInv, RecoveryPhaseFails
  PROVE  Draws
<1>1. RepairFails \/ (\E j : ReplayNext(j)) \/ EndCall(journal)
  BY DEF RecoveryPhaseFails
<1> QED
  BY <1>1, RepairFailsDraws, ReplayNextDraws, StopDraws

LEMMA PhaseFailsDraws ==
  ASSUME ClaimInv, PhaseFails
  PROVE  Draws
<1>1. CASE RecoveryPhaseFails
  BY <1>1, RecoveryPhaseFailsDraws
<1>2. CASE EndCall([journal EXCEPT ![Len(journal)].phase = "RECOVERY_REQUIRED"])
  BY <1>2, MarkedJournal, EndDraws DEF Phases
<1>3. CASE UNCHANGED mem /\ pc' # "idle"
           /\ call' = [call EXCEPT !.second = TRUE, !.targets = <<>>]
  BY <1>3, MoveDraws DEF ClaimInv, Steady, BooksTyped, CallRecords
<1> QED
  BY <1>1, <1>2, <1>3 DEF PhaseFails, Goto

LEMMA PhaseDoneDraws ==
  ASSUME ClaimInv, call.w \in Works, PhaseDone
  PROVE  Draws
<1>1. CASE ReapedNext
  <2>1. call'.res = call.res /\ pc' # "idle"
    BY <1>1 DEF ReapedNext, Goto, ClaimInv, Steady, BooksTyped, CallRecords
  <2>2. mem' = AfterAnswer(mem, call.w, "RELEASED", "AMBIGUOUS_REAPED")
    BY <1>1 DEF ReapedNext
  <2> QED
    BY <2>1, <2>2, AnswerDraws
<1>2. CASE UNCHANGED <<call, mem>> /\ pc' # "idle"
  BY <1>2, MoveDraws
<1> QED
  BY <1>1, <1>2 DEF PhaseDone, Goto

LEMMA PhaseOutcomeDraws ==
  ASSUME ClaimInv, PhaseOutcome
  PROVE  Draws
<1> DEFINE v == call.w
<1>0. call \in CallRecords /\ mem \in [Works -> Entries] /\ v \in Works
  <2>1. pc \in OnClaim
    BY DEF PhaseOutcome, ExpireLapsed, ReclaimExpired, ReclaimEvidence, LaneIsLive, NoLiveLane,
      ChooseTargets, Checkpoint, OutcomeEvidence, ReleaseAnswered, FreeAnswered, At, Phase, OnClaim
  <2> QED
    BY <2>1, TokensAreNumbers DEF ClaimInv, Steady, BooksTyped
<1>1. CASE ExpireLapsed \/ LaneIsLive \/ NoLiveLane \/ ChooseTargets \/ ReleaseAnswered
  <2>1. \/ PhaseFails
        \/ UNCHANGED <<call, mem>> /\ pc' # "idle"
        \/ UNCHANGED mem /\ pc' # "idle" /\ \E t : call' = [call EXCEPT !.targets = t]
    BY <1>1 DEF ExpireLapsed, LaneIsLive, NoLiveLane, ChooseTargets, ReleaseAnswered, Try, At, Goto
  <2> QED
    BY <1>0, <2>1, PhaseFailsDraws, MoveDraws DEF CallRecords
<1>2. CASE Checkpoint
  <2>1. \/ PhaseFails
        \/ UNCHANGED mem /\ pc' # "idle" /\ call' = [call EXCEPT !.targets = Tail(call.targets)]
    BY <1>2 DEF Checkpoint, Try, At, Goto
  <2> QED
    BY <1>0, <2>1, PhaseFailsDraws, MoveDraws DEF CallRecords
<1>3. CASE OutcomeEvidence \/ FreeAnswered
  <2>1. PhaseFails \/ PhaseDone \/ (UNCHANGED <<call, mem>> /\ pc' # "idle")
    BY <1>3 DEF OutcomeEvidence, FreeAnswered, Try, Goto
  <2> QED
    BY <1>0, <2>1, PhaseFailsDraws, PhaseDoneDraws, MoveDraws
<1>4. CASE ReclaimExpired
  <2>1. \/ PhaseFails
        \/ /\ nextLeaseFence' = nextLeaseFence + 1 /\ pc' # "idle" /\ UNCHANGED call
           /\ mem' = [mem EXCEPT ![v].lease = nextLeaseFence]
    BY <1>4 DEF ReclaimExpired, ReclaimLease, Try, Goto
  <2> QED
    BY <1>0, <2>1, PhaseFailsDraws, ReclaimDraws
<1>5. CASE ReclaimEvidence
  <2>1. \/ PhaseFails
        \/ /\ pc' # "idle" /\ UNCHANGED call
           /\ mem' = [mem EXCEPT ![v].ev = <<lanes[v].fence, lanes[v].seq>>]
    BY <1>5 DEF ReclaimEvidence, Try, Goto
  <2>2. ASSUME pc' # "idle", UNCHANGED call,
               mem' = [mem EXCEPT ![v].ev = <<lanes[v].fence, lanes[v].seq>>]
        PROVE  Draws
    <3>1. \A w \in Works : mem'[w].res = mem[w].res /\ mem'[w].lease = mem[w].lease
      BY <1>0, <2>2 DEF Entries
    <3> QED
      BY <2>2, <3>1 DEF Draws
  <2> QED
    BY <2>1, <2>2, PhaseFailsDraws
<1> QED
  BY <1>1, <1>2, <1>3, <1>4, <1>5 DEF PhaseOutcome

LEMMA ReplayDraws ==
  ASSUME ClaimInv,
         \/ ReplayReconciliation \/ ReplaySchedule \/ RecoveryUndone \/ ReplayReleased
         \/ ReplayHeld \/ ReplayTerminal \/ ReplayAmbiguous \/ ReplayProgress
         \/ ReplayReap \/ ReapItem \/ ReleaseAgain
  PROVE  Draws
<1>0. call \in CallRecords /\ mem \in [Works -> Entries]
  BY DEF ClaimInv, Steady, BooksTyped
<1>1. ASSUME NEW w, NEW k, NEW l, ReplayWork(w, k, l), l # "idle" PROVE Draws
  BY <1>0, <1>1, MoveDraws DEF ReplayWork, Goto, CallRecords
<1>2. CASE ReplayReconciliation \/ RecoveryUndone \/ ReplayReleased \/ ReplayHeld
  <2>1. \E j : ReplayNext(j)
    BY <1>2 DEF ReplayReconciliation, RecoveryUndone, ReplayReleased, ReplayHeld
  <2> QED
    BY <2>1, ReplayNextDraws
<1>3. CASE ReplaySchedule
  <2>1. \/ \E j : ReplayNext(j)
        \/ UNCHANGED mem /\ pc' # "idle" /\ \E u : call' = [call EXCEPT !.undo = u]
    BY <1>3 DEF ReplaySchedule, Goto
  <2> QED
    BY <1>0, <2>1, ReplayNextDraws, MoveDraws DEF CallRecords
<1>4. CASE ReplayTerminal \/ ReplayAmbiguous \/ ReapItem
  <2>1. \/ \E j : ReplayNext(j)
        \/ \E w, k : \E l \in {"refree", "live", "project"} : ReplayWork(w, k, l)
    BY <1>4 DEF ReplayTerminal, ReplayAmbiguous, ReapItem
  <2> QED
    BY <1>1, <2>1, ReplayNextDraws
<1>5. CASE ReplayProgress
  <2>1. /\ pc' # "idle"
        /\ \/ UNCHANGED mem
           \/ \E x : mem' = [mem EXCEPT ![Subject].life = x]
        /\ \/ call' = [call EXCEPT !.at = @ + 1, !.changed = TRUE]
           \/ call' = [call EXCEPT !.at = @ + 1]
    BY <1>5 DEF ReplayProgress, Goto
  <2>2. call'.res = call.res
    BY <1>0, <2>1 DEF CallRecords
  <2>3. \A w \in Works : mem'[w].res = mem[w].res /\ mem'[w].lease = mem[w].lease
    BY <1>0, <2>1 DEF Entries
  <2> QED
    BY <2>1, <2>2, <2>3 DEF Draws
<1>6. CASE ReplayReap
  <2>1. UNCHANGED mem /\ pc' # "idle" /\ \E t : call' = [call EXCEPT !.todo = t]
    BY <1>6 DEF ReplayReap, Goto
  <2> QED
    BY <1>0, <2>1, MoveDraws DEF CallRecords
<1>7. CASE ReleaseAgain
  <2>1. \/ \E j : ReplayNext(j)
        \/ UNCHANGED <<call, mem>> /\ pc' # "idle"
    BY <1>7 DEF ReleaseAgain, Try, Goto
  <2> QED
    BY <2>1, ReplayNextDraws, MoveDraws
<1> QED
  BY <1>2, <1>3, <1>4, <1>5, <1>6, <1>7

\* What the projection of an answer makes of the entry.
LEMMA ProjectedIs ==
  ASSUME mem \in [Works -> Entries], call.w \in Works, NEW p, NEW o, mem' = Projected(p, o)
  PROVE  /\ \A v \in Works \ {call.w} : mem'[v] = mem[v]
         /\ mem'[call.w].place = p /\ mem'[call.w].res = mem[call.w].res
         /\ mem'[call.w].life = lanes[call.w].life /\ mem'[call.w].lease = lanes[call.w].fence
<1> DEFINE s == AfterAnswer(mem, call.w, p, o)
           b == IF p = "RECONCILIATION" THEN lanes[call.w].fence # Replayed.lease ELSE s[call.w].rebound
<1>1. mem' = [s EXCEPT ![call.w].lease = lanes[call.w].fence, ![call.w].rebound = b]
  BY DEF Projected
<1>2. /\ DOMAIN s = Works /\ \A v \in Works \ {call.w} : s[v] = mem[v]
      /\ s[call.w].place = p /\ s[call.w].res = mem[call.w].res /\ s[call.w].life = lanes[call.w].life
      /\ DOMAIN s[call.w] = DOMAIN mem[call.w]
  BY DEF AfterAnswer, Entries
<1>3. DOMAIN s[call.w] = {"place", "lease", "res", "life", "ev", "rebound", "outcome"}
  BY <1>2 DEF Entries
<1> HIDE DEF s, b
<1> QED
  BY <1>1, <1>2, <1>3

LEMMA ProjectDraws ==
  ASSUME ClaimInv, ProjectReap \/ ProjectOutcome
  PROVE  Draws
<1> DEFINE v == call.w
<1>0. call \in CallRecords /\ mem \in [Works -> Entries] /\ v \in Works
  <2>1. pc \in OnClaim
    BY DEF ProjectReap, ProjectOutcome, At, OnClaim
  <2> QED
    BY <2>1, TokensAreNumbers DEF ClaimInv, Steady, BooksTyped
<1>1. ASSUME NEW p, NEW k, mem' = Projected(p, k), call'.res = call.res, pc' # "idle"
      PROVE  Draws
  <2>1. \A w \in Works : mem'[w].res = mem[w].res
                         /\ mem'[w].lease = IF w = v THEN lanes[v].fence ELSE mem[w].lease
    BY <1>0, <1>1, ProjectedIs
  <2> QED
    BY <1>1, <2>1 DEF Draws
<1>2. CASE ProjectReap
  <2>1. \/ \E j : ReplayNext(j)
        \/ /\ mem' = Projected("RELEASED", "AMBIGUOUS_REAPED") /\ pc' # "idle"
           /\ call' = [call EXCEPT !.todo = Tail(@), !.changed = TRUE]
    BY <1>2 DEF ProjectReap, Goto
  <2>2. call' = [call EXCEPT !.todo = Tail(@), !.changed = TRUE] => call'.res = call.res
    BY <1>0 DEF CallRecords
  <2> QED
    BY <1>1, <2>1, <2>2, ReplayNextDraws
<1>3. CASE ProjectOutcome
  <2>1. \/ RecoveryPhaseFails
        \/ /\ mem' = Projected(PlaceAfter(call.kind), call.kind) /\ pc' # "idle"
           /\ call' = [call EXCEPT !.at = @ + 1, !.w = "NONE", !.kind = "NONE", !.changed = TRUE]
    BY <1>3 DEF ProjectOutcome, Goto
  <2>2. call' = [call EXCEPT !.at = @ + 1, !.w = "NONE", !.kind = "NONE", !.changed = TRUE]
          => call'.res = call.res
    BY <1>0 DEF CallRecords
  <2> QED
    BY <1>1, <2>1, <2>2, RecoveryPhaseFailsDraws
<1> QED
  BY <1>2, <1>3

LEMMA ScanDraws ==
  ASSUME ClaimInv,
         \/ StartScan \/ (\E w \in Works : ScanHealthy(w) \/ ScanRepair(w))
         \/ Repaired \/ SaveRecovery \/ SaveRecoveredJournal
  PROVE  Draws
<1>0. call \in CallRecords
  BY DEF ClaimInv, Steady, BooksTyped
<1>1. ASSUME UNCHANGED mem, pc' # "idle", call'.res = call.res
      PROVE  Draws
  BY <1>1, MoveDraws
<1>2. CASE StartScan \/ SaveRecovery \/ SaveRecoveredJournal
  <2>1. \/ EndCall(journal) \/ EndCall(jm)
        \/ /\ UNCHANGED mem /\ pc' # "idle"
           /\ UNCHANGED call \/ \E x : call' = [call EXCEPT !.left = x]
    BY <1>2 DEF StartScan, SaveRecovery, SaveRecoveredJournal, Try, Goto, At
  <2>2. (\E x : call' = [call EXCEPT !.left = x]) => call'.res = call.res
    BY <1>0 DEF CallRecords
  <2> QED
    BY <1>1, <2>1, <2>2, StopDraws
<1>3. ASSUME NEW w \in Works, ScanHealthy(w) PROVE Draws
  <2>1. UNCHANGED mem /\ pc' # "idle" /\ call' = [call EXCEPT !.left = @ \ {w}]
    BY <1>3 DEF ScanHealthy, At
  <2>2. call'.res = call.res
    BY <1>0, <2>1 DEF CallRecords
  <2> QED
    BY <1>1, <2>1, <2>2
<1>4. ASSUME NEW w \in Works, ScanRepair(w) PROVE Draws
  <2> DEFINE kind == IF MayResume(w) THEN "RECLAIM" ELSE "COMPENSATE"
  <2>1. \/ EndCall(journal)
        \/ /\ UNCHANGED mem /\ pc' # "idle"
           /\ call' = [call EXCEPT !.w = w, !.kind = kind, !.at = Len(jm'), !.wrote = TRUE]
    BY <1>4 DEF ScanRepair, Try, Goto
  <2> HIDE DEF kind
  <2>2. call' = [call EXCEPT !.w = w, !.kind = kind, !.at = Len(jm'), !.wrote = TRUE]
          => call'.res = call.res
    BY <1>0 DEF CallRecords
  <2> QED
    BY <1>1, <2>1, <2>2, StopDraws
<1>5. CASE Repaired
  <2> DEFINE c == [call EXCEPT !.left = @ \ {call.w}, !.w = "NONE", !.kind = "NONE", !.changed = TRUE]
  <2>1. RepairFails \/ (UNCHANGED mem /\ pc' # "idle" /\ call' = c)
    BY <1>5 DEF Repaired, Try, Goto
  <2>2. c.res = call.res
    BY <1>0 DEF CallRecords
  <2> HIDE DEF c
  <2> QED
    BY <1>1, <2>1, <2>2, RepairFailsDraws
<1> QED
  BY <1>2, <1>3, <1>4, <1>5

LEMMA CompensateDraws ==
  ASSUME ClaimInv, Compensate
  PROVE  Draws
<1> DEFINE v == call.w
<1>0. mem \in [Works -> Entries] /\ v \in Works
  <2>1. pc \in OnClaim
    BY DEF Compensate, CompensateExpire, CompensateSettle, CompensateReclaim, Terminalize,
      CompensateRelease, CompensateFree, At, OnClaim, Compensating
  <2> QED
    BY <2>1, TokensAreNumbers DEF ClaimInv, Steady, BooksTyped
<1>1. CASE CompensateExpire \/ CompensateSettle \/ Terminalize \/ CompensateRelease
  <2>1. RepairFails \/ (UNCHANGED <<call, mem>> /\ pc' # "idle")
    BY <1>1 DEF CompensateExpire, CompensateSettle, Terminalize, CompensateRelease, Try, At, Goto
  <2> QED
    BY <2>1, RepairFailsDraws, MoveDraws
<1>2. CASE CompensateReclaim
  <2>1. \/ RepairFails
        \/ /\ nextLeaseFence' = nextLeaseFence + 1 /\ pc' # "idle" /\ UNCHANGED call
           /\ mem' = [mem EXCEPT ![v].lease = nextLeaseFence]
    BY <1>2 DEF CompensateReclaim, ReclaimLease, Try, Goto
  <2> QED
    BY <1>0, <2>1, RepairFailsDraws, ReclaimDraws
<1>3. CASE CompensateFree
  <2> DEFINE e == [mem[v] EXCEPT !.place = "RELEASED", !.lease = lanes[v].fence,
                     !.life = lanes[v].life, !.outcome = "STORE_DIVERGENCE_COMPENSATED"]
  <2>1. \/ RepairFails
        \/ pc' # "idle" /\ UNCHANGED call /\ mem' = [mem EXCEPT ![v] = e]
    BY <1>3 DEF CompensateFree, Try, Goto
  <2>2. e.lease = lanes[v].fence /\ e.res = mem[v].res
    BY <1>0 DEF Entries
  <2> HIDE DEF e
  <2>3. ASSUME pc' # "idle", UNCHANGED call, mem' = [mem EXCEPT ![v] = e]
        PROVE  Draws
    BY <1>0, <2>2, <2>3 DEF Draws
  <2> QED
    BY <2>1, <2>3, RepairFailsDraws
<1> QED
  BY <1>1, <1>2, <1>3 DEF Compensate

LEMMA StepDraws ==
  ASSUME ClaimInv, Next
  PROVE  Draws
<1>1. CASE Calls \/ (\E w \in Works, k \in Answers : StartOutcome(w, k))
  <2>1. mem' = sched /\ pc' # "idle" /\ call'.res = 0
    BY <1>1 DEF Calls, StartSchedule, StartReap, StartRecovery, StartOutcome, Begin, Goto, NoCall
  <2> QED
    BY <2>1 DEF Draws
<1>2. CASE SaveOutcome
  <2>1. call.w \in Works
    BY <1>2, TokensAreNumbers DEF SaveOutcome, At, OnClaim
  <2>2. \/ EndCall([journal EXCEPT ![Len(journal)].phase = "RECOVERY_REQUIRED"])
        \/ /\ mem' = AfterAnswer(mem, call.w, PlaceAfter(call.kind), call.kind)
           /\ UNCHANGED call /\ pc' # "idle"
    BY <1>2 DEF SaveOutcome, Try, Goto
  <2> QED
    BY <2>1, <2>2, MarkedJournal, EndDraws, AnswerDraws DEF Phases
<1>3. CASE CloseTransaction
  <2>1. \/ EndCall([journal EXCEPT ![Len(journal)].phase = "COMMITTED"]) \/ EndCall(journal)
    BY <1>3 DEF CloseTransaction, Try
  <2> QED
    BY <2>1, MarkedJournal, EndDraws, StopDraws DEF Phases, ClosedPhases
<1>4. CASE SaveReap \/ SupersedeHeld \/ Crash
  <2>1. EndCall(journal) \/ (UNCHANGED <<call, mem>> /\ pc' # "idle")
    BY <1>4 DEF SaveReap, SupersedeHeld, Crash, Try, Goto
  <2> QED
    BY <2>1, StopDraws, MoveDraws
<1>5. CASE \E w \in Works : Lapse(w)
  BY <1>5 DEF Lapse, Draws
<1> QED
  BY <1>1, <1>2, <1>3, <1>4, <1>5, SchedulingDraws, PhaseOutcomeDraws, ReplayDraws, ProjectDraws,
    ScanDraws, CompensateDraws DEF Next, Steps, Recovery

\* The state gets the tokens of the copy.
LEMMA SavedTokens ==
  ASSUME ClaimInv, Next, NEW w \in Works
  PROVE  sched'[w].lease \in {sched[w].lease, mem[w].lease}
         /\ sched'[w].res \in {sched[w].res, mem[w].res}
<1>1. CASE SaveOutcome
  <2>1. call.w \in Works /\ mem \in [Works -> Entries]
    BY <1>1, TokensAreNumbers DEF SaveOutcome, At, OnClaim, ClaimInv, Steady, BooksTyped
  <2>2. \/ UNCHANGED sched
        \/ sched' = AfterAnswer(mem, call.w, PlaceAfter(call.kind), call.kind)
    BY <1>1 DEF SaveOutcome, Try
  <2> QED
    BY <2>1, <2>2 DEF AfterAnswer, Entries
<1>2. CASE SaveSchedule \/ SaveReap \/ SaveRecovery
  <2>1. sched' = mem \/ UNCHANGED sched
    BY <1>2 DEF SaveSchedule, SaveReap, SaveRecovery, Try
  <2> QED
    BY <2>1
<1> QED
  BY <1>1, <1>2, OnlyWritesChange

-----------------------------------------------------------------------------
(* Kept leaves a sequence alone when it keeps all of it.                   *)

LEMMA KeptWhole ==
  ASSUME NEW S, NEW s \in Seq(S), NEW I, DOMAIN s \subseteq I
  PROVE  Kept(s, I) = s
<1>1. PICK f : Keeps(s, I, Len(s), f) /\ Kept(s, I) = f[Len(s)]
  BY KeptIs
<1> DEFINE Good(n) == /\ f[n] \in Seq(S) /\ Len(f[n]) = n
                      /\ \A i \in 1 .. n : f[n][i] = s[i]
           Fails == {n \in 0 .. Len(s) : ~ Good(n)}
<1>2. Len(s) \in Nat /\ DOMAIN s = 1 .. Len(s)
  OBVIOUS
<1>3. \A n \in 0 .. Len(s) :
        f[n] = IF n = 0 THEN <<>> ELSE IF n \in I THEN Append(f[n - 1], s[n]) ELSE f[n - 1]
  BY <1>1, <1>2 DEF Keeps
<1>4. ASSUME Fails # {} PROVE FALSE
  <2>1. PICK n \in Fails : \A m \in Fails : n <= m
    <3> Fails \subseteq Nat
      OBVIOUS
    <3> QED
      BY <1>4, LeastOf
  <2>2. n # 0
    <3>1. f[0] = <<>>
      BY <1>2, <1>3
    <3>2. Good(0)
      BY <3>1
    <3> QED
      BY <2>1, <3>2
  <2>3. n - 1 \in 0 .. Len(s) /\ n \in 1 .. Len(s) /\ n \in I
    BY <1>2, <2>1, <2>2
  <2>4. Good(n - 1)
    BY <2>1, <2>3
  <2> DEFINE g == f[n - 1]
  <2>5. f[n] = Append(g, s[n]) /\ s[n] \in S
    <3>1. f[n] = Append(f[n - 1], s[n])
      BY <1>3, <2>1, <2>2, <2>3
    <3>2. s[n] \in S
      BY <2>3
    <3> QED
      BY <3>1, <3>2
  <2>6. g \in Seq(S) /\ Len(g) = n - 1 /\ \A i \in 1 .. n - 1 : g[i] = s[i]
    BY <2>4
  <2> HIDE DEF g
  <2>7. f[n] \in Seq(S) /\ Len(f[n]) = n
    BY <2>3, <2>5, <2>6
  <2>8. \A i \in 1 .. n : f[n][i] = IF i <= n - 1 THEN g[i] ELSE s[n]
    BY <2>3, <2>5, <2>6
  <2>9. Good(n)
    BY <2>3, <2>6, <2>7, <2>8
  <2> QED
    BY <2>1, <2>9
<1>5. Good(Len(s))
  BY <1>2, <1>4
<1>6. /\ Kept(s, I) \in Seq(S) /\ Len(Kept(s, I)) = Len(s)
      /\ \A i \in 1 .. Len(s) : Kept(s, I)[i] = s[i]
  BY <1>1, <1>5
<1> QED
  BY <1>2, <1>6, SeqEqual

LEMMA PendingTwice ==
  ASSUME NEW j \in Seq(Transactions)
  PROVE  Pending(Pending(j)) = Pending(j)
<1> DEFINE I == {i \in DOMAIN j : j[i].phase \notin ClosedPhases}
           k == Pending(j)
<1>1. Pending(j) = Kept(j, I)
  BY DEF Pending
<1> HIDE DEF I
<1>2. /\ Kept(j, I) \in Seq(Transactions)
      /\ \A i \in DOMAIN Kept(j, I) : \E n \in DOMAIN j : n \in I /\ Kept(j, I)[i] = j[n]
  BY KeptElements
<1>3. k \in Seq(Transactions) /\ \A i \in DOMAIN k : k[i].phase \notin ClosedPhases
  BY <1>1, <1>2 DEF I
<1> HIDE DEF k
<1>4. DOMAIN k \subseteq {i \in DOMAIN k : k[i].phase \notin ClosedPhases}
  BY <1>3
<1>5. Kept(k, {i \in DOMAIN k : k[i].phase \notin ClosedPhases}) = k
  BY <1>3, <1>4, KeptWhole
<1>6. Pending(k) = k
  BY <1>5 DEF Pending
<1> QED
  BY <1>6 DEF k

-----------------------------------------------------------------------------
\* Every token in the books was issued by its store.
BooksIssued ==
  /\ \A w \in Works : sched[w].lease < nextLeaseFence /\ mem[w].lease < nextLeaseFence
  /\ \A w \in Works : sched[w].res < nextReservationFence /\ mem[w].res < nextReservationFence
  /\ call.res < nextReservationFence
  /\ \A e \in evidence : e.fence < nextLeaseFence

AtRest == pc = "idle" => jm = <<>> /\ Pending(journal) = journal

TokenInv == StoresIssued /\ BooksIssued /\ AtRest /\ mishaps \in 0 .. MaxMishaps

LEMMA TokenInvKeeps ==
  ASSUME TokenInv, Next
  PROVE  TokenInv'
<1>0. /\ StoresIssued /\ ClaimInv /\ ClaimInv' /\ StoresIssued'
      /\ nextLeaseFence <= nextLeaseFence' /\ nextReservationFence <= nextReservationFence'
  BY StoresIssuedKeeps DEF TokenInv, StoresIssued
<1>1. /\ nextLeaseFence \in Nat \ {0} /\ nextLeaseFence' \in Nat
      /\ nextReservationFence \in Nat \ {0} /\ nextReservationFence' \in Nat
      /\ sched \in [Works -> Entries] /\ mem \in [Works -> Entries]
      /\ lanes \in [Works -> Lanes] /\ evidence \subseteq Events
      /\ call \in CallRecords
  BY <1>0 DEF ClaimInv, Steady, StoresTyped, BooksTyped
<1>2. Draws
  BY <1>0, StepDraws
<1>3. \A w \in Works : mem'[w].lease < nextLeaseFence' /\ sched'[w].lease < nextLeaseFence'
  <2> SUFFICES ASSUME NEW w \in Works
               PROVE  mem'[w].lease < nextLeaseFence' /\ sched'[w].lease < nextLeaseFence'
    OBVIOUS
  <2>1. /\ mem[w].lease \in Nat /\ sched[w].lease \in Nat /\ lanes[w].fence \in Nat
        /\ mem[w].lease < nextLeaseFence /\ sched[w].lease < nextLeaseFence
        /\ lanes[w].fence < nextLeaseFence
    BY <1>0, <1>1 DEF TokenInv, BooksIssued, StoresIssued, LanesIssued, Entries, Lanes
  <2>2. \/ mem'[w].lease \in {0, mem[w].lease, sched[w].lease, lanes[w].fence}
        \/ mem'[w].lease = nextLeaseFence /\ nextLeaseFence' = nextLeaseFence + 1
    BY <1>2 DEF Draws
  <2>3. sched'[w].lease \in {sched[w].lease, mem[w].lease}
    BY <1>0, SavedTokens
  <2> QED
    BY <1>0, <1>1, <2>1, <2>2, <2>3
<1>4. \A w \in Works : mem'[w].res < nextReservationFence' /\ sched'[w].res < nextReservationFence'
  <2> SUFFICES ASSUME NEW w \in Works
               PROVE  mem'[w].res < nextReservationFence' /\ sched'[w].res < nextReservationFence'
    OBVIOUS
  <2>1. /\ mem[w].res \in Nat /\ sched[w].res \in Nat /\ call.res \in Nat
        /\ mem[w].res < nextReservationFence /\ sched[w].res < nextReservationFence
        /\ call.res < nextReservationFence
    BY <1>1 DEF TokenInv, BooksIssued, Entries, CallRecords
  <2>2. mem'[w].res \in {0, mem[w].res, sched[w].res, call.res}
    BY <1>2 DEF Draws
  <2>3. sched'[w].res \in {sched[w].res, mem[w].res}
    BY <1>0, SavedTokens
  <2> QED
    BY <1>0, <1>1, <2>1, <2>2, <2>3
<1>5. call'.res < nextReservationFence'
  <2>1. call.res \in Nat /\ call.res < nextReservationFence
    BY <1>1 DEF TokenInv, BooksIssued, CallRecords
  <2>2. \A w \in Works : reserved'[w] < nextReservationFence'
    BY <1>0 DEF StoresIssued, LedgerIssued
  <2>3. call'.res \in {0, call.res} \/ \E w \in Works : call'.res = reserved'[w]
    BY <1>2 DEF Draws
  <2> QED
    BY <1>0, <1>1, <2>1, <2>2, <2>3
<1>6. \A e \in evidence' : e.fence < nextLeaseFence'
  <2>1. \A e \in evidence : e.fence \in Nat /\ e.fence < nextLeaseFence
    BY <1>1 DEF TokenInv, BooksIssued, Events
  <2>2. \A w \in Works : lanes[w].fence \in Nat /\ lanes[w].fence < nextLeaseFence
    BY <1>0, <1>1 DEF StoresIssued, LanesIssued, Lanes
  <2>3. \A e \in evidence' : e \in evidence \/ \E w \in Works : e.fence = lanes[w].fence
    BY <1>0, StepUsesStores DEF UsesStores, Records, Event
  <2> QED
    BY <1>0, <1>1, <2>1, <2>2, <2>3
<1>7. AtRest'
  <2>1. CASE Ends
    <3>1. PICK j \in Seq(Transactions) : EndCall(j)
      BY <2>1 DEF Ends
    <3>2. journal' = Pending(j) /\ jm' = <<>>
      BY <3>1 DEF EndCall
    <3>3. Pending(Pending(j)) = Pending(j)
      BY PendingTwice
    <3> QED
      BY <3>2, <3>3 DEF AtRest, Pending
  <2>2. CASE UNCHANGED <<pc, journal, call, jm>>
    BY <2>2 DEF TokenInv, AtRest, Pending
  <2>3. CASE pc' # "idle"
    BY <2>3 DEF AtRest
  <2> QED
    BY <1>2, <2>1, <2>2, <2>3 DEF Draws
<1>8. mishaps' \in 0 .. MaxMishaps
  BY StepIsUnlucky, SchedulerAssumption DEF TokenInv, Unlucky
<1> QED
  BY <1>0, <1>3, <1>4, <1>5, <1>6, <1>7, <1>8 DEF TokenInv, BooksIssued

LEMMA InitTokens == Init => TokenInv
<1> SUFFICES ASSUME Init PROVE TokenInv
  OBVIOUS
<1>1. StoresIssued
  BY InitIssues
<1>2. /\ nextLeaseFence = 1 /\ nextReservationFence = 1 /\ evidence = {} /\ call = NoCall
      /\ sched = [w \in Works |-> NoEntry] /\ mem = [w \in Works |-> NoEntry]
      /\ journal = <<>> /\ jm = <<>> /\ mishaps = 0
  BY DEF Init, LaneInit, LedgerInit
<1>3. BooksIssued
  BY <1>2 DEF BooksIssued, NoEntry, NoCall
<1>4. Pending(<<>>) = <<>>
  <2>1. <<>> \in Seq(Transactions)
    OBVIOUS
  <2> DEFINE I == {i \in DOMAIN <<>> : <<>>[i].phase \notin ClosedPhases}
  <2>2. Pending(<<>>) = Kept(<<>>, I)
    BY DEF Pending
  <2> HIDE DEF I
  <2>3. DOMAIN <<>> \subseteq I
    OBVIOUS
  <2> QED
    BY <2>1, <2>2, <2>3, KeptWhole
<1>5. AtRest /\ mishaps \in 0 .. MaxMishaps
  BY <1>2, <1>4, SchedulerAssumption DEF AtRest
<1> QED
  BY <1>1, <1>3, <1>5 DEF TokenInv

\* Every token of the state, its copy, the call and the evidence is one that
\* its store issued, and between calls only pending transactions are left.
THEOREM TokenInvariant == Spec => []TokenInv
<1>1. TokenInv /\ UNCHANGED vars => TokenInv'
  <2> SUFFICES ASSUME TokenInv, UNCHANGED vars PROVE TokenInv'
    OBVIOUS
  <2>1. StoresIssued'
    BY StoresIssuedKeeps DEF TokenInv
  <2>2. BooksIssued' /\ AtRest' /\ mishaps' \in 0 .. MaxMishaps
    BY DEF TokenInv, BooksIssued, AtRest, Pending, vars, storeVars, laneVars, ledgerVars
  <2> QED
    BY <2>1, <2>2 DEF TokenInv
<1>2. TokenInv /\ [Next]_vars => TokenInv'
  BY <1>1, TokenInvKeeps
<1> QED
  BY InitTokens, <1>2, PTL DEF Spec

\* Every variable keeps its shape, no entry and no event names a token that
\* its store did not issue, and a call that ends, or dies, leaves nothing in
\* memory and nothing in the journal that is done with.
THEOREM TypeCorrect == Spec => []TypeOK
<1>1. TokenInv => TypeOK
  <2> SUFFICES ASSUME TokenInv PROVE TypeOK
    OBVIOUS
  <2>1. ClaimInv /\ LanesIssued /\ LedgerIssued
    BY DEF TokenInv, StoresIssued
  <2>2. /\ lanes \in [Works -> Lanes] /\ lapsed \subseteq Works /\ evidence \subseteq Events
        /\ reserved \in [Works -> Nat] /\ nextReservationFence \in Nat
        /\ sched \in [Works -> Entries] /\ mem \in [Works -> Entries]
        /\ pc = "idle" => call = NoCall
    BY <2>1 DEF ClaimInv, Steady, StoresTyped, BooksTyped, AtStep, CallFits
  <2>3. reserved \in [Works -> 0 .. nextReservationFence - 1]
    <3>1. ASSUME NEW w \in Works PROVE reserved[w] \in 0 .. nextReservationFence - 1
      <4>1. reserved[w] \in Nat /\ reserved[w] < nextReservationFence
        BY <2>1, <2>2 DEF LedgerIssued
      <4> QED
        BY <2>2, <4>1
    <3> QED
      BY <2>2, <3>1
  <2>4. \A e \in evidence : e.w \in Works /\ e.fence < nextLeaseFence
    BY <2>2 DEF TokenInv, BooksIssued, Events
  <2> QED
    BY <2>1, <2>2, <2>3, <2>4 DEF TokenInv, BooksIssued, AtRest, LanesIssued, TypeOK
<1> QED
  BY <1>1, TokenInvariant, PTL
================================================================================
